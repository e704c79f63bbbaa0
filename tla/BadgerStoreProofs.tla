------------------------- MODULE BadgerStoreProofs -------------------------
(***************************************************************************)
(* Proofs about BadgerStore for any number of transactions, iterations and *)
(* calls of Close: type correctness, that iterators do not outlive their   *)
(* transaction, that doTX always ends it, that nothing is committed on     *)
(* stale reads and that writable transactions implement TxStore.           *)
(*                                                                         *)
(* IndInv adds to the invariants what they depend on: which state Badger's *)
(* transaction is in at every point of doTX, that an open iterator belongs *)
(* to a transaction, and that doTX has no result, no pending writes and no *)
(* hooks behind it where it should not.  ConflictInv says what Badger's    *)
(* conflict check works with: it knows of all that a callback was shown,   *)
(* and of every key that is no longer what the snapshot of an open         *)
(* transaction says.                                                       *)
(***************************************************************************)
EXTENDS BadgerStore, TLAPS

Running == {"fn", "end", "unwind"}
Ended == {"hook", "defer", "returned", "panicked"}

TxnFollowsDoTX ==
    \A t \in Tx : /\ tpc[t] = "idle" => txn[t] = "none"
                  /\ tpc[t] \in Running => txn[t] = "open"
                  /\ tpc[t] \in Ended => txn[t] = "discarded"
IteratorsOwned ==
    \A i \in Iter : open[i] => /\ ipc[i] # "idle"
                               /\ at[i] \in Tx /\ txn[at[i]] = "open"
PendingOnlyWhenOpen == \A t \in Tx : txn[t] # "open" => writes[t] = NoChange
ResultFollowsDoTX ==
    \A t \in Tx : (result[t] = "none") <=> tpc[t] \in Running \cup {"idle", "panicked"}
HookFollowsDoTX ==
    \A t \in Tx : tpc[t] \in Running \cup {"idle", "hook"} => hook[t] = "none"

IndInv ==
    /\ TypeOK
    /\ TxnFollowsDoTX
    /\ IteratorsOwned
    /\ PendingOnlyWhenOpen
    /\ ResultFollowsDoTX
    /\ HookFollowsDoTX

-----------------------------------------------------------------------------
(* Type correctness. *)

\* Applying changes to contents gives contents, for any keys and values.
LEMMA ApplyType ==
    ASSUME NEW d \in Contents, NEW w \in [Key -> Val \cup {Absent, Same}]
    PROVE  Apply(d, w) \in Contents
BY DEF Apply, Contents

LEMMA TypeInit == Init => TypeOK
BY DEF Init, TypeOK, TPC, IPC, Contents, Empty, NoChange,
       Closing!CallInit, Closing!CallTypeOK

\* Ending the Badger transaction, with or without a commit, keeps the types.
LEMMA RollbackType ==
    ASSUME TypeOK, NEW t \in Tx, rollback(t) \/ commitOk(t)
    PROVE  /\ ipc' \in [Iter -> IPC] /\ at' \in [Iter -> Tx \cup {None}]
           /\ open' \in [Iter -> BOOLEAN]
           /\ txn' \in [Tx -> {"none", "open", "discarded"}]
           /\ db' \in Contents /\ base' \in [Tx -> Contents]
           /\ writes' \in [Tx -> [Key -> Val \cup {Absent, Same}]]
           /\ reads' \in [Tx -> SUBSET Key] /\ dirty' \in [Tx -> SUBSET Key]
           /\ dbOpen' \in BOOLEAN /\ seen' \in [Tx -> SUBSET Key]
<1>1. open' \in [Iter -> BOOLEAN]
  <2>1. open' = [i \in Iter |-> open[i] /\ at[i] # t]
    BY DEF rollback, commitOk, CloseIterators
  <2> QED  BY <2>1, Zenon
<1>2. Empty \in Contents /\ NoChange \in [Key -> Val \cup {Absent, Same}]
  BY DEF Empty, NoChange, Contents
<1>3. /\ txn' \in [Tx -> {"none", "open", "discarded"}]
      /\ base' \in [Tx -> Contents]
      /\ writes' \in [Tx -> [Key -> Val \cup {Absent, Same}]]
      /\ reads' \in [Tx -> SUBSET Key] /\ seen' \in [Tx -> SUBSET Key]
  <2>1. Discarded(t)
    BY DEF rollback, commitOk
  <2> QED  BY <1>2, <2>1 DEF Discarded, TypeOK
<1>4. db' \in Contents
  <2>1. writes[t] \in [Key -> Val \cup {Absent, Same}]
    BY DEF TypeOK
  <2> QED  BY <2>1, ApplyType DEF rollback, commitOk, TypeOK
<1>5. dirty' \in [Tx -> SUBSET Key]
  BY DEF rollback, commitOk, TypeOK, Written
<1> QED
  BY <1>1, <1>3, <1>4, <1>5 DEF rollback, commitOk, TypeOK

LEMMA TypeNext == TypeOK /\ [Next]_vars => TypeOK'
<1> SUFFICES ASSUME TypeOK, [Next]_vars PROVE TypeOK'
  OBVIOUS
<1>1. CASE UNCHANGED vars
  BY <1>1 DEF TypeOK, vars, doVars, iterVars, dbVars, closeVars, Closing!CallTypeOK
<1>2. ASSUME NEW t \in Tx,
             Begin(t) \/ Cancel(t) \/ CallbackEnds(t) \/ CallbackPanics(t)
      PROVE  TypeOK'
  <2> USE DEF TypeOK, Goto, doVars, iterVars, dbVars, closeVars, TPC, Closing!CallTypeOK
  <2>1. CASE Begin(t)
    BY <2>1 DEF Begin
  <2>2. CASE Cancel(t)
    BY <2>2 DEF Cancel
  <2>3. CASE CallbackEnds(t)
    BY <2>3 DEF CallbackEnds, CallbackReturns
  <2>4. CASE CallbackPanics(t)
    BY <2>4 DEF CallbackPanics
  <2> QED  BY <1>2, <2>1, <2>2, <2>3, <2>4
<1>3. ASSUME NEW t \in Tx, NEW k \in Key, Get(t, k)  PROVE TypeOK'
  BY <1>3 DEF TypeOK, Get, Shows, doVars, iterVars, closeVars, Closing!CallTypeOK
<1>4. ASSUME NEW t \in Tx, NEW k \in Key, NEW v \in Val \cup {Absent}, Change(t, k, v)
      PROVE  TypeOK'
  <2>1. writes' \in [Tx -> [Key -> Val \cup {Absent, Same}]]
    BY <1>4 DEF TypeOK, Change
  <2> QED
    BY <1>4, <2>1 DEF TypeOK, Change, doVars, iterVars, closeVars, Closing!CallTypeOK
<1>5. ASSUME NEW t \in Tx, NEW i \in Iter, newIterator(i, t)  PROVE TypeOK'
  <2>1. /\ ipc' \in [Iter -> IPC]
        /\ at' \in [Iter -> Tx \cup {None}]
        /\ open' \in [Iter -> BOOLEAN]
    BY <1>5 DEF TypeOK, newIterator, IPC
  <2> QED
    BY <1>5, <2>1 DEF TypeOK, newIterator, doVars, dbVars, closeVars, Closing!CallTypeOK
<1>6. ASSUME NEW i \in Iter, RLock(i) \/ NestedIteration(i) \/ RUnlock(i)
      PROVE  TypeOK'
  <2> USE DEF TypeOK, doVars, dbVars, closeVars, IPC, Closing!CallTypeOK
  <2>1. CASE RLock(i)
    BY <2>1 DEF RLock
  <2>2. CASE NestedIteration(i)
    BY <2>2 DEF NestedIteration
  <2>3. CASE RUnlock(i)
    BY <2>3 DEF RUnlock
  <2> QED  BY <1>6, <2>1, <2>2, <2>3
<1>7. ASSUME NEW i \in Iter, NEW k \in Key, Visit(i, k)  PROVE TypeOK'
  <2>1. reads' \in [Tx -> SUBSET Key]
    BY <1>7 DEF TypeOK, Visit
  <2>2. \/ seen' = [seen EXCEPT ![at[i]] = @ \cup {k}]
        \/ seen' = seen
    BY <1>7 DEF Visit, Shows
  <2>3. seen' \in [Tx -> SUBSET Key]
    <3>1. CASE seen' = seen
      BY <3>1 DEF TypeOK
    <3>2. CASE seen' = [seen EXCEPT ![at[i]] = @ \cup {k}]
      BY <3>2 DEF TypeOK
    <3> QED  BY <2>2, <3>1, <3>2
  <2> QED
    BY <1>7, <2>1, <2>3 DEF TypeOK, Visit, doVars, iterVars, closeVars, Closing!CallTypeOK
<1>8. ASSUME NEW t \in Tx,
             EndRead(t) \/ RollbackOnError(t) \/ RollbackOnContext(t) \/ Commit(t)
      PROVE  TypeOK'
  <2>1. rollback(t) \/ commitOk(t)
    BY <1>8 DEF EndRead, RollbackOnError, RollbackOnContext, Commit
  <2>2. PICK res \in {"nil", "appErr", "ErrCommitFailed"} : Ends(t, res)
    BY <1>8 DEF EndRead, RollbackOnError, RollbackOnContext, Commit
  <2>3. /\ tpc' \in [Tx -> TPC]
        /\ ctx' \in [Tx -> {"live", "done"}]
        /\ app' \in [Tx -> {"nil", "err"}]
        /\ result' \in [Tx -> {"none", "nil", "appErr", "ErrCommitFailed"}]
        /\ hook' = hook /\ UNCHANGED closeVars
    BY <2>2 DEF Ends, Goto, TypeOK, TPC
  <2> QED
    BY <2>1, <2>3, RollbackType DEF TypeOK, closeVars, Closing!CallTypeOK
<1>9. ASSUME NEW t \in Tx, InvokeHooks(t)  PROVE TypeOK'
  BY <1>9 DEF TypeOK, InvokeHooks, HookOf, Goto, iterVars, dbVars, closeVars, TPC,
       Closing!CallTypeOK
<1>10. ASSUME NEW t \in Tx, DeferredRollback(t)  PROVE TypeOK'
  <2>1. tpc' \in [Tx -> TPC]
    BY <1>10 DEF DeferredRollback, Goto, TypeOK, TPC
  <2> QED
    BY <1>10, <2>1, RollbackType DEF DeferredRollback, TypeOK, closeVars, Closing!CallTypeOK
<1>11. ASSUME NEW k \in Closer,
              Close(k) \/ DBClose(k) \/ CloseReturns(k) \/ CloseCancel(k)
       PROVE  TypeOK'
  <2>1. Closing!CallTypeOK'
    BY <1>11, Closing!CallTypeNext
       DEF TypeOK, Close, DBClose, CloseReturns, CloseCancel, Closing!CallStep
  <2> QED
    BY <1>11, <2>1 DEF TypeOK, Close, DBClose, CloseReturns, CloseCancel, doVars,
         iterVars, dbVars
<1> QED
  BY <1>1, <1>2, <1>3, <1>4, <1>5, <1>6, <1>7, <1>8, <1>9, <1>10, <1>11
     DEF Next, TxStep, Put, Delete

\* Every variable of the Badger store keeps its type, for any number of calls,
\* iterations, keys and values.
THEOREM TypeCorrect == Spec => []TypeOK
<1> QED  BY TypeInit, TypeNext, PTL DEF Spec

-----------------------------------------------------------------------------
(* The inductive invariant. *)

LEMMA IndInit == Init => IndInv
BY TypeInit, BadgerAssumption
   DEF Init, IndInv, TxnFollowsDoTX, IteratorsOwned, PendingOnlyWhenOpen,
       ResultFollowsDoTX, HookFollowsDoTX, Running, Ended, NoChange

\* tx.rollback() and tx.commit() end exactly the one transaction, with all of
\* its iterators and its pending writes.
LEMMA TxnEnds ==
    ASSUME TypeOK, NEW t \in Tx, rollback(t) \/ commitOk(t)
    PROVE  /\ txn'[t] = "discarded" /\ writes'[t] = NoChange
           /\ \A u \in Tx \ {t} : txn'[u] = txn[u] /\ writes'[u] = writes[u]
           /\ \A i \in Iter : open'[i] => open[i] /\ at[i] # t
           /\ at' = at /\ ipc' = ipc
<1>1. Discarded(t) /\ CloseIterators(t) /\ at' = at /\ ipc' = ipc
  BY DEF rollback, commitOk
<1>2. \A i \in Iter : open'[i] => open[i] /\ at[i] # t
  BY <1>1 DEF CloseIterators, TypeOK
<1> QED  BY <1>1, <1>2 DEF Discarded, TypeOK

\* A transaction that ends, by any of the ways out of doTX, keeps the facts
\* about Badger's transactions, iterators and pending writes.
LEMMA EndKeepsBadger ==
    ASSUME IndInv, TypeOK', NEW t \in Tx, rollback(t) \/ commitOk(t),
           NEW p \in Ended, tpc' = [tpc EXCEPT ![t] = p]
    PROVE  TxnFollowsDoTX' /\ IteratorsOwned' /\ PendingOnlyWhenOpen'
<1>1. /\ txn'[t] = "discarded" /\ writes'[t] = NoChange
      /\ \A u \in Tx \ {t} : txn'[u] = txn[u] /\ writes'[u] = writes[u]
      /\ \A i \in Iter : open'[i] => open[i] /\ at[i] # t
      /\ at' = at /\ ipc' = ipc
  BY TxnEnds DEF IndInv
<1>2. tpc'[t] = p /\ \A u \in Tx \ {t} : tpc'[u] = tpc[u]
  BY DEF IndInv, TypeOK
<1>3. TxnFollowsDoTX'
  BY <1>1, <1>2 DEF IndInv, TxnFollowsDoTX, Running, Ended
<1>4. IteratorsOwned'
  BY <1>1 DEF IndInv, IteratorsOwned
<1>5. PendingOnlyWhenOpen'
  BY <1>1 DEF IndInv, PendingOnlyWhenOpen, NoChange
<1> QED  BY <1>3, <1>4, <1>5

LEMMA IndNext == IndInv /\ [Next]_vars => IndInv'
<1> SUFFICES ASSUME IndInv, [Next]_vars PROVE IndInv'
  OBVIOUS
<1>0. TypeOK /\ TypeOK'
  BY TypeNext DEF IndInv
<1> USE DEF IndInv, TxnFollowsDoTX, IteratorsOwned, PendingOnlyWhenOpen,
            ResultFollowsDoTX, HookFollowsDoTX, Running, Ended
<1>1. CASE UNCHANGED vars
  BY <1>0, <1>1 DEF vars, doVars, iterVars, dbVars, NoChange
<1>2. ASSUME NEW t \in Tx, Begin(t)  PROVE IndInv'
  BY <1>0, <1>2 DEF Begin, Goto, iterVars, NoChange, TypeOK
<1>3. ASSUME NEW t \in Tx, Cancel(t)  PROVE IndInv'
  BY <1>0, <1>3 DEF Cancel, doVars, iterVars, dbVars, NoChange
<1>4. ASSUME NEW t \in Tx, CallbackEnds(t) \/ CallbackPanics(t)  PROVE IndInv'
  <2>1. /\ tpc[t] = "fn" /\ tpc'[t] \in {"end", "unwind"}
        /\ \A u \in Tx \ {t} : tpc'[u] = tpc[u]
        /\ UNCHANGED <<result, hook, iterVars, dbVars>>
    BY <1>0, <1>4 DEF CallbackEnds, CallbackReturns, CallbackPanics, Goto, TypeOK
  <2> QED  BY <1>0, <2>1 DEF iterVars, dbVars, NoChange
<1>5. ASSUME NEW t \in Tx, NEW k \in Key, Get(t, k)  PROVE IndInv'
  BY <1>0, <1>5 DEF Get, doVars, iterVars, NoChange
<1>6. ASSUME NEW t \in Tx, NEW k \in Key, NEW v \in Val \cup {Absent}, Change(t, k, v)
      PROVE  IndInv'
  <2>1. txn[t] = "open" /\ \A u \in Tx \ {t} : writes'[u] = writes[u]
    BY <1>0, <1>6 DEF Change, TypeOK
  <2> QED  BY <1>0, <1>6, <2>1 DEF Change, doVars, iterVars, NoChange
<1>7. ASSUME NEW t \in Tx, NEW i \in Iter, newIterator(i, t)  PROVE IndInv'
  <2>1. /\ at'[i] = t /\ \A j \in Iter \ {i} : at'[j] = at[j] /\ open'[j] = open[j]
        /\ open'[i] => txn[t] = "open"
        /\ ipc'[i] # "idle" /\ \A j \in Iter \ {i} : ipc'[j] = ipc[j]
    BY <1>0, <1>7 DEF newIterator, TypeOK
  <2> QED  BY <1>0, <1>7, <2>1 DEF newIterator, doVars, dbVars, NoChange
<1>8. ASSUME NEW i \in Iter, RLock(i) \/ NestedIteration(i) \/ RUnlock(i)
      PROVE  IndInv'
  <2>1. /\ ipc'[i] # "idle" /\ \A j \in Iter \ {i} : ipc'[j] = ipc[j]
        /\ ipc[i] # "idle"
    BY <1>0, <1>8 DEF RLock, NestedIteration, RUnlock, TypeOK
  <2> QED
    BY <1>0, <1>8, <2>1 DEF RLock, NestedIteration, RUnlock, doVars, dbVars, NoChange
<1>9. ASSUME NEW i \in Iter, NEW k \in Key, Visit(i, k)  PROVE IndInv'
  BY <1>0, <1>9 DEF Visit, doVars, iterVars, NoChange
<1>10. ASSUME NEW t \in Tx,
              EndRead(t) \/ RollbackOnError(t) \/ RollbackOnContext(t) \/ Commit(t)
       PROVE  IndInv'
  <2>1. rollback(t) \/ commitOk(t)
    BY <1>10 DEF EndRead, RollbackOnError, RollbackOnContext, Commit
  <2>2. PICK res \in {"nil", "appErr", "ErrCommitFailed"} : Ends(t, res)
    BY <1>10 DEF EndRead, RollbackOnError, RollbackOnContext, Commit
  <2>3. tpc[t] = "end"
    BY <1>10 DEF EndRead, RollbackOnError, RollbackOnContext, Commit
  <2>4. PICK p \in {"hook", "defer"} : tpc' = [tpc EXCEPT ![t] = p]
    BY <2>2 DEF Ends, Goto
  <2>5. TxnFollowsDoTX' /\ IteratorsOwned' /\ PendingOnlyWhenOpen'
    BY <1>0, <2>1, <2>4, EndKeepsBadger
  <2>6. ResultFollowsDoTX' /\ HookFollowsDoTX'
    BY <1>0, <2>2, <2>3, <2>4 DEF Ends, TypeOK
  <2> QED  BY <1>0, <2>5, <2>6
<1>11. ASSUME NEW t \in Tx, InvokeHooks(t)  PROVE IndInv'
  BY <1>0, <1>11 DEF InvokeHooks, HookOf, Goto, iterVars, dbVars, NoChange, TypeOK
<1>12. ASSUME NEW t \in Tx, DeferredRollback(t)  PROVE IndInv'
  <2>1. PICK p \in {"returned", "panicked"} : tpc' = [tpc EXCEPT ![t] = p]
    BY <1>12 DEF DeferredRollback, Goto
  <2>2. TxnFollowsDoTX' /\ IteratorsOwned' /\ PendingOnlyWhenOpen'
    BY <1>0, <1>12, <2>1, EndKeepsBadger DEF DeferredRollback
  <2>3. ResultFollowsDoTX' /\ HookFollowsDoTX'
    BY <1>0, <1>12 DEF DeferredRollback, Goto, TypeOK
  <2> QED  BY <1>0, <2>2, <2>3
<1>13. ASSUME NEW k \in Closer,
              Close(k) \/ DBClose(k) \/ CloseReturns(k) \/ CloseCancel(k)
       PROVE  IndInv'
  BY <1>0, <1>13 DEF Close, DBClose, CloseReturns, CloseCancel, doVars, iterVars,
                     dbVars, NoChange
<1> QED
  BY <1>1, <1>2, <1>3, <1>4, <1>5, <1>6, <1>7, <1>8, <1>9, <1>10, <1>11, <1>12, <1>13
     DEF Next, TxStep, Put, Delete

\* At every point of doTX Badger's transaction, its iterators, its pending
\* writes and the outcome are where they should be, for any number of calls.
THEOREM IndInvariant == Spec => []IndInv
<1> QED  BY IndInit, IndNext, PTL DEF Spec

\* No iterator is open when its Badger transaction is discarded, whichever
\* goroutine of the callback opened it and when: Discard does not panic.
THEOREM NoOpenIteratorLeftEver == Spec => []NoOpenIteratorLeft
<1>1. IndInv => NoOpenIteratorLeft
  BY DEF IndInv, IteratorsOwned, NoOpenIteratorLeft
<1> QED  BY IndInvariant, <1>1, PTL

\* Every way out of doTX, a panic included, leaves the Badger transaction
\* discarded, and before option functions run.
THEOREM TxnEndedAlways == Spec => []TxnEnded
<1>1. IndInv => TxnEnded
  BY DEF IndInv, TxnFollowsDoTX, Ended, TxnEnded
<1> QED  BY IndInvariant, <1>1, PTL

-----------------------------------------------------------------------------
(* Conflicts. *)

ReadsKnown == \A t \in Tx : seen[t] \subseteq reads[t]
ChangesKnown ==
    \A t \in Tx : txn[t] = "open" => \A k \in Key \ dirty[t] : base[t][k] = db[k]
ConflictInv == ReadsKnown /\ ChangesKnown

LEMMA ConflictInit == Init => ConflictInv
BY DEF Init, ConflictInv, ReadsKnown, ChangesKnown

\* The end of a transaction changes only keys that every other open transaction
\* is told of.
LEMMA EndKeepsConflicts ==
    ASSUME TypeOK, ConflictInv, NEW t \in Tx, rollback(t) \/ commitOk(t)
    PROVE  ConflictInv'
<1>1. /\ txn' = [txn EXCEPT ![t] = "discarded"]
      /\ base' = [base EXCEPT ![t] = Empty]
      /\ reads' = [reads EXCEPT ![t] = {}] /\ seen' = [seen EXCEPT ![t] = {}]
  BY DEF rollback, commitOk, Discarded
<1>2. txn'[t] = "discarded" /\ seen'[t] = {}
  BY <1>1 DEF TypeOK
<1>3. \A u \in Tx \ {t} : /\ txn'[u] = txn[u] /\ base'[u] = base[u]
                          /\ reads'[u] = reads[u] /\ seen'[u] = seen[u]
  BY <1>1 DEF TypeOK
<1>4. ReadsKnown'
  BY <1>2, <1>3 DEF ConflictInv, ReadsKnown
<1>5. ASSUME NEW u \in Tx \ {t}, txn[u] = "open", NEW k \in Key \ dirty'[u]
      PROVE  base[u][k] = db'[k]
  <2>1. CASE rollback(t)
    <3>1. db' = db /\ dirty'[u] = dirty[u]
      BY <2>1 DEF rollback, TypeOK
    <3> QED  BY <1>5, <3>1 DEF ConflictInv, ChangesKnown
  <2>2. CASE commitOk(t)
    <3>1. db' = Apply(db, writes[t]) /\ dirty'[u] = dirty[u] \cup Written(t)
      BY <1>5, <2>2 DEF commitOk
    <3>2. k \notin Written(t) /\ k \notin dirty[u]
      BY <1>5, <3>1
    <3>3. db'[k] = db[k]
      BY <1>5, <3>1, <3>2 DEF Apply, Written
    <3> QED  BY <1>5, <3>2, <3>3 DEF ConflictInv, ChangesKnown
  <2> QED  BY <2>1, <2>2
<1>6. ChangesKnown'
  BY <1>2, <1>3, <1>5 DEF ChangesKnown
<1> QED  BY <1>4, <1>6 DEF ConflictInv

LEMMA ConflictNext == IndInv /\ ConflictInv /\ [Next]_vars => ConflictInv'
<1> SUFFICES ASSUME IndInv, ConflictInv, [Next]_vars PROVE ConflictInv'
  OBVIOUS
<1>0. TypeOK
  BY DEF IndInv
<1> USE <1>0
<1>1. ASSUME UNCHANGED <<txn, db, base, reads, dirty, seen>>  PROVE ConflictInv'
  BY <1>1 DEF ConflictInv, ReadsKnown, ChangesKnown
<1>2. CASE UNCHANGED vars
  BY <1>1, <1>2 DEF vars, dbVars
<1>3. ASSUME NEW t \in Tx, Begin(t)  PROVE ConflictInv'
  <2>1. /\ base'[t] = db /\ UNCHANGED <<db, reads, dirty, seen>>
        /\ \A u \in Tx \ {t} : txn'[u] = txn[u] /\ base'[u] = base[u]
    BY <1>3 DEF Begin, TypeOK
  <2> QED  BY <2>1 DEF ConflictInv, ReadsKnown, ChangesKnown
<1>4. ASSUME NEW t \in Tx, Cancel(t) \/ CallbackEnds(t) \/ CallbackPanics(t)
      PROVE  ConflictInv'
  BY <1>1, <1>4 DEF Cancel, CallbackEnds, CallbackReturns, CallbackPanics, dbVars
<1>5. ASSUME NEW t \in Tx, NEW k \in Key,
             \/ seen' = [seen EXCEPT ![t] = @ \cup {k}]
             \/ seen' = seen,
             reads' = [reads EXCEPT ![t] = @ \cup {k}],
             UNCHANGED <<txn, db, base, dirty>>
      PROVE  ConflictInv'
  <2>1. \A u \in Tx : seen'[u] \subseteq reads'[u]
    BY <1>5 DEF ConflictInv, ReadsKnown, TypeOK
  <2> QED  BY <1>5, <2>1 DEF ConflictInv, ReadsKnown, ChangesKnown
<1>6. ASSUME NEW t \in Tx, NEW k \in Key, Get(t, k)  PROVE ConflictInv'
  BY <1>5, <1>6 DEF Get, Shows
<1>7. ASSUME NEW i \in Iter, NEW k \in Key, Visit(i, k)  PROVE ConflictInv'
  <2>1. at[i] \in Tx
    BY <1>7 DEF Visit, IndInv, IteratorsOwned
  <2> QED  BY <1>5, <1>7, <2>1 DEF Visit, Shows
<1>8. ASSUME NEW t \in Tx, NEW k \in Key, NEW v \in Val \cup {Absent}, Change(t, k, v)
      PROVE  ConflictInv'
  BY <1>1, <1>8 DEF Change
<1>9. ASSUME NEW t \in Tx, NEW i \in Iter, newIterator(i, t)  PROVE ConflictInv'
  BY <1>1, <1>9 DEF newIterator, dbVars
<1>10. ASSUME NEW i \in Iter, RLock(i) \/ NestedIteration(i) \/ RUnlock(i)
       PROVE  ConflictInv'
  BY <1>1, <1>10 DEF RLock, NestedIteration, RUnlock, dbVars
<1>11. ASSUME NEW t \in Tx,
              \/ EndRead(t) \/ RollbackOnError(t) \/ RollbackOnContext(t) \/ Commit(t)
              \/ DeferredRollback(t)
       PROVE  ConflictInv'
  BY <1>11, EndKeepsConflicts
     DEF EndRead, RollbackOnError, RollbackOnContext, Commit, DeferredRollback
<1>12. ASSUME NEW t \in Tx, InvokeHooks(t)  PROVE ConflictInv'
  BY <1>1, <1>12 DEF InvokeHooks, dbVars
<1>13. ASSUME NEW k \in Closer,
              Close(k) \/ DBClose(k) \/ CloseReturns(k) \/ CloseCancel(k)
       PROVE  ConflictInv'
  BY <1>1, <1>13 DEF Close, DBClose, CloseReturns, CloseCancel, dbVars
<1> QED
  BY <1>2, <1>3, <1>4, <1>6, <1>7, <1>8, <1>9, <1>10, <1>11, <1>12, <1>13
     DEF Next, TxStep, Put, Delete

\* Only a commit that Badger accepts gives a Write the result nil.
LEMMA NilIsCommit ==
    ASSUME IndInv, Next, NEW t \in Writer, result[t] = "none", result'[t] = "nil"
    PROVE  commitOk(t)
<1>0. TypeOK /\ t \in Tx /\ t \notin Reader
  BY BadgerAssumption DEF IndInv, Tx
<1> USE <1>0
<1>1. result' # result
  OBVIOUS
<1>2. PICK u \in Tx : EndRead(u) \/ RollbackOnError(u) \/ RollbackOnContext(u) \/ Commit(u)
  BY <1>1 DEF Next, TxStep, Begin, Cancel, CallbackEnds, CallbackReturns, CallbackPanics,
     InvokeHooks, DeferredRollback, Get, Put, Delete, Change, newIterator, RLock,
     NestedIteration, RUnlock, Visit, Close, DBClose, CloseReturns, CloseCancel, doVars
<1>3. PICK res : Ends(u, res)
  BY <1>2 DEF EndRead, RollbackOnError, RollbackOnContext, Commit
<1>4. u = t
  BY <1>3 DEF Ends, TypeOK
<1>5. ~EndRead(u)
  BY <1>4 DEF EndRead
<1>6. ASSUME Ends(t, "appErr") \/ Ends(t, "ErrCommitFailed")  PROVE FALSE
  BY <1>6 DEF Ends, TypeOK
<1> QED
  BY <1>2, <1>4, <1>5, <1>6 DEF RollbackOnError, RollbackOnContext, Commit

\* Nothing is committed on stale reads, for any number of transactions, keys
\* and iterations: when a Write that changes something succeeds, all that its
\* callback was shown of the snapshot is still so.
THEOREM DecidedOnCurrentAlways == Spec => DecidedOnCurrent
<1> DEFINE Step == \A t \in Writer :
               result[t] = "none" /\ result'[t] = "nil" /\ Written(t) # {} =>
                   \A k \in seen[t] : base[t][k] = db[k]
<1>1. IndInv /\ ConflictInv /\ [Next]_vars => [Step]_vars
  <2> SUFFICES ASSUME IndInv, ConflictInv, Next, NEW t \in Writer,
                      result[t] = "none", result'[t] = "nil", Written(t) # {},
                      NEW k \in seen[t]
               PROVE  base[t][k] = db[k]
    OBVIOUS
  <2>1. commitOk(t)
    BY NilIsCommit
  <2>2. t \in Tx /\ k \in Key
    BY DEF Tx, IndInv, TypeOK
  <2>3. txn[t] = "open"
    <3>1. writes[t] # NoChange
      BY DEF Written, NoChange
    <3> QED  BY <2>2, <3>1 DEF IndInv, PendingOnlyWhenOpen
  <2>4. k \notin dirty[t]
    BY <2>1, <2>2 DEF commitOk, CanApply, ConflictInv, ReadsKnown
  <2> QED  BY <2>2, <2>3, <2>4 DEF ConflictInv, ChangesKnown
<1>2. Spec => []ConflictInv
  BY IndInvariant, ConflictInit, ConflictNext, PTL DEF Spec
<1> QED  BY <1>1, <1>2, IndInvariant, PTL DEF Spec, DecidedOnCurrent

-----------------------------------------------------------------------------
(* Write transactions implement TxStore. *)

\* What TxStore sees of u does not change.
Quiet(u) ==
    /\ writes'[u] = writes[u] /\ hook'[u] = hook[u]
    /\ TxSt(u)' = TxSt(u) /\ TxTold(u)' = TxTold(u)

\* A step that TxStore does not see.
LEMMA AllQuiet ==
    ASSUME db' = db, \A u \in Writer : Quiet(u)
    PROVE  UNCHANGED KV!vars
BY DEF KV!vars, Quiet

\* A step in which TxStore sees at most t move.
LEMMA OneMoves ==
    ASSUME NEW t \in Writer, \A u \in Writer \ {t} : Quiet(u)
    PROVE  /\ [u \in Writer |-> writes[u]]'
                  = [[u \in Writer |-> writes[u]] EXCEPT ![t] = writes'[t]]
           /\ [u \in Writer |-> TxSt(u)]'
                  = [[u \in Writer |-> TxSt(u)] EXCEPT ![t] = TxSt(t)']
           /\ [u \in Writer |-> hook[u]]'
                  = [[u \in Writer |-> hook[u]] EXCEPT ![t] = hook'[t]]
           /\ [u \in Writer |-> TxTold(u)]'
                  = [[u \in Writer |-> TxTold(u)] EXCEPT ![t] = TxTold(t)']
BY DEF Quiet

\* A step of doTX for t, seen from TxStore: the others are quiet.
LEMMA OthersQuiet ==
    ASSUME TypeOK, TypeOK', NEW t \in Tx,
           \A u \in Tx \ {t} : /\ tpc'[u] = tpc[u] /\ result'[u] = result[u]
                               /\ hook'[u] = hook[u] /\ writes'[u] = writes[u]
    PROVE  \A u \in Writer \ {t} : Quiet(u)
BY DEF Quiet, TxSt, TxTold, Tx

LEMMA RefinementInit == Init => KV!Init
BY DEF Init, KV!Init, KV!NoChange, Empty, NoChange, TxSt, TxTold, Tx

\* A transaction that is discarded is aborted for TxStore.
LEMMA AbortStep ==
    ASSUME NEW t \in Writer, \A u \in Writer \ {t} : Quiet(u),
           TxSt(t) = "active", TxSt(t)' = "aborted",
           TxTold(t)' = TxTold(t), hook'[t] = hook[t], writes'[t] = NoChange, db' = db
    PROVE  KV!Next
<1>1. KV!Abort(t)
  BY OneMoves DEF KV!Abort, KV!NoChange, NoChange
<1> QED  BY <1>1 DEF KV!Next

LEMMA RefinementNext == IndInv /\ [Next]_vars => [KV!Next]_(KV!vars)
<1> SUFFICES ASSUME IndInv, [Next]_vars PROVE [KV!Next]_(KV!vars)
  OBVIOUS
<1>0. TypeOK /\ TypeOK' /\ IndInv'
  BY IndNext DEF IndInv
<1> USE <1>0
<1>1. CASE UNCHANGED vars
  BY <1>1, AllQuiet DEF vars, doVars, dbVars, Quiet, TxSt, TxTold
<1>2. ASSUME NEW t \in Tx, Begin(t)  PROVE [KV!Next]_(KV!vars)
  <2>1. \A u \in Writer \ {t} : Quiet(u)
    BY <1>2, OthersQuiet DEF Begin, Goto, TypeOK
  <2>2. CASE t \in Writer
    <3>1. /\ TxSt(t) = "idle" /\ TxSt(t)' = "active"
          /\ TxTold(t) = "none" /\ TxTold(t)' = "none"
          /\ hook'[t] = hook[t] /\ writes'[t] = writes[t] /\ db' = db
      BY <1>2 DEF Begin, Goto, TxSt, TxTold, TypeOK
    <3>2. KV!Begin(t)
      BY <2>1, <2>2, <3>1, OneMoves DEF KV!Begin
    <3> QED  BY <2>2, <3>2 DEF KV!Next
  <2>3. CASE t \notin Writer
    BY <1>2, <2>1, <2>3, AllQuiet DEF Begin
  <2> QED  BY <2>2, <2>3
<1>3. ASSUME NEW t \in Tx, Cancel(t)  PROVE UNCHANGED KV!vars
  BY <1>3, AllQuiet DEF Cancel, doVars, dbVars, Quiet, TxSt, TxTold
<1>4. ASSUME NEW t \in Tx, CallbackEnds(t) \/ CallbackPanics(t)
      PROVE  UNCHANGED KV!vars
  <2>1. /\ tpc[t] = "fn" /\ tpc'[t] \in {"end", "unwind"}
        /\ \A u \in Tx \ {t} : tpc'[u] = tpc[u]
        /\ UNCHANGED <<result, hook, writes, db>>
    BY <1>4 DEF CallbackEnds, CallbackReturns, CallbackPanics, Goto, TypeOK, dbVars
  <2>2. \A u \in Writer : Quiet(u)
    BY <2>1 DEF Quiet, TxSt, TxTold, Tx
  <2> QED  BY <2>1, <2>2, AllQuiet
<1>5. ASSUME NEW t \in Tx, NEW k \in Key, Get(t, k)  PROVE UNCHANGED KV!vars
  BY <1>5, AllQuiet DEF Get, doVars, Quiet, TxSt, TxTold
<1>6. ASSUME NEW t \in Tx, NEW k \in Key, NEW v \in Val \cup {Absent}, Change(t, k, v)
      PROVE  KV!Next
  <2>1. t \in Writer /\ TxSt(t) = "active" /\ TxSt(t)' = "active"
        /\ TxTold(t)' = TxTold(t) /\ hook'[t] = hook[t] /\ db' = db
    BY <1>6 DEF Change, TxSt, TxTold, doVars, TypeOK, Tx
  <2>2. \A u \in Writer \ {t} : Quiet(u)
    BY <1>6, OthersQuiet DEF Change, doVars, TypeOK
  <2>3. writes'[t] = [writes[t] EXCEPT ![k] = v]
    BY <1>6 DEF Change, TypeOK
  <2>4. [u \in Writer |-> writes[u]]'
            = [[u \in Writer |-> writes[u]] EXCEPT ![t][k] = v]
    BY <2>1, <2>2, <2>3, OneMoves
  <2>5. /\ [u \in Writer |-> TxSt(u)]' = [u \in Writer |-> TxSt(u)]
        /\ [u \in Writer |-> hook[u]]' = [u \in Writer |-> hook[u]]
        /\ [u \in Writer |-> TxTold(u)]' = [u \in Writer |-> TxTold(u)]
    BY <2>1, <2>2 DEF Quiet
  <2>6. KV!Change(t, k, v)
    BY <2>1, <2>4, <2>5 DEF KV!Change
  <2> QED  BY <2>1, <2>6 DEF KV!Next
<1>7. ASSUME NEW t \in Tx, NEW i \in Iter, newIterator(i, t)  PROVE UNCHANGED KV!vars
  BY <1>7, AllQuiet DEF newIterator, doVars, dbVars, Quiet, TxSt, TxTold
<1>8. ASSUME NEW i \in Iter, RLock(i) \/ NestedIteration(i) \/ RUnlock(i)
      PROVE  UNCHANGED KV!vars
  BY <1>8, AllQuiet DEF RLock, NestedIteration, RUnlock, doVars, dbVars, Quiet, TxSt,
                        TxTold
<1>9. ASSUME NEW i \in Iter, NEW k \in Key, Visit(i, k)  PROVE UNCHANGED KV!vars
  BY <1>9, AllQuiet DEF Visit, doVars, Quiet, TxSt, TxTold
<1>10. ASSUME NEW t \in Tx, NEW res \in {"nil", "appErr", "ErrCommitFailed"},
              tpc[t] = "end", Ends(t, res),
              \/ rollback(t) /\ (t \in Writer => res # "nil")
              \/ t \in Writer /\ commitOk(t) /\ res = "nil"
       PROVE  [KV!Next]_(KV!vars)
  <2>1. rollback(t) \/ commitOk(t)
    BY <1>10
  <2>2. writes'[t] = NoChange /\ \A u \in Tx \ {t} : writes'[u] = writes[u]
    BY <2>1, TxnEnds
  <2>3. /\ tpc'[t] = IF t \in Writer THEN "hook" ELSE "defer"
        /\ result'[t] = res /\ hook' = hook
        /\ \A u \in Tx \ {t} : tpc'[u] = tpc[u] /\ result'[u] = result[u]
    BY <1>10 DEF Ends, Goto, TypeOK
  <2>4. \A u \in Writer \ {t} : Quiet(u)
    BY <2>2, <2>3, OthersQuiet
  <2>5. CASE t \notin Writer
    <3>1. db' = db
      BY <1>10, <2>5 DEF rollback
    <3> QED  BY <2>4, <2>5, <3>1, AllQuiet
  <2>6. CASE t \in Writer /\ res # "nil"
    <3>1. db' = db
      BY <1>10, <2>6 DEF rollback
    <3>2. /\ TxSt(t) = "active" /\ TxSt(t)' = "aborted"
          /\ TxTold(t)' = TxTold(t)
      BY <1>10, <2>3, <2>6 DEF TxSt, TxTold
    <3> QED  BY <2>2, <2>3, <2>4, <2>6, <3>1, <3>2, AbortStep
  <2>7. CASE t \in Writer /\ res = "nil"
    <3>1. db' = KV!Apply(db, writes[t])
      BY <1>10, <2>7 DEF commitOk, Apply, KV!Apply
    <3>2. /\ TxSt(t) = "active" /\ TxSt(t)' = "committed"
          /\ TxTold(t)' = TxTold(t)
      BY <1>10, <2>3, <2>7 DEF TxSt, TxTold
    <3>3. KV!Commit(t)
      BY <2>2, <2>3, <2>4, <2>7, <3>1, <3>2, OneMoves DEF KV!Commit, KV!NoChange, NoChange
    <3> QED  BY <2>7, <3>3 DEF KV!Next
  <2> QED  BY <2>5, <2>6, <2>7
<1>11. ASSUME NEW t \in Tx,
              EndRead(t) \/ RollbackOnError(t) \/ RollbackOnContext(t) \/ Commit(t)
       PROVE  [KV!Next]_(KV!vars)
  <2>1. CASE EndRead(t)
    BY <1>10, <2>1, BadgerAssumption DEF EndRead
  <2>2. CASE RollbackOnError(t)
    BY <1>10, <2>2 DEF RollbackOnError
  <2>3. CASE RollbackOnContext(t)
    BY <1>10, <2>3 DEF RollbackOnContext
  <2>4. CASE Commit(t)
    BY <1>10, <2>4 DEF Commit
  <2> QED  BY <1>11, <2>1, <2>2, <2>3, <2>4
<1>12. ASSUME NEW t \in Tx, InvokeHooks(t)  PROVE [KV!Next]_(KV!vars)
  <2>1. \A u \in Writer \ {t} : Quiet(u)
    BY <1>12, OthersQuiet DEF InvokeHooks, Goto, dbVars, TypeOK
  <2>2. CASE t \in Writer
    <3>1. /\ TxSt(t)' = TxSt(t) /\ TxTold(t) = "none" /\ TxTold(t)' = "none"
          /\ TxSt(t) = (IF result[t] = "nil" THEN "committed" ELSE "aborted")
          /\ writes'[t] = writes[t] /\ db' = db
      BY <1>12 DEF InvokeHooks, Goto, dbVars, TxSt, TxTold, TypeOK
    <3>2. /\ hook[t] = "none"
          /\ hook'[t] = (IF result[t] = "nil" THEN "afterCommit" ELSE "onRollback")
      BY <1>12 DEF InvokeHooks, HookOf, IndInv, HookFollowsDoTX, TypeOK
    <3>3. /\ [u \in Writer |-> TxSt(u)]' = [u \in Writer |-> TxSt(u)]
          /\ [u \in Writer |-> writes[u]]' = [u \in Writer |-> writes[u]]
          /\ [u \in Writer |-> TxTold(u)]' = [u \in Writer |-> TxTold(u)]
      BY <2>1, <3>1 DEF Quiet
    <3>4. [u \in Writer |-> hook[u]]'
              = [[u \in Writer |-> hook[u]] EXCEPT ![t] = hook'[t]]
      BY <2>1, <2>2, OneMoves
    <3>5. KV!RunHook(t)
      BY <2>2, <3>1, <3>2, <3>3, <3>4 DEF KV!RunHook
    <3> QED  BY <2>2, <3>5 DEF KV!Next
  <2>3. CASE t \notin Writer
    BY <1>12, <2>1, <2>3, AllQuiet DEF InvokeHooks, dbVars
  <2> QED  BY <2>2, <2>3
<1>13. ASSUME NEW t \in Tx, DeferredRollback(t)  PROVE [KV!Next]_(KV!vars)
  <2>1. rollback(t) /\ db' = db /\ hook' = hook /\ result' = result
    BY <1>13 DEF DeferredRollback, rollback
  <2>2. writes'[t] = NoChange /\ \A u \in Tx \ {t} : writes'[u] = writes[u]
    BY <2>1, TxnEnds
  <2>3. /\ tpc[t] \in {"defer", "unwind"}
        /\ tpc'[t] = IF tpc[t] = "defer" THEN "returned" ELSE "panicked"
        /\ \A u \in Tx \ {t} : tpc'[u] = tpc[u]
    BY <1>13 DEF DeferredRollback, Goto, TypeOK
  <2>4. \A u \in Writer \ {t} : Quiet(u)
    BY <2>1, <2>2, <2>3, OthersQuiet
  <2>5. CASE t \notin Writer
    BY <2>1, <2>4, <2>5, AllQuiet
  <2>6. CASE t \in Writer /\ tpc[t] = "unwind"
    <3>1. result[t] = "none"
      BY <2>6 DEF IndInv, ResultFollowsDoTX, Running
    <3>2. /\ TxSt(t) = "active" /\ TxSt(t)' = "aborted"
          /\ TxTold(t)' = TxTold(t)
      BY <2>1, <2>3, <2>6, <3>1 DEF TxSt, TxTold
    <3> QED  BY <2>1, <2>2, <2>4, <2>6, <3>2, AbortStep
  <2>7. CASE t \in Writer /\ tpc[t] = "defer"
    <3>1. writes[t] = NoChange
      BY <2>7 DEF IndInv, TxnFollowsDoTX, Ended, PendingOnlyWhenOpen
    <3>2. /\ TxSt(t)' = TxSt(t)
          /\ TxSt(t) = IF result[t] = "nil" THEN "committed" ELSE "aborted"
          /\ TxTold(t) = "none"
          /\ TxTold(t)' = IF result[t] = "nil" THEN "ok" ELSE "error"
      BY <2>1, <2>3, <2>7 DEF TxSt, TxTold
    <3>3. /\ [u \in Writer |-> TxSt(u)]' = [u \in Writer |-> TxSt(u)]
          /\ [u \in Writer |-> writes[u]]' = [u \in Writer |-> writes[u]]
          /\ [u \in Writer |-> hook[u]]' = [u \in Writer |-> hook[u]]
      BY <2>1, <2>2, <2>4, <3>1, <3>2 DEF Quiet
    <3>4. [u \in Writer |-> TxTold(u)]'
              = [[u \in Writer |-> TxTold(u)] EXCEPT ![t] = TxTold(t)']
      BY <2>4, <2>7, OneMoves
    <3>5. KV!Tell(t)
      BY <2>1, <2>7, <3>2, <3>3, <3>4 DEF KV!Tell
    <3> QED  BY <2>7, <3>5 DEF KV!Next
  <2> QED  BY <2>3, <2>5, <2>6, <2>7
<1>14. ASSUME NEW k \in Closer,
              Close(k) \/ DBClose(k) \/ CloseReturns(k) \/ CloseCancel(k)
       PROVE  UNCHANGED KV!vars
  BY <1>14, AllQuiet DEF Close, DBClose, CloseReturns, CloseCancel, doVars, dbVars,
                         Quiet, TxSt, TxTold
<1> QED
  BY <1>1, <1>2, <1>3, <1>4, <1>5, <1>6, <1>7, <1>8, <1>9, <1>11, <1>12, <1>13, <1>14
     DEF Next, TxStep, Put, Delete

\* The Badger store implements TxStore for any number of transactions: write
\* transactions are applied as a whole to the contents at their commit or not
\* at all, also when the callback panics, the database is closed under them or
\* the commit conflicts; their option functions match the outcome and run once.
THEOREM ImplementsTxStore == Spec => RefinesTxStore
<1> QED
  BY IndInvariant, RefinementInit, RefinementNext, PTL DEF Spec, RefinesTxStore, KV!Spec
=============================================================================
