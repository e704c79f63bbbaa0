---------------------------- MODULE BadgerStore ----------------------------
(***************************************************************************)
(* The Badger-backed KVStore (src/badger/badger.go): doTX, the iterators   *)
(* that Empty, Iterate and Range open, and Close.                          *)
(*                                                                         *)
(* The store takes no lock of its own: transactions run concurrently on    *)
(* snapshots and Badger refuses a commit that conflicts.  The store keeps  *)
(* the iterators a transaction opened, because ending a Badger transaction *)
(* with an open iterator panics; tx.mutex orders their use, possibly in    *)
(* goroutines the callback started, with the end of the transaction.       *)
(*                                                                         *)
(* A critical section of tx.mutex.Lock() has no blocking operation and is  *)
(* one step, which waits for the iterations that have the read lock.       *)
(*                                                                         *)
(* External, as the store uses it: Badger's snapshots, its conflict check, *)
(* and DB.Close, after which commits fail and NewIterator panics.          *)
(***************************************************************************)
CONSTANTS Writer,       \* calls of Write and WriteShelf
          Reader,       \* calls of Read and ReadShelf
          Closer,       \* calls of Close
          Iter,         \* calls of Empty, Iterate and Range
          Key, Val, Absent, Same, None

Tx == Writer \cup Reader

ASSUME BadgerAssumption ==
    /\ Writer \cap Reader = {}
    /\ None \notin Tx
    /\ Absent \notin Val /\ Same \notin Val /\ Absent # Same

VARIABLES
    tpc,      \* tpc[t]: where doTX is
    ctx,      \* ctx[t]: the context of t
    app,      \* app[t]: what the callback returned
    result,   \* result[t]: what doTX is going to return
    hook,     \* hook[t]: whose Invoke(opts) was called
    ipc,      \* ipc[i]: where the iteration is
    at,       \* at[i]: the transaction it belongs to
    open,     \* open[i]: its Badger iterator is open
    txn,      \* Badger: txn[t], "none", "open" or "discarded"
    db,       \* Badger: the committed contents
    base,     \* Badger: base[t], the snapshot of t
    writes,   \* Badger: writes[t], the pending writes of t
    reads,    \* Badger: reads[t], the keys Badger knows t has read
    dirty,    \* Badger: dirty[t], the keys committed since t began
    dbOpen,   \* Badger: the database is open
    seen,     \* history: seen[t], the keys of its snapshot t was shown
    cpc, fn, cctx                                       \* Close

Closing == INSTANCE CallWithTimeout

doVars == <<tpc, app, result, hook>>
iterVars == <<ipc, at, open>>
dbVars == <<txn, db, base, writes, reads, dirty, dbOpen, seen>>
closeVars == <<cpc, fn, cctx>>
vars == <<doVars, iterVars, dbVars, closeVars, ctx>>

Contents == [Key -> Val \cup {Absent}]
Empty == [k \in Key |-> Absent]
NoChange == [k \in Key |-> Same]
Apply(d, w) == [k \in Key |-> IF w[k] = Same THEN d[k] ELSE w[k]]
View(t) == Apply(base[t], writes[t])
Written(t) == {k \in Key : writes[t][k] # Same}

(***************************************************************************)
(* "fn": in the callback; "end": it returned; "hook": the transaction has  *)
(* ended, option functions are next; "defer" and "unwind": the deferred    *)
(* rollback is next, before a return or while a panic unwinds.             *)
(***************************************************************************)
TPC == {"idle", "fn", "end", "hook", "defer", "unwind", "returned", "panicked"}

\* "created": newIterator returned; "using": has tx.mutex.RLock(); "nested":
\* has it, and its callback waits in newIterator for tx.mutex.Lock().
IPC == {"idle", "created", "using", "nested", "done", "panicked"}

TypeOK ==
    /\ tpc \in [Tx -> TPC]
    /\ ctx \in [Tx -> {"live", "done"}]
    /\ app \in [Tx -> {"nil", "err"}]
    /\ result \in [Tx -> {"none", "nil", "appErr", "ErrCommitFailed"}]
    /\ hook \in [Tx -> {"none", "afterCommit", "onRollback"}]
    /\ ipc \in [Iter -> IPC]
    /\ at \in [Iter -> Tx \cup {None}]
    /\ open \in [Iter -> BOOLEAN]
    /\ txn \in [Tx -> {"none", "open", "discarded"}]
    /\ db \in Contents /\ base \in [Tx -> Contents]
    /\ writes \in [Tx -> [Key -> Val \cup {Absent, Same}]]
    /\ reads \in [Tx -> SUBSET Key] /\ dirty \in [Tx -> SUBSET Key]
    /\ dbOpen \in BOOLEAN /\ seen \in [Tx -> SUBSET Key]
    /\ Closing!CallTypeOK

Init ==
    /\ tpc = [t \in Tx |-> "idle"]
    /\ ctx = [t \in Tx |-> "live"]
    /\ app = [t \in Tx |-> "nil"]
    /\ result = [t \in Tx |-> "none"]
    /\ hook = [t \in Tx |-> "none"]
    /\ ipc = [i \in Iter |-> "idle"]
    /\ at = [i \in Iter |-> None]
    /\ open = [i \in Iter |-> FALSE]
    /\ txn = [t \in Tx |-> "none"]
    /\ db = Empty /\ base = [t \in Tx |-> Empty]
    /\ writes = [t \in Tx |-> NoChange]
    /\ reads = [t \in Tx |-> {}] /\ dirty = [t \in Tx |-> {}]
    /\ dbOpen = TRUE /\ seen = [t \in Tx |-> {}]
    /\ Closing!CallInit

Goto(t, p) == tpc' = [tpc EXCEPT ![t] = p]

-----------------------------------------------------------------------------
(* doTX up to the end of the callback. *)

\* b.db.NewTransaction
Begin(t) ==
    /\ tpc[t] = "idle"
    /\ Goto(t, "fn")
    /\ txn' = [txn EXCEPT ![t] = "open"]
    /\ base' = [base EXCEPT ![t] = db]
    /\ UNCHANGED <<iterVars, closeVars, ctx, app, result, hook, db, writes,
                   reads, dirty, dbOpen, seen>>

Cancel(t) ==
    /\ tpc[t] \in {"fn", "end"} /\ ctx[t] = "live"
    /\ ctx' = [ctx EXCEPT ![t] = "done"]
    /\ UNCHANGED <<doVars, iterVars, dbVars, closeVars>>

Shows(t, k) == seen' = [seen EXCEPT ![t] = @ \cup {k}]

\* The value is read in a transaction of its own (DB.View).
Get_OwnTransaction(t, k) ==
    /\ tpc[t] = "fn" /\ writes[t][k] = Same /\ k \notin seen[t]
    /\ Shows(t, k)
    /\ UNCHANGED <<doVars, iterVars, closeVars, ctx, txn, db, base, writes,
                   reads, dirty, dbOpen>>

\* Badger remembers a read, unless the answer is a pending write.
Get(t, k) ==
    /\ tpc[t] = "fn" /\ writes[t][k] = Same /\ k \notin seen[t]
    /\ Shows(t, k)
    /\ reads' = [reads EXCEPT ![t] = @ \cup {k}]
    /\ UNCHANGED <<doVars, iterVars, closeVars, ctx, txn, db, base, writes,
                   dirty, dbOpen>>

Change(t, k, v) ==
    /\ t \in Writer /\ tpc[t] = "fn"
    /\ writes' = [writes EXCEPT ![t][k] = v]
    /\ UNCHANGED <<doVars, iterVars, closeVars, ctx, txn, db, base, reads,
                   dirty, dbOpen, seen>>

Put(t, k, v) == v \in Val /\ Change(t, k, v)
Delete(t, k) == Change(t, k, Absent)

CallbackReturns(t, r) ==
    /\ tpc[t] = "fn"
    /\ Goto(t, "end")
    /\ app' = [app EXCEPT ![t] = r]
    /\ UNCHANGED <<iterVars, dbVars, closeVars, ctx, result, hook>>

CallbackPanics(t) ==
    /\ tpc[t] = "fn"
    /\ Goto(t, "unwind")
    /\ UNCHANGED <<iterVars, dbVars, closeVars, ctx, app, result, hook>>

-----------------------------------------------------------------------------
(* Iterators. *)

Using(t) == {i \in Iter : at[i] = t /\ ipc[i] \in {"using", "nested"}}
Nested(t) == {i \in Iter : at[i] = t /\ ipc[i] = "nested"}

\* newIterator: under tx.mutex.Lock().  The goroutine may have outlived the
\* callback: Badger panics when the transaction or the database is gone.
newIterator(i, t) ==
    /\ ipc[i] = "idle" /\ tpc[t] # "idle"
    /\ Using(t) = {}
    /\ at' = [at EXCEPT ![i] = t]
    /\ \/ /\ txn[t] = "open" /\ dbOpen
          /\ open' = [open EXCEPT ![i] = TRUE]
          /\ ipc' = [ipc EXCEPT ![i] = "created"]
       \/ /\ ~(txn[t] = "open" /\ dbOpen)
          /\ ipc' = [ipc EXCEPT ![i] = "panicked"]
          /\ UNCHANGED open
    /\ UNCHANGED <<doVars, dbVars, closeVars, ctx>>

\* Empty, Iterate or Range takes tx.mutex.RLock(), which waits behind a Lock
\* that waits ...
RLock(i) ==
    /\ ipc[i] = "created" /\ Nested(at[i]) = {}
    /\ ipc' = [ipc EXCEPT ![i] = "using"]
    /\ UNCHANGED <<doVars, dbVars, closeVars, ctx, at, open>>

\* ... visits the items of the transaction, pending writes among them, all of
\* which Badger remembers ...
Visit(i, k) ==
    /\ ipc[i] = "using" /\ open[i] /\ k \notin reads[at[i]]
    /\ View(at[i])[k] # Absent
    /\ IF writes[at[i]][k] = Same THEN Shows(at[i], k) ELSE UNCHANGED seen
    /\ reads' = [reads EXCEPT ![at[i]] = @ \cup {k}]
    /\ UNCHANGED <<doVars, iterVars, closeVars, ctx, txn, db, base, writes,
                   dirty, dbOpen>>

\* ... its callback may start another iteration on the transaction, which
\* waits for the read lock that its own goroutine has ...
NestedIteration(i) ==
    /\ ipc[i] = "using"
    /\ ipc' = [ipc EXCEPT ![i] = "nested"]
    /\ UNCHANGED <<doVars, dbVars, closeVars, ctx, at, open>>

RUnlock_Missing(i) ==
    /\ ipc[i] = "using" /\ open[i]
    /\ UNCHANGED vars

\* ... and unlocks however it ends.  The iterator stays open.
RUnlock(i) ==
    /\ ipc[i] = "using"
    /\ ipc' = [ipc EXCEPT ![i] = "done"]
    /\ UNCHANGED <<doVars, dbVars, closeVars, ctx, at, open>>

-----------------------------------------------------------------------------
(* The end of the transaction. *)

CloseIterators(t) == open' = [i \in Iter |-> open[i] /\ at[i] # t]

\* The transaction is discarded; what it kept is reset.
Discarded(t) ==
    /\ txn' = [txn EXCEPT ![t] = "discarded"]
    /\ base' = [base EXCEPT ![t] = Empty]
    /\ writes' = [writes EXCEPT ![t] = NoChange]
    /\ reads' = [reads EXCEPT ![t] = {}]
    /\ seen' = [seen EXCEPT ![t] = {}]

rollback_SkipsIterators(t) ==
    /\ Using(t) = {}
    /\ Discarded(t)
    /\ dirty' = [dirty EXCEPT ![t] = {}]
    /\ UNCHANGED <<iterVars, db, dbOpen>>

rollback(t) ==
    /\ Using(t) = {}
    /\ CloseIterators(t)
    /\ Discarded(t)
    /\ dirty' = [dirty EXCEPT ![t] = {}]
    /\ UNCHANGED <<ipc, at, db, dbOpen>>

\* Badger applies the writes, if there are any, unless a key that was read has
\* changed since.
CanApply(t) == Written(t) = {} \/ (dbOpen /\ reads[t] \cap dirty[t] = {})

commitOk(t) ==
    /\ Using(t) = {} /\ CanApply(t)
    /\ CloseIterators(t)
    /\ Discarded(t)
    /\ db' = Apply(db, writes[t])
    /\ dirty' = [u \in Tx |-> IF u # t /\ txn[u] = "open"
                              THEN dirty[u] \cup Written(t) ELSE {}]
    /\ UNCHANGED <<ipc, at, dbOpen>>

\* doTX is going to return res; hooks come first if the call was a Write.
Ends(t, res) ==
    /\ Goto(t, IF t \in Writer THEN "hook" ELSE "defer")
    /\ result' = [result EXCEPT ![t] = res]
    /\ app' = [app EXCEPT ![t] = "nil"]
    /\ ctx' = [ctx EXCEPT ![t] = "live"]
    /\ UNCHANGED <<closeVars, hook>>

EndRead(t) ==
    /\ t \in Reader /\ tpc[t] = "end"
    /\ rollback(t)
    /\ Ends(t, IF app[t] = "err" THEN "appErr" ELSE "nil")

RollbackOnError(t) ==
    /\ t \in Writer /\ tpc[t] = "end" /\ app[t] = "err"
    /\ rollback(t)
    /\ Ends(t, "appErr")

RollbackOnContext_OnlyReturns(t) ==
    /\ t \in Writer /\ tpc[t] = "end" /\ app[t] = "nil" /\ ctx[t] = "done"
    /\ Ends(t, "ErrCommitFailed")
    /\ UNCHANGED <<iterVars, dbVars>>

RollbackOnContext(t) ==
    /\ t \in Writer /\ tpc[t] = "end" /\ app[t] = "nil" /\ ctx[t] = "done"
    /\ rollback(t)
    /\ Ends(t, "ErrCommitFailed")

\* A commit that fails (a conflict, a closed database, an I/O error) also
\* discards the transaction.
Commit(t) ==
    /\ t \in Writer /\ tpc[t] = "end" /\ app[t] = "nil" /\ ctx[t] = "live"
    /\ \/ commitOk(t) /\ Ends(t, "nil")
       \/ rollback(t) /\ Ends(t, "ErrCommitFailed")

HookOf_CommitAttempted(res) == IF res = "appErr" THEN "onRollback" ELSE "afterCommit"
HookOf(res) == IF res = "nil" THEN "afterCommit" ELSE "onRollback"

InvokeHooks(t) ==
    /\ tpc[t] = "hook"
    /\ hook' = [hook EXCEPT ![t] = HookOf(result[t])]
    /\ Goto(t, "defer")
    /\ UNCHANGED <<iterVars, dbVars, closeVars, ctx, app, result>>

\* defer tx.rollback()
DeferredRollback(t) ==
    /\ tpc[t] \in {"defer", "unwind"}
    /\ rollback(t)
    /\ Goto(t, IF tpc[t] = "defer" THEN "returned" ELSE "panicked")
    /\ UNCHANGED <<closeVars, ctx, app, result, hook>>

-----------------------------------------------------------------------------
(* Close does not wait for transactions. *)

Close(k) == Closing!Invoke(k) /\ UNCHANGED <<doVars, iterVars, dbVars, ctx>>

DBClose(k) ==
    /\ Closing!FnReturns(k)
    /\ dbOpen' = FALSE
    /\ UNCHANGED <<doVars, iterVars, ctx, txn, db, base, writes, reads, dirty, seen>>

CloseReturns(k) ==
    /\ Closing!ReceiveResult(k) \/ Closing!TimedOut(k)
    /\ UNCHANGED <<doVars, iterVars, dbVars, ctx>>

CloseCancel(k) ==
    /\ Closing!CallerCtxDone(k)
    /\ UNCHANGED <<doVars, iterVars, dbVars, ctx>>

-----------------------------------------------------------------------------
CallbackEnds(t) == \E r \in {"nil", "err"} : CallbackReturns(t, r)

TxStep(t) ==
    \/ EndRead(t) \/ RollbackOnError(t) \/ RollbackOnContext(t) \/ Commit(t)
    \/ InvokeHooks(t) \/ DeferredRollback(t)

Next ==
    \/ \E t \in Tx :
        \/ Begin(t) \/ Cancel(t) \/ CallbackEnds(t) \/ CallbackPanics(t)
        \/ TxStep(t)
        \/ \E k \in Key : Get(t, k) \/ Delete(t, k) \/ \E v \in Val : Put(t, k, v)
        \/ \E i \in Iter : newIterator(i, t)
    \/ \E i \in Iter :
        RLock(i) \/ NestedIteration(i) \/ RUnlock(i) \/ \E k \in Key : Visit(i, k)
    \/ \E k \in Closer :
        Close(k) \/ DBClose(k) \/ CloseReturns(k) \/ CloseCancel(k)

Spec == Init /\ [][Next]_vars

(***************************************************************************)
(* Goroutines run, callbacks return and iterations end.  RLock never waits *)
(* for long, and Go's RWMutex does not let readers starve a writer.        *)
(***************************************************************************)
Fairness ==
    /\ \A t \in Tx : WF_vars(CallbackEnds(t)) /\ WF_vars(TxStep(t))
    /\ \A i \in Iter : WF_vars(RLock(i)) /\ WF_vars(RUnlock(i))

FairSpec == Spec /\ Fairness

-----------------------------------------------------------------------------
(* Properties. *)

(***************************************************************************)
(* No iterator is open when its Badger transaction is discarded ("An open  *)
(* iterator causes a panic on Discard", badger.go:206), whichever          *)
(* goroutine opened it and when.                                           *)
(***************************************************************************)
NoOpenIteratorLeft == \A i \in Iter : open[i] => txn[at[i]] = "open"

(***************************************************************************)
(* Every way out of doTX, a panic included, leaves the Badger transaction  *)
(* discarded, and before option functions run.                             *)
(***************************************************************************)
TxnEnded ==
    \A t \in Tx : tpc[t] \in {"hook", "defer", "returned", "panicked"} =>
                      txn[t] = "discarded"

(***************************************************************************)
(* Write transactions are atomic on the contents at their commit, their    *)
(* option functions match the outcome and the caller is told it.           *)
(***************************************************************************)
TxSt(t) ==
    CASE tpc[t] = "idle" -> "idle"
      [] tpc[t] \in {"fn", "end", "unwind"} -> "active"
      [] tpc[t] \in {"hook", "defer", "returned"} /\ result[t] = "nil" -> "committed"
      [] OTHER -> "aborted"

TxTold(t) ==
    IF tpc[t] # "returned" THEN "none"
    ELSE IF result[t] = "nil" THEN "ok" ELSE "error"

KV == INSTANCE TxStore WITH
        Tx <- Writer,
        writes <- [t \in Writer |-> writes[t]],
        st <- [t \in Writer |-> TxSt(t)],
        hook <- [t \in Writer |-> hook[t]],
        told <- [t \in Writer |-> TxTold(t)]

RefinesTxStore == KV!Spec

(***************************************************************************)
(* A Write that changes something and returns nil was not decided on stale *)
(* data: no other transaction has changed a key of its snapshot that its   *)
(* callback was shown, by Get or in an iteration.                          *)
(***************************************************************************)
DecidedOnCurrent ==
    [][\A t \in Writer :
          result[t] = "none" /\ result'[t] = "nil" /\ Written(t) # {} =>
              \A k \in seen[t] : base[t][k] = db[k]]_vars

(***************************************************************************)
(* Every call of doTX ends although it waits for iterations in other       *)
(* goroutines, and they for it, unless one of its own iterations starts    *)
(* another in its callback; such a transaction blocks no other.            *)
(***************************************************************************)
CallsReturn == \A t \in Tx :
    tpc[t] = "fn" ~> tpc[t] \in {"returned", "panicked"} \/ Nested(t) # {}

(***************************************************************************)
(* TestBadger_IteratorClose "tests that iterators are closed and panics    *)
(* are avoided" (badger_test.go:72) when a callback returns while its      *)
(* goroutines iterate: an iteration never works with a closed iterator.    *)
(***************************************************************************)
IteratorUsable == \A i \in Iter : ipc[i] = "using" => open[i]
=============================================================================
