-------------------------- MODULE BBoltStoreProofs --------------------------
(***************************************************************************)
(* Proofs about BBoltStore for any number of calls of Read, Write and      *)
(* Close, nested or not.                                                   *)
(*                                                                         *)
(* The argument is compositional.  doTX uses its ContextRWLocker as the    *)
(* locker's specification allows (UsesLocker), so everything that is       *)
(* proved of the locker in ContextRWLockerProofs holds of the store's      *)
(* lock.  What the store adds is an inductive invariant of its own: where  *)
(* the caller is in the locker at every point of doTX, that an open        *)
(* transaction works on the committed contents, what is left behind        *)
(* outside a transaction, and what the calls of Close have achieved.       *)
(***************************************************************************)
EXTENDS BBoltStore, TLAPS

\* The proofs about the locker, for the store's lock.
LP == INSTANCE ContextRWLockerProofs WITH Call <- Tx, pc <- lpc, ctx <- lockCtx

\* Where doTX is and where it is in the locker.
LockFollowsDoTX ==
    \A t \in Tx :
        /\ tpc[t] = "idle" <=> lpc[t] = "idle"
        /\ tpc[t] = "acquire" => lpc[t] \in {"select", "cancelled", "locked", "err"}
        /\ tpc[t] \in {"fn", "end", "removing", "unlock", "panicked"} => lpc[t] = "locked"
        /\ tpc[t] \in {"hook", "return"} => lpc[t] = "released"
        /\ tpc[t] = "returned" => lpc[t] \in {"released", "err"}
ModeFollowsCall ==
    \A t \in Tx : tpc[t] # "idle" => (mode[t] = "w" <=> writable[t])
ResultFollowsDoTX ==
    \A t \in Tx :
        /\ tpc[t] \in {"idle", "acquire", "fn", "end", "panicked"} =>
               result[t] = "none"
        /\ tpc[t] \in {"removing", "unlock"} =>
               result[t] \in {"nil", "appErr", "ErrCommitFailed",
                              "ErrStoreIsClosed", "ErrDatabase"}
        /\ tpc[t] = "removing" => ~writable[t]
        /\ tpc[t] \in {"hook", "return"} =>
               writable[t] /\ result[t] \in {"nil", "appErr", "ErrCommitFailed"}
HookFollowsDoTX ==
    \A t \in Tx : tpc[t] \notin {"return", "returned"} => hook[t] = "none"
PendingOnlyWhenOpen ==
    \A t \in Tx : writes[t] # NoChange => writable[t] /\ t \in OpenTx
ClosedHasNoTx == ~dbOpen => OpenTx = {}
CloseOutcome ==
    \A k \in Closer : /\ cpc[k] = "returned" => fn[k] = "done"
                      /\ fn[k] \in {"send", "done"} => ~dbOpen

StoreInv ==
    /\ TypeOK
    /\ LockFollowsDoTX
    /\ ModeFollowsCall
    /\ OpenTxIsCurrent
    /\ ResultFollowsDoTX
    /\ HookFollowsDoTX
    /\ PendingOnlyWhenOpen
    /\ ClosedHasNoTx
    /\ CloseOutcome

-----------------------------------------------------------------------------
(* The store uses the locker as its specification allows. *)

LEMMA LockAssumption == LP!NoneAssumption
BY TxAssumption DEF LP!NoneAssumption

LEMMA SameProgress ==
    ASSUME NEW t \in Tx, Locker!Progress(t)  PROVE LP!Progress(t)
BY DEF Locker!Progress, LP!Progress, LP!MuxRLock, Locker!MuxRLock, LP!MuxAnnounce,
       Locker!MuxAnnounce, LP!MuxLock, Locker!MuxLock, LP!Abandon, Locker!Abandon,
       LP!MuxUnlock, Locker!MuxUnlock, LP!Parked, Locker!Parked, LP!Offer, Locker!Offer,
       LP!Receive, Locker!Receive, LP!SelectDone, Locker!SelectDone, LP!Expire,
       Locker!Expire, LP!MutexFree, Locker!MutexFree, LP!Return, Locker!Return

\* A step of the store is a step of its lock or leaves the lock alone.
LEMMA LockerNext == TypeOK /\ [Next]_vars => [LP!Next]_(LP!vars)
<1> SUFFICES ASSUME TypeOK, [Next]_vars PROVE [LP!Next]_(LP!vars)
  OBVIOUS
<1>1. ASSUME UNCHANGED lockVars  PROVE [LP!Next]_(LP!vars)
  BY <1>1 DEF lockVars, LP!vars
<1>2. ASSUME NEW t \in Tx, NEW o \in Tx \cup {None}, Read(t, o) \/ Write(t, o)
      PROVE  LP!Next
  <2>1. LP!LockContext(t) \/ LP!RLockContext(t)
    BY <1>2 DEF Read, Write, WriteLock, Locker!LockContext, Locker!RLockContext,
                Locker!Start, LP!LockContext, LP!RLockContext, LP!Start
  <2> QED  BY <2>1 DEF LP!Next
<1>3. ASSUME NEW t \in Tx, LockerStep(t)  PROVE LP!Next
  BY <1>3, SameProgress DEF LockerStep, LP!Next
<1>4. ASSUME NEW t \in Tx, LockTimeout(t)  PROVE LP!Next
  <2>1. LP!CtxDone(t)
    BY <1>4 DEF LockTimeout, Locker!CtxDone, LP!CtxDone
  <2> QED  BY <2>1 DEF LP!Next
<1>5. ASSUME NEW t \in Tx, Cancel(t)  PROVE [LP!Next]_(LP!vars)
  <2>1. CASE lpc[t] = "select" /\ lockCtx[t] = "live"
    <3>1. LP!CtxDone(t)
      BY <1>5, <2>1 DEF Cancel, LP!CtxDone
    <3> QED  BY <3>1 DEF LP!Next
  <2>2. CASE ~(lpc[t] = "select" /\ lockCtx[t] = "live")
    <3>1. lockCtx' = lockCtx
      BY <1>5, <2>2 DEF Cancel, TypeOK, Locker!TypeOK
    <3> QED  BY <1>1, <1>5, <3>1 DEF Cancel, lockVars
  <2> QED  BY <2>1, <2>2
<1>6. ASSUME NEW t \in Tx, Unlock(t)  PROVE LP!Next
  <2>1. LP!Unlock(t)
    BY <1>6 DEF Unlock, Locker!Unlock, LP!Unlock, Locker!MuxUnlock, LP!MuxUnlock,
                Locker!Parked, LP!Parked
  <2> QED  BY <2>1 DEF LP!Next
<1>7. ASSUME NEW t \in Tx,
             \/ LockFailed(t) \/ Begin(t) \/ EndRead(t) \/ RemoveTx(t)
             \/ RollbackOnError(t) \/ RollbackOnContext(t) \/ Commit(t) \/ InvokeHooks(t) \/ Return(t)
             \/ CallbackEnds(t) \/ CallbackPanics(t)
             \/ \E k \in Key : Delete(t, k) \/ \E v \in Val : Put(t, k, v)
      PROVE  UNCHANGED lockVars
  BY <1>7 DEF LockFailed, Begin, EndRead, RemoveTx, RollbackOnError,
              RollbackOnContext, Commit, Finish, InvokeHooks, Return, CallbackEnds, CallbackReturns,
              CallbackPanics, Delete, Put, Change
<1>8. ASSUME NEW k \in Closer,
             Close(k) \/ CloseStep(k) \/ CloseReturns(k) \/ CloseCancel(k)
      PROVE  UNCHANGED lockVars
  BY <1>8 DEF Close, CloseStep, DBCloseLocks, DBClose, CloseReturns, CloseCancel
<1>9. CASE UNCHANGED vars
  BY <1>1, <1>9 DEF vars
<1>10. ASSUME UNCHANGED lockVars \/ LP!Next  PROVE [LP!Next]_(LP!vars)
  BY <1>1, <1>10
<1> QED
  BY <1>2, <1>3, <1>4, <1>5, <1>6, <1>7, <1>8, <1>9, <1>10 DEF Next, TxStep

LEMMA LockerInit == Init => LP!Init
BY DEF Init, Locker!Init, LP!Init

\* What a step inside lockWithCancel does to its caller.
LEMMA LockerMoves ==
    ASSUME TypeOK, NEW t \in Tx, Locker!Progress(t)
    PROVE  /\ mode' = mode
           /\ \A u \in Tx \ {t} : lpc'[u] = lpc[u]
           /\ \/ lpc'[t] = lpc[t]
              \/ /\ lpc[t] \in {"select", "cancelled", "blocked"}
                 /\ lpc'[t] \in {"cancelled", "locked", "err"}
<1> USE DEF TypeOK, Locker!TypeOK
<1>1. CASE Locker!MuxRLock(t) \/ Locker!MuxAnnounce(t) \/ Locker!MuxLock(t)
  BY <1>1 DEF Locker!MuxRLock, Locker!MuxAnnounce, Locker!MuxLock
<1>2. CASE Locker!Abandon(t) \/ Locker!Offer(t)
  BY <1>2 DEF Locker!Abandon, Locker!Offer
<1>3. CASE Locker!Receive(t) \/ Locker!SelectDone(t)
  BY <1>3 DEF Locker!Receive, Locker!SelectDone
<1>4. CASE Locker!Expire(t) \/ Locker!Return(t)
  BY <1>4 DEF Locker!Expire, Locker!Return
<1> QED  BY <1>1, <1>2, <1>3, <1>4 DEF Locker!Progress

-----------------------------------------------------------------------------
(* Type correctness. *)

LEMMA SameTypes == Locker!TypeOK <=> LP!TypeOK
BY DEF Locker!TypeOK, LP!TypeOK, Locker!PC, LP!PC, Locker!Acq, LP!Acq

\* What a transaction commits are contents again.
LEMMA ApplyType ==
    ASSUME NEW d \in Contents, NEW w \in [Key -> Val \cup {Absent, Same}]
    PROVE  Apply(d, w) \in Contents
BY DEF Contents, Apply

LEMMA TypeInit == Init => TypeOK
<1>1. Init => Locker!TypeOK
  BY LockAssumption, LockerInit, LP!TypeInit, SameTypes
<1> QED
  BY <1>1 DEF Init, TypeOK, Closing!CallInit, Closing!CallTypeOK, TPC, Result, Contents,
              Empty, NoChange

LEMMA TypeNext == TypeOK /\ [Next]_vars => TypeOK'
<1> SUFFICES ASSUME TypeOK, [Next]_vars PROVE TypeOK'
  OBVIOUS
<1>1. Locker!TypeOK'
  <2>1. LP!TypeOK
    BY SameTypes DEF TypeOK
  <2>2. LP!TypeOK'
    BY <2>1, LockAssumption, LockerNext, LP!TypeNext
  <2>3. (Locker!TypeOK <=> LP!TypeOK)'
    BY DEF Locker!TypeOK, LP!TypeOK, Locker!PC, LP!PC, Locker!Acq, LP!Acq
  <2> QED  BY <2>2, <2>3
<1> DEFINE Rest == /\ tpc \in [Tx -> TPC]
                   /\ writable \in [Tx -> BOOLEAN]
                   /\ outer \in [Tx -> Tx \cup {None}]
                   /\ ctx \in [Tx -> {"live", "done"}]
                   /\ app \in [Tx -> {"nil", "err"}]
                   /\ result \in [Tx -> Result]
                   /\ hook \in [Tx -> {"none", "afterCommit", "onRollback"}]
                   /\ db \in Contents
                   /\ base \in [Tx -> Contents]
                   /\ writes \in [Tx -> [Key -> Val \cup {Absent, Same}]]
                   /\ dbOpen \in BOOLEAN
                   /\ closing \in Closer \cup {None}
<1>a. Rest /\ Closing!CallTypeOK
  BY DEF TypeOK
<1> USE DEF Rest
<1>2. ASSUME closeVars' = closeVars  PROVE Closing!CallTypeOK'
  BY <1>2, <1>a DEF closeVars, Closing!CallTypeOK
<1>3. CASE UNCHANGED vars
  BY <1>1, <1>2, <1>3, <1>a DEF vars, doVars, callVars, boltVars, TypeOK
<1>4. ASSUME NEW t \in Tx, NEW o \in Tx \cup {None}, Read(t, o) \/ Write(t, o)
      PROVE  Rest' /\ Closing!CallTypeOK'
  <2>1. PICK w \in BOOLEAN : Enter(t, w, o)
    BY <1>4 DEF Read, Write
  <2> QED  BY <1>2, <1>a, <2>1 DEF Enter, boltVars, TPC
<1>5. ASSUME NEW t \in Tx, LockerStep(t) \/ LockTimeout(t)
      PROVE  Rest' /\ Closing!CallTypeOK'
  BY <1>2, <1>5, <1>a DEF LockerStep, LockTimeout, doVars, boltVars, callVars
<1>6. ASSUME NEW t \in Tx, Cancel(t)  PROVE Rest' /\ Closing!CallTypeOK'
  BY <1>2, <1>6, <1>a DEF Cancel, doVars, boltVars, callVars
<1>7. ASSUME NEW t \in Tx, LockFailed(t)  PROVE Rest' /\ Closing!CallTypeOK'
  BY <1>2, <1>7, <1>a DEF LockFailed, boltVars, callVars, TPC, Result
<1>8. ASSUME NEW t \in Tx, Begin(t)  PROVE Rest' /\ Closing!CallTypeOK'
  BY <1>2, <1>8, <1>a DEF Begin, callVars, TPC, Result
<1>9. ASSUME NEW t \in Tx, NEW k \in Key, NEW v \in Val \cup {Absent}, Change(t, k, v)
      PROVE  Rest' /\ Closing!CallTypeOK'
  BY <1>2, <1>9, <1>a DEF Change, doVars, callVars
<1>10. ASSUME NEW t \in Tx, CallbackEnds(t) \/ CallbackPanics(t)
      PROVE  Rest' /\ Closing!CallTypeOK'
  <2>1. CASE CallbackEnds(t)
    BY <1>2, <1>a, <2>1 DEF CallbackEnds, CallbackReturns, boltVars, callVars, TPC
  <2>2. CASE CallbackPanics(t)
    BY <1>2, <1>a, <2>2 DEF CallbackPanics, boltVars, callVars, TPC
  <2> QED  BY <1>10, <2>1, <2>2
<1>11. ASSUME NEW t \in Tx, NEW r \in Result, NEW d \in Contents, Finish(t, r, d)
       PROVE  Rest' /\ Closing!CallTypeOK'
  BY <1>2, <1>11, <1>a DEF Finish, TxEnded, callVars, TPC, Contents, Empty, NoChange
<1>12. ASSUME NEW t \in Tx,
              EndRead(t) \/ RollbackOnError(t) \/ RollbackOnContext(t) \/ Commit(t)
       PROVE  Rest' /\ Closing!CallTypeOK'
  <2>1. View(t) \in Contents
    BY <1>a, ApplyType DEF View
  <2> QED
    BY <1>11, <1>12, <1>a, <2>1
       DEF EndRead, RollbackOnError, RollbackOnContext, Commit, Result
<1>13. ASSUME NEW t \in Tx, Unlock(t)  PROVE Rest' /\ Closing!CallTypeOK'
  BY <1>2, <1>13, <1>a DEF Unlock, AfterUnlock, boltVars, callVars, TPC
<1>14. ASSUME NEW t \in Tx, InvokeHooks(t) \/ Return(t) \/ RemoveTx(t)
       PROVE  Rest' /\ Closing!CallTypeOK'
  BY <1>2, <1>14, <1>a DEF InvokeHooks, HookOf, Return, RemoveTx, boltVars, callVars,
                           TPC
<1>15. ASSUME NEW k \in Closer, Close(k) \/ CloseReturns(k) \/ CloseCancel(k)
       PROVE  Rest' /\ Closing!CallTypeOK'
  <2>1. Closing!CallStep(k)
    BY <1>15 DEF Close, CloseReturns, CloseCancel, Closing!CallStep
  <2>2. Rest'
    BY <1>15, <1>a DEF Close, CloseReturns, CloseCancel, doVars, boltVars, callVars
  <2> QED  BY <1>a, <2>1, <2>2, Closing!CallTypeNext
<1>16. ASSUME NEW k \in Closer, DBCloseLocks(k)  PROVE Rest' /\ Closing!CallTypeOK'
  BY <1>2, <1>16, <1>a DEF DBCloseLocks, doVars, callVars
<1>17. ASSUME NEW k \in Closer, DBClose(k)  PROVE Rest' /\ Closing!CallTypeOK'
  <2>1. Closing!CallStep(k)
    BY <1>17 DEF DBClose, Closing!CallStep
  <2>2. Rest'
    BY <1>17, <1>a DEF DBClose, doVars, callVars
  <2> QED  BY <1>a, <2>1, <2>2, Closing!CallTypeNext
<1>18. ASSUME Rest', Closing!CallTypeOK'  PROVE TypeOK'
  BY <1>1, <1>18 DEF TypeOK
<1> HIDE DEF Rest
<1> QED
  BY <1>3, <1>4, <1>5, <1>6, <1>7, <1>8, <1>9, <1>10, <1>12, <1>13, <1>14, <1>15, <1>16,
     <1>17, <1>18 DEF Next, TxStep, CloseStep, Put, Delete

\* Every variable of the store and of its lock keeps its type, for any number
\* of transactions and of calls of Close.
THEOREM TypeCorrect == Spec => []TypeOK
<1> QED  BY TypeInit, TypeNext, PTL DEF Spec

\* doTX uses the ContextRWLocker as its specification allows.
THEOREM UsesLocker == Spec => LP!Spec
<1> QED  BY TypeCorrect, LockerInit, LockerNext, PTL DEF Spec, LP!Spec

\* What is proved of the locker holds of the store's lock.
THEOREM LockInvariant == Spec => []LP!IndInv
<1> QED  BY LockAssumption, UsesLocker, LP!IndInvariant, PTL
-----------------------------------------------------------------------------
(* The store's own invariant. *)

LEMMA StoreInit == Init => StoreInv
BY TypeInit
   DEF Init, StoreInv, LockFollowsDoTX, ModeFollowsCall, OpenTxIsCurrent,
       ResultFollowsDoTX, HookFollowsDoTX, PendingOnlyWhenOpen, ClosedHasNoTx,
       CloseOutcome, OpenTx, Locker!Init, Closing!CallInit

\* A writer whose transaction is open has the lock to itself.
LEMMA WriterIsAlone ==
    ASSUME StoreInv, LP!IndInv, NEW t \in OpenTx, writable[t]
    PROVE  OpenTx = {t}
<1>1. \A u \in OpenTx : u \in Tx /\ lpc[u] = "locked"
  BY DEF StoreInv, LockFollowsDoTX, OpenTx
<1>2. \A u \in OpenTx : u \in holders
  BY <1>1 DEF LP!IndInv, LP!HoldersExact, LP!HasLock
<1>3. mode[t] = "w"
  BY <1>1 DEF StoreInv, ModeFollowsCall, OpenTx
<1> QED  BY <1>2, <1>3 DEF LP!IndInv, LP!WriterAlone

\* The step of doTX that ends a bbolt transaction keeps the invariant: it
\* changes the contents only if it is a writer's.
LEMMA FinishKeeps ==
    ASSUME StoreInv, TypeOK', LP!IndInv, NEW t \in Tx,
           NEW res \in {"nil", "appErr", "ErrCommitFailed"}, NEW contents,
           Finish(t, res, contents), contents # db => writable[t]
    PROVE  StoreInv'
<1> USE DEF StoreInv
<1>1. /\ tpc[t] = "end" /\ tpc' = [tpc EXCEPT ![t] = TxEnded(t)]
      /\ TxEnded(t) = IF writable[t] THEN "unlock" ELSE "removing"
      /\ result' = [result EXCEPT ![t] = res]
      /\ db' = contents
      /\ base' = [base EXCEPT ![t] = Empty]
      /\ writes' = [writes EXCEPT ![t] = NoChange]
      /\ UNCHANGED <<lpc, mode, writable, hook, dbOpen, closing, cpc, fn>>
  BY DEF Finish, TxEnded, lockVars, callVars, closeVars
<1>2. OpenTx' = OpenTx \ {t} /\ t \in OpenTx
  BY <1>1 DEF OpenTx, TypeOK
<1>3. OpenTxIsCurrent'
  <2>1. CASE contents = db
    BY <1>1, <1>2, <2>1 DEF OpenTxIsCurrent, OpenTx, TypeOK
  <2>2. CASE contents # db
    <3>1. OpenTx = {t}
      BY <1>2, <2>2, WriterIsAlone
    <3> QED  BY <1>2, <3>1 DEF OpenTxIsCurrent
  <2> QED  BY <2>1, <2>2
<1>4. LockFollowsDoTX' /\ ModeFollowsCall' /\ HookFollowsDoTX'
  BY <1>1 DEF LockFollowsDoTX, ModeFollowsCall, HookFollowsDoTX, TypeOK
<1>5. ResultFollowsDoTX'
  BY <1>1 DEF ResultFollowsDoTX, TypeOK
<1>6. PendingOnlyWhenOpen'
  BY <1>1, <1>2 DEF PendingOnlyWhenOpen, TypeOK
<1>7. ClosedHasNoTx' /\ CloseOutcome'
  BY <1>1, <1>2 DEF ClosedHasNoTx, CloseOutcome
<1> QED  BY <1>3, <1>4, <1>5, <1>6, <1>7
\* Steps that change neither a transaction nor the database.
LEMMA LockStepKeeps ==
    ASSUME StoreInv, TypeOK',
           UNCHANGED <<tpc, writable, result, hook, db, base, writes, dbOpen, cpc, fn>>,
           LockFollowsDoTX', mode' = mode
    PROVE  StoreInv'
BY DEF StoreInv, ModeFollowsCall, OpenTxIsCurrent, ResultFollowsDoTX, HookFollowsDoTX,
       PendingOnlyWhenOpen, ClosedHasNoTx, CloseOutcome, OpenTx

\* Steps of Close that do not close the database.
LEMMA CloseStepKeeps ==
    ASSUME StoreInv, TypeOK',
           UNCHANGED <<lpc, mode, tpc, writable, result, hook, db, base, writes, dbOpen>>,
           CloseOutcome'
    PROVE  StoreInv'
BY DEF StoreInv, LockFollowsDoTX, ModeFollowsCall, OpenTxIsCurrent, ResultFollowsDoTX,
       HookFollowsDoTX, PendingOnlyWhenOpen, ClosedHasNoTx, OpenTx

LEMMA StoreNext == StoreInv /\ LP!IndInv /\ [Next]_vars => StoreInv'
<1> SUFFICES ASSUME StoreInv, LP!IndInv, [Next]_vars PROVE StoreInv'
  OBVIOUS
<1>1. TypeOK /\ TypeOK' /\ Locker!TypeOK
  BY TypeNext DEF StoreInv, TypeOK
<1> USE <1>1
<1>2. CASE UNCHANGED vars
  BY <1>2, CloseStepKeeps DEF vars, lockVars, doVars, callVars, boltVars, closeVars,
                              StoreInv, CloseOutcome
<1>3. ASSUME NEW t \in Tx, NEW o \in Tx \cup {None}, Read(t, o) \/ Write(t, o)
      PROVE  StoreInv'
  <2>1. PICK w \in BOOLEAN : /\ Enter(t, w, o)
                             /\ Locker!Start(t, IF w THEN "w" ELSE "r", "select")
    BY <1>3 DEF Read, Write, WriteLock, Locker!LockContext, Locker!RLockContext
  <2>2. /\ tpc[t] = "idle" /\ tpc' = [tpc EXCEPT ![t] = "acquire"]
        /\ writable' = [writable EXCEPT ![t] = w]
        /\ lpc' = [lpc EXCEPT ![t] = "select"]
        /\ mode' = [mode EXCEPT ![t] = IF w THEN "w" ELSE "r"]
        /\ UNCHANGED <<db, base, writes, dbOpen, cpc, fn, result, hook>>
    BY <2>1 DEF Enter, Locker!Start, boltVars, closeVars
  <2>3. OpenTx' = OpenTx /\ t \notin OpenTx
    BY <2>2 DEF OpenTx, TypeOK
  <2>4. LockFollowsDoTX'
    BY <2>2 DEF StoreInv, LockFollowsDoTX, TypeOK, Locker!TypeOK
  <2>5. ModeFollowsCall'
    <3>1. \A u \in Tx \ {t} : /\ mode'[u] = mode[u] /\ writable'[u] = writable[u]
                              /\ tpc'[u] = tpc[u]
      BY <2>2 DEF TypeOK, Locker!TypeOK
    <3>2. mode'[t] = (IF w THEN "w" ELSE "r") /\ writable'[t] = w
      BY <2>2 DEF TypeOK, Locker!TypeOK
    <3> QED  BY <3>1, <3>2 DEF StoreInv, ModeFollowsCall
  <2>6. ResultFollowsDoTX' /\ HookFollowsDoTX'
    BY <2>2 DEF StoreInv, ResultFollowsDoTX, HookFollowsDoTX, TypeOK
  <2>7. PendingOnlyWhenOpen'
    <3>1. \A u \in Tx \ {t} : writable'[u] = writable[u]
      BY <2>2 DEF TypeOK
    <3> QED  BY <2>2, <2>3, <3>1 DEF StoreInv, PendingOnlyWhenOpen
  <2>8. OpenTxIsCurrent' /\ ClosedHasNoTx' /\ CloseOutcome'
    BY <2>2, <2>3 DEF StoreInv, OpenTxIsCurrent, ClosedHasNoTx, CloseOutcome
  <2> QED  BY <2>4, <2>5, <2>6, <2>7, <2>8 DEF StoreInv
<1>4. ASSUME NEW t \in Tx, LockerStep(t)  PROVE StoreInv'
  <2>1. UNCHANGED <<tpc, writable, result, hook, db, base, writes, dbOpen, cpc, fn>>
    BY <1>4 DEF LockerStep, doVars, callVars, boltVars, closeVars
  <2>2. LockFollowsDoTX' /\ mode' = mode
    <3>1. /\ mode' = mode
          /\ \A u \in Tx \ {t} : lpc'[u] = lpc[u]
          /\ \/ lpc'[t] = lpc[t]
             \/ /\ lpc[t] \in {"select", "cancelled", "blocked"}
                /\ lpc'[t] \in {"cancelled", "locked", "err"}
      BY <1>4, LockerMoves DEF LockerStep
    <3>2. tpc[t] \in TPC
      BY DEF TypeOK
    <3>3. lpc'[t] # lpc[t] => tpc[t] = "acquire"
      BY <3>1, <3>2 DEF StoreInv, LockFollowsDoTX, TPC
    <3> QED  BY <2>1, <3>1, <3>3 DEF StoreInv, LockFollowsDoTX
  <2> QED  BY <2>1, <2>2, LockStepKeeps
<1>5. ASSUME NEW t \in Tx, LockTimeout(t) \/ Cancel(t)  PROVE StoreInv'
  <2>1. UNCHANGED <<tpc, writable, result, hook, db, base, writes, dbOpen, cpc, fn, lpc,
                    mode>>
    BY <1>5 DEF LockTimeout, Locker!CtxDone, Cancel, doVars, callVars, boltVars, closeVars
  <2> QED  BY <2>1, LockStepKeeps DEF StoreInv, LockFollowsDoTX
<1>6. ASSUME NEW t \in Tx, LockFailed(t)  PROVE StoreInv'
  <2>1. /\ tpc[t] = "acquire" /\ lpc[t] = "err"
        /\ tpc' = [tpc EXCEPT ![t] = "returned"]
        /\ result' = [result EXCEPT ![t] = "lockErr"]
        /\ UNCHANGED <<lpc, mode, writable, hook, db, base, writes, dbOpen, cpc, fn>>
    BY <1>6 DEF LockFailed, lockVars, callVars, boltVars, closeVars
  <2>2. OpenTx' = OpenTx
    BY <2>1 DEF OpenTx, TypeOK
  <2>3. LockFollowsDoTX' /\ ModeFollowsCall'
    BY <2>1 DEF StoreInv, LockFollowsDoTX, ModeFollowsCall, TypeOK
  <2>4. ResultFollowsDoTX' /\ HookFollowsDoTX'
    BY <2>1 DEF StoreInv, ResultFollowsDoTX, HookFollowsDoTX, TypeOK
  <2>5. /\ OpenTxIsCurrent' /\ PendingOnlyWhenOpen' /\ ClosedHasNoTx' /\ CloseOutcome'
    BY <2>1, <2>2 DEF StoreInv, OpenTxIsCurrent, PendingOnlyWhenOpen, ClosedHasNoTx,
                      CloseOutcome
  <2> QED  BY <2>3, <2>4, <2>5 DEF StoreInv
<1>7. ASSUME NEW t \in Tx, Begin(t)  PROVE StoreInv'
  <2>1. /\ tpc[t] = "acquire" /\ lpc[t] = "locked"
        /\ UNCHANGED <<lpc, mode, writable, hook, db, writes, dbOpen, cpc, fn>>
    BY <1>7 DEF Begin, lockVars, callVars, closeVars
  <2>2. CASE /\ dbOpen
             /\ tpc' = [tpc EXCEPT ![t] = "fn"]
             /\ base' = [base EXCEPT ![t] = db]
             /\ UNCHANGED result
    <3>1. OpenTx' = OpenTx \cup {t}
      BY <2>1, <2>2 DEF OpenTx, TypeOK
    <3>2. LockFollowsDoTX' /\ ModeFollowsCall' /\ ResultFollowsDoTX' /\ HookFollowsDoTX'
      BY <2>1, <2>2 DEF StoreInv, LockFollowsDoTX, ModeFollowsCall, ResultFollowsDoTX,
                        HookFollowsDoTX, TypeOK
    <3>3. OpenTxIsCurrent'
      BY <2>1, <2>2, <3>1 DEF StoreInv, OpenTxIsCurrent, OpenTx, TypeOK
    <3>4. PendingOnlyWhenOpen' /\ ClosedHasNoTx' /\ CloseOutcome'
      BY <2>1, <2>2, <3>1 DEF StoreInv, PendingOnlyWhenOpen, ClosedHasNoTx, CloseOutcome
    <3> QED  BY <3>2, <3>3, <3>4 DEF StoreInv
  <2>3. CASE /\ tpc' = [tpc EXCEPT ![t] = "unlock"]
             /\ result' = [result EXCEPT ![t] =
                               IF dbOpen THEN "ErrDatabase" ELSE "ErrStoreIsClosed"]
             /\ UNCHANGED base
    <3>1. OpenTx' = OpenTx
      BY <2>1, <2>3 DEF OpenTx, TypeOK
    <3>2. LockFollowsDoTX' /\ ModeFollowsCall' /\ ResultFollowsDoTX' /\ HookFollowsDoTX'
      BY <2>1, <2>3 DEF StoreInv, LockFollowsDoTX, ModeFollowsCall, ResultFollowsDoTX,
                        HookFollowsDoTX, TypeOK
    <3>3. OpenTxIsCurrent' /\ PendingOnlyWhenOpen' /\ ClosedHasNoTx' /\ CloseOutcome'
      BY <2>1, <2>3, <3>1 DEF StoreInv, OpenTxIsCurrent, PendingOnlyWhenOpen,
                              ClosedHasNoTx, CloseOutcome
    <3> QED  BY <3>2, <3>3 DEF StoreInv
  <2> QED  BY <1>7, <2>2, <2>3 DEF Begin
<1>8. ASSUME NEW t \in Tx, NEW k \in Key, NEW v, Change(t, k, v)  PROVE StoreInv'
  <2>1. /\ writable[t] /\ tpc[t] = "fn"
        /\ writes' = [writes EXCEPT ![t][k] = v]
        /\ UNCHANGED <<lpc, mode, tpc, writable, result, hook, db, base, dbOpen, cpc, fn>>
    BY <1>8 DEF Change, InFn, lockVars, doVars, callVars, closeVars
  <2>2. PendingOnlyWhenOpen'
    BY <2>1 DEF StoreInv, PendingOnlyWhenOpen, OpenTx, TypeOK
  <2> QED
    BY <2>1, <2>2 DEF StoreInv, LockFollowsDoTX, ModeFollowsCall, OpenTxIsCurrent,
                      ResultFollowsDoTX, HookFollowsDoTX, ClosedHasNoTx, CloseOutcome,
                      OpenTx
<1>9. ASSUME NEW t \in Tx, CallbackEnds(t) \/ CallbackPanics(t)  PROVE StoreInv'
  <2>1. PICK p \in {"end", "panicked"} :
            /\ tpc[t] = "fn" /\ tpc' = [tpc EXCEPT ![t] = p]
            /\ UNCHANGED <<lpc, mode, writable, result, hook, db, base, writes, dbOpen,
                           cpc, fn>>
    BY <1>9 DEF CallbackEnds, CallbackReturns, CallbackPanics, InFn, lockVars, callVars,
                boltVars, closeVars
  <2>2. OpenTx' = OpenTx
    BY <2>1 DEF OpenTx, TypeOK
  <2>3. LockFollowsDoTX' /\ ModeFollowsCall' /\ ResultFollowsDoTX' /\ HookFollowsDoTX'
    BY <2>1 DEF StoreInv, LockFollowsDoTX, ModeFollowsCall, ResultFollowsDoTX,
                HookFollowsDoTX, TypeOK
  <2>4. OpenTxIsCurrent' /\ PendingOnlyWhenOpen' /\ ClosedHasNoTx' /\ CloseOutcome'
    BY <2>1, <2>2 DEF StoreInv, OpenTxIsCurrent, PendingOnlyWhenOpen, ClosedHasNoTx,
                      CloseOutcome
  <2> QED  BY <2>3, <2>4 DEF StoreInv
<1>10. ASSUME NEW t \in Tx, EndRead(t)  PROVE StoreInv'
  <2>1. PICK res \in {"nil", "appErr"} : Finish(t, res, db)
    BY <1>10 DEF EndRead
  <2> QED  BY <2>1, FinishKeeps
<1>11. ASSUME NEW t \in Tx, RemoveTx(t)  PROVE StoreInv'
  <2>1. /\ tpc[t] = "removing" /\ tpc' = [tpc EXCEPT ![t] = "unlock"]
        /\ UNCHANGED <<lpc, mode, writable, result, hook, db, base, writes, dbOpen, cpc,
                       fn>>
    BY <1>11 DEF RemoveTx, lockVars, callVars, boltVars, closeVars
  <2>2. OpenTx' = OpenTx
    BY <2>1 DEF OpenTx, TypeOK
  <2>3. LockFollowsDoTX' /\ ModeFollowsCall' /\ ResultFollowsDoTX' /\ HookFollowsDoTX'
    BY <2>1 DEF StoreInv, LockFollowsDoTX, ModeFollowsCall, ResultFollowsDoTX,
                HookFollowsDoTX, TypeOK
  <2>4. OpenTxIsCurrent' /\ PendingOnlyWhenOpen' /\ ClosedHasNoTx' /\ CloseOutcome'
    BY <2>1, <2>2 DEF StoreInv, OpenTxIsCurrent, PendingOnlyWhenOpen, ClosedHasNoTx,
                      CloseOutcome
  <2> QED  BY <2>3, <2>4 DEF StoreInv
<1>12. ASSUME NEW t \in Tx, RollbackOnError(t) \/ RollbackOnContext(t) \/ Commit(t)
       PROVE  StoreInv'
  BY <1>12, FinishKeeps DEF RollbackOnError, RollbackOnContext, Commit
<1>13. ASSUME NEW t \in Tx, Unlock(t)  PROVE StoreInv'
  <2>1. /\ tpc[t] = "unlock" /\ tpc' = [tpc EXCEPT ![t] = AfterUnlock(t)]
        /\ lpc' = [lpc EXCEPT ![t] = "released"]
        /\ UNCHANGED <<mode, writable, result, hook, db, base, writes, dbOpen, cpc, fn>>
    BY <1>13 DEF Unlock, Locker!Unlock, callVars, boltVars, closeVars
  <2>2. AfterUnlock(t) \in {"hook", "returned"}
    BY DEF AfterUnlock
  <2>3. OpenTx' = OpenTx
    BY <2>1, <2>2 DEF OpenTx, TypeOK
  <2>4. LockFollowsDoTX' /\ ModeFollowsCall'
    BY <2>1, <2>2 DEF StoreInv, LockFollowsDoTX, ModeFollowsCall, TypeOK, Locker!TypeOK
  <2>5. ResultFollowsDoTX' /\ HookFollowsDoTX'
    BY <2>1 DEF StoreInv, ResultFollowsDoTX, HookFollowsDoTX, AfterUnlock, TypeOK
  <2>6. OpenTxIsCurrent' /\ PendingOnlyWhenOpen' /\ ClosedHasNoTx' /\ CloseOutcome'
    BY <2>1, <2>3 DEF StoreInv, OpenTxIsCurrent, PendingOnlyWhenOpen, ClosedHasNoTx,
                      CloseOutcome
  <2> QED  BY <2>4, <2>5, <2>6 DEF StoreInv
<1>14. ASSUME NEW t \in Tx, InvokeHooks(t) \/ Return(t)  PROVE StoreInv'
  <2>1. PICK p \in {"return", "returned"} :
            /\ tpc[t] \in {"hook", "return"} /\ tpc' = [tpc EXCEPT ![t] = p]
            /\ \A u \in Tx \ {t} : hook'[u] = hook[u]
            /\ UNCHANGED <<lpc, mode, writable, result, db, base, writes, dbOpen, cpc, fn>>
    BY <1>14 DEF InvokeHooks, Return, lockVars, callVars, boltVars, closeVars, TypeOK
  <2>2. OpenTx' = OpenTx
    BY <2>1 DEF OpenTx, TypeOK
  <2>3. LockFollowsDoTX' /\ ModeFollowsCall' /\ ResultFollowsDoTX' /\ HookFollowsDoTX'
    BY <2>1 DEF StoreInv, LockFollowsDoTX, ModeFollowsCall, ResultFollowsDoTX,
                HookFollowsDoTX, TypeOK
  <2>4. OpenTxIsCurrent' /\ PendingOnlyWhenOpen' /\ ClosedHasNoTx' /\ CloseOutcome'
    BY <2>1, <2>2 DEF StoreInv, OpenTxIsCurrent, PendingOnlyWhenOpen, ClosedHasNoTx,
                      CloseOutcome
  <2> QED  BY <2>3, <2>4 DEF StoreInv
<1>15. ASSUME NEW k \in Closer, Close(k) \/ CloseReturns(k) \/ CloseCancel(k)
       PROVE  StoreInv'
  <2>1. UNCHANGED <<lpc, mode, tpc, writable, result, hook, db, base, writes, dbOpen>>
    BY <1>15 DEF Close, CloseReturns, CloseCancel, lockVars, doVars, callVars, boltVars
  <2>2. CloseOutcome'
    BY <1>15, <2>1 DEF Close, CloseReturns, CloseCancel, Closing!Invoke,
       Closing!ReceiveResult, Closing!TimedOut, Closing!CallerCtxDone, StoreInv,
       CloseOutcome, TypeOK, Closing!CallTypeOK
  <2> QED  BY <2>1, <2>2, CloseStepKeeps
<1>16. ASSUME NEW k \in Closer, DBCloseLocks(k)  PROVE StoreInv'
  BY <1>16, CloseStepKeeps
     DEF DBCloseLocks, lockVars, doVars, callVars, closeVars, StoreInv, CloseOutcome
<1>17. ASSUME NEW k \in Closer, DBClose(k)  PROVE StoreInv'
  <2>1. /\ OpenTx = {} /\ dbOpen' = FALSE
        /\ fn[k] = "running" /\ fn' = [fn EXCEPT ![k] = "send"] /\ cpc' = cpc
        /\ UNCHANGED <<lpc, mode, tpc, writable, result, hook, db, base, writes>>
    BY <1>17 DEF DBClose, Closing!FnReturns, lockVars, doVars, callVars
  <2>2. OpenTx' = {}
    BY <2>1 DEF OpenTx
  <2>3. CloseOutcome'
    BY <2>1 DEF StoreInv, CloseOutcome, TypeOK, Closing!CallTypeOK
  <2> QED
    BY <2>1, <2>2, <2>3 DEF StoreInv, LockFollowsDoTX, ModeFollowsCall, OpenTxIsCurrent,
       ResultFollowsDoTX, HookFollowsDoTX, PendingOnlyWhenOpen, ClosedHasNoTx
<1> QED
  BY <1>2, <1>3, <1>4, <1>5, <1>6, <1>7, <1>8, <1>9, <1>10, <1>11, <1>12, <1>13, <1>14,
     <1>15, <1>16, <1>17 DEF Next, TxStep, CloseStep, Put, Delete

\* The store's invariant holds with that of its lock.
THEOREM StoreInvariant == Spec => []StoreInv
<1> QED  BY StoreInit, StoreNext, LockInvariant, PTL DEF Spec

\* No commit happens under an open transaction: no lost update, no torn read,
\* for any number of transactions, nested or not, whatever Close does.
THEOREM OpenTxIsCurrentAlways == Spec => []OpenTxIsCurrent
<1>1. StoreInv => OpenTxIsCurrent
  BY DEF StoreInv
<1> QED  BY StoreInvariant, <1>1, PTL

\* Option functions run, and doTX returns, when the lock has been released.
THEOREM HooksRunUnlockedAlways == Spec => []HooksRunUnlocked
<1>1. StoreInv => HooksRunUnlocked
  BY DEF StoreInv, LockFollowsDoTX, HooksRunUnlocked
<1> QED  BY StoreInvariant, <1>1, PTL

\* A Close that returned nil has closed the database, and no transaction is
\* open on it then or later.
THEOREM ClosedIsQuietAlways == Spec => []ClosedIsQuiet
<1>1. StoreInv => ClosedIsQuiet
  BY DEF StoreInv, CloseOutcome, ClosedHasNoTx, ClosedIsQuiet
<1> QED  BY StoreInvariant, <1>1, PTL
-----------------------------------------------------------------------------
(* Write transactions implement TxStore. *)

\* What TxStore sees of u, writes and hook apart, does not change.
Quiet(u) == TxSt(u)' = TxSt(u) /\ TxTold(u)' = TxTold(u)

\* A step that TxStore does not see.
LEMMA AllQuiet ==
    ASSUME UNCHANGED <<db, writes, hook>>, \A u \in Tx : Quiet(u)
    PROVE  UNCHANGED KV!vars
BY DEF KV!vars, Quiet

\* A step in which TxStore sees at most t move.
LEMMA OneMoves ==
    ASSUME NEW t \in Tx, \A u \in Tx \ {t} : Quiet(u)
    PROVE  /\ [u \in Tx |-> TxSt(u)]'
                  = [[u \in Tx |-> TxSt(u)] EXCEPT ![t] = TxSt(t)']
           /\ [u \in Tx |-> TxTold(u)]'
                  = [[u \in Tx |-> TxTold(u)] EXCEPT ![t] = TxTold(t)']
BY DEF Quiet

\* A step of doTX for t, seen from TxStore: the others are quiet.
LEMMA OthersQuiet ==
    ASSUME NEW t \in Tx,
           \A u \in Tx \ {t} : /\ tpc'[u] = tpc[u] /\ result'[u] = result[u]
                               /\ writable'[u] = writable[u]
    PROVE  \A u \in Tx \ {t} : Quiet(u)
BY DEF Quiet, TxSt, TxTold, Ended

\* A step after which t stands as before, and nothing else has changed.
LEMMA NobodyMoves ==
    ASSUME NEW t \in Tx, \A u \in Tx \ {t} : Quiet(u), Quiet(t)
    PROVE  /\ [u \in Tx |-> TxSt(u)]' = [u \in Tx |-> TxSt(u)]
           /\ [u \in Tx |-> TxTold(u)]' = [u \in Tx |-> TxTold(u)]
BY DEF Quiet

\* The caller of a writable transaction is told what became of it.
LEMMA TellStep ==
    ASSUME NEW t \in Tx, \A u \in Tx \ {t} : Quiet(u),
           UNCHANGED <<db, writes, hook>>,
           TxSt(t)' = TxSt(t), TxSt(t) # "active", TxTold(t) = "none",
           TxTold(t)' = IF TxSt(t) = "committed" THEN "ok" ELSE "error"
    PROVE  KV!Next
<1>1. [u \in Tx |-> TxSt(u)]' = [u \in Tx |-> TxSt(u)]
  BY DEF Quiet
<1>2. [u \in Tx |-> TxTold(u)]'
          = [[u \in Tx |-> TxTold(u)] EXCEPT ![t] = TxTold(t)']
  BY OneMoves
<1>3. KV!Tell(t)
  BY <1>1, <1>2 DEF KV!Tell
<1> QED  BY <1>3 DEF KV!Next

\* A writable transaction ends with its outcome res.
LEMMA EndStep ==
    ASSUME StoreInv, TypeOK', NEW t \in Tx,
           NEW res \in {"nil", "appErr", "ErrCommitFailed"}, NEW contents, writable[t],
           Finish(t, res, contents),
           contents = IF res = "nil" THEN View(t) ELSE db
    PROVE  KV!Next
<1>1. /\ tpc[t] = "end" /\ tpc' = [tpc EXCEPT ![t] = "unlock"]
      /\ result' = [result EXCEPT ![t] = res]
      /\ writes' = [writes EXCEPT ![t] = KV!NoChange]
      /\ db' = contents
      /\ UNCHANGED <<writable, hook>>
  BY DEF Finish, TxEnded, callVars, NoChange, KV!NoChange
<1>2. TypeOK
  BY DEF StoreInv
<1>3. \A u \in Tx \ {t} : Quiet(u)
  BY <1>1, <1>2, OthersQuiet DEF TypeOK
<1>4. tpc'[t] = "unlock" /\ result'[t] = res /\ writable'[t]
  BY <1>1, <1>2 DEF TypeOK
<1>5. /\ TxSt(t) = "active"
      /\ TxSt(t)' = IF res = "nil" THEN "committed" ELSE "aborted"
  BY <1>1, <1>4 DEF TxSt, Ended
<1>6. TxTold(t)' = TxTold(t)
  BY <1>1, <1>4 DEF TxTold
<1>7. [u \in Tx |-> TxTold(u)]' = [u \in Tx |-> TxTold(u)]
  BY <1>3, <1>6 DEF Quiet
<1>8. [u \in Tx |-> TxSt(u)]' = [[u \in Tx |-> TxSt(u)] EXCEPT ![t] = TxSt(t)']
  BY <1>3, OneMoves
<1>9. CASE res = "nil"
  <2>1. base[t] = db
    BY <1>1 DEF StoreInv, OpenTxIsCurrent, OpenTx
  <2>2. db' = KV!Apply(db, writes[t])
    BY <1>1, <1>9, <2>1 DEF View, Apply, KV!Apply
  <2>3. KV!Commit(t)
    BY <1>1, <1>5, <1>7, <1>8, <1>9, <2>2 DEF KV!Commit
  <2> QED  BY <2>3 DEF KV!Next
<1>10. CASE res # "nil"
  <2>1. KV!Abort(t)
    BY <1>1, <1>5, <1>7, <1>8, <1>10 DEF KV!Abort
  <2> QED  BY <2>1 DEF KV!Next
<1> QED  BY <1>9, <1>10

LEMMA RefinementInit == Init => KV!Init
BY DEF Init, KV!Init, KV!NoChange, Empty, NoChange, TxSt, TxTold, Ended

LEMMA RefinementNext ==
    StoreInv /\ LP!IndInv /\ [Next]_vars => [KV!Next]_(KV!vars)
<1> SUFFICES ASSUME StoreInv, LP!IndInv, [Next]_vars PROVE [KV!Next]_(KV!vars)
  OBVIOUS
<1>1. TypeOK /\ TypeOK'
  BY TypeNext DEF StoreInv
<1> USE <1>1
<1>2. ASSUME UNCHANGED <<tpc, writable, result, hook, db, writes>>
      PROVE  UNCHANGED KV!vars
  BY <1>2, AllQuiet DEF Quiet, TxSt, TxTold, Ended
<1>3. CASE UNCHANGED vars
  BY <1>2, <1>3 DEF vars, doVars, callVars, boltVars
<1>4. ASSUME NEW t \in Tx, NEW o \in Tx \cup {None}, Read(t, o) \/ Write(t, o)
      PROVE  UNCHANGED KV!vars
  <2>1. PICK w \in BOOLEAN : Enter(t, w, o)
    BY <1>4 DEF Read, Write
  <2>2. /\ tpc[t] = "idle" /\ tpc'[t] = "acquire"
        /\ \A u \in Tx \ {t} : tpc'[u] = tpc[u] /\ writable'[u] = writable[u]
        /\ UNCHANGED <<result, hook, db, writes>>
    BY <2>1 DEF Enter, boltVars, TypeOK
  <2>3. \A u \in Tx \ {t} : Quiet(u)
    BY <2>2, OthersQuiet
  <2>4. Quiet(t)
    BY <2>2 DEF Quiet, TxSt, TxTold, Ended
  <2> QED  BY <2>2, <2>3, <2>4, AllQuiet
<1>5. ASSUME NEW t \in Tx, LockerStep(t) \/ LockTimeout(t) \/ Cancel(t)
      PROVE  UNCHANGED KV!vars
  BY <1>2, <1>5 DEF LockerStep, LockTimeout, Cancel, doVars, callVars, boltVars
<1>6. ASSUME NEW t \in Tx, LockFailed(t)  PROVE [KV!Next]_(KV!vars)
  <2>1. /\ tpc[t] = "acquire" /\ tpc'[t] = "returned" /\ result'[t] = "lockErr"
        /\ \A u \in Tx \ {t} : tpc'[u] = tpc[u] /\ result'[u] = result[u]
        /\ UNCHANGED <<writable, hook, db, writes>>
    BY <1>6 DEF LockFailed, callVars, boltVars, TypeOK
  <2>2. \A u \in Tx \ {t} : Quiet(u)
    BY <2>1, OthersQuiet
  <2>3. TxSt(t) = "idle" /\ TxSt(t)' = "idle" /\ TxTold(t) = "none"
    BY <2>1 DEF TxSt, TxTold, Ended
  <2>4. CASE writable[t]
    <3>1. TxTold(t)' = "error"
      BY <2>1, <2>4 DEF TxTold
    <3> QED  BY <2>1, <2>2, <2>3, <3>1, TellStep
  <2>5. CASE ~writable[t]
    <3>1. TxTold(t)' = "none"
      BY <2>1, <2>5 DEF TxTold
    <3> QED  BY <2>1, <2>2, <2>3, <3>1, AllQuiet DEF Quiet
  <2> QED  BY <2>4, <2>5
<1>7. ASSUME NEW t \in Tx, Begin(t)  PROVE [KV!Next]_(KV!vars)
  <2>1. /\ tpc[t] = "acquire"
        /\ UNCHANGED <<writable, hook, db, writes>>
        /\ \A u \in Tx \ {t} : tpc'[u] = tpc[u] /\ result'[u] = result[u]
        /\ \/ tpc'[t] = "fn"
           \/ tpc'[t] = "unlock" /\ result'[t] \in {"ErrDatabase", "ErrStoreIsClosed"}
    BY <1>7 DEF Begin, callVars, TypeOK
  <2>2. \A u \in Tx \ {t} : Quiet(u)
    BY <2>1, OthersQuiet
  <2>3. TxSt(t) = "idle" /\ TxTold(t) = "none" /\ TxTold(t)' = "none"
    BY <2>1 DEF TxSt, TxTold, Ended
  <2>4. CASE writable[t] /\ tpc'[t] = "fn"
    <3>1. TxSt(t)' = "active"
      BY <2>1, <2>4 DEF TxSt, Ended
    <3>2. [u \in Tx |-> TxSt(u)]' = [[u \in Tx |-> TxSt(u)] EXCEPT ![t] = "active"]
      BY <2>2, <3>1, OneMoves
    <3>3. [u \in Tx |-> TxTold(u)]' = [u \in Tx |-> TxTold(u)]
      BY <2>2, <2>3 DEF Quiet
    <3>4. KV!Begin(t)
      BY <2>1, <2>3, <3>2, <3>3 DEF KV!Begin
    <3> QED  BY <3>4 DEF KV!Next
  <2>5. CASE ~(writable[t] /\ tpc'[t] = "fn")
    <3>1. TxSt(t)' = "idle"
      BY <2>1, <2>5 DEF TxSt, Ended
    <3> QED  BY <2>1, <2>2, <2>3, <3>1, AllQuiet DEF Quiet
  <2> QED  BY <2>4, <2>5
<1>8. ASSUME NEW t \in Tx, NEW k \in Key, NEW v \in Val \cup {Absent}, Change(t, k, v)
      PROVE  KV!Next
  <2>1. /\ writable[t] /\ tpc[t] = "fn"
        /\ writes' = [writes EXCEPT ![t][k] = v]
        /\ UNCHANGED <<tpc, writable, result, hook, db>>
    BY <1>8 DEF Change, InFn, doVars, callVars
  <2>2. TxSt(t) = "active"
    BY <2>1 DEF TxSt, Ended
  <2>3. /\ [u \in Tx |-> TxSt(u)]' = [u \in Tx |-> TxSt(u)]
        /\ [u \in Tx |-> TxTold(u)]' = [u \in Tx |-> TxTold(u)]
    BY <2>1 DEF TxSt, TxTold, Ended
  <2>4. KV!Change(t, k, v)
    BY <2>1, <2>2, <2>3 DEF KV!Change
  <2> QED  BY <2>4 DEF KV!Next
<1>9. ASSUME NEW t \in Tx, CallbackEnds(t) \/ CallbackPanics(t)
      PROVE  UNCHANGED KV!vars
  <2>1. /\ tpc[t] = "fn" /\ tpc'[t] \in {"end", "panicked"}
        /\ \A u \in Tx \ {t} : tpc'[u] = tpc[u]
        /\ UNCHANGED <<writable, result, hook, db, writes>>
    BY <1>9 DEF CallbackEnds, CallbackReturns, CallbackPanics, InFn, callVars, boltVars,
                TypeOK
  <2>2. \A u \in Tx \ {t} : Quiet(u)
    BY <2>1, OthersQuiet
  <2>3. Quiet(t)
    BY <2>1 DEF Quiet, TxSt, TxTold, Ended
  <2> QED  BY <2>1, <2>2, <2>3, AllQuiet
<1>10. ASSUME NEW t \in Tx, RemoveTx(t)  PROVE UNCHANGED KV!vars
  <2>1. /\ tpc[t] = "removing" /\ tpc'[t] = "unlock"
        /\ \A u \in Tx \ {t} : tpc'[u] = tpc[u]
        /\ UNCHANGED <<writable, result, hook, db, writes>>
    BY <1>10 DEF RemoveTx, callVars, boltVars, TypeOK
  <2>2. ~writable[t]
    BY <2>1 DEF StoreInv, ResultFollowsDoTX
  <2>3. \A u \in Tx \ {t} : Quiet(u)
    BY <2>1, OthersQuiet
  <2>4. Quiet(t)
    BY <2>1, <2>2 DEF Quiet, TxSt, TxTold, Ended
  <2> QED  BY <2>1, <2>3, <2>4, AllQuiet
<1>11. ASSUME NEW t \in Tx, EndRead(t)  PROVE UNCHANGED KV!vars
  <2>1. /\ ~writable[t] /\ tpc[t] = "end" /\ tpc'[t] = "removing"
        /\ \A u \in Tx \ {t} : tpc'[u] = tpc[u] /\ result'[u] = result[u]
        /\ writes' = [writes EXCEPT ![t] = NoChange]
        /\ UNCHANGED <<writable, hook, db>>
    BY <1>11 DEF EndRead, Finish, TxEnded, callVars, TypeOK
  <2>2. writes[t] = NoChange
    BY <2>1 DEF StoreInv, PendingOnlyWhenOpen
  <2>3. writes' = writes
    BY <2>1, <2>2 DEF TypeOK
  <2>4. \A u \in Tx \ {t} : Quiet(u)
    BY <2>1, OthersQuiet
  <2>5. Quiet(t)
    BY <2>1 DEF Quiet, TxSt, TxTold, Ended
  <2> QED  BY <2>1, <2>3, <2>4, <2>5, AllQuiet
<1>12. ASSUME NEW t \in Tx, RollbackOnError(t) \/ RollbackOnContext(t) \/ Commit(t)
       PROVE  KV!Next
  BY <1>12, EndStep DEF RollbackOnError, RollbackOnContext, Commit
<1>13. ASSUME NEW t \in Tx, Unlock(t)  PROVE [KV!Next]_(KV!vars)
  <2>1. /\ tpc[t] = "unlock" /\ tpc'[t] = AfterUnlock(t)
        /\ \A u \in Tx \ {t} : tpc'[u] = tpc[u]
        /\ UNCHANGED <<writable, result, hook, db, writes>>
    BY <1>13 DEF Unlock, callVars, boltVars, TypeOK
  <2>2. AfterUnlock(t) \in {"hook", "returned"}
    BY DEF AfterUnlock
  <2>3. \A u \in Tx \ {t} : Quiet(u)
    BY <2>1, OthersQuiet
  <2>4. TxSt(t)' = TxSt(t) /\ TxTold(t) = "none"
    BY <2>1, <2>2 DEF TxSt, TxTold, Ended
  <2>5. CASE writable[t] /\ AfterUnlock(t) = "returned"
    <3>1. result[t] \in {"ErrStoreIsClosed", "ErrDatabase"}
      BY <2>5 DEF AfterUnlock
    <3>2. TxSt(t) = "idle" /\ TxTold(t)' = "error"
      BY <2>1, <2>5, <3>1 DEF TxSt, TxTold, Ended
    <3> QED  BY <2>1, <2>3, <2>4, <3>2, TellStep
  <2>6. CASE ~(writable[t] /\ AfterUnlock(t) = "returned")
    <3>1. TxTold(t)' = "none"
      BY <2>1, <2>6 DEF TxTold
    <3> QED  BY <2>1, <2>3, <2>4, <3>1, AllQuiet DEF Quiet
  <2> QED  BY <2>5, <2>6
<1>14. ASSUME NEW t \in Tx, InvokeHooks(t)  PROVE KV!Next
  <2>1. /\ tpc[t] = "hook" /\ tpc'[t] = "return"
        /\ hook' = [hook EXCEPT ![t] = HookOf(result[t])]
        /\ \A u \in Tx \ {t} : tpc'[u] = tpc[u]
        /\ UNCHANGED <<writable, result, db, writes>>
    BY <1>14 DEF InvokeHooks, callVars, boltVars, TypeOK
  <2>2. /\ writable[t] /\ hook[t] = "none"
        /\ result[t] \in {"nil", "appErr", "ErrCommitFailed"}
    BY <2>1 DEF StoreInv, ResultFollowsDoTX, HookFollowsDoTX
  <2>3. /\ TxSt(t) = IF result[t] = "nil" THEN "committed" ELSE "aborted"
        /\ TxSt(t)' = TxSt(t)
    BY <2>1, <2>2 DEF TxSt, Ended
  <2>4. TxTold(t) = "none" /\ TxTold(t)' = "none"
    BY <2>1 DEF TxTold
  <2>5. \A u \in Tx \ {t} : Quiet(u)
    BY <2>1, OthersQuiet
  <2>6. /\ [u \in Tx |-> TxSt(u)]' = [u \in Tx |-> TxSt(u)]
        /\ [u \in Tx |-> TxTold(u)]' = [u \in Tx |-> TxTold(u)]
    BY <2>3, <2>4, <2>5, NobodyMoves DEF Quiet
  <2>7. KV!RunHook(t)
    BY <2>1, <2>2, <2>3, <2>4, <2>6 DEF KV!RunHook, HookOf
  <2> QED  BY <2>7 DEF KV!Next
<1>15. ASSUME NEW t \in Tx, Return(t)  PROVE KV!Next
  <2>1. /\ tpc[t] = "return" /\ tpc'[t] = "returned"
        /\ \A u \in Tx \ {t} : tpc'[u] = tpc[u]
        /\ UNCHANGED <<writable, result, hook, db, writes>>
    BY <1>15 DEF Return, callVars, boltVars, TypeOK
  <2>2. writable[t] /\ result[t] \in {"nil", "appErr", "ErrCommitFailed"}
    BY <2>1 DEF StoreInv, ResultFollowsDoTX
  <2>3. /\ TxSt(t) = IF result[t] = "nil" THEN "committed" ELSE "aborted"
        /\ TxSt(t)' = TxSt(t)
    BY <2>1, <2>2 DEF TxSt, Ended
  <2>4. TxTold(t) = "none" /\ TxTold(t)' = IF result[t] = "nil" THEN "ok" ELSE "error"
    BY <2>1, <2>2 DEF TxTold
  <2>5. \A u \in Tx \ {t} : Quiet(u)
    BY <2>1, OthersQuiet
  <2> QED  BY <2>1, <2>3, <2>4, <2>5, TellStep
<1>16. ASSUME NEW k \in Closer,
              Close(k) \/ CloseStep(k) \/ CloseReturns(k) \/ CloseCancel(k)
       PROVE  UNCHANGED KV!vars
  BY <1>2, <1>16 DEF Close, CloseStep, DBCloseLocks, DBClose, CloseReturns, CloseCancel,
                     doVars, callVars, boltVars
<1> QED
  BY <1>3, <1>4, <1>5, <1>6, <1>7, <1>8, <1>9, <1>10, <1>11, <1>12, <1>13, <1>14, <1>15,
     <1>16 DEF Next, TxStep, Put, Delete

\* The bbolt store implements TxStore for any number of transactions, nested
\* or not: write transactions are applied as a whole to the contents at their
\* commit or not at all, their option functions match the outcome and run once,
\* and the caller is told the outcome.
THEOREM ImplementsTxStore == Spec => RefinesTxStore
<1> QED
  BY StoreInvariant, LockInvariant, RefinementInit, RefinementNext, PTL
     DEF Spec, RefinesTxStore, KV!Spec
=============================================================================
