----------------------------- MODULE BBoltStore -----------------------------
(***************************************************************************)
(* The bbolt-backed KVStore (src/bbolt/bbolt.go): doTX, which every Read,  *)
(* Write, ReadShelf and WriteShelf goes through, and Close.                *)
(*                                                                         *)
(* doTX takes the store's ContextRWLocker (ContextRWLocker.tla), begins a  *)
(* bbolt transaction, runs the callback, commits or rolls back, releases   *)
(* the locker and calls the AfterCommit or OnRollback functions.  Close    *)
(* does not take the locker: it calls bbolt's DB.Close through             *)
(* CallWithTimeout and relies on bbolt to wait for open transactions.      *)
(*                                                                         *)
(* bbolt itself is external.  What is used of it: a transaction reads and  *)
(* changes its own image of the database, made when it begins; Commit      *)
(* installs that image; DB.Close takes the locks that Begin needs, then    *)
(* waits until no transaction is open, then closes.  A read that ends      *)
(* gives back mmaplock, for which DB.Close waits, and then takes metalock, *)
(* which DB.Close keeps: it waits until the database is closed.            *)
(*                                                                         *)
(* A shelf that does not exist reads like an empty one (NilReader), so     *)
(* shelves and keys are one set, Key.  Reads change nothing and have no    *)
(* action: what they would return is View(t).                              *)
(*                                                                         *)
(* A call may be made inside the callback of another one, on the same      *)
(* store (tx.Store()): the outer callback goes on when it has returned.    *)
(***************************************************************************)
CONSTANTS Tx,           \* calls of Read, ReadShelf, Write and WriteShelf
          Closer,       \* calls of Close
          Key, Val, Absent, Same, None

ASSUME TxAssumption ==
    /\ None \notin Tx \cup Closer
    /\ Absent \notin Val /\ Same \notin Val /\ Absent # Same

VARIABLES
    lpc, acq, mode, lockCtx, expired, holders, writer,  \* b.lock
    tpc,      \* tpc[t]: where doTX is
    writable, \* writable[t]: the parameter of doTX
    outer,    \* outer[t]: the call whose callback makes this one, or None
    ctx,      \* ctx[t]: the context the caller passed
    app,      \* app[t]: what the callback returned, "nil" or "err"
    result,   \* result[t]: what doTX is going to return
    hook,     \* hook[t]: whose Invoke(opts) was called, AfterCommit or OnRollback
    db,       \* bbolt: the committed contents
    base,     \* bbolt: base[t] is the contents t began on
    writes,   \* bbolt: writes[t] is what t changed in its image
    dbOpen,   \* bbolt: the database is open
    closing,  \* bbolt: the DB.Close that holds the locks Begin needs
    cpc, fn, cctx                                       \* Close

Locker == INSTANCE ContextRWLocker WITH Call <- Tx, pc <- lpc, ctx <- lockCtx
Closing == INSTANCE CallWithTimeout

lockVars == <<lpc, acq, mode, lockCtx, expired, holders, writer>>
doVars == <<tpc, app, result, hook>>
callVars == <<writable, outer>>
boltVars == <<db, base, writes, dbOpen, closing>>
closeVars == <<cpc, fn, cctx>>
vars == <<lockVars, doVars, callVars, boltVars, closeVars, ctx>>

Contents == [Key -> Val \cup {Absent}]
Empty == [k \in Key |-> Absent]
NoChange == [k \in Key |-> Same]
Apply(d, w) == [k \in Key |-> IF w[k] = Same THEN d[k] ELSE w[k]]
View(t) == Apply(base[t], writes[t])

(***************************************************************************)
(* "acquire": in LockContext or RLockContext; "fn": in the callback, the   *)
(* bbolt transaction is open; "end": the callback returned, the            *)
(* transaction is still open; "removing": in Rollback of a read, which has *)
(* no lock of bbolt but waits for metalock; "unlock", "hook", "return":    *)
(* what is left to do; "panicked": the callback panicked and doTX was      *)
(* unwound.                                                                *)
(***************************************************************************)
TPC == {"idle", "acquire", "fn", "end", "removing", "unlock", "hook", "return",
        "returned", "panicked"}
Result == {"none", "nil", "appErr", "ErrCommitFailed", "ErrStoreIsClosed",
           "ErrDatabase", "lockErr"}

TypeOK ==
    /\ Locker!TypeOK
    /\ Closing!CallTypeOK
    /\ tpc \in [Tx -> TPC]
    /\ writable \in [Tx -> BOOLEAN]
    /\ outer \in [Tx -> Tx \cup {None}]
    /\ ctx \in [Tx -> {"live", "done"}]
    /\ app \in [Tx -> {"nil", "err"}]
    /\ result \in [Tx -> Result]
    /\ hook \in [Tx -> {"none", "afterCommit", "onRollback"}]
    /\ db \in Contents
    /\ base \in [Tx -> Contents]
    /\ writes \in [Tx -> [Key -> Val \cup {Absent, Same}]]
    /\ dbOpen \in BOOLEAN
    /\ closing \in Closer \cup {None}

Init ==
    /\ Locker!Init
    /\ Closing!CallInit
    /\ tpc = [t \in Tx |-> "idle"]
    /\ writable = [t \in Tx |-> FALSE]
    /\ outer = [t \in Tx |-> None]
    /\ ctx = [t \in Tx |-> "live"]
    /\ app = [t \in Tx |-> "nil"]
    /\ result = [t \in Tx |-> "none"]
    /\ hook = [t \in Tx |-> "none"]
    /\ db = Empty
    /\ base = [t \in Tx |-> Empty]
    /\ writes = [t \in Tx |-> NoChange]
    /\ dbOpen = TRUE
    /\ closing = None

-----------------------------------------------------------------------------
(* Entering doTX. *)

\* The callback of t runs: no call made in it is under way.  When one panicked,
\* the callback may recover or be unwound.
InFn(t) ==
    /\ tpc[t] = "fn"
    /\ \A u \in Tx : outer[u] = t => tpc[u] \in {"returned", "panicked"}

\* The caller is a goroutine of its own (o is None) or the callback of o.
Enter(t, w, o) ==
    /\ tpc[t] = "idle"
    /\ o # None => InFn(o)
    /\ tpc' = [tpc EXCEPT ![t] = "acquire"]
    /\ writable' = [writable EXCEPT ![t] = w]
    /\ outer' = [outer EXCEPT ![t] = o]
    /\ UNCHANGED <<boltVars, closeVars, ctx, app, result, hook>>

WriteLock_Shared(t) == Locker!RLockContext(t)
WriteLock(t) == Locker!LockContext(t)

Write(t, o) == WriteLock(t) /\ Enter(t, TRUE, o)
Read(t, o) == Locker!RLockContext(t) /\ Enter(t, FALSE, o)

\* A step of the goroutines of lockWithCancel.
LockerStep(t) ==
    /\ Locker!Progress(t)
    /\ UNCHANGED <<doVars, boltVars, closeVars, callVars, ctx>>

LockTimeout_Ignored(t) == FALSE

\* lockCtx reaches LockAcquireTimeout.
LockTimeout(t) ==
    /\ tpc[t] = "acquire"
    /\ Locker!CtxDone(t)
    /\ UNCHANGED <<doVars, boltVars, closeVars, callVars, ctx>>

\* The caller's context ends; lockCtx is derived from it.
Cancel(t) ==
    /\ tpc[t] \in {"acquire", "fn", "end"} /\ ctx[t] = "live"
    /\ ctx' = [ctx EXCEPT ![t] = "done"]
    /\ lockCtx' = IF lpc[t] = "select"
                  THEN [lockCtx EXCEPT ![t] = "done"] ELSE lockCtx
    /\ UNCHANGED <<lpc, acq, mode, expired, holders, writer, doVars, boltVars,
                   closeVars, callVars>>

LockFailed(t) ==
    /\ tpc[t] = "acquire" /\ lpc[t] = "err"
    /\ tpc' = [tpc EXCEPT ![t] = "returned"]
    /\ result' = [result EXCEPT ![t] = "lockErr"]
    /\ ctx' = [ctx EXCEPT ![t] = "live"]
    /\ UNCHANGED <<lockVars, boltVars, closeVars, callVars, app, hook>>

-----------------------------------------------------------------------------
(* The bbolt transaction. *)

OpenTx == {t \in Tx : tpc[t] \in {"fn", "end", "panicked"}}

OpenWriter == {t \in OpenTx : writable[t]}

\* db.Begin waits for a DB.Close that has taken its locks, and for the other
\* write transaction.
Begin(t) ==
    /\ tpc[t] = "acquire" /\ lpc[t] = "locked"
    /\ closing = None
    /\ writable[t] => OpenWriter = {}
    /\ \/ /\ dbOpen
          /\ tpc' = [tpc EXCEPT ![t] = "fn"]
          /\ base' = [base EXCEPT ![t] = db]
          /\ UNCHANGED result
       \/ /\ tpc' = [tpc EXCEPT ![t] = "unlock"]
          /\ result' = [result EXCEPT ![t] =
                            IF dbOpen THEN "ErrDatabase" ELSE "ErrStoreIsClosed"]
          /\ UNCHANGED base
    /\ UNCHANGED <<lockVars, closeVars, callVars, ctx, app, hook, db, writes,
                   dbOpen, closing>>

Change(t, k, v) ==
    /\ writable[t] /\ InFn(t)
    /\ writes' = [writes EXCEPT ![t][k] = v]
    /\ UNCHANGED <<lockVars, doVars, closeVars, callVars, ctx, db, base, dbOpen, closing>>

Put(t, k, v) == v \in Val /\ Change(t, k, v)
Delete(t, k) == Change(t, k, Absent)

CallbackReturns(t, r) ==
    /\ InFn(t)
    /\ tpc' = [tpc EXCEPT ![t] = "end"]
    /\ app' = [app EXCEPT ![t] = r]
    /\ UNCHANGED <<lockVars, boltVars, closeVars, callVars, ctx, result, hook>>

\* doTX has no deferred call that ends the transaction or unlocks.
CallbackPanics(t) ==
    /\ InFn(t)
    /\ tpc' = [tpc EXCEPT ![t] = "panicked"]
    /\ UNCHANGED <<lockVars, boltVars, closeVars, callVars, ctx, app, result, hook>>

\* What comes next when the bbolt transaction has ended.
TxEnded_HooksFirst(t) == IF writable[t] THEN "hook" ELSE "removing"
TxEnded(t) == IF writable[t] THEN "unlock" ELSE "removing"

\* The bbolt transaction ends, and with it the lock it has: rwlock or, for a
\* read, mmaplock.  contents is db afterwards.  The image of t and what its
\* callback returned are not used again and are reset.
Finish(t, res, contents) ==
    /\ tpc[t] = "end"
    /\ tpc' = [tpc EXCEPT ![t] = TxEnded(t)]
    /\ result' = [result EXCEPT ![t] = res]
    /\ db' = contents
    /\ base' = [base EXCEPT ![t] = Empty]
    /\ writes' = [writes EXCEPT ![t] = NoChange]
    /\ app' = [app EXCEPT ![t] = "nil"]
    /\ UNCHANGED <<lockVars, closeVars, callVars, ctx, hook, dbOpen, closing>>

EndRead(t) ==
    /\ ~writable[t]
    /\ Finish(t, IF app[t] = "err" THEN "appErr" ELSE "nil", db)

\* Tx.Rollback of a read takes metalock to be removed from the database's list
\* of transactions: it waits for a DB.Close under way.
RemoveTx(t) ==
    /\ tpc[t] = "removing" /\ closing = None
    /\ tpc' = [tpc EXCEPT ![t] = "unlock"]
    /\ UNCHANGED <<lockVars, boltVars, closeVars, callVars, ctx, app, result, hook>>

RollbackOnError(t) ==
    /\ writable[t] /\ app[t] = "err"
    /\ Finish(t, "appErr", db)

RollbackOnContext(t) ==
    /\ writable[t] /\ app[t] = "nil" /\ ctx[t] = "done"
    /\ Finish(t, "ErrCommitFailed", db)

\* dbTX.Commit() can fail, and then leaves the database as it was.
Commit(t) ==
    /\ writable[t] /\ app[t] = "nil" /\ ctx[t] = "live"
    /\ \/ Finish(t, "nil", View(t))
       \/ Finish(t, "ErrCommitFailed", db)

-----------------------------------------------------------------------------
(* Leaving doTX. *)

\* Only a writable transaction that was begun invokes its options.
AfterUnlock(t) ==
    IF writable[t] /\ result[t] \notin {"ErrStoreIsClosed", "ErrDatabase"}
    THEN "hook" ELSE "returned"

\* The context is not used again and is reset.
Unlock(t) ==
    /\ tpc[t] = "unlock"
    /\ Locker!Unlock(t)
    /\ tpc' = [tpc EXCEPT ![t] = AfterUnlock(t)]
    /\ ctx' = [ctx EXCEPT ![t] = "live"]
    /\ UNCHANGED <<boltVars, closeVars, callVars, app, result, hook>>

HookOf_CommitAttempted(res) == IF res = "appErr" THEN "onRollback" ELSE "afterCommit"
HookOf(res) == IF res = "nil" THEN "afterCommit" ELSE "onRollback"

InvokeHooks(t) ==
    /\ tpc[t] = "hook"
    /\ hook' = [hook EXCEPT ![t] = HookOf(result[t])]
    /\ tpc' = [tpc EXCEPT ![t] = "return"]
    /\ UNCHANGED <<lockVars, boltVars, closeVars, callVars, ctx, app, result>>

Return(t) ==
    /\ tpc[t] = "return"
    /\ tpc' = [tpc EXCEPT ![t] = "returned"]
    /\ UNCHANGED <<lockVars, boltVars, closeVars, callVars, ctx, app, result, hook>>

-----------------------------------------------------------------------------
(* Close. *)

Close(k) ==
    /\ Closing!Invoke(k)
    /\ UNCHANGED <<lockVars, doVars, callVars, boltVars, ctx>>

\* DB.Close takes rwlock, which a write transaction keeps, and metalock.
DBCloseLocks(k) ==
    /\ fn[k] = "running" /\ closing = None
    /\ OpenWriter = {}
    /\ closing' = k
    /\ UNCHANGED <<lockVars, doVars, closeVars, callVars, ctx, db, base, writes, dbOpen>>

\* It takes mmaplock, which a read transaction keeps, closes and returns.  No
\* write transaction begins once it has the other two.
DBClose(k) ==
    /\ closing = k
    /\ OpenTx = {}
    /\ dbOpen' = FALSE
    /\ closing' = None
    /\ Closing!FnReturns(k)
    /\ UNCHANGED <<lockVars, doVars, callVars, ctx, db, base, writes>>

CloseReturns(k) ==
    /\ Closing!ReceiveResult(k) \/ Closing!TimedOut(k)
    /\ UNCHANGED <<lockVars, doVars, callVars, boltVars, ctx>>

CloseCancel(k) ==
    /\ Closing!CallerCtxDone(k)
    /\ UNCHANGED <<lockVars, doVars, callVars, boltVars, ctx>>

-----------------------------------------------------------------------------
TxStep(t) ==
    \/ LockFailed(t) \/ Begin(t)
    \/ EndRead(t) \/ RemoveTx(t) \/ RollbackOnError(t) \/ RollbackOnContext(t)
    \/ Commit(t) \/ Unlock(t) \/ InvokeHooks(t) \/ Return(t)

CallbackEnds(t) == \E r \in {"nil", "err"} : CallbackReturns(t, r)

HelperStep(t) == LockerStep(t) /\ acq' # acq
CallerStep(t) == (LockerStep(t) /\ lpc' # lpc) \/ TxStep(t) \/ CallbackEnds(t)

CloseStep(k) == DBCloseLocks(k) \/ DBClose(k)

Next ==
    \/ \E t \in Tx :
        \/ \E o \in Tx \cup {None} : Read(t, o) \/ Write(t, o)
        \/ LockerStep(t) \/ LockTimeout(t) \/ Cancel(t)
        \/ TxStep(t) \/ CallbackEnds(t) \/ CallbackPanics(t)
        \/ \E k \in Key : Delete(t, k) \/ \E v \in Val : Put(t, k, v)
    \/ \E k \in Closer :
        Close(k) \/ CloseStep(k) \/ CloseReturns(k) \/ CloseCancel(k)

Spec == Init /\ [][Next]_vars

(***************************************************************************)
(* The Go scheduler runs every goroutine that can run: the caller of doTX, *)
(* the helper of its lockWithCancel, the caller of Close and the goroutine *)
(* of DB.Close.  Callbacks return (or panic), and lockCtx always has a     *)
(* deadline, LockAcquireTimeout.                                           *)
(***************************************************************************)
Fairness ==
    /\ \A t \in Tx :
        /\ WF_vars(HelperStep(t))
        /\ WF_vars(CallerStep(t))
        /\ WF_vars(LockTimeout(t))
    /\ \A k \in Closer : WF_vars(CloseStep(k)) /\ WF_vars(CloseReturns(k))

FairSpec == Spec /\ Fairness

-----------------------------------------------------------------------------
(* Properties. *)

(***************************************************************************)
(* The image a transaction works on is the committed state for as long as  *)
(* it is open: no other writer commits under a writer (no lost update) or  *)
(* under a reader (no torn read), although the lock is taken and given     *)
(* back by helper goroutines and Close does not take it.                   *)
(***************************************************************************)
OpenTxIsCurrent == \A t \in OpenTx : base[t] = db

(***************************************************************************)
(* AfterCommit and OnRollback functions run when the transaction has       *)
(* released the store's lock, so that they can start transactions of their *)
(* own (kvtests: "Happens after commit, so we should be able to read the   *)
(* data now").                                                             *)
(***************************************************************************)
HooksRunUnlocked ==
    \A t \in Tx : tpc[t] \in {"hook", "return", "returned"} =>
                      lpc[t] \in {"released", "err"}

(***************************************************************************)
(* When Close has returned nil the database is closed for good: no         *)
(* transaction is open on it.                                              *)
(***************************************************************************)
ClosedIsQuiet ==
    (\E k \in Closer : cpc[k] = "returned") => ~dbOpen /\ OpenTx = {}

(***************************************************************************)
(* Every write transaction is atomic on the contents at its commit, its    *)
(* option functions match its outcome and its caller is told the outcome.  *)
(***************************************************************************)
Ended(t) == tpc[t] \in {"unlock", "hook", "return", "returned"}

TxSt(t) ==
    CASE writable[t] /\ tpc[t] \in {"fn", "end", "panicked"} -> "active"
      [] writable[t] /\ Ended(t) /\ result[t] = "nil" -> "committed"
      [] writable[t] /\ Ended(t) /\ result[t] \in {"appErr", "ErrCommitFailed"} -> "aborted"
      [] OTHER -> "idle"

TxTold(t) ==
    IF ~writable[t] \/ tpc[t] # "returned" THEN "none"
    ELSE IF result[t] = "nil" THEN "ok" ELSE "error"

KV == INSTANCE TxStore WITH
        st <- [t \in Tx |-> TxSt(t)],
        told <- [t \in Tx |-> TxTold(t)]

RefinesTxStore == KV!Spec

(***************************************************************************)
(* DB.Close has taken the locks that Begin needs and waits for a read      *)
(* transaction that will not end: its callback has panicked, or has made a *)
(* call that waits in Begin, or a Read that waits in Rollback, for one of  *)
(* these locks.  Nobody's context is looked at.                            *)
(***************************************************************************)
Deadlocked ==
    closing # None /\ \E t \in OpenTx :
        \/ tpc[t] = "panicked"
        \/ \E u \in Tx :
            /\ outer[u] = t
            /\ tpc[u] = "removing" \/ (tpc[u] = "acquire" /\ lpc[u] = "locked")

\* For ever: neither that, nor the mutual wait of lockWithCancel, ends.
Hung == Deadlocked \/ \E t \in Tx : Locker!Stuck(t)

(***************************************************************************)
(* Unless a DB.Close is deadlocked so or lockWithCancel gets stuck, every  *)
(* call of doTX ends, although a callback may make calls of its own on the *)
(* store whose lock it holds, and a panic leaves the lock held for ever:   *)
(* LockAcquireTimeout ends the wait of all others.  A call that returned   *)
(* has released the lock.                                                  *)
(***************************************************************************)
CallsReturn == \A t \in Tx :
    tpc[t] = "acquire" ~> \/ tpc[t] = "returned" /\ t \notin holders
                          \/ tpc[t] = "panicked" \/ Hung

(***************************************************************************)
(* DB.Close completes, also when the caller of Close timed out, unless it  *)
(* is deadlocked or a transaction stays open because its callback panicked.*)
(***************************************************************************)
CloseCompletes == \A k \in Closer :
    fn[k] = "running" ~> ~dbOpen \/ Hung \/ \E t \in Tx : tpc[t] = "panicked"
=============================================================================
