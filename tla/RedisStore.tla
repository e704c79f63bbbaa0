----------------------------- MODULE RedisStore -----------------------------
(***************************************************************************)
(* The Redis-backed KVStore (src/redis7/redis.go): doTX with the           *)
(* distributed lock of WithWriteLock, Read, and Close.                     *)
(*                                                                         *)
(* The server is shared by every process that uses the same prefix, so a   *)
(* transaction is protected only by the lock, and the lock only by time:   *)
(* it expires lockExpiryOffset after the deadline of the transaction that  *)
(* took it.  Changes are buffered in a pipeline that Exec sends as one     *)
(* MULTI/EXEC; when Exec returns an error the server may still apply it.   *)
(*                                                                         *)
(* External, as the store uses it: the server (contents and lock), the     *)
(* client (refuses to send when it is closed or the context has ended) and *)
(* redsync.  The network delivers a pipeline within Delay or not at all.   *)
(***************************************************************************)
EXTENDS Integers

CONSTANTS
    Tx,           \* calls of Write and WriteShelf
    Locking,      \* those that pass WithWriteLock
    Reader,       \* calls of Read and ReadShelf
    Closer,       \* calls of Close
    Key, Val, Absent, Same, None,
    Timeouts,     \* how long contexts live, DefaultTransactionTimeout included
    Offset,       \* lockExpiryOffset
    Delay,        \* the longest a pipeline travels before it is executed
    LastStart,    \* bound: no transaction starts later
    Faulty        \* connections may fail while a context is live

ASSUME RedisAssumption ==
    /\ Locking \subseteq Tx
    /\ Tx \cap Reader = {}
    /\ None \notin Tx \cup Reader \cup Closer
    /\ Absent \notin Val /\ Same \notin Val /\ Absent # Same
    /\ Timeouts \subseteq Nat
    /\ Offset \in Nat /\ Delay \in Nat /\ LastStart \in Nat
    /\ Faulty \in BOOLEAN

VARIABLES
    client,       \* s.client is not nil
    mux,          \* the Close that holds s.mux
    connected,    \* the redis.Client has not been closed
    cpc, fn, cctx,               \* Close, see CallWithTimeout
    tpc,          \* tpc[t]: where the call is
    got,          \* got[t]: s.client was not nil when the call read it
    cancelled,    \* cancelled[t]: the context was cancelled before its deadline
    deadline,     \* deadline[t]: the deadline of the context
    expiry,       \* expiry[t]: lockExpiry, the lifetime of the lock t asks for
    writes,       \* writes[t]: what is buffered in the pipeline
    app,          \* app[t]: what the callback returned
    result,       \* result[t]: what doTX is going to return
    hook,         \* hook[t]: whose Invoke(opts) was called
    now,          \* time
    db,           \* server: the contents
    owner,        \* server: the transaction that has the lock
    until,        \* server: when the lock expires
    wire,         \* wire[t]: what became of the pipeline of t
    sentAt,       \* sentAt[t]: when it was sent
    base          \* base[t]: db when t began, for the properties only

Closing == INSTANCE CallWithTimeout

closeVars == <<client, mux, connected, cpc, fn, cctx>>
ctxVars == <<cancelled, deadline, expiry>>
lockVars == <<owner, until>>
pipeVars == <<db, wire, sentAt, base, writes>>
endVars == <<app, result, hook>>
vars == <<closeVars, ctxVars, lockVars, pipeVars, endVars, tpc, got, now>>

Call == Tx \cup Reader
Contents == [Key -> Val \cup {Absent}]
Empty == [k \in Key |-> Absent]
NoChange == [k \in Key |-> Same]
Apply(d, w) == [k \in Key |-> IF w[k] = Same THEN d[k] ELSE w[k]]

\* The bound on time: every lock has expired by then.
Horizon == LastStart + 2 * (CHOOSE d \in Timeouts : \A e \in Timeouts : e <= d)
           + Offset

\* ctx.Err()
CtxErr(t) == IF cancelled[t] THEN "canceled"
             ELSE IF now >= deadline[t] THEN "deadline" ELSE "nil"

(***************************************************************************)
(* "doTX": Write has called checkOpen, doTX is about to; "acquire": in     *)
(* redsync's LockContext; "begin": about to use s.client; "fn": in the     *)
(* callback; "end": it returned; "exec": about to call Exec; "wait": in    *)
(* Exec; "nilclient": the call panicked on a nil client; "panicked": the   *)
(* callback panicked.                                                      *)
(***************************************************************************)
TPC == {"idle", "doTX", "acquire", "begin", "fn", "end", "exec", "wait",
        "unlock", "hook", "returned", "nilclient", "panicked"}
Result == {"none", "nil", "appErr", "ErrDatabase", "ErrCommitFailed",
           "ErrStoreIsClosed", "lockErr"}

TypeOK ==
    /\ client \in BOOLEAN /\ connected \in BOOLEAN
    /\ mux \in Closer \cup {None}
    /\ Closing!CallTypeOK
    /\ tpc \in [Call -> TPC] /\ got \in [Call -> BOOLEAN]
    /\ cancelled \in [Tx -> BOOLEAN]
    /\ deadline \in [Tx -> Nat] /\ expiry \in [Tx -> Nat] /\ sentAt \in [Tx -> Nat]
    /\ writes \in [Tx -> [Key -> Val \cup {Absent, Same}]]
    /\ app \in [Tx -> {"nil", "err"}]
    /\ result \in [Call -> Result]
    /\ hook \in [Tx -> {"none", "afterCommit", "onRollback"}]
    /\ now \in Nat /\ until \in Nat
    /\ db \in Contents /\ base \in [Tx -> Contents]
    /\ owner \in Tx \cup {None}
    /\ wire \in [Tx -> {"none", "sent", "applied", "dropped"}]

Init ==
    /\ client = TRUE /\ mux = None /\ connected = TRUE
    /\ Closing!CallInit
    /\ tpc = [t \in Call |-> "idle"] /\ got = [t \in Call |-> TRUE]
    /\ cancelled = [t \in Tx |-> FALSE]
    /\ deadline = [t \in Tx |-> 0] /\ expiry = [t \in Tx |-> 0]
    /\ writes = [t \in Tx |-> NoChange]
    /\ app = [t \in Tx |-> "nil"]
    /\ result = [t \in Call |-> "none"]
    /\ hook = [t \in Tx |-> "none"]
    /\ now = 0
    /\ db = Empty /\ base = [t \in Tx |-> Empty]
    /\ owner = None /\ until = 0
    /\ wire = [t \in Tx |-> "none"] /\ sentAt = [t \in Tx |-> 0]

-----------------------------------------------------------------------------
(* Entering a transaction. *)

Goto(t, p) == tpc' = [tpc EXCEPT ![t] = p]

\* checkOpen takes s.mux, which Close keeps while it closes the client.
checkOpen(t, p) ==
    /\ mux = None
    /\ \/ client /\ Goto(t, p) /\ UNCHANGED result
       \/ /\ ~client
          /\ Goto(t, "returned")
          /\ result' = [result EXCEPT ![t] = "ErrStoreIsClosed"]

Write(t) ==
    /\ t \in Tx /\ tpc[t] = "idle" /\ now <= LastStart
    /\ checkOpen(t, "doTX")
    /\ UNCHANGED <<closeVars, ctxVars, lockVars, pipeVars, now, app, hook, got>>

Read(t) ==
    /\ t \in Reader /\ tpc[t] = "idle"
    /\ checkOpen(t, "begin")
    /\ UNCHANGED <<closeVars, ctxVars, lockVars, pipeVars, now, app, hook, got>>

LockExpiry_Never(t, d) == Horizon + 1
LockExpiry(t, d) == d + Offset

\* The second checkOpen, the deadline of the context and lockExpiry.
doTX(t, d) ==
    /\ t \in Tx /\ tpc[t] = "doTX"
    /\ checkOpen(t, IF t \in Locking THEN "acquire" ELSE "begin")
    /\ deadline' = [deadline EXCEPT ![t] = now + d]
    /\ expiry' = [expiry EXCEPT ![t] = LockExpiry(t, d)]
    /\ UNCHANGED <<closeVars, lockVars, pipeVars, now, app, hook, cancelled, got>>

Cancel(t) ==
    /\ t \in Tx /\ tpc[t] \in {"acquire", "begin", "fn", "end", "exec", "wait", "unlock"}
    /\ CtxErr(t) = "nil"
    /\ cancelled' = [cancelled EXCEPT ![t] = TRUE]
    /\ UNCHANGED <<closeVars, lockVars, pipeVars, endVars, tpc, now, deadline, expiry, got>>

\* txMutex.LockContext: SET NX with the expiry, retried until lockCtx ends.
Acquire(t) ==
    /\ tpc[t] = "acquire"
    /\ CtxErr(t) = "nil" /\ connected
    /\ owner = None
    /\ owner' = t /\ until' = now + expiry[t]
    /\ Goto(t, "begin")
    /\ UNCHANGED <<closeVars, ctxVars, pipeVars, endVars, now, got>>

\* LockAcquireTimeout, the end of the context, or the client's error.
LockFails(t) ==
    /\ tpc[t] = "acquire"
    /\ Goto(t, "returned")
    /\ result' = [result EXCEPT ![t] = "lockErr"]
    /\ UNCHANGED <<closeVars, ctxVars, lockVars, pipeVars, now, app, hook, got>>

\* s.client is read without s.mux: TxPipeline(), and the reader of the callback.
Begin(t) ==
    /\ tpc[t] = "begin"
    /\ Goto(t, "fn")
    /\ got' = [got EXCEPT ![t] = client]
    /\ base' = IF t \in Tx THEN [base EXCEPT ![t] = db] ELSE base
    /\ UNCHANGED <<closeVars, ctxVars, lockVars, endVars, now, db, wire, sentAt, writes>>

-----------------------------------------------------------------------------
(* In the callback.  Get and the other reads go to the server directly, and *)
(* change nothing; with a nil client the first of them panics.              *)

ReadNilClient(t) ==
    /\ tpc[t] = "fn" /\ ~got[t]
    /\ Goto(t, "nilclient")
    /\ UNCHANGED <<closeVars, ctxVars, lockVars, pipeVars, endVars, now, got>>

\* Put calls checkOpen, Delete does not; both only fill the pipeline.
Buffer(t, k, v) ==
    /\ t \in Tx /\ tpc[t] = "fn"
    /\ writes' = [writes EXCEPT ![t][k] = v]
    /\ UNCHANGED <<closeVars, ctxVars, lockVars, endVars, tpc, now, db, wire,
                   sentAt, base, got>>

Put(t, k, v) == mux = None /\ client /\ Buffer(t, k, v)
Delete(t, k) == Buffer(t, k, Absent)

CallbackReturns(t, r) ==
    /\ tpc[t] = "fn"
    /\ \/ /\ t \in Tx
          /\ Goto(t, "end")
          /\ app' = [app EXCEPT ![t] = r]
          /\ UNCHANGED <<result, got>>
       \/ /\ t \in Reader
          /\ Goto(t, "returned")
          /\ result' = [result EXCEPT ![t] = IF r = "nil" THEN "nil" ELSE "appErr"]
          /\ got' = [got EXCEPT ![t] = TRUE]
          /\ UNCHANGED app
    /\ UNCHANGED <<closeVars, ctxVars, lockVars, pipeVars, now, hook>>

CallbackPanics(t) ==
    /\ tpc[t] = "fn"
    /\ Goto(t, "panicked")
    /\ UNCHANGED <<closeVars, ctxVars, lockVars, pipeVars, endVars, now, got>>

-----------------------------------------------------------------------------
(* Ending the transaction. *)

\* doTX is going to return res.
Ends(t, res) ==
    /\ Goto(t, "unlock")
    /\ result' = [result EXCEPT ![t] = res]
    /\ UNCHANGED <<closeVars, ctxVars, lockVars, now, app, hook, got>>

\* The pipeline is emptied: pl.Discard(), or its end on the server.
Emptied(t) ==
    /\ writes' = [writes EXCEPT ![t] = NoChange]
    /\ base' = [base EXCEPT ![t] = Empty]
    /\ sentAt' = [sentAt EXCEPT ![t] = 0]

Discard(t) == Emptied(t) /\ UNCHANGED <<db, wire>>

RollbackOnError(t) ==
    tpc[t] = "end" /\ app[t] = "err" /\ Ends(t, "appErr") /\ Discard(t)

RollbackOnContext(t) ==
    /\ tpc[t] = "end" /\ app[t] = "nil" /\ CtxErr(t) # "nil"
    /\ Ends(t, "ErrDatabase") /\ Discard(t)

CommitChecked(t) ==
    /\ tpc[t] = "end" /\ app[t] = "nil" /\ CtxErr(t) = "nil"
    /\ Goto(t, "exec")
    /\ UNCHANGED <<closeVars, ctxVars, lockVars, pipeVars, endVars, now, got>>

CanSend(t) == connected /\ CtxErr(t) = "nil"

HasCommands(t) == writes[t] # NoChange

\* Without commands Exec sends nothing: that much is applied at once.
ExecNothing(t) ==
    /\ tpc[t] = "exec" /\ ~HasCommands(t)
    /\ Ends(t, "nil")
    /\ wire' = [wire EXCEPT ![t] = "applied"]
    /\ Emptied(t)
    /\ UNCHANGED db

ExecNilClient(t) ==
    /\ tpc[t] = "exec" /\ HasCommands(t) /\ ~got[t]
    /\ Goto(t, "nilclient")
    /\ UNCHANGED <<closeVars, ctxVars, lockVars, pipeVars, endVars, now, got>>

Exec(t) ==
    /\ tpc[t] = "exec" /\ HasCommands(t) /\ got[t] /\ CanSend(t)
    /\ wire' = [wire EXCEPT ![t] = "sent"]
    /\ sentAt' = [sentAt EXCEPT ![t] = now]
    /\ Goto(t, "wait")
    /\ UNCHANGED <<closeVars, ctxVars, lockVars, endVars, now, db, base, writes, got>>

ExecRefused(t) ==
    /\ tpc[t] = "exec" /\ HasCommands(t) /\ got[t] /\ ~CanSend(t)
    /\ Ends(t, "ErrCommitFailed") /\ Discard(t)

ExecReturns_IgnoresError(t) ==
    /\ tpc[t] = "wait" /\ (wire[t] # "sent" \/ ~CanSend(t))
    /\ Ends(t, "nil")
    /\ UNCHANGED pipeVars

ExecReturns(t) ==
    /\ tpc[t] = "wait"
    /\ \/ wire[t] = "applied" /\ Ends(t, "nil")
       \/ /\ wire[t] = "dropped" \/ ~CanSend(t) \/ Faulty
          /\ Ends(t, "ErrCommitFailed")
    /\ UNCHANGED pipeVars

Released_AnyContext(t) == owner = t /\ connected

\* Only a live context lets the client send the command that releases the
\* lock; the deadline case returns before it tries.
Released(t) == owner = t /\ CtxErr(t) = "nil" /\ connected

unlock(t) ==
    /\ tpc[t] = "unlock"
    /\ \/ Released(t) /\ owner' = None /\ until' = 0
       \/ (~Released(t) \/ Faulty) /\ UNCHANGED lockVars
    /\ Goto(t, "hook")
    /\ UNCHANGED <<closeVars, ctxVars, pipeVars, endVars, now, got>>

\* The option functions run and doTX returns; its context and client are not
\* used again and are reset.
InvokeHooks(t) ==
    /\ tpc[t] = "hook"
    /\ hook' = [hook EXCEPT ![t] =
                    IF result[t] = "nil" THEN "afterCommit" ELSE "onRollback"]
    /\ Goto(t, "returned")
    /\ app' = [app EXCEPT ![t] = "nil"]
    /\ cancelled' = [cancelled EXCEPT ![t] = FALSE]
    /\ deadline' = [deadline EXCEPT ![t] = 0]
    /\ expiry' = [expiry EXCEPT ![t] = 0]
    /\ got' = [got EXCEPT ![t] = TRUE]
    /\ UNCHANGED <<closeVars, lockVars, pipeVars, now, result>>

-----------------------------------------------------------------------------
(* The server and the network. *)

Applied(t) ==
    /\ wire[t] = "sent"
    /\ wire' = [wire EXCEPT ![t] = "applied"]
    /\ db' = Apply(db, writes[t])
    /\ Emptied(t)
    /\ UNCHANGED <<closeVars, ctxVars, lockVars, endVars, tpc, now, got>>

\* Refused by the server, or lost with its connection.
Dropped(t) ==
    /\ wire[t] = "sent"
    /\ wire' = [wire EXCEPT ![t] = "dropped"]
    /\ Emptied(t)
    /\ UNCHANGED <<closeVars, ctxVars, lockVars, endVars, tpc, now, db, got>>

Tick ==
    /\ now < Horizon
    /\ now = LastStart => \A t \in Tx : tpc[t] # "doTX"
    /\ \A t \in Tx : wire[t] = "sent" => now < sentAt[t] + Delay
    /\ now' = now + 1
    /\ IF until <= now + 1 THEN owner' = None /\ until' = 0 ELSE UNCHANGED lockVars
    /\ UNCHANGED <<closeVars, ctxVars, pipeVars, endVars, tpc, got>>

-----------------------------------------------------------------------------
(* Close. *)

Close(k) ==
    /\ mux = None
    /\ \/ /\ client
          /\ Closing!Invoke(k)
          /\ mux' = k
       \/ /\ ~client /\ cpc[k] = "idle"
          /\ cpc' = [cpc EXCEPT ![k] = "returned"]
          /\ UNCHANGED <<mux, fn, cctx>>
    /\ UNCHANGED <<client, connected, ctxVars, lockVars, pipeVars, endVars, tpc, now, got>>

ClientClose(k) ==
    /\ Closing!FnReturns(k)
    /\ connected' = FALSE
    /\ UNCHANGED <<client, mux, ctxVars, lockVars, pipeVars, endVars, tpc, now, got>>

CloseReturns_KeepsMux(k) ==
    /\ Closing!ReceiveResult(k) \/ Closing!TimedOut(k)
    /\ client' = FALSE
    /\ UNCHANGED <<mux, connected, ctxVars, lockVars, pipeVars, endVars, tpc, now, got>>

\* CallWithTimeout returns; s.client = nil; the deferred s.mux.Unlock().
CloseReturns(k) ==
    /\ Closing!ReceiveResult(k) \/ Closing!TimedOut(k)
    /\ client' = FALSE /\ mux' = None
    /\ UNCHANGED <<connected, ctxVars, lockVars, pipeVars, endVars, tpc, now, got>>

CloseCancel(k) ==
    /\ Closing!CallerCtxDone(k)
    /\ UNCHANGED <<client, mux, connected, ctxVars, lockVars, pipeVars, endVars, tpc, now, got>>

-----------------------------------------------------------------------------
Enter(t) == Write(t) \/ Read(t)
Starts(t) == \E d \in Timeouts : doTX(t, d)
CallbackEnds(t) == \E r \in {"nil", "err"} : CallbackReturns(t, r)

TxStep(t) ==
    \/ Begin(t) \/ RollbackOnError(t) \/ RollbackOnContext(t) \/ CommitChecked(t)
    \/ ExecNothing(t) \/ ExecNilClient(t)
    \/ Exec(t) \/ ExecRefused(t) \/ ExecReturns(t)
    \/ unlock(t) \/ InvokeHooks(t)

Delivery(t) == Applied(t) \/ Dropped(t)
CloseStep(k) == ClientClose(k) \/ CloseReturns(k)

Next ==
    \/ \E t \in Call :
        \/ Enter(t) \/ Begin(t) \/ ReadNilClient(t)
        \/ CallbackEnds(t) \/ CallbackPanics(t)
    \/ \E t \in Tx :
        \/ Starts(t) \/ Cancel(t) \/ Acquire(t) \/ LockFails(t)
        \/ TxStep(t) \/ Delivery(t)
        \/ \E k \in Key : Delete(t, k) \/ \E v \in Val : Put(t, k, v)
    \/ \E k \in Closer : Close(k) \/ CloseStep(k) \/ CloseCancel(k)
    \/ Tick

Spec == Init /\ [][Next]_vars

(***************************************************************************)
(* Goroutines run, callbacks return, lock attempts end (lockCtx has a      *)
(* deadline), client.Close returns, pipelines arrive or are dropped, and   *)
(* time passes.                                                            *)
(***************************************************************************)
Fairness ==
    /\ \A t \in Call : WF_vars(CallbackEnds(t)) /\ WF_vars(Begin(t))
    /\ \A t \in Tx :
        /\ WF_vars(Starts(t)) /\ WF_vars(Acquire(t) \/ LockFails(t))
        /\ WF_vars(TxStep(t)) /\ WF_vars(Delivery(t))
    /\ \A k \in Closer : WF_vars(CloseStep(k))
    /\ WF_vars(Tick)

FairSpec == Spec /\ Fairness

-----------------------------------------------------------------------------
(* Properties. *)

(***************************************************************************)
(* While a WithWriteLock transaction can still commit, nobody else changes *)
(* the contents it began on: from its first read until its pipeline is     *)
(* executed or can no longer be sent, also when Exec has given up waiting, *)
(* the deadline has passed and only the expiry protects it.  Needs every   *)
(* writer to use the lock and Delay <= Offset.                             *)
(***************************************************************************)
CanCommit(t) ==
    \/ wire[t] = "sent"
    \/ tpc[t] \in {"fn", "end", "exec"} /\ CtxErr(t) = "nil"

LockedIsCurrent == \A t \in Locking : CanCommit(t) => base[t] = db

(***************************************************************************)
(* What the caller and the option functions are told can be relied on: nil *)
(* and AfterCommit mean the server applied the pipeline; every error but   *)
(* ErrCommitFailed means that nothing was ever sent.                       *)
(***************************************************************************)
OutcomeHonest == \A t \in Tx :
    /\ result[t] = "nil" \/ hook[t] = "afterCommit" => wire[t] = "applied"
    /\ result[t] \notin {"none", "nil", "ErrCommitFailed"} => wire[t] = "none"

(***************************************************************************)
(* Whatever happens to the process that took it (a panic, a closed client, *)
(* a cancelled context), the distributed lock becomes free again.          *)
(***************************************************************************)
LockBecomesFree == \A t \in Locking : owner = t ~> owner = None

(***************************************************************************)
(* When a Close has returned nil and none timed out, no pipeline leaves    *)
(* this store any more, not even of a transaction that was under way.      *)
(***************************************************************************)
Closed == (\E k \in Closer : cpc[k] = "returned") /\ (\A k \in Closer : cpc[k] # "timedout")

ClosedSendsNothing ==
    [][Closed => \A t \in Tx : wire'[t] = "sent" => wire[t] = "sent"]_vars

(***************************************************************************)
(* Every call returns, also one that waits in checkOpen for a Close,       *)
(* unless it panics.                                                       *)
(***************************************************************************)
Over == {"returned", "nilclient", "panicked"}

CallsReturn == \A t \in Call : tpc[t] # "idle" ~> tpc[t] \in Over

(***************************************************************************)
(* "ErrStoreIsClosed is returned when an operation is executed on a closed *)
(* store" (src/store.go:58): no call works with the nil that Close has put *)
(* in s.client.                                                            *)
(***************************************************************************)
ClosedIsReported == \A t \in Call : tpc[t] # "nilclient"
=============================================================================
