-------------------------- MODULE RedisStoreProofs --------------------------
(***************************************************************************)
(* Proofs about RedisStore for any number of transactions, readers and     *)
(* calls of Close, any timeouts and any lockExpiryOffset.                  *)
(*                                                                         *)
(* IndInv holds without assumptions: what the caller is told against what  *)
(* became of the pipeline, and what the calls of Close have achieved.      *)
(* LockInv needs every writer to pass WithWriteLock, pipelines that do not *)
(* travel longer than lockExpiryOffset and connections that do not fail    *)
(* while a context is live: it relates the lock's owner and expiry on the  *)
(* server to the deadlines of the transactions and to the pipelines under  *)
(* way.                                                                    *)
(***************************************************************************)
EXTENDS RedisStore, TLAPS

\* Nothing has been sent and nobody was told anything.
Unsent == {"idle", "doTX", "acquire", "begin", "fn", "end", "exec", "nilclient",
           "panicked"}
OutcomeFollowsDoTX ==
    \A t \in Tx :
        /\ tpc[t] \in Unsent => wire[t] = "none"
        /\ tpc[t] \in Unsent \cup {"wait"} => result[t] = "none"
        /\ tpc[t] \in Unsent \cup {"wait", "unlock", "hook"} => hook[t] = "none"

FnClosesClient == \A k \in Closer : fn[k] \in {"send", "done"} => ~connected
CloseForgetsClient == \A k \in Closer : cpc[k] \in {"returned", "failed"} => ~client
ForgottenIsClosed ==
    ~client => ~connected \/ \E k \in Closer : cpc[k] = "timedout"

IndInv ==
    /\ TypeOK
    /\ OutcomeFollowsDoTX
    /\ OutcomeHonest
    /\ FnClosesClient
    /\ CloseForgetsClient
    /\ ForgottenIsClosed

-----------------------------------------------------------------------------
(* The conditions under which the lock protects a transaction. *)
LockSuffices == Locking = Tx /\ Delay <= Offset /\ ~Faulty

\* The context of t has not ended.
Live(t) == ~cancelled[t] /\ now < deadline[t]

\* Begun and not yet past its unlock.
Begun == {"begin", "fn", "end", "exec", "wait", "unlock"}

\* The lock t asks for outlives its context by Offset.
ExpiryCoversDeadline(t) ==
    tpc[t] = "acquire" => deadline[t] + Offset <= now + expiry[t]

\* A transaction that may still send has the lock, and longer than it may send.
BegunOwns(t) ==
    tpc[t] \in Begun /\ Live(t) => owner = t /\ deadline[t] + Offset <= until

\* A pipeline under way has the lock for as long as it can travel.
SentOwns(t) ==
    wire[t] = "sent" => /\ owner = t
                        /\ sentAt[t] + Offset < until /\ now <= sentAt[t] + Delay

\* doTX gives up on a pipeline under way only when it can no longer unlock.
GivenUpKeepsLock(t) ==
    tpc[t] = "unlock" /\ wire[t] = "sent" => ~connected \/ ~Live(t)

\* LockedIsCurrent for t, with Live for what its context says.
IsCurrent(t) ==
    wire[t] = "sent" \/ (tpc[t] \in {"fn", "end", "exec"} /\ Live(t)) => base[t] = db

Protected(t) ==
    /\ ExpiryCoversDeadline(t)
    /\ BegunOwns(t)
    /\ SentOwns(t)
    /\ GivenUpKeepsLock(t)
    /\ IsCurrent(t)

LockInv == \A t \in Tx : Protected(t)

-----------------------------------------------------------------------------
(* Type correctness. *)

\* What the server applies leaves contents.
LEMMA ApplyType ==
    ASSUME NEW d \in Contents, NEW w \in [Key -> Val \cup {Absent, Same}]
    PROVE  Apply(d, w) \in Contents
BY DEF Contents, Apply

LEMMA TypeInit == Init => TypeOK
BY RedisAssumption
   DEF Init, TypeOK, Closing!CallInit, Closing!CallTypeOK, TPC, Result, Contents, Empty,
       NoChange

\* The parts of TypeOK, by what an action changes together.
TypeClose == /\ client \in BOOLEAN /\ connected \in BOOLEAN
             /\ mux \in Closer \cup {None}
             /\ Closing!CallTypeOK
TypeCall == tpc \in [Call -> TPC] /\ got \in [Call -> BOOLEAN]
TypeCtx == /\ cancelled \in [Tx -> BOOLEAN]
           /\ deadline \in [Tx -> Nat] /\ expiry \in [Tx -> Nat]
TypePipe == /\ sentAt \in [Tx -> Nat]
            /\ writes \in [Tx -> [Key -> Val \cup {Absent, Same}]]
            /\ db \in Contents /\ base \in [Tx -> Contents]
            /\ wire \in [Tx -> {"none", "sent", "applied", "dropped"}]
TypeEnd == /\ app \in [Tx -> {"nil", "err"}]
           /\ result \in [Call -> Result]
           /\ hook \in [Tx -> {"none", "afterCommit", "onRollback"}]
TypeLock == now \in Nat /\ until \in Nat /\ owner \in Tx \cup {None}

LEMMA TypeParts ==
    TypeOK <=> TypeClose /\ TypeCall /\ TypeCtx /\ TypePipe /\ TypeEnd /\ TypeLock
BY DEF TypeOK, TypeClose, TypeCall, TypeCtx, TypePipe, TypeEnd, TypeLock

LEMMA TypeNext == TypeOK /\ [Next]_vars => TypeOK'
<1> SUFFICES ASSUME TypeOK, [Next]_vars PROVE TypeOK'
  OBVIOUS
<1>0. TypeClose /\ TypeCall /\ TypeCtx /\ TypePipe /\ TypeEnd /\ TypeLock
  BY TypeParts
<1> DEFINE Goal == /\ TypeClose' /\ TypeCall' /\ TypeCtx'
                   /\ TypePipe' /\ TypeEnd' /\ TypeLock'
<1>a. ASSUME UNCHANGED closeVars  PROVE TypeClose'
  BY <1>0, <1>a DEF TypeClose, closeVars, Closing!CallTypeOK
<1>b. ASSUME UNCHANGED ctxVars  PROVE TypeCtx'
  BY <1>0, <1>b DEF TypeCtx, ctxVars
<1>c. ASSUME UNCHANGED pipeVars  PROVE TypePipe'
  BY <1>0, <1>c DEF TypePipe, pipeVars
<1>d. ASSUME UNCHANGED endVars  PROVE TypeEnd'
  BY <1>0, <1>d DEF TypeEnd, endVars
<1>e. ASSUME UNCHANGED <<lockVars, now>>  PROVE TypeLock'
  BY <1>0, <1>e DEF TypeLock, lockVars
<1>f. ASSUME NEW t \in Call, NEW p \in TPC, Goto(t, p), got' \in [Call -> BOOLEAN]
      PROVE  TypeCall'
  BY <1>0, <1>f DEF TypeCall, Goto
<1>g. ASSUME UNCHANGED <<tpc, got>>  PROVE TypeCall'
  BY <1>0, <1>g DEF TypeCall
<1>h. got \in [Call -> BOOLEAN]
  BY <1>0 DEF TypeCall
<1>i. Tx \subseteq Call /\ Reader \subseteq Call
  BY DEF Call
<1>j. ASSUME NEW t \in Call, NEW r \in Result, result' = [result EXCEPT ![t] = r],
             UNCHANGED <<app, hook>>
      PROVE  TypeEnd'
  BY <1>0, <1>j DEF TypeEnd
<1>k. ASSUME NEW t \in Tx, Emptied(t), db' \in Contents,
             wire' \in [Tx -> {"none", "sent", "applied", "dropped"}]
      PROVE  TypePipe'
  BY <1>0, <1>k DEF Emptied, TypePipe, NoChange, Empty, Contents
<1> USE <1>i
<1>1. ASSUME UNCHANGED vars  PROVE Goal
  BY <1>1, <1>a, <1>b, <1>c, <1>d, <1>e, <1>g DEF vars
<1>2. ASSUME NEW t \in Call, NEW p \in TPC, checkOpen(t, p), got' = got,
             UNCHANGED <<app, hook>>
      PROVE  TypeCall' /\ TypeEnd'
  <2>1. CASE client /\ Goto(t, p) /\ UNCHANGED result
    BY <1>2, <1>d, <1>f, <1>h, <2>1 DEF endVars
  <2>2. CASE /\ ~client
             /\ Goto(t, "returned")
             /\ result' = [result EXCEPT ![t] = "ErrStoreIsClosed"]
    BY <1>2, <1>f, <1>h, <1>j, <2>2 DEF TPC, Result
  <2> QED  BY <1>2, <2>1, <2>2 DEF checkOpen
<1>3. ASSUME NEW t \in Call, Enter(t)  PROVE Goal
  <2>1. PICK p \in {"doTX", "begin"} : checkOpen(t, p)
    BY <1>3 DEF Enter, Write, Read
  <2>2. UNCHANGED <<closeVars, ctxVars, lockVars, pipeVars, now, app, hook, got>>
    BY <1>3 DEF Enter, Write, Read
  <2>3. p \in TPC
    BY DEF TPC
  <2> QED  BY <1>2, <1>a, <1>b, <1>c, <1>e, <2>1, <2>2, <2>3
<1>4. ASSUME NEW t \in Tx, NEW d \in Timeouts, doTX(t, d)  PROVE Goal
  <2>1. PICK p \in {"acquire", "begin"} : checkOpen(t, p)
    BY <1>4 DEF doTX
  <2>2. UNCHANGED <<closeVars, lockVars, pipeVars, now, app, hook, got>>
    BY <1>4 DEF doTX
  <2>3. p \in TPC
    BY DEF TPC
  <2>4. TypeCtx'
    <3>1. now \in Nat /\ d \in Nat /\ Offset \in Nat
      BY <1>0, RedisAssumption DEF TypeLock
    <3> QED  BY <1>0, <1>4, <3>1 DEF doTX, LockExpiry, TypeCtx
  <2> QED  BY <1>2, <1>a, <1>c, <1>e, <2>1, <2>2, <2>3, <2>4
<1>5. ASSUME NEW t \in Tx, Cancel(t)  PROVE Goal
  <2>1. TypeCtx'
    BY <1>0, <1>5 DEF Cancel, TypeCtx
  <2> QED  BY <1>5, <1>a, <1>c, <1>d, <1>e, <1>g, <2>1 DEF Cancel
<1>6. ASSUME NEW t \in Tx, Acquire(t)  PROVE Goal
  <2>1. TypeLock'
    BY <1>0, <1>6 DEF Acquire, TypeLock, TypeCtx
  <2>2. TypeCall'
    BY <1>6, <1>f, <1>h DEF Acquire, TPC
  <2> QED  BY <1>6, <1>a, <1>b, <1>c, <1>d, <2>1, <2>2 DEF Acquire
<1>7. ASSUME NEW t \in Tx, LockFails(t)  PROVE Goal
  <2>1. TypeCall' /\ TypeEnd'
    BY <1>7, <1>f, <1>h, <1>j DEF LockFails, TPC, Result
  <2> QED  BY <1>7, <1>a, <1>b, <1>c, <1>e, <2>1 DEF LockFails
<1>8. ASSUME NEW t \in Call, Begin(t)  PROVE Goal
  <2>1. TypePipe'
    BY <1>0, <1>8 DEF Begin, TypePipe
  <2>2. client \in BOOLEAN
    BY <1>0 DEF TypeClose
  <2>3. got' \in [Call -> BOOLEAN]
    BY <1>8, <1>h, <2>2 DEF Begin
  <2>4. TypeCall'
    BY <1>8, <1>f, <2>3 DEF Begin, TPC
  <2> QED  BY <1>8, <1>a, <1>b, <1>d, <1>e, <2>1, <2>4 DEF Begin
<1>9. ASSUME NEW t \in Call, NEW p \in TPC, Goto(t, p),
             UNCHANGED <<closeVars, ctxVars, lockVars, pipeVars, endVars, now, got>>
      PROVE  Goal
  BY <1>9, <1>a, <1>b, <1>c, <1>d, <1>e, <1>f, <1>h
<1>10. ASSUME NEW t \in Call, ReadNilClient(t) \/ CallbackPanics(t)  PROVE Goal
  BY <1>9, <1>10 DEF ReadNilClient, CallbackPanics, TPC
<1>11. ASSUME NEW t \in Tx, CommitChecked(t) \/ ExecNilClient(t)  PROVE Goal
  BY <1>9, <1>11 DEF CommitChecked, ExecNilClient, TPC
<1>12. ASSUME NEW t \in Tx, NEW k \in Key, NEW v \in Val \cup {Absent}, Buffer(t, k, v)
       PROVE  Goal
  <2>1. TypePipe'
    BY <1>0, <1>12 DEF Buffer, TypePipe
  <2> QED  BY <1>12, <1>a, <1>b, <1>d, <1>e, <1>g, <2>1 DEF Buffer
<1>13. ASSUME NEW t \in Call, NEW r \in {"nil", "err"}, CallbackReturns(t, r)  PROVE Goal
  <2>1. TypeEnd'
    BY <1>0, <1>13 DEF CallbackReturns, TypeEnd, Result
  <2>2. TypeCall'
    BY <1>13, <1>f, <1>h DEF CallbackReturns, TPC
  <2> QED  BY <1>13, <1>a, <1>b, <1>c, <1>e, <2>1, <2>2 DEF CallbackReturns
<1>14. ASSUME NEW t \in Tx, NEW r \in Result, Ends(t, r), TypePipe'  PROVE Goal
  BY <1>14, <1>a, <1>b, <1>e, <1>f, <1>h, <1>j DEF Ends, TPC
<1>15. ASSUME NEW t \in Tx, Discard(t)  PROVE TypePipe'
  BY <1>0, <1>15, <1>k DEF Discard, TypePipe
<1>16. ASSUME NEW t \in Tx, RollbackOnError(t) \/ RollbackOnContext(t) \/ ExecRefused(t)
       PROVE  Goal
  BY <1>14, <1>15, <1>16 DEF RollbackOnError, RollbackOnContext, ExecRefused, Result
<1>17. ASSUME NEW t \in Tx, ExecNothing(t)  PROVE Goal
  <2>1. TypePipe'
    BY <1>0, <1>17, <1>k DEF ExecNothing, TypePipe
  <2> QED  BY <1>14, <1>17, <2>1 DEF ExecNothing, Result
<1>18. ASSUME NEW t \in Tx, Exec(t)  PROVE Goal
  <2>1. TypePipe'
    BY <1>0, <1>18 DEF Exec, TypePipe, TypeLock
  <2>2. TypeCall'
    BY <1>18, <1>f, <1>h DEF Exec, TPC
  <2> QED  BY <1>18, <1>a, <1>b, <1>d, <1>e, <2>1, <2>2 DEF Exec
<1>19. ASSUME NEW t \in Tx, ExecReturns(t)  PROVE Goal
  BY <1>14, <1>19, <1>c DEF ExecReturns, Result
<1>20. ASSUME NEW t \in Tx, unlock(t)  PROVE Goal
  <2>1. TypeLock'
    BY <1>0, <1>20 DEF unlock, TypeLock, lockVars
  <2>2. TypeCall'
    BY <1>20, <1>f, <1>h DEF unlock, TPC
  <2> QED  BY <1>20, <1>a, <1>b, <1>c, <1>d, <2>1, <2>2 DEF unlock
<1>21. ASSUME NEW t \in Tx, InvokeHooks(t)  PROVE Goal
  <2>1. got' \in [Call -> BOOLEAN]
    BY <1>21, <1>h DEF InvokeHooks
  <2>2. TypeCall'
    BY <1>21, <1>f, <2>1 DEF InvokeHooks, TPC
  <2>3. TypeCtx'
    BY <1>0, <1>21 DEF InvokeHooks, TypeCtx
  <2>4. TypeEnd'
    BY <1>0, <1>21 DEF InvokeHooks, TypeEnd
  <2> QED  BY <1>21, <1>a, <1>c, <1>e, <2>2, <2>3, <2>4 DEF InvokeHooks
<1>22. ASSUME NEW t \in Tx, Delivery(t)  PROVE Goal
  <2>1. Apply(db, writes[t]) \in Contents
    BY <1>0, ApplyType DEF TypePipe
  <2>2. TypePipe'
    BY <1>0, <1>22, <1>k, <2>1 DEF Delivery, Applied, Dropped, TypePipe
  <2> QED  BY <1>22, <1>a, <1>b, <1>d, <1>e, <1>g, <2>2 DEF Delivery, Applied, Dropped
<1>23. ASSUME Tick  PROVE Goal
  <2>1. TypeLock'
    BY <1>0, <1>23 DEF Tick, TypeLock, lockVars
  <2> QED  BY <1>23, <1>a, <1>b, <1>c, <1>d, <1>g, <2>1 DEF Tick
<1>24. ASSUME NEW k \in Closer,
              Close(k) \/ ClientClose(k) \/ CloseReturns(k) \/ CloseCancel(k)
       PROVE  Goal
  <2>1. Closing!CallTypeOK'
    <3>1. Closing!CallTypeOK
      BY <1>0 DEF TypeClose
    <3>2. CASE Closing!CallStep(k)
      BY <3>1, <3>2, Closing!CallTypeNext
    <3>3. CASE cpc' = [cpc EXCEPT ![k] = "returned"] /\ UNCHANGED <<fn, cctx>>
      BY <3>1, <3>3 DEF Closing!CallTypeOK
    <3> QED
      BY <1>24, <3>2, <3>3
         DEF Close, ClientClose, CloseReturns, CloseCancel, Closing!CallStep
  <2>2. TypeClose'
    BY <1>0, <1>24, <2>1 DEF Close, ClientClose, CloseReturns, CloseCancel, TypeClose
  <2> QED
    BY <1>24, <1>b, <1>c, <1>d, <1>e, <1>g, <2>2
       DEF Close, ClientClose, CloseReturns, CloseCancel
<1>25. ASSUME Goal  PROVE TypeOK'
  <2>1. (TypeOK <=> TypeClose /\ TypeCall /\ TypeCtx /\ TypePipe /\ TypeEnd /\ TypeLock)'
    BY DEF TypeOK, TypeClose, TypeCall, TypeCtx, TypePipe, TypeEnd, TypeLock
  <2> QED  BY <1>25, <2>1
<1> HIDE DEF Goal
<1> QED
  BY <1>1, <1>3, <1>4, <1>5, <1>6, <1>7, <1>8, <1>10, <1>11, <1>12, <1>13, <1>16, <1>17,
     <1>18, <1>19, <1>20, <1>21, <1>22, <1>23, <1>24, <1>25
     DEF Next, Starts, CallbackEnds, TxStep, CloseStep, Put, Delete

\* Every variable keeps its type, for any number of transactions, readers and
\* calls of Close, any timeouts and any lockExpiryOffset.
THEOREM TypeCorrect == Spec => []TypeOK
<1> QED  BY TypeInit, TypeNext, PTL DEF Spec
-----------------------------------------------------------------------------
(* What callers are told, and what Close achieves. *)

LEMMA IndInit == Init => IndInv
BY TypeInit
   DEF Init, IndInv, OutcomeFollowsDoTX, OutcomeHonest, FnClosesClient,
       CloseForgetsClient, ForgottenIsClosed, Closing!CallInit, Call, Unsent

\* The outcome part of the invariant.
Outcome == OutcomeFollowsDoTX /\ OutcomeHonest

\* A step of t from which nothing was sent to a place from which nothing has
\* been sent, or to the end with an error.
LEMMA UnsentStep ==
    ASSUME TypeOK, Outcome, NEW t \in Call, NEW p \in TPC,
           t \in Tx => /\ tpc[t] \in Unsent
                       /\ \/ p \in Unsent /\ result'[t] = result[t]
                          \/ p \in {"unlock", "returned"} /\ result'[t] # "nil",
           \A u \in Call \ {t} : result'[u] = result[u],
           tpc' = [tpc EXCEPT ![t] = p], UNCHANGED <<wire, hook>>
    PROVE  Outcome'
<1>1. \A u \in Tx \ {t} : tpc'[u] = tpc[u] /\ result'[u] = result[u]
  BY DEF TypeOK, Call
<1>2. tpc'[t] = p
  BY DEF TypeOK
<1> QED
  BY <1>1, <1>2 DEF Outcome, OutcomeFollowsDoTX, OutcomeHonest, Unsent

LEMMA OutcomeNext == TypeOK /\ Outcome /\ [Next]_vars => Outcome'
<1> SUFFICES ASSUME TypeOK, Outcome, [Next]_vars PROVE Outcome'
  OBVIOUS
<1>a. Tx \subseteq Call
  BY DEF Call
<1> USE <1>a
<1>1. ASSUME UNCHANGED <<tpc, result, hook, wire>>  PROVE Outcome'
  BY <1>1 DEF Outcome, OutcomeFollowsDoTX, OutcomeHonest
<1>2. CASE UNCHANGED vars
  BY <1>1, <1>2 DEF vars, endVars, pipeVars
<1>3. ASSUME NEW t \in Call, NEW p \in {"doTX", "begin", "acquire"}, checkOpen(t, p),
             t \in Tx => tpc[t] \in Unsent, UNCHANGED <<hook, wire>>
      PROVE  Outcome'
  <2>1. CASE Goto(t, p) /\ UNCHANGED result
    BY <1>3, <2>1, UnsentStep DEF Goto, Unsent, TPC
  <2>2. CASE Goto(t, "returned") /\ result' = [result EXCEPT ![t] = "ErrStoreIsClosed"]
    BY <1>3, <2>2, UnsentStep DEF Goto, TPC, TypeOK
  <2> QED  BY <1>3, <2>1, <2>2 DEF checkOpen
<1>4. ASSUME NEW t \in Call, Enter(t)  PROVE Outcome'
  BY <1>3, <1>4 DEF Enter, Write, Read, Unsent, pipeVars
<1>5. ASSUME NEW t \in Tx, NEW d \in Timeouts, doTX(t, d)  PROVE Outcome'
  BY <1>3, <1>5 DEF doTX, Unsent, pipeVars
<1>6. ASSUME NEW t \in Tx, Cancel(t)  PROVE Outcome'
  BY <1>1, <1>6 DEF Cancel, endVars, pipeVars
<1>7. ASSUME NEW t \in Tx, Acquire(t)  PROVE Outcome'
  BY <1>7, UnsentStep DEF Acquire, Goto, endVars, pipeVars, Unsent, TPC
<1>8. ASSUME NEW t \in Tx, LockFails(t)  PROVE Outcome'
  BY <1>8, UnsentStep DEF LockFails, Goto, pipeVars, Unsent, TPC, TypeOK
<1>9. ASSUME NEW t \in Call, Begin(t)  PROVE Outcome'
  BY <1>9, UnsentStep DEF Begin, Goto, endVars, Unsent, TPC
<1>10. ASSUME NEW t \in Call, ReadNilClient(t) \/ CallbackPanics(t)  PROVE Outcome'
  <2>1. PICK p \in {"nilclient", "panicked"} :
            tpc[t] = "fn" /\ tpc' = [tpc EXCEPT ![t] = p]
            /\ UNCHANGED <<result, wire, hook>>
    BY <1>10 DEF ReadNilClient, CallbackPanics, Goto, endVars, pipeVars
  <2> QED  BY <2>1, UnsentStep DEF Unsent, TPC
<1>11. ASSUME NEW t \in Tx, NEW k \in Key, NEW v, Buffer(t, k, v)  PROVE Outcome'
  BY <1>1, <1>11 DEF Buffer, endVars
<1>12. ASSUME NEW t \in Call, NEW r \in {"nil", "err"}, CallbackReturns(t, r)
       PROVE  Outcome'
  <2>1. CASE t \in Tx
    <3>1. t \notin Reader
      BY <2>1, RedisAssumption
    <3> QED
      BY <1>12, <2>1, <3>1, UnsentStep DEF CallbackReturns, Goto, pipeVars, Unsent, TPC
  <2>2. CASE t \notin Tx
    BY <1>12, <2>2, UnsentStep DEF CallbackReturns, Goto, pipeVars, TPC, TypeOK
  <2> QED  BY <2>1, <2>2
<1>13. ASSUME NEW t \in Tx,
              RollbackOnError(t) \/ RollbackOnContext(t) \/ ExecRefused(t)
       PROVE  Outcome'
  <2>1. PICK res \in {"appErr", "ErrDatabase", "ErrCommitFailed"} :
            tpc[t] \in {"end", "exec"} /\ Ends(t, res) /\ Discard(t)
    BY <1>13 DEF RollbackOnError, RollbackOnContext, ExecRefused
  <2> QED  BY <2>1, UnsentStep DEF Ends, Discard, Goto, Unsent, TPC, TypeOK
<1>14. ASSUME NEW t \in Tx, CommitChecked(t) \/ ExecNilClient(t)  PROVE Outcome'
  <2>1. PICK p \in {"exec", "nilclient"} :
            tpc[t] \in Unsent /\ tpc' = [tpc EXCEPT ![t] = p]
            /\ UNCHANGED <<result, wire, hook>>
    BY <1>14 DEF CommitChecked, ExecNilClient, Goto, endVars, pipeVars, Unsent
  <2> QED  BY <2>1, UnsentStep DEF Unsent, TPC
<1>15. ASSUME NEW t \in Tx, ExecNothing(t)  PROVE Outcome'
  <2>1. /\ tpc[t] = "exec" /\ tpc' = [tpc EXCEPT ![t] = "unlock"]
        /\ result' = [result EXCEPT ![t] = "nil"]
        /\ wire' = [wire EXCEPT ![t] = "applied"]
        /\ hook' = hook
    BY <1>15 DEF ExecNothing, Ends, Goto
  <2> QED
    BY <2>1 DEF Outcome, OutcomeFollowsDoTX, OutcomeHonest, Unsent, TypeOK
<1>16. ASSUME NEW t \in Tx, Exec(t)  PROVE Outcome'
  <2>1. /\ tpc[t] = "exec" /\ tpc' = [tpc EXCEPT ![t] = "wait"]
        /\ wire' = [wire EXCEPT ![t] = "sent"]
        /\ UNCHANGED <<result, hook>>
    BY <1>16 DEF Exec, Goto, endVars
  <2> QED
    BY <2>1 DEF Outcome, OutcomeFollowsDoTX, OutcomeHonest, Unsent, TypeOK
<1>17. ASSUME NEW t \in Tx, ExecReturns(t)  PROVE Outcome'
  <2>1. PICK res \in {"nil", "ErrCommitFailed"} :
            /\ tpc[t] = "wait" /\ tpc' = [tpc EXCEPT ![t] = "unlock"]
            /\ result' = [result EXCEPT ![t] = res]
            /\ res = "nil" => wire[t] = "applied"
            /\ UNCHANGED <<wire, hook>>
    BY <1>17 DEF ExecReturns, Ends, Goto, pipeVars
  <2> QED
    BY <2>1 DEF Outcome, OutcomeFollowsDoTX, OutcomeHonest, Unsent, TypeOK
<1>18. ASSUME NEW t \in Tx, unlock(t)  PROVE Outcome'
  <2>1. /\ tpc[t] = "unlock" /\ tpc' = [tpc EXCEPT ![t] = "hook"]
        /\ UNCHANGED <<result, wire, hook>>
    BY <1>18 DEF unlock, Goto, endVars, pipeVars
  <2> QED
    BY <2>1 DEF Outcome, OutcomeFollowsDoTX, OutcomeHonest, Unsent, TypeOK
<1>19. ASSUME NEW t \in Tx, InvokeHooks(t)  PROVE Outcome'
  <2>1. /\ tpc[t] = "hook" /\ tpc' = [tpc EXCEPT ![t] = "returned"]
        /\ hook' = [hook EXCEPT ![t] =
                        IF result[t] = "nil" THEN "afterCommit" ELSE "onRollback"]
        /\ UNCHANGED <<result, wire>>
    BY <1>19 DEF InvokeHooks, Goto, pipeVars
  <2> QED
    BY <2>1 DEF Outcome, OutcomeFollowsDoTX, OutcomeHonest, Unsent, TypeOK
<1>20. ASSUME NEW t \in Tx, Delivery(t)  PROVE Outcome'
  <2>1. PICK w \in {"applied", "dropped"} :
            /\ wire[t] = "sent" /\ wire' = [wire EXCEPT ![t] = w]
            /\ UNCHANGED <<tpc, result, hook>>
    BY <1>20 DEF Delivery, Applied, Dropped, endVars
  <2> QED
    BY <2>1 DEF Outcome, OutcomeFollowsDoTX, OutcomeHonest, Unsent, TypeOK
<1>21. ASSUME NEW k \in Closer, Close(k) \/ CloseStep(k) \/ CloseCancel(k)
       PROVE  Outcome'
  BY <1>1, <1>21 DEF Close, CloseStep, ClientClose, CloseReturns, CloseCancel, endVars,
                     pipeVars
<1>22. ASSUME Tick  PROVE Outcome'
  BY <1>1, <1>22 DEF Tick, endVars, pipeVars
<1> QED
  BY <1>2, <1>4, <1>5, <1>6, <1>7, <1>8, <1>9, <1>10, <1>11, <1>12, <1>13, <1>14, <1>15,
     <1>16, <1>17, <1>18, <1>19, <1>20, <1>21, <1>22
     DEF Next, Starts, CallbackEnds, TxStep, Put, Delete

\* The part of the invariant about Close.
CloseInv == FnClosesClient /\ CloseForgetsClient /\ ForgottenIsClosed

\* Only steps of Close change what is known of the client.
LEMMA OthersKeepClient ==
    ASSUME Next, ~ \E k \in Closer : Close(k) \/ CloseStep(k) \/ CloseCancel(k)
    PROVE  UNCHANGED <<client, connected, cpc, fn>>
<1>1. UNCHANGED closeVars
  <2>1. ASSUME NEW t \in Call, \/ Enter(t) \/ Begin(t) \/ ReadNilClient(t)
                               \/ CallbackEnds(t) \/ CallbackPanics(t)
        PROVE  UNCHANGED closeVars
    BY <2>1 DEF Enter, Write, Read, Begin, ReadNilClient, CallbackEnds, CallbackReturns,
                CallbackPanics
  <2>2. ASSUME NEW t \in Tx, Starts(t) \/ Cancel(t) \/ Acquire(t) \/ LockFails(t)
        PROVE  UNCHANGED closeVars
    BY <2>2 DEF Starts, doTX, Cancel, Acquire, LockFails
  <2>3. ASSUME NEW t \in Tx, TxStep(t)  PROVE UNCHANGED closeVars
    BY <2>3 DEF TxStep, Begin, RollbackOnError, RollbackOnContext, CommitChecked,
                ExecNothing, ExecNilClient, Exec, ExecRefused, ExecReturns, Ends, unlock,
                InvokeHooks
  <2>4. ASSUME NEW t \in Tx,
               \/ Delivery(t)
               \/ \E k \in Key : Delete(t, k) \/ \E v \in Val : Put(t, k, v)
        PROVE  UNCHANGED closeVars
    BY <2>4 DEF Delivery, Applied, Dropped, Delete, Put, Buffer
  <2>5. ASSUME Tick  PROVE UNCHANGED closeVars
    BY <2>5 DEF Tick
  <2> QED  BY <2>1, <2>2, <2>3, <2>4, <2>5 DEF Next
<1> QED  BY <1>1 DEF closeVars

LEMMA CloseNext == TypeOK /\ CloseInv /\ [Next]_vars => CloseInv'
<1> SUFFICES ASSUME TypeOK, CloseInv, [Next]_vars PROVE CloseInv'
  OBVIOUS
<1> USE DEF CloseInv, FnClosesClient, CloseForgetsClient, ForgottenIsClosed
<1>a. Closing!CallTypeOK
  BY DEF TypeOK
<1>1. ASSUME UNCHANGED <<client, connected, cpc, fn>>  PROVE CloseInv'
  BY <1>1
<1>2. CASE UNCHANGED vars
  BY <1>1, <1>2 DEF vars, closeVars
<1>3. ASSUME NEW k \in Closer, Close(k)  PROVE CloseInv'
  <2>1. CASE client /\ Closing!Invoke(k)
    BY <1>3, <1>a, <2>1 DEF Close, Closing!Invoke, Closing!CallTypeOK
  <2>2. CASE /\ ~client /\ cpc[k] = "idle"
             /\ cpc' = [cpc EXCEPT ![k] = "returned"]
             /\ UNCHANGED <<fn>>
    BY <1>3, <1>a, <2>2 DEF Close, Closing!CallTypeOK
  <2> QED  BY <1>3, <2>1, <2>2 DEF Close
<1>4. ASSUME NEW k \in Closer, ClientClose(k)  PROVE CloseInv'
  BY <1>4, <1>a DEF ClientClose, Closing!FnReturns, Closing!CallTypeOK
<1>5. ASSUME NEW k \in Closer, CloseReturns(k)  PROVE CloseInv'
  <2>1. CASE Closing!ReceiveResult(k)
    BY <1>5, <1>a, <2>1 DEF CloseReturns, Closing!ReceiveResult, Closing!CallTypeOK
  <2>2. CASE Closing!TimedOut(k)
    BY <1>5, <1>a, <2>2 DEF CloseReturns, Closing!TimedOut, Closing!CallTypeOK
  <2> QED  BY <1>5, <2>1, <2>2 DEF CloseReturns
<1>6. ASSUME NEW k \in Closer, CloseCancel(k)  PROVE CloseInv'
  BY <1>1, <1>6 DEF CloseCancel, Closing!CallerCtxDone
<1> HIDE DEF CloseInv
<1> QED
  BY <1>1, <1>2, <1>3, <1>4, <1>5, <1>6, OthersKeepClient DEF CloseStep

LEMMA IndParts == IndInv <=> TypeOK /\ Outcome /\ CloseInv
BY DEF IndInv, Outcome, CloseInv

\* The invariant that needs no assumption on the environment.
THEOREM IndInvariant == Spec => []IndInv
<1>1. Init => TypeOK /\ Outcome /\ CloseInv
  BY IndInit, IndParts
<1>2. TypeOK /\ Outcome /\ CloseInv /\ [Next]_vars => (TypeOK /\ Outcome /\ CloseInv)'
  BY TypeNext, OutcomeNext, CloseNext
<1> QED  BY <1>1, <1>2, IndParts, PTL DEF Spec

\* Whatever the network, the server and Close do: nil and AfterCommit mean the
\* server applied the pipeline, and every error but ErrCommitFailed means that
\* nothing was sent.
THEOREM OutcomeHonestAlways == Spec => []OutcomeHonest
<1>1. IndInv => OutcomeHonest
  BY DEF IndInv
<1> QED  BY IndInvariant, <1>1, PTL

\* After a Close that returned nil, and none that timed out, no pipeline
\* leaves the store, not even of a transaction that was under way.
THEOREM ClosedSendsNothingEver == Spec => ClosedSendsNothing
<1>1. IndInv /\ [Next]_vars
          => [Closed => \A t \in Tx : wire'[t] = "sent" => wire[t] = "sent"]_vars
  <2> SUFFICES ASSUME IndInv, Next, Closed, NEW u \in Tx, wire'[u] = "sent"
               PROVE  wire[u] = "sent"
    OBVIOUS
  <2>1. ~connected
    BY DEF IndInv, CloseForgetsClient, ForgottenIsClosed, Closed
  <2>2. wire \in [Tx -> {"none", "sent", "applied", "dropped"}]
    BY DEF IndInv, TypeOK
  <2>3. ASSUME UNCHANGED pipeVars  PROVE wire[u] = "sent"
    BY <2>3 DEF pipeVars
  <2>4. ASSUME NEW t \in Tx, ExecNothing(t) \/ Delivery(t)  PROVE wire[u] = "sent"
    BY <2>2, <2>4 DEF ExecNothing, Delivery, Applied, Dropped
  <2>5. ASSUME NEW t \in Tx, Exec(t)  PROVE FALSE
    BY <2>1, <2>5 DEF Exec, CanSend
  <2>6. ASSUME NEW t \in Tx,
               RollbackOnError(t) \/ RollbackOnContext(t) \/ ExecRefused(t)
        PROVE  wire[u] = "sent"
    BY <2>6 DEF RollbackOnError, RollbackOnContext, ExecRefused, Discard
  <2>7. ASSUME NEW t \in Call, Begin(t)  PROVE wire[u] = "sent"
    BY <2>7 DEF Begin
  <2>8. ASSUME NEW t \in Tx, NEW k \in Key, NEW v, Buffer(t, k, v)  PROVE wire[u] = "sent"
    BY <2>8 DEF Buffer
  <2>9. ASSUME NEW t \in Call,
               Enter(t) \/ ReadNilClient(t) \/ CallbackEnds(t) \/ CallbackPanics(t)
        PROVE  UNCHANGED pipeVars
    BY <2>9 DEF Enter, Write, Read, ReadNilClient, CallbackEnds, CallbackReturns,
                CallbackPanics
  <2>10. ASSUME NEW t \in Tx,
                \/ Starts(t) \/ Cancel(t) \/ Acquire(t) \/ LockFails(t)
                \/ CommitChecked(t) \/ ExecNilClient(t) \/ ExecReturns(t)
                \/ unlock(t) \/ InvokeHooks(t)
         PROVE  UNCHANGED pipeVars
    BY <2>10 DEF Starts, doTX, Cancel, Acquire, LockFails, CommitChecked, ExecNilClient,
                 ExecReturns, unlock, InvokeHooks
  <2>11. ASSUME NEW k \in Closer, Close(k) \/ CloseStep(k) \/ CloseCancel(k)
         PROVE  UNCHANGED pipeVars
    BY <2>11 DEF Close, CloseStep, ClientClose, CloseReturns, CloseCancel
  <2>12. ASSUME Tick  PROVE UNCHANGED pipeVars
    BY <2>12 DEF Tick
  <2> QED
    BY <2>3, <2>4, <2>5, <2>6, <2>7, <2>8, <2>9, <2>10, <2>11, <2>12
       DEF Next, TxStep, Put, Delete, Call
<1> QED  BY IndInvariant, <1>1, PTL DEF Spec, ClosedSendsNothing
-----------------------------------------------------------------------------
(* The distributed lock. *)

LEMMA LiveCtx ==
    ASSUME TypeOK, NEW t \in Tx  PROVE CtxErr(t) = "nil" <=> Live(t)
BY DEF CtxErr, Live, TypeOK

\* A step of another call or of the server does not touch t.
Untouched(t) ==
    /\ tpc'[t] = tpc[t] /\ cancelled'[t] = cancelled[t]
    /\ deadline'[t] = deadline[t] /\ expiry'[t] = expiry[t]
    /\ wire'[t] = wire[t] /\ sentAt'[t] = sentAt[t] /\ base'[t] = base[t]

\* Such a step keeps t protected if it leaves contents, lock and time alone,
LEMMA SameKeeps ==
    ASSUME NEW t \in Tx, Protected(t), Untouched(t), connected' => connected,
           UNCHANGED <<db, lockVars, now>>
    PROVE  Protected(t)'
BY DEF Protected, Untouched, ExpiryCoversDeadline, BegunOwns, SentOwns, GivenUpKeepsLock,
       IsCurrent, Live, lockVars

\* and, when the lock is not t's, whatever it does to contents and lock: t can
\* no longer commit.
LEMMA NotOwnerKeeps ==
    ASSUME NEW t \in Tx, Protected(t), Untouched(t), owner # t, now' = now
    PROVE  Protected(t)'
BY DEF Protected, Untouched, ExpiryCoversDeadline, BegunOwns, SentOwns, GivenUpKeepsLock,
       IsCurrent, Live, Begun

\* A call that is not between LockContext and its unlock needs no protection,
\* apart from the pipeline it may have given up on.
LEMMA OutsideKeeps ==
    ASSUME NEW t \in Tx, wire'[t] # "sent", tpc'[t] \notin Begun \cup {"acquire"}
    PROVE  Protected(t)'
BY DEF Protected, ExpiryCoversDeadline, BegunOwns, SentOwns, GivenUpKeepsLock, IsCurrent,
       Begun

LEMMA LockInit == Init => LockInv
BY DEF Init, LockInv, Protected, ExpiryCoversDeadline, BegunOwns, SentOwns,
       GivenUpKeepsLock, IsCurrent, Begun, Call

\* The step of doTX that ends a pipeline without sending it keeps t protected.
LEMMA EndKeeps ==
    ASSUME TypeOK, NEW t \in Tx, Protected(t), NEW res, Ends(t, res), Emptied(t),
           tpc[t] \in {"end", "exec"}, wire'[t] # "sent"
    PROVE  Protected(t)'
<1>1. tpc'[t] = "unlock" /\ UNCHANGED <<cancelled, deadline, owner, until, now>>
  BY DEF Ends, Goto, TypeOK, Call, ctxVars, lockVars
<1> QED
  BY <1>1 DEF Protected, ExpiryCoversDeadline, BegunOwns, SentOwns, GivenUpKeepsLock,
              IsCurrent, Live, Begun

\* Every step keeps every transaction protected.
LEMMA LockNext ==
    ASSUME LockSuffices
    PROVE  IndInv /\ LockInv /\ [Next]_vars => LockInv'
<1> SUFFICES ASSUME IndInv, LockInv, [Next]_vars, NEW u \in Tx  PROVE Protected(u)'
  BY DEF LockInv
<1>0. /\ TypeOK /\ TypeOK' /\ Protected(u) /\ OutcomeFollowsDoTX
      /\ \A t \in Tx : Protected(t)
      /\ Tx \subseteq Call
  BY TypeNext DEF IndInv, LockInv, Call
<1> USE <1>0
<1>1. ASSUME NEW t \in Call, NEW p \in TPC, tpc' = [tpc EXCEPT ![t] = p],
             UNCHANGED <<closeVars, ctxVars, lockVars, db, wire, sentAt, base, now>>,
             \/ u # t
             \/ tpc[u] \in Unsent /\ p \notin Begun \cup {"acquire"}
             \/ tpc[u] \in {"fn", "end"} /\ p \in {"end", "exec"}
      PROVE  Protected(u)'
  <2>1. CASE u # t
    BY <1>1, <2>1, SameKeeps DEF Untouched, TypeOK, ctxVars, closeVars
  <2>2. CASE u = t /\ tpc[u] \in Unsent /\ p \notin Begun \cup {"acquire"}
    BY <1>1, <2>2, OutsideKeeps DEF OutcomeFollowsDoTX, TypeOK
  <2>3. CASE u = t /\ p \in {"end", "exec"} /\ tpc[u] \in {"fn", "end"}
    BY <1>1, <2>3 DEF Protected, ExpiryCoversDeadline, BegunOwns, SentOwns,
       GivenUpKeepsLock, IsCurrent, Live, Begun, TypeOK, ctxVars, lockVars
  <2> QED  BY <1>1, <2>1, <2>2, <2>3
<1>2. CASE UNCHANGED vars
  BY <1>2, SameKeeps DEF vars, closeVars, ctxVars, pipeVars, Untouched
<1>3. ASSUME NEW t \in Call, Enter(t)  PROVE Protected(u)'
  <2>1. PICK p \in {"doTX", "begin", "returned"} :
            tpc' = [tpc EXCEPT ![t] = p] /\ (t \in Tx => p # "begin" /\ tpc[t] = "idle")
    BY <1>3, RedisAssumption DEF Enter, Write, Read, checkOpen, Goto
  <2>2. UNCHANGED <<closeVars, ctxVars, lockVars, db, wire, sentAt, base, now>>
    BY <1>3 DEF Enter, Write, Read, pipeVars
  <2> QED  BY <1>1, <2>1, <2>2 DEF TPC, Unsent, Begun
<1>4. ASSUME NEW t \in Tx, NEW d \in Timeouts, doTX(t, d)  PROVE Protected(u)'
  <2>1. /\ UNCHANGED <<closeVars, lockVars, db, wire, sentAt, base, now, cancelled>>
        /\ tpc[t] = "doTX"
        /\ deadline' = [deadline EXCEPT ![t] = now + d]
        /\ expiry' = [expiry EXCEPT ![t] = d + Offset]
    BY <1>4 DEF doTX, LockExpiry, pipeVars
  <2>2. PICK p \in {"acquire", "returned"} : tpc' = [tpc EXCEPT ![t] = p]
    BY <1>4 DEF doTX, checkOpen, Goto, LockSuffices
  <2>3. CASE u # t
    BY <2>1, <2>2, <2>3, SameKeeps DEF Untouched, TypeOK, closeVars
  <2>4. CASE u = t
    <3>1. wire'[t] = "none" /\ tpc'[t] = p
      BY <2>1, <2>2 DEF OutcomeFollowsDoTX, Unsent, TypeOK
    <3>2. now' = now /\ now \in Nat /\ d \in Nat /\ Offset \in Nat
      BY <2>1, RedisAssumption DEF TypeOK
    <3>3. deadline'[t] = now + d /\ expiry'[t] = d + Offset
      BY <2>1 DEF TypeOK
    <3> QED
      BY <2>4, <3>1, <3>2, <3>3 DEF Protected, ExpiryCoversDeadline, BegunOwns,
         SentOwns, GivenUpKeepsLock, IsCurrent, Begun
  <2> QED  BY <2>3, <2>4
<1>5. ASSUME NEW t \in Tx, Cancel(t)  PROVE Protected(u)'
  <2>1. /\ UNCHANGED <<closeVars, lockVars, db, wire, sentAt, base, tpc, now, deadline,
                       expiry>>
        /\ cancelled' = [cancelled EXCEPT ![t] = TRUE]
    BY <1>5 DEF Cancel, pipeVars
  <2>2. CASE u # t
    <3>1. cancelled'[u] = cancelled[u]
      BY <2>1, <2>2 DEF TypeOK
    <3> QED  BY <2>1, <3>1, SameKeeps DEF Untouched, closeVars
  <2>3. CASE u = t
    <3>1. cancelled'[u]
      BY <2>1, <2>3 DEF TypeOK
    <3>2. ~Live(u)'
      BY <3>1 DEF Live
    <3> QED
      BY <2>1, <3>2 DEF Protected, ExpiryCoversDeadline, BegunOwns, SentOwns,
         GivenUpKeepsLock, IsCurrent, lockVars
  <2> QED  BY <2>2, <2>3
<1>6. ASSUME NEW t \in Tx, Acquire(t)  PROVE Protected(u)'
  <2>1. /\ tpc[t] = "acquire" /\ owner = None /\ CtxErr(t) = "nil"
        /\ owner' = t /\ until' = now + expiry[t]
        /\ tpc' = [tpc EXCEPT ![t] = "begin"]
        /\ UNCHANGED <<closeVars, ctxVars, db, wire, sentAt, base, now>>
    BY <1>6 DEF Acquire, Goto, pipeVars
  <2>2. CASE u # t
    BY <2>1, <2>2, NotOwnerKeeps, RedisAssumption DEF Untouched, TypeOK, ctxVars
  <2>3. CASE u = t
    <3>1. wire'[t] = "none" /\ tpc'[t] = "begin"
      BY <2>1 DEF OutcomeFollowsDoTX, Unsent, TypeOK
    <3>2. deadline'[t] + Offset <= until'
      BY <2>1 DEF Protected, ExpiryCoversDeadline, ctxVars
    <3> QED
      BY <2>1, <2>3, <3>1, <3>2 DEF Protected, ExpiryCoversDeadline, BegunOwns,
         SentOwns, GivenUpKeepsLock, IsCurrent
  <2> QED  BY <2>2, <2>3
<1>7. ASSUME NEW t \in Tx, LockFails(t)  PROVE Protected(u)'
  BY <1>1, <1>7 DEF LockFails, Goto, pipeVars, TPC, Unsent, Begun
<1>8. ASSUME NEW t \in Call, Begin(t)  PROVE Protected(u)'
  <2>1. /\ tpc[t] = "begin" /\ tpc' = [tpc EXCEPT ![t] = "fn"]
        /\ base' = IF t \in Tx THEN [base EXCEPT ![t] = db] ELSE base
        /\ UNCHANGED <<closeVars, ctxVars, lockVars, db, wire, sentAt, now>>
    BY <1>8 DEF Begin, Goto
  <2>2. CASE u # t
    BY <2>1, <2>2, SameKeeps DEF Untouched, TypeOK, ctxVars, closeVars
  <2>3. CASE u = t
    <3>1. wire'[t] = "none" /\ tpc'[t] = "fn" /\ base'[t] = db'
      BY <2>1, <2>3 DEF OutcomeFollowsDoTX, Unsent, TypeOK
    <3> QED
      BY <2>1, <2>3, <3>1 DEF Protected, ExpiryCoversDeadline, BegunOwns, SentOwns,
         GivenUpKeepsLock, IsCurrent, Live, Begun, ctxVars, lockVars
  <2> QED  BY <2>2, <2>3
<1>9. ASSUME NEW t \in Call, ReadNilClient(t) \/ CallbackPanics(t)  PROVE Protected(u)'
  <2>1. PICK p \in {"nilclient", "panicked"} :
            tpc[t] = "fn" /\ tpc' = [tpc EXCEPT ![t] = p]
            /\ UNCHANGED <<closeVars, ctxVars, lockVars, db, wire, sentAt, base, now>>
    BY <1>9 DEF ReadNilClient, CallbackPanics, Goto, pipeVars
  <2> QED  BY <1>1, <2>1 DEF TPC, Unsent, Begun
<1>10. ASSUME NEW t \in Tx, NEW k \in Key, NEW v, Buffer(t, k, v)  PROVE Protected(u)'
  BY <1>10, SameKeeps DEF Buffer, Untouched, ctxVars, closeVars
<1>11. ASSUME NEW t \in Call, NEW r \in {"nil", "err"}, CallbackReturns(t, r)
       PROVE  Protected(u)'
  <2>1. PICK p \in {"end", "returned"} :
            /\ tpc[t] = "fn" /\ tpc' = [tpc EXCEPT ![t] = p]
            /\ t \in Tx => p = "end"
            /\ UNCHANGED <<closeVars, ctxVars, lockVars, db, wire, sentAt, base, now>>
    BY <1>11, RedisAssumption DEF CallbackReturns, Goto, pipeVars
  <2> QED  BY <1>1, <2>1 DEF TPC, Begun
<1>12. ASSUME NEW t \in Tx, CommitChecked(t) \/ ExecNilClient(t)  PROVE Protected(u)'
  <2>1. PICK p \in {"exec", "nilclient"} :
            /\ tpc' = [tpc EXCEPT ![t] = p]
            /\ \/ p = "exec" /\ tpc[t] = "end"
               \/ p = "nilclient" /\ tpc[t] = "exec"
            /\ UNCHANGED <<closeVars, ctxVars, lockVars, db, wire, sentAt, base, now>>
    BY <1>12 DEF CommitChecked, ExecNilClient, Goto, pipeVars
  <2> QED  BY <1>1, <2>1 DEF TPC, Begun, Unsent
<1>13. ASSUME NEW t \in Tx, NEW res, Ends(t, res), Emptied(t),
              tpc[t] \in {"end", "exec"}, db' = db,
              wire' = wire \/ wire' = [wire EXCEPT ![t] = "applied"]
       PROVE  Protected(u)'
  <2>1. /\ tpc' = [tpc EXCEPT ![t] = "unlock"]
        /\ UNCHANGED <<closeVars, ctxVars, lockVars, now>>
        /\ base' = [base EXCEPT ![t] = Empty]
        /\ sentAt' = [sentAt EXCEPT ![t] = 0]
    BY <1>13 DEF Ends, Emptied, Goto
  <2>2. CASE u # t
    BY <1>13, <2>1, <2>2, SameKeeps DEF Untouched, TypeOK, ctxVars, closeVars
  <2>3. CASE u = t
    <3>1. wire'[t] # "sent"
      BY <1>13 DEF OutcomeFollowsDoTX, Unsent, TypeOK
    <3> QED  BY <1>13, <2>3, <3>1, EndKeeps
  <2> QED  BY <2>2, <2>3
<1>14. ASSUME NEW t \in Tx,
              \/ RollbackOnError(t) \/ RollbackOnContext(t) \/ ExecRefused(t)
              \/ ExecNothing(t)
       PROVE  Protected(u)'
  BY <1>13, <1>14 DEF RollbackOnError, RollbackOnContext, ExecRefused, ExecNothing, Discard
<1>15. ASSUME NEW t \in Tx, Exec(t)  PROVE Protected(u)'
  <2>1. /\ tpc[t] = "exec" /\ tpc' = [tpc EXCEPT ![t] = "wait"]
        /\ wire' = [wire EXCEPT ![t] = "sent"] /\ sentAt' = [sentAt EXCEPT ![t] = now]
        /\ UNCHANGED <<closeVars, ctxVars, lockVars, now, db, base>>
    BY <1>15 DEF Exec, Goto
  <2>2. CASE u # t
    BY <2>1, <2>2, SameKeeps DEF Untouched, TypeOK, ctxVars, closeVars
  <2>3. CASE u = t
    <3>1. Live(t)
      BY <1>15, LiveCtx DEF Exec, CanSend
    <3>2. now < deadline[t] /\ owner = t /\ deadline[t] + Offset <= until /\ base[t] = db
      BY <2>1, <3>1 DEF Protected, BegunOwns, IsCurrent, Live, Begun
    <3>3. wire'[t] = "sent" /\ tpc'[t] = "wait" /\ sentAt'[t] = now
      BY <2>1 DEF TypeOK
    <3>4. /\ now \in Nat /\ deadline[t] \in Nat /\ until \in Nat
          /\ Offset \in Nat /\ Delay \in Nat
      BY RedisAssumption DEF TypeOK
    <3>5. SentOwns(t)'
      <4>1. now + Offset < until /\ now <= now + Delay
        BY <3>2, <3>4
      <4> QED  BY <2>1, <3>2, <3>3, <4>1 DEF SentOwns, lockVars
    <3> QED
      BY <2>1, <2>3, <3>2, <3>3, <3>5 DEF Protected, ExpiryCoversDeadline, BegunOwns,
         GivenUpKeepsLock, IsCurrent, ctxVars, lockVars
  <2> QED  BY <2>2, <2>3
<1>16. ASSUME NEW t \in Tx, ExecReturns(t)  PROVE Protected(u)'
  <2>1. /\ tpc[t] = "wait" /\ tpc' = [tpc EXCEPT ![t] = "unlock"]
        /\ UNCHANGED <<closeVars, ctxVars, lockVars, now, db, wire, sentAt, base>>
        /\ wire[t] = "sent" => ~CanSend(t)
    BY <1>16 DEF ExecReturns, Ends, Goto, pipeVars, LockSuffices
  <2>2. CASE u # t
    BY <2>1, <2>2, SameKeeps DEF Untouched, TypeOK, ctxVars, closeVars
  <2>3. CASE u = t
    <3>1. wire[t] = "sent" => ~connected \/ ~Live(t)
      BY <2>1, LiveCtx DEF CanSend
    <3>2. tpc'[t] = "unlock"
      BY <2>1 DEF TypeOK
    <3> QED
      BY <2>1, <2>3, <3>1, <3>2 DEF Protected, ExpiryCoversDeadline, BegunOwns, SentOwns,
         GivenUpKeepsLock, IsCurrent, Live, Begun, ctxVars, lockVars, closeVars
  <2> QED  BY <2>2, <2>3
<1>17. ASSUME NEW t \in Tx, unlock(t)  PROVE Protected(u)'
  <2>1. /\ tpc[t] = "unlock" /\ tpc' = [tpc EXCEPT ![t] = "hook"]
        /\ UNCHANGED <<closeVars, ctxVars, now, db, wire, sentAt, base>>
        /\ (owner = t /\ Live(t) /\ connected) \/ UNCHANGED lockVars
    BY <1>17, LiveCtx DEF unlock, Released, Goto, pipeVars
  <2>2. CASE u # t
    <3>1. Untouched(u)
      BY <2>1, <2>2 DEF Untouched, TypeOK, ctxVars
    <3> QED  BY <2>1, <2>2, <3>1, SameKeeps, NotOwnerKeeps DEF closeVars
  <2>3. CASE u = t
    <3>1. tpc'[t] = "hook"
      BY <2>1 DEF TypeOK
    <3>2. CASE UNCHANGED lockVars
      BY <2>1, <2>3, <3>1, <3>2 DEF Protected, ExpiryCoversDeadline, BegunOwns, SentOwns,
         GivenUpKeepsLock, IsCurrent, Begun, lockVars
    <3>3. CASE Live(t) /\ connected
      <4>1. wire'[t] # "sent"
        BY <2>1, <3>3 DEF Protected, GivenUpKeepsLock
      <4> QED  BY <2>3, <3>1, <4>1, OutsideKeeps DEF Begun
    <3> QED  BY <2>1, <3>2, <3>3
  <2> QED  BY <2>2, <2>3
<1>18. ASSUME NEW t \in Tx, InvokeHooks(t)  PROVE Protected(u)'
  <2>1. /\ tpc[t] = "hook" /\ tpc' = [tpc EXCEPT ![t] = "returned"]
        /\ UNCHANGED <<closeVars, lockVars, now, db, wire, sentAt, base>>
        /\ cancelled' = [cancelled EXCEPT ![t] = FALSE]
        /\ deadline' = [deadline EXCEPT ![t] = 0]
        /\ expiry' = [expiry EXCEPT ![t] = 0]
    BY <1>18 DEF InvokeHooks, Goto, pipeVars
  <2>2. CASE u # t
    <3>1. cancelled'[u] = cancelled[u]
      BY <2>1, <2>2 DEF TypeOK
    <3>2. Untouched(u)
      BY <2>1, <2>2, <3>1 DEF Untouched, TypeOK
    <3> QED  BY <2>1, <3>2, SameKeeps DEF closeVars
  <2>3. CASE u = t
    <3>1. tpc'[t] = "returned"
      BY <2>1 DEF TypeOK
    <3> QED
      BY <2>1, <2>3, <3>1 DEF Protected, ExpiryCoversDeadline, BegunOwns, SentOwns,
         GivenUpKeepsLock, IsCurrent, Begun, lockVars
  <2> QED  BY <2>2, <2>3
<1>19. ASSUME NEW t \in Tx, Delivery(t)  PROVE Protected(u)'
  <2>1. PICK w \in {"applied", "dropped"} :
            /\ wire[t] = "sent" /\ wire' = [wire EXCEPT ![t] = w]
            /\ base' = [base EXCEPT ![t] = Empty]
            /\ sentAt' = [sentAt EXCEPT ![t] = 0]
            /\ UNCHANGED <<closeVars, ctxVars, lockVars, tpc, now>>
    BY <1>19 DEF Delivery, Applied, Dropped, Emptied
  <2>2. owner = t
    BY <2>1 DEF Protected, SentOwns
  <2>3. CASE u # t
    BY <2>1, <2>2, <2>3, NotOwnerKeeps DEF Untouched, TypeOK, ctxVars
  <2>4. CASE u = t
    <3>1. wire'[t] = w /\ tpc[t] \notin Unsent
      BY <2>1 DEF TypeOK, OutcomeFollowsDoTX
    <3> QED
      BY <2>1, <2>4, <3>1 DEF Protected, ExpiryCoversDeadline, BegunOwns, SentOwns,
         GivenUpKeepsLock, IsCurrent, Live, Begun, Unsent, ctxVars, lockVars
  <2> QED  BY <2>3, <2>4
<1>20. ASSUME Tick  PROVE Protected(u)'
  <2>1. /\ now' = now + 1
        /\ wire[u] = "sent" => now < sentAt[u] + Delay
        /\ until > now + 1 => UNCHANGED <<owner, until>>
        /\ UNCHANGED <<connected, cancelled, deadline, expiry, db, wire, sentAt, base, tpc>>
    BY <1>20 DEF Tick, closeVars, ctxVars, pipeVars, lockVars, TypeOK
  <2>2. /\ now \in Nat /\ until \in Nat /\ deadline[u] \in Nat /\ expiry[u] \in Nat
        /\ sentAt[u] \in Nat /\ Offset \in Nat /\ Delay \in Nat /\ Delay <= Offset
    BY RedisAssumption DEF TypeOK, LockSuffices
  <2>3. ASSUME Live(u)'  PROVE Live(u) /\ now + 1 < deadline[u]
    BY <2>1, <2>2, <2>3 DEF Live
  <2>4. ExpiryCoversDeadline(u)'
    BY <2>1, <2>2 DEF Protected, ExpiryCoversDeadline
  <2>5. BegunOwns(u)'
    <3> SUFFICES ASSUME tpc[u] \in Begun, Live(u)'
                 PROVE  owner' = u /\ deadline[u] + Offset <= until'
      BY <2>1 DEF BegunOwns
    <3>1. owner = u /\ deadline[u] + Offset <= until
      BY <2>3 DEF Protected, BegunOwns
    <3>2. until > now + 1
      BY <2>2, <2>3, <3>1
    <3> QED  BY <2>1, <3>1, <3>2
  <2>6. SentOwns(u)'
    <3> SUFFICES ASSUME wire[u] = "sent"
                 PROVE  /\ owner' = u
                        /\ sentAt[u] + Offset < until' /\ now' <= sentAt[u] + Delay
      BY <2>1 DEF SentOwns
    <3>1. owner = u /\ sentAt[u] + Offset < until
      BY DEF Protected, SentOwns
    <3>2. now + 1 <= sentAt[u] + Delay
      BY <2>1, <2>2
    <3>3. until > now + 1
      BY <2>2, <3>1, <3>2
    <3> QED  BY <2>1, <3>1, <3>2, <3>3
  <2>7. GivenUpKeepsLock(u)' /\ IsCurrent(u)'
    BY <2>1, <2>3 DEF Protected, GivenUpKeepsLock, IsCurrent
  <2> QED  BY <2>4, <2>5, <2>6, <2>7 DEF Protected
<1>21. ASSUME NEW k \in Closer, Close(k) \/ CloseStep(k) \/ CloseCancel(k)
       PROVE  Protected(u)'
  <2>1. /\ UNCHANGED <<ctxVars, lockVars, pipeVars, tpc, now>>
        /\ connected' => connected
    BY <1>21 DEF Close, CloseStep, ClientClose, CloseReturns, CloseCancel
  <2> QED  BY <2>1, SameKeeps DEF Untouched, ctxVars, pipeVars
<1> QED
  BY <1>2, <1>3, <1>4, <1>5, <1>6, <1>7, <1>8, <1>9, <1>10, <1>11, <1>12, <1>14, <1>15,
     <1>16, <1>17, <1>18, <1>19, <1>20, <1>21
     DEF Next, Starts, CallbackEnds, TxStep, Put, Delete

\* When every writer passes WithWriteLock, pipelines travel no longer than
\* lockExpiryOffset and connections do not fail under a live context, nobody
\* changes the contents a transaction began on while it can still commit,
\* although the lock is never renewed and may expire while doTX is running.
THEOREM LockedIsCurrentAlways ==
    ASSUME LockSuffices
    PROVE  Spec => []LockedIsCurrent
<1>1. IndInv /\ LockInv => LockedIsCurrent
  BY LiveCtx DEF IndInv, LockInv, Protected, IsCurrent, LockedIsCurrent, CanCommit,
     LockSuffices
<1>2. IndInv /\ LockInv /\ [Next]_vars => LockInv'
  BY LockNext
<1> QED  BY IndInvariant, LockInit, <1>1, <1>2, PTL DEF Spec
=============================================================================
