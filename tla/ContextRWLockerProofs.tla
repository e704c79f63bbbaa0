----------------------- MODULE ContextRWLockerProofs -----------------------
(***************************************************************************)
(* Proofs about ContextRWLocker for every set of calls: the safety         *)
(* invariants, and that what callers are told implements RWLock.           *)
(*                                                                         *)
(* The invariants are not inductive on their own: whether a caller still   *)
(* has the lock depends on what the RWMutex granted to which helper.       *)
(* IndInv adds three facts: the RWMutex is held exactly on behalf of the   *)
(* calls whose helper or caller has it, a writer is registered exactly     *)
(* while it waits for readers or holds, and a holding writer is alone.     *)
(***************************************************************************)
EXTENDS ContextRWLocker, TLAPS

\* What the progress of the helper can be, given where its caller is.
Phase(c) ==
    /\ pc[c] \in {"idle", "refused"} => acq[c] = "none"
    /\ pc[c] \in {"select", "cancelled"} =>
           acq[c] \in {"call", "announced", "parked", "held", "send"}
    /\ pc[c] = "blocked" => acq[c] \in {"call", "announced", "parked", "held"}
    /\ pc[c] \in {"locked", "released"} => acq[c] = "done"
    /\ pc[c] = "err" => acq[c] \in {"call", "announced", "parked", "held", "done"}
    /\ expired[c] <=> pc[c] = "err"

HasLock(c) == acq[c] \in {"held", "send"} \/ pc[c] = "locked"

Registered(c) == mode[c] = "w" /\ (acq[c] = "announced" \/ c \in holders)

Phases == \A c \in Call : Phase(c)
HoldersExact == \A c \in Call : c \in holders <=> HasLock(c)
WriterExact == \A c \in Call : writer = c <=> Registered(c)
WriterAlone == \A c, d \in holders : mode[c] = "w" => d = c
WaitersByMode ==
    \A c \in Call : /\ acq[c] = "announced" => mode[c] = "w"
                    /\ acq[c] = "parked" => mode[c] = "r"

IndInv ==
    /\ TypeOK
    /\ Phases
    /\ HoldersExact
    /\ WriterExact
    /\ WriterAlone
    /\ WaitersByMode

-----------------------------------------------------------------------------
(* Type correctness. *)

\* MuxUnlock (Unlock and RUnlock of the RWMutex) keeps the types of what it
\* changes, whoever it lets in.
LEMMA MuxUnlockType ==
    ASSUME TypeOK, NEW c \in Call, NEW a \in [Call -> Acq], MuxUnlock(c, a)
    PROVE  /\ acq' \in [Call -> Acq]
           /\ holders' \in SUBSET Call
           /\ writer' \in Call \cup {None}
<1>1. CASE mode[c] = "w"
  <2>1. /\ holders' = (holders \ {c}) \cup Parked
        /\ writer' = None
        /\ acq' = [d \in Call |-> IF d \in Parked THEN "held" ELSE a[d]]
    BY <1>1 DEF MuxUnlock
  <2> QED  BY <2>1 DEF TypeOK, Parked, Acq
<1>2. CASE mode[c] # "w"
  BY <1>2 DEF MuxUnlock, TypeOK
<1> QED  BY <1>1, <1>2

LEMMA TypeInit == Init => TypeOK
BY DEF Init, TypeOK, PC, Acq

LEMMA TypeNext == TypeOK /\ [Next]_vars => TypeOK'
<1> SUFFICES ASSUME TypeOK, [Next]_vars PROVE TypeOK'
  OBVIOUS
<1>1. CASE UNCHANGED vars
  BY <1>1 DEF TypeOK, vars
<1>2. ASSUME NEW c \in Call,
             LockContext(c) \/ RLockContext(c) \/ Lock(c) \/ RLock(c)
      PROVE  TypeOK'
  BY <1>2 DEF TypeOK, LockContext, RLockContext, Lock, RLock, Start, PC, Acq
<1>3. ASSUME NEW c \in Call, TryLock(c) \/ TryRLock(c)  PROVE TypeOK'
  BY <1>3 DEF TypeOK, TryLock, TryRLock, Try, PC, Acq
<1>4. ASSUME NEW c \in Call, MuxRLock(c) \/ MuxAnnounce(c) \/ MuxLock(c)
      PROVE  TypeOK'
  BY <1>4 DEF TypeOK, MuxRLock, MuxAnnounce, MuxLock, Acq
<1>5. ASSUME NEW c \in Call, Abandon(c)  PROVE TypeOK'
  <2>1. [acq EXCEPT ![c] = "done"] \in [Call -> Acq]
    BY DEF TypeOK, Acq
  <2> QED  BY <1>5, <2>1, MuxUnlockType DEF TypeOK, Abandon
<1>6. ASSUME NEW c \in Call, Unlock(c)  PROVE TypeOK'
  <2>1. acq \in [Call -> Acq]
    BY DEF TypeOK
  <2> QED  BY <1>6, <2>1, MuxUnlockType DEF TypeOK, Unlock, PC
<1>7. ASSUME NEW c \in Call, Offer(c) \/ Receive(c) \/ SelectDone(c) \/ Expire(c)
                             \/ Return(c) \/ CtxDone(c)
      PROVE  TypeOK'
  BY <1>7 DEF TypeOK, Offer, Receive, SelectDone, Expire, Return, CtxDone, PC, Acq
<1> QED
  BY <1>1, <1>2, <1>3, <1>4, <1>5, <1>6, <1>7 DEF Next, Progress

\* Every variable of the locker keeps its type, for any number of calls.
THEOREM TypeCorrect == Spec => []TypeOK
<1> QED  BY TypeInit, TypeNext, PTL DEF Spec

-----------------------------------------------------------------------------
(* The inductive invariant. *)

LEMMA IndInit == Init => IndInv
BY TypeInit, NoneAssumption
   DEF Init, IndInv, Phases, Phase, HoldersExact, HasLock, WriterExact,
       Registered, WriterAlone, WaitersByMode

\* The RWMutex is given back on behalf of a call that has it; pc, expired and
\* the given a say where the step leaves that call.
LEMMA MuxUnlockInd ==
    ASSUME IndInv, TypeOK', NEW c \in Call, c \in holders,
           acq[c] \in {"held", "done"},
           MuxUnlock(c, [acq EXCEPT ![c] = "done"]),
           mode' = mode,
           \A d \in Call \ {c} : pc'[d] = pc[d] /\ expired'[d] = expired[d],
           pc'[c] \in {"err", "released"},
           expired'[c] <=> pc'[c] = "err"
    PROVE  IndInv'
<1> USE DEF TypeOK
<1>1. CASE mode[c] = "w"
  <2>1. /\ holders' = (holders \ {c}) \cup Parked
        /\ writer' = None
        /\ acq' = [d \in Call |-> IF d \in Parked THEN "held"
                                  ELSE [acq EXCEPT ![c] = "done"][d]]
    BY <1>1 DEF MuxUnlock
  <2>2. holders = {c}
    BY <1>1 DEF IndInv, WriterAlone
  <2>3. writer = c
    BY <1>1 DEF IndInv, WriterExact, Registered
  <2>4. c \notin Parked
    BY DEF Parked
  <2>5. holders' = Parked
    BY <2>1, <2>2, <2>4
  <2>6. Parked \subseteq Call /\ \A d \in Parked : mode[d] = "r"
    BY DEF Parked, IndInv, WaitersByMode
  <2>7. /\ acq'[c] = "done"
        /\ \A d \in Parked : acq'[d] = "held"
        /\ \A d \in Call \ (Parked \cup {c}) : acq'[d] = acq[d]
    BY <2>1, <2>4, <2>6 DEF IndInv
  <2>8. \A d \in Call \ {c} : acq[d] # "announced" /\ d \notin holders
    BY <2>2, <2>3 DEF IndInv, WriterExact, Registered, WaitersByMode
  <2>9. Phases'
    BY <2>7 DEF IndInv, Phases, Phase, Parked
  <2>10. HoldersExact'
    BY <2>4, <2>5, <2>7, <2>8 DEF IndInv, HoldersExact, HasLock
  <2>11. WriterExact'
    BY <2>1, <2>5, <2>6, <2>7, <2>8, NoneAssumption DEF WriterExact, Registered
  <2>12. WriterAlone' /\ WaitersByMode'
    BY <2>5, <2>6, <2>7, <2>8 DEF IndInv, WriterAlone, WaitersByMode
  <2> QED  BY <2>9, <2>10, <2>11, <2>12 DEF IndInv
<1>2. CASE mode[c] # "w"
  <2>1. /\ holders' = holders \ {c}
        /\ acq' = [acq EXCEPT ![c] = "done"]
        /\ writer' = writer
    BY <1>2 DEF MuxUnlock
  <2>2. acq'[c] = "done" /\ \A d \in Call \ {c} : acq'[d] = acq[d]
    BY <2>1 DEF IndInv
  <2>3. Phases'
    BY <2>2 DEF IndInv, Phases, Phase
  <2>4. HoldersExact'
    BY <2>1, <2>2 DEF IndInv, HoldersExact, HasLock
  <2>5. WriterExact' /\ WriterAlone' /\ WaitersByMode'
    BY <1>2, <2>1, <2>2 DEF IndInv, WriterExact, Registered, WriterAlone, WaitersByMode
  <2> QED  BY <2>3, <2>4, <2>5 DEF IndInv
<1> QED  BY <1>1, <1>2

LEMMA IndNext == IndInv /\ [Next]_vars => IndInv'
<1> SUFFICES ASSUME IndInv, [Next]_vars PROVE IndInv'
  OBVIOUS
<1> USE DEF Phases, Phase, HoldersExact, HasLock, WriterExact, Registered,
            WriterAlone, WaitersByMode
<1>0. TypeOK /\ TypeOK'
  BY TypeNext DEF IndInv
<1>1. CASE UNCHANGED vars
  BY <1>1 DEF IndInv, vars, TypeOK
<1>2. ASSUME NEW c \in Call,
             LockContext(c) \/ RLockContext(c) \/ Lock(c) \/ RLock(c)
      PROVE  IndInv'
  BY <1>0, <1>2, NoneAssumption
     DEF IndInv, TypeOK, LockContext, RLockContext, Lock, RLock, Start
<1>3. ASSUME NEW c \in Call, TryLock(c) \/ TryRLock(c)  PROVE IndInv'
  BY <1>0, <1>3, NoneAssumption DEF IndInv, TypeOK, TryLock, TryRLock, Try
<1>4. ASSUME NEW c \in Call, MuxRLock(c)  PROVE IndInv'
  BY <1>0, <1>4, NoneAssumption DEF IndInv, TypeOK, MuxRLock
<1>5. ASSUME NEW c \in Call, MuxAnnounce(c)  PROVE IndInv'
  BY <1>0, <1>5, NoneAssumption DEF IndInv, TypeOK, MuxAnnounce
<1>6. ASSUME NEW c \in Call, MuxLock(c)  PROVE IndInv'
  BY <1>0, <1>6 DEF IndInv, TypeOK, MuxLock
<1>7. ASSUME NEW c \in Call, Abandon(c)  PROVE IndInv'
  <2>1. c \in holders
    BY <1>7 DEF IndInv, Abandon
  <2>2. pc[c] = "err"
    BY <1>7 DEF IndInv, Abandon
  <2> QED  BY <1>0, <1>7, <2>1, <2>2, MuxUnlockInd DEF Abandon, TypeOK
<1>8. ASSUME NEW c \in Call, Unlock(c)  PROVE IndInv'
  <2>1. c \in holders /\ acq[c] = "done" /\ ~expired[c]
    BY <1>8 DEF IndInv, Unlock
  <2>2. [acq EXCEPT ![c] = "done"] = acq
    BY <1>0, <2>1 DEF TypeOK
  <2> QED  BY <1>0, <1>8, <2>1, <2>2, MuxUnlockInd DEF Unlock, TypeOK
<1>9. ASSUME NEW c \in Call, Offer(c) \/ Receive(c) \/ Return(c)
      PROVE  IndInv'
  BY <1>0, <1>9 DEF IndInv, TypeOK, Offer, Receive, Return
<1>10. ASSUME NEW c \in Call, SelectDone(c) \/ Expire(c) \/ CtxDone(c)
      PROVE  IndInv'
  BY <1>0, <1>10 DEF IndInv, TypeOK, SelectDone, Expire, MutexFree, CtxDone
<1> QED
  BY <1>1, <1>2, <1>3, <1>4, <1>5, <1>6, <1>7, <1>8, <1>9, <1>10 DEF Next, Progress

\* The RWMutex is held exactly for the calls that have it, and a holding
\* writer is alone, for any number of calls and helpers.
THEOREM IndInvariant == Spec => []IndInv
<1> QED  BY IndInit, IndNext, PTL DEF Spec

\* A caller that was told it has the lock has it until it unlocks: no helper
\* of lockWithCancel gives back a lock its caller received.
THEOREM CallerHoldsAlways == Spec => []CallerHolds
<1>1. IndInv => CallerHolds
  BY DEF IndInv, HoldersExact, HasLock, CallerHolds
<1> QED  BY IndInvariant, <1>1, PTL

\* The expiry signal of lockWithCancel is never lost: an abandoned call that
\* has the RWMutex is about to see "expired" and unlock.
THEOREM NoLostSignalEver == Spec => []NoLostSignal
<1>1. IndInv => NoLostSignal
  BY DEF IndInv, Phases, Phase, HoldersExact, HasLock, NoLostSignal
<1> QED  BY IndInvariant, <1>1, PTL

-----------------------------------------------------------------------------
(* What callers are told implements RWLock. *)

\* A step that changes what at most one caller is told.
LEMMA ToldOne ==
    ASSUME NEW c \in Call,
           \A d \in Call \ {c} : Told(d)' = Told(d)
    PROVE  [d \in Call |-> Told(d)]' = [[d \in Call |-> Told(d)] EXCEPT ![c] = Told(c)']
OBVIOUS

\* Receiving the lock while having the RWMutex is EnterRead or EnterWrite:
\* no other caller has been told it has a lock that excludes this one.
LEMMA Enter ==
    ASSUME IndInv, NEW c \in Call, NEW md \in {"r", "w"},
           Told(c) \in {"idle", "waiting"},
           \A d \in Call \ {c} : Told(d)' = Told(d),
           Told(c)' = IF md = "w" THEN "writing" ELSE "reading",
           \A d \in Call \ {c} : pc[d] = "locked" => mode[d] = "r" /\ md = "r"
    PROVE  RW!Next
<1>1. Told(c) # "writing" /\ Told(c) # "reading"
  OBVIOUS
<1>2. RW!Writing = {}
  BY <1>1 DEF RW!Writing, Told
<1>3. CASE md = "w"
  <2>1. RW!Reading = {}
    BY <1>1, <1>3 DEF RW!Reading, Told
  <2> QED  BY <1>2, <1>3, <2>1, ToldOne DEF RW!Next, RW!EnterWrite
<1>4. CASE md = "r"
  BY <1>2, <1>4, ToldOne DEF RW!Next, RW!EnterRead
<1> QED  BY <1>3, <1>4

LEMMA RefinementInit == Init => RW!Init
BY DEF Init, RW!Init, Told

LEMMA RefinementNext == IndInv /\ [Next]_vars => [RW!Next]_[c \in Call |-> Told(c)]
<1> SUFFICES ASSUME IndInv, [Next]_vars
             PROVE  [RW!Next]_[c \in Call |-> Told(c)]
  OBVIOUS
<1>0. TypeOK
  BY DEF IndInv
<1> USE <1>0
<1>1. CASE UNCHANGED vars
  BY <1>1 DEF vars, Told
<1>2. ASSUME NEW c \in Call,
             LockContext(c) \/ RLockContext(c) \/ Lock(c) \/ RLock(c)
      PROVE  RW!Next
  <2>1. Told(c) = "idle" /\ Told(c)' = "waiting"
        /\ \A d \in Call \ {c} : Told(d)' = Told(d)
    BY <1>2 DEF LockContext, RLockContext, Lock, RLock, Start, Told, TypeOK
  <2> QED  BY <2>1, ToldOne DEF RW!Next, RW!Request
<1>3. ASSUME NEW c \in Call, NEW md \in {"r", "w"}, NEW free,
             md = "w" => (free => writer = None /\ holders = {}),
             md = "r" => (free => writer = None),
             Try(c, md, free)
      PROVE  RW!Next
  <2>1. Told(c) = "idle" /\ \A d \in Call \ {c} : Told(d)' = Told(d)
    BY <1>3 DEF Try, Told, TypeOK
  <2>2. CASE free
    <3>1. Told(c)' = IF md = "w" THEN "writing" ELSE "reading"
      BY <1>3, <2>2 DEF Try, Told, TypeOK
    <3>2. \A d \in Call \ {c} : pc[d] = "locked" => mode[d] = "r" /\ md = "r"
      BY <1>3, <2>2, NoneAssumption
         DEF IndInv, HoldersExact, HasLock, WriterExact, Registered, TypeOK
    <3> QED  BY <2>1, <3>1, <3>2, Enter
  <2>3. CASE ~free
    <3>1. Told(c)' = "gone"
      BY <1>3, <2>3 DEF Try, Told, TypeOK
    <3> QED  BY <2>1, <3>1, ToldOne DEF RW!Next, RW!GiveUp
  <2> QED  BY <2>2, <2>3
<1>4. ASSUME NEW c \in Call, TryLock(c)  PROVE RW!Next
  BY <1>3, <1>4 DEF TryLock
<1>5. ASSUME NEW c \in Call, TryRLock(c)  PROVE RW!Next
  BY <1>3, <1>5 DEF TryRLock
<1>6. ASSUME NEW c \in Call, MuxRLock(c) \/ MuxAnnounce(c) \/ MuxLock(c)
                             \/ Abandon(c) \/ Offer(c) \/ CtxDone(c)
      PROVE  UNCHANGED [d \in Call |-> Told(d)]
  BY <1>6 DEF MuxRLock, MuxAnnounce, MuxLock, Abandon, Offer, CtxDone, Told
<1>7. ASSUME NEW c \in Call, Receive(c) \/ Return(c)  PROVE RW!Next
  <2>1. Told(c) = "waiting" /\ \A d \in Call \ {c} : Told(d)' = Told(d)
    BY <1>7 DEF Receive, Return, Told, TypeOK
  <2>2. Told(c)' = IF mode[c] = "w" THEN "writing" ELSE "reading"
    BY <1>7 DEF Receive, Return, Told, TypeOK
  <2>3. c \in holders
    BY <1>7 DEF Receive, Return, IndInv, HoldersExact, HasLock
  <2>4. \A d \in Call \ {c} : pc[d] = "locked" => mode[d] = "r" /\ mode[c] = "r"
    BY <2>3 DEF IndInv, HoldersExact, HasLock, WriterAlone, TypeOK
  <2> QED  BY <2>1, <2>2, <2>4, Enter DEF TypeOK
<1>8. ASSUME NEW c \in Call, SelectDone(c)
      PROVE  UNCHANGED [d \in Call |-> Told(d)]
  BY <1>8 DEF SelectDone, Told, TypeOK
<1>9. ASSUME NEW c \in Call, Expire(c)  PROVE RW!Next
  <2>1. Told(c) = "waiting" /\ Told(c)' = "gone"
        /\ \A d \in Call \ {c} : Told(d)' = Told(d)
    BY <1>9 DEF Expire, Told, TypeOK
  <2> QED  BY <2>1, ToldOne DEF RW!Next, RW!GiveUp
<1>10. ASSUME NEW c \in Call, Unlock(c)  PROVE RW!Next
  <2>1. Told(c) \in {"reading", "writing"} /\ Told(c)' = "gone"
        /\ \A d \in Call \ {c} : Told(d)' = Told(d)
    BY <1>10 DEF Unlock, Told, TypeOK
  <2> QED  BY <2>1, ToldOne DEF RW!Next, RW!Leave
<1> QED
  BY <1>1, <1>2, <1>4, <1>5, <1>6, <1>7, <1>8, <1>9, <1>10 DEF Next, Progress

\* ContextRWLocker implements RWLock for any number of calls: what callers
\* are told is what a plain read-write lock could have told them, although
\* helpers of abandoned calls take and release the RWMutex behind their backs.
THEOREM ImplementsRWLock == Spec => RefinesRWLock
<1> QED
  BY IndInvariant, RefinementInit, RefinementNext, PTL DEF Spec, RefinesRWLock, RW!Spec
=============================================================================
