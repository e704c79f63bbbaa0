-------------------------- MODULE ContextRWLocker --------------------------
(***************************************************************************)
(* util.ContextRWLocker (src/util/mutex.go): a sync.RWMutex whose blocking *)
(* acquisitions can be abandoned when a context ends.                      *)
(*                                                                         *)
(* lockWithCancel runs two goroutines per call.  The caller waits in a     *)
(* select for the end of the context or for the channel "locked"; a helper *)
(* goroutine takes the RWMutex and then, under the per-call mutex m,       *)
(* either sees that the caller has expired and unlocks at once, or sends   *)
(* on "locked".  "locked" is unbuffered and the helper holds m while it    *)
(* sends.                                                                  *)
(*                                                                         *)
(* Every call is made once; Call bounds their number.  A critical section  *)
(* of m with no blocking operation inside is one step, so the only time m  *)
(* is seen held is while the helper is blocked in its send.                *)
(***************************************************************************)
CONSTANTS Call,         \* the calls made on one locker
          None          \* "no call"

ASSUME NoneAssumption == None \notin Call

VARIABLES
    pc,       \* pc[c]: where the caller of c is
    acq,      \* acq[c]: progress of fnLock and what follows it, see Acq
    mode,     \* mode[c]: "w" for Lock/LockContext, "r" for RLock/RLockContext
    ctx,      \* ctx[c]: the context given to c, "live" or "done"
    expired,  \* expired[c]: the atomic.Value of lockWithCancel was stored
    holders,  \* RWMutex: the calls on whose behalf it is held
    writer    \* RWMutex: the writer that announced itself or holds it

vars == <<pc, acq, mode, ctx, expired, holders, writer>>

(***************************************************************************)
(* "select": in lockWithCancel's select; "cancelled": the select has taken *)
(* the ctx.Done() case, m is not yet locked; "blocked": inside a plain     *)
(* Lock or RLock; "locked": the call returned with the lock held; "err":   *)
(* it returned the context's error; "refused": TryLock returned false.     *)
(***************************************************************************)
PC == {"idle", "select", "cancelled", "blocked", "locked", "err", "refused",
       "released"}

(***************************************************************************)
(* "call": about to enter the RWMutex; "announced": a writer waiting for   *)
(* the readers to drain; "parked": a reader waiting for the writer;        *)
(* "held": fnLock returned; "send": blocked in locked <- true, holding m.  *)
(***************************************************************************)
Acq == {"none", "call", "announced", "parked", "held", "send", "done"}

TypeOK ==
    /\ pc \in [Call -> PC]
    /\ acq \in [Call -> Acq]
    /\ mode \in [Call -> {"r", "w"}]
    /\ ctx \in [Call -> {"live", "done"}]
    /\ expired \in [Call -> BOOLEAN]
    /\ holders \in SUBSET Call
    /\ writer \in Call \cup {None}

Init ==
    /\ pc = [c \in Call |-> "idle"]
    /\ acq = [c \in Call |-> "none"]
    /\ mode = [c \in Call |-> "r"]
    /\ ctx = [c \in Call |-> "live"]
    /\ expired = [c \in Call |-> FALSE]
    /\ holders = {}
    /\ writer = None

-----------------------------------------------------------------------------
(* Starting a call. *)

Start(c, md, p) ==
    /\ pc[c] = "idle"
    /\ pc' = [pc EXCEPT ![c] = p]
    /\ mode' = [mode EXCEPT ![c] = md]
    /\ acq' = [acq EXCEPT ![c] = "call"]
    /\ UNCHANGED <<ctx, expired, holders, writer>>

LockContext(c) == Start(c, "w", "select")
RLockContext(c) == Start(c, "r", "select")
Lock(c) == Start(c, "w", "blocked")
RLock(c) == Start(c, "r", "blocked")

\* TryLock and TryRLock never wait: free is what the RWMutex requires.
Try(c, md, free) ==
    /\ pc[c] = "idle"
    /\ mode' = [mode EXCEPT ![c] = md]
    /\ \/ /\ free
          /\ pc' = [pc EXCEPT ![c] = "locked"]
          /\ acq' = [acq EXCEPT ![c] = "done"]
          /\ holders' = holders \cup {c}
          /\ writer' = IF md = "w" THEN c ELSE writer
       \/ /\ ~free
          /\ pc' = [pc EXCEPT ![c] = "refused"]
          /\ UNCHANGED <<acq, holders, writer>>
    /\ UNCHANGED <<ctx, expired>>

TryLock_IgnoresReaders(c) == Try(c, "w", writer = None)
TryLock(c) == Try(c, "w", writer = None /\ holders = {})
TryRLock(c) == Try(c, "r", writer = None)

-----------------------------------------------------------------------------
(***************************************************************************)
(* sync.RWMutex.  A writer first announces itself, which parks every later *)
(* reader, and then waits for the readers inside to leave; its Unlock lets *)
(* all the parked readers in before another writer can announce itself.    *)
(***************************************************************************)

MuxRLock(c) ==
    /\ acq[c] = "call" /\ mode[c] = "r"
    /\ \/ /\ writer = None
          /\ acq' = [acq EXCEPT ![c] = "held"]
          /\ holders' = holders \cup {c}
       \/ /\ writer # None
          /\ acq' = [acq EXCEPT ![c] = "parked"]
          /\ UNCHANGED holders
    /\ UNCHANGED <<pc, mode, ctx, expired, writer>>

MuxAnnounce(c) ==
    /\ acq[c] = "call" /\ mode[c] = "w"
    /\ writer = None
    /\ writer' = c
    /\ acq' = [acq EXCEPT ![c] = "announced"]
    /\ UNCHANGED <<pc, mode, ctx, expired, holders>>

MuxLock(c) ==
    /\ acq[c] = "announced"
    /\ holders = {}
    /\ holders' = {c}
    /\ acq' = [acq EXCEPT ![c] = "held"]
    /\ UNCHANGED <<pc, mode, ctx, expired, writer>>

Parked == {d \in Call : acq[d] = "parked"}

\* Unlock or RUnlock on behalf of c; a is acq as the step leaves it for c.
MuxUnlock(c, a) ==
    IF mode[c] = "w"
    THEN /\ holders' = (holders \ {c}) \cup Parked
         /\ writer' = None
         /\ acq' = [d \in Call |-> IF d \in Parked THEN "held" ELSE a[d]]
    ELSE /\ holders' = holders \ {c}
         /\ acq' = a
         /\ UNCHANGED writer

-----------------------------------------------------------------------------
(* lockWithCancel and its helper goroutine. *)

\* The caller can lock m.  The helper keeps it for as long as it sends.
MutexFree_Always(c) == TRUE
MutexFree(c) == acq[c] # "send"

Abandon_KeepsLock(c) ==
    /\ acq[c] = "held" /\ pc[c] # "blocked"
    /\ expired[c]
    /\ acq' = [acq EXCEPT ![c] = "done"]
    /\ UNCHANGED <<pc, mode, ctx, expired, holders, writer>>

\* fnLock returned, the caller has expired: unlock immediately.
Abandon(c) ==
    /\ acq[c] = "held" /\ pc[c] # "blocked"
    /\ expired[c]
    /\ MuxUnlock(c, [acq EXCEPT ![c] = "done"])
    /\ UNCHANGED <<pc, mode, ctx, expired>>

Offer_IgnoresExpired(c) ==
    /\ acq[c] = "held" /\ pc[c] # "blocked"
    /\ acq' = [acq EXCEPT ![c] = "send"]
    /\ UNCHANGED <<pc, mode, ctx, expired, holders, writer>>

\* fnLock returned, the caller has not expired: send, still holding m.
Offer(c) ==
    /\ acq[c] = "held" /\ pc[c] # "blocked"
    /\ ~expired[c]
    /\ acq' = [acq EXCEPT ![c] = "send"]
    /\ UNCHANGED <<pc, mode, ctx, expired, holders, writer>>

Receive_DeferredUnlock(c) ==
    /\ pc[c] = "select" /\ acq[c] = "send"
    /\ pc' = [pc EXCEPT ![c] = "locked"]
    /\ MuxUnlock(c, [acq EXCEPT ![c] = "done"])
    /\ UNCHANGED <<mode, ctx, expired>>

\* The select takes the "locked" case: the call returns nil.
Receive(c) ==
    /\ pc[c] = "select" /\ acq[c] = "send"
    /\ pc' = [pc EXCEPT ![c] = "locked"]
    /\ acq' = [acq EXCEPT ![c] = "done"]
    /\ UNCHANGED <<mode, ctx, expired, holders, writer>>

\* The select takes the ctx.Done() case; m.Lock() comes next.
SelectDone(c) ==
    /\ pc[c] = "select" /\ ctx[c] = "done"
    /\ pc' = [pc EXCEPT ![c] = "cancelled"]
    /\ UNCHANGED <<acq, mode, ctx, expired, holders, writer>>

\* m.Lock(), expired.Store(true), return the error, m.Unlock().
Expire(c) ==
    /\ pc[c] = "cancelled" /\ MutexFree(c)
    /\ expired' = [expired EXCEPT ![c] = TRUE]
    /\ pc' = [pc EXCEPT ![c] = "err"]
    /\ UNCHANGED <<acq, mode, ctx, holders, writer>>

\* A plain Lock or RLock returns.
Return(c) ==
    /\ pc[c] = "blocked" /\ acq[c] = "held"
    /\ pc' = [pc EXCEPT ![c] = "locked"]
    /\ acq' = [acq EXCEPT ![c] = "done"]
    /\ UNCHANGED <<mode, ctx, expired, holders, writer>>

\* Unlock or RUnlock, by a caller that was told it has the lock.
Unlock(c) ==
    /\ pc[c] = "locked"
    /\ pc' = [pc EXCEPT ![c] = "released"]
    /\ MuxUnlock(c, acq)
    /\ UNCHANGED <<mode, ctx, expired>>

\* The context of c is cancelled or times out.  Only the select reads it.
CtxDone(c) ==
    /\ pc[c] \in {"idle", "select"} /\ ctx[c] = "live"
    /\ ctx' = [ctx EXCEPT ![c] = "done"]
    /\ UNCHANGED <<pc, acq, mode, expired, holders, writer>>

-----------------------------------------------------------------------------
\* The steps a goroutine takes once a call is under way.
Progress(c) ==
    \/ MuxRLock(c) \/ MuxAnnounce(c) \/ MuxLock(c)
    \/ Abandon(c) \/ Offer(c) \/ Receive(c)
    \/ SelectDone(c) \/ Expire(c) \/ Return(c)

Next == \E c \in Call :
    \/ LockContext(c) \/ RLockContext(c) \/ Lock(c) \/ RLock(c)
    \/ TryLock(c) \/ TryRLock(c)
    \/ Progress(c) \/ Unlock(c) \/ CtxDone(c)

Spec == Init /\ [][Next]_vars

(***************************************************************************)
(* The Go scheduler runs every goroutine that can run, and the users of    *)
(* the locker release what they were given.  A context need not end.  Each *)
(* step of a call has its own fairness: a goroutine waiting in the select  *)
(* does not make up for a helper that is ready to run.                     *)
(***************************************************************************)
Fairness == \A c \in Call :
    /\ WF_vars(MuxRLock(c) \/ MuxAnnounce(c) \/ MuxLock(c))
    /\ WF_vars(Abandon(c) \/ Offer(c))
    /\ WF_vars(Receive(c) \/ SelectDone(c))
    /\ WF_vars(Expire(c) \/ Return(c))
    /\ WF_vars(Unlock(c))

FairSpec == Spec /\ Fairness

-----------------------------------------------------------------------------
(* Properties. *)

(***************************************************************************)
(* A caller that LockContext, RLockContext, Lock, RLock, TryLock or        *)
(* TryRLock told it has the lock still has it: the helper goroutine of     *)
(* lockWithCancel never releases a lock its caller has received.           *)
(***************************************************************************)
CallerHolds == \A c \in Call : pc[c] = "locked" => c \in holders

(***************************************************************************)
(* The comment at mutex.go:63-66: the signal that the context expired is   *)
(* not lost.  If a call returned the context's error and its helper has    *)
(* the RWMutex, the helper is still to read "expired", and finds it set.   *)
(***************************************************************************)
NoLostSignal ==
    \A c \in Call : pc[c] = "err" /\ c \in holders
                       => acq[c] = "held" /\ expired[c]

(***************************************************************************)
(* What the callers are told implements RWLock, whatever helpers of        *)
(* abandoned calls do to the RWMutex in the background.                    *)
(***************************************************************************)
Told(c) ==
    CASE pc[c] = "idle" -> "idle"
      [] pc[c] \in {"select", "cancelled", "blocked"} -> "waiting"
      [] pc[c] = "locked" -> IF mode[c] = "w" THEN "writing" ELSE "reading"
      [] OTHER -> "gone"

RW == INSTANCE RWLock WITH st <- [c \in Call |-> Told(c)]

RefinesRWLock == RW!Spec

(***************************************************************************)
(* The caller has taken the ctx.Done() case and waits for m; the helper    *)
(* has m and waits for the caller to receive.  Neither ever moves again    *)
(* and the RWMutex stays held.                                             *)
(***************************************************************************)
Stuck(c) == pc[c] = "cancelled" /\ acq[c] = "send"

NeverStuck == [](\A c \in Call : ~Stuck(c))

(***************************************************************************)
(* Apart from that mutual wait, every call returns, and what an abandoned  *)
(* call acquires in the background is released (mutex.go:47 and 54).       *)
(***************************************************************************)
CallsReturn ==
    NeverStuck => \A c \in Call :
        pc[c] \in {"select", "cancelled", "blocked"} ~> pc[c] \in {"locked", "err"}

AbandonedReleased ==
    NeverStuck => \A c \in Call : pc[c] = "err" ~> acq[c] = "done" /\ c \notin holders

(***************************************************************************)
(* mutex.go:46 and 53: "If the context is canceled the function will       *)
(* return immediately with the error from the context."  A caller that has *)
(* observed the end of its context returns.                                *)
(***************************************************************************)
CancelReturns == \A c \in Call : pc[c] = "cancelled" ~> pc[c] = "err"
=============================================================================
