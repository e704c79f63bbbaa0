------------------------------- MODULE RWLock -------------------------------
(***************************************************************************)
(* What a read-write lock promises the goroutines that use it, and nothing *)
(* else: a writer is alone, readers share, an attempt may be given up.     *)
(* The RWLocker interface (src/util/mutex.go) states this contract;        *)
(* ContextRWLocker is shown to implement it.                               *)
(***************************************************************************)
CONSTANT Call           \* the attempts to take the lock

VARIABLE st             \* what each attempt has been told so far

\* The attempts that have been told they hold the lock, by mode.
Reading == {c \in Call : st[c] = "reading"}
Writing == {c \in Call : st[c] = "writing"}

TypeOK == st \in [Call -> {"idle", "waiting", "reading", "writing", "gone"}]

Init == st = [c \in Call |-> "idle"]

Request(c) ==
    /\ st[c] = "idle"
    /\ st' = [st EXCEPT ![c] = "waiting"]

\* Waiting is optional: TryLock and TryRLock answer at once.
EnterRead(c) ==
    /\ st[c] \in {"idle", "waiting"}
    /\ Writing = {}
    /\ st' = [st EXCEPT ![c] = "reading"]

EnterWrite(c) ==
    /\ st[c] \in {"idle", "waiting"}
    /\ Writing = {} /\ Reading = {}
    /\ st' = [st EXCEPT ![c] = "writing"]

GiveUp(c) ==
    /\ st[c] \in {"idle", "waiting"}
    /\ st' = [st EXCEPT ![c] = "gone"]

Leave(c) ==
    /\ st[c] \in {"reading", "writing"}
    /\ st' = [st EXCEPT ![c] = "gone"]

Next == \E c \in Call :
    Request(c) \/ EnterRead(c) \/ EnterWrite(c) \/ GiveUp(c) \/ Leave(c)

Spec == Init /\ [][Next]_st
=============================================================================
