------------------------------ MODULE TxStore ------------------------------
(***************************************************************************)
(* What stoabs.KVStore (src/store.go) promises of writable transactions,   *)
(* whatever database is underneath: a transaction is applied as a whole to *)
(* the contents the store has at that moment or not at all, its outcome is *)
(* final, AfterCommit functions run only after a commit and OnRollback     *)
(* functions only after a rollback, once, and the caller is told the       *)
(* outcome.                                                                *)
(***************************************************************************)
CONSTANTS Tx,           \* the calls of Write and WriteShelf
          Key,          \* the entries of the store, over all its shelves
          Val,          \* values
          Absent,       \* "there is no such key"
          Same          \* "the transaction did not touch this key"

VARIABLES db,           \* the committed contents
          writes,       \* writes[t]: the changes t has made so far
          st,           \* st[t]: where t is
          hook,         \* hook[t]: the option functions that have run for t
          told          \* told[t]: what the caller of t was told

vars == <<db, writes, st, hook, told>>

Contents == [Key -> Val \cup {Absent}]
Changes == [Key -> Val \cup {Absent, Same}]
NoChange == [k \in Key |-> Same]

Apply(d, w) == [k \in Key |-> IF w[k] = Same THEN d[k] ELSE w[k]]

TypeOK ==
    /\ db \in Contents
    /\ writes \in [Tx -> Changes]
    /\ st \in [Tx -> {"idle", "active", "committed", "aborted"}]
    /\ hook \in [Tx -> {"none", "afterCommit", "onRollback"}]
    /\ told \in [Tx -> {"none", "ok", "error"}]

Init ==
    /\ db = [k \in Key |-> Absent]
    /\ writes = [t \in Tx |-> NoChange]
    /\ st = [t \in Tx |-> "idle"]
    /\ hook = [t \in Tx |-> "none"]
    /\ told = [t \in Tx |-> "none"]

Begin(t) ==
    /\ st[t] = "idle" /\ told[t] = "none"
    /\ st' = [st EXCEPT ![t] = "active"]
    /\ UNCHANGED <<db, writes, hook, told>>

\* Put, or Delete when v is Absent.
Change(t, k, v) ==
    /\ st[t] = "active"
    /\ writes' = [writes EXCEPT ![t][k] = v]
    /\ UNCHANGED <<db, st, hook, told>>

Commit(t) ==
    /\ st[t] = "active"
    /\ st' = [st EXCEPT ![t] = "committed"]
    /\ db' = Apply(db, writes[t])
    /\ writes' = [writes EXCEPT ![t] = NoChange]
    /\ UNCHANGED <<hook, told>>

Abort(t) ==
    /\ st[t] = "active"
    /\ st' = [st EXCEPT ![t] = "aborted"]
    /\ writes' = [writes EXCEPT ![t] = NoChange]
    /\ UNCHANGED <<db, hook, told>>

RunHook(t) ==
    /\ hook[t] = "none" /\ told[t] = "none"
    /\ \/ st[t] = "committed" /\ hook' = [hook EXCEPT ![t] = "afterCommit"]
       \/ st[t] = "aborted" /\ hook' = [hook EXCEPT ![t] = "onRollback"]
    /\ UNCHANGED <<db, writes, st, told>>

\* A transaction that never started is told an error and stays idle.
Tell(t) ==
    /\ st[t] # "active" /\ told[t] = "none"
    /\ told' = [told EXCEPT ![t] = IF st[t] = "committed" THEN "ok" ELSE "error"]
    /\ UNCHANGED <<db, writes, st, hook>>

Next == \E t \in Tx :
    \/ Begin(t) \/ Commit(t) \/ Abort(t) \/ RunHook(t) \/ Tell(t)
    \/ \E k \in Key, v \in Val \cup {Absent} : Change(t, k, v)

Spec == Init /\ [][Next]_vars
=============================================================================
