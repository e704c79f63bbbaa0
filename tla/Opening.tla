------------------------------ MODULE Opening ------------------------------
(***************************************************************************)
(* Opening a store: CreateBBoltStore, CreateBadgerStore, CreateRedisStore  *)
(* and the configuration they take.                                        *)
(*                                                                         *)
(* bbolt.Open waits for as long as the database file is locked, and a      *)
(* goroutine of createBBoltStore (here the watcher, one per call) logs     *)
(* while it does.  badger.Open fails at once when the directory is locked. *)
(* Wrap of the Redis store pings the server before it returns a store.     *)
(*                                                                         *)
(* The module is passive: Session.tla says when a store is opened, and     *)
(* closes it.                                                              *)
(***************************************************************************)
EXTENDS Errors, Naturals

CONSTANTS MaxOpens,        \* bound on the calls of Create...Store
          PingAttempts     \* pingAttempts

ASSUME OpeningAssumption == MaxOpens \in Nat \ {0} /\ PingAttempts \in Nat \ {0}

VARIABLES kind,        \* the store implementation in use
          cfg,         \* the Config, the same for every Create...Store; NoSync is
                       \* only tried where it changes what a client sees
          opc,         \* where Create...Store is
          opens,       \* calls of Create...Store so far
          attempt,     \* i of the ping loop
          openErr,     \* err of Create...Store, what it returns once it has
          watcher,     \* watcher[i]: the watcher goroutine of call i
          holder,      \* external: who has the database file or directory locked
          connected    \* external: the database is open, the server was reached

openVars == <<kind, cfg, opc, opens, attempt, openErr, watcher, holder, connected>>

\* What the operating system, the database or the context reports.
DbErr == <<"db">>
FileLocked == <<"locked">>
CtxErr == <<"context">>
Closed == <<"closed">>

DefaultConfig == [NoSync |-> FALSE]
WithNoSync(config) == [config EXCEPT !.NoSync = TRUE]

\* With NoSync, Badger keeps everything in memory and locks no directory.
InMemory == kind = "badger" /\ cfg.NoSync

OpeningTypeOK ==
    /\ kind \in {"bbolt", "badger", "redis"}
    /\ cfg \in {DefaultConfig, WithNoSync(DefaultConfig)}
    /\ opc \in {"none", "mkdir", "open", "ping", "pinged", "opened", "failed"}
    /\ opens \in 0..MaxOpens
    /\ attempt \in 0..PingAttempts
    /\ watcher \in [1..MaxOpens -> {"none", "watching", "signalled", "stopped"}]
    /\ holder \in {"nobody", "other", "store"}
    /\ connected \in BOOLEAN
    /\ opc = "opened" => openErr = Nil
    /\ opc = "failed" => openErr # Nil

OpeningInit ==
    /\ kind \in {"bbolt", "badger", "redis"}
    /\ cfg \in IF kind = "badger" THEN {DefaultConfig, WithNoSync(DefaultConfig)}
                                    ELSE {DefaultConfig}
    /\ opc = "none"
    /\ opens = 0
    /\ attempt = 0
    /\ openErr = Nil
    /\ watcher = [i \in 1..MaxOpens |-> "none"]
    /\ holder = "nobody"
    /\ connected = FALSE

-----------------------------------------------------------------------------
Create ==
    /\ opens < MaxOpens
    /\ opens' = opens + 1
    /\ opc' = IF kind = "redis" THEN "ping" ELSE "mkdir"
    /\ openErr' = Nil
    /\ connected' = FALSE
    /\ UNCHANGED <<kind, cfg, attempt, watcher, holder>>

\* The return of Create...Store with err, which is nil when a store is returned.
CreateReturns(err) ==
    /\ openErr' = err
    /\ opc' = IF err = Nil THEN "opened" ELSE "failed"
    /\ attempt' = 0
    /\ UNCHANGED <<kind, cfg, opens>>

MkdirFails ==
    /\ opc = "mkdir"
    /\ CreateReturns(IF kind = "bbolt" THEN DatabaseError(DbErr) ELSE DbErr)
    /\ UNCHANGED <<watcher, holder, connected>>

\* os.MkdirAll succeeds; createBBoltStore starts its watcher.
Mkdir ==
    /\ opc = "mkdir"
    /\ opc' = "open"
    /\ watcher' = IF kind = "bbolt"
                  THEN [watcher EXCEPT ![opens] = "watching"] ELSE watcher
    /\ UNCHANGED <<kind, cfg, opens, attempt, openErr, holder, connected>>

SignalDone_OnSuccess(err) ==
    watcher' = IF err = Nil THEN [watcher EXCEPT ![opens] = "signalled"] ELSE watcher

\* done <- true: the channel has room for it.
SignalDone(err) == watcher' = [watcher EXCEPT ![opens] = "signalled"]

\* bbolt.Open returns: with the lock of the file, or with an error.
BBoltOpen(err) ==
    /\ kind = "bbolt" /\ opc = "open"
    /\ err = Nil => holder = "nobody"
    /\ SignalDone(err)
    /\ holder' = IF err = Nil THEN "store" ELSE holder
    /\ connected' = (err = Nil)
    /\ CreateReturns(IF err = Nil THEN Nil ELSE DatabaseError(err))

\* The watcher receives from done before it returns; on a tick it only logs.
WatcherReturns(i) ==
    /\ watcher[i] = "signalled"
    /\ watcher' = [watcher EXCEPT ![i] = "stopped"]
    /\ UNCHANGED <<kind, cfg, opc, opens, attempt, openErr, holder, connected>>

BadgerOpen ==
    /\ kind = "badger" /\ opc = "open"
    /\ \E err \in {Nil, DbErr, FileLocked} :
          /\ err = Nil => InMemory \/ holder = "nobody"
          /\ err = FileLocked => ~InMemory /\ holder # "nobody"
          /\ holder' = IF err = Nil /\ ~InMemory THEN "store" ELSE holder
          /\ connected' = (err = Nil)
          /\ CreateReturns(err)
    /\ UNCHANGED watcher

\* Whether the loop ends after an attempt: on success, or at the last one.
LoopEnds_NoCount(i, err) == err = Nil
LoopEnds(i, err) == err = Nil \/ i = PingAttempts

\* err after _, err = client.Ping(ctx).Result(): declared before the loop.
PingErr_Shadowed(err) == Nil
PingErr(err) == err

Ping ==
    /\ opc = "ping"
    /\ \E err \in {Nil, DbErr} :
          /\ attempt' = attempt + 1
          /\ openErr' = PingErr(err)
          /\ connected' = (err = Nil)
          /\ opc' = IF LoopEnds(attempt', err) THEN "pinged" ELSE "ping"
    /\ UNCHANGED <<kind, cfg, opens, watcher, holder>>

Wrap ==
    /\ opc = "pinged"
    /\ CreateReturns(IF openErr = Nil THEN Nil ELSE Errorf(DatabaseError(openErr)))
    /\ UNCHANGED <<watcher, holder, connected>>

\* Another process locks and releases the same database.  It does not compete
\* for the lock with a bbolt.Open that waits for it.
OtherProcess ==
    /\ kind # "redis" /\ ~InMemory
    /\ \/ holder = "nobody" /\ opc # "open" /\ holder' = "other"
       \/ holder = "other" /\ holder' = "nobody"
    /\ UNCHANGED <<kind, cfg, opc, opens, attempt, openErr, watcher, connected>>

CreateStep == Mkdir \/ BBoltOpen(Nil) \/ BadgerOpen \/ Ping \/ Wrap
=============================================================================
