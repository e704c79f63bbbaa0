------------------------------ MODULE Session ------------------------------
(***************************************************************************)
(* What a client of a KVStore sees: it opens a store (Opening.tla), runs   *)
(* one transaction after another on it, closes it, and opens it again,     *)
(* with any of the three implementations.  The concurrency of transactions *)
(* is the subject of BBoltStore, BadgerStore and RedisStore; here are the  *)
(* shelves, their readers and writers, every error that can come out of    *)
(* them and how it travels through the callback and doTX (Errors.tla), and *)
(* the transaction options.  Close runs in a goroutine of its own and can  *)
(* fall between any two steps of a transaction.                            *)
(*                                                                         *)
(* Every shelf has one key: a shelf is "full" or "empty", or "none" when   *)
(* its bbolt bucket does not exist.                                        *)
(*                                                                         *)
(* External: what the databases do.  A bbolt or Badger transaction works   *)
(* on its own image; Redis reads what is stored and queues writes.  bbolt  *)
(* waits for open transactions before it closes.  Badger does not, but is  *)
(* here closed between transactions only, and no iterator is made on it    *)
(* once it is closed: it panics.                                           *)
(***************************************************************************)
EXTENDS Opening, Functions

CONSTANTS Name,          \* names of shelves; "" is no name for a bbolt bucket
          OptionLists,   \* the lists of TxOptions passed to Write
          MaxOps         \* bound on the calls made in one callback

ASSUME SessionAssumption ==
    /\ MaxOps \in Nat
    /\ OptionLists \subseteq Seq({"WriteLock", "AfterCommit", "OnRollback"})

VARIABLES pc,        \* "idle", "begin", "fn", "end" (the callback returned), "returned"
          entry,     \* the method called
          opts,      \* its options
          ctx,       \* its context
          reader, writer,   \* reader[n], writer[n]: what GetShelfReader,
                            \* GetShelfWriter returned for n
          ops,       \* calls made in the callback
          last,      \* the last operation: its name, shelf, error
          app,       \* what the callback returned
          result,    \* what the method returned
          begun,     \* the transaction began
          invoked,   \* the options whose function was called, in order
          acked,     \* acked[n]: the last Put or Delete that returned nil
          data,      \* the committed contents
          base,      \* the contents when the transaction began
          work,      \* the image of the transaction, or what it queued
          closer,    \* "none"; "late": Close timed out and db.Close still runs;
                     \* "closed"
          closeErr   \* what Close returned, in the state it returned in

callVars == <<entry, opts, begun, base>>
fnVars == <<reader, writer, ops, last, acked, work>>
endVars == <<app, result, invoked>>
txVars == <<pc, ctx, callVars, fnVars, endVars>>
vars == <<openVars, closer, closeErr, data, txVars>>

AppErr == <<"app">>
NoOp == [op |-> "none", name |-> "", err |-> Nil]
None == [n \in Name |-> "none"]
Fresh == IF kind = "bbolt" THEN None ELSE [n \in Name |-> "empty"]
Writable == entry \in {"Write", "WriteShelf"}
WholeTx == entry \in {"Write", "Read"}

TypeOK ==
    /\ OpeningTypeOK
    /\ pc \in {"idle", "begin", "fn", "end", "returned"}
    /\ entry \in {"Write", "WriteShelf", "Read", "ReadShelf"}
    /\ opts \in OptionLists \cup {<<>>}
    /\ ctx \in {"live", "done"}
    /\ reader \in [Name -> {"none", "shelf", "NilReader"}]
    /\ writer \in [Name -> {"none", "shelf", "errWriter"}]
    /\ ops \in 0..MaxOps
    /\ begun \in BOOLEAN
    /\ Range(invoked) \subseteq DOMAIN opts
    /\ acked \in [Name -> {"none", "Put", "Delete"}]
    /\ \A c \in {data, base, work} :
          /\ c \in [Name -> {"none", "empty", "full"}]
          /\ \A n \in Name : c[n] = "none" => kind = "bbolt"
    /\ closer \in {"none", "late", "closed"}

TxInit ==
    /\ pc = "idle" /\ entry = "Read" /\ opts = <<>> /\ ctx = "live"
    /\ reader = None /\ writer = None /\ ops = 0 /\ last = NoOp /\ app = Nil
    /\ result = Nil /\ begun = FALSE /\ invoked = <<>> /\ acked = None
    /\ base = Fresh /\ work = Fresh

Init ==
    /\ OpeningInit /\ TxInit
    /\ data = Fresh
    /\ closer = "closed" /\ closeErr = Nil

-----------------------------------------------------------------------------
(* Opening and closing. *)

\* The store is opened again only after Close, or while a db.Close that timed
\* out still holds the file.
OpenStore ==
    /\ pc = "idle" /\ opc \in {"none", "opened", "failed"}
    /\ closer # "none" /\ (closer = "late" => holder = "store")
    /\ Create
    /\ UNCHANGED <<txVars, data, closer>>

\* What Create...Store does, up to its return of a store or of an error.
Open(step) ==
    /\ step
    /\ closer' = IF opc' = "opened" THEN "none" ELSE closer
    /\ data' = IF opc' = "opened" /\ InMemory THEN Fresh ELSE data
    /\ UNCHANGED txVars

\* What goes on beside the calls of the client.  The other process is only seen
\* between transactions: they do not look at the lock of the file.
Beside(step) == step /\ UNCHANGED <<txVars, data, closer>>

CanClose == kind = "redis" \/ pc \in {"idle", "begin", "returned"}

DbClosed ==
    /\ closer' = "closed"
    /\ connected' = FALSE
    /\ holder' = IF holder = "store" THEN "nobody" ELSE holder
    /\ UNCHANGED <<kind, cfg, opc, opens, attempt, openErr, watcher>>

\* Close of the three stores, around what CallWithTimeout returned.
CloseError(err) ==
    IF err = Nil THEN Nil ELSE IF kind = "badger" THEN err ELSE DatabaseError(err)

\* The Redis store forgets its client even when the call timed out.
AlreadyClosed == kind = "redis" /\ closer # "none"

Close ==
    /\ opc = "opened" /\ closer # "closed" /\ ~AlreadyClosed /\ CanClose
    /\ DbClosed
    /\ \E err \in {Nil, DbErr} : closeErr' = CloseError(err)
    /\ UNCHANGED <<txVars, data>>

CloseTimesOut ==
    /\ opc = "opened" /\ closer # "closed" /\ ~AlreadyClosed
    /\ closer' = "late"
    /\ closeErr' = CloseError(DatabaseError(CtxErr))
    /\ UNCHANGED <<openVars, txVars, data>>

\* bbolt and Badger do nothing in a second Close; its context may have ended.
CloseAgain ==
    /\ opc = "opened" /\ (closer = "closed" \/ AlreadyClosed)
    /\ closeErr' \in {Nil} \cup (IF AlreadyClosed THEN {} ELSE {DatabaseError(CtxErr)})
    /\ UNCHANGED <<openVars, txVars, data, closer>>

LateClose_Abandoned == FALSE

\* The db.Close of a Close that timed out.
LateClose ==
    /\ closer = "late" /\ CanClose
    /\ DbClosed
    /\ UNCHANGED <<txVars, data>>

-----------------------------------------------------------------------------
(* Beginning a transaction. *)

\* What a Redis command that was sent comes back with.
RedisReply ==
    IF ~connected THEN {Closed}
    ELSE IF ctx = "done" THEN {CtxErr} ELSE {Nil, DbErr}

checkOpen == IF closer = "none" THEN Nil ELSE ErrStoreIsClosed

Enabled == \E i \in DOMAIN opts : opts[i] = "WriteLock"

\* The lock is only refused to a caller whose context has ended: there is no
\* other transaction.
BBoltBegin ==
    (IF ctx = "done" THEN {Errorf(DatabaseError(CtxErr))} ELSE {}) \cup
    (IF connected THEN {Nil, DatabaseError(DbErr)} ELSE {ErrStoreIsClosed})

RedisBegin ==
    IF checkOpen # Nil THEN {checkOpen}
    ELSE IF Enabled
    THEN {IF e = Nil THEN Nil ELSE Errorf(DatabaseError(e)) : e \in RedisReply}
    ELSE {Nil}

\* The client calls a method of the KVStore.
Call(e, l) ==
    /\ pc = "idle" /\ opc = "opened"
    /\ e # "Write" => l = <<>>
    /\ pc' = "begin" /\ entry' = e /\ opts' = l
    /\ UNCHANGED <<openVars, closer, data, ctx, begun, base, fnVars, endVars>>

Begin ==
    /\ pc = "begin"
    /\ result' \in CASE kind = "bbolt" -> BBoltBegin
                     [] kind = "redis" -> RedisBegin
                     [] kind = "badger" -> {Nil}
    /\ begun' = (result' = Nil)
    /\ pc' = IF begun' THEN "fn" ELSE "returned"
    /\ base' = data /\ work' = data
    /\ UNCHANGED <<openVars, closer, data, entry, opts, ctx, reader, writer, ops, last, acked,
                   app, invoked>>

CtxDone ==
    /\ pc \in {"begin", "fn", "end"} /\ ctx = "live"
    /\ ctx' = "done"
    /\ UNCHANGED <<openVars, closer, data, pc, callVars, fnVars, endVars>>

-----------------------------------------------------------------------------
(* Shelves.  ReadShelf and WriteShelf get theirs before the callback runs. *)

getBucket(n) ==
    IF kind = "bbolt" /\ work[n] = "none" THEN "NilReader" ELSE "shelf"

GetShelfReader(n) ==
    /\ pc = "fn" /\ ops < MaxOps /\ ops' = ops + 1
    /\ reader[n] = "none" /\ (WholeTx \/ (entry = "ReadShelf" /\ reader = None))
    /\ reader' = [reader EXCEPT ![n] = getBucket(n)]
    /\ UNCHANGED <<openVars, closer, data, pc, ctx, callVars, endVars, writer, last,
                   acked, work>>

\* bbolt creates the bucket, unless it has no name.
GetShelfWriter(n) ==
    /\ pc = "fn" /\ ops < MaxOps /\ ops' = ops + 1
    /\ writer[n] = "none" /\ (entry = "Write" \/ (entry = "WriteShelf" /\ writer = None))
    /\ LET fails == kind = "bbolt" /\ n = ""
       IN  /\ writer' = [writer EXCEPT ![n] = IF fails THEN "errWriter" ELSE "shelf"]
           /\ work' = IF work[n] = "none" /\ ~fails
                      THEN [work EXCEPT ![n] = "empty"] ELSE work
    /\ UNCHANGED <<openVars, closer, data, pc, ctx, callVars, endVars, reader, last,
                   acked>>

View == IF kind = "redis" THEN data ELSE work

\* Badger's shelves are prefixes of keys.
Visible(n) ==
    {m \in Name : View[m] = "full" /\ (m = n \/ (kind = "badger" /\ n = ""))}

Found(n) == IF View[n] = "full" THEN Nil ELSE ErrKeyNotFound

errWriterErr_Writes(op) ==
    IF op \in {"Put", "Delete"} THEN Nil ELSE DatabaseError(DbErr)
\* Every method of errWriter returns the error GetShelfWriter met.
errWriterErr(op) == DatabaseError(DbErr)

IterateStopped_Raw == CtxErr
\* The context is looked at between two keys.
IterateStopped == DatabaseError(CtxErr)

\* The errors the methods of the three shelves may return.
BBoltErrs(op, n, cb) ==
    CASE op = "Get" -> {Found(n)}
      [] op \in {"Put", "Delete"} -> {Nil, DatabaseError(DbErr)}
      [] op = "Empty" -> {Nil}
      [] op = "Iterate" -> IF Visible(n) = {} THEN {Nil}
                           ELSE IF ctx = "done" THEN {IterateStopped} ELSE {cb}

BadgerErrs(op, n, cb) ==
    CASE op = "Get" -> IF acked[n] # "none" THEN {Found(n)}
                       ELSE IF connected THEN {Found(n), DbErr} ELSE {Closed}
      [] op \in {"Put", "Delete"} -> {Nil, DbErr}
      [] op = "Empty" -> {Nil}
      [] op = "Iterate" -> IF ctx = "done" THEN {IterateStopped}
                           ELSE IF Visible(n) = {} THEN {Nil} ELSE {cb}

\* What Get makes of the reply: redis.Nil, the answer for a missing key, is no
\* failure.
RedisGet_AnyErrorIsMissing(n, e) == IF e = Nil THEN Found(n) ELSE ErrKeyNotFound
RedisGet(n, e) == IF e = Nil THEN Found(n) ELSE DatabaseError(e)

\* Put and Delete are queued; only Put looks whether the store is open.
RedisErrs(op, n, cb) ==
    CASE op = "Get" -> {RedisGet(n, e) : e \in RedisReply}
      [] op = "Put" -> {checkOpen}
      [] op = "Delete" -> {Nil}
      [] op = "Empty" -> RedisReply
      [] op = "Iterate" -> {IF e # Nil THEN DatabaseError(e)
                            ELSE IF Visible(n) = {} THEN Nil ELSE cb : e \in RedisReply}

NilReaderErr(op) == IF op = "Get" THEN ErrKeyNotFound ELSE Nil

Errs(op, n, h, cb) ==
    CASE h = "NilReader" -> {NilReaderErr(op)}
      [] h = "errWriter" -> {errWriterErr(op)}
      [] h = "shelf" /\ kind = "bbolt" -> BBoltErrs(op, n, cb)
      [] h = "shelf" /\ kind = "badger" -> BadgerErrs(op, n, cb)
      [] h = "shelf" /\ kind = "redis" -> RedisErrs(op, n, cb)

Operation(op, n, err) ==
    /\ pc = "fn" /\ ops < MaxOps
    /\ ops' = ops + 1
    /\ last' = [op |-> op, name |-> n, err |-> err]
    /\ UNCHANGED <<openVars, closer, data, pc, ctx, callVars, endVars, reader, writer>>

\* Get, Empty and Iterate, through a reader or a writer; cb is what the
\* callback of Iterate returns.
ReadOp(op, n, cb) ==
    \E h \in {reader[n], writer[n]} \ {"none"} :
        /\ kind = "badger" /\ op \in {"Empty", "Iterate"} => connected
        /\ \E err \in Errs(op, n, h, cb) : Operation(op, n, err)
        /\ UNCHANGED <<acked, work>>

WriteOp(op, n) ==
    /\ writer[n] # "none"
    /\ \E err \in Errs(op, n, writer[n], Nil) :
          /\ Operation(op, n, err)
          /\ acked' = IF err = Nil THEN [acked EXCEPT ![n] = op] ELSE acked
          /\ work' = IF err = Nil /\ writer[n] = "shelf"
                     THEN [work EXCEPT ![n] = IF op = "Put" THEN "full" ELSE "empty"]
                     ELSE work

-----------------------------------------------------------------------------
(* Ending a transaction. *)

\* The callback returns nil, an error of its own, or the one it was given.
CallbackReturns ==
    /\ pc = "fn"
    /\ entry = "ReadShelf" => reader # None
    /\ entry = "WriteShelf" => writer # None
    /\ pc' = "end"
    /\ app' \in {Nil, AppErr, last.err}
    /\ reader' = None /\ writer' = None /\ ops' = 0
    /\ UNCHANGED <<openVars, closer, data, ctx, callVars, last, acked, work, result,
                   invoked>>

Invoke_First(type) ==
    LET called[i \in 0..Len(opts)] ==
            IF i = 0 THEN <<>>
            ELSE IF opts[i] = type /\ called[i - 1] = <<>>
            THEN Append(called[i - 1], i) ELSE called[i - 1]
    IN  called[Len(opts)]
\* The functions of the options of one type, called in the order of the list.
Invoke(type) ==
    LET called[i \in 0..Len(opts)] ==
            IF i = 0 THEN <<>>
            ELSE IF opts[i] = type THEN Append(called[i - 1], i) ELSE called[i - 1]
    IN  called[Len(opts)]

Return(err, called) ==
    /\ pc = "end"
    /\ pc' = "returned"
    /\ result' = err
    /\ invoked' = called
    /\ UNCHANGED <<openVars, closer, ctx, callVars, fnVars, app>>

EndRead == ~Writable /\ Return(app, <<>>) /\ UNCHANGED data

RollbackOnError ==
    /\ Writable /\ app # Nil
    /\ Return(app, Invoke("OnRollback"))
    /\ UNCHANGED data

RollbackOnContext ==
    /\ Writable /\ app = Nil /\ ctx = "done"
    /\ Return(IF kind = "redis" THEN DatabaseError(CtxErr)
              ELSE WrapError(ErrCommitFailed, CtxErr), Invoke("OnRollback"))
    /\ UNCHANGED data

\* What the database makes of the commit.  A Badger or Redis transaction that
\* wrote nothing does not reach it.
CommitErrs ==
    CASE kind = "bbolt" -> {Nil, DbErr}
      [] kind # "bbolt" /\ acked = None -> {Nil}
      [] kind = "badger" /\ acked # None -> IF connected THEN {Nil, DbErr} ELSE {Closed}
      [] kind = "redis" /\ acked # None ->
             IF connected THEN {Nil, DbErr, CtxErr} ELSE {Closed}

Commit ==
    /\ Writable /\ app = Nil /\ ctx = "live"
    /\ Nil \in CommitErrs
    /\ Return(Nil, Invoke("AfterCommit"))
    /\ data' = work

\* A Redis server that was reached may have executed what it reports no result of.
CommitFails ==
    /\ Writable /\ app = Nil /\ ctx = "live"
    /\ \E err \in CommitErrs \ {Nil} :
          Return(WrapError(ErrCommitFailed, err), Invoke("OnRollback"))
    /\ data' \in {data} \cup (IF kind = "redis" /\ connected THEN {work} ELSE {})

\* The client goes on to its next call.
NextCall ==
    /\ pc = "returned"
    /\ pc' = "idle" /\ entry' = "Read" /\ opts' = <<>> /\ ctx' = "live"
    /\ last' = NoOp /\ app' = Nil /\ result' = Nil /\ begun' = FALSE
    /\ invoked' = <<>> /\ acked' = None /\ base' = Fresh /\ work' = Fresh
    /\ UNCHANGED <<openVars, closer, data, reader, writer, ops>>

\* A step that is not a return of Close.
Other ==
    /\ \/ OpenStore \/ Open(CreateStep) \/ Open(MkdirFails) \/ Open(BBoltOpen(DbErr))
       \/ pc = "idle" /\ Beside(OtherProcess)
       \/ \E i \in 1..MaxOpens : Beside(WatcherReturns(i))
       \/ LateClose
       \/ \E e \in {"Write", "WriteShelf", "Read", "ReadShelf"}, l \in OptionLists :
             Call(e, l)
       \/ Begin \/ CtxDone \/ CallbackReturns \/ NextCall
       \/ \E n \in Name :
             \/ GetShelfReader(n) \/ GetShelfWriter(n)
             \/ WriteOp("Put", n) \/ WriteOp("Delete", n)
             \/ ReadOp("Get", n, Nil) \/ ReadOp("Empty", n, Nil)
             \/ \E cb \in {Nil, AppErr} : ReadOp("Iterate", n, cb)
       \/ EndRead \/ RollbackOnError \/ RollbackOnContext \/ Commit \/ CommitFails
    /\ closeErr' = Nil

Next == Close \/ CloseTimesOut \/ CloseAgain \/ Other

Spec == Init /\ [][Next]_vars

\* A Create...Store that can go on does, a watcher that was signalled is
\* scheduled, and db.Close ends once it need not wait for a transaction.
Fairness ==
    /\ WF_vars(Open(CreateStep) /\ closeErr' = Nil)
    /\ WF_vars(LateClose /\ closeErr' = Nil)
    /\ \A i \in 1..MaxOpens : WF_vars(Beside(WatcherReturns(i)) /\ closeErr' = Nil)

FairSpec == Spec /\ Fairness

-----------------------------------------------------------------------------
Foreign ==
    {"db", "locked", "context", "closed", "database not open",
     "unable to commit transaction"}

\* The methods of the shelves that hand on what the database said.
Unmarked ==
    \/ kind = "badger" /\ last.op \in {"Get", "Put", "Delete"}
    \/ kind = "redis" /\ last.op = "Empty"

\* errors.Is(err, ErrDatabase{}) tells a fault of the database or the context
\* from an error of the application, wherever the fault arose and whatever
\* wrapped it on its way out of the shelf, the callback and doTX: every fault is
\* found, except through the methods of Unmarked and in Badger's own opening
\* and closing, and no application error is taken for one or changed.
ErrorsMarked ==
    /\ pc = "returned" =>
          /\ Is(result, ErrDatabase) => Marks(result) \cap Foreign # {}
          /\ Marks(result) \cap Foreign # {} =>
                Is(result, ErrDatabase) \/ (Unmarked /\ result = last.err)
          /\ app = AppErr => result = AppErr
    /\ opc = "failed" => (Is(openErr, ErrDatabase) <=> kind # "badger")
    /\ closeErr \notin {Nil, DbErr} => Is(closeErr, ErrDatabase)
    /\ closeErr = DbErr => kind = "badger"

\* Of the errors that errors.Is takes for ErrCommitFailed, which is any of the
\* database's, the ones that ErrCommitFailed itself is part of.
SaysCommitFailed(e) == "unable to commit transaction" \in Marks(e)

\* A Write whose callback succeeded and that fails all the same says that
\* the commit failed, and still shows why.  Redis does not say so when the
\* context ended before Exec: it returns the context's error, and then nothing
\* was stored.
FailureExplained ==
    pc = "returned" /\ Writable /\ begun /\ app = Nil /\ result # Nil =>
        \/ SaysCommitFailed(result) /\ Marks(result) \cap {"db", "context", "closed"} # {}
        \/ kind = "redis" /\ result = DatabaseError(CtxErr) /\ data = base

\* Write returns nil when everything its Puts and Deletes acknowledged is stored
\* and nothing else, and an error when nothing is (a failed Exec of Redis may
\* have stored it), also when the callback ignored the errors of some of them.
WriteHonest ==
    pc = "returned" /\ Writable =>
        IF result = Nil
        THEN \A n \in Name :
                (data[n] = "full") = IF acked[n] = "none" THEN base[n] = "full"
                                     ELSE acked[n] = "Put"
        ELSE data = base \/ (kind = "redis" /\ app = Nil /\ data = work)

\* Get finds the key when it was there when the transaction began, and reports
\* it missing when it was not, or fails: no fault reads as a missing key.  A
\* shelf this transaction has written is left out, as store.go asks.
GetHonest ==
    last.op = "Get" /\ acked[last.name] = "none" =>
        /\ last.err = Nil => base[last.name] = "full"
        /\ Is(last.err, ErrKeyNotFound) => base[last.name] # "full"

\* All AfterCommit functions are called, in the order of the options, when the
\* method returns nil, all OnRollback functions when a begun Write fails, and
\* none otherwise.
HooksHonest ==
    pc = "returned" =>
        /\ Range(invoked) = {i \in DOMAIN opts :
              \/ opts[i] = "AfterCommit" /\ result = Nil
              \/ opts[i] = "OnRollback" /\ result # Nil /\ begun}
        /\ \A i, j \in DOMAIN invoked : i < j => invoked[i] < invoked[j]

\* A store that was returned and not closed is on a database that is open, or
\* on a server that answered a ping, with a file no other process has locked.
OpenedIsConnected ==
    closer = "none" => /\ connected
                       /\ kind # "redis" /\ ~InMemory => holder = "store"

\* Create...Store returns, unless another process keeps the bbolt file locked:
\* neither an unreachable server nor an earlier Close of this process that timed
\* out keeps it waiting.
CreateEnds ==
    opc \in {"mkdir", "open", "ping", "pinged"} ~>
        \/ opc \in {"opened", "failed"}
        \/ opc = "open" /\ holder = "other"

\* The watcher of createBBoltStore ends, however bbolt.Open returned.
WatcherStops ==
    \A i \in 1..MaxOpens :
        watcher[i] = "watching" ~>
            \/ watcher[i] = "stopped"
            \/ i = opens /\ opc = "open" /\ holder = "other"
=============================================================================
