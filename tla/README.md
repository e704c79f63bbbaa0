# A TLA+ model of go-stoabs

go-stoabs is a small Go library that gives three databases (bbolt, Badger and
Redis) one transactional key-value interface. A caller passes a callback to
`Write`, `WriteShelf`, `Read` or `ReadShelf`; the store runs it in a
transaction, commits or rolls back, and calls the `AfterCommit` or `OnRollback`
functions the caller registered. This directory models how stores are opened and
closed, how their transactions are locked and ended, what reading a shelf gives and
what a client is told, checks the models with TLC, and proves their safety properties
with TLAPS.

## Inventory

| Component | State it keeps | Operations | What makes it correct |
|---|---|---|---|
| `util.ContextRWLocker` (`src/util/mutex.go`) | an RWMutex; per call an `expired` flag, a mutex `m`, a channel | `LockContext`, `RLockContext`, `Lock`, `RLock`, `TryLock`, `TryRLock`, `Unlock`, `RUnlock` | exclusion as callers see it; a lock acquired for a caller that gave up is released; calls return |
| `util.CallWithTimeout` (`src/util/util.go`) | a goroutine and a result channel per call | one function | the caller returns when its context ends; the function still completes |
| bbolt store (`src/bbolt/bbolt.go`) | a `ContextRWLocker`, the bbolt database | `doTX` behind all four entry points, `Close`, shelf operations | isolation, atomicity, hooks after unlock, every path unlocks |
| Redis store (`src/redis7/redis.go`) | `s.client` under `s.mux`, a distributed lock with an expiry, a command pipeline | `doTX`, `Read`, `Close`, shelf operations | writers that use the lock do not overwrite one another; honest outcomes; the lock never stays for ever |
| Badger store (`src/badger/badger.go`) | per transaction a list of iterators and a mutex | `doTX`, `newIterator`, `rollback`, `commit`, `Close`, shelf operations | no open iterator when a transaction is discarded; every path discards it; atomicity |
| `KVStore` contract, options (`src/store.go`) | none | interfaces, `Enabled`, `Invoke`, `NilReader`, `errWriter` | what every store promises; results, option functions and errors agree with what happened |
| Errors (`src/store.go`, `src/util/errors.go`) | none | `DatabaseError`, `ErrDatabase.Is`, `WrapError` | a fault of the database is told from an error of the application; causes stay visible |
| Opening (`Create...Store`, `Wrap` in the three store files) | the lock of the database file, the watcher goroutine, the ping loop | `CreateBBoltStore`, `CreateBadgerStore`, `CreateRedisStore` | a store or an error; opening ends; no goroutine stays |
| Shelves (in the three store files) | the database's entries; Redis: pages and a SCAN cursor | `Range`, `Iterate`, `Empty` | all keys that are there, in order, no others; `stopAtNil` stops at a gap; calls end |
| Keys (`src/key.go`) | none | `Next`, `String`, `Bytes` and inverses | round trips and order |

The components interact by calls: the bbolt store uses the locker and
`CallWithTimeout`, the other two stores use `CallWithTimeout` for `Close`. The
Redis server is shared with other processes. Hard behaviours: helper goroutines
racing with context cancellation (locker), `Close` racing with transactions (all
stores), replies that are lost or late and locks that expire (Redis),
goroutines of a callback that outlive it (Badger), panics in callbacks, calls and
iterations made inside the callback of another, a store reopened while an earlier
`Close` has timed out.

## Modules

| Module | Models | Composed with |
|---|---|---|
| `RWLock` | the abstract contract of a read-write lock: what attempts are told | |
| `ContextRWLocker` | `lockWithCancel` and the methods of the locker | implements `RWLock` |
| `ContextRWLockerProofs`, `BBoltStoreProofs`, `BadgerStoreProofs`, `RedisStoreProofs`, `ShelfProofs`, `SessionProofs` | theorems about the module each is named after | `BBoltStoreProofs` uses those of the locker |
| `Induction` | induction and recursion over the natural numbers, for the proofs | |
| `TxStore` | the abstract promise of writable transactions | |
| `CallWithTimeout` | the caller and goroutine of `CallWithTimeout`; passive | |
| `BBoltStore` | `doTX` and `Close` of the bbolt store | instances of `ContextRWLocker` and `CallWithTimeout`; implements `TxStore` |
| `RedisStore` | `doTX`, `Read` and `Close` of the Redis store, the server, time | instance of `CallWithTimeout` |
| `BadgerStore` | `doTX`, iterators and `Close` of the Badger store | instance of `CallWithTimeout`; implements `TxStore` |
| `Keys` | the three key types: bytes, strings, `Next` | |
| `Shelf`, `MCShelf` | `Range`, `Iterate` and `Empty` of the three stores | extends `Keys` |
| `Errors` | errors and `errors.Is` | |
| `Opening` | opening a store of each kind; passive | extends `Errors` |
| `Session`, `MCSession` | one client that opens, uses, closes and reopens a store: shelves, options, results, errors | extends `Opening` |

In every store module one element of `Writer`, `Reader`, `Tx`, `Closer` or
`Iter` is one call, made once; the sets bound how many calls there are. `tpc[t]`
is the place in `doTX`, and each action is the code from one point where another
goroutine can matter to the next. A callback is a sequence of `Put`, `Delete`
(and, for Badger, `Get` and iterations), then `CallbackReturns` or
`CallbackPanics`. Shelves and keys are one set `Key`, and a missing shelf reads
like an empty one. Data kept by a transaction that has ended is reset so that
states that differ only in dead data coincide.

**ContextRWLocker.** `pc[c]` is the caller (`select`, `cancelled` once the
select has taken the `ctx.Done()` case, ...), `acq[c]` the acquisition by the
helper goroutine (or by the caller for the plain methods). `holders`, `writer`
and `acq` model `sync.RWMutex`, which is external: a writer announces itself,
which parks later readers, waits for the readers inside to leave, and its unlock
lets the parked readers in. The mutex `m` has no variable: its critical sections
are single steps except for the helper's send on the unbuffered channel
(`acq = "send"`), during which the helper has `m`.

**BBoltStore.** Runs the locker's own actions (`Locker!LockContext`,
`Locker!Progress`, `Locker!Unlock`), then `Begin`, the callback and one of
`EndRead`, `RollbackOnError`, `RollbackOnContext`, `Commit`, then `Unlock` and
`InvokeHooks`. bbolt is external: a transaction works on an image, `Commit`
installs it, `DB.Close` takes the locks that `Begin` needs (`closing`), waits
for open transactions, and closes. It keeps those locks while it waits, and the
`Rollback` of a read takes one of them (metalock) after it has given its own back: so
ending a read is `EndRead` and then `RemoveTx`, which waits for a `DB.Close` under way.
A call is a `Read` or a `Write` (`writable`) made by
a goroutine of its own or in the callback of another call (`outer`), which goes on when
it has returned. A callback that panics leaves the lock and the transaction as they are.

**RedisStore.** Time is a counter. A context has a deadline; the lock's expiry
is the time left plus `Offset` (`lockExpiryOffset`), computed before the
lock is acquired and counted from when it is. A pipeline that was sent
(`wire[t] = "sent"`) is executed or dropped within `Delay`, whether or not its
sender still waits. The client sends nothing once it is closed or the context
has ended. `Faulty` lets connections fail while a context is live. `got[t]` is whether
the `s.client` the transaction read was still there: a nil one panics when it is first
used (`tpc = "nilclient"`).

**BadgerStore.** Transactions run on snapshots; a commit is refused when a key
that was read has been committed since (Badger's check, external; `reads` and `dirty`).
`seen` is history: the keys the callback was shown, by `Get` or in an iteration. Iterations
belong to a transaction and may run in goroutines the callback started, as
`TestBadger_IteratorClose` does. `newIterator`, `rollback` and `commit` are
single steps under `tx.mutex.Lock()` that wait for iterations under `RLock`. An
iteration started in the callback of another waits for the lock its own goroutine has
(`ipc = "nested"`), and so does everything behind it.

**Keys and Shelf.** A byte has radix `Nibble * Nibble` and fixed-size keys have
`Width` bytes, so that carries, lost leading zeros and the sign bit of
`Uint32Key.FromString` appear with small numbers. `Shelf` makes one call on one
shelf. `todo` is what the cursor of bbolt or Badger has yet to visit of the transaction's
snapshot, a set of stored keys of which the cursor is at the first (`Current`);
`curr`, `page` and `values` are the loop of Redis' `Range` and of `visitKeys`, and
`rest` is what SCAN has yet to examine. Every request to Redis is a step, and other
clients put and delete between the steps. `always` and `ever` are history: what was
there during the whole call, and at some time during it. A missing bucket (bbolt's
`NilReader`) reads like an empty shelf. A callback that writes to the shelf it
iterates over is not modelled. The bounds of a `Range` are any two keys, in either order:
no store compares them. Redis counts from one to the other, and with `to` before `from`
(`Backwards`) it goes on past every key there is; `Followed` bounds how far the model follows
it: once around for `Uint32Key`s, which wrap, and up to the largest key of `Width` bytes for
the other two. Only such a call reaches this bound (`NeverPasses`). The keys of a shelf and
the bounds of a `Range` all have `Width` bytes, and `BytesKey`s no leading zeros.

**Errors, Opening and Session.** An error is the sequence of marks `errors.Is` visits.
`Session` is sequential where the store modules are concurrent: one client makes one
call after another on a store of any kind, and what varies is what goes wrong: the
directory, the file lock of another process, the ping, the lock, `Begin`, every shelf
operation, the context, the commit, and a `Close` from another goroutine between any two
steps. A callback takes readers and writers of shelves, one of which has a name bbolt
refuses, and may ignore the errors it is given, hand them on or return one of its own.
`acked` is what the client was told was written, `base` what was stored when the
transaction began; the properties compare them with `data`, with the returned error and
with the option functions that ran. `watcher[i]` is the goroutine that warns about a
locked bbolt file. A Badger store is only closed between transactions here; what `Close`
does to one under way is in `BadgerStore`.

## Runs

| Run | Instance | Shows |
|---|---|---|
| `locker` | 3 calls of any kind | `CallerHolds`, `NoLostSignal`, `RefinesRWLock`; `CallsReturn` and `AbandonedReleased` under fairness |
| `locker_hang` | 2 calls | **violated**: `CancelReturns` |
| `bbolt` | 2 calls, each a `Read` or a `Write`, nested or not, 1 `Close` | `OpenTxIsCurrent`, `HooksRunUnlocked`, `ClosedIsQuiet`, `RefinesTxStore`; `CallsReturn`, `CloseCompletes` under fairness |
| `redis_lock` | 2 locking writers, contexts of 1 and 2 units, offset 1, delay 1 | `LockedIsCurrent` |
| `redis_close` | 1 locking writer, 1 reader, 2 `Close`, faulty connections | `OutcomeHonest`, `ClosedSendsNothing`; `LockBecomesFree`, `CallsReturn` under fairness |
| `redis_exec_error` | 2 locking writers, faulty connections | **violated**: `LockedIsCurrent` |
| `redis_nil_client` | 1 writer, 1 `Close` | **violated**: `ClosedIsReported` |
| `badger_commit` | 2 writers, 1 iteration, 1 `Close` | `RefinesTxStore`, `DecidedOnCurrent` |
| `badger_iterators` | 1 writer, 1 reader, 2 iterations | `NoOpenIteratorLeft`, `TxnEnded`; `CallsReturn` under fairness |
| `badger_iterator_use` | 1 writer, 1 iteration | **violated**: `IteratorUsable` |
| `shelf` | 1 call on each store, 4 keys and 1 of another shelf, pages of 1, 1 concurrent write | `RangeExact`, `StopsAtGap`, `IterateComplete`, `EmptyIsEmpty`, `FailsOnlyAtEdges`, `NeverPasses`; `CallEnds` under fairness |
| `session` | 2 openings, 2 shelves, 4 calls in a callback, 2 pings | `ErrorsMarked`, `FailureExplained`, `WriteHonest`, `GetHonest`, `HooksHonest`, `OpenedIsConnected`; `CreateEnds`, `WatcherStops` under fairness |

Deadlock checking is off: every call is made once, so each model comes to rest
when all calls are over (`Session` when the client may open no more stores and the last
attempt failed); that calls do end is what the liveness properties say.

*Bounds.* Three calls of the locker give a holder, a waiting writer and a parked
reader, which is every role the RWMutex has; two calls that may each read or write
give every pair that can conflict in the bbolt store, and one nested in the other. In Redis two transactions suffice for
a lost update; `Delay = Offset` is the tight case, `LastStart` (the latest time
a transaction starts) and `Horizon` (when every lock has expired) keep time
finite. One key and one value distinguish all that is compared: a transaction
changes the contents, deletes, or does neither. In `shelf` the numbers are 2, 6, 7 and 8,
with two digits of radix 4: 2 has a leading zero, 7 to 8 is a carry, 8 is the first number
that a string cannot give back; ranges take several pages, some without a key in the last
one, and some have their bounds swapped. In `badger_commit` one key that both writers may
get, iterate over, put and delete is enough for every conflict. In `session` two openings give one reopening, also of a file that a timed-out `Close`
still holds; four calls in a callback write to two shelves or take a reader before the
writer that creates its bucket; contents carry over from one transaction to the next.

*Fairness.* Weak fairness on the steps of goroutines is Go's scheduler; a step
that waits for another goroutine is not enabled, so nothing is assumed of it.
Callbacks are assumed to return or panic and iterations to end. In the bbolt
store the lock context always has a deadline (`LockAcquireTimeout`), in the
Redis store the acquisition ends for the same reason, and time passes. The
contexts of callers need never end. The holders of a plain locker are assumed to
unlock. `CallsReturn` and `AbandonedReleased` of the locker are stated for behaviours in
which the mutual wait of `locker_hang` does not occur. In the bbolt store a panic
leaves the lock held, and `CallsReturn` says that all others still return, by their
`LockAcquireTimeout`; `CallsReturn` and `CloseCompletes` except, besides that mutual wait,
the deadlock with `DB.Close` (`Deadlocked`, below). Badger's `CallsReturn` excepts
transactions one of whose iterations nests. `CallEnds` excepts a Redis `Range` with its
bounds swapped over `HashKey`s or `BytesKey`s. In `session` an opening that can go on does, a `db.Close` that nothing
holds up ends, and the other process need not release the file: `CreateEnds` and
`WatcherStops` except a `bbolt.Open` that waits for it.

## What the violated runs show

* `locker_hang`: the context ends when the helper has just got the lock. The
  caller's select takes `ctx.Done()` and waits for `m` (`mutex.go:83`); the helper
  has `m` and waits in `locked <- true` (`mutex.go:77`) for that caller. Neither
  returns and the lock is held for ever, against `mutex.go:46`.
* `redis_exec_error`: `Exec` fails on the connection while the context is live;
  `unlock()` releases the lock although the pipeline may still be executed, and it
  is executed under the next holder. The code keeps the lock for this reason only
  when the deadline has passed.
* `badger_iterator_use`: the transaction ends in the gap between `newIterator`
  and `RLock` (`badger.go:294-295`), and the iteration uses a closed iterator.
* `redis_nil_client`: `checkOpen` finds the store open and gives `s.mux` back; `Close`
  sets `s.client` to nil; the transaction reads nil (`redis.go:224`, `redis.go:137`) and
  panics at its first read or at `Exec`, where `store.go:58` promises `ErrStoreIsClosed`.

Also seen while modelling, and not runs:

* The release of the Redis lock uses a context derived from the transaction's; when
  that was cancelled the release is refused and the lock stays until it expires
  (`redis.go:213`). `LockBecomesFree` shows that it does expire.
* Redis' `Empty` takes one page of SCAN for the whole answer (`redis.go:340`): it is true
  for a shelf with entries when the first page met entries of other shelves only, against
  `store.go:147`. `EmptyIsEmpty` asks for the right answer when that page reached the end
  of the database (`rest = {}`). That the database has no more entries than a page is not
  enough: SCAN may return before it has filled one.
* A `DB.Close` that waits for a bbolt read transaction has the locks `Begin` needs, one of
  which `Rollback` of a read needs too: a `Read` nested in that transaction's callback waits
  for it in `Begin` (`bbolt.go:161`) or, already begun, in `Rollback` (`bbolt.go:175`),
  whatever its context says, and all three wait for ever. The same happens to `Close` when a
  read's callback has panicked. `CallsReturn` and `CloseCompletes` except these
  (`Deadlocked`), so what they show is that nothing else holds calls up for ever.
* `ErrDatabase.Is` finds any `ErrDatabase` equal to any other: every fault of the database
  "is" `ErrStoreIsClosed` and `ErrCommitFailed` to `errors.Is` (`store.go:50`).
  `FailureExplained` therefore asks for the mark of `ErrCommitFailed` itself
  (`SaysCommitFailed`).
* A Redis `Write` whose context ends before `Exec` returns the context's error without
  `ErrCommitFailed` (`redis.go:247`), where bbolt and Badger wrap it. `FailureExplained`
  has this as its second case, and asks that nothing was stored.
* Redis' `Range` with `to` before `from` counts on (`redis.go:385`): `Uint32Key`s wrap
  around and the callback gets keys outside the range (`store.go:156-159`), a `BytesKey`
  never meets `to` and a `HashKey` may not, so that the call ends only by a gap, an error or
  its context. bbolt and Badger call back with nothing. `RangeExact`, `StopsAtGap`,
  `FailsOnlyAtEdges` and `NeverPasses` are stated for other calls (`Backwards`). `BytesKey`s
  of different lengths have the same effect with `to` after `from`: from `[1,255]` Redis
  passes by `[2]`, since `Next` gives `[2,0]`. The model has no such bounds.
* Badger's `Get`, `Put`, `Delete`, `Close` and `CreateBadgerStore`, and Redis' `Empty`
  (`redis.go:338`), hand on errors that are no `ErrDatabase`, also that of an ended
  context in the last case, although `store.go:73`, `:151`, `:170` and `:179` promise one.
  `ErrorsMarked` names these exceptions (`Unmarked`).
* A closed Badger store begins transactions, and a `Write` that writes nothing succeeds;
  no method returns `ErrStoreIsClosed`.
* `store.go:91` says of `ReadShelf` "If the shelf does not exist, the function is not
  called"; all three stores call it.
* Badger's `Range` parses the key with the shelf's name in front of it
  (`badger.go:336`): only a `BytesKey` can be parsed so, and `stopAtNil` has no effect
  for the other types. `StopsAtGap` leaves these out (`FindsGaps`).
* A last page without keys makes Redis' `Range` return an error (`redis.go:407`): for
  `from = to` and when the range is a multiple of `resultCount + 1`.
* `Next` of a `BytesKey` with leading zeros is a shorter key and `HashKey.Next` panics
  on one (`key.go:124`, `key.go:160`). bbolt's `stopAtNil` then stops where there is no
  gap, and Redis' `Range` passes by keys, or by `to`. The properties are stated for
  `BytesKey`s without leading zeros. Badger's `stopAtNil` takes `Next` of the name and the key
  together, so there it is the name that must not start with a zero byte.
* bbolt and Badger begin the search for gaps at the first key that exists, Redis at
  `from`.
* Badger's shelves share entries when one name is a prefix of the other
  (`badger.go:238`). The names of the run are not.

Further: a Redis transaction without
`WithWriteLock` runs next to one that has the lock (`redis.go:192`), and `OnRollback`
functions run after a failed `Exec` whose changes the server may apply
(`redis.go:258`), which is why `OutcomeHonest` promises nothing for
`ErrCommitFailed`.

## Proofs

Everything below is proved for every value of the constants: any sets of calls, keys,
values, shelves and options, any timeouts and bounds. The assumptions are those the
modules state of their constants (`NoneAssumption`, `OpeningAssumption`, ...): that
`None` and the like are not members of the sets they stand apart from, that numbers are
natural numbers, that the kinds of calls are disjoint, that keys fit their width, and that
names of shelves do not start with one another (`NameAssumption`) or with a zero byte
(`TextAssumption`). TLC evaluates them in the runs.
Each inductive invariant was checked by TLC on the instance of the run before it was proved.

The types of every module are proved too (`TypeCorrect`), since the invariants rest on them.

**The locker** (`ContextRWLockerProofs`): `IndInvariant`, `CallerHoldsAlways`,
`NoLostSignalEver`, and `ImplementsRWLock`: what callers are told is a behaviour of `RWLock`.
`CallerHolds` is not inductive: that a caller still has the lock depends on whose unlock can
remove it from `holders`. `IndInv` adds what relates the four pieces of state. `Phases` bounds
what the helper can be doing given where the caller is, and ties `expired` to having returned
the error. `HoldersExact` says `holders` is exactly the calls whose helper or caller has the
RWMutex, `WriterExact` that a writer is registered exactly while it is announced or holds,
`WriterAlone` that a holding writer is the only holder, and `WaitersByMode` that only readers
are parked. The interesting step is an unlock by a writer, which moves a whole set of parked
readers into `holders`; lemma `MuxUnlockInd` does it once for `Unlock` and for the helper's
`Abandon`.

**The bbolt store** (`BBoltStoreProofs`): `OpenTxIsCurrentAlways`,
`HooksRunUnlockedAlways`, `ClosedIsQuietAlways`, `ImplementsTxStore`. The proof is compositional.
`UsesLocker` shows that the store drives its lock by steps of the locker's own
specification, so that the locker's `IndInv` holds of it (`LockInvariant`) without being
proved again; from it follows that a call which has the lock for writing is the only one that
has it. `StoreInv` then says what doTX has at each of its points: the lock
(`LockFollowsDoTX`), a mode that suits the method (`ModeFollowsCall`), the contents it
began on (`OpenTxIsCurrent`), a pending image only while the transaction is open
(`PendingOnlyWhenOpen`), its result and which functions have run; and that a database that
was closed has no open transaction (`ClosedHasNoTx`, `CloseOutcome`). `OpenTxIsCurrent` needs the
first of these: a commit would change the contents under another open transaction, and it is
the lock that says there is none.

**The Badger store** (`BadgerStoreProofs`): `NoOpenIteratorLeftEver`, `TxnEndedAlways`,
`DecidedOnCurrentAlways` (an action property), `ImplementsTxStore`. `IndInv` ties Badger's transaction to the place in doTX
(`TxnFollowsDoTX`), every open iterator to the list of its transaction (`IteratorsOwned`, which
is what lets `rollback` and `commit` close them all), and pending writes, result and option
functions to the place in doTX. The refinement maps each step of doTX to a step of `TxStore` or
to none; the commit that is refused, or that meets a closed database, is an abort.
`DecidedOnCurrent` needs `ConflictInv`: Badger remembers the read of every key the callback
was shown of the snapshot (`ReadsKnown`), and every key that differs from the snapshot of an open transaction is one that Badger knows
to have changed since (`ChangesKnown`). The check at the commit compares the two.

**The Redis store** (`RedisStoreProofs`): `OutcomeHonestAlways`,
`ClosedSendsNothingEver` (an action property) and `LockedIsCurrentAlways`. The first two need
nothing of the environment. `IndInv` relates the outcome to doTX and to what is on the wire, and
says which `Close` forgets the client and that a forgotten client is closed. `LockedIsCurrent`
holds only where the code can guarantee it, and the theorem says where (`LockSuffices`): every
writer passes `WithWriteLock`, a pipeline travels no longer than `lockExpiryOffset`, and
connections do not fail under a live context. Without the last, the run `redis_exec_error`
violates it. `LockInv` is an argument about time: the expiry of the lock covers the deadline of
its holder and the delay of what the holder sent (`ExpiryCoversDeadline`), so that from the
begin of a transaction until its pipeline is executed or dropped it owns the lock (`BegunOwns`,
`SentOwns`, `GivenUpKeepsLock`), although nobody renews it and its holder may have returned.

**Sessions** (`SessionProofs`): all safety properties of the run `session`. `IndInv` has
two parts. `OpenInv` follows `Create...Store` by kind of store and says that calls are made on an
opened store. `TxInv` says of a transaction that its image is what it began on and what it
acknowledged (`ImageTracks`), that a `NilReader` was taken of a shelf that was not there, and
where the error of the last operation, of the callback and of the method come from
(`LastErrMarked`, `ResultMarked`). The first lemmas are about `Errors`: which marks
`DatabaseError`, `WrapError` and `fmt.Errorf` leave visible; `ErrsMarked` then says once, for
every method of every shelf, that a fault is marked. `HookInv` is about the option functions. What the
loop of `Invoke` calls, and in which order, is an induction over the list of options: `Induction`
states the principle for sets of numbers, which the provers can instantiate where they cannot
instantiate the library's, and `InvokeLoopExists` first shows that the recursive function
is there.

**Keys and shelves** (`ShelfProofs`): `BytesRoundTrip`, `StringRoundTrip`, `KeysInOrder`,
`NextCounts`, `TypeCorrect`, `IterateCompleteAlways`, `EmptyIsEmptyAlways`, `RangeExactAlways`,
`StopsAtGapAlways`, `NeverPassesAlways`, `FailsOnlyAtEdgesAlways`. They hold for every radix of a byte
and every width of a key, so for the 4 and 32 bytes of the code, for any keys in the shelves, any
page size and any number of concurrent writes. The conversions of keys are recursive functions.
That these exist comes from `Recursion`, and what they compute from `SetInduction` (both in
`Induction`): the digits of a number below `Limit` denote that number (`ValueOfDigits`), a numeral
too, and the byte order of two numbers of the same width is their order (`DigitsOrder`).
`Before`, which is `bytes.Compare`, is a strict total order, and the keys that start with a given
name are an interval of it (`PrefixConvex`). This last fact is why Badger may stop at the first
key that has not the prefix: `Seek` brings the cursor to the name, and no key of the shelf comes after
one of another. `ShelfInv` says of bbolt and Badger that a key of the
shelf is at or after the cursor or was delivered (`Cursor`), and of Redis that a key that was there
all along is yet to be scanned, in the page or delivered, and that MGET found it if its value is in the
page (`Scanning`). A concurrent write can remove an entry from what SCAN must examine, or from
what MGET finds, only by removing it from `always` too. `EmptyIsEmpty` needs that before its
SCAN a Redis `Empty` has examined nothing (`ScanningOnce`). `Pages` says how long pages are.

`Range` is followed by the numbers its keys stand for. `NextCounts` says what `Next` gives: the
key of `n + 1`, whatever the carries, except that a `HashKey` panics when that one starts with a
zero byte. It needs how long a numeral is (`NumeralLength`), since `big.Int` drops leading
zeros, and `NamedNext` says the same of the stored key of Badger, whose name comes in front and
keeps the length. `RangeInv` says nothing of a Redis `Range` with its bounds swapped
(`Ranging`; `BackwardsStep` shows that such a call stays one) and has five parts. `Bounds` are the numbers `FromN` and `ToN` of the
call. `Delivered` says that what was delivered ascends and, when gaps are searched for, has no
gap. `AtCursor` says that the keys from the cursor of bbolt or Badger on are greater than the
last one delivered, that no key of the range is left out, and that `prevKey` is that last key,
so that the key expected next is that of the next number (`ExpectedKey`). `Paging` says that the
page of Redis has the strings of the numbers from `First` on without a hole, that what lies
below `First` was delivered or was missing at some time, that a value in the page tells whether
its key was there, and that between pages `First` is a multiple of `PageSize + 1` away from
`FromN`, which is why an empty last page means `WholePages`. `Ended` says what each outcome
means. Strings of different keys differ (`StringInjective`), so MGET does not find one key under
another's string. The steps of the loop of bbolt and Badger are shown in one place
(`TurnRange`), those of Redis by how `First` moves (`PagingNext`, `VisitOn`).

Only model-checked:

* all liveness properties (`CallsReturn`, `CloseCompletes`, `LockBecomesFree`, `CreateEnds`,
  ...): temporal reasoning about fairness and `ENABLED` is out of the prover's reach;
* the four violated runs, which are counterexamples.

## Not modelled

* `Stats`, which reads what the databases report, and `Unwrap` and `Store`, which hand
  out what they hold.
* Loggers, log messages and the texts of errors.
* bbolt, Badger, redsync, the Redis client and server: external, modelled as far
  as the stores rely on them. A Redis server that loses its data is not modelled, nor is
  a machine that stops before an unsynced database is on disk.
* A client that opens a second store while the first one is in use.
* `mock.go` is generated; `kvtests` and `util/test.go` are test code.

## Plan

Done: the locker; the transactions of the three stores with nested calls, panics and the use of a
nil client; keys and shelves with their boundary cases; opening, errors, options and sessions; and
proofs of all the safety properties the passing runs check. Next:

1. `Shelf` with names that are prefixes of one another and with writes by the callback.
2. What the Redis lock guarantees when only some writers pass `WithWriteLock`.
