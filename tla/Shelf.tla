------------------------------- MODULE Shelf -------------------------------
(***************************************************************************)
(* Range, Iterate and Empty of the three shelves: bboltShelf               *)
(* (src/bbolt/bbolt.go), badgerShelf (src/badger/badger.go) and the shelf  *)
(* of src/redis7/redis.go.                                                 *)
(*                                                                         *)
(* One call is made on the shelf This of a database that also holds the    *)
(* shelf Other.  bbolt has a bucket per shelf; Badger has one ordered set  *)
(* of keys, each the shelf's name followed by the key's bytes; Redis has   *)
(* one set of keys, name "." string, here the pair of the two.  The cursor *)
(* of bbolt and of Badger walks over the transaction's snapshot.  Redis    *)
(* has no snapshot: while its shelf is read page by page, other clients    *)
(* put and delete keys.                                                    *)
(*                                                                         *)
(* Values are left out: a callback gets the key and the value found with   *)
(* it.  MaxWrites bounds the concurrent writes of other clients, Followed  *)
(* how far Redis' Range counts past the end of its range.                  *)
(***************************************************************************)
EXTENDS Keys, FiniteSets

CONSTANTS This, Other,  \* names of shelves, sequences of bytes
          Number,       \* numbers whose keys are used on the shelf This; a
                        \* BytesKey has Width bytes and no leading zero
          OtherNumber,  \* and on the shelf Other
          PageSize,     \* resultCount of src/redis7/redis.go
          MaxWrites

\* The numbers used as keys are below Limit, and so are the bounds of a Range.
ASSUME ShelfAssumption ==
    /\ Number \subseteq 0..(Limit - 2) /\ OtherNumber \subseteq 0..(Limit - 1)
    /\ PageSize \in Nat /\ MaxWrites \in Nat

\* The names of two shelves do not start with one another.
ASSUME NameAssumption ==
    /\ This \in Seq(Nat) /\ Other \in Seq(Nat)
    /\ ~IsPrefix(This, Other) /\ ~IsPrefix(Other, This)

\* Names are text: bytes, of which the first is not zero.  (Next of a BytesKey,
\* which Badger's Range takes of name and key together, would lose the zero.)
ASSUME TextAssumption == This \in Seq(0..(Base - 1)) /\ This[1] # 0

VARIABLES
    kind,     \* the key type used on both shelves
    db,       \* the entries <<shelf, key>> in the database
    call,     \* the call: its store, op, and from, to and stopAtNil of a Range
    pc,       \* "idle", "run", "visit" (in visitKeys), or the outcome
    ctx,      \* the transaction's context, "live" or "done"
    todo,     \* bbolt, Badger: the set of keys from the cursor on, as stored
    prevKey,  \* bbolt, Badger: prevKey of Range
    curr,     \* Redis: curr of Range
    page,     \* Redis: the strings in keys
    values,   \* Redis: for the strings of the page, whether MGET gave a value
    rest,     \* Redis: the entries SCAN has yet to examine
    seen,     \* the keys the callback was invoked with
    always,   \* history: entries present since the call began
    ever,     \* history: entries present at some time since the call began
    writes    \* number of concurrent writes

callVars == <<kind, call>>
cursorVars == <<todo, prevKey>>
redisVars == <<curr, page, values, rest>>
dbVars == <<db, always, ever, writes>>
vars == <<kind, db, call, pc, ctx, todo, prevKey, curr, page, values, rest,
          seen, always, ever, writes>>

\* "nil": no error; "ctx": the context's error; "cb": the callback's error;
\* "err": another error; "panic"; "true", "false": what Empty returned.
Outcome == {"nil", "ctx", "cb", "err", "panic", "true", "false"}

KeyOf(kd, n) == IF kd = "uint32" THEN n ELSE Digits(n, Base, Width)

Numbers(kd) == {n \in Number : kd = "bytes" => n * Base >= Limit}

Entry(kd) == {<<This, KeyOf(kd, n)>> : n \in Numbers(kd)}
        \cup {<<Other, KeyOf(kd, n)>> : n \in OtherNumber}

KeysOf(entries) == {e[2] : e \in {x \in entries : x[1] = This}}

Bound == Numbers(kind) \cup {n + 1 : n \in Numbers(kind)}

NoCall == [store |-> "none", op |-> "none", from |-> Nil, to |-> Nil,
           stopAtNil |-> FALSE]

TypeOK ==
    /\ kind \in Kind
    /\ db \subseteq Entry(kind)
    /\ call.store \in {"none", "bbolt", "badger", "redis"}
    /\ call.op \in {"none", "range", "iterate", "empty"}
    /\ pc \in {"idle", "run", "visit"} \cup Outcome
    /\ ctx \in {"live", "done"}
    /\ rest \subseteq always /\ always \subseteq db /\ db \subseteq ever
    /\ Len(page) <= PageSize + 1 /\ Len(values) \in {0, Len(page)}
    /\ writes \in 0..MaxWrites

Init ==
    /\ kind \in Kind
    /\ db \in SUBSET Entry(kind)
    /\ call = NoCall
    /\ pc = "idle"
    /\ ctx = "live"
    /\ todo = {} /\ prevKey = Nil
    /\ curr = Nil /\ page = <<>> /\ values = <<>> /\ rest = {}
    /\ seen = <<>>
    /\ always = db /\ ever = db
    /\ writes = 0

-----------------------------------------------------------------------------
(* Making the call. *)

\* The keys of a store as its cursor sees them.
Stored(store) ==
    IF store = "bbolt" THEN {Bytes(kind, k) : k \in KeysOf(db)}
    ELSE {e[1] \o Bytes(kind, e[2]) : e \in db}

\* Seek: the keys that are not before bs.
Seek(store, bs) == {k \in Stored(store) : ~Before(k, bs)}

\* The cursor is at the first of its keys.
Current == CHOOSE k \in todo : \A m \in todo \ {k} : Before(k, m)

\* bbolt looks in the bucket, Badger under the name as a prefix.
Located(store, bs) == IF store = "bbolt" THEN bs ELSE This \o bs

Start(store, op, from, to, stopAtNil) ==
    /\ pc = "idle"
    /\ call' = [store |-> store, op |-> op, from |-> from, to |-> to,
                stopAtNil |-> stopAtNil]
    /\ pc' = "run"
    /\ IF store = "redis"
       THEN /\ curr' = from
            /\ rest' = IF op = "range" THEN {} ELSE db
            /\ UNCHANGED todo
       ELSE /\ todo' = Seek(store, Located(store, IF from = Nil THEN <<>>
                                                  ELSE Bytes(kind, from)))
            /\ UNCHANGED <<curr, rest>>
    /\ UNCHANGED <<kind, dbVars, ctx, prevKey, page, values, seen>>

\* No store looks whether from comes before to.
RangeCall(store) ==
    \E from, to \in Bound, stopAtNil \in BOOLEAN :
        Start(store, "range", KeyOf(kind, from), KeyOf(kind, to), stopAtNil)

IterateCall(store) == Start(store, "iterate", Nil, Nil, FALSE)
EmptyCall(store) == Start(store, "empty", Nil, Nil, FALSE)

Running(store, op) == pc = "run" /\ call.store = store /\ call.op = op

\* The call returns.
Return(outcome) ==
    /\ pc' = outcome
    /\ UNCHANGED <<callVars, dbVars, ctx, cursorVars, redisVars, seen>>

-----------------------------------------------------------------------------
(* The loops of bbolt and Badger: one turn per step. *)

PrevKey_Unset(key) == prevKey
PrevKey(key) == key     \* prevKey = key

\* The callback is invoked with key, and may return an error.
Deliver(key, curKey) ==
    /\ seen' = Append(seen, key)
    /\ prevKey' = PrevKey(curKey)
    /\ todo' = todo \ {Current}
    /\ pc' \in {"run", "cb"}
    /\ UNCHANGED <<callVars, dbVars, ctx, redisVars>>

\* A turn with the key parsed as key (Nil if it cannot be parsed), and with
\* curKey as the key that the search for gaps goes by.
Turn(key, curKey) ==
    LET gapSearch == call.stopAtNil /\ prevKey # Nil
        expected == NextKey(kind, prevKey)
    IN  \/ /\ gapSearch /\ expected = Nil
           /\ Return("panic")
        \/ /\ gapSearch /\ expected # Nil /\ expected # curKey
           /\ Return("nil")
        \/ /\ gapSearch => expected # Nil /\ expected = curKey
           /\ IF key = Nil THEN Return("err") ELSE Deliver(key, curKey)

\* bbolt parses the key first and checks the context inside the loop.
BBoltLoop(inside) ==
    \/ ~inside /\ Return("nil")
    \/ inside /\ ctx = "done" /\ Return("ctx")
    \/ /\ inside /\ ctx = "live"
       /\ LET key == FromBytes(kind, Current)
          IN  IF key = Nil THEN Return("err") ELSE Turn(key, key)

BBoltRange ==
    /\ Running("bbolt", "range")
    /\ BBoltLoop(todo # {} /\ Before(Current, Bytes(kind, call.to)))

BBoltIterate ==
    /\ Running("bbolt", "iterate")
    /\ BBoltLoop(todo # {})

BBoltEmpty ==
    /\ Running("bbolt", "empty")
    /\ Return(IF todo = {} THEN "true" ELSE "false")

ValidForPrefix == todo # {} /\ IsPrefix(This, Current)

\* The context is part of the loop's condition and checked again after it.
\* Range takes the whole stored key for the search for gaps.
BadgerLoop(inside) ==
    \/ ~inside /\ Return(IF ctx = "done" THEN "ctx" ELSE "nil")
    \/ inside /\ ctx = "done" /\ Return("ctx")
    \/ /\ inside /\ ctx = "live"
       /\ Turn(FromBytes(kind, SubSeq(Current, Len(This) + 1, Len(Current))),
               FromBytes(kind, Current))

BadgerRange ==
    /\ Running("badger", "range")
    /\ BadgerLoop(/\ ValidForPrefix
                  /\ Before(Current, This \o Bytes(kind, call.to)))

BadgerIterate ==
    /\ Running("badger", "iterate")
    /\ BadgerLoop(ValidForPrefix)

BadgerEmpty_AnyShelf ==
    /\ Running("badger", "empty")
    /\ Return(IF todo # {} THEN "false" ELSE "true")

BadgerEmpty ==
    /\ Running("badger", "empty")
    /\ Return(IF ValidForPrefix THEN "false" ELSE "true")

-----------------------------------------------------------------------------
(* Redis: keys are guessed with Next or found with SCAN, values come by MGET. *)

RedisKey(k) == String(kind, k)
FromRedisKey(ds) == FromString(kind, ds)
Exists(ds) == \E k \in KeysOf(db) : RedisKey(k) = ds

(***************************************************************************)
(* The bound on counting, which only a Range that has passed to reaches:   *)
(* Uint32Keys are followed once around, HashKeys and BytesKeys up to the   *)
(* largest key of Width bytes.  (A BytesKey would grow without end from    *)
(* there, a HashKey would go back to 1 0 ... 0.)                           *)
(***************************************************************************)
Followed == IF kind = "uint32" THEN Uint32Next(curr) # call.from
            ELSE ValueOf(curr, Base) < Limit - 1

\* The key that Next returns is dropped.
Advance_DropsNext ==
    /\ pc' = IF NextKey(kind, curr) = Nil THEN "panic" ELSE "run"
    /\ UNCHANGED curr

\* curr = curr.Next()
Advance ==
    LET next == NextKey(kind, curr)
    IN  IF next = Nil THEN pc' = "panic" /\ UNCHANGED curr
        ELSE pc' = "run" /\ curr' = next

(***************************************************************************)
(* visitKeys, first part: MGET (external) of the strings ds in one         *)
(* request.  Without keys it is an error, and with an ended context too.   *)
(***************************************************************************)
MGet(ds) ==
    IF ctx = "done" \/ ds = <<>>
    THEN /\ pc' = IF ctx = "done" THEN "ctx" ELSE "err"
         /\ UNCHANGED <<page, values>>
    ELSE /\ pc' = "visit"
         /\ page' = ds
         /\ values' = [i \in DOMAIN ds |-> Exists(ds[i])]

RedisCollect_AllKeys ==
    /\ Running("redis", "range")
    /\ curr # call.to /\ Followed /\ ctx = "live"
    /\ page' = Append(page, RedisKey(curr))
    /\ Advance
    /\ UNCHANGED <<callVars, dbVars, ctx, cursorVars, values, rest, seen>>

\* A turn of Range's loop that only collects a key, and curr.Next().
RedisCollect ==
    /\ Running("redis", "range")
    /\ curr # call.to /\ Followed /\ ctx = "live" /\ Len(page) < PageSize
    /\ page' = Append(page, RedisKey(curr))
    /\ Advance
    /\ UNCHANGED <<callVars, dbVars, ctx, cursorVars, values, rest, seen>>

\* A turn that also gets the page: numKeys, which is the number of keys
\* collected before this one, has reached resultCount.
RedisFullPage ==
    /\ Running("redis", "range")
    /\ curr # call.to /\ Followed /\ ctx = "live" /\ Len(page) = PageSize
    /\ MGet(Append(page, RedisKey(curr)))
    /\ UNCHANGED <<callVars, dbVars, ctx, cursorVars, curr, rest, seen>>

\* The context is checked at the start of every turn.
RedisCancelled ==
    /\ Running("redis", "range")
    /\ curr # call.to /\ ctx = "done"
    /\ Return("ctx")

\* After the loop: the last page, which may have no keys.
RedisLastPage ==
    /\ Running("redis", "range")
    /\ curr = call.to
    /\ MGet(page)
    /\ UNCHANGED <<callVars, dbVars, ctx, cursorVars, curr, rest, seen>>

(***************************************************************************)
(* SCAN (external) examines part of the database and gives the keys of     *)
(* This it met there: at most PageSize entries at a time, old ones first   *)
(* or again.  The cursor it returns is 0, here rest = {}, only when every  *)
(* entry present all along was examined.                                   *)
(***************************************************************************)
Scan(examined) ==
    /\ examined \subseteq db /\ Cardinality(examined) <= PageSize
    /\ rest = {} \/ examined \cap rest # {}
    /\ rest' = rest \ examined

IterateDone_NoKeys(keys, left) == keys = <<>>

\* Nothing to visit, and SCAN's cursor is 0.
IterateDone(keys, left) == keys = <<>> /\ left = {}

\* Iterate asks for the next page of keys.
RedisScan ==
    /\ Running("redis", "iterate") /\ page = <<>>
    /\ \/ ctx = "done" /\ Return("ctx")
       \/ /\ ctx = "live"
          /\ \E examined \in SUBSET db :
                /\ Scan(examined)
                /\ page' = SetToSeq({RedisKey(k) : k \in KeysOf(examined)})
          /\ pc' = IF IterateDone(page', rest') THEN "nil" ELSE "run"
          /\ UNCHANGED <<callVars, dbVars, ctx, cursorVars, curr, values, seen>>

\* Iterate gets the values of the keys that SCAN gave it.
RedisScanned ==
    /\ Running("redis", "iterate") /\ page # <<>>
    /\ MGet(page)
    /\ UNCHANGED <<callVars, dbVars, ctx, cursorVars, curr, rest, seen>>

NextValue == page' = Tail(page) /\ values' = Tail(values)

(***************************************************************************)
(* visitKeys, second part, one turn of its loop: a key without value ends  *)
(* the call if stopAtNil is set and is passed over otherwise; a key that   *)
(* cannot be parsed is an error; for any other there is a callback, which  *)
(* may return an error.                                                    *)
(***************************************************************************)
VisitKey ==
    /\ pc = "visit" /\ page # <<>>
    /\ \/ ~Head(values) /\ call.stopAtNil /\ Return("nil")
       \/ /\ ~Head(values) /\ ~call.stopAtNil
          /\ NextValue
          /\ UNCHANGED <<callVars, dbVars, ctx, cursorVars, pc, curr, rest, seen>>
       \/ /\ Head(values) /\ FromRedisKey(Head(page)) = Nil
          /\ Return("err")
       \/ /\ Head(values) /\ FromRedisKey(Head(page)) # Nil
          /\ seen' = Append(seen, FromRedisKey(Head(page)))
          /\ pc' \in {"visit", "cb"}
          /\ NextValue
          /\ UNCHANGED <<callVars, dbVars, ctx, cursorVars, curr, rest>>

VisitDone_SkipsKey ==
    /\ pc = "visit" /\ page = <<>>
    /\ IF call.op = "range" /\ curr # call.to
       THEN \E next \in {NextKey(kind, curr)} : pc' = "run" /\ curr' = NextKey(kind, next)
       ELSE pc' = (IF rest = {} THEN "nil" ELSE "run") /\ UNCHANGED curr
    /\ UNCHANGED <<callVars, dbVars, ctx, cursorVars, page, values, rest, seen>>

VisitDone_NoNext ==
    /\ pc = "visit" /\ page = <<>>
    /\ pc' = IF curr = call.to /\ rest = {} THEN "nil" ELSE "run"
    /\ UNCHANGED <<callVars, dbVars, ctx, cursorVars, redisVars, seen>>

\* visitKeys returns: Range goes on with curr.Next() or was at its last
\* page, Iterate looks at SCAN's cursor.
VisitDone ==
    /\ pc = "visit" /\ page = <<>>
    /\ IF call.op = "range" /\ curr # call.to THEN Advance
       ELSE pc' = (IF rest = {} THEN "nil" ELSE "run") /\ UNCHANGED curr
    /\ UNCHANGED <<callVars, dbVars, ctx, cursorVars, page, values, rest, seen>>

\* Empty looks at what the first SCAN gives and not at its cursor.
RedisEmpty ==
    /\ Running("redis", "empty")
    /\ \/ ctx = "done" /\ Return("ctx")
       \/ /\ ctx = "live"
          /\ \E examined \in SUBSET db :
                /\ Scan(examined)
                /\ pc' = IF KeysOf(examined) = {} THEN "true" ELSE "false"
          /\ UNCHANGED <<callVars, dbVars, ctx, cursorVars, curr, page, values, seen>>

-----------------------------------------------------------------------------
(* What happens around the call. *)

CtxDone ==
    /\ pc \in {"run", "visit"} /\ ctx = "live"
    /\ ctx' = "done"
    /\ UNCHANGED <<callVars, dbVars, pc, cursorVars, redisVars, seen>>

Write(newDb) ==
    /\ pc \in {"run", "visit"} /\ call.store = "redis"
    /\ writes < MaxWrites
    /\ writes' = writes + 1
    /\ db' = newDb
    /\ always' = always \cap newDb /\ ever' = ever \cup newDb
    /\ rest' = rest \cap newDb
    /\ UNCHANGED <<callVars, pc, ctx, cursorVars, curr, page, values, seen>>

\* Another client's Put and Delete, on either shelf of the Redis database.
Put == \E e \in Entry(kind) \ db : Write(db \cup {e})
Delete == \E e \in db : Write(db \ {e})

Step ==
    \/ BBoltRange \/ BBoltIterate \/ BBoltEmpty
    \/ BadgerRange \/ BadgerIterate \/ BadgerEmpty
    \/ RedisCollect \/ RedisFullPage \/ RedisCancelled \/ RedisLastPage
    \/ RedisScan \/ RedisScanned \/ VisitKey \/ VisitDone \/ RedisEmpty

Next ==
    \/ \E store \in {"bbolt", "badger", "redis"} :
          RangeCall(store) \/ IterateCall(store) \/ EmptyCall(store)
    \/ Step
    \/ CtxDone \/ Put \/ Delete

Spec == Init /\ [][Next]_vars

\* The goroutine that made the call keeps running.
FairSpec == Spec /\ WF_vars(Step)

-----------------------------------------------------------------------------
(* Properties. *)

InRange(k) == /\ ~Before(Bytes(kind, k), Bytes(kind, call.from))
              /\ Before(Bytes(kind, k), Bytes(kind, call.to))

(***************************************************************************)
(* The bounds of a Range of Redis are swapped.  bbolt and Badger then call *)
(* back with nothing; Redis goes on past to and calls back with keys that  *)
(* are not in the range, so what Range promises is stated of other calls.  *)
(***************************************************************************)
Backwards == /\ call.op = "range" /\ call.store = "redis"
             /\ Before(Bytes(kind, call.to), Bytes(kind, call.from))

(***************************************************************************)
(* Range calls back in ascending order and with no key twice, also across  *)
(* pages and when it ends early (src/store.go: "Ordering is guaranteed");  *)
(* and without stopAtNil, if it returns nil, it has called back with every *)
(* key from (inclusive) to (exclusive) that was there all along and with   *)
(* none that was never there, whatever the paging of Redis and the writes  *)
(* between its pages; src/store.go, Reader.Range.  (Except Redis with to   *)
(* before from.)                                                           *)
(***************************************************************************)
RangeExact ==
    call.op = "range" /\ ~Backwards =>
        /\ \A i \in 1..(Len(seen) - 1) :
              Before(Bytes(kind, seen[i]), Bytes(kind, seen[i + 1]))
        /\ pc = "nil" /\ ~call.stopAtNil =>
              /\ {k \in KeysOf(always) : InRange(k)} \subseteq ToSet(seen)
              /\ ToSet(seen) \subseteq {k \in KeysOf(ever) : InRange(k)}

\* Badger compares stored keys, which only a BytesKey can be parsed from.
FindsGaps == call.store # "badger" \/ kind = "bytes"

NumberOf(k) == ValueOf(Bytes(kind, k), Base)

(***************************************************************************)
(* Range with stopAtNil calls back with consecutive keys only, and if it   *)
(* returns nil then the key after the last one is the end of the range or  *)
(* was missing at some time: it stops at a gap and nowhere else.  Redis    *)
(* starts at from (and to is not before it); bbolt and Badger start at the *)
(* first key that is there, and Badger finds gaps between BytesKeys only.  *)
(***************************************************************************)
StopsAtGap ==
    call.op = "range" /\ ~Backwards /\ call.stopAtNil /\ FindsGaps =>
        /\ \A i \in 1..(Len(seen) - 1) :
              NumberOf(seen[i + 1]) = NumberOf(seen[i]) + 1
        /\ call.store = "redis" /\ seen # <<>> => seen[1] = call.from
        /\ pc = "nil" =>
              IF seen = <<>>
              THEN \/ {k \in KeysOf(always) : InRange(k)} = {}
                   \/ call.store = "redis" /\ call.from \notin KeysOf(always)
              ELSE ~\E k \in KeysOf(always) :
                       InRange(k) /\ NumberOf(k) = NumberOf(Last(seen)) + 1

(***************************************************************************)
(* An Iterate that returns nil has called back with every key of the shelf *)
(* that was there all along, and with no key of another shelf, although    *)
(* Badger and Redis keep all shelves together and Redis reads SCAN's pages *)
(* after the entries in them may have been deleted.                        *)
(***************************************************************************)
IterateComplete ==
    call.op = "iterate" =>
        /\ ToSet(seen) \subseteq KeysOf(ever)
        /\ pc = "nil" => KeysOf(always) \subseteq ToSet(seen)

(***************************************************************************)
(* Empty says true only of a shelf that had no key all along, and false    *)
(* only of one that had a key at some time, whatever other shelves hold;   *)
(* src/store.go: "Empty returns true if the shelf contains no data".  Of   *)
(* Redis the former holds only when the one SCAN that Empty sends reaches  *)
(* the end of the database, which Empty does not look at.                  *)
(***************************************************************************)
EmptyIsEmpty ==
    /\ pc = "true" /\ rest = {} => KeysOf(always) = {}
    /\ pc = "false" => KeysOf(ever) # {}

(***************************************************************************)
(* With a live context and a callback that does not fail, a call fails at  *)
(* three edges only: Redis' Range when its last page has no keys, Redis'   *)
(* Range or Iterate when the shelf has a Uint32Key that does not survive   *)
(* String and FromString, and (a panic) Range over HashKeys that start     *)
(* with a zero byte.  No store fails at the page boundary otherwise, at    *)
(* the carry of Next, or at a key deleted before its value is asked for.   *)
(* (Except Redis' Range with to before from.)                              *)
(***************************************************************************)
Visited(k) == call.op = "iterate" \/ InRange(k)
SignBit(k) == kind = "uint32" /\ 2 * k >= Limit
LeadingZero(k) == kind = "hash" /\ (NumberOf(k) + 1) * Base < Limit
WholePages == (NumberOf(call.to) - NumberOf(call.from)) % (PageSize + 1) = 0

FailsOnlyAtEdges ==
    /\ pc = "err" /\ ~Backwards =>
          /\ call.store = "redis"
          /\ \/ call.op = "range" /\ WholePages
             \/ \E k \in KeysOf(ever) : Visited(k) /\ SignBit(k)
    /\ pc = "panic" /\ ~Backwards =>
          /\ call.op = "range"
          /\ \/ call.store = "redis" /\ LeadingZero(call.from)
             \/ /\ call.store = "bbolt" /\ call.stopAtNil
                /\ \E k \in KeysOf(ever) : InRange(k) /\ LeadingZero(k)

(***************************************************************************)
(* A Range of Redis, which stops only where curr.Equals(to), never counts  *)
(* past to, at the end of a page, at a carry, or while others write; so    *)
(* the bound on counting holds it up nowhere.  (Except with to before      *)
(* from.)                                                                  *)
(***************************************************************************)
NeverPasses ==
    /\ call.op = "range" /\ call.store = "redis" /\ ~Backwards
    /\ pc \in {"run", "visit"}
    => /\ ~Before(Bytes(kind, call.to), Bytes(kind, curr))
       /\ curr # call.to => Followed

(***************************************************************************)
(* Every call ends: Redis' Range counts until it meets to, with to before  *)
(* from too when the keys are Uint32Keys, which wrap around; and Iterate   *)
(* reaches the end of SCAN.  Excepted is Redis with to before from and a   *)
(* HashKey or BytesKey, which may never meet to: that call is sure to end  *)
(* only by a gap, an error or the end of its context.                      *)
(***************************************************************************)
CallEnds == pc = "run" ~> pc \in Outcome \/ (Backwards /\ kind # "uint32")

=============================================================================
