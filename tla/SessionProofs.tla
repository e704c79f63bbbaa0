--------------------------- MODULE SessionProofs ---------------------------
(***************************************************************************)
(* Proofs about Session for any set of shelves, any lists of options and   *)
(* any number of openings and operations: what errors.Is finds in every    *)
(* error, what Write and Get say about the contents, and that an open      *)
(* store is connected.                                                     *)
(*                                                                         *)
(* IndInv has two parts.  OpenInv is about the store: how far Create...    *)
(* Store is with which kind of store, and that calls are made on an opened *)
(* store only.  TxInv is about the transaction: the image it works on      *)
(* against the contents it began on and what it acknowledged, and where    *)
(* the errors of its last operation, its callback and its result come      *)
(* from.  HookInv adds the types of the other variables and the functions  *)
(* of the options; what the loop of Invoke calls is shown by induction     *)
(* over the list of options.                                               *)
(***************************************************************************)
EXTENDS Session, Induction, SequenceTheorems, TLAPS

-----------------------------------------------------------------------------
(* Errors: the marks errors.Is finds. *)

Mark == Foreign \cup {"ErrDatabase", "key not found", "wrapped", "fmt", "app"}
Error == Seq(Mark)

LEMMA MarksConcat ==
    ASSUME NEW a \in Error, NEW b \in Error
    PROVE  a \o b \in Error /\ Marks(a \o b) = Marks(a) \cup Marks(b)
<1>1. /\ a \o b \in Error
      /\ Len(a \o b) = Len(a) + Len(b)
      /\ \A i \in 1..Len(a) : (a \o b)[i] = a[i]
      /\ \A i \in 1..Len(b) : (a \o b)[Len(a) + i] = b[i]
  BY ConcatProperties DEF Error
<1>2. Len(a) \in Nat /\ Len(b) \in Nat
  BY DEF Error
<1>3. /\ DOMAIN a = 1..Len(a) /\ DOMAIN b = 1..Len(b)
      /\ DOMAIN (a \o b) = 1..(Len(a) + Len(b))
  BY <1>1 DEF Error
<1>4. Marks(a \o b) \subseteq Marks(a) \cup Marks(b)
  <2> SUFFICES ASSUME NEW i \in 1..(Len(a) + Len(b))
               PROVE  (a \o b)[i] \in Marks(a) \cup Marks(b)
    BY <1>3 DEF Marks
  <2>1. CASE i \in 1..Len(a)
    BY <1>1, <1>3, <2>1 DEF Marks
  <2>2. CASE i \notin 1..Len(a)
    <3>1. i - Len(a) \in 1..Len(b) /\ Len(a) + (i - Len(a)) = i
      BY <1>2, <2>2
    <3> QED  BY <1>1, <1>3, <3>1 DEF Marks
  <2> QED  BY <2>1, <2>2
<1>5. Marks(a) \subseteq Marks(a \o b)
  <2> SUFFICES ASSUME NEW i \in 1..Len(a)  PROVE a[i] \in Marks(a \o b)
    BY <1>3 DEF Marks
  <2>1. i \in DOMAIN (a \o b)
    BY <1>2, <1>3
  <2> QED  BY <1>1, <2>1 DEF Marks
<1>6. Marks(b) \subseteq Marks(a \o b)
  <2> SUFFICES ASSUME NEW i \in 1..Len(b)  PROVE b[i] \in Marks(a \o b)
    BY <1>3 DEF Marks
  <2>1. Len(a) + i \in DOMAIN (a \o b)
    BY <1>2, <1>3
  <2> QED  BY <1>1, <2>1 DEF Marks
<1> QED  BY <1>1, <1>4, <1>5, <1>6

LEMMA FirstOfConcat ==
    ASSUME NEW a \in Error, NEW b \in Error, Len(a) = 1
    PROVE  (a \o b)[1] = a[1]
<1>1. Len(b) \in Nat /\ 1 \in 1..(Len(a) + Len(b))
  BY DEF Error
<1> QED  BY <1>1, ConcatProperties DEF Error

LEMMA MarksOne ==
    ASSUME NEW s \in Mark
    PROVE  <<s>> \in Error /\ Marks(<<s>>) = {s} /\ <<s>>[1] = s
<1>1. <<s>> \in Error /\ <<s>>[1] = s
  BY DEF Error
<1>2. DOMAIN <<s>> = {1}
  OBVIOUS
<1> QED  BY <1>1, <1>2 DEF Marks

LEMMA MarksNil == Nil \in Error /\ Marks(Nil) = {}
BY DEF Error, Marks, Nil

\* DatabaseError marks an error as the database's and hides nothing.
LEMMA DatabaseErrorMarks ==
    ASSUME NEW e \in Error
    PROVE  /\ DatabaseError(e) \in Error
           /\ Marks(DatabaseError(e)) = Marks(e) \cup {"ErrDatabase"}
<1>1. /\ <<"ErrDatabase">> \in Error
      /\ Marks(<<"ErrDatabase">>) = {"ErrDatabase"}
      /\ <<"ErrDatabase">>[1] = "ErrDatabase"
  BY MarksOne DEF Mark
<1>2. CASE "ErrDatabase" \in Marks(e)
  BY <1>1, <1>2 DEF DatabaseError, Is
<1>3. CASE "ErrDatabase" \notin Marks(e)
  <2>1. DatabaseError(e) = <<"ErrDatabase">> \o e
    BY <1>1, <1>3 DEF DatabaseError, Is
  <2> QED  BY <1>1, <2>1, MarksConcat
<1> QED  BY <1>2, <1>3

LEMMA WrapErrorMarks ==
    ASSUME NEW err \in Error, NEW cause \in Error
    PROVE  /\ WrapError(err, cause) \in Error
           /\ Marks(WrapError(err, cause)) = Marks(err) \cup Marks(cause) \cup {"wrapped"}
<1>1. <<"wrapped">> \in Error /\ Marks(<<"wrapped">>) = {"wrapped"}
  BY MarksOne DEF Mark
<1>2. /\ <<"wrapped">> \o err \in Error
      /\ Marks(<<"wrapped">> \o err) = {"wrapped"} \cup Marks(err)
  BY <1>1, MarksConcat
<1>3. /\ (<<"wrapped">> \o err) \o cause \in Error
      /\ Marks((<<"wrapped">> \o err) \o cause)
           = ({"wrapped"} \cup Marks(err)) \cup Marks(cause)
  BY <1>2, MarksConcat
<1> QED  BY <1>3 DEF WrapError

LEMMA ErrorfMarks ==
    ASSUME NEW e \in Error
    PROVE  Errorf(e) \in Error /\ Marks(Errorf(e)) = Marks(e) \cup {"fmt"}
<1>1. <<"fmt">> \in Error /\ Marks(<<"fmt">>) = {"fmt"}
  BY MarksOne DEF Mark
<1> QED  BY <1>1, MarksConcat DEF Errorf

\* The errors everything else is made of.
LEMMA MarksOfErrors ==
    /\ DbErr \in Error /\ Marks(DbErr) = {"db"}
    /\ CtxErr \in Error /\ Marks(CtxErr) = {"context"}
    /\ Closed \in Error /\ Marks(Closed) = {"closed"}
    /\ FileLocked \in Error /\ Marks(FileLocked) = {"locked"}
    /\ AppErr \in Error /\ Marks(AppErr) = {"app"}
    /\ ErrKeyNotFound \in Error /\ Marks(ErrKeyNotFound) = {"key not found"}
    /\ ErrStoreIsClosed \in Error
    /\ Marks(ErrStoreIsClosed) = {"ErrDatabase", "database not open"}
    /\ ErrCommitFailed \in Error
    /\ Marks(ErrCommitFailed) = {"ErrDatabase", "unable to commit transaction"}
<1>1. /\ <<"database not open">> \in Error
      /\ Marks(<<"database not open">>) = {"database not open"}
  BY MarksOne DEF Mark, Foreign
<1>2. /\ <<"unable to commit transaction">> \in Error
      /\ Marks(<<"unable to commit transaction">>) = {"unable to commit transaction"}
  BY MarksOne DEF Mark, Foreign
<1>3. /\ ErrStoreIsClosed \in Error
      /\ Marks(ErrStoreIsClosed) = {"ErrDatabase", "database not open"}
  BY <1>1, DatabaseErrorMarks DEF ErrStoreIsClosed
<1>4. /\ ErrCommitFailed \in Error
      /\ Marks(ErrCommitFailed) = {"ErrDatabase", "unable to commit transaction"}
  BY <1>2, DatabaseErrorMarks DEF ErrCommitFailed
<1>5. /\ DbErr \in Error /\ Marks(DbErr) = {"db"}
      /\ CtxErr \in Error /\ Marks(CtxErr) = {"context"}
      /\ Closed \in Error /\ Marks(Closed) = {"closed"}
      /\ FileLocked \in Error /\ Marks(FileLocked) = {"locked"}
      /\ AppErr \in Error /\ Marks(AppErr) = {"app"}
      /\ ErrKeyNotFound \in Error /\ Marks(ErrKeyNotFound) = {"key not found"}
  BY MarksOne DEF Mark, Foreign, DbErr, CtxErr, Closed, FileLocked, AppErr, ErrKeyNotFound
<1> QED  BY <1>3, <1>4, <1>5

\* errors.Is, for the targets this repository asks for: ErrCommitFailed and
\* ErrStoreIsClosed are found in every ErrDatabase.
LEMMA IsFinds ==
    ASSUME NEW e
    PROVE  /\ Is(e, ErrDatabase) <=> "ErrDatabase" \in Marks(e)
           /\ Is(e, ErrCommitFailed) <=> "ErrDatabase" \in Marks(e)
           /\ Is(e, ErrKeyNotFound) <=> "key not found" \in Marks(e)
<1>1. ErrDatabase[1] = "ErrDatabase" /\ ErrKeyNotFound[1] = "key not found"
  BY MarksOne DEF Mark, ErrDatabase, ErrKeyNotFound
<1>2. ErrCommitFailed[1] = "ErrDatabase"
  <2> DEFINE c == <<"unable to commit transaction">>
             d == <<"ErrDatabase">>
  <2>0. "unable to commit transaction" \in Mark /\ "ErrDatabase" \in Mark
    BY DEF Mark, Foreign
  <2>1. c \in Error /\ Marks(c) = {"unable to commit transaction"}
    BY <2>0, MarksOne
  <2>2. d \in Error /\ d[1] = "ErrDatabase"
    BY <2>0, MarksOne
  <2>3. Len(d) = 1
    OBVIOUS
  <2>4. ErrCommitFailed = d \o c
    BY <2>1, <2>2 DEF ErrCommitFailed, DatabaseError, Is
  <2>5. (d \o c)[1] = d[1]
    <3> HIDE DEF c, d
    <3> QED  BY <2>1, <2>2, <2>3, FirstOfConcat
  <2> QED  BY <2>2, <2>4, <2>5
<1> QED  BY <1>1, <1>2 DEF Is

-----------------------------------------------------------------------------
(* The inductive invariant. *)

\* Marked as a fault of the database when, and only when, it is one.
WellMarked(e) ==
    e \in Error /\ ("ErrDatabase" \in Marks(e) <=> Marks(e) \cap Foreign # {})

\* What the database says, as it says it.
Raw == {DbErr, Closed, CtxErr}

OpenTypes ==
    /\ kind \in {"bbolt", "badger", "redis"}
    /\ opc \in {"none", "mkdir", "open", "ping", "pinged", "opened", "failed"}
    /\ closer \in {"none", "late", "closed"}
    /\ kind = "redis" => holder = "nobody"

OpensOneKind ==
    /\ opc \in {"mkdir", "open"} => kind # "redis"
    /\ opc \in {"ping", "pinged"} => kind = "redis" /\ closer = "closed"
    /\ opc = "pinged" => openErr = DbErr \/ (openErr = Nil /\ connected)

CallsOnOpened ==
    /\ pc # "idle" => opc = "opened"
    /\ closer = "none" => opc = "opened"

OpenErrMarked == opc = "failed" => (Is(openErr, ErrDatabase) <=> kind # "badger")

CloseErrMarked ==
    /\ closeErr \notin {Nil, DbErr} => Is(closeErr, ErrDatabase)
    /\ closeErr = DbErr => kind = "badger"

OpenInv ==
    /\ OpenTypes /\ OpensOneKind /\ CallsOnOpened /\ OpenErrMarked
    /\ CloseErrMarked /\ OpenedIsConnected

Contents == [Name -> {"none", "empty", "full"}]

TxTypes ==
    /\ pc \in {"idle", "begin", "fn", "end", "returned"}
    /\ reader \in [Name -> {"none", "shelf", "NilReader"}]
    /\ writer \in [Name -> {"none", "shelf", "errWriter"}]
    /\ acked \in [Name -> {"none", "Put", "Delete"}]
    /\ data \in Contents /\ base \in Contents /\ work \in Contents

NothingDoneYet ==
    /\ pc \in {"idle", "begin"} => acked = None /\ last = NoOp
    /\ pc \in {"idle", "begin", "fn"} => app = Nil
    /\ pc # "fn" => reader = None /\ writer = None

\* The image of the transaction is what it began on and what it acknowledged.
Tracked(n) ==
    /\ acked[n] = "none" => (work[n] = "full" <=> base[n] = "full")
    /\ acked[n] = "Put" => work[n] = "full"
    /\ acked[n] = "Delete" => work[n] = "empty"

ImageTracks == pc \in {"fn", "end"} => data = base /\ \A n \in Name : Tracked(n)

NilReaderHonest == \A n \in Name : reader[n] = "NilReader" => base[n] # "full"

UnmarkedOp(op) ==
    \/ kind = "badger" /\ op \in {"Get", "Put", "Delete"}
    \/ kind = "redis" /\ op = "Empty"

LastErrMarked ==
    /\ WellMarked(last.err) \/ (UnmarkedOp(last.op) /\ last.err \in Raw)
    /\ last.op = "Get" => last.name \in Name

ResultMarked ==
    /\ app \in {Nil, AppErr, last.err}
    /\ pc = "returned" => /\ WellMarked(result) \/ (result = last.err /\ result \in Raw)
                          /\ app = AppErr => result = AppErr

TxInv ==
    /\ TxTypes /\ NothingDoneYet /\ ImageTracks /\ NilReaderHonest
    /\ LastErrMarked /\ ResultMarked
    /\ FailureExplained /\ WriteHonest /\ GetHonest

IndInv == OpenInv /\ TxInv

-----------------------------------------------------------------------------
(* What the invariant says of the errors the model names. *)

LEMMA PlainMarked ==
    /\ WellMarked(Nil) /\ WellMarked(AppErr) /\ WellMarked(ErrKeyNotFound)
    /\ WellMarked(ErrStoreIsClosed)
    /\ Nil \notin {AppErr, ErrKeyNotFound, ErrStoreIsClosed}
    /\ "key not found" \notin Marks(Nil) /\ "key not found" \in Marks(ErrKeyNotFound)
BY MarksNil, MarksOfErrors DEF WellMarked, Foreign

LEMMA RawErrors ==
    ASSUME NEW e \in Raw
    PROVE  /\ e \in Error /\ e # Nil
           /\ Marks(e) \in SUBSET {"db", "context", "closed"} /\ Marks(e) # {}
BY MarksNil, MarksOfErrors DEF Raw

LEMMA FaultMarked ==
    ASSUME NEW e \in Raw
    PROVE  /\ WellMarked(DatabaseError(e)) /\ WellMarked(Errorf(DatabaseError(e)))
           /\ Nil \notin {DatabaseError(e), Errorf(DatabaseError(e))}
           /\ DatabaseError(e) # DbErr
           /\ "ErrDatabase" \in Marks(DatabaseError(e)) \cap Marks(Errorf(DatabaseError(e)))
           /\ "key not found" \notin Marks(DatabaseError(e))
           /\ Marks(DatabaseError(e)) \cap {"db", "context", "closed"} # {}
<1>1. /\ e \in Error /\ e # Nil
      /\ Marks(e) \in SUBSET {"db", "context", "closed"} /\ Marks(e) # {}
  BY RawErrors
<1>2. /\ DatabaseError(e) \in Error
      /\ Marks(DatabaseError(e)) = Marks(e) \cup {"ErrDatabase"}
  BY <1>1, DatabaseErrorMarks
<1>3. /\ Errorf(DatabaseError(e)) \in Error
      /\ Marks(Errorf(DatabaseError(e))) = Marks(e) \cup {"ErrDatabase", "fmt"}
  BY <1>2, ErrorfMarks
<1>4. "ErrDatabase" \notin Marks(Nil) /\ "ErrDatabase" \notin Marks(DbErr)
  BY MarksNil, MarksOfErrors
<1> QED  BY <1>1, <1>2, <1>3, <1>4 DEF WellMarked, Foreign

LEMMA CommitFailureMarked ==
    ASSUME NEW e \in Raw
    PROVE  /\ WellMarked(WrapError(ErrCommitFailed, e))
           /\ WrapError(ErrCommitFailed, e) # Nil
           /\ SaysCommitFailed(WrapError(ErrCommitFailed, e))
           /\ Marks(WrapError(ErrCommitFailed, e)) \cap {"db", "context", "closed"} # {}
<1>1. /\ e \in Error
      /\ Marks(e) \in SUBSET {"db", "context", "closed"} /\ Marks(e) # {}
  BY RawErrors
<1>2. /\ WrapError(ErrCommitFailed, e) \in Error
      /\ Marks(WrapError(ErrCommitFailed, e))
           = Marks(ErrCommitFailed) \cup Marks(e) \cup {"wrapped"}
  BY <1>1, MarksOfErrors, WrapErrorMarks
<1>3. /\ "ErrDatabase" \in Marks(ErrCommitFailed) /\ "ErrDatabase" \notin Marks(Nil)
      /\ "unable to commit transaction" \in Marks(ErrCommitFailed)
  BY MarksNil, MarksOfErrors
<1> QED  BY <1>1, <1>2, <1>3 DEF WellMarked, Foreign, SaysCommitFailed

\* A method of a shelf marks every fault, but for the methods of UnmarkedOp.
LEMMA ErrsMarked ==
    ASSUME OpenTypes,
           NEW op \in {"Get", "Put", "Delete", "Empty", "Iterate"}, NEW n \in Name,
           NEW h \in {"shelf", "NilReader", "errWriter"}, NEW cb \in {Nil, AppErr},
           NEW err \in Errs(op, n, h, cb)
    PROVE  WellMarked(err) \/ (UnmarkedOp(op) /\ err \in Raw)
<1> USE PlainMarked, FaultMarked
<1>1. DbErr \in Raw /\ CtxErr \in Raw /\ Closed \in Raw
  BY DEF Raw
<1>2. Found(n) \in {Nil, ErrKeyNotFound} /\ RedisReply \subseteq {Nil} \cup Raw
      /\ checkOpen \in {Nil, ErrStoreIsClosed}
  BY DEF Found, RedisReply, Raw, checkOpen
<1>3. CASE h = "NilReader"
  BY <1>3 DEF Errs, NilReaderErr
<1>4. CASE h = "errWriter"
  BY <1>1, <1>4 DEF Errs, errWriterErr
<1>5. CASE h = "shelf" /\ kind = "bbolt"
  <2>1. err \in BBoltErrs(op, n, cb)
    BY <1>5 DEF Errs
  <2> QED  BY <1>1, <1>2, <2>1 DEF BBoltErrs, IterateStopped
<1>6. CASE h = "shelf" /\ kind = "badger"
  <2>1. err \in BadgerErrs(op, n, cb)
    BY <1>6 DEF Errs
  <2> QED  BY <1>1, <1>2, <1>6, <2>1 DEF BadgerErrs, IterateStopped, UnmarkedOp
<1>7. CASE h = "shelf" /\ kind = "redis"
  <2>1. err \in RedisErrs(op, n, cb)
    BY <1>7 DEF Errs
  <2>2. CASE op = "Get"
    BY <1>2, <2>1, <2>2 DEF RedisErrs, RedisGet
  <2>3. CASE op = "Put"
    BY <1>2, <2>1, <2>3 DEF RedisErrs
  <2>4. CASE op = "Delete"
    BY <1>2, <2>1, <2>4 DEF RedisErrs
  <2>5. CASE op = "Empty"
    BY <1>2, <1>7, <2>1, <2>5 DEF RedisErrs, UnmarkedOp
  <2>6. CASE op = "Iterate"
    BY <1>2, <2>1, <2>6 DEF RedisErrs
  <2> QED  BY <2>2, <2>3, <2>4, <2>5, <2>6
<1> QED  BY <1>3, <1>4, <1>5, <1>6, <1>7 DEF OpenTypes

\* Get, on a shelf the transaction has not written, tells what was there when
\* the transaction began.
LEMMA GetErrs ==
    ASSUME OpenTypes, TxTypes, ImageTracks, NilReaderHonest, pc = "fn",
           NEW n \in Name, NEW h \in {reader[n], writer[n]} \ {"none"},
           NEW err \in Errs("Get", n, h, Nil), acked[n] = "none"
    PROVE  /\ err = Nil => base[n] = "full"
           /\ "key not found" \in Marks(err) => base[n] # "full"
<1>1. View[n] = "full" <=> base[n] = "full"
  BY DEF ImageTracks, Tracked, View
<1>2. \A e \in Raw : /\ e # Nil /\ DatabaseError(e) # Nil
                     /\ "key not found" \notin Marks(e)
                     /\ "key not found" \notin Marks(DatabaseError(e))
  BY RawErrors, FaultMarked
<1>3. DbErr \in Raw /\ Closed \in Raw /\ RedisReply \subseteq {Nil} \cup Raw
  BY DEF Raw, RedisReply
<1>4. h \in {"shelf", "NilReader", "errWriter"} /\ (h = "NilReader" => base[n] # "full")
  BY DEF TxTypes, NilReaderHonest
<1>5. CASE h = "NilReader"
  BY <1>4, <1>5, PlainMarked DEF Errs, NilReaderErr
<1>6. CASE h = "errWriter"
  BY <1>2, <1>3, <1>6 DEF Errs, errWriterErr
<1>7. CASE h = "shelf" /\ kind = "bbolt"
  BY <1>1, <1>7, PlainMarked DEF Errs, BBoltErrs, Found
<1>8. CASE h = "shelf" /\ kind = "badger"
  BY <1>1, <1>2, <1>3, <1>8, PlainMarked DEF Errs, BadgerErrs, Found
<1>9. CASE h = "shelf" /\ kind = "redis"
  <2>1. PICK e \in RedisReply : err = RedisGet(n, e)
    BY <1>9 DEF Errs, RedisErrs
  <2> QED  BY <1>1, <1>2, <1>3, <2>1, PlainMarked DEF RedisGet, Found
<1> QED  BY <1>4, <1>5, <1>6, <1>7, <1>8, <1>9 DEF OpenTypes

\* Only a shelf acknowledges a Put or a Delete.
LEMMA ErrWriterRefuses ==
    ASSUME NEW op, NEW n, NEW err \in Errs(op, n, "errWriter", Nil)
    PROVE  err # Nil
<1>1. DbErr \in Raw
  BY DEF Raw
<1> QED  BY <1>1, FaultMarked DEF Errs, errWriterErr

LEMMA NoneAndFresh ==
    /\ None \in [Name -> {"none"}] /\ \A n \in Name : None[n] = "none"
    /\ Fresh \in Contents
BY DEF None, Fresh, Contents

-----------------------------------------------------------------------------
(* Steps that leave the store or the transaction alone. *)

LEMMA OpenFrame ==
    ASSUME OpenInv, UNCHANGED <<openVars, closer>>, closeErr' = Nil,
           pc' # "idle" => opc = "opened"
    PROVE  OpenInv'
<1>1. Nil # DbErr
  BY RawErrors DEF Raw
<1>2. OpenTypes' /\ OpensOneKind' /\ CallsOnOpened'
  BY DEF OpenInv, OpenTypes, OpensOneKind, CallsOnOpened, openVars
<1>3. OpenErrMarked' /\ OpenedIsConnected'
  BY DEF OpenInv, OpenErrMarked, OpenedIsConnected, InMemory, openVars
<1>4. CloseErrMarked'
  BY <1>1 DEF CloseErrMarked
<1> QED  BY <1>2, <1>3, <1>4 DEF OpenInv

LEMMA TxFrame ==
    ASSUME TxInv, UNCHANGED <<txVars, kind>>,
           data' = data \/ (pc = "idle" /\ data' \in Contents)
    PROVE  TxInv'
<1> USE DEF txVars, callVars, fnVars, endVars
<1>1. TxTypes' /\ NothingDoneYet' /\ NilReaderHonest'
  BY DEF TxInv, TxTypes, NothingDoneYet, NilReaderHonest
<1>2. ImageTracks'
  BY DEF TxInv, ImageTracks, Tracked
<1>3. LastErrMarked' /\ ResultMarked'
  BY DEF TxInv, LastErrMarked, ResultMarked, UnmarkedOp
<1>4. FailureExplained' /\ WriteHonest'
  BY DEF TxInv, FailureExplained, WriteHonest, Writable
<1>5. GetHonest'
  BY DEF TxInv, GetHonest
<1> QED  BY <1>1, <1>2, <1>3, <1>4, <1>5 DEF TxInv

-----------------------------------------------------------------------------
(* Opening and closing. *)

LEMMA OpenErrs ==
    /\ Nil \notin {DbErr, FileLocked}
    /\ ~Is(DbErr, ErrDatabase) /\ ~Is(FileLocked, ErrDatabase)
    /\ \A e \in {DatabaseError(DbErr), Errorf(DatabaseError(DbErr)), DatabaseError(CtxErr),
                 DatabaseError(DatabaseError(CtxErr))} :
          e # Nil /\ e # DbErr /\ Is(e, ErrDatabase)
<1>1. DbErr \in Raw /\ CtxErr \in Raw
  BY DEF Raw
<1>2. /\ "ErrDatabase" \notin Marks(Nil) /\ "ErrDatabase" \notin Marks(DbErr)
      /\ "ErrDatabase" \notin Marks(FileLocked) /\ Nil \notin {DbErr, FileLocked}
  BY MarksNil, MarksOfErrors
<1>3. DatabaseError(CtxErr) \in Error
  BY MarksOfErrors, DatabaseErrorMarks
<1>4. \A e \in {DatabaseError(DbErr), Errorf(DatabaseError(DbErr)), DatabaseError(CtxErr),
                DatabaseError(DatabaseError(CtxErr))} : "ErrDatabase" \in Marks(e)
  BY <1>1, <1>3, FaultMarked, DatabaseErrorMarks
<1> QED  BY <1>2, <1>4, IsFinds

LEMMA NoCloseErr == closeErr' = Nil => CloseErrMarked'
BY OpenErrs DEF CloseErrMarked

LEMMA OpenStoreStep ==
    ASSUME OpenInv, OpenStore, closeErr' = Nil  PROVE OpenInv' /\ kind' = kind
<1> USE DEF OpenInv, OpenStore, Create, txVars
<1>1. OpenTypes' /\ OpensOneKind' /\ CallsOnOpened'
  BY DEF OpenTypes, OpensOneKind, CallsOnOpened
<1>2. OpenErrMarked' /\ OpenedIsConnected'
  BY DEF OpenTypes, OpenErrMarked, OpenedIsConnected
<1> QED  BY <1>1, <1>2, NoCloseErr

\* Every step of Create...Store that is not its return, and every return.
LEMMA OpenGoesOn ==
    ASSUME OpenInv, closeErr' = Nil, Open(Mkdir) \/ Open(Ping)
    PROVE  OpenInv' /\ UNCHANGED <<kind, data>>
<1> USE DEF OpenInv, Open, Mkdir, Ping, PingErr, txVars, openVars
<1>1. opc' \in {"open", "ping", "pinged"} /\ closer # "none" /\ pc = "idle"
  BY DEF OpenTypes, OpensOneKind, CallsOnOpened
<1>2. OpenTypes' /\ OpensOneKind' /\ CallsOnOpened'
  BY <1>1 DEF OpenTypes, OpensOneKind, CallsOnOpened
<1>3. OpenErrMarked' /\ OpenedIsConnected'
  BY <1>1 DEF OpenErrMarked, OpenedIsConnected
<1> QED  BY <1>1, <1>2, <1>3, NoCloseErr

LEMMA OpenReturns ==
    ASSUME OpenInv, closeErr' = Nil,
           \/ Open(MkdirFails) \/ Open(BBoltOpen(Nil)) \/ Open(BBoltOpen(DbErr))
           \/ Open(BadgerOpen) \/ Open(Wrap)
    PROVE  OpenInv' /\ kind' = kind /\ pc = "idle" /\ data' \in {data, Fresh}
<1> USE DEF OpenInv, Open, MkdirFails, BBoltOpen, BadgerOpen, Wrap, CreateReturns, txVars
<1>1. /\ opc' \in {"opened", "failed"} /\ pc = "idle" /\ closer # "none"
      /\ UNCHANGED <<kind, cfg, pc>> /\ data' \in {data, Fresh}
  BY DEF OpensOneKind, CallsOnOpened
<1>2. OpenTypes' /\ OpensOneKind' /\ CallsOnOpened'
  BY <1>1 DEF OpenTypes, OpensOneKind, CallsOnOpened
<1>3. OpenErrMarked'
  BY <1>1, OpenErrs DEF OpenTypes, OpensOneKind, OpenErrMarked
<1>4. OpenedIsConnected'
  <2>1. CASE opc' = "failed"
    BY <1>1, <2>1 DEF OpenedIsConnected
  <2>2. CASE opc' = "opened"
    BY <1>1, <2>2, OpenErrs DEF OpenTypes, OpensOneKind, OpenedIsConnected, InMemory
  <2> QED  BY <1>1, <2>1, <2>2
<1> QED  BY <1>1, <1>2, <1>3, <1>4, NoCloseErr

LEMMA BesideStep ==
    ASSUME OpenInv, closeErr' = Nil,
           Beside(OtherProcess) \/ \E i \in 1..MaxOpens : Beside(WatcherReturns(i))
    PROVE  OpenInv' /\ UNCHANGED <<kind, data>>
<1> USE DEF OpenInv, Beside, OtherProcess, WatcherReturns, txVars
<1>1. OpenTypes' /\ OpensOneKind' /\ CallsOnOpened' /\ OpenErrMarked'
  BY DEF OpenTypes, OpensOneKind, CallsOnOpened, OpenErrMarked
<1>2. OpenedIsConnected'
  BY DEF OpenedIsConnected, InMemory
<1> QED  BY <1>1, <1>2, NoCloseErr

LEMMA DbClosedStep ==
    ASSUME OpenInv, DbClosed, pc' = pc, closer # "closed"
    PROVE  /\ OpenTypes' /\ OpensOneKind' /\ CallsOnOpened' /\ OpenErrMarked'
           /\ OpenedIsConnected' /\ kind' = kind
BY DEF OpenInv, DbClosed, OpenTypes, OpensOneKind, CallsOnOpened, OpenErrMarked,
       OpenedIsConnected

LEMMA CloseSteps ==
    ASSUME OpenInv,
           \/ Close \/ CloseTimesOut \/ CloseAgain \/ (LateClose /\ closeErr' = Nil)
    PROVE  OpenInv' /\ kind' = kind /\ UNCHANGED <<txVars, data>>
<1>1. CASE Close
  <2>1. pc' = pc /\ closer # "closed" /\ DbClosed
    BY <1>1 DEF Close, txVars
  <2>2. CloseErrMarked'
    BY <1>1, <2>1, OpenErrs DEF Close, DbClosed, CloseErrMarked, CloseError
  <2> QED  BY <1>1, <2>1, <2>2, DbClosedStep DEF OpenInv, Close
<1>2. CASE CloseTimesOut
  <2> USE DEF OpenInv, CloseTimesOut, openVars, txVars
  <2>1. OpenTypes' /\ OpensOneKind' /\ CallsOnOpened' /\ OpenErrMarked' /\ OpenedIsConnected'
    BY <1>2 DEF OpenTypes, OpensOneKind, CallsOnOpened, OpenErrMarked, OpenedIsConnected
  <2>2. CloseErrMarked'
    BY <1>2, OpenErrs DEF CloseErrMarked, CloseError
  <2> QED  BY <1>2, <2>1, <2>2
<1>3. CASE CloseAgain
  <2> USE DEF OpenInv, CloseAgain, openVars, txVars
  <2>1. OpenTypes' /\ OpensOneKind' /\ CallsOnOpened' /\ OpenErrMarked' /\ OpenedIsConnected'
    BY <1>3 DEF OpenTypes, OpensOneKind, CallsOnOpened, OpenErrMarked, OpenedIsConnected,
                InMemory
  <2>2. CloseErrMarked'
    BY <1>3, OpenErrs DEF CloseErrMarked
  <2> QED  BY <1>3, <2>1, <2>2
<1>4. CASE LateClose /\ closeErr' = Nil
  <2>1. pc' = pc /\ closer # "closed" /\ DbClosed
    BY <1>4 DEF LateClose, txVars
  <2> QED  BY <1>4, <2>1, DbClosedStep, NoCloseErr DEF OpenInv, LateClose
<1> QED  BY <1>1, <1>2, <1>3, <1>4

-----------------------------------------------------------------------------
(* The steps of a transaction. *)

LEMMA CallStep ==
    ASSUME TxInv, NEW e, NEW l, Call(e, l)  PROVE TxInv'
<1> USE DEF TxInv, Call, fnVars, endVars
<1>1. TxTypes' /\ NothingDoneYet' /\ ImageTracks' /\ NilReaderHonest'
  BY DEF TxTypes, NothingDoneYet, ImageTracks, NilReaderHonest
<1>2. LastErrMarked' /\ ResultMarked'
  BY DEF LastErrMarked, ResultMarked, UnmarkedOp, openVars
<1>3. FailureExplained' /\ WriteHonest' /\ GetHonest'
  BY DEF FailureExplained, WriteHonest, GetHonest
<1> QED  BY <1>1, <1>2, <1>3

LEMMA BeginStep ==
    ASSUME TxInv, OpenTypes, Begin  PROVE TxInv'
<1> USE DEF TxInv, Begin
<1>1. DbErr \in Raw /\ CtxErr \in Raw /\ RedisReply \subseteq {Nil} \cup Raw
  BY DEF Raw, RedisReply
<1>2. WellMarked(result')
  <2>1. CASE kind = "bbolt"
    BY <1>1, <2>1, PlainMarked, FaultMarked DEF BBoltBegin
  <2>2. CASE kind = "redis"
    BY <1>1, <2>2, PlainMarked, FaultMarked DEF RedisBegin, checkOpen
  <2>3. CASE kind = "badger"
    BY <2>3, PlainMarked
  <2> QED  BY <2>1, <2>2, <2>3 DEF OpenTypes
<1>3. acked = None /\ last = NoOp /\ app = Nil /\ reader = None /\ writer = None
  BY DEF NothingDoneYet
<1>4. TxTypes' /\ NothingDoneYet' /\ NilReaderHonest'
  BY <1>3, NoneAndFresh DEF TxTypes, NothingDoneYet, NilReaderHonest
<1>5. ImageTracks'
  BY <1>3, NoneAndFresh DEF ImageTracks, Tracked
<1>6. LastErrMarked'
  BY DEF LastErrMarked, UnmarkedOp, openVars
<1>7. ResultMarked'
  <2>1. (WellMarked(result))'
    BY <1>2 DEF WellMarked
  <2> QED  BY <1>3, <2>1, PlainMarked DEF ResultMarked
<1>8. FailureExplained' /\ WriteHonest'
  BY DEF FailureExplained, WriteHonest
<1>9. GetHonest'
  BY <1>3 DEF GetHonest, NoOp
<1> QED  BY <1>4, <1>5, <1>6, <1>7, <1>8, <1>9

LEMMA CtxDoneStep ==
    ASSUME TxInv, CtxDone  PROVE TxInv'
<1> USE DEF TxInv, CtxDone, callVars, fnVars, endVars
<1>1. TxTypes' /\ NothingDoneYet' /\ NilReaderHonest'
  BY DEF TxTypes, NothingDoneYet, NilReaderHonest
<1>2. ImageTracks'
  BY DEF ImageTracks, Tracked
<1>3. LastErrMarked' /\ ResultMarked'
  BY DEF LastErrMarked, ResultMarked, UnmarkedOp, openVars
<1>4. FailureExplained' /\ WriteHonest' /\ GetHonest'
  BY DEF FailureExplained, WriteHonest, GetHonest
<1> QED  BY <1>1, <1>2, <1>3, <1>4

LEMMA GetShelfReaderStep ==
    ASSUME TxInv, NEW n \in Name, GetShelfReader(n)  PROVE TxInv'
<1> USE DEF TxInv, GetShelfReader, callVars, endVars
<1>1. getBucket(n) \in {"shelf", "NilReader"}
  BY DEF getBucket
<1>2. TxTypes' /\ NothingDoneYet'
  BY <1>1 DEF TxTypes, NothingDoneYet
<1>3. ImageTracks'
  BY DEF ImageTracks, Tracked
<1>4. NilReaderHonest'
  BY DEF TxTypes, NilReaderHonest, getBucket, ImageTracks, Tracked
<1>5. LastErrMarked' /\ ResultMarked'
  BY DEF LastErrMarked, ResultMarked, UnmarkedOp, openVars
<1>6. FailureExplained' /\ WriteHonest' /\ GetHonest'
  BY DEF FailureExplained, WriteHonest, GetHonest
<1> QED  BY <1>2, <1>3, <1>4, <1>5, <1>6

LEMMA GetShelfWriterStep ==
    ASSUME TxInv, NEW n \in Name, GetShelfWriter(n)  PROVE TxInv'
<1> USE DEF TxInv, GetShelfWriter, callVars, endVars
<1>1. TxTypes' /\ NothingDoneYet' /\ NilReaderHonest'
  BY DEF TxTypes, NothingDoneYet, NilReaderHonest, Contents
<1>2. ImageTracks'
  BY DEF ImageTracks, Tracked, TxTypes, Contents
<1>3. LastErrMarked' /\ ResultMarked'
  BY DEF LastErrMarked, ResultMarked, UnmarkedOp, openVars
<1>4. FailureExplained' /\ WriteHonest' /\ GetHonest'
  BY DEF FailureExplained, WriteHonest, GetHonest
<1> QED  BY <1>1, <1>2, <1>3, <1>4

LEMMA ReadOpStep ==
    ASSUME TxInv, OpenTypes, NEW op \in {"Get", "Empty", "Iterate"}, NEW n \in Name,
           NEW cb \in {Nil, AppErr}, op = "Get" => cb = Nil, ReadOp(op, n, cb)
    PROVE  TxInv'
<1>1. PICK h \in {reader[n], writer[n]} \ {"none"} :
          /\ \E err \in Errs(op, n, h, cb) : Operation(op, n, err)
          /\ UNCHANGED <<acked, work>>
  BY DEF ReadOp
<1>2. PICK err \in Errs(op, n, h, cb) : Operation(op, n, err)
  BY <1>1
<1> USE DEF TxInv, Operation, callVars, endVars
<1>3. h \in {"shelf", "NilReader", "errWriter"}
  BY DEF TxTypes
<1>4. WellMarked(err) \/ (UnmarkedOp(op) /\ err \in Raw)
  BY <1>3, ErrsMarked
<1>5. last'.op = op /\ last'.name = n /\ last'.err = err /\ pc = "fn" /\ app = Nil
  BY <1>2 DEF NothingDoneYet
<1>6. TxTypes' /\ NothingDoneYet' /\ NilReaderHonest'
  BY <1>1, <1>2 DEF TxTypes, NothingDoneYet, NilReaderHonest
<1>7. ImageTracks'
  BY <1>1, <1>2 DEF ImageTracks, Tracked
<1>8. LastErrMarked' /\ ResultMarked'
  BY <1>2, <1>4, <1>5 DEF LastErrMarked, ResultMarked, UnmarkedOp, openVars, WellMarked
<1>9. FailureExplained' /\ WriteHonest'
  BY <1>2 DEF FailureExplained, WriteHonest
<1>10. GetHonest'
  <2>1. CASE op = "Get" /\ acked[n] = "none"
    <3>1. /\ err = Nil => base[n] = "full"
          /\ "key not found" \in Marks(err) => base[n] # "full"
      BY <1>2, <2>1, GetErrs
    <3> QED  BY <1>1, <1>2, <1>5, <2>1, <3>1, IsFinds DEF GetHonest
  <2>2. CASE op # "Get" \/ acked[n] # "none"
    BY <1>1, <1>2, <1>5, <2>2 DEF GetHonest
  <2> QED  BY <2>1, <2>2
<1> QED  BY <1>6, <1>7, <1>8, <1>9, <1>10

LEMMA WriteOpStep ==
    ASSUME TxInv, OpenTypes, NEW op \in {"Put", "Delete"}, NEW n \in Name, WriteOp(op, n)
    PROVE  TxInv'
<1>1. PICK err \in Errs(op, n, writer[n], Nil) :
          /\ Operation(op, n, err)
          /\ acked' = IF err = Nil THEN [acked EXCEPT ![n] = op] ELSE acked
          /\ work' = IF err = Nil /\ writer[n] = "shelf"
                     THEN [work EXCEPT ![n] = IF op = "Put" THEN "full" ELSE "empty"]
                     ELSE work
  BY DEF WriteOp
<1> USE DEF TxInv, Operation, callVars, endVars
<1>2. writer[n] \in {"shelf", "errWriter"}
  BY DEF WriteOp, TxTypes
<1>3. WellMarked(err) \/ (UnmarkedOp(op) /\ err \in Raw)
  BY <1>1, <1>2, ErrsMarked
<1>4. err = Nil => writer[n] = "shelf"
  BY <1>1, <1>2, ErrWriterRefuses
<1>5. last'.op = op /\ last'.err = err /\ pc = "fn" /\ app = Nil
  BY <1>1 DEF NothingDoneYet
<1>6. TxTypes' /\ NothingDoneYet' /\ NilReaderHonest'
  BY <1>1, <1>5 DEF TxTypes, NothingDoneYet, NilReaderHonest, Contents
<1>7. ImageTracks'
  BY <1>1, <1>4, <1>5 DEF ImageTracks, Tracked, TxTypes, Contents
<1>8. LastErrMarked' /\ ResultMarked'
  BY <1>1, <1>3, <1>5 DEF LastErrMarked, ResultMarked, UnmarkedOp, openVars, WellMarked
<1>9. FailureExplained' /\ WriteHonest' /\ GetHonest'
  BY <1>1, <1>5 DEF FailureExplained, WriteHonest, GetHonest
<1> QED  BY <1>6, <1>7, <1>8, <1>9

LEMMA CallbackReturnsStep ==
    ASSUME TxInv, CallbackReturns  PROVE TxInv'
<1> USE DEF TxInv, CallbackReturns, callVars
<1>1. TxTypes' /\ NothingDoneYet' /\ NilReaderHonest'
  BY NoneAndFresh DEF TxTypes, NothingDoneYet, NilReaderHonest
<1>2. ImageTracks'
  BY DEF ImageTracks, Tracked
<1>3. LastErrMarked' /\ ResultMarked'
  BY DEF LastErrMarked, ResultMarked, UnmarkedOp, openVars
<1>4. FailureExplained' /\ WriteHonest' /\ GetHonest'
  BY DEF FailureExplained, WriteHonest, GetHonest
<1> QED  BY <1>1, <1>2, <1>3, <1>4

\* What every way to end a transaction has in common.
LEMMA ReturnStep ==
    ASSUME TxInv, NEW err, NEW called, Return(err, called), data' \in {data, work},
           WellMarked(err) \/ (err = last.err /\ err \in Raw), app = AppErr => err = AppErr
    PROVE  /\ TxTypes' /\ NothingDoneYet' /\ ImageTracks' /\ NilReaderHonest'
           /\ LastErrMarked' /\ ResultMarked' /\ GetHonest'
<1> USE DEF TxInv, Return, callVars, fnVars
<1>1. TxTypes' /\ NothingDoneYet' /\ NilReaderHonest'
  BY DEF TxTypes, NothingDoneYet, NilReaderHonest
<1>2. ImageTracks'
  BY DEF ImageTracks
<1>3. LastErrMarked' /\ ResultMarked'
  BY DEF LastErrMarked, ResultMarked, UnmarkedOp, openVars, WellMarked
<1>4. GetHonest'
  BY DEF GetHonest
<1> QED  BY <1>1, <1>2, <1>3, <1>4

\* The callback's own error, handed on.
LEMMA AppMarked ==
    ASSUME TxInv  PROVE WellMarked(app) \/ (app = last.err /\ app \in Raw)
BY PlainMarked DEF TxInv, LastErrMarked, ResultMarked

LEMMA EndReadStep ==
    ASSUME TxInv, EndRead  PROVE TxInv'
<1>1. FailureExplained' /\ WriteHonest'
  BY DEF EndRead, Return, FailureExplained, WriteHonest, Writable, callVars
<1>2. /\ TxTypes' /\ NothingDoneYet' /\ ImageTracks' /\ NilReaderHonest'
      /\ LastErrMarked' /\ ResultMarked' /\ GetHonest'
  BY AppMarked, ReturnStep DEF EndRead
<1> QED  BY <1>1, <1>2 DEF TxInv

LEMMA RollbackOnErrorStep ==
    ASSUME TxInv, RollbackOnError  PROVE TxInv'
<1>1. data = base /\ Return(app, Invoke("OnRollback")) /\ data' = data /\ app # Nil
  BY DEF TxInv, ImageTracks, RollbackOnError, Return
<1>2. FailureExplained' /\ WriteHonest'
  BY <1>1 DEF Return, FailureExplained, WriteHonest, callVars
<1>3. /\ TxTypes' /\ NothingDoneYet' /\ ImageTracks' /\ NilReaderHonest'
      /\ LastErrMarked' /\ ResultMarked' /\ GetHonest'
  BY <1>1, AppMarked, ReturnStep
<1> QED  BY <1>2, <1>3 DEF TxInv

LEMMA RollbackOnContextStep ==
    ASSUME TxInv, RollbackOnContext  PROVE TxInv'
<1> DEFINE err == IF kind = "redis" THEN DatabaseError(CtxErr)
                  ELSE WrapError(ErrCommitFailed, CtxErr)
<1>1. /\ WellMarked(err) /\ err # Nil
      /\ \/ kind = "redis" /\ err = DatabaseError(CtxErr)
         \/ SaysCommitFailed(err) /\ Marks(err) \cap {"db", "context", "closed"} # {}
  <2>1. CtxErr \in Raw
    BY DEF Raw
  <2> QED  BY <2>1, FaultMarked, CommitFailureMarked
<1>2. Return(err, Invoke("OnRollback")) /\ data' = data /\ app = Nil
  BY DEF RollbackOnContext
<1> HIDE DEF err
<1>3. data = base /\ app # AppErr
  BY <1>2, PlainMarked DEF TxInv, ImageTracks, Return
<1>4. FailureExplained' /\ WriteHonest'
  BY <1>1, <1>2, <1>3 DEF Return, FailureExplained, WriteHonest, callVars, openVars
<1>5. /\ TxTypes' /\ NothingDoneYet' /\ ImageTracks' /\ NilReaderHonest'
      /\ LastErrMarked' /\ ResultMarked' /\ GetHonest'
  BY <1>1, <1>2, <1>3, ReturnStep
<1> QED  BY <1>4, <1>5 DEF TxInv

LEMMA CommitStep ==
    ASSUME TxInv, Commit  PROVE TxInv'
<1>1. Return(Nil, Invoke("AfterCommit")) /\ data' = work /\ pc = "end" /\ app = Nil
  BY DEF Commit, Return
<1>2. FailureExplained'
  BY <1>1 DEF Return, FailureExplained
<1>3. WriteHonest'
  <2>1. \A n \in Name : (work[n] = "full") = IF acked[n] = "none" THEN base[n] = "full"
                                             ELSE acked[n] = "Put"
    BY <1>1 DEF TxInv, ImageTracks, Tracked, TxTypes
  <2> QED  BY <1>1, <2>1 DEF Return, WriteHonest, callVars, fnVars
<1>4. /\ TxTypes' /\ NothingDoneYet' /\ ImageTracks' /\ NilReaderHonest'
      /\ LastErrMarked' /\ ResultMarked' /\ GetHonest'
  BY <1>1, PlainMarked, ReturnStep
<1> QED  BY <1>2, <1>3, <1>4 DEF TxInv

LEMMA CommitFailsStep ==
    ASSUME TxInv, OpenTypes, CommitFails  PROVE TxInv'
<1>1. CommitErrs \ {Nil} \subseteq Raw
  BY DEF OpenTypes, CommitErrs, Raw
<1>2. PICK e \in Raw : Return(WrapError(ErrCommitFailed, e), Invoke("OnRollback"))
  BY <1>1 DEF CommitFails
<1> DEFINE err == WrapError(ErrCommitFailed, e)
<1>3. /\ WellMarked(err) /\ err # Nil /\ SaysCommitFailed(err)
      /\ Marks(err) \cap {"db", "context", "closed"} # {}
  BY CommitFailureMarked
<1>4. Return(err, Invoke("OnRollback"))
  BY <1>2
<1> HIDE DEF err
<1>5. /\ data' \in {data, work} /\ (data' = data \/ kind = "redis") /\ app = Nil
      /\ app # AppErr /\ data = base
  BY <1>4, PlainMarked DEF CommitFails, TxInv, ImageTracks, Return
<1>6. FailureExplained' /\ WriteHonest'
  BY <1>3, <1>4, <1>5
     DEF Return, FailureExplained, WriteHonest, callVars, fnVars, openVars
<1>7. /\ TxTypes' /\ NothingDoneYet' /\ ImageTracks' /\ NilReaderHonest'
      /\ LastErrMarked' /\ ResultMarked' /\ GetHonest'
  BY <1>3, <1>4, <1>5, ReturnStep
<1> QED  BY <1>6, <1>7 DEF TxInv

LEMMA NextCallStep ==
    ASSUME TxInv, NextCall  PROVE TxInv'
<1> USE DEF TxInv, NextCall, NoOp
<1>1. TxTypes' /\ NothingDoneYet' /\ NilReaderHonest'
  BY NoneAndFresh DEF TxTypes, NothingDoneYet, NilReaderHonest
<1>2. ImageTracks' /\ FailureExplained' /\ WriteHonest' /\ GetHonest'
  BY DEF ImageTracks, FailureExplained, WriteHonest, GetHonest
<1>3. LastErrMarked' /\ ResultMarked'
  BY PlainMarked DEF LastErrMarked, ResultMarked, WellMarked
<1> QED  BY <1>1, <1>2, <1>3

-----------------------------------------------------------------------------
(* The invariant. *)

LEMMA InitInv == Init => IndInv
<1> SUFFICES ASSUME Init  PROVE IndInv
  OBVIOUS
<1> USE DEF Init, OpeningInit, TxInit, NoOp
<1>1. OpenTypes /\ OpensOneKind /\ CallsOnOpened /\ OpenErrMarked /\ OpenedIsConnected
  BY DEF OpenTypes, OpensOneKind, CallsOnOpened, OpenErrMarked, OpenedIsConnected
<1>2. CloseErrMarked
  BY OpenErrs DEF CloseErrMarked
<1>3. TxTypes /\ NothingDoneYet /\ NilReaderHonest
  BY NoneAndFresh DEF TxTypes, NothingDoneYet, NilReaderHonest
<1>4. ImageTracks /\ FailureExplained /\ WriteHonest /\ GetHonest
  BY DEF ImageTracks, FailureExplained, WriteHonest, GetHonest
<1>5. LastErrMarked /\ ResultMarked
  BY PlainMarked DEF LastErrMarked, ResultMarked
<1> QED  BY <1>1, <1>2, <1>3, <1>4, <1>5 DEF IndInv, OpenInv, TxInv

LEMMA NextInv == IndInv /\ [Next]_vars => IndInv'
<1> SUFFICES ASSUME IndInv, [Next]_vars  PROVE IndInv'
  OBVIOUS
<1> USE DEF IndInv
<1>0. OpenTypes
  BY DEF OpenInv
<1>1. CASE UNCHANGED vars
  <2>1. OpenTypes' /\ OpensOneKind' /\ CallsOnOpened'
    BY <1>1 DEF OpenInv, OpenTypes, OpensOneKind, CallsOnOpened, vars, openVars, txVars
  <2>2. OpenErrMarked' /\ OpenedIsConnected' /\ CloseErrMarked'
    BY <1>1 DEF OpenInv, OpenErrMarked, OpenedIsConnected, CloseErrMarked, InMemory, vars,
                openVars
  <2>3. TxInv'
    BY <1>1, TxFrame DEF vars, openVars
  <2> QED  BY <2>1, <2>2, <2>3 DEF OpenInv
<1>2. CASE Close \/ CloseTimesOut \/ CloseAgain \/ (LateClose /\ closeErr' = Nil)
  BY <1>2, CloseSteps, TxFrame
<1>3. CASE OpenStore /\ closeErr' = Nil
  <2>1. OpenInv' /\ UNCHANGED <<txVars, kind, data>>
    BY <1>3, OpenStoreStep DEF OpenStore
  <2> QED  BY <2>1, TxFrame
<1>4. CASE (Open(Mkdir) \/ Open(Ping)) /\ closeErr' = Nil
  <2>1. OpenInv' /\ UNCHANGED <<txVars, kind, data>>
    BY <1>4, OpenGoesOn DEF Open
  <2> QED  BY <2>1, TxFrame
<1>5. CASE /\ closeErr' = Nil
           /\ \/ Open(MkdirFails) \/ Open(BBoltOpen(Nil)) \/ Open(BBoltOpen(DbErr))
              \/ Open(BadgerOpen) \/ Open(Wrap)
  <2>1. OpenInv' /\ UNCHANGED <<txVars, kind>> /\ pc = "idle" /\ data' \in {data, Fresh}
    BY <1>5, OpenReturns DEF Open
  <2> QED  BY <2>1, TxFrame, NoneAndFresh
<1>6. CASE /\ closeErr' = Nil
           /\ Beside(OtherProcess) \/ \E i \in 1..MaxOpens : Beside(WatcherReturns(i))
  <2>1. OpenInv' /\ UNCHANGED <<txVars, kind, data>>
    BY <1>6, BesideStep DEF Beside
  <2> QED  BY <2>1, TxFrame
<1>7. CASE /\ closeErr' = Nil
           /\ \E e \in {"Write", "WriteShelf", "Read", "ReadShelf"}, l \in OptionLists :
                 Call(e, l)
  <2>1. UNCHANGED <<openVars, closer>> /\ opc = "opened" /\ TxInv'
    BY <1>7, CallStep DEF Call
  <2> QED  BY <1>7, <2>1, OpenFrame
<1>8. CASE closeErr' = Nil /\ (Begin \/ CtxDone \/ CallbackReturns)
  <2>1. TxInv'
    BY <1>0, <1>8, BeginStep, CtxDoneStep, CallbackReturnsStep
  <2>2. UNCHANGED <<openVars, closer>> /\ opc = "opened"
    BY <1>8 DEF Begin, CtxDone, CallbackReturns, OpenInv, CallsOnOpened
  <2> QED  BY <1>8, <2>1, <2>2, OpenFrame
<1>9. CASE closeErr' = Nil /\ NextCall
  <2>1. UNCHANGED <<openVars, closer>> /\ pc' = "idle"
    BY <1>9 DEF NextCall
  <2> QED  BY <1>9, <2>1, NextCallStep, OpenFrame
<1>10. CASE /\ closeErr' = Nil
            /\ \E n \in Name : GetShelfReader(n) \/ GetShelfWriter(n)
  <2>1. TxInv'
    BY <1>10, GetShelfReaderStep, GetShelfWriterStep
  <2>2. UNCHANGED <<openVars, closer>> /\ opc = "opened"
    BY <1>10 DEF GetShelfReader, GetShelfWriter, OpenInv, CallsOnOpened
  <2> QED  BY <1>10, <2>1, <2>2, OpenFrame
<1>11. CASE closeErr' = Nil /\ \E n \in Name : WriteOp("Put", n) \/ WriteOp("Delete", n)
  <2>1. TxInv'
    BY <1>0, <1>11, WriteOpStep
  <2>2. UNCHANGED <<openVars, closer>> /\ opc = "opened"
    BY <1>11 DEF WriteOp, Operation, OpenInv, CallsOnOpened
  <2> QED  BY <1>11, <2>1, <2>2, OpenFrame
<1>12. CASE /\ closeErr' = Nil
            /\ \E n \in Name :
                 \/ ReadOp("Get", n, Nil) \/ ReadOp("Empty", n, Nil)
                 \/ \E cb \in {Nil, AppErr} : ReadOp("Iterate", n, cb)
  <2>1. PICK n \in Name, op \in {"Get", "Empty", "Iterate"}, cb \in {Nil, AppErr} :
           ReadOp(op, n, cb) /\ (op = "Get" => cb = Nil)
    BY <1>12
  <2>2. TxInv'
    BY <1>0, <2>1, ReadOpStep
  <2>3. UNCHANGED <<openVars, closer>> /\ opc = "opened"
    BY <2>1 DEF ReadOp, Operation, OpenInv, CallsOnOpened
  <2> QED  BY <1>12, <2>2, <2>3, OpenFrame
<1>13. CASE /\ closeErr' = Nil
            /\ EndRead \/ RollbackOnError \/ RollbackOnContext \/ Commit \/ CommitFails
  <2>1. TxInv'
    BY <1>0, <1>13, EndReadStep, RollbackOnErrorStep, RollbackOnContextStep, CommitStep,
       CommitFailsStep
  <2>2. UNCHANGED <<openVars, closer>> /\ opc = "opened"
    BY <1>13 DEF EndRead, RollbackOnError, RollbackOnContext, Commit, CommitFails, Return,
                 OpenInv, CallsOnOpened
  <2> QED  BY <1>13, <2>1, <2>2, OpenFrame
<1>14. Open(CreateStep) => \/ Open(Mkdir) \/ Open(Ping) \/ Open(BBoltOpen(Nil))
                           \/ Open(BadgerOpen) \/ Open(Wrap)
  BY DEF Open, CreateStep
<1> QED
  BY <1>1, <1>2, <1>3, <1>4, <1>5, <1>6, <1>7, <1>8, <1>9, <1>10, <1>11, <1>12, <1>13, <1>14
     DEF Next, Other

\* The invariant that carries the theorems below: where the errors of the last
\* operation, the callback and the method come from, and the image of the
\* transaction against what it began on and what it acknowledged.
THEOREM IndInvariant == Spec => []IndInv
BY InitInv, NextInv, PTL DEF Spec

\* errors.Is(err, ErrDatabase{}) finds every fault of the database or the context
\* in what Write, Read, the constructors and Close return, except through the
\* methods of Unmarked and Badger's own opening and closing, and never takes the
\* application's error for one.
THEOREM ErrorsMarkedAlways == Spec => []ErrorsMarked
<1>1. IndInv => ErrorsMarked
  <2> SUFFICES ASSUME IndInv  PROVE ErrorsMarked
    OBVIOUS
  <2>1. pc = "returned" =>
           /\ Is(result, ErrDatabase) => Marks(result) \cap Foreign # {}
           /\ Marks(result) \cap Foreign # {} =>
                 Is(result, ErrDatabase) \/ (Unmarked /\ result = last.err)
           /\ app = AppErr => result = AppErr
    <3> SUFFICES ASSUME pc = "returned"
                 PROVE  /\ Is(result, ErrDatabase) => Marks(result) \cap Foreign # {}
                        /\ Marks(result) \cap Foreign # {} =>
                              Is(result, ErrDatabase) \/ (Unmarked /\ result = last.err)
                        /\ app = AppErr => result = AppErr
      OBVIOUS
    <3>1. /\ WellMarked(result) \/ (result = last.err /\ result \in Raw)
          /\ app = AppErr => result = AppErr
      BY DEF IndInv, TxInv, ResultMarked
    <3>2. WellMarked(last.err) \/ (Unmarked /\ last.err \in Raw)
      BY DEF IndInv, TxInv, LastErrMarked, UnmarkedOp, Unmarked
    <3>3. CASE WellMarked(result)
      BY <3>1, <3>3, IsFinds DEF WellMarked
    <3>4. CASE Unmarked /\ result = last.err /\ result \in Raw
      <4>1. "ErrDatabase" \notin Marks(result)
        BY <3>4, RawErrors
      <4> QED  BY <3>1, <3>4, <4>1, IsFinds
    <3> QED  BY <3>1, <3>2, <3>3, <3>4
  <2> QED  BY <2>1 DEF ErrorsMarked, IndInv, OpenInv, OpenErrMarked, CloseErrMarked
<1> QED  BY <1>1, IndInvariant, PTL

\* A Write whose callback succeeded and that fails carries ErrCommitFailed and
\* shows why; or it is Redis' answer to a context that ended before Exec, and
\* then nothing was stored.
THEOREM FailureExplainedAlways == Spec => []FailureExplained
<1>1. IndInv => FailureExplained
  BY DEF IndInv, TxInv
<1> QED  BY <1>1, IndInvariant, PTL

\* What Write returns is true of what is stored, whatever of the errors of its
\* Puts and Deletes the callback ignored and whenever Close came between.
THEOREM WriteHonestAlways == Spec => []WriteHonest
<1>1. IndInv => WriteHonest
  BY DEF IndInv, TxInv
<1> QED  BY <1>1, IndInvariant, PTL

\* No fault of the database, no closed store and no missing bucket makes Get say
\* of a key anything but what was so when the transaction began.
THEOREM GetHonestAlways == Spec => []GetHonest
<1>1. IndInv => GetHonest
  BY DEF IndInv, TxInv
<1> QED  BY <1>1, IndInvariant, PTL

\* A store that was returned and not closed is on an open database that no other
\* process has locked.
THEOREM OpenedIsConnectedAlways == Spec => []OpenedIsConnected
<1>1. IndInv => OpenedIsConnected
  BY DEF IndInv, OpenInv
<1> QED  BY <1>1, IndInvariant, PTL

-----------------------------------------------------------------------------
(* Invoke: what its loop over the options calls.  By induction over the    *)
(* options it has looked at.                                               *)

LEMMA AppendNext ==
    ASSUME NEW n \in Nat, NEW s \in Seq(1..n),
           \A i, j \in DOMAIN s : i < j => s[i] < s[j]
    PROVE  /\ Append(s, n + 1) \in Seq(1..(n + 1))
           /\ Range(Append(s, n + 1)) = Range(s) \cup {n + 1}
           /\ \A i, j \in DOMAIN Append(s, n + 1) :
                 i < j => Append(s, n + 1)[i] < Append(s, n + 1)[j]
<1> DEFINE t == Append(s, n + 1)
<1>1. Len(s) \in Nat /\ DOMAIN s = 1..Len(s) /\ \A i \in 1..Len(s) : s[i] \in 1..n
  OBVIOUS
<1>2. /\ s \in Seq(1..(n + 1)) /\ n + 1 \in 1..(n + 1)
  <2>1. 1..n \subseteq 1..(n + 1)
    OBVIOUS
  <2> QED  BY <2>1
<1>3. /\ t \in Seq(1..(n + 1)) /\ Len(t) = Len(s) + 1 /\ DOMAIN t = 1..(Len(s) + 1)
      /\ \A i \in 1..Len(s) : t[i] = s[i]
      /\ t[Len(s) + 1] = n + 1
  BY <1>1, <1>2
<1> HIDE DEF t
<1>4. Range(t) = Range(s) \cup {n + 1}
  <2>1. Range(t) \subseteq Range(s) \cup {n + 1}
    BY <1>1, <1>3 DEF Range
  <2>2. Range(s) \subseteq Range(t)
    BY <1>1, <1>3 DEF Range
  <2>3. n + 1 \in Range(t)
    BY <1>1, <1>3 DEF Range
  <2> QED  BY <2>1, <2>2, <2>3
<1>5. ASSUME NEW i \in DOMAIN t, NEW j \in DOMAIN t, i < j  PROVE t[i] < t[j]
  <2>1. i \in 1..Len(s)
    BY <1>1, <1>3, <1>5
  <2>2. CASE j \in 1..Len(s)
    BY <1>1, <1>3, <1>5, <2>1, <2>2
  <2>3. CASE j = Len(s) + 1
    BY <1>1, <1>3, <2>1, <2>3
  <2> QED  BY <1>1, <1>3, <2>2, <2>3
<1> QED  BY <1>3, <1>4, <1>5 DEF t

\* The loop of Invoke over the first n options.
InvokeLoop(g, type, n) ==
    g = [i \in 0..n |-> IF i = 0 THEN <<>>
                        ELSE IF opts[i] = type THEN Append(g[i - 1], i) ELSE g[i - 1]]

LEMMA InvokeLoopExists ==
    ASSUME NEW type, NEW n \in Nat  PROVE \E g : InvokeLoop(g, type, n)
<1> DEFINE S == {m \in Nat : \E g : InvokeLoop(g, type, m)}
<1>1. 0 \in S
  <2> DEFINE g == [i \in 0..0 |-> <<>>]
  <2>1. InvokeLoop(g, type, 0)
    BY DEF InvokeLoop
  <2> QED  BY <2>1
<1>2. ASSUME NEW m \in Nat, m \in S  PROVE m + 1 \in S
  <2>1. PICK g : InvokeLoop(g, type, m)
    BY <1>2
  <2> DEFINE h == [i \in 0..(m + 1) |->
                      IF i <= m THEN g[i]
                      ELSE IF opts[i] = type THEN Append(g[m], i) ELSE g[m]]
             body(i) == IF i = 0 THEN <<>>
                        ELSE IF opts[i] = type THEN Append(h[i - 1], i) ELSE h[i - 1]
  <2>2. \A i \in 0..m : h[i] = g[i]
    OBVIOUS
  <2>3. ASSUME NEW i \in 0..(m + 1)  PROVE h[i] = body(i)
    <3>1. CASE i = 0
      BY <2>1, <3>1 DEF InvokeLoop
    <3>2. CASE i \in 1..m
      <4>1. i \in 0..m /\ i - 1 \in 0..m /\ i # 0
        BY <3>2
      <4>2. g[i] = IF opts[i] = type THEN Append(g[i - 1], i) ELSE g[i - 1]
        BY <2>1, <4>1 DEF InvokeLoop
      <4> QED  BY <2>2, <4>1, <4>2
    <3>3. CASE i = m + 1
      <4>1. i # 0 /\ ~(i <= m) /\ i - 1 = m /\ h[m] = g[m]
        BY <2>2, <3>3
      <4> QED  BY <4>1
    <3> QED  BY <3>1, <3>2, <3>3
  <2>4. h = [i \in 0..(m + 1) |-> body(i)]
    BY <2>3
  <2>5. InvokeLoop(h, type, m + 1)
    BY <2>4 DEF InvokeLoop
  <2> HIDE DEF h
  <2> QED  BY <2>5
<1> HIDE DEF S
<1>3. S = Nat
  <2>1. S \in SUBSET Nat
    BY DEF S
  <2> QED  BY <1>1, <1>2, <2>1, SetInduction
<1> QED  BY <1>3 DEF S

LEMMA InvokeCalls ==
    ASSUME NEW type, NEW O, opts \in Seq(O)
    PROVE  /\ Range(Invoke(type)) = {i \in DOMAIN opts : opts[i] = type}
           /\ \A i, j \in DOMAIN Invoke(type) : i < j => Invoke(type)[i] < Invoke(type)[j]
<1> DEFINE N == Len(opts)
           f == CHOOSE g : InvokeLoop(g, type, N)
           Good(n) == /\ f[n] \in Seq(1..n)
                      /\ Range(f[n]) = {i \in 1..n : opts[i] = type}
                      /\ \A i, j \in DOMAIN f[n] : i < j => f[n][i] < f[n][j]
           S == {n \in Nat : n <= N => Good(n)}
<1>1. N \in Nat /\ DOMAIN opts = 1..N
  OBVIOUS
<1>2. InvokeLoop(f, type, N)
  BY <1>1, InvokeLoopExists
<1>3. Invoke(type) = f[N]
  BY DEF Invoke, InvokeLoop
<1> HIDE DEF f, N
<1>4. 0 \in S
  <2>1. f[0] = <<>>
    BY <1>1, <1>2 DEF InvokeLoop
  <2>2. f[0] \in Seq(1..0) /\ DOMAIN f[0] = {} /\ Range(f[0]) = {}
    BY <2>1 DEF Range
  <2> QED  BY <2>2
<1>5. ASSUME NEW n \in Nat, n \in S  PROVE n + 1 \in S
  <2> SUFFICES ASSUME n + 1 <= N  PROVE Good(n + 1)
    OBVIOUS
  <2>1. Good(n)
    BY <1>1, <1>5
  <2>2. f[n + 1] = IF opts[n + 1] = type THEN Append(f[n], n + 1) ELSE f[n]
    <3>1. n + 1 \in 0..N /\ n + 1 # 0 /\ (n + 1) - 1 = n
      BY <1>1
    <3> QED  BY <1>2, <3>1 DEF InvokeLoop
  <2>3. CASE opts[n + 1] = type
    <3>1. /\ f[n + 1] \in Seq(1..(n + 1))
          /\ Range(f[n + 1]) = Range(f[n]) \cup {n + 1}
          /\ \A i, j \in DOMAIN f[n + 1] : i < j => f[n + 1][i] < f[n + 1][j]
      BY <2>1, <2>2, <2>3, AppendNext
    <3>2. {i \in 1..(n + 1) : opts[i] = type} = {i \in 1..n : opts[i] = type} \cup {n + 1}
      BY <2>3
    <3> QED  BY <2>1, <3>1, <3>2
  <2>4. CASE opts[n + 1] # type
    <3>1. {i \in 1..(n + 1) : opts[i] = type} = {i \in 1..n : opts[i] = type}
      BY <2>4
    <3>2. Seq(1..n) \subseteq Seq(1..(n + 1))
      <4>1. 1..n \subseteq 1..(n + 1)
        OBVIOUS
      <4> QED  BY <4>1
    <3>3. f[n + 1] = f[n]
      BY <2>2, <2>4
    <3> QED  BY <2>1, <3>1, <3>2, <3>3
  <2> QED  BY <2>3, <2>4
<1>6. Good(N)
  <2> HIDE DEF Good
  <2>1. S = Nat
    BY <1>4, <1>5, SetInduction
  <2> QED  BY <1>1, <2>1
<1> QED  BY <1>1, <1>3, <1>6

-----------------------------------------------------------------------------
(* Types, and the functions of the options. *)

StoreTypes ==
    /\ OpeningTypeOK
    /\ opc = "ping" => attempt < PingAttempts
    /\ opc \notin {"ping", "pinged"} => attempt = 0

CallTypes ==
    /\ entry \in {"Write", "WriteShelf", "Read", "ReadShelf"}
    /\ opts \in OptionLists \cup {<<>>}
    /\ ctx \in {"live", "done"} /\ ops \in 0..MaxOps /\ begun \in BOOLEAN

\* Only bbolt has shelves that do not exist.
Shelved(c) == \A n \in Name : c[n] = "none" => kind = "bbolt"
NoneIsBBolt == Shelved(data) /\ Shelved(base) /\ Shelved(work)

\* Options come with Write only, and their functions run when it returns.
HooksFollowCall ==
    /\ entry # "Write" => opts = <<>>
    /\ pc # "returned" => invoked = <<>>
    /\ pc \in {"fn", "end"} => begun

HookInv == StoreTypes /\ CallTypes /\ NoneIsBBolt /\ HooksFollowCall /\ HooksHonest

LEMMA StoreTypesNext ==
    ASSUME StoreTypes, OpenInv, [Next]_vars  PROVE StoreTypes'
<1> USE OpeningAssumption, OpenErrs DEF StoreTypes, OpeningTypeOK
<1>1. CASE UNCHANGED openVars
  BY <1>1 DEF openVars
<1>2. CASE OpenStore
  <2>1. opens' \in 0..MaxOpens /\ attempt' = 0 /\ 0 < PingAttempts
    BY <1>2 DEF OpenStore, Create
  <2> QED  BY <1>2, <2>1 DEF OpenStore, Create
<1>3. CASE Open(Mkdir)
  BY <1>3 DEF Open, Mkdir
<1>4. CASE Open(Ping)
  <2>1. attempt' \in 0..PingAttempts /\ (opc' = "ping" => attempt' < PingAttempts)
        /\ opc' \in {"ping", "pinged"}
    BY <1>4 DEF Open, Ping, LoopEnds
  <2> QED  BY <1>4, <2>1 DEF Open, Ping
<1>5. CASE Open(MkdirFails) \/ Open(BadgerOpen) \/ Open(Wrap)
  <2>1. PICK err : CreateReturns(err) /\ UNCHANGED watcher
    BY <1>5 DEF Open, MkdirFails, BadgerOpen, Wrap
  <2>2. holder' \in {holder, "store"} /\ connected' \in BOOLEAN
    BY <1>5 DEF Open, MkdirFails, BadgerOpen, Wrap
  <2>3. attempt' \in 0..PingAttempts
    BY <2>1 DEF CreateReturns
  <2> QED  BY <2>1, <2>2, <2>3 DEF CreateReturns
<1>6. CASE Open(BBoltOpen(Nil)) \/ Open(BBoltOpen(DbErr))
  BY <1>6 DEF Open, BBoltOpen, SignalDone, CreateReturns
<1>7. CASE Beside(OtherProcess) \/ \E k \in 1..MaxOpens : Beside(WatcherReturns(k))
  BY <1>7 DEF Beside, OtherProcess, WatcherReturns
<1>8. CASE Close \/ LateClose
  BY <1>8 DEF Close, LateClose, DbClosed
<1>9. CASE UNCHANGED vars \/ CloseTimesOut \/ CloseAgain
  BY <1>1, <1>9 DEF vars, CloseTimesOut, CloseAgain
<1>10. CASE \/ \E e \in {"Write", "WriteShelf", "Read", "ReadShelf"}, l \in OptionLists :
                  Call(e, l)
            \/ Begin \/ CtxDone \/ CallbackReturns \/ NextCall
            \/ EndRead \/ RollbackOnError \/ RollbackOnContext \/ Commit \/ CommitFails
  BY <1>1, <1>10 DEF Call, Begin, CtxDone, CallbackReturns, NextCall, EndRead,
       RollbackOnError, RollbackOnContext, Commit, CommitFails, Return
<1>11. CASE \E n \in Name :
             \/ GetShelfReader(n) \/ GetShelfWriter(n)
             \/ WriteOp("Put", n) \/ WriteOp("Delete", n)
             \/ ReadOp("Get", n, Nil) \/ ReadOp("Empty", n, Nil)
             \/ \E cb \in {Nil, AppErr} : ReadOp("Iterate", n, cb)
  BY <1>1, <1>11 DEF GetShelfReader, GetShelfWriter, WriteOp, ReadOp, Operation
<1>12. Open(CreateStep) => \/ Open(Mkdir) \/ Open(Ping) \/ Open(BBoltOpen(Nil))
                           \/ Open(BadgerOpen) \/ Open(Wrap)
  BY DEF Open, CreateStep
<1> QED
  BY <1>2, <1>3, <1>4, <1>5, <1>6, <1>7, <1>8, <1>9, <1>10, <1>11, <1>12 DEF Next, Other

LEMMA KindNext == ASSUME [Next]_vars  PROVE kind' = kind
<1>1. CASE \/ OpenStore \/ Open(CreateStep) \/ Open(MkdirFails) \/ Open(BBoltOpen(DbErr))
           \/ Beside(OtherProcess) \/ \E k \in 1..MaxOpens : Beside(WatcherReturns(k))
           \/ Close \/ LateClose
  BY <1>1 DEF OpenStore, Create, Open, CreateStep, Mkdir, Ping, MkdirFails, BBoltOpen,
       BadgerOpen, Wrap, CreateReturns, Beside, OtherProcess, WatcherReturns, Close,
       LateClose, DbClosed
<1>2. CASE UNCHANGED vars \/ CloseTimesOut \/ CloseAgain
  BY <1>2 DEF vars, openVars, CloseTimesOut, CloseAgain
<1>3. CASE \/ \E e \in {"Write", "WriteShelf", "Read", "ReadShelf"}, l \in OptionLists :
                 Call(e, l)
           \/ Begin \/ CtxDone \/ CallbackReturns \/ NextCall
           \/ EndRead \/ RollbackOnError \/ RollbackOnContext \/ Commit \/ CommitFails
  BY <1>3 DEF Call, Begin, CtxDone, CallbackReturns, NextCall, EndRead, RollbackOnError,
       RollbackOnContext, Commit, CommitFails, Return, openVars
<1>4. CASE \E n \in Name :
             \/ GetShelfReader(n) \/ GetShelfWriter(n)
             \/ WriteOp("Put", n) \/ WriteOp("Delete", n)
             \/ ReadOp("Get", n, Nil) \/ ReadOp("Empty", n, Nil)
             \/ \E cb \in {Nil, AppErr} : ReadOp("Iterate", n, cb)
  BY <1>4 DEF GetShelfReader, GetShelfWriter, WriteOp, ReadOp, Operation, openVars
<1> QED  BY <1>1, <1>2, <1>3, <1>4 DEF Next, Other

\* The part of HookInv that is about the call and its transaction.
CallInv == CallTypes /\ NoneIsBBolt /\ HooksFollowCall /\ HooksHonest

LEMMA CallFrame ==
    ASSUME CallInv, UNCHANGED <<txVars, kind>>, data' = data \/ data' = Fresh
    PROVE  CallInv'
<1> USE DEF CallInv, txVars, callVars, fnVars, endVars
<1>1. CallTypes' /\ HooksFollowCall' /\ HooksHonest'
  BY DEF CallTypes, HooksFollowCall, HooksHonest
<1>2. NoneIsBBolt'
  BY DEF NoneIsBBolt, Shelved, Fresh
<1> QED  BY <1>1, <1>2

\* The ways to end a transaction differ in what they return and call.
LEMMA CallReturnStep ==
    ASSUME CallInv, NEW err, NEW called, Return(err, called), kind' = kind,
           data' \in {data, work},
           /\ Range(called) = {i \in DOMAIN opts :
                 \/ opts[i] = "AfterCommit" /\ err = Nil
                 \/ opts[i] = "OnRollback" /\ err # Nil /\ begun}
           /\ \A i, j \in DOMAIN called : i < j => called[i] < called[j]
    PROVE  CallInv'
<1> USE DEF CallInv, Return, callVars, fnVars
<1>1. CallTypes' /\ HooksFollowCall'
  BY DEF CallTypes, HooksFollowCall
<1>2. HooksHonest'
  BY DEF HooksHonest
<1>3. NoneIsBBolt'
  BY DEF NoneIsBBolt, Shelved
<1> QED  BY <1>1, <1>2, <1>3

\* The methods without options call nothing.
LEMMA EmptyRange == Range(<<>>) = {} /\ DOMAIN <<>> = {}
BY DEF Range

LEMMA CallInvNext ==
    ASSUME CallInv, IndInv, [Next]_vars  PROVE CallInv'
<1>0. kind' = kind
  BY KindNext
<1>1. opts \in Seq({"WriteLock", "AfterCommit", "OnRollback"}) /\ MaxOps \in Nat
  <2>1. <<>> \in Seq({"WriteLock", "AfterCommit", "OnRollback"})
    OBVIOUS
  <2> QED  BY <2>1, SessionAssumption DEF CallInv, CallTypes
<1>2. CASE \/ OpenStore \/ Open(CreateStep) \/ Open(MkdirFails) \/ Open(BBoltOpen(DbErr))
           \/ Beside(OtherProcess) \/ \E k \in 1..MaxOpens : Beside(WatcherReturns(k))
           \/ Close \/ CloseTimesOut \/ CloseAgain \/ LateClose \/ UNCHANGED vars
  <2>1. UNCHANGED txVars /\ (data' = data \/ data' = Fresh)
    BY <1>2 DEF OpenStore, Open, Beside, Close, CloseTimesOut, CloseAgain, LateClose, vars
  <2> QED  BY <1>0, <2>1, CallFrame
<1>3. CASE \E e \in {"Write", "WriteShelf", "Read", "ReadShelf"}, l \in OptionLists :
              Call(e, l)
  <2> USE DEF CallInv, Call, fnVars, endVars
  <2>1. CallTypes' /\ HooksFollowCall' /\ HooksHonest'
    BY <1>3 DEF CallTypes, HooksFollowCall, HooksHonest
  <2>2. NoneIsBBolt'
    BY <1>0, <1>3 DEF NoneIsBBolt, Shelved
  <2> QED  BY <2>1, <2>2
<1>4. CASE Begin
  <2> USE DEF CallInv, Begin
  <2>1. CallTypes' /\ HooksFollowCall' /\ NoneIsBBolt'
    BY <1>0, <1>4 DEF CallTypes, HooksFollowCall, NoneIsBBolt, Shelved
  <2>2. HooksHonest'
    <3>1. invoked' = <<>> /\ (pc' = "returned" => result' # Nil /\ ~begun')
      BY <1>4 DEF HooksFollowCall
    <3> QED  BY <3>1, EmptyRange DEF HooksHonest
  <2> QED  BY <2>1, <2>2
<1>5. CASE CtxDone \/ CallbackReturns
  <2> USE DEF CallInv, CtxDone, CallbackReturns, callVars, fnVars, endVars
  <2>1. CallTypes' /\ HooksFollowCall' /\ HooksHonest'
    <3>1. ops' \in 0..MaxOps
      BY <1>1, <1>5 DEF CallTypes
    <3> QED  BY <1>5, <3>1 DEF CallTypes, HooksFollowCall, HooksHonest
  <2>2. NoneIsBBolt'
    BY <1>0, <1>5 DEF NoneIsBBolt, Shelved
  <2> QED  BY <2>1, <2>2
<1>6. CASE NextCall
  <2> USE DEF CallInv, NextCall
  <2>1. CallTypes' /\ HooksFollowCall' /\ HooksHonest'
    BY <1>6 DEF CallTypes, HooksFollowCall, HooksHonest
  <2>2. NoneIsBBolt'
    BY <1>0, <1>6 DEF NoneIsBBolt, Shelved, Fresh
  <2> QED  BY <2>1, <2>2
<1>7. CASE \E n \in Name : GetShelfReader(n) \/ GetShelfWriter(n)
  <2> USE DEF CallInv
  <2>1. CallTypes' /\ HooksFollowCall' /\ HooksHonest'
    <3>1. ops < MaxOps /\ ops' = ops + 1 /\ UNCHANGED <<pc, ctx, callVars, endVars>>
      BY <1>7 DEF GetShelfReader, GetShelfWriter
    <3>2. ops' \in 0..MaxOps
      BY <1>1, <3>1 DEF CallTypes
    <3> QED  BY <3>1, <3>2 DEF CallTypes, HooksFollowCall, HooksHonest, callVars, endVars
  <2>2. NoneIsBBolt'
    BY <1>0, <1>7 DEF NoneIsBBolt, Shelved, IndInv, TxInv, TxTypes, Contents,
         GetShelfReader, GetShelfWriter, callVars
  <2> QED  BY <2>1, <2>2
<1>8. CASE \E n \in Name :
             \/ WriteOp("Put", n) \/ WriteOp("Delete", n)
             \/ ReadOp("Get", n, Nil) \/ ReadOp("Empty", n, Nil)
             \/ \E cb \in {Nil, AppErr} : ReadOp("Iterate", n, cb)
  <2> USE DEF CallInv, WriteOp, ReadOp, Operation, callVars, endVars
  <2>1. CallTypes' /\ HooksFollowCall' /\ HooksHonest'
    <3>1. ops' \in 0..MaxOps
      BY <1>1, <1>8 DEF CallTypes
    <3> QED  BY <1>8, <3>1 DEF CallTypes, HooksFollowCall, HooksHonest
  <2>2. NoneIsBBolt'
    BY <1>0, <1>8 DEF NoneIsBBolt, Shelved, IndInv, TxInv, TxTypes, Contents
  <2> QED  BY <2>1, <2>2
<1>9. CASE EndRead
  <2>1. Return(app, <<>>) /\ data' = data /\ opts = <<>>
    BY <1>9 DEF EndRead, Writable, CallInv, HooksFollowCall
  <2> QED  BY <1>0, <2>1, EmptyRange, CallReturnStep
<1>10. CASE RollbackOnError \/ RollbackOnContext \/ CommitFails
  <2>1. PICK err : /\ Return(err, Invoke("OnRollback")) /\ err # Nil
                   /\ data' \in {data, work} /\ begun
    <3>1. begun
      BY <1>10 DEF RollbackOnError, RollbackOnContext, CommitFails, Return, CallInv,
                   HooksFollowCall
    <3>2. CASE RollbackOnError
      BY <3>1, <3>2 DEF RollbackOnError
    <3>3. CASE RollbackOnContext
      <4>1. CtxErr \in Raw
        BY DEF Raw
      <4> QED  BY <3>1, <3>3, <4>1, FaultMarked, CommitFailureMarked DEF RollbackOnContext
    <3>4. CASE CommitFails
      <4>1. CommitErrs \ {Nil} \subseteq Raw
        BY DEF IndInv, OpenInv, OpenTypes, CommitErrs, Raw
      <4> QED  BY <3>1, <3>4, <4>1, CommitFailureMarked DEF CommitFails
    <3> QED  BY <1>10, <3>2, <3>3, <3>4
  <2> QED  BY <1>0, <1>1, <2>1, InvokeCalls, CallReturnStep
<1>11. CASE Commit
  <2>1. Return(Nil, Invoke("AfterCommit")) /\ data' \in {data, work}
    BY <1>11 DEF Commit
  <2> QED  BY <1>0, <1>1, <2>1, InvokeCalls, CallReturnStep
<1> QED
  BY <1>2, <1>3, <1>4, <1>5, <1>6, <1>7, <1>8, <1>9, <1>10, <1>11 DEF Next, Other

LEMMA HookInvInit == Init => HookInv
<1> SUFFICES ASSUME Init  PROVE HookInv
  OBVIOUS
<1> USE DEF Init, OpeningInit, TxInit
<1>1. StoreTypes
  <2>1. opens \in 0..MaxOpens /\ attempt \in 0..PingAttempts
    BY OpeningAssumption
  <2>2. watcher \in [1..MaxOpens -> {"none", "watching", "signalled", "stopped"}]
    OBVIOUS
  <2>3. cfg \in {DefaultConfig, WithNoSync(DefaultConfig)}
    OBVIOUS
  <2> QED  BY <2>1, <2>2, <2>3 DEF StoreTypes, OpeningTypeOK
<1>2. CallTypes /\ HooksFollowCall /\ HooksHonest
  <2>1. ops \in 0..MaxOps
    BY SessionAssumption
  <2> QED  BY <2>1 DEF CallTypes, HooksFollowCall, HooksHonest
<1>3. NoneIsBBolt
  BY DEF NoneIsBBolt, Shelved, Fresh
<1> QED  BY <1>1, <1>2, <1>3 DEF HookInv

LEMMA HookInvNext == HookInv /\ IndInv /\ [Next]_vars => HookInv'
BY StoreTypesNext, CallInvNext DEF HookInv, CallInv, IndInv

\* Types, and which option functions have run by when.
THEOREM HookInvariant == Spec => []HookInv
BY HookInvInit, HookInvNext, IndInvariant, PTL DEF Spec

\* Every AfterCommit function runs, in the order of the options, when the method
\* returns nil, every OnRollback function when a begun Write fails, and none
\* otherwise: for option lists of any length.
THEOREM HooksHonestAlways == Spec => []HooksHonest
<1>1. HookInv => HooksHonest
  BY DEF HookInv
<1> QED  BY <1>1, HookInvariant, PTL

\* Every variable of a session keeps to its type: only a bbolt shelf can be
\* missing, the ping loop stays within its attempts, and a function that ran
\* belongs to an option of the call.
THEOREM TypeCorrect == Spec => []TypeOK
<1>1. IndInv /\ HookInv => TypeOK
  <2> SUFFICES ASSUME IndInv, HookInv  PROVE TypeOK
    OBVIOUS
  <2>1. Range(invoked) \subseteq DOMAIN opts
    <3>1. CASE pc = "returned"
      BY <3>1 DEF HookInv, HooksHonest
    <3>2. CASE pc # "returned"
      BY <3>2, EmptyRange DEF HookInv, HooksFollowCall
    <3> QED  BY <3>1, <3>2
  <2>2. \A c \in {data, base, work} : /\ c \in [Name -> {"none", "empty", "full"}]
                                      /\ \A n \in Name : c[n] = "none" => kind = "bbolt"
    BY DEF IndInv, TxInv, TxTypes, Contents, HookInv, NoneIsBBolt, Shelved
  <2> QED  BY <2>1, <2>2 DEF TypeOK, IndInv, OpenInv, OpenTypes, TxInv, TxTypes, HookInv,
              StoreTypes, CallTypes
<1> QED  BY <1>1, IndInvariant, HookInvariant, PTL
=============================================================================
