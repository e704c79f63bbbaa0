------------------------------- MODULE Errors -------------------------------
(***************************************************************************)
(* The errors of src/store.go and src/util/errors.go and what errors.Is    *)
(* finds in them.                                                          *)
(*                                                                         *)
(* An error is the sequence of the marks that errors.Is visits: the error  *)
(* itself, what its Is method searches, then what it unwraps to.  Nil, the *)
(* nil error, has no marks.  Messages are left out.                        *)
(***************************************************************************)
EXTENDS Sequences

Nil == <<>>
Marks(e) == {e[i] : i \in DOMAIN e}

\* An ErrDatabase is equal, by its Is method, to every other ErrDatabase, so
\* ErrStoreIsClosed and ErrCommitFailed are found in any of them.
Is(e, target) ==
    IF target[1] = "ErrDatabase" THEN "ErrDatabase" \in Marks(e)
    ELSE target[1] \in Marks(e)

DatabaseError(e) ==
    IF Is(e, <<"ErrDatabase">>) THEN e ELSE <<"ErrDatabase">> \o e

\* Is searches err, Unwrap gives cause.
WrapError_HidesCause(err, cause) == <<"wrapped">> \o err
WrapError(err, cause) == <<"wrapped">> \o err \o cause

\* fmt.Errorf with %w.
Errorf(e) == <<"fmt">> \o e

ErrDatabase == <<"ErrDatabase">>
ErrStoreIsClosed == DatabaseError(<<"database not open">>)
ErrCommitFailed == DatabaseError(<<"unable to commit transaction">>)
ErrKeyNotFound == <<"key not found">>

=============================================================================
