----------------------------- MODULE MCSession -----------------------------
(* The instance of Session that TLC checks. *)
EXTENDS Session

MCName == {"", "s"}
MCOptionLists ==
    {<<>>, <<"AfterCommit", "OnRollback", "WriteLock", "OnRollback", "AfterCommit">>}
=============================================================================
