-------------------------- MODULE CallWithTimeout --------------------------
(***************************************************************************)
(* util.CallWithTimeout (src/util/util.go), as the three stores use it for *)
(* Close: a function runs in a goroutine of its own while the caller waits *)
(* in a select for its result or for the end of a context.  The result     *)
(* channel is unbuffered, so the goroutine of a caller that timed out      *)
(* stays blocked in its send ("send") for ever.                            *)
(*                                                                         *)
(* The module is passive: a store conjoins FnReturns with the last step of *)
(* the function it passes.                                                 *)
(***************************************************************************)
CONSTANT Closer         \* the calls of Close

VARIABLES cpc,          \* cpc[k]: the caller
          fn,           \* fn[k]: the goroutine that runs the function
          cctx          \* cctx[k]: the context of the caller

CallTypeOK ==
    /\ cpc \in [Closer -> {"idle", "select", "returned", "failed", "timedout"}]
    /\ fn \in [Closer -> {"none", "running", "send", "done"}]
    /\ cctx \in [Closer -> {"live", "done"}]

CallInit ==
    /\ cpc = [k \in Closer |-> "idle"]
    /\ fn = [k \in Closer |-> "none"]
    /\ cctx = [k \in Closer |-> "live"]

Invoke(k) ==
    /\ cpc[k] = "idle"
    /\ cpc' = [cpc EXCEPT ![k] = "select"]
    /\ fn' = [fn EXCEPT ![k] = "running"]
    /\ UNCHANGED cctx

FnReturns(k) ==
    /\ fn[k] = "running"
    /\ fn' = [fn EXCEPT ![k] = "send"]
    /\ UNCHANGED <<cpc, cctx>>

\* The function completed: the caller returns nil or its error.
ReceiveResult(k) ==
    /\ cpc[k] = "select" /\ fn[k] = "send"
    /\ \E r \in {"returned", "failed"} : cpc' = [cpc EXCEPT ![k] = r]
    /\ fn' = [fn EXCEPT ![k] = "done"]
    /\ UNCHANGED cctx

TimedOut_ReturnsNil(k) ==
    /\ cpc[k] = "select" /\ cctx[k] = "done"
    /\ cpc' = [cpc EXCEPT ![k] = "returned"]
    /\ UNCHANGED <<fn, cctx>>

TimedOut_AbandonsFn(k) ==
    /\ cpc[k] = "select" /\ cctx[k] = "done"
    /\ cpc' = [cpc EXCEPT ![k] = "timedout"]
    /\ fn' = [fn EXCEPT ![k] = "done"]
    /\ UNCHANGED cctx

\* timeoutCallback runs and the context's error is returned.
TimedOut(k) ==
    /\ cpc[k] = "select" /\ cctx[k] = "done"
    /\ cpc' = [cpc EXCEPT ![k] = "timedout"]
    /\ UNCHANGED <<fn, cctx>>

CallerCtxDone(k) ==
    /\ cpc[k] \in {"idle", "select"} /\ cctx[k] = "live"
    /\ cctx' = [cctx EXCEPT ![k] = "done"]
    /\ UNCHANGED <<cpc, fn>>

-----------------------------------------------------------------------------
CallStep(k) ==
    \/ Invoke(k) \/ FnReturns(k) \/ ReceiveResult(k) \/ TimedOut(k)
    \/ CallerCtxDone(k)

\* Every step of CallWithTimeout keeps its types, for any number of calls.
LEMMA CallTypeNext ==
    ASSUME CallTypeOK, NEW k \in Closer, CallStep(k)
    PROVE  CallTypeOK'
<1> USE DEF CallTypeOK
<1>1. CASE Invoke(k)
  BY <1>1 DEF Invoke
<1>2. CASE FnReturns(k)
  BY <1>2 DEF FnReturns
<1>3. CASE ReceiveResult(k)
  BY <1>3 DEF ReceiveResult
<1>4. CASE TimedOut(k)
  BY <1>4 DEF TimedOut
<1>5. CASE CallerCtxDone(k)
  BY <1>5 DEF CallerCtxDone
<1> QED  BY <1>1, <1>2, <1>3, <1>4, <1>5 DEF CallStep
=============================================================================
