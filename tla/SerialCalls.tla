---------------------------- MODULE SerialCalls -----------------------------
(***************************************************************************)
(* What rpc::RpcClient promises its callers: calls happen one at a time,   *)
(* and each ends once, with its own answer or with a failure.              *)
(***************************************************************************)
EXTENDS Naturals, Sequences

VARIABLES
  calls,   \* calls begun so far, numbered in the order they begin
  call,    \* the call in progress; 0 for none
  outcome  \* the calls whose answers were returned, in order

Init == calls = 0 /\ call = 0 /\ outcome = <<>>

Begin ==
  /\ call = 0
  /\ calls' = calls + 1 /\ call' = calls + 1 /\ outcome' = outcome

Succeed ==
  /\ call # 0
  /\ outcome' = Append(outcome, call) /\ call' = 0 /\ calls' = calls

Fail ==
  /\ call # 0
  /\ call' = 0 /\ calls' = calls /\ outcome' = outcome

Next == Begin \/ Succeed \/ Fail

Spec == Init /\ [][Next]_<<calls, call, outcome>>
=============================================================================
