---------------------------- MODULE WebRequests ----------------------------
(***************************************************************************)
(* Requests under way in the web module (modules/web/src/main.rs).  axum   *)
(* runs every request as a task of its own: what one of them read before   *)
(* an await, or before the lock of a store was let go, it may use when     *)
(* others have moved on.                                                   *)
(*                                                                         *)
(* A request that never gives up control is one step and has no slot.      *)
(***************************************************************************)
EXTENDS Naturals, FiniteSets

CONSTANTS
  Calls,     \* slots: how many requests are under way at once
  MaxInputs  \* bound: requests, failed calls and restarts

ASSUME RequestBounds == IsFiniteSet(Calls) /\ MaxInputs \in Nat

VARIABLES
  calls,  \* of each slot: the request, where it stands and its locals
  inputs

requestVars == <<calls, inputs>>

Idle == [op |-> "none", pc |-> "none"]
Quiet == \A c \in Calls : calls[c] = Idle
Under(ops, pcs) == {c \in Calls : calls[c].op \in ops /\ calls[c].pc \in pcs}

\* A request counts against the bound; one with many steps may count more.
Spend(n) == inputs + n <= MaxInputs /\ inputs' = inputs + n
Brief == Spend(1) /\ UNCHANGED calls
BeginLong(c, r, n) == calls[c] = Idle /\ Spend(n) /\ calls' = [calls EXCEPT ![c] = r]
Begin(c, r) == BeginLong(c, r, 1)
Continue(c, r) == calls' = [calls EXCEPT ![c] = r] /\ UNCHANGED inputs
Goto(c, pc) == Continue(c, [calls[c] EXCEPT !.pc = pc])
Return(c) == Continue(c, Idle)
Fail(c, r) == Spend(1) /\ calls' = [calls EXCEPT ![c] = r]
=============================================================================
