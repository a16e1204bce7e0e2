------------------------------ MODULE MCParts ------------------------------
(***************************************************************************)
(* What the instances that run several parts side by side have in common:  *)
(* the part that a behaviour belongs to, and one strategy of one tenant.   *)
(***************************************************************************)
EXTENDS KillLedger

CONSTANTS s1, t1

OneTenant == [s \in Strategies |-> t1]

VARIABLE part       \* chosen initially; only this part moves

=============================================================================
