---------------------------- MODULE MCLifecycle ----------------------------
(***************************************************************************)
(* Small instances of Lifecycle for TLC: one or two strategies of one      *)
(* tenant.                                                                 *)
(***************************************************************************)
EXTENDS Lifecycle

CONSTANTS s1, s2, t1

OneTenant == [s \in Strategies |-> t1]

\* A run without the tiers above live_l1.
L1Only == {"paper", "paused", "live_l1"}
AllTargets == States

AdminOnly == {"admin"}
AnyRole   == {"trader", "admin"}

OnlyLive   == {"live_l1"}

\* Bounds of single runs: the scopes the operator kills, and no safety pass.
StrategyScope    == \A e \in DOMAIN kills : kills[e].scope = s1
TenantOrPlatform == \A e \in DOMAIN kills : kills[e].scope \in {t1, Platform}
NoDriver         == reconciledAt = 0 /\ StrategyScope

=============================================================================
