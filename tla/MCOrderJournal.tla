--------------------------- MODULE MCOrderJournal ---------------------------
(***************************************************************************)
(* Instances of OrderJournal for TLC: one ENTRY submission, alone or with  *)
(* the PROTECTIVE submission (a stop-loss or take-profit) of a position.   *)
(***************************************************************************)
EXTENDS OrderJournal

CONSTANTS e1, p1      \* model values: an ENTRY and a PROTECTIVE submission

OneEntry    == {e1}
EntryAndLeg == {e1, p1}

\* Scenarios of the safety run: the entry alone, with two attempts whose
\* executions together are at most its quantity, of which the last executes when
\* the sender has had its answers, and any number of reconciles; with a kill, or
\* a crash and a retry, of what has not executed, or a crash of one attempt; or
\* one attempt of either order, one lot executed, against a sweep, with no
\* reconcile run after the startup run.
Executions == Total(executed, e1) + Total(executed, p1)

EntryAlone ==
    /\ pc[p1] = "idle" /\ sweeps = 0 /\ Executions <= Lots
    /\ killEpoch = 0 \/ (crashes = 0 /\ Executions = 0)
    /\ crashes = 0 \/ att[e1] = 0 \/ Executions = 0
    /\ att[e1] = 1 /\ Executions = Lots => pc[e1] = "done"
OneAgainstSweep ==
    /\ crashes = 0 /\ killEpoch = 0 /\ \A o \in Orders : att[o] = 0
    /\ started => rpc = "idle"
    /\ Executions <= 1
    /\ pc[p1] = "idle" \/ pc[e1] = "idle"
SafetyScenario == EntryAlone \/ OneAgainstSweep

\* Scenarios of the liveness run: lost calls, or a crash and a venue reset, of an
\* entry of which one lot executes; or a crash of one that executes in full.
LossOrRestart ==
    \/ Total(executed, e1) <= 1 /\ (faults = 0 \/ (crashes = 0 /\ resets = 0))
    \/ faults = 0 /\ resets = 0 /\ Total(executed, e1) <= Lots

=============================================================================
