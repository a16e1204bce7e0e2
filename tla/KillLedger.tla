----------------------------- MODULE KillLedger -----------------------------
(***************************************************************************)
(* The append-only kill tables of the control plane's store: kill events   *)
(* (kill_breaker_events rows of kind 'kill'), clears (kill_clear_events),  *)
(* the served markers (safety_effects) and the predicate every other       *)
(* component asks: is a kill active for this strategy?                     *)
(*                                                                         *)
(* The epoch of a kill is MAX(kill_epoch) + 1 over the whole table, taken  *)
(* inside the insert transaction, so the events form one sequence and the  *)
(* epoch of an event is its index.  Times are those of the recorded_at     *)
(* columns: second precision, so several events share one value of now.    *)
(***************************************************************************)
EXTENDS Naturals, Sequences, FiniteSets

CONSTANTS
    Strategies,     \* the strategies of the deployment
    Tenants,        \* their tenants
    TenantOf,       \* strategies.tenant_id
    Platform,       \* the scope of a row with both ids NULL
    MaxKill,        \* bound: kill events appended
    MaxNow          \* bound: seconds of the wall clock

Scopes == Strategies \cup Tenants \cup {Platform}

ASSUME ScopesAssumption ==
    /\ TenantOf \in [Strategies -> Tenants]
    /\ Strategies \cap Tenants = {}
    /\ Platform \notin Strategies \cup Tenants
ASSUME LedgerBoundsAssumption == MaxKill \in Nat /\ MaxNow \in Nat \ {0}

Times == 1..MaxNow

VARIABLES
    now,            \* the wall clock, in seconds
    kills,          \* kill_breaker_events of kind 'kill', indexed by kill_epoch
    cleared,        \* per scope, MAX(cleared_epoch) of its kill_clear_events
    observed,       \* per scope, the epoch the operator last read and will send
    done,           \* epochs whose event has a safety_effects marker
    superseded      \* those whose marker and alert were written by a clear

ledger == <<kills, cleared, observed, done, superseded>>

KillRow == [scope : Scopes, flatten : BOOLEAN, at : Times]

LedgerTypeOK ==
    /\ now \in Times
    /\ kills \in Seq(KillRow)
    /\ Len(kills) <= MaxKill
    /\ cleared \in [Scopes -> Nat]
    /\ observed \in [Scopes -> Nat]
    /\ done \subseteq DOMAIN kills
    /\ superseded \subseteq done

LedgerInit ==
    /\ now = 1
    /\ kills = <<>>
    /\ cleared = [c \in Scopes |-> 0]
    /\ observed = [c \in Scopes |-> 0]
    /\ done = {} /\ superseded = {}

-----------------------------------------------------------------------------
(* Reads.                                                                  *)

\* The scopes whose rows bind strategy s: the three clauses of the predicate.
Binding(s) == {s, TenantOf[s], Platform}

EpochsAt(c)   == {e \in DOMAIN kills : kills[e].scope = c}
Unserved      == DOMAIN kills \ done
Uncleared(e)  == e > cleared[kills[e].scope]
Binds(e, s)   == kills[e].scope \in Binding(s)

\* MAX(kill_epoch) over the rows of one scope, 0 when it has none.
IsScopeMax(c, m) ==
    /\ m \in EpochsAt(c) \cup {0}
    /\ \A e \in EpochsAt(c) : e <= m

ActiveAt(c)   == \E e \in EpochsAt(c) : Uncleared(e)
ActiveKill(s) == \E e \in DOMAIN kills : Binds(e, s) /\ Uncleared(e)

-----------------------------------------------------------------------------
(* Transactions.                                                           *)

Tick ==
    /\ now < MaxNow
    /\ now' = now + 1
    /\ UNCHANGED ledger

\* AppendStrategyKill, AppendTenantKill, AppendPlatformKill.  MaxKill bounds the
\* events; none is recorded in the last second, which no reconcile could follow.
AppendKill(c, flatten) ==
    /\ Len(kills) < MaxKill
    /\ now < MaxNow
    /\ kills' = Append(kills, [scope |-> c, flatten |-> flatten, at |-> now])
    /\ UNCHANGED <<now, cleared, observed, done, superseded>>

\* The operator reads the kills of a scope before deciding to clear them.
Observe(c) ==
    /\ \E m \in EpochsAt(c) : IsScopeMax(c, m) /\ m # observed[c]
                              /\ observed' = [observed EXCEPT ![c] = m]
    /\ UNCHANGED <<now, kills, cleared, done, superseded>>

\* Covered by a clear of scope c up to epoch m, and without a marker.
Superseded(c, m) == {e \in EpochsAt(c) \ done : e <= m}

\* appendKillClear with the LC-38 carve-out of supersedeUnserved: the active
\* check, the compare against the epoch observed, the clear row, the markers
\* and their alerts are one transaction.
AppendKillClear(c) ==
    /\ ActiveAt(c)
    /\ IsScopeMax(c, observed[c])
    /\ cleared' = [cleared EXCEPT ![c] = observed[c]]
    /\ done' = done \cup Superseded(c, observed[c])
    /\ superseded' = superseded \cup Superseded(c, observed[c])
    /\ UNCHANGED <<now, kills, observed>>

\* AppendSafetyEffectDone (INSERT OR IGNORE).
MarkDone(e) == done' = done \cup {e}

=============================================================================
