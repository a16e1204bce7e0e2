------------------------------ MODULE RiskGate ------------------------------
(***************************************************************************)
(* internal/riskgate: the deterministic gate, a function of a proposal,    *)
(* the strategy's limits, the hydrated runtime state and the clock.  Which *)
(* of the ordered checks failed first decides the reason only, so the      *)
(* rejections are a disjunction.  Quantities are whole quote units;        *)
(* a.stop, the distance of the stop from the entry, is the worst-case loss *)
(* per unit of size.                                                       *)
(***************************************************************************)
EXTENDS Integers

\* The proposals a submission may carry.  valid: Validate and schema version;
\* confident: confidence >= 0.3; listed: symbol on the whitelist; stop 0: none; the
\* symbol may be anything.
IsProposal(d) ==
    /\ d.act \in {"open", "close", "hold"}
    /\ d.valid \in BOOLEAN /\ d.confident \in BOOLEAN /\ d.listed \in BOOLEAN
    /\ d.limit \in BOOLEAN
    /\ d.made \in Int /\ d.stop \in Nat /\ d.size \in Nat

WorstCase(d) == d.size * d.stop
Opens(d)     == d.act = "open"

\* entryPrice and the zero-price guard: a market entry needs a mark.
Unpriced(d, s) == ~d.limit /\ ~s.priced

\* Step 2, against the receipt time of the request.
Stale(d, lim, t) == t - d.made > lim.stale \/ d.made - t > lim.skew

\* Step 4: what the day has lost, no profit set against it, plus what this order risks.
LossOfDay(result) == IF result > 0 THEN result ELSE 0
LossSpent(d, lim, s) == LossOfDay(s.loss) + WorstCase(d) >= lim.dailyLoss

\* Steps 4 to 7.
OpenRefused(d, lim, s) ==
    \/ Unpriced(d, s)
    \/ ~d.confident
    \/ LossSpent(d, lim, s)
    \/ s.drawdown > lim.maxDrawdown
    \/ ~d.listed
    \/ IF d.stop = 0 THEN lim.needStop
       ELSE d.stop < lim.minStop \/ d.stop > lim.maxStop \/ WorstCase(d) > lim.maxLoss

\* Step 9: open positions and pending entries share the slots.
NoSlot(lim, s) == s.positions + s.pendingEntries >= lim.maxPositions

\* Step 8: opens and closes.
RateFull(d, lim, s) == d.act # "hold" /\ s.recent >= lim.perWindow

Refused(d, lim, s, t) ==
    \/ ~d.valid
    \/ s.killed
    \/ Stale(d, lim, t)
    \/ Opens(d) /\ OpenRefused(d, lim, s)
    \/ RateFull(d, lim, s)
    \/ Opens(d) /\ (NoSlot(lim, s) \/ lim.cap = 0)

Effective(d, lim) == IF d.size > lim.cap THEN lim.cap ELSE d.size

\* Step 11, on the size after the clip.
AboveEnvelope(d, lim, s) == s.autonomy = 2 /\ Effective(d, lim) > lim.envelope

\* The verdict: its decision, and the size of a clip (0: none).
Evaluate(d, lim, s, t) ==
    IF Refused(d, lim, s, t) THEN [decision |-> "reject", clipped |-> 0]
    ELSE IF Opens(d) /\ AboveEnvelope(d, lim, s) THEN [decision |-> "escalate", clipped |-> 0]
    ELSE IF Opens(d) /\ d.size > lim.cap THEN [decision |-> "clip", clipped |-> lim.cap]
    ELSE [decision |-> "approve", clipped |-> 0]

=============================================================================
