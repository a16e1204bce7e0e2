----------------------------- MODULE Proposals -----------------------------
(***************************************************************************)
(* From a proposal to an order: the ingestion handler under the strategy   *)
(* lock (internal/api/proposals.go), the human approval and its timer      *)
(* (approvals.go), the sweep of due timers, and what the OMS behind        *)
(* Submitter makes of an approved verdict.  A submission is a proposal_id  *)
(* and the document sent under it.  Kills are those of KillLedger.         *)
(***************************************************************************)
EXTENDS KillLedger, RiskGate, FiniteSets

CONSTANTS
    Proposals,      \* proposal ids
    Unset,          \* an absent row
    OwnerOf,        \* the strategy of each
    Documents,      \* the payloads a submission may carry (IsProposal)
    Limits,         \* RiskLimits, the same for every strategy
    RateWindow,     \* the sliding window of gate step 8
    ApprovalTimeout,\* l1_approval_timeout_seconds
    Tiers,          \* lifecycle states a strategy may start in
    TierMoves,      \* pairs of states that an operator may move it between
    Posts, Humans,  \* handlers of the two endpoints that may run at once
    MaxMove,        \* bound: lifecycle moves
    MaxGap,         \* bound: quote units a mark is off, past a stop or unrealized
    MaxStop         \* bound: crashes of the control plane

LiveTiers == {"live_l1", "live_l2", "live_l3"}
Statuses  == {"pending_new", "open", "filled", "closed"}
Outcomes  == {"approved", "approved_but_blocked", "rejected", "timeout"}
Decisions == {"approve", "clip", "reject", "escalate"}
Verdicts  == [decision : Decisions, clipped : {0, Limits.cap}, at : Times]
Approvals == [outcome : Outcomes, at : Times]

ASSUME ProposalsAssumption ==
    /\ IsFiniteSet(Proposals)
    /\ OwnerOf \in [Proposals -> Strategies]
    /\ \A d \in Documents : IsProposal(d)
    /\ RateWindow \in Nat \ {0} /\ ApprovalTimeout \in Nat \ {0}
    /\ MaxMove \in Nat /\ MaxGap \in Nat /\ MaxStop \in Nat
ASSUME LimitsAssumption ==
    /\ Limits.dailyLoss \in Nat /\ Limits.maxLoss \in Nat /\ Limits.cap \in Nat
    /\ Limits.maxPositions \in Nat /\ Limits.perWindow \in Nat
ASSUME UnsetAssumption ==
    /\ Unset \notin Documents /\ Unset \notin Times
    /\ Unset \notin Verdicts /\ Unset \notin Approvals /\ Unset \notin Statuses
\* Bound: no strategy is promoted to a live tier here (Lifecycle has promotion).
ASSUME PromotionAssumption == \A m \in TierMoves : m[2] \in LiveTiers => m[1] \in LiveTiers

VARIABLES
    venue,          \* the Submitter wired: "paper" bridge or "live" OMS
    tier,           \* strategies.lifecycle_state
    row,            \* per id, the payload of its proposals row
    verdict,        \* its verdict: decision, clipped size, evaluated_at
    pending,        \* deadline_at of its pending_approvals row
    approval,       \* outcome and decided_at of its approvals row
    failed,         \* ids with a SUBMIT_FAILED row
    order,          \* orders.status of its entry
    sent,           \* quote size of that entry
    loss,           \* quote units realized today as a loss, per strategy
    post,           \* the ingestion handlers
    human,          \* the approval handlers
    sweep,          \* ExpirePendingApprovals: its clock and its list
    tierMoves, halts,
    submits         \* ghost: SubmitApproved calls per id

tables   == <<row, verdict, pending, approval, failed>>
bookOf   == <<order, sent, loss, submits>>
handlers == <<post, human, sweep>>
outside  == <<now, ledger, venue, tier, tierMoves, halts>>
proposalVars == <<outside, tables, bookOf, handlers>>

IdlePost  == [pc |-> "idle"]
IdleHuman == [pc |-> "idle"]
IdleSweep == [pc |-> "idle"]

ProposalsInit ==
    /\ LedgerInit
    /\ venue \in {"paper", "live"}
    /\ tier \in [Strategies -> Tiers]
    /\ \A s \in Strategies : venue = "paper" => tier[s] = "paper"
    /\ row = [p \in Proposals |-> Unset]
    /\ verdict = [p \in Proposals |-> Unset]
    /\ pending = [p \in Proposals |-> Unset]
    /\ approval = [p \in Proposals |-> Unset]
    /\ failed = {}
    /\ order = [p \in Proposals |-> Unset]
    /\ sent = [p \in Proposals |-> 0]
    /\ loss = [s \in Strategies |-> 0]
    /\ submits = [p \in Proposals |-> 0]
    /\ post = [h \in Posts |-> IdlePost]
    /\ human = [u \in Humans |-> IdleHuman]
    /\ sweep = IdleSweep
    /\ tierMoves = 0 /\ halts = 0

-----------------------------------------------------------------------------
(* What hydration and the preflight read.                                  *)

OwnedBy(s)     == {p \in Proposals : OwnerOf[p] = s}
WithStatus(s, status) == {p \in OwnedBy(s) : order[p] = status}

\* CountRateVerdictsSince: approve and clip verdicts of opens and closes.
InWindow(s, t) ==
    {p \in OwnedBy(s) : /\ verdict[p] # Unset
                        /\ verdict[p].decision \in {"approve", "clip"}
                        /\ row[p].act # "hold"
                        /\ verdict[p].at > t - RateWindow}

AutonomyFor(state) ==
    CASE state = "live_l1" -> 1 [] state = "live_l2" -> 2 [] state = "live_l3" -> 3 [] OTHER -> 0

\* foldPositions: entries filled on one symbol are one position, and its unrealized
\* result at the mark of the moment, nothing for a stale one, counts with the day's.
Held(s)       == {row[p].symbol : p \in WithStatus(s, "filled")}
Unrealized(s) == IF Held(s) = {} THEN {0} ELSE -MaxGap .. MaxGap

\* Faulty: a position that is held takes no slot.
RuntimeStateOfPending(s, state, t, fresh, drift) ==
    [killed         |-> ActiveKill(s) \/ state = "killed",
     autonomy       |-> AutonomyFor(state),
     positions      |-> 0,
     pendingEntries |-> Cardinality(WithStatus(s, "open")),
     loss           |-> loss[s] + drift,
     drawdown       |-> loss[s] + drift,
     recent         |-> Cardinality(InWindow(s, t)),
     priced         |-> fresh]

\* Hydrator.State.  ListOpenOrders sees status open only: an entry that is still
\* pending_new takes no slot, and nothing sets ReservedWorstCaseQuote.
RuntimeState(s, state, t, fresh, drift) ==
    [killed         |-> ActiveKill(s) \/ state = "killed",
     autonomy       |-> AutonomyFor(state),
     positions      |-> Cardinality(Held(s)),
     pendingEntries |-> Cardinality(WithStatus(s, "open")),
     loss           |-> loss[s] + drift,
     drawdown       |-> loss[s] + drift,
     recent         |-> Cardinality(InWindow(s, t)),
     priced         |-> fresh]

\* MaxKillEpoch(strategy, evaluated_at) > 0, cleared or not.
KilledSince(s, t) == \E e \in DOMAIN kills : Binds(e, s) /\ kills[e].at >= t

-----------------------------------------------------------------------------
(* The OMS.  SubmitApproved takes the proposal or returns an error; the    *)
(* live OMS refuses an entry under an active kill.  An open carries the    *)
(* clipped size, or else the size of the proposal.                         *)

SizeOf(p) == IF verdict[p].clipped # 0 THEN verdict[p].clipped ELSE row[p].size

Accepted(p) ==
    /\ submits' = [submits EXCEPT ![p] = @ + 1]
    /\ IF Opens(row[p])
       THEN /\ venue = "live" => ~ActiveKill(OwnerOf[p])
            /\ order' = [order EXCEPT ![p] = IF venue = "live" THEN "pending_new" ELSE "open"]
            /\ sent' = [sent EXCEPT ![p] = SizeOf(p)]
       ELSE UNCHANGED <<order, sent>>
    /\ UNCHANGED loss

Rejected(p) == submits' = [submits EXCEPT ![p] = @ + 1] /\ UNCHANGED <<order, sent, loss>>

\* The venue acknowledges, fills or cancels an entry.
OrderMoves(p, from, to) ==
    /\ order[p] = from
    /\ order' = [order EXCEPT ![p] = to]
    /\ UNCHANGED <<outside, tables, sent, loss, submits, handlers>>

Acknowledge(p) == OrderMoves(p, "pending_new", "open")
Fill(p)        == OrderMoves(p, "open", "filled")
Cancel(p)      == OrderMoves(p, "open", "closed") \/ OrderMoves(p, "pending_new", "closed")

\* What the close of an entry loses: a profit, or more than the worst case that the gate
\* judged - a stop fills at the mark that triggered it, with slippage and a fee.
Losses(p) == {-MaxGap, sent[p] * row[p].stop + MaxGap}

\* An entry's share of the position of its symbol is closed; netted against another
\* entry, both are.
CloseOut(p, lost) ==
    /\ order[p] = "filled"
    /\ order' = [order EXCEPT ![p] = "closed"]
    /\ loss' = [loss EXCEPT ![OwnerOf[p]] = @ + lost]
    /\ UNCHANGED <<outside, tables, sent, submits, handlers>>

VenueMoves ==
    \E p \in Proposals :
        \/ Acknowledge(p) \/ Fill(p) \/ Cancel(p)
        \/ order[p] = "filled" /\ \E lost \in Losses(p) : CloseOut(p, lost)

-----------------------------------------------------------------------------
(* POST /strategies/{id}/proposals.                                        *)

\* The time of the request is taken before the body is read and the lock
\* acquired.  None arrives whose timer could not expire before MaxNow.
Receive(h, p, d) ==
    /\ post[h] = IdlePost
    /\ now + ApprovalTimeout <= MaxNow
    /\ post' = [post EXCEPT ![h] = [pc |-> "waiting", id |-> p, doc |-> d, at |-> now]]
    /\ UNCHANGED <<outside, tables, bookOf, human, sweep>>

InLock(h, s)  == post[h].pc \notin {"idle", "waiting"} /\ OwnerOf[post[h].id] = s

LockFree(s)   == \A h \in Posts : ~InLock(h, s)

Waiting(h) == post[h].pc = "waiting" /\ LockFree(OwnerOf[post[h].id])
Answer(h)  == post' = [post EXCEPT ![h] = IdlePost]

\* IsDuplicateProposal: the payload of the row is this one.
Duplicate(h) == row[post[h].id] = post[h].doc

\* A verbatim duplicate that has its verdict: it is answered as it is stored.
AnswerStored(h) ==
    /\ Waiting(h) /\ Duplicate(h)
    /\ verdict[post[h].id] # Unset
    /\ Answer(h)
    /\ UNCHANGED <<outside, tables, bookOf, human, sweep>>

\* 429 of the proposal rate limiter, or 409: the id has another payload.
TurnAway(h) ==
    /\ Waiting(h) /\ ~(Duplicate(h) /\ verdict[post[h].id] # Unset)
    /\ Answer(h)
    /\ UNCHANGED <<outside, tables, bookOf, human, sweep>>

\* InsertProposal, under the lock; st is the lifecycle state read there.
Admit(h) ==
    LET p == post[h].id IN
    /\ Waiting(h)
    /\ \/ row[p] = Unset
       \/ Duplicate(h) /\ verdict[p] = Unset
    /\ row' = [row EXCEPT ![p] = post[h].doc]
    /\ post' = [post EXCEPT ![h] = [pc |-> "admitted", id |-> p, at |-> post[h].at,
                                    st |-> tier[OwnerOf[p]]]]
    /\ UNCHANGED <<outside, verdict, pending, approval, failed, bookOf, human, sweep>>

\* Hydrate and evaluate; the decision is in hand, not yet stored.
Judge(h) ==
    LET p == post[h].id IN
    /\ post[h].pc = "admitted"
    /\ \E fresh \in BOOLEAN, drift \in Unrealized(OwnerOf[p]) :
           LET state == RuntimeState(OwnerOf[p], post[h].st, post[h].at, fresh, drift)
               v     == Evaluate(row[p], Limits, state, post[h].at)
           IN post' = [post EXCEPT ![h] = [pc |-> "judged", id |-> p, at |-> post[h].at, st |-> post[h].st,
                                           decision |-> v.decision, clipped |-> v.clipped]]
    /\ UNCHANGED <<outside, tables, bookOf, human, sweep>>

\* Who is submitted without a human: paper on the paper bridge only (LC-14a).
Direct(st) == st \in {"live_l2", "live_l3"} \/ (st = "paper" /\ venue = "paper")

\* routeExecution of a verdict of decision x for proposal d.
RouteOf(x, d, st) ==
    IF d.act = "hold" \/ x = "reject" THEN "nothing"
    ELSE IF x = "escalate" \/ st = "live_l1" THEN "arm"
    ELSE IF Direct(st) THEN "submit" ELSE "nothing"

\* InsertVerdict: the stored verdict wins, and whoever stored it owns the routing.
StoreVerdict(h) ==
    LET p     == post[h].id
        x     == post[h].decision
        first == verdict[p] = Unset
        route == IF first THEN RouteOf(x, row[p], post[h].st) ELSE "nothing" IN
    /\ post[h].pc = "judged"
    /\ verdict' = IF first
                  THEN [verdict EXCEPT ![p] = [decision |-> x, clipped |-> post[h].clipped, at |-> post[h].at]]
                  ELSE verdict
    /\ post' = [post EXCEPT ![h] = IF route = "nothing" THEN IdlePost
                                   ELSE [pc |-> route, id |-> p, at |-> post[h].at]]
    /\ UNCHANGED <<outside, row, pending, approval, failed, bookOf, human, sweep>>

\* CreatePendingApproval.
Arm(h) ==
    LET p == post[h].id IN
    /\ post[h].pc = "arm"
    /\ pending' = [pending EXCEPT ![p] = post[h].at + ApprovalTimeout]
    /\ Answer(h)
    /\ UNCHANGED <<outside, row, verdict, approval, failed, bookOf, human, sweep>>

Submit(h) ==
    LET p == post[h].id IN
    /\ post[h].pc = "submit"
    /\ \/ Accepted(p) /\ Answer(h)
       \/ Rejected(p) /\ post' = [post EXCEPT ![h].pc = "record"]
    /\ UNCHANGED <<outside, tables, human, sweep>>

\* recordSubmitFailure.
Record(h) ==
    /\ post[h].pc = "record"
    /\ failed' = failed \cup {post[h].id}
    /\ Answer(h)
    /\ UNCHANGED <<outside, row, verdict, pending, approval, bookOf, human, sweep>>

-----------------------------------------------------------------------------
(* POST /strategies/{id}/approvals.                                        *)

\* The verdict is read, then the clock; a rejection needs no preflight.
Decide(u, p, yes) ==
    /\ human[u] = IdleHuman
    /\ verdict[p] # Unset
    /\ human' = [human EXCEPT ![u] = [pc |-> IF yes THEN "preflight" ELSE "resolve", id |-> p,
                                      at |-> now, outcome |-> "rejected"]]
    /\ UNCHANGED <<outside, tables, bookOf, post, sweep>>

\* The re-check outside every lock; a stale mark blocks too.
Recheck(u) ==
    LET p == human[u].id
        s == OwnerOf[p]
        clear == tier[s] = "live_l1" /\ ~KilledSince(s, verdict[p].at)
    IN
    /\ human[u].pc = "preflight"
    /\ \E fresh \in BOOLEAN, drift \in Unrealized(s) :
           human' = [human EXCEPT ![u].pc = "resolve",
                         ![u].outcome = IF clear /\ fresh /\ loss[s] + drift < Limits.dailyLoss
                                        THEN "approved" ELSE "approved_but_blocked"]
    /\ UNCHANGED <<outside, tables, bookOf, post, sweep>>

\* Faulty: a second decision replaces the recorded one.
OpenForDecisionAgain(p) == pending[p] # Unset

\* ResolveApproval: a pending row and no decision yet.
OpenForDecision(p) == pending[p] # Unset /\ approval[p] = Unset

\* The first decision wins and only an approved one goes on to the OMS.
Resolve(u) ==
    LET p == human[u].id
        wins == OpenForDecision(p) IN
    /\ human[u].pc = "resolve"
    /\ approval' = IF wins THEN [approval EXCEPT ![p] = [outcome |-> human[u].outcome, at |-> human[u].at]]
                   ELSE approval
    /\ human' = [human EXCEPT ![u] =
                     IF wins /\ @.outcome = "approved" THEN [pc |-> "submit", id |-> p] ELSE IdleHuman]
    /\ UNCHANGED <<outside, row, verdict, pending, failed, bookOf, post, sweep>>

SubmitDecided(u) ==
    LET p == human[u].id IN
    /\ human[u].pc = "submit"
    /\ \/ Accepted(p) /\ human' = [human EXCEPT ![u] = IdleHuman]
       \/ Rejected(p) /\ human' = [human EXCEPT ![u].pc = "record"]
    /\ UNCHANGED <<outside, tables, post, sweep>>

RecordDecided(u) ==
    /\ human[u].pc = "record"
    /\ failed' = failed \cup {human[u].id}
    /\ human' = [human EXCEPT ![u] = IdleHuman]
    /\ UNCHANGED <<outside, row, verdict, pending, approval, bookOf, post, sweep>>

-----------------------------------------------------------------------------
(* ExpirePendingApprovals, at start and on a timer.                        *)

\* Faulty: a timer is due after its deadline, not at it.
DueAfterDeadline(t) == {p \in Proposals : OpenForDecision(p) /\ pending[p] < t}

\* Undecided rows with deadline_at <= now.
DueUndecided(t) == {p \in Proposals : OpenForDecision(p) /\ pending[p] <= t}

StartSweepOfTimers ==
    /\ sweep = IdleSweep
    /\ DueUndecided(now) # {}
    /\ sweep' = [pc |-> "resolve", at |-> now, todo |-> DueUndecided(now)]
    /\ UNCHANGED <<outside, tables, bookOf, post, human>>

\* A decision of the meantime wins.
ExpireNext ==
    /\ sweep # IdleSweep
    /\ \E p \in sweep.todo :
           /\ approval' = IF OpenForDecision(p)
                          THEN [approval EXCEPT ![p] = [outcome |-> "timeout", at |-> sweep.at]]
                          ELSE approval
           /\ sweep' = IF sweep.todo = {p} THEN IdleSweep ELSE [sweep EXCEPT !.todo = @ \ {p}]
    /\ UNCHANGED <<outside, row, verdict, pending, failed, bookOf, post, human>>

-----------------------------------------------------------------------------
(* The operator, the driver and crashes.                                   *)

KillOrClear ==
    /\ \E s \in Strategies : AppendKill(s, FALSE) \/ Observe(s) \/ AppendKillClear(s)
    /\ UNCHANGED <<venue, tier, tierMoves, halts, tables, bookOf, handlers>>

\* The lifecycle handler holds the strategy lock; the driver's lock does not.
MoveTier(s, to) ==
    /\ \/ <<tier[s], to>> \in TierMoves /\ LockFree(s)
       \/ to = "killed" /\ ActiveKill(s) /\ tier[s] \in LiveTiers
    /\ tierMoves < MaxMove
    /\ tierMoves' = tierMoves + 1
    /\ tier' = [tier EXCEPT ![s] = to]
    /\ UNCHANGED <<now, ledger, venue, halts, tables, bookOf, handlers>>

TimePasses == Tick /\ UNCHANGED <<venue, tier, tierMoves, halts, tables, bookOf, handlers>>

\* The tables survive; handlers and the sweep do not.
Halt ==
    /\ halts < MaxStop
    /\ halts' = halts + 1
    /\ post' = [h \in Posts |-> IdlePost]
    /\ human' = [u \in Humans |-> IdleHuman]
    /\ sweep' = IdleSweep
    /\ UNCHANGED <<now, ledger, venue, tier, tierMoves, tables, bookOf>>

-----------------------------------------------------------------------------

PostStep(h) ==
    \/ AnswerStored(h) \/ TurnAway(h) \/ Admit(h) \/ Judge(h)
    \/ StoreVerdict(h) \/ Arm(h) \/ Submit(h) \/ Record(h)

HumanStep(u) == Recheck(u) \/ Resolve(u) \/ SubmitDecided(u) \/ RecordDecided(u)

SweepStep == StartSweepOfTimers \/ ExpireNext

ProposalsNext ==
    \/ \E h \in Posts, p \in Proposals, d \in Documents : Receive(h, p, d)
    \/ \E h \in Posts : PostStep(h)
    \/ \E u \in Humans, p \in Proposals, yes \in BOOLEAN : Decide(u, p, yes)
    \/ \E u \in Humans : HumanStep(u)
    \/ SweepStep
    \/ VenueMoves
    \/ KillOrClear
    \/ \E s \in Strategies, to \in Tiers \cup {"killed"} : MoveTier(s, to)
    \/ TimePasses
    \/ Halt

ProposalsSpec == ProposalsInit /\ [][ProposalsNext]_proposalVars

-----------------------------------------------------------------------------
(* Types.                                                                  *)

Sizes == 0..Limits.cap \cup {d.size : d \in Documents}

PostOK(h) ==
    /\ post[h].pc \in {"idle", "waiting", "admitted", "judged", "arm", "submit", "record"}
    /\ post[h] # IdlePost => post[h].id \in Proposals /\ post[h].at \in Times
    /\ post[h].pc \in {"arm", "submit", "record"} => verdict[post[h].id] # Unset

HumanOK(u) ==
    /\ human[u].pc \in {"idle", "preflight", "resolve", "submit", "record"}
    /\ human[u] # IdleHuman => human[u].id \in Proposals /\ verdict[human[u].id] # Unset

ProposalsTypeOK ==
    /\ LedgerTypeOK
    /\ venue \in {"paper", "live"}
    /\ row \in [Proposals -> Documents \cup {Unset}]
    /\ \A p \in Proposals :
          /\ verdict[p] # Unset => verdict[p].decision \in Decisions /\ verdict[p].at \in Times
          /\ pending[p] \in Times \cup {Unset}
          /\ approval[p] # Unset => approval[p].outcome \in Outcomes /\ pending[p] # Unset
    /\ failed \subseteq Proposals
    /\ order \in [Proposals -> Statuses \cup {Unset}]
    /\ sent \in [Proposals -> Sizes]
    /\ loss \in [Strategies -> Int] /\ submits \in [Proposals -> Nat]
    /\ \A h \in Posts : PostOK(h)
    /\ \A u \in Humans : HumanOK(u)

-----------------------------------------------------------------------------
(* Properties.                                                             *)

\* Retries of the POST, concurrent posts of one id, two humans, the timer and
\* crashes submit a proposal at most once ("the OMS submits at most once", the
\* row insert of ResolveApproval and the lock of handlePostProposal).
SubmittedOnce == \A p \in Proposals : submits[p] <= 1

DirectVerdict(p) == verdict[p].decision \in {"approve", "clip"} /\ pending[p] = Unset
ApprovedBy(p)    == approval[p] # Unset /\ approval[p].outcome = "approved"

\* What reached the OMS was approved by the gate alone, with no timer armed, or
\* by the one recorded decision: an escalated, rejected, timed out or blocked
\* proposal never does (routeExecution, ResolveApproval).
OrderWasAllowed ==
    \A p \in Proposals :
        submits[p] > 0 => row[p].act # "hold" /\ (DirectVerdict(p) \/ ApprovedBy(p))

\* In every sliding window the gate let through at most max_orders_per_minute
\* opens and closes, whatever the order in which requests, stamped at receipt,
\* get the lock (gate step 8).
RateBound ==
    \A p \in Proposals : verdict[p] # Unset =>
        LET t == verdict[p].at
        IN Cardinality({q \in OwnedBy(OwnerOf[p]) :
                /\ verdict[q] # Unset /\ row[q].act # "hold"
                /\ verdict[q].decision \in {"approve", "clip"}
                /\ verdict[q].at \in (t - RateWindow + 1) .. t}) <= Limits.perWindow

\* A decision is recorded approved only if no kill, cleared since or not, was
\* recorded from the second of the verdict until the decision (the preflight).
ApprovedSawNoKill ==
    \A p \in Proposals : ApprovedBy(p) =>
        ~\E e \in DOMAIN kills : /\ Binds(e, OwnerOf[p])
                                 /\ kills[e].at \in verdict[p].at .. (approval[p].at - 1)

\* Paper orders are open or filled within the submitting handler's lock, so open
\* entries and the positions they grow into never hold more than max_open_positions
\* slots together, though fills free slots and take them in between (gate step 9).
PaperSlotsBound ==
    venue = "paper" => \A s \in Strategies :
        Cardinality(Held(s)) + Cardinality(WithStatus(s, "open")) <= Limits.maxPositions

\* Nothing reaches the OMS without its one allowing decision, or twice (evaluateAndRoute,
\* handlePostApproval, ExpirePendingApprovals).
OrdersAllowed == SubmittedOnce /\ OrderWasAllowed /\ ApprovedSawNoKill

\* The limits that the gate judges on its snapshot hold in the state it leads to, though
\* handlers, fills and stop-outs overlap (checkOpen, CountRateVerdictsSince).  The loss
\* of the day is not among them: nothing bounds it once an entry is in.
LimitsHold == RateBound /\ PaperSlotsBound

\* An armed timer ends in a decision: of a human, or of the sweep after the
\* deadline, across restarts (default-deny of ExpirePendingApprovals).
PendingEventuallyDecided ==
    \A p \in Proposals : pending[p] # Unset ~> approval[p] # Unset

=============================================================================
