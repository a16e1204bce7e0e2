----------------------------- MODULE MCTrading -----------------------------
(***************************************************************************)
(* Instances for TLC of the path of a decision into an order: the agent    *)
(* plane's tick that makes the proposal, the control plane that judges it  *)
(* and has it approved, the paper OMS that fills it, the live OMS's        *)
(* booking of the fills of the exchange, and the bill for the model calls  *)
(* that made it.  The five share no variable here, so one run explores     *)
(* them side by side: a behaviour belongs to the part chosen initially.    *)
(***************************************************************************)
EXTENDS MCParts, Proposals, PaperOMS, AgentTick, FillBooking, Billing, TLC

OneStrategy == [p \in Proposals |-> s1]

-----------------------------------------------------------------------------
(* What the parts are given.                                               *)

Small == [act |-> "open", valid |-> TRUE, confident |-> TRUE, listed |-> TRUE,
          limit |-> TRUE, made |-> 1, stop |-> 1, size |-> 1, symbol |-> "BTC"]
Big   == [Small EXCEPT !.size = 4, !.limit = FALSE]
Other == [Big EXCEPT !.symbol = "ETH"]
Close == [Small EXCEPT !.act = "close"]
Hold  == [Small EXCEPT !.act = "hold"]

ManyDocuments == {Small, Big, Other, Close, Hold}

SomeLimits ==
    [stale |-> 2, skew |-> 0, dailyLoss |-> 5, maxDrawdown |-> 20, needStop |-> TRUE,
     minStop |-> 1, maxStop |-> 1, maxLoss |-> 4, perWindow |-> 2, maxPositions |-> 2,
     cap |-> 3, envelope |-> 1]

SomeTiers == {"paper", "live_l1", "live_l2", "paused"}
SomeMoves == {<<"live_l1", "live_l2">>, <<"live_l2", "live_l1">>, <<"live_l1", "paused">>}

MarketLong  == [buy |-> TRUE, qty |-> 1, at |-> 0, stop |-> 12, take |-> 36]
LimitLong   == [buy |-> TRUE, qty |-> 2, at |-> 24, stop |-> 12, take |-> 0]
MarketShort == [buy |-> FALSE, qty |-> 2, at |-> 0, stop |-> 36, take |-> 0]
SomeEntries == {MarketLong, LimitLong, MarketShort}

\* One closed trade after a day is enough for the gate.
SomeGate == [minDays |-> 1, minTrades |-> 1, limits |-> [ok |-> TRUE, cap |-> 60, drawdown |-> 20]]

\* Two runs of one tenant's strategy, the second over the end of the month and
\* reporting one call twice; the third, of another tenant, reports the call of the
\* first; the gateway's exports disagree with it and with one another.
PayerOfClient == [c \in Clients |-> IF c = "c1" THEN "t1" ELSE "t2"]
ClientOfRun   == [r \in AgentRuns |-> IF r = "r3" THEN "c2" ELSE "c1"]
Cost(k)  == [call |-> k, estimated |-> FALSE, tokens |-> 1, cost |-> 1]
Guess(k) == [call |-> k, estimated |-> TRUE, tokens |-> 2, cost |-> 2]
SomeEnvelopes ==
    [r \in AgentRuns |->
        CASE r = "r1" -> {[month |-> 1, costs |-> <<Cost("k1")>>],
                          [month |-> 1, costs |-> <<Cost("k1"), Guess("k2")>>]}
          [] r = "r2" -> {[month |-> 2, costs |-> <<Cost("k2"), Cost("k2")>>]}
          [] r = "r3" -> {[month |-> 1, costs |-> <<Cost("k1")>>]}]
SomeExports ==
    {[call |-> "k1", client |-> "c1", month |-> 1, tokens |-> 1, cost |-> 2],
     [call |-> "k1", client |-> "c2", month |-> 1, tokens |-> 1, cost |-> 1],
     [call |-> "k2", client |-> "c1", month |-> 2, tokens |-> 2, cost |-> 1]}

-----------------------------------------------------------------------------

tradingVars == <<part, proposalVars, paperVars, agentVars, fillVars, billingVars>>

TradingInit ==
    /\ part \in {"agent", "proposals", "paper", "fills", "billing"}
    /\ AgentInit /\ ProposalsInit /\ PaperInit /\ FillsInit /\ BillingInit
    /\ part # "proposals" => venue = "paper"

OfAgent(A) ==
    part = "agent" /\ A /\ UNCHANGED <<part, proposalVars, paperVars, fillVars, billingVars>>
OfProposals(A) ==
    part = "proposals" /\ A /\ UNCHANGED <<part, agentVars, paperVars, fillVars, billingVars>>
OfPaper(A) ==
    part = "paper" /\ A /\ UNCHANGED <<part, agentVars, proposalVars, fillVars, billingVars>>
OfFills(A) ==
    part = "fills" /\ A /\ UNCHANGED <<part, agentVars, proposalVars, paperVars, billingVars>>
OfBilling(A) ==
    part = "billing" /\ A /\ UNCHANGED <<part, agentVars, proposalVars, paperVars, fillVars>>

TradingNext ==
    \/ OfAgent(AgentNext)
    \/ OfProposals(ProposalsNext)
    \/ OfPaper(PaperNext)
    \/ OfFills(FillsNext)
    \/ OfBilling(BillingNext)

\* Types of the part that moves; the others stay as they start.
TradingTypeOK ==
    CASE part = "agent" -> AgentTypeOK
      [] part = "proposals" -> ProposalsTypeOK
      [] part = "paper" -> PaperTypeOK
      [] part = "fills" -> FillsTypeOK
      [] part = "billing" -> BillingTypeOK

TradingSpec == TradingInit /\ [][TradingNext]_tradingVars

-----------------------------------------------------------------------------
(* Scenarios of the proposals.                                             *)

Busy    == {h \in Posts : post[h] # IdlePost}
Used    == {p \in Proposals : row[p] # Unset \/ \E h \in Busy : post[h].id = p}
Carried == {row[p] : p \in Proposals} \cup {post[h].doc : h \in {g \in Busy : post[g].pc = "waiting"}}
Alone   == \A u \in Humans : human[u] = IdleHuman
Steady  == kills = <<>> /\ tierMoves = 0 /\ halts = 0
Quiet   == Steady /\ Alone
Symmetric == Permutations(Proposals) \cup Permutations(Posts) \cup Permutations(Humans)

\* One proposal is retried, decided by two humans, or disturbed once by a kill,
\* a move of its strategy or a crash.
Decided ==
    /\ venue = "live" /\ Cardinality(Used) <= 1
    /\ \A p \in Proposals : order[p] \in {Unset, "pending_new"}
    /\ Cardinality({i \in 1..3 : <<Len(kills), tierMoves, halts>>[i] > 0})
          <= (IF Cardinality({u \in Humans : human[u] # IdleHuman}) = 2 THEN 0 ELSE 1)
    /\ Carried \subseteq {Small, Big, Unset}
    /\ (Alone \/ Cardinality(Busy) <= 1)
    /\ Cardinality(Carried \ {Unset}) <= 1

\* On paper, where nobody approves, three entries compete, one at a time where one of
\* them is in the other symbol; live, two do, a hold beside no other; a clipped one is
\* decided without a kill, a move or a crash.
ProposalScenario ==
    \/ venue = "paper" /\ Quiet /\ Carried \subseteq {Big, Unset}
    \/ /\ venue = "paper" /\ Quiet /\ Carried \subseteq {Big, Other, Unset} /\ Cardinality(Busy) <= 1
       /\ Cardinality({p \in Used : row[p] = Other}) <= 1 /\ now <= 2
    \/ /\ venue = "live" /\ Quiet /\ Cardinality(Used) <= 2
       /\ \/ Carried \subseteq {Small, Close, Unset}
          \/ Carried \subseteq {Hold, Unset}
       /\ \A p \in Proposals : submits[p] = 0
    \/ /\ Decided
       /\ \A h \in Busy : post[h].at = 1
       /\ Big \in Carried => Steady

\* Paper: submissions in order; three, or two and one disturbance.
PaperScenario ==
    /\ paperFaults + reloads + (day - 1) <= (IF Cardinality(given) = 3 THEN 0 ELSE 1)
    /\ \A q \in given : \A p \in Submissions : p < q => p \in given

\* The agent: any pipeline with an obedient network, or the other way round.
Obliging(t) ==
    thread[t] # Absent => /\ ~thread[t].flagged /\ ~thread[t].degraded
                          /\ thread[t].proposal # Absent => ~thread[t].proposal.hold

AgentScenario ==
    \/ misses = 0 /\ tickFile = 0 /\ mail = {}
    \/ Cardinality(mail) <= 2 /\ \A t \in Ticks : Obliging(t)

\* Fills: three executions of the order undisturbed, or two of any with an outage and
\* an accepted reset.
FillsScenario == Len(trades) = 3 => outages + epoch = 0 /\ ToSet(trades) \cap Strays = {}

\* Billing: three closes of the first tenant's rows without exports, or two of both
\* tenants', or exports with fewer closes or rows.
TracedRuns == {r \in AgentRuns : ingested[r] # Unknown}
BillingScenario ==
    \/ /\ audited = 0 /\ \A c \in Calls : metered[c] = Unknown
       /\ Len(periods) = 3 => "r3" \notin TracedRuns
    \/ Len(periods) <= 1 /\ Cardinality(TracedRuns) <= 2
    \/ Len(periods) <= 2 /\ TracedRuns \subseteq {"r1"} /\ \A i \in DOMAIN periods : periods[i].payer = "t1"

TradingScenario ==
    CASE part = "agent" -> AgentScenario
      [] part = "proposals" -> ProposalScenario
      [] part = "paper" -> PaperScenario
      [] part = "fills" -> FillsScenario
      [] part = "billing" -> BillingScenario

-----------------------------------------------------------------------------
(* The scheduler's loop, the approval timer's sweep, the paper bridge's tick, *)
(* Run's loop and its ticker are scheduled, a called request times out and    *)
(* the clock moves on.                                                        *)

Fairness ==
    /\ WF_tradingVars(OfAgent(AgentStep))
    /\ WF_tradingVars(OfAgent(TimeOut))
    /\ WF_tradingVars(OfProposals(TimePasses))
    /\ WF_tradingVars(OfProposals(SweepStep))
    /\ WF_tradingVars(OfPaper(BridgeStep))
    /\ WF_tradingVars(OfPaper(\E m \in Marks : StartSweep(m)))
    /\ WF_tradingVars(OfFills(LoopStep))
    /\ WF_tradingVars(OfFills(RunStep))
    /\ WF_tradingVars(OfFills(PeriodicRun))

TradingFairSpec == TradingSpec /\ Fairness

TradingLiveScenario ==
    CASE part = "agent" -> Cardinality(mail) <= 2
      [] part = "proposals" -> Decided
      [] part = "paper" -> PaperScenario
      [] part \in {"fills", "billing"} -> TRUE

=============================================================================
