----------------------------- MODULE AgentTick -----------------------------
(***************************************************************************)
(* One strategy's loop in the agent plane (scheduler/loop.py, state.py),   *)
(* the checkpointed pipeline it runs (pipeline/graph.py), its HTTP client  *)
(* (client/http.py, controlplane.py), and the two ingestion handlers of    *)
(* the control plane it talks to (store/write.go, store/trace.go).  The    *)
(* process may end anywhere, a request or its answer may be lost, and a    *)
(* request that timed out may still arrive.                                *)
(***************************************************************************)
EXTENDS Integers, FiniteSets, Functions

CONSTANTS
    Absent,         \* no checkpoint, proposal, trace or answer
    Analysts,       \* the three roles that run first
    MaxRounds,      \* max_debate_rounds
    MaxAttempts,    \* MAX_ATTEMPTS of HttpTransport.post
    MaxTick,        \* bound: ticks
    MaxCut,         \* bound: ends of the agent's process
    MaxMiss         \* bound: error answers, failed snapshots and pipelines

Stages  == {"analysts", "debate", "judge", "trader", "done"}
Answers == {"ok", "unavailable", "conflict", "unknown"}

\* What the pipeline ends with, and its state as it is saved after each node.
Decision == [pid : Nat, hold : BOOLEAN, cost : Nat]
Checkpoint ==
    [run : Nat, briefed : SUBSET Analysts, rounds : Nat, flagged : BOOLEAN, degraded : BOOLEAN,
     stage : Stages, cost : Nat, proposal : Decision \cup {Absent}]

ASSUME AgentAssumption ==
    /\ Absent \notin Nat \cup Answers /\ Absent \notin Decision /\ Absent \notin Checkpoint
    /\ MaxRounds \in Nat /\ MaxAttempts \in Nat \ {0}
    /\ MaxTick \in Nat /\ MaxCut \in Nat /\ MaxMiss \in Nat

Ticks == 0..MaxTick

VARIABLES
    agent,          \* the task of the strategy: where it is, and its request
    tickFile,       \* next_tick_number on disk
    thread,         \* per tick, the checkpoint of its thread
    lastId,         \* the id factory: ids are never used twice
    mail,           \* requests on their way to the control plane
    runRows,        \* runs rows: the run of a (strategy_id, tick_number)
    proposalRows,   \* proposals rows
    traceRows,      \* agent_traces rows
    spent,          \* token_budget_ledger
    cuts, misses,
    defects,        \* ghost: ticks for which a failure was logged
    called          \* ghost: calls the nodes of a tick's thread paid for

controlPlane == <<runRows, proposalRows, traceRows, spent>>
agentVars == <<agent, tickFile, thread, lastId, mail, controlPlane, cuts, misses, defects, called>>

Asleep == [pc |-> "idle"]

AgentInit ==
    /\ agent = Asleep /\ tickFile = 0
    /\ thread = [t \in Ticks |-> Absent]
    /\ lastId = 0 /\ mail = {}
    /\ runRows = [t \in Ticks |-> Absent] /\ proposalRows = {} /\ traceRows = {} /\ spent = 0
    /\ cuts = 0 /\ misses = 0 /\ defects = {}
    /\ called = [t \in Ticks |-> 0]

Misses == misses < MaxMiss /\ misses' = misses + 1

\* A failure of tick t is logged and the loop goes on.
Logs(t) == defects' = defects \cup {t}

-----------------------------------------------------------------------------
(* The tick: _run_strategy, run_tick.                                      *)

At(pc) == [pc |-> pc, tick |-> tickFile]

NewThread(id) ==
    [run |-> id, briefed |-> {}, rounds |-> 0, flagged |-> FALSE, degraded |-> FALSE,
     stage |-> "analysts", cost |-> 0, proposal |-> Absent]

\* A tick that has a checkpoint resumes it and asks for no snapshot.
BeginTick ==
    /\ agent = Asleep /\ tickFile <= MaxTick
    /\ \/ /\ thread[tickFile] # Absent
          /\ agent' = At("pipeline")
          /\ UNCHANGED <<thread, lastId, misses, defects>>
       \/ /\ thread[tickFile] = Absent
          /\ thread' = [thread EXCEPT ![tickFile] = NewThread(lastId + 1)]
          /\ lastId' = lastId + 1
          /\ agent' = At("pipeline")
          /\ UNCHANGED <<misses, defects>>
       \/ /\ thread[tickFile] = Absent        \* the snapshot fails
          /\ Misses /\ Logs(tickFile)
          /\ agent' = At("advance")
          /\ UNCHANGED <<thread, lastId>>
    /\ UNCHANGED <<tickFile, mail, controlPlane, cuts, called>>

\* advance: a new file replaces the old one.
ConcludeTick ==
    /\ agent.pc = "advance"
    /\ tickFile' = agent.tick + 1
    /\ agent' = Asleep
    /\ UNCHANGED <<thread, lastId, mail, controlPlane, cuts, misses, defects, called>>

-----------------------------------------------------------------------------
(* The graph.  A role's call yields an answer, is unavailable, or ends in  *)
(* an error that forces a hold (budget, rate limit, malformed twice), with *)
(* or without a cost.                                                      *)

Results == {[what |-> "ok", cost |-> 1], [what |-> "unavailable", cost |-> 1],
            [what |-> "error", cost |-> 0], [what |-> "error", cost |-> 1]}

Now(t) == thread[t]
Cut(c) == c.flagged \/ c.degraded

\* The outcome of a node is in the checkpoint when the node is done.
InStage(stage) == agent.pc = "pipeline" /\ thread[agent.tick].stage = stage

Node(checkpoint) ==
    /\ thread' = [thread EXCEPT ![agent.tick] = checkpoint]
    /\ UNCHANGED <<agent, tickFile, mail, controlPlane, cuts, misses, defects>>

Pays(n) == called' = [called EXCEPT ![agent.tick] = @ + n]

Flagged(c, r)  == [c EXCEPT !.flagged = @ \/ r.what = "error", !.cost = @ + r.cost]
Degraded(c, r) == [Flagged(c, r) EXCEPT !.degraded = @ \/ r.what = "unavailable"]

Briefed(c, a, r) ==
    LET all == c.briefed \cup {a}
    IN [Flagged(c, r) EXCEPT !.briefed = all, !.stage = IF all = Analysts THEN "debate" ELSE @]

\* analyst_node: an unavailable one only leaves its summary out.
AnalystNode(a, r) ==
    /\ InStage("analysts") /\ a \notin Now(agent.tick).briefed
    /\ Node(Briefed(Now(agent.tick), a, r))
    /\ Pays(r.cost) /\ UNCHANGED lastId

\* Faulty: one round too many.
NextAfterExtraRound(c) ==
    IF Cut(c) THEN [c EXCEPT !.stage = "judge"]
    ELSE IF c.rounds <= MaxRounds THEN c ELSE [c EXCEPT !.stage = "judge"]

NextAfterDebate(c) ==
    IF Cut(c) THEN [c EXCEPT !.stage = "judge"]
    ELSE IF c.rounds < MaxRounds THEN c ELSE [c EXCEPT !.stage = "judge"]

\* A round: the bear is asked once the bull has argued.
Debated(c, bull, bear) ==
    IF bull.what # "ok" THEN Degraded(c, bull)
    ELSE IF bear.what # "ok" THEN [Degraded(c, bear) EXCEPT !.cost = @ + bull.cost]
    ELSE [c EXCEPT !.rounds = @ + 1, !.cost = @ + bull.cost + bear.cost]

DebateNode(bull, bear) ==
    /\ InStage("debate") /\ UNCHANGED lastId
    /\ IF Cut(Now(agent.tick)) THEN Node(NextAfterDebate(Now(agent.tick))) /\ UNCHANGED called
       ELSE /\ Node(NextAfterDebate(Debated(Now(agent.tick), bull, bear)))
            /\ Pays(IF bull.what = "ok" THEN bull.cost + bear.cost ELSE bull.cost)

JudgeNode(r) ==
    /\ InStage("judge") /\ UNCHANGED lastId
    /\ LET c == Now(agent.tick) IN
       IF Cut(c) THEN Node([c EXCEPT !.stage = "trader"]) /\ UNCHANGED called
       ELSE Node([Degraded(c, r) EXCEPT !.stage = "trader"]) /\ Pays(r.cost)

\* A forced hold needs no call; a trader that cannot answer holds as well.
MustHold(c, r) == c.flagged \/ r.what # "ok"

Ended(c, r, id) ==
    LET cost == c.cost + (IF c.flagged THEN 0 ELSE r.cost)
    IN [c EXCEPT !.stage = "done", !.cost = cost,
                 !.proposal = [pid |-> id, hold |-> MustHold(c, r), cost |-> cost]]

TraderNode(r) ==
    /\ InStage("trader")
    /\ Node(Ended(Now(agent.tick), r, lastId + 1))
    /\ lastId' = lastId + 1
    /\ Pays(IF Now(agent.tick).flagged THEN 0 ELSE r.cost)

\* Anything else the pipeline raises: the tick is given up.
PipelineRaises ==
    /\ agent.pc = "pipeline"
    /\ Misses /\ Logs(agent.tick)
    /\ agent' = At("advance")
    /\ UNCHANGED <<tickFile, thread, lastId, mail, controlPlane, cuts, called>>

-----------------------------------------------------------------------------
(* HttpTransport.post.  n is the attempt; a redriven trace carries other   *)
(* times than the first one, which `drive' stands for.                     *)

Calling(body, n) == [pc |-> "calling", tick |-> agent.tick, body |-> body, n |-> n, answer |-> Absent]
Mailed(body, n)  == [body |-> body, cut |-> cuts, n |-> n]
Sends(body, n) == agent' = Calling(body, n) /\ mail' = mail \cup {Mailed(body, n)}

Proposal(t) == [kind |-> "proposal", tick |-> t, run |-> thread[t].run, pid |-> thread[t].proposal.pid]
Trace(t, pid) == [kind |-> "trace", tick |-> t, run |-> thread[t].run, pid |-> pid,
                  cost |-> thread[t].cost, drive |-> cuts]

\* Faulty: the tick is over before its requests are.
PipelineEndsTick ==
    /\ agent.pc = "pipeline" /\ Now(agent.tick).stage = "done"
    /\ Sends(Proposal(agent.tick), 1)
    /\ tickFile' = agent.tick + 1
    /\ UNCHANGED <<thread, lastId, controlPlane, cuts, misses, defects, called>>

PipelineEnds ==
    /\ agent.pc = "pipeline" /\ Now(agent.tick).stage = "done"
    /\ Sends(Proposal(agent.tick), 1)
    /\ UNCHANGED <<tickFile, thread, lastId, controlPlane, cuts, misses, defects, called>>

Waits == agent.pc = "calling" /\ agent.answer = Absent

\* How a POST ends: a proposal is followed by the trace, which names the
\* proposal only if its POST succeeded; a refused trace ends the tick too.
Concludes(ok) ==
    IF agent.body.kind = "proposal"
    THEN Sends(Trace(agent.tick, IF ok THEN agent.body.pid ELSE Absent), 1)
    ELSE agent' = At("advance") /\ UNCHANGED mail

\* Faulty: attempts are not counted.
RetriesForever == Sends(agent.body, agent.n) /\ UNCHANGED defects

Retries ==
    IF agent.n < MaxAttempts THEN Sends(agent.body, agent.n + 1) /\ UNCHANGED defects
    ELSE Concludes(FALSE) /\ Logs(agent.tick)

TimeOut ==
    /\ Waits /\ Retries
    /\ UNCHANGED <<tickFile, thread, lastId, controlPlane, cuts, misses, called>>

\* 200; 429 and 5xx are retried; 404 and 409 are not.  A trace that is
\* refused as already there is no defect.
TakeAnswer ==
    /\ agent.pc = "calling" /\ agent.answer # Absent
    /\ CASE agent.answer = "ok" -> Concludes(TRUE) /\ UNCHANGED defects
         [] agent.answer = "unavailable" -> Retries
         [] agent.answer = "conflict" /\ agent.body.kind = "trace" -> Concludes(FALSE) /\ UNCHANGED defects
         [] OTHER -> Concludes(FALSE) /\ Logs(agent.tick)
    /\ UNCHANGED <<tickFile, thread, lastId, controlPlane, cuts, misses, called>>

\* The process ends and starts again from its file.
CutOff ==
    /\ cuts < MaxCut /\ cuts' = cuts + 1
    /\ agent' = Asleep
    /\ UNCHANGED <<tickFile, thread, lastId, mail, controlPlane, misses, defects, called>>

-----------------------------------------------------------------------------
(* The control plane.                                                      *)

\* The answer reaches the attempt that waits for it, or nobody.
Reply(m, x) ==
    /\ mail' = mail \ {m}
    /\ agent' = IF Waits /\ m = Mailed(agent.body, agent.n) THEN [agent EXCEPT !.answer = x] ELSE agent
    /\ UNCHANGED <<tickFile, thread, lastId, cuts, defects, called>>

RowOf(b)   == [pid |-> b.pid, run |-> b.run, tick |-> b.tick]
Ingested(b) == \E p \in proposalRows : p.pid = b.pid

\* InsertProposal: a duplicate is answered as stored; a tick has one run.
InsertProposal(m) ==
    LET b == m.body
        conflict == ~Ingested(b) /\ runRows[b.tick] \notin {Absent, b.run} IN
    /\ b.kind = "proposal"
    /\ proposalRows' = IF conflict THEN proposalRows ELSE proposalRows \cup {RowOf(b)}
    /\ runRows' = IF conflict THEN runRows ELSE [runRows EXCEPT ![b.tick] = b.run]
    /\ UNCHANGED <<traceRows, spent>>
    /\ \/ Reply(m, IF conflict THEN "conflict" ELSE "ok") /\ UNCHANGED misses
       \/ Reply(m, "unavailable") /\ Misses       \* the row is in, its evaluation fails

HasRun(b)  == runRows[b.tick] = b.run

\* InsertTrace: append-only by run_id.
Traced(b)  == \E x \in traceRows : x.run = b.run

InsertTrace(m) ==
    LET b == m.body
        fresh == HasRun(b) /\ ~Traced(b) IN
    /\ b.kind = "trace"
    /\ traceRows' = IF fresh THEN traceRows \cup {b} ELSE traceRows
    /\ spent' = IF fresh THEN spent + b.cost ELSE spent
    /\ Reply(m, IF ~HasRun(b) THEN "unknown" ELSE IF fresh \/ b \in traceRows THEN "ok" ELSE "conflict")
    /\ UNCHANGED <<runRows, proposalRows, misses>>

\* Refused, or lost on its way.
TurnDown(m) ==
    /\ Misses
    /\ Reply(m, "unavailable")
    /\ UNCHANGED controlPlane

Lose(m) ==
    /\ mail' = mail \ {m}
    /\ UNCHANGED <<agent, tickFile, thread, lastId, controlPlane, cuts, misses, defects, called>>

-----------------------------------------------------------------------------

PipelineStep ==
    \/ \E a \in Analysts, r \in Results : AnalystNode(a, r)
    \/ \E bull \in Results, bear \in Results : DebateNode(bull, bear)
    \/ \E r \in Results : JudgeNode(r) \/ TraderNode(r)
    \/ PipelineEnds

AgentStep == BeginTick \/ PipelineStep \/ TakeAnswer \/ ConcludeTick

Ingest(m) == InsertProposal(m) \/ InsertTrace(m)

AgentNext ==
    \/ AgentStep
    \/ PipelineRaises
    \/ TimeOut
    \/ CutOff
    \/ \E m \in mail : Ingest(m) \/ TurnDown(m) \/ Lose(m)

AgentSpec == AgentInit /\ [][AgentNext]_agentVars

-----------------------------------------------------------------------------
(* Types and properties.                                                   *)

AgentTypeOK ==
    /\ agent.pc \in {"idle", "pipeline", "calling", "advance"}
    /\ agent # Asleep => agent.tick \in Ticks /\ agent.tick = tickFile
    /\ tickFile \in 0..(MaxTick + 1)
    /\ \A t \in Ticks : thread[t] # Absent =>
          /\ thread[t] \in Checkpoint
          /\ thread[t].rounds \in (0..MaxRounds) \cup {1}     \* a first round is always held
          /\ (thread[t].proposal # Absent) = (thread[t].stage = "done")
    /\ \A p \in proposalRows : runRows[p.tick] = p.run
    /\ defects \subseteq Ticks

\* However often a tick is driven, and whenever its requests arrive, the control
\* plane gets one proposal for it, so the tick trades once: the ids are in the
\* checkpoint before the first POST (run_pipeline, run_tick).
OneProposalPerTick ==
    \A p \in proposalRows, q \in proposalRows : p.tick = q.tick => p = q

\* A tick that is behind has its proposal at the control plane, unless a failure
\* of that tick was logged: a restart never skips one silently ("advanced and
\* persisted only after a tick's POST attempts conclude", scheduler/state.py:4-5).
NothingDroppedSilently ==
    \A t \in Ticks : t < tickFile => t \in defects \/ \E p \in proposalRows : p.tick = t

\* The ledger is what the traces cost, each run counted once, whatever was
\* redriven, delayed or duplicated (InsertTrace).
LedgerCountsRunsOnce ==
    /\ spent = SumFunction([x \in traceRows |-> x.cost])
    /\ \A x \in traceRows, y \in traceRows : x.run = y.run => x = y

\* Whichever node failed and wherever the pipeline was resumed, the checkpoint
\* and the proposal carry the cost of every call that a finished node made.
CostsCarried ==
    \A t \in Ticks : thread[t] # Absent =>
        /\ thread[t].cost = called[t]
        /\ thread[t].proposal # Absent => thread[t].proposal.cost = called[t]

\* A redriven tick neither trades twice, nor is dropped, nor is charged wrongly
\* (run_tick, StateStore.advance, InsertProposal, InsertTrace).
TicksAccounted ==
    OneProposalPerTick /\ NothingDroppedSilently /\ LedgerCountsRunsOnce /\ CostsCarried

\* Each tick is concluded, whatever the control plane answers.
TickConcludes == \A t \in Ticks : (agent.pc # "idle" /\ agent.tick = t) ~> tickFile > t

=============================================================================
