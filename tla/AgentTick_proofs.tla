-------------------------- MODULE AgentTick_proofs --------------------------
(***************************************************************************)
(* Proofs about AgentTick, for any roles, rounds, attempts, ticks, ends of *)
(* the process and failures: whatever is redriven, lost or late, a tick    *)
(* trades once, is not dropped without a word, and is charged what its     *)
(* calls cost.                                                             *)
(*                                                                         *)
(* A checkpoint whose pipeline is done never changes again, and requests   *)
(* are only made of such checkpoints: that is why every request of a tick, *)
(* sent by whichever life of the process, says the same (MailTrue), why    *)
(* the control plane never meets a second run of a tick (RunsTrue), and    *)
(* why an answer may be believed (AgentTrue).                              *)
(***************************************************************************)
EXTENDS AgentTick, Sums

ProposalBodies == [kind : {"proposal"}, tick : Ticks, run : Nat, pid : Nat]
TraceBodies    == [kind : {"trace"}, tick : Ticks, run : Nat, pid : Nat \cup {Absent},
                   cost : Nat, drive : Nat]
Bodies == ProposalBodies \cup TraceBodies

Tasks ==
    {Asleep} \cup [pc : {"pipeline", "advance"}, tick : Ticks]
             \cup [pc : {"calling"}, tick : Ticks, body : Bodies, n : Nat, answer : Answers \cup {Absent}]

\* What the task and the checkpoints are.
AgentTyped ==
    /\ tickFile \in 0..(MaxTick + 1) /\ lastId \in Nat /\ cuts \in Nat /\ defects \subseteq Ticks
    /\ agent \in Tasks
    /\ agent # Asleep => agent.tick = tickFile
    /\ thread \in [Ticks -> Checkpoint \cup {Absent}]
    /\ called \in [Ticks -> Nat]

\* What is on the wire and at the control plane.
RowsTyped ==
    /\ \A m \in mail : m.body \in Bodies
    /\ runRows \in [Ticks -> Nat \cup {Absent}]
    /\ proposalRows \subseteq [pid : Nat, run : Nat, tick : Ticks]
    /\ traceRows \subseteq TraceBodies /\ IsFiniteSet(traceRows)

\* How far the debate may have come.
RoundsBound(c) ==
    /\ c.rounds \in (0..MaxRounds) \cup {1}
    /\ c.stage = "analysts" => c.rounds = 0
    /\ c.stage = "debate" => c.rounds < MaxRounds \/ c.rounds = 0

\* A checkpoint has paid for what its nodes called, and decides when it is done.
ThreadTrue(c, paid) ==
    /\ RoundsBound(c)
    /\ c.cost = paid
    /\ (c.proposal # Absent) = (c.stage = "done")
    /\ c.proposal # Absent => c.proposal.cost = paid

ThreadsTrue ==
    \A t \in Ticks : IF thread[t] = Absent THEN called[t] = 0 ELSE ThreadTrue(thread[t], called[t])

Done(t) == thread[t] # Absent /\ thread[t].stage = "done"

\* A request says what the checkpoint of its tick does.
BodyTrue(b) ==
    /\ Done(b.tick) /\ b.run = thread[b.tick].run
    /\ b.kind = "proposal" => b.pid = thread[b.tick].proposal.pid

MailTrue == \A m \in mail : BodyTrue(m.body)

RunsTrue ==
    /\ \A t \in Ticks : runRows[t] # Absent => Done(t) /\ runRows[t] = thread[t].run
    /\ \A p \in proposalRows :
          /\ Done(p.tick) /\ p.pid = thread[p.tick].proposal.pid
          /\ p.run = thread[p.tick].run /\ runRows[p.tick] = p.run

Posted(t)  == \E p \in proposalRows : p.tick = t
Settled(t) == t \in defects \/ Posted(t)

\* Where the task is, and what an answer it was given means.
AgentTrue ==
    /\ agent.pc = "pipeline" => thread[agent.tick] # Absent
    /\ agent.pc = "calling" =>
          /\ agent.body.tick = agent.tick /\ BodyTrue(agent.body)
          /\ agent.body.kind = "trace" => Settled(agent.tick)
          /\ agent.body.kind = "proposal" /\ agent.answer = "ok" => Posted(agent.tick)
    /\ agent.pc = "advance" => Settled(agent.tick)

SettledBehind == \A t \in Ticks : t < tickFile => Settled(t)

TickInv ==
    /\ AgentTyped /\ RowsTyped
    /\ ThreadsTrue /\ MailTrue /\ RunsTrue /\ AgentTrue
    /\ SettledBehind /\ LedgerCountsRunsOnce

-----------------------------------------------------------------------------
(* What a step leaves alone.                                               *)

\* A done checkpoint stays, and with it all that was made of it.
LEMMA Kept ==
    ASSUME TickInv, \A t \in Ticks : Done(t) => thread'[t] = thread[t],
           UNCHANGED controlPlane, defects \subseteq defects'
    PROVE  /\ \A b \in Bodies : BodyTrue(b) => BodyTrue(b)'
           /\ \A t \in Ticks : Settled(t) => Settled(t)'
           /\ RunsTrue' /\ LedgerCountsRunsOnce'
<1>1. /\ runRows' = runRows /\ proposalRows' = proposalRows
      /\ traceRows' = traceRows /\ spent' = spent
  BY DEF controlPlane
<1>2. \A t \in Ticks : Done(t) => Done(t)'
  BY DEF Done
<1>3. ASSUME NEW b \in Bodies, BodyTrue(b)
      PROVE  BodyTrue(b)'
  <2>1. b.tick \in Ticks
    BY DEF Bodies, ProposalBodies, TraceBodies
  <2> QED
    BY <1>2, <1>3, <2>1 DEF BodyTrue, Done
<1>4. ASSUME NEW t \in Ticks, Settled(t)
      PROVE  Settled(t)'
  BY <1>1, <1>4 DEF Settled, Posted
<1>5. RunsTrue'
  <2>1. \A p \in proposalRows : p.tick \in Ticks
    BY DEF TickInv, RowsTyped
  <2> QED
    BY <1>1, <1>2, <2>1 DEF TickInv, RunsTrue, Done
<1>6. LedgerCountsRunsOnce'
  BY <1>1 DEF TickInv, LedgerCountsRunsOnce
<1> QED
  BY <1>3, <1>4, <1>5, <1>6

\* A node's result is in the checkpoint of a tick that is not done yet.
LEMMA NodeStep ==
    ASSUME TickInv, agent.pc = "pipeline", thread[agent.tick].stage # "done",
           NEW c \in Checkpoint, NEW paid \in Nat, ThreadTrue(c, paid), Node(c),
           called' = [called EXCEPT ![agent.tick] = paid], lastId' \in Nat
    PROVE  TickInv'
<1>1. agent \in [pc : {"pipeline"}, tick : Ticks] /\ agent # Asleep
  BY DEF TickInv, AgentTyped, Tasks, Asleep
<1>2. agent.tick \in Ticks /\ thread[agent.tick] # Absent
  BY <1>1 DEF TickInv, AgentTrue
<1>3. /\ thread' = [thread EXCEPT ![agent.tick] = c]
      /\ agent' = agent /\ tickFile' = tickFile /\ mail' = mail /\ UNCHANGED controlPlane
      /\ cuts' = cuts /\ defects' = defects
  BY DEF Node
<1>4. \A t \in Ticks : Done(t) => thread'[t] = thread[t]
  BY <1>2, <1>3 DEF Done, TickInv, AgentTyped
<1>5. /\ \A b \in Bodies : BodyTrue(b) => BodyTrue(b)'
      /\ \A t \in Ticks : Settled(t) => Settled(t)'
      /\ RunsTrue' /\ LedgerCountsRunsOnce'
  BY <1>3, <1>4, Kept
<1>6. AgentTyped'
  BY <1>1, <1>3 DEF TickInv, AgentTyped
<1>7. RowsTyped'
  BY <1>3 DEF TickInv, RowsTyped, controlPlane
<1>8. ThreadsTrue'
  <2>1. c # Absent
    BY AgentAssumption
  <2>2. thread'[agent.tick] = c /\ called'[agent.tick] = paid
    BY <1>2, <1>3 DEF TickInv, AgentTyped
  <2>3. \A t \in Ticks : t # agent.tick => thread'[t] = thread[t] /\ called'[t] = called[t]
    BY <1>2, <1>3 DEF TickInv, AgentTyped
  <2> QED
    BY <2>1, <2>2, <2>3 DEF TickInv, ThreadsTrue, ThreadTrue, RoundsBound
<1>9. MailTrue'
  BY <1>3, <1>5 DEF TickInv, MailTrue, RowsTyped
<1>10. AgentTrue'
  <2>1. thread'[agent.tick] # Absent
    BY <1>2, <1>3, AgentAssumption DEF TickInv, AgentTyped
  <2> QED
    BY <1>3, <2>1 DEF AgentTrue
<1>11. SettledBehind'
  BY <1>3, <1>5 DEF TickInv, SettledBehind
<1> QED
  BY <1>5, <1>6, <1>7, <1>8, <1>9, <1>10, <1>11 DEF TickInv

\* The task sends a request that says what its checkpoint does.
LEMMA SendStep ==
    ASSUME TickInv, agent # Asleep, NEW body \in Bodies, NEW n \in Nat,
           body.tick = agent.tick, BodyTrue(body),
           body.kind = "trace" => agent.tick \in defects' \/ Posted(agent.tick),
           Sends(body, n), defects \subseteq defects', defects' \subseteq Ticks,
           UNCHANGED <<tickFile, thread, lastId, controlPlane, cuts, called>>
    PROVE  TickInv'
<1>1. agent.tick \in Ticks /\ agent.tick = tickFile
  BY DEF TickInv, AgentTyped, Tasks
<1>2. /\ agent' = Calling(body, n) /\ mail' = mail \cup {Mailed(body, n)}
      /\ tickFile' = tickFile /\ thread' = thread /\ lastId' = lastId /\ UNCHANGED controlPlane
      /\ cuts' = cuts /\ called' = called
  BY DEF Sends
<1>3. /\ \A b \in Bodies : BodyTrue(b) => BodyTrue(b)'
      /\ \A t \in Ticks : Settled(t) => Settled(t)'
      /\ RunsTrue' /\ LedgerCountsRunsOnce'
  BY <1>2, Kept
<1>4. /\ agent'.pc = "calling" /\ agent'.tick = agent.tick /\ agent'.body = body
      /\ agent'.answer = Absent /\ agent' \in Tasks
  BY <1>1, <1>2 DEF Calling, Tasks
<1>5. AgentTyped'
  BY <1>1, <1>2, <1>4 DEF TickInv, AgentTyped
<1>6. RowsTyped'
  BY <1>2 DEF TickInv, RowsTyped, controlPlane, Mailed
<1>7. ThreadsTrue'
  BY <1>2 DEF TickInv, ThreadsTrue, ThreadTrue, RoundsBound
<1>8. MailTrue'
  BY <1>2, <1>3 DEF TickInv, MailTrue, RowsTyped, Mailed
<1>9. AgentTrue'
  <2>1. BodyTrue(body)'
    BY <1>3
  <2>2. body.kind = "trace" => agent'.tick \in defects' \/ \E p \in proposalRows' : p.tick = agent'.tick
    BY <1>2, <1>4 DEF Posted, controlPlane
  <2> QED
    BY <1>4, <2>1, <2>2, AgentAssumption DEF AgentTrue, Settled, Posted, BodyTrue, Answers
<1>10. SettledBehind'
  BY <1>2, <1>3 DEF TickInv, SettledBehind
<1> QED
  BY <1>3, <1>5, <1>6, <1>7, <1>8, <1>9, <1>10 DEF TickInv

\* The tick is over once it has its proposal or a logged failure.
LEMMA AdvanceStep ==
    ASSUME TickInv, tickFile \in Ticks, agent' = At("advance"),
           tickFile \in defects' \/ Posted(tickFile),
           defects \subseteq defects', defects' \subseteq Ticks,
           UNCHANGED <<tickFile, thread, lastId, mail, controlPlane, cuts, called>>
    PROVE  TickInv'
<1>1. /\ \A b \in Bodies : BodyTrue(b) => BodyTrue(b)'
      /\ \A t \in Ticks : Settled(t) => Settled(t)'
      /\ RunsTrue' /\ LedgerCountsRunsOnce'
  BY Kept
<1>2. /\ agent' \in Tasks /\ agent' # Asleep
      /\ agent'.pc = "advance" /\ agent'.tick = tickFile
  BY DEF At, Tasks, Asleep
<1>3. AgentTyped'
  BY <1>2 DEF TickInv, AgentTyped
<1>4. RowsTyped'
  BY DEF TickInv, RowsTyped, controlPlane
<1>5. ThreadsTrue'
  BY DEF TickInv, ThreadsTrue, ThreadTrue, RoundsBound
<1>6. MailTrue'
  BY <1>1 DEF TickInv, MailTrue, RowsTyped
<1>7. AgentTrue'
  BY <1>2 DEF AgentTrue, Settled, Posted, controlPlane
<1>8. SettledBehind'
  BY <1>1 DEF TickInv, SettledBehind
<1> QED
  BY <1>1, <1>3, <1>4, <1>5, <1>6, <1>7, <1>8 DEF TickInv

-----------------------------------------------------------------------------
(* The task, step by step.                                                 *)

\* At the start there is nothing to account for.
LEMMA TickInvInit == AgentInit => TickInv
<1> SUFFICES ASSUME AgentInit PROVE TickInv
  OBVIOUS
<1>1. AgentTyped
  BY AgentAssumption DEF AgentInit, AgentTyped, Tasks, Ticks
<1>2. RowsTyped
  BY FS_EmptySet DEF AgentInit, RowsTyped
<1>3. ThreadsTrue /\ MailTrue /\ RunsTrue
  BY DEF AgentInit, ThreadsTrue, MailTrue, RunsTrue
<1>4. AgentTrue
  BY DEF AgentInit, AgentTrue, Asleep
<1>5. SettledBehind
  BY DEF AgentInit, SettledBehind, Ticks
<1>6. LedgerCountsRunsOnce
  <2> DEFINE f == [x \in traceRows |-> x.cost]
  <2>1. traceRows = {} /\ spent = 0
    BY DEF AgentInit
  <2>2. DOMAIN f = {}
    BY <2>1
  <2>3. SumFunctionOnSet(f, {}) = 0
    BY SumEmpty
  <2> HIDE DEF f
  <2>4. SumFunction(f) = 0
    BY <2>2, <2>3 DEF SumFunction
  <2> QED
    BY <2>1, <2>4 DEF LedgerCountsRunsOnce, f
<1> QED
  BY <1>1, <1>2, <1>3, <1>4, <1>5, <1>6 DEF TickInv

\* A task that is not asleep works on the tick of its file.
LEMMA TaskTick ==
    ASSUME TickInv, agent # Asleep
    PROVE  /\ agent.tick = tickFile /\ tickFile \in Ticks
           /\ agent.pc = "calling" =>
                agent \in [pc : {"calling"}, tick : Ticks, body : Bodies, n : Nat, answer : Answers \cup {Absent}]
BY DEF TickInv, AgentTyped, Tasks, Asleep

\* A new checkpoint owes nothing.
LEMMA NewThreadTrue ==
    ASSUME NEW id \in Nat
    PROVE  NewThread(id) \in Checkpoint /\ ThreadTrue(NewThread(id), 0) /\ NewThread(id) # Absent
<1> DEFINE c == NewThread(id)
<1>1. c \in Checkpoint
  BY DEF NewThread, Checkpoint, Stages
<1>2. c.rounds = 0 /\ c.stage = "analysts" /\ c.cost = 0 /\ c.proposal = Absent
  BY DEF NewThread
<1>3. 0 \in 0..MaxRounds
  BY AgentAssumption
<1> HIDE DEF c
<1>4. ThreadTrue(c, 0) /\ c # Absent
  BY <1>1, <1>2, <1>3, AgentAssumption DEF ThreadTrue, RoundsBound
<1> QED
  BY <1>1, <1>4 DEF c

\* Beginning a tick (run_tick) resumes its checkpoint, makes one, or logs a failed snapshot.
LEMMA BeginTickStep == ASSUME TickInv, BeginTick PROVE TickInv'
<1>1. tickFile \in Ticks
  BY AgentAssumption DEF BeginTick, Ticks, TickInv, AgentTyped
<1>2. /\ agent = Asleep
      /\ UNCHANGED <<tickFile, mail, controlPlane, cuts, called>>
  BY DEF BeginTick
<1>3. CASE agent' = At("advance")
  <2>1. /\ UNCHANGED <<thread, lastId>> /\ defects' = defects \cup {tickFile}
    BY <1>2, <1>3 DEF BeginTick, At, Logs
  <2> QED
    BY <1>1, <1>2, <1>3, <2>1, AdvanceStep DEF TickInv, AgentTyped
<1>4. CASE agent' = At("pipeline")
  <2>1. /\ defects' = defects
        /\ \/ thread[tickFile] # Absent /\ thread' = thread /\ lastId' = lastId
           \/ /\ thread[tickFile] = Absent /\ lastId' = lastId + 1
              /\ thread' = [thread EXCEPT ![tickFile] = NewThread(lastId + 1)]
    BY <1>2, <1>4 DEF BeginTick, At
  <2>2. lastId + 1 \in Nat /\ called \in [Ticks -> Nat] /\ thread \in [Ticks -> Checkpoint \cup {Absent}]
    BY DEF TickInv, AgentTyped
  <2>3. \A t \in Ticks : Done(t) => thread'[t] = thread[t]
    BY <1>1, <2>1, <2>2 DEF Done
  <2>4. /\ \A b \in Bodies : BodyTrue(b) => BodyTrue(b)'
        /\ \A t \in Ticks : Settled(t) => Settled(t)'
        /\ RunsTrue' /\ LedgerCountsRunsOnce'
    BY <1>2, <2>1, <2>3, Kept
  <2>5. /\ agent' \in Tasks /\ agent'.tick = tickFile /\ agent'.pc = "pipeline"
    BY <1>1, <1>4 DEF At, Tasks
  <2>6. AgentTyped'
    BY <1>1, <1>2, <2>1, <2>2, <2>5, NewThreadTrue DEF TickInv, AgentTyped
  <2>7. RowsTyped'
    BY <1>2 DEF TickInv, RowsTyped, controlPlane
  <2>8. ThreadsTrue'
    <3>1. CASE thread' = thread
      BY <1>2, <3>1 DEF TickInv, ThreadsTrue, ThreadTrue, RoundsBound
    <3>2. CASE thread' # thread
      <4>1. thread'[tickFile] = NewThread(lastId + 1) /\ thread[tickFile] = Absent
        BY <1>1, <2>1, <2>2, <3>2
      <4>2. \A t \in Ticks : t # tickFile => thread'[t] = thread[t]
        BY <1>1, <2>1, <2>2
      <4>3. called[tickFile] = 0
        BY <1>1, <4>1 DEF TickInv, ThreadsTrue
      <4> QED
        BY <1>2, <2>2, <4>1, <4>2, <4>3, NewThreadTrue DEF TickInv, ThreadsTrue, ThreadTrue, RoundsBound
    <3> QED
      BY <3>1, <3>2
  <2>9. MailTrue'
    BY <1>2, <2>4 DEF TickInv, MailTrue, RowsTyped
  <2>10. AgentTrue'
    <3>1. thread'[tickFile] # Absent
      BY <1>1, <2>1, <2>2, NewThreadTrue
    <3> QED
      BY <2>5, <3>1 DEF AgentTrue
  <2>11. SettledBehind'
    BY <1>2, <2>4 DEF TickInv, SettledBehind
  <2> QED
    BY <2>4, <2>6, <2>7, <2>8, <2>9, <2>10, <2>11 DEF TickInv
<1> QED
  BY <1>3, <1>4 DEF BeginTick

\* Advancing the file (StateStore.advance) leaves a settled tick behind.
LEMMA ConcludeTickStep == ASSUME TickInv, ConcludeTick PROVE TickInv'
<1>1. agent # Asleep /\ agent.pc = "advance"
  BY DEF ConcludeTick, Asleep
<1>2. agent.tick = tickFile /\ tickFile \in Ticks
  BY <1>1, TaskTick
<1>3. /\ tickFile' = tickFile + 1 /\ agent' = Asleep
      /\ UNCHANGED <<thread, lastId, mail, controlPlane, cuts, misses, defects, called>>
  BY <1>2 DEF ConcludeTick
<1>4. /\ \A b \in Bodies : BodyTrue(b) => BodyTrue(b)'
      /\ \A t \in Ticks : Settled(t) => Settled(t)'
      /\ RunsTrue' /\ LedgerCountsRunsOnce'
  BY <1>3, Kept
<1>5. AgentTyped'
  BY <1>2, <1>3, AgentAssumption DEF TickInv, AgentTyped, Tasks, Ticks
<1>6. RowsTyped'
  BY <1>3 DEF TickInv, RowsTyped, controlPlane
<1>7. ThreadsTrue'
  BY <1>3 DEF TickInv, ThreadsTrue, ThreadTrue, RoundsBound
<1>8. MailTrue'
  BY <1>3, <1>4 DEF TickInv, MailTrue, RowsTyped
<1>9. AgentTrue'
  BY <1>3 DEF AgentTrue, Asleep
<1>10. SettledBehind'
  <2>1. Settled(tickFile)
    BY <1>1, <1>2 DEF TickInv, AgentTrue
  <2>2. \A t \in Ticks : t < tickFile + 1 => t < tickFile \/ t = tickFile
    BY <1>2 DEF Ticks
  <2> QED
    BY <1>2, <1>3, <1>4, <2>1, <2>2 DEF TickInv, SettledBehind
<1> QED
  BY <1>4, <1>5, <1>6, <1>7, <1>8, <1>9, <1>10 DEF TickInv

\* What a node finds: a checkpoint that has paid for its calls and is not done.
LEMMA NodeFinds ==
    ASSUME TickInv, NEW stage \in Stages \ {"done"}, InStage(stage)
    PROVE  /\ agent.pc = "pipeline" /\ agent.tick \in Ticks
           /\ thread[agent.tick] \in Checkpoint /\ thread[agent.tick].stage = stage
           /\ ThreadTrue(thread[agent.tick], called[agent.tick])
           /\ thread[agent.tick].proposal = Absent
           /\ called[agent.tick] \in Nat /\ called = [called EXCEPT ![agent.tick] = called[agent.tick]]
<1>1. agent.pc = "pipeline" /\ thread[agent.tick].stage = stage
  BY DEF InStage
<1>2. agent.tick \in Ticks
  BY <1>1, TaskTick DEF Asleep
<1>3. thread[agent.tick] # Absent
  BY <1>1 DEF TickInv, AgentTrue
<1>4. thread[agent.tick] \in Checkpoint /\ called[agent.tick] \in Nat /\ called \in [Ticks -> Nat]
  BY <1>2, <1>3 DEF TickInv, AgentTyped
<1>5. ThreadTrue(thread[agent.tick], called[agent.tick])
  BY <1>2, <1>3 DEF TickInv, ThreadsTrue
<1> QED
  BY <1>1, <1>2, <1>4, <1>5 DEF ThreadTrue

\* What a call adds to a checkpoint.
LEMMA FlaggedTrue ==
    ASSUME NEW c \in Checkpoint, NEW r \in Results
    PROVE  /\ Flagged(c, r) \in Checkpoint /\ Degraded(c, r) \in Checkpoint
           /\ r.cost \in Nat
           /\ \A f \in {Flagged(c, r), Degraded(c, r)} :
                 /\ f.cost = c.cost + r.cost /\ f.stage = c.stage /\ f.proposal = c.proposal
                 /\ f.rounds = c.rounds /\ f.briefed = c.briefed
<1>1. r.cost \in Nat /\ r.what \in {"ok", "unavailable", "error"}
  BY DEF Results
<1> DEFINE f == Flagged(c, r)
           d == Degraded(c, r)
           stopped  == c.flagged \/ r.what = "error"
           cutShort == f.degraded \/ r.what = "unavailable"
<1>0. /\ stopped \in BOOLEAN /\ f = [c EXCEPT !.flagged = stopped, !.cost = c.cost + r.cost]
      /\ cutShort \in BOOLEAN /\ d = [f EXCEPT !.degraded = cutShort]
  BY DEF Flagged, Degraded
<1> HIDE DEF f, d, stopped, cutShort
<1>2. /\ f \in Checkpoint
      /\ f.cost = c.cost + r.cost /\ f.stage = c.stage /\ f.proposal = c.proposal
      /\ f.rounds = c.rounds /\ f.briefed = c.briefed
  <2>1. c.cost + r.cost \in Nat
    BY <1>1 DEF Checkpoint
  <2>2. f.cost = c.cost + r.cost
    BY <1>0 DEF Checkpoint
  <2>3. f.stage = c.stage /\ f.proposal = c.proposal /\ f.rounds = c.rounds /\ f.briefed = c.briefed
    BY <1>0 DEF Checkpoint
  <2>4. f \in Checkpoint
    BY <1>0, <2>1 DEF Checkpoint
  <2> QED
    BY <2>2, <2>3, <2>4
<1>4. /\ d \in Checkpoint
      /\ d.cost = f.cost /\ d.stage = f.stage /\ d.proposal = f.proposal
      /\ d.rounds = f.rounds /\ d.briefed = f.briefed
  BY <1>0, <1>2 DEF Checkpoint
<1> QED
  BY <1>1, <1>2, <1>4 DEF f, d

\* An analyst's node pays for its call; the last one opens the debate.
LEMMA AnalystNodeStep ==
    ASSUME TickInv, NEW a \in Analysts, NEW r \in Results, AnalystNode(a, r)
    PROVE  TickInv'
<1> DEFINE c == thread[agent.tick]
           f == Flagged(c, r)
           d == Briefed(c, a, r)
           paid == called[agent.tick] + r.cost
<1>1. InStage("analysts") /\ Node(d) /\ Pays(r.cost) /\ lastId' = lastId
  BY DEF AnalystNode, Now
<1>2. /\ agent.pc = "pipeline" /\ c \in Checkpoint /\ c.stage = "analysts"
      /\ ThreadTrue(c, called[agent.tick]) /\ c.proposal = Absent /\ called[agent.tick] \in Nat
  BY <1>1, NodeFinds DEF Stages
<1>3. /\ f \in Checkpoint /\ r.cost \in Nat
      /\ f.cost = c.cost + r.cost /\ f.stage = "analysts" /\ f.proposal = Absent /\ f.rounds = c.rounds
  BY <1>2, FlaggedTrue
<1>4. /\ d \in Checkpoint /\ d.stage \in {"analysts", "debate"}
      /\ d.cost = f.cost /\ d.proposal = Absent /\ d.rounds = f.rounds
  <2>1. c.briefed \cup {a} \in SUBSET Analysts
    BY <1>2 DEF Checkpoint
  <2> HIDE DEF c, f
  <2> QED
    BY <1>3, <2>1 DEF Briefed, Checkpoint, Stages, f
<1>5. ThreadTrue(d, paid)
  <2> HIDE DEF d, c, f
  <2> QED
    BY <1>2, <1>3, <1>4 DEF ThreadTrue, RoundsBound
<1>6. paid \in Nat /\ called' = [called EXCEPT ![agent.tick] = paid] /\ lastId' \in Nat
  BY <1>1, <1>2, <1>3 DEF Pays, TickInv, AgentTyped
<1> HIDE DEF d, paid
<1> QED
  BY <1>1, <1>2, <1>4, <1>5, <1>6, NodeStep DEF c

\* A round of the debate adds what its one or two calls cost, and counts if both argued.
LEMMA DebatedTrue ==
    ASSUME NEW c \in Checkpoint, NEW bull \in Results, NEW bear \in Results
    PROVE  LET d == Debated(c, bull, bear)
               n == IF bull.what = "ok" THEN bull.cost + bear.cost ELSE bull.cost
           IN /\ d \in Checkpoint /\ n \in Nat /\ d.cost = c.cost + n
              /\ d.stage = c.stage /\ d.proposal = c.proposal
              /\ d.rounds \in {c.rounds, c.rounds + 1}
<1> DEFINE d == Debated(c, bull, bear)
           n == IF bull.what = "ok" THEN bull.cost + bear.cost ELSE bull.cost
<1>1. c.cost \in Nat /\ c.rounds \in Nat /\ bull.cost \in Nat /\ bear.cost \in Nat
  BY FlaggedTrue DEF Checkpoint
<1>2. CASE bull.what # "ok"
  <2>1. d = Degraded(c, bull) /\ n = bull.cost
    BY <1>2 DEF Debated
  <2> DEFINE f == Degraded(c, bull)
  <2>2. /\ f \in Checkpoint /\ f.cost = c.cost + bull.cost /\ f.stage = c.stage
        /\ f.proposal = c.proposal /\ f.rounds = c.rounds
    BY FlaggedTrue
  <2> HIDE DEF d, n, f
  <2>3. /\ d \in Checkpoint /\ n \in Nat /\ d.cost = c.cost + n
        /\ d.stage = c.stage /\ d.proposal = c.proposal /\ d.rounds = c.rounds
    BY <1>1, <2>1, <2>2 DEF f
  <2> QED
    BY <2>3 DEF d, n
<1>3. CASE bull.what = "ok" /\ bear.what # "ok"
  <2> DEFINE f == Degraded(c, bear)
  <2>1. d = [f EXCEPT !.cost = f.cost + bull.cost] /\ n = bull.cost + bear.cost
    BY <1>3 DEF Debated
  <2>2. /\ f \in Checkpoint /\ f.cost = c.cost + bear.cost /\ f.stage = c.stage
        /\ f.proposal = c.proposal /\ f.rounds = c.rounds
    BY FlaggedTrue
  <2> HIDE DEF d, n, f
  <2>3. f.cost + bull.cost \in Nat /\ f.cost + bull.cost = c.cost + n
    BY <1>1, <2>1, <2>2
  <2>4. /\ d.cost = f.cost + bull.cost /\ d.stage = f.stage
        /\ d.proposal = f.proposal /\ d.rounds = f.rounds
    BY <2>1, <2>2 DEF Checkpoint
  <2>5. d \in Checkpoint
    BY <2>1, <2>2, <2>3 DEF Checkpoint
  <2> QED
    BY <1>1, <2>1, <2>2, <2>3, <2>4, <2>5 DEF d, n
<1>4. CASE bull.what = "ok" /\ bear.what = "ok"
  <2> DEFINE f == [c EXCEPT !.rounds = c.rounds + 1]
  <2>1. d = [f EXCEPT !.cost = c.cost + bull.cost + bear.cost] /\ n = bull.cost + bear.cost
    BY <1>4 DEF Debated, Checkpoint
  <2>2. /\ f \in Checkpoint /\ f.rounds = c.rounds + 1 /\ f.stage = c.stage /\ f.proposal = c.proposal
    BY <1>1 DEF Checkpoint
  <2> HIDE DEF d, n, f
  <2>3. c.cost + bull.cost + bear.cost \in Nat /\ c.cost + bull.cost + bear.cost = c.cost + n
    BY <1>1, <2>1
  <2>4. /\ d.cost = c.cost + bull.cost + bear.cost /\ d.stage = f.stage
        /\ d.proposal = f.proposal /\ d.rounds = f.rounds
    BY <2>1, <2>2 DEF Checkpoint
  <2>5. d \in Checkpoint
    BY <2>1, <2>2, <2>3 DEF Checkpoint
  <2> QED
    BY <1>1, <2>1, <2>2, <2>3, <2>4, <2>5 DEF d, n
<1> QED
  BY <1>2, <1>3, <1>4

\* The debate goes on while rounds are left and nothing cut it short.
LEMMA NextAfterDebateTrue ==
    ASSUME NEW c \in Checkpoint, c.stage = "debate", c.proposal = Absent,
           NEW before \in Nat, before < MaxRounds \/ before = 0, c.rounds \in {before, before + 1}
    PROVE  /\ NextAfterDebate(c) \in Checkpoint
           /\ ThreadTrue(NextAfterDebate(c), c.cost)
<1> DEFINE e == NextAfterDebate(c)
<1>1. c.rounds \in Nat /\ c.rounds \in (0..MaxRounds) \cup {1}
  BY AgentAssumption
<1>2. \/ e = c /\ c.rounds < MaxRounds
      \/ e = [c EXCEPT !.stage = "judge"]
  BY DEF NextAfterDebate
<1>3. e \in Checkpoint /\ e.rounds = c.rounds /\ e.cost = c.cost /\ e.proposal = Absent
      /\ e.stage \in {"debate", "judge"} /\ (e.stage = "debate" => c.rounds < MaxRounds)
  BY <1>2 DEF Checkpoint, Stages
<1> HIDE DEF e
<1> QED
  BY <1>1, <1>3 DEF ThreadTrue, RoundsBound, e

\* A round pays for its calls; a debate that was cut short makes none.
LEMMA DebateNodeStep ==
    ASSUME TickInv, NEW bull \in Results, NEW bear \in Results, DebateNode(bull, bear)
    PROVE  TickInv'
<1> DEFINE c == thread[agent.tick]
           d == Debated(c, bull, bear)
           n == IF bull.what = "ok" THEN bull.cost + bear.cost ELSE bull.cost
           e == NextAfterDebate(c)
           g == NextAfterDebate(d)
           paid == called[agent.tick]
<1>1. /\ InStage("debate") /\ lastId' = lastId
      /\ \/ Node(e) /\ called' = called
         \/ Node(g) /\ Pays(n)
  BY DEF DebateNode, Now
<1>2. /\ agent.pc = "pipeline" /\ c \in Checkpoint /\ c.stage = "debate" /\ c.proposal = Absent
      /\ ThreadTrue(c, paid) /\ paid \in Nat /\ called = [called EXCEPT ![agent.tick] = paid]
  BY <1>1, NodeFinds DEF Stages
<1>3. c.cost = paid /\ c.rounds \in Nat /\ (c.rounds < MaxRounds \/ c.rounds = 0)
  BY <1>2 DEF ThreadTrue, RoundsBound, Checkpoint
<1>4. lastId' \in Nat
  BY <1>1 DEF TickInv, AgentTyped
<1>5. /\ d \in Checkpoint /\ n \in Nat /\ d.cost = c.cost + n /\ d.stage = "debate"
      /\ d.proposal = Absent /\ d.rounds \in {c.rounds, c.rounds + 1}
  BY <1>2, DebatedTrue
<1> HIDE DEF c, d, n
<1>6. e \in Checkpoint /\ ThreadTrue(e, paid)
  BY <1>2, <1>3, NextAfterDebateTrue
<1>7. g \in Checkpoint /\ ThreadTrue(g, paid + n) /\ paid + n \in Nat
  BY <1>2, <1>3, <1>5, NextAfterDebateTrue
<1> HIDE DEF e, g
<1>8. CASE Node(e) /\ called' = called
  BY <1>2, <1>4, <1>6, <1>8, NodeStep DEF c
<1>9. CASE Node(g) /\ Pays(n)
  BY <1>2, <1>4, <1>7, <1>9, NodeStep DEF c, Pays
<1> QED
  BY <1>1, <1>8, <1>9

\* The judge pays for its call, unless the debate was cut short.
LEMMA JudgeNodeStep == ASSUME TickInv, NEW r \in Results, JudgeNode(r) PROVE TickInv'
<1> DEFINE c == thread[agent.tick]
           f == Degraded(c, r)
           e == [c EXCEPT !.stage = "trader"]
           g == [f EXCEPT !.stage = "trader"]
           paid == called[agent.tick]
<1>1. /\ InStage("judge") /\ lastId' = lastId
      /\ \/ Node(e) /\ called' = called
         \/ Node(g) /\ Pays(r.cost)
  BY DEF JudgeNode, Now
<1>2. /\ agent.pc = "pipeline" /\ c \in Checkpoint /\ c.stage = "judge" /\ c.proposal = Absent
      /\ ThreadTrue(c, paid) /\ paid \in Nat /\ called = [called EXCEPT ![agent.tick] = paid]
  BY <1>1, NodeFinds DEF Stages
<1>3. /\ f \in Checkpoint /\ r.cost \in Nat /\ f.cost = c.cost + r.cost
      /\ f.rounds = c.rounds /\ f.proposal = Absent
  BY <1>2, FlaggedTrue
<1>4. lastId' \in Nat
  BY <1>1 DEF TickInv, AgentTyped
<1> HIDE DEF c, f
<1>5. e \in Checkpoint /\ ThreadTrue(e, paid)
  <2>1. /\ e \in Checkpoint /\ e.stage = "trader" /\ e.cost = c.cost
        /\ e.rounds = c.rounds /\ e.proposal = Absent
    BY <1>2 DEF Checkpoint, Stages
  <2> HIDE DEF e
  <2> QED
    BY <1>2, <2>1 DEF ThreadTrue, RoundsBound
<1>6. g \in Checkpoint /\ ThreadTrue(g, paid + r.cost) /\ paid + r.cost \in Nat
  <2>1. /\ g \in Checkpoint /\ g.stage = "trader" /\ g.cost = f.cost
        /\ g.rounds = f.rounds /\ g.proposal = Absent
    BY <1>3 DEF Checkpoint, Stages
  <2> HIDE DEF g
  <2> QED
    BY <1>2, <1>3, <2>1 DEF ThreadTrue, RoundsBound
<1> HIDE DEF e, g
<1>7. CASE Node(e) /\ called' = called
  BY <1>2, <1>4, <1>5, <1>7, NodeStep DEF c
<1>8. CASE Node(g) /\ Pays(r.cost)
  BY <1>2, <1>4, <1>6, <1>8, NodeStep DEF c, Pays
<1> QED
  BY <1>1, <1>7, <1>8

\* The trader's decision carries the cost of every call before it, and its own.
LEMMA TraderNodeStep == ASSUME TickInv, NEW r \in Results, TraderNode(r) PROVE TickInv'
<1> DEFINE c == thread[agent.tick]
           n == IF c.flagged THEN 0 ELSE r.cost
           hold == MustHold(c, r)
           id == lastId + 1
           p == [pid |-> id, hold |-> hold, cost |-> c.cost + n]
           e == Ended(c, r, id)
           paid == called[agent.tick]
<1>1. InStage("trader") /\ Node(e) /\ Pays(n) /\ lastId' = id
  BY DEF TraderNode, Now
<1>2. /\ agent.pc = "pipeline" /\ c \in Checkpoint /\ c.stage = "trader"
      /\ ThreadTrue(c, paid) /\ paid \in Nat
  BY <1>1, NodeFinds DEF Stages
<1>3. n \in Nat /\ id \in Nat /\ hold \in BOOLEAN
  BY <1>2, FlaggedTrue DEF TickInv, AgentTyped, MustHold
<1>4. c.cost = paid /\ c.cost \in Nat
  BY <1>2 DEF ThreadTrue
<1> HIDE DEF n, hold, id, paid
<1>5. p \in Decision /\ p # Absent /\ p.cost = c.cost + n
  BY <1>3, <1>4, AgentAssumption DEF Decision
<1>6. e = [[[c EXCEPT !.stage = "done"] EXCEPT !.cost = c.cost + n] EXCEPT !.proposal = p]
  BY DEF Ended, n, hold
<1> HIDE DEF p, e
<1>7. /\ e.stage = "done" /\ e.cost = c.cost + n /\ e.proposal = p /\ e.rounds = c.rounds
  BY <1>2, <1>6 DEF Checkpoint
<1>8. e \in Checkpoint
  <2>1. c.cost + n \in Nat
    BY <1>3, <1>4
  <2>2. [c EXCEPT !.stage = "done"] \in Checkpoint
    BY <1>2 DEF Checkpoint, Stages
  <2>3. [[c EXCEPT !.stage = "done"] EXCEPT !.cost = c.cost + n] \in Checkpoint
    BY <2>1, <2>2 DEF Checkpoint
  <2> QED
    BY <1>5, <1>6, <2>3 DEF Checkpoint
<1>9. ThreadTrue(e, paid + n) /\ paid + n \in Nat
  <2> HIDE DEF c
  <2> QED
    BY <1>2, <1>3, <1>4, <1>5, <1>7 DEF ThreadTrue, RoundsBound
<1> QED
  BY <1>1, <1>2, <1>3, <1>8, <1>9, NodeStep DEF Pays, paid

-----------------------------------------------------------------------------
(* Requests and answers.                                                   *)

\* What the requests of a done checkpoint say.
LEMMA RequestsTrue ==
    ASSUME TickInv, NEW t \in Ticks, Done(t)
    PROVE  /\ Proposal(t) \in Bodies /\ Proposal(t).tick = t /\ Proposal(t).kind = "proposal"
           /\ BodyTrue(Proposal(t))
           /\ \A pid \in Nat \cup {Absent} :
                 /\ Trace(t, pid) \in Bodies /\ Trace(t, pid).tick = t
                 /\ Trace(t, pid).kind = "trace" /\ BodyTrue(Trace(t, pid))
<1>1. thread[t] \in Checkpoint /\ cuts \in Nat
  BY DEF TickInv, AgentTyped, Done
<1>2. thread[t].proposal \in Decision
  BY <1>1 DEF Done, TickInv, ThreadsTrue, ThreadTrue, Checkpoint
<1>3. thread[t].run \in Nat /\ thread[t].cost \in Nat /\ thread[t].proposal.pid \in Nat
  BY <1>1, <1>2 DEF Checkpoint, Decision
<1>4. Proposal(t) \in Bodies /\ BodyTrue(Proposal(t))
  BY <1>3 DEF Proposal, Bodies, ProposalBodies, BodyTrue
<1>5. ASSUME NEW pid \in Nat \cup {Absent}
      PROVE  Trace(t, pid) \in Bodies /\ BodyTrue(Trace(t, pid))
  BY <1>1, <1>3 DEF Trace, Bodies, TraceBodies, BodyTrue
<1> QED
  BY <1>4, <1>5 DEF Proposal, Trace

\* The pipeline's end sends the proposal that the checkpoint holds.
LEMMA PipelineEndsStep == ASSUME TickInv, PipelineEnds PROVE TickInv'
<1>1. agent # Asleep /\ agent.pc = "pipeline" /\ thread[agent.tick].stage = "done"
  BY DEF PipelineEnds, Now, Asleep
<1>2. agent.tick \in Ticks /\ Done(agent.tick) /\ defects \subseteq Ticks
  BY <1>1, TaskTick DEF TickInv, AgentTrue, AgentTyped, Done
<1> DEFINE b == Proposal(agent.tick)
<1>3. b \in Bodies /\ b.tick = agent.tick /\ b.kind = "proposal" /\ BodyTrue(b)
  BY <1>2, RequestsTrue
<1>4. /\ Sends(b, 1) /\ defects' = defects
      /\ UNCHANGED <<tickFile, thread, lastId, controlPlane, cuts, called>>
  BY DEF PipelineEnds
<1> HIDE DEF b
<1> QED
  BY <1>1, <1>2, <1>3, <1>4, SendStep

\* A pipeline that raises gives its tick up, which is logged.
LEMMA PipelineRaisesStep == ASSUME TickInv, PipelineRaises PROVE TickInv'
<1>1. agent # Asleep
  BY DEF PipelineRaises, Asleep
<1>2. agent.tick = tickFile /\ tickFile \in Ticks /\ defects \subseteq Ticks
  BY <1>1, TaskTick DEF TickInv, AgentTyped
<1> QED
  BY <1>2, AdvanceStep DEF PipelineRaises, Logs

\* A POST ends: the trace follows the proposal, and the tick's end the trace.
LEMMA ConcludesStep ==
    ASSUME TickInv, agent.pc = "calling", NEW ok \in BOOLEAN, Concludes(ok),
           agent.tick \in defects' \/ Posted(agent.tick),
           defects \subseteq defects', defects' \subseteq Ticks,
           UNCHANGED <<tickFile, thread, lastId, controlPlane, cuts, called>>
    PROVE  TickInv'
<1>1. agent # Asleep
  BY DEF Asleep
<1>2. /\ agent.tick = tickFile /\ tickFile \in Ticks
      /\ agent.body \in Bodies /\ agent.body.tick = agent.tick /\ BodyTrue(agent.body)
  BY <1>1, TaskTick DEF TickInv, AgentTrue
<1>3. Done(agent.tick)
  BY <1>2 DEF BodyTrue
<1>4. CASE agent.body.kind = "proposal"
  <2> DEFINE pid == IF ok THEN agent.body.pid ELSE Absent
             b == Trace(agent.tick, pid)
  <2>1. pid \in Nat \cup {Absent}
    BY <1>2, <1>4 DEF Bodies, ProposalBodies, TraceBodies
  <2>2. Sends(b, 1)
    BY <1>4 DEF Concludes
  <2> HIDE DEF pid
  <2>3. b \in Bodies /\ b.tick = agent.tick /\ b.kind = "trace" /\ BodyTrue(b)
    BY <1>2, <1>3, <2>1, RequestsTrue
  <2> HIDE DEF b
  <2> QED
    BY <1>1, <2>2, <2>3, SendStep
<1>5. CASE agent.body.kind # "proposal"
  BY <1>2, <1>5, AdvanceStep DEF Concludes
<1> QED
  BY <1>4, <1>5

\* Another attempt says the same; after the last one the failure is logged.
LEMMA RetriesStep ==
    ASSUME TickInv, agent.pc = "calling", Retries,
           UNCHANGED <<tickFile, thread, lastId, controlPlane, cuts, called>>
    PROVE  TickInv'
<1>1. agent # Asleep /\ defects \subseteq Ticks
  BY DEF Asleep, TickInv, AgentTyped
<1>2. /\ agent.tick = tickFile /\ tickFile \in Ticks /\ agent.n \in Nat
      /\ agent.body \in Bodies /\ agent.body.tick = agent.tick /\ BodyTrue(agent.body)
  BY <1>1, TaskTick DEF TickInv, AgentTrue
<1>3. CASE Sends(agent.body, agent.n + 1) /\ defects' = defects
  <2>1. agent.body.kind = "trace" => agent.tick \in defects' \/ Posted(agent.tick)
    BY <1>3 DEF TickInv, AgentTrue, Settled
  <2>2. agent.n + 1 \in Nat
    BY <1>2
  <2> QED
    BY <1>1, <1>2, <1>3, <2>1, <2>2, SendStep
<1>4. CASE Concludes(FALSE) /\ Logs(agent.tick)
  BY <1>1, <1>2, <1>4, ConcludesStep DEF Logs
<1> QED
  BY <1>3, <1>4 DEF Retries

\* A request without an answer is tried again.
LEMMA TimeOutStep == ASSUME TickInv, TimeOut PROVE TickInv'
BY RetriesStep DEF TimeOut, Waits

\* Success is believed, a refusal is logged or, of a trace, means that it is there.
LEMMA TakeAnswerStep == ASSUME TickInv, TakeAnswer PROVE TickInv'
<1>1. /\ agent.pc = "calling" /\ agent # Asleep
      /\ UNCHANGED <<tickFile, thread, lastId, controlPlane, cuts, called>>
  BY DEF TakeAnswer, Asleep
<1>2. /\ agent.tick \in Ticks /\ defects \subseteq Ticks
      /\ agent.body \in Bodies /\ agent.body.kind \in {"proposal", "trace"}
  BY <1>1, TaskTick DEF TickInv, AgentTyped, Bodies, ProposalBodies, TraceBodies
<1>3. CASE agent.answer = "ok" /\ Concludes(TRUE) /\ defects' = defects
  <2>1. agent.tick \in defects' \/ Posted(agent.tick)
    BY <1>1, <1>2, <1>3 DEF TickInv, AgentTrue, Settled
  <2> QED
    BY <1>1, <1>2, <1>3, <2>1, ConcludesStep
<1>4. CASE agent.body.kind = "trace" /\ Concludes(FALSE) /\ defects' = defects
  <2>1. agent.tick \in defects' \/ Posted(agent.tick)
    BY <1>1, <1>4 DEF TickInv, AgentTrue, Settled
  <2> QED
    BY <1>1, <1>2, <1>4, <2>1, ConcludesStep
<1>5. CASE Concludes(FALSE) /\ Logs(agent.tick)
  BY <1>1, <1>2, <1>5, ConcludesStep DEF Logs
<1>6. CASE Retries
  BY <1>1, <1>6, RetriesStep
<1> QED
  BY <1>3, <1>4, <1>5, <1>6 DEF TakeAnswer

\* The process ends anywhere: what is on disk and on its way is still true.
LEMMA CutOffStep == ASSUME TickInv, CutOff PROVE TickInv'
<1>1. /\ cuts' = cuts + 1 /\ agent' = Asleep
      /\ UNCHANGED <<tickFile, thread, lastId, mail, controlPlane, misses, defects, called>>
  BY DEF CutOff
<1>2. /\ \A b \in Bodies : BodyTrue(b) => BodyTrue(b)'
      /\ \A t \in Ticks : Settled(t) => Settled(t)'
      /\ RunsTrue' /\ LedgerCountsRunsOnce'
  BY <1>1, Kept
<1>3. AgentTyped'
  BY <1>1 DEF TickInv, AgentTyped, Tasks
<1>4. RowsTyped'
  BY <1>1 DEF TickInv, RowsTyped, controlPlane
<1>5. ThreadsTrue'
  BY <1>1 DEF TickInv, ThreadsTrue, ThreadTrue, RoundsBound
<1>6. MailTrue'
  BY <1>1, <1>2 DEF TickInv, MailTrue, RowsTyped
<1>7. AgentTrue'
  BY <1>1 DEF AgentTrue, Asleep
<1>8. SettledBehind'
  BY <1>1, <1>2 DEF TickInv, SettledBehind
<1> QED
  BY <1>2, <1>3, <1>4, <1>5, <1>6, <1>7, <1>8 DEF TickInv

-----------------------------------------------------------------------------
(* The control plane.                                                      *)

\* What an answer to m may promise, with the rows as they are then.
LEMMA ReplyStep ==
    ASSUME TickInv, NEW m \in mail, NEW x \in Answers, Reply(m, x),
           RowsTyped', RunsTrue', LedgerCountsRunsOnce', proposalRows \subseteq proposalRows',
           x = "ok" /\ m.body.kind = "proposal" => \E p \in proposalRows' : p.tick = m.body.tick
    PROVE  TickInv'
<1>1. /\ mail' = mail \ {m}
      /\ UNCHANGED <<tickFile, thread, lastId, cuts, defects, called>>
      /\ \/ agent' = agent
         \/ agent' = [agent EXCEPT !.answer = x] /\ Waits /\ m = Mailed(agent.body, agent.n)
  BY DEF Reply
<1>2. \A b \in Bodies : BodyTrue(b) => BodyTrue(b)'
  BY <1>1 DEF BodyTrue, Done
<1>3. \A t \in Ticks : Settled(t) => Settled(t)'
  BY <1>1 DEF Settled, Posted
<1>4. ThreadsTrue'
  BY <1>1 DEF TickInv, ThreadsTrue, ThreadTrue, RoundsBound
<1>5. MailTrue'
  BY <1>1, <1>2 DEF TickInv, MailTrue, RowsTyped
<1>6. SettledBehind'
  BY <1>1, <1>3 DEF TickInv, SettledBehind
<1>7. AgentTyped' /\ AgentTrue'
  <2>1. CASE agent' = agent
    <3>1. AgentTyped'
      BY <1>1, <2>1 DEF TickInv, AgentTyped
    <3>2. agent # Asleep => agent.tick \in Ticks /\ (agent.pc = "calling" => agent.body \in Bodies)
      BY TaskTick
    <3>3. agent.pc # "idle" => agent # Asleep
      BY DEF Asleep
    <3> QED
      BY <1>1, <1>2, <2>1, <3>1, <3>2, <3>3 DEF TickInv, AgentTrue, Settled, Posted, BodyTrue, Done
  <2>2. CASE agent' = [agent EXCEPT !.answer = x] /\ Waits /\ m = Mailed(agent.body, agent.n)
    <3>1. agent.pc = "calling" /\ agent # Asleep
      BY <2>2 DEF Waits, Asleep
    <3>2. /\ agent.tick = tickFile /\ tickFile \in Ticks
          /\ agent \in [pc : {"calling"}, tick : Ticks, body : Bodies, n : Nat, answer : Answers \cup {Absent}]
      BY <3>1, TaskTick
    <3>3. /\ agent' \in [pc : {"calling"}, tick : Ticks, body : Bodies, n : Nat, answer : Answers \cup {Absent}]
          /\ agent'.pc = "calling" /\ agent'.tick = agent.tick
          /\ agent'.body = agent.body /\ agent'.answer = x
      BY <2>2, <3>2
    <3>4. agent' \in Tasks
      BY <3>3 DEF Tasks
    <3>5. AgentTyped'
      BY <1>1, <3>2, <3>3, <3>4 DEF TickInv, AgentTyped
    <3>6. m.body = agent.body
      BY <2>2 DEF Mailed
    <3>7. agent.body \in Bodies /\ agent.body.tick = agent.tick /\ BodyTrue(agent.body)
      BY <3>1, <3>2 DEF TickInv, AgentTrue
    <3>8. agent'.body.tick = agent'.tick /\ BodyTrue(agent.body)
          /\ agent'.body \in Bodies
      BY <3>3, <3>7
    <3>9. BodyTrue(agent'.body)
      BY <3>3, <3>7
    <3>10. agent'.body.kind = "trace" => agent'.tick \in defects' \/ \E p \in proposalRows' : p.tick = agent'.tick
      BY <1>1, <3>1, <3>3 DEF TickInv, AgentTrue, Settled, Posted
    <3>11. agent'.body.kind = "proposal" /\ agent'.answer = "ok" => \E p \in proposalRows' : p.tick = agent'.tick
      BY <3>3, <3>6, <3>7
    <3> HIDE DEF Bodies
    <3>12. AgentTrue'
      BY <1>1, <3>3, <3>8, <3>9, <3>10, <3>11 DEF AgentTrue, Settled, Posted, BodyTrue, Done
    <3> QED
      BY <3>5, <3>12
  <2> QED
    BY <1>1, <2>1, <2>2
<1> QED
  BY <1>4, <1>5, <1>6, <1>7 DEF TickInv

\* A proposal's tick has no other run, so it is stored, once.
LEMMA InsertProposalStep ==
    ASSUME TickInv, NEW m \in mail, InsertProposal(m)
    PROVE  TickInv'
<1> DEFINE b == m.body
<1>1. b \in ProposalBodies /\ BodyTrue(b) /\ b.kind = "proposal"
  BY DEF TickInv, RowsTyped, MailTrue, InsertProposal, Bodies, ProposalBodies, TraceBodies
<1>2. /\ b.tick \in Ticks /\ b.run \in Nat /\ b.pid \in Nat
      /\ Done(b.tick) /\ b.run = thread[b.tick].run /\ b.pid = thread[b.tick].proposal.pid
  BY <1>1 DEF ProposalBodies, BodyTrue
<1>3. runRows[b.tick] \in {Absent, b.run}
  BY <1>2 DEF TickInv, RunsTrue
<1>4. /\ proposalRows' = proposalRows \cup {RowOf(b)}
      /\ runRows' = [runRows EXCEPT ![b.tick] = b.run]
      /\ traceRows' = traceRows /\ spent' = spent
      /\ Reply(m, "ok") \/ Reply(m, "unavailable")
  BY <1>3 DEF InsertProposal
<1>5. UNCHANGED <<thread>> /\ mail' \subseteq mail
  BY <1>4 DEF Reply
<1>6. RowOf(b) \in [pid : Nat, run : Nat, tick : Ticks] /\ RowOf(b).tick = b.tick
      /\ RowOf(b).run = b.run /\ RowOf(b).pid = b.pid
  BY <1>2 DEF RowOf
<1> HIDE DEF b
<1>7. RowsTyped'
  BY <1>2, <1>4, <1>5, <1>6 DEF TickInv, RowsTyped
<1>8. RunsTrue'
  <2>1. \A t \in Ticks : t # b.tick => runRows'[t] = runRows[t]
    BY <1>4 DEF TickInv, RowsTyped
  <2>2. runRows'[b.tick] = b.run
    BY <1>2, <1>4 DEF TickInv, RowsTyped
  <2>3. \A t \in Ticks : runRows'[t] # Absent => Done(t) /\ runRows'[t] = thread[t].run
    BY <1>2, <2>1, <2>2 DEF TickInv, RunsTrue
  <2>4. ASSUME NEW p \in proposalRows'
        PROVE  /\ Done(p.tick) /\ p.pid = thread[p.tick].proposal.pid
               /\ p.run = thread[p.tick].run /\ runRows'[p.tick] = p.run
    <3>1. CASE p \in proposalRows
      <4>1. p.tick \in Ticks
        BY <3>1 DEF TickInv, RowsTyped
      <4> QED
        BY <1>2, <2>1, <2>2, <3>1, <4>1 DEF TickInv, RunsTrue
    <3>2. CASE p = RowOf(b)
      BY <1>2, <1>6, <2>2, <3>2
    <3> QED
      BY <1>4, <3>1, <3>2
  <2> QED
    BY <1>5, <2>3, <2>4 DEF RunsTrue, Done
<1>9. LedgerCountsRunsOnce'
  BY <1>4 DEF TickInv, LedgerCountsRunsOnce
<1>10. /\ proposalRows \subseteq proposalRows'
       /\ \E p \in proposalRows' : p.tick = m.body.tick
  BY <1>4, <1>6 DEF b
<1> QED
  BY <1>4, <1>7, <1>8, <1>9, <1>10, ReplyStep DEF Answers

\* A trace of a run that has none is charged; no other one is.
LEMMA TraceCharged ==
    ASSUME TickInv, NEW b \in TraceBodies, ~Traced(b), traceRows' = traceRows \cup {b},
           spent' = spent + b.cost
    PROVE  LedgerCountsRunsOnce'
<1> DEFINE f == [x \in traceRows |-> x.cost]
           g == [x \in traceRows' |-> x.cost]
<1>1. b \notin traceRows /\ IsFiniteSet(traceRows) /\ traceRows \subseteq TraceBodies
  BY DEF Traced, TickInv, RowsTyped
<1>2. \A x \in traceRows \cup {b} : g[x] \in Int
  BY <1>1 DEF TraceBodies
<1>3. g[b] = b.cost /\ \A x \in traceRows : f[x] = g[x]
  OBVIOUS
<1>4. DOMAIN f = traceRows /\ DOMAIN g = traceRows \cup {b}
  OBVIOUS
<1>5. spent = SumFunction(f)
  BY DEF TickInv, LedgerCountsRunsOnce
<1> HIDE DEF f, g
<1>6. SumFunctionOnSet(f, traceRows) = SumFunctionOnSet(g, traceRows)
  BY <1>1, <1>3, SumSame
<1>7. SumFunctionOnSet(g, traceRows \cup {b}) = SumFunctionOnSet(g, traceRows) + g[b]
  BY <1>1, <1>2, SumAdd
<1>8. spent' = SumFunction(g)
  BY <1>3, <1>4, <1>5, <1>6, <1>7 DEF SumFunction
<1>9. \A x \in traceRows', y \in traceRows' : x.run = y.run => x = y
  BY DEF TickInv, LedgerCountsRunsOnce, Traced
<1> QED
  BY <1>8, <1>9 DEF LedgerCountsRunsOnce, g

\* Storing a trace (InsertTrace).
LEMMA InsertTraceStep ==
    ASSUME TickInv, NEW m \in mail, InsertTrace(m)
    PROVE  TickInv'
<1> DEFINE b == m.body
           x == IF ~HasRun(b) THEN "unknown"
                ELSE IF (HasRun(b) /\ ~Traced(b)) \/ b \in traceRows THEN "ok" ELSE "conflict"
<1>1. b \in TraceBodies /\ b.kind = "trace"
  BY DEF TickInv, RowsTyped, InsertTrace, Bodies, ProposalBodies, TraceBodies
<1>2. /\ Reply(m, x) /\ runRows' = runRows /\ proposalRows' = proposalRows
      /\ \/ ~Traced(b) /\ traceRows' = traceRows \cup {b} /\ spent' = spent + b.cost
         \/ traceRows' = traceRows /\ spent' = spent
  BY DEF InsertTrace
<1>3. thread' = thread /\ mail' \subseteq mail
  BY <1>2 DEF Reply
<1>4. x \in Answers
  BY DEF Answers
<1>5. ~(x = "ok" /\ m.body.kind = "proposal")
  BY <1>1
<1> HIDE DEF b, x
<1>6. RowsTyped'
  <2>1. IsFiniteSet(traceRows \cup {b})
    BY FS_AddElement DEF TickInv, RowsTyped
  <2> QED
    BY <1>1, <1>2, <1>3, <2>1 DEF TickInv, RowsTyped
<1>7. RunsTrue'
  BY <1>2, <1>3 DEF TickInv, RunsTrue, Done
<1>8. LedgerCountsRunsOnce'
  <2>1. CASE traceRows' = traceRows /\ spent' = spent
    BY <2>1 DEF TickInv, LedgerCountsRunsOnce
  <2> QED
    BY <1>1, <1>2, <2>1, TraceCharged
<1> QED
  BY <1>2, <1>4, <1>5, <1>6, <1>7, <1>8, ReplyStep

\* A request that was turned down or lost changed nothing.
LEMMA NothingStored ==
    ASSUME TickInv, NEW m \in mail, TurnDown(m) \/ Lose(m)
    PROVE  TickInv'
<1>1. UNCHANGED controlPlane /\ thread' = thread /\ mail' \subseteq mail
  BY DEF TurnDown, Lose, Reply
<1>2. RowsTyped' /\ RunsTrue' /\ LedgerCountsRunsOnce'
  BY <1>1 DEF TickInv, RowsTyped, RunsTrue, Done, LedgerCountsRunsOnce, controlPlane
<1>3. CASE TurnDown(m)
  <2>1. Reply(m, "unavailable") /\ proposalRows \subseteq proposalRows'
    BY <1>1, <1>3 DEF TurnDown, controlPlane
  <2> QED
    BY <1>2, <2>1, ReplyStep DEF Answers
<1>4. CASE Lose(m)
  <2>1. UNCHANGED <<agent, tickFile, thread, lastId, controlPlane, cuts, misses, defects, called>>
    BY <1>4 DEF Lose
  <2> QED
    BY <1>1, <1>2, <2>1 DEF TickInv, AgentTyped, ThreadsTrue, ThreadTrue, RoundsBound, MailTrue,
        BodyTrue, Done, AgentTrue, Settled, Posted, SettledBehind, controlPlane
<1> QED
  BY <1>3, <1>4

-----------------------------------------------------------------------------
(* The theorems.                                                           *)

\* Every step keeps the invariant.
LEMMA TickInvStep == TickInv /\ [AgentNext]_agentVars => TickInv'
<1> SUFFICES ASSUME TickInv, [AgentNext]_agentVars PROVE TickInv'
  OBVIOUS
<1>1. CASE UNCHANGED agentVars
  BY <1>1 DEF agentVars, controlPlane, TickInv, AgentTyped, RowsTyped, ThreadsTrue, ThreadTrue,
      RoundsBound, MailTrue, RunsTrue, BodyTrue, Done, AgentTrue, Settled, Posted, SettledBehind,
      LedgerCountsRunsOnce
<1>2. CASE PipelineStep
  <2>1. ASSUME NEW a \in Analysts, NEW r \in Results, AnalystNode(a, r) PROVE TickInv'
    BY <2>1, AnalystNodeStep
  <2>2. ASSUME NEW bull \in Results, NEW bear \in Results, DebateNode(bull, bear) PROVE TickInv'
    BY <2>2, DebateNodeStep
  <2>3. ASSUME NEW r \in Results, JudgeNode(r) \/ TraderNode(r) PROVE TickInv'
    BY <2>3, JudgeNodeStep, TraderNodeStep
  <2> QED
    BY <1>2, <2>1, <2>2, <2>3, PipelineEndsStep DEF PipelineStep
<1>3. ASSUME NEW m \in mail, Ingest(m) \/ TurnDown(m) \/ Lose(m) PROVE TickInv'
  BY <1>3, InsertProposalStep, InsertTraceStep, NothingStored DEF Ingest
<1> QED
  BY <1>1, <1>2, <1>3, BeginTickStep, TakeAnswerStep, ConcludeTickStep, PipelineRaisesStep,
     TimeOutStep, CutOffStep DEF AgentNext, AgentStep

\* The checkpoint, the requests, the rows and what the task believes agree, through any
\* ends of the process, losses and delays (run_tick, HttpTransport.post).
THEOREM TickInvariant == AgentSpec => []TickInv
BY TickInvInit, TickInvStep, PTL DEF AgentSpec

\* The task, its file, its checkpoints and the rows keep their types, and a run is
\* stored before what is filed under it (PipelineState, runs).
THEOREM AgentTypesHold == AgentSpec => []AgentTypeOK
<1>1. ASSUME TickInv PROVE AgentTypeOK
  <2>1. /\ agent.pc \in {"idle", "pipeline", "calling", "advance"}
        /\ agent # Asleep => agent.tick \in Ticks /\ agent.tick = tickFile
    BY <1>1, TaskTick DEF TickInv, AgentTyped, Tasks, Asleep
  <2>2. tickFile \in 0..(MaxTick + 1) /\ defects \subseteq Ticks
    BY <1>1 DEF TickInv, AgentTyped
  <2>3. ASSUME NEW t \in Ticks, thread[t] # Absent
        PROVE  /\ thread[t] \in Checkpoint
               /\ thread[t].rounds \in (0..MaxRounds) \cup {1}
               /\ (thread[t].proposal # Absent) = (thread[t].stage = "done")
    BY <1>1, <2>3 DEF TickInv, AgentTyped, ThreadsTrue, ThreadTrue, RoundsBound
  <2>4. \A p \in proposalRows : runRows[p.tick] = p.run
    BY <1>1 DEF TickInv, RunsTrue
  <2> QED
    BY <2>1, <2>2, <2>3, <2>4 DEF AgentTypeOK
<1> QED
  BY <1>1, TickInvariant, PTL

\* A redriven tick neither trades twice, nor is dropped without a logged failure, nor is
\* charged wrongly (run_tick, StateStore.advance, InsertProposal, InsertTrace).
THEOREM TicksAreAccounted == AgentSpec => []TicksAccounted
<1>1. ASSUME TickInv PROVE TicksAccounted
  <2>1. OneProposalPerTick
    <3>1. ASSUME NEW p \in proposalRows, NEW q \in proposalRows, p.tick = q.tick PROVE p = q
      <4>1. p.pid = q.pid /\ p.run = q.run
        BY <1>1, <3>1 DEF TickInv, RunsTrue
      <4>2. p \in [pid : Nat, run : Nat, tick : Ticks] /\ q \in [pid : Nat, run : Nat, tick : Ticks]
        BY <1>1 DEF TickInv, RowsTyped
      <4> QED
        BY <3>1, <4>1, <4>2
    <3> QED
      BY <3>1 DEF OneProposalPerTick
  <2>2. NothingDroppedSilently
    BY <1>1 DEF TickInv, SettledBehind, Settled, Posted, NothingDroppedSilently
  <2>3. CostsCarried
    BY <1>1 DEF TickInv, ThreadsTrue, ThreadTrue, CostsCarried
  <2> QED
    BY <1>1, <2>1, <2>2, <2>3 DEF TickInv, TicksAccounted
<1> QED
  BY <1>1, TickInvariant, PTL

=============================================================================
