-------------------------- MODULE Proposals_proofs --------------------------
(***************************************************************************)
(* Theorems about Proposals: the tables of the path from a submission to   *)
(* an order agree, what reached the OMS was allowed once, and the limits   *)
(* judged on a snapshot hold afterwards.                                   *)
(*                                                                         *)
(* Between the verdict in hand and its effect other handlers run.  The     *)
(* invariant says what the holder of the strategy lock may rely on         *)
(* meanwhile: nobody else stores a verdict of its strategy, and the slots  *)
(* it judged with may have moved only in its favour.                       *)
(***************************************************************************)
EXTENDS Proposals, FiniteSetTheorems, TLAPS

(***************************************************************************)
(* The inductive invariant.                                                *)
(***************************************************************************)

Ids    == {"rejected", "approved", "approved_but_blocked"}
States == Tiers \cup {"killed"}
Stamps == {t \in Times : t + ApprovalTimeout \in Times}

PostRecs ==
    {IdlePost}
    \cup [pc : {"waiting"}, id : Proposals, doc : Documents, at : Stamps]
    \cup [pc : {"admitted"}, id : Proposals, at : Stamps, st : States]
    \cup [pc : {"judged"}, id : Proposals, at : Stamps, st : States,
          decision : Decisions, clipped : {0, Limits.cap}]
    \cup [pc : {"arm", "submit", "record"}, id : Proposals, at : Stamps]

HumanRecs ==
    {IdleHuman}
    \cup [pc : {"preflight", "resolve"}, id : Proposals, at : Times, outcome : Ids]
    \cup [pc : {"submit", "record"}, id : Proposals]

SweepRecs == {IdleSweep} \cup [pc : {"resolve"}, at : Times, todo : SUBSET Proposals]

Typed ==
    /\ LedgerTypeOK
    /\ venue \in {"paper", "live"}
    /\ tier \in [Strategies -> States]
    /\ row \in [Proposals -> Documents \cup {Unset}]
    /\ verdict \in [Proposals -> Verdicts \cup {Unset}]
    /\ pending \in [Proposals -> Times \cup {Unset}]
    /\ approval \in [Proposals -> Approvals \cup {Unset}]
    /\ failed \subseteq Proposals
    /\ order \in [Proposals -> Statuses \cup {Unset}]
    /\ sent \in [Proposals -> Sizes]
    /\ loss \in [Strategies -> Int]
    /\ submits \in [Proposals -> Nat]
    /\ post \in [Posts -> PostRecs]
    /\ human \in [Humans -> HumanRecs]
    /\ sweep \in SweepRecs

\* The tables of one proposal agree: the rows were inserted in this order, and
\* it was submitted on its verdict or on its approval.
RowsAgree(p) ==
    /\ verdict[p] # Unset => row[p] # Unset
    /\ pending[p] # Unset => verdict[p] # Unset /\ row[p].act # "hold"
    /\ approval[p] # Unset => pending[p] # Unset
    /\ submits[p] <= 1
    /\ submits[p] > 0 => /\ verdict[p] # Unset /\ row[p].act # "hold"
                         /\ DirectVerdict(p) \/ ApprovedBy(p)
    /\ order[p] # Unset => submits[p] > 0

\* What a handler inside the lock relies on.
PostAgrees(h) ==
    LET p == post[h].id IN
    /\ post[h].pc \in {"admitted", "judged"} => row[p] # Unset /\ verdict[p] = Unset
    /\ post[h].pc \in {"arm", "submit"} =>
          /\ verdict[p] # Unset /\ pending[p] = Unset
          /\ submits[p] = 0 /\ row[p].act # "hold"
    /\ post[h].pc = "submit" => verdict[p].decision \in {"approve", "clip"}
    /\ post[h].pc = "record" => verdict[p] # Unset

\* No kill that binds p from its verdict until second t.
NoKillUntil(p, t) ==
    \A e \in DOMAIN kills : Binds(e, OwnerOf[p]) => kills[e].at \notin verdict[p].at .. (t - 1)

HumanAgrees(u) ==
    LET p == human[u].id IN
    /\ human[u].pc # "idle" => verdict[p] # Unset
    /\ human[u].pc \in {"preflight", "resolve"} => human[u].at <= now
    /\ human[u].pc = "resolve" /\ human[u].outcome = "approved" => NoKillUntil(p, human[u].at)
    /\ human[u].pc = "submit" => ApprovedBy(p) /\ submits[p] = 0

\* The strategy lock, and one winner per decision.
OneInLock == \A h, g \in Posts : \A s \in Strategies : InLock(h, s) /\ InLock(g, s) => h = g
OneWinner ==
    \A u, w \in Humans :
        human[u].pc = "submit" /\ human[w].pc = "submit" /\ human[u].id = human[w].id => u = w

ApprovalsClean ==
    \A p \in Proposals : ApprovedBy(p) => approval[p].at <= now /\ NoKillUntil(p, approval[p].at)

\* The verdict in hand of a handler that the limits let through.
Passing(h) ==
    /\ post[h].pc = "judged" /\ post[h].decision \in {"approve", "clip"}
    /\ row[post[h].id].act # "hold"

\* At no time, not only when a verdict is stored, do more fall into a window.
Counted(q) ==
    verdict[q] # Unset /\ row[q].act # "hold" /\ verdict[q].decision \in {"approve", "clip"}
Window(s, t) == {q \in OwnedBy(s) : Counted(q) /\ verdict[q].at \in (t - RateWindow + 1) .. t}
WindowBound  == \A s \in Strategies, t \in Times : Cardinality(Window(s, t)) <= Limits.perWindow

\* There is room in the window for the verdict in hand.
RateRoom(h) ==
    Passing(h) => Cardinality(InWindow(OwnerOf[post[h].id], post[h].at)) < Limits.perWindow

\* On the paper bridge: the slots a strategy has taken, by the positions it holds and
\* the entries that may still become one.
Taken(s)      == Cardinality(Held(s)) + Cardinality(WithStatus(s, "open"))
PaperSlots(s) == Taken(s) <= Limits.maxPositions

\* An order on its way to the OMS was judged with a slot free, and it still is.
Room(s) == Taken(s) < Limits.maxPositions

PaperRoom(h) ==
    LET p == post[h].id IN
    Opens(row[p]) /\ (Passing(h) \/ post[h].pc = "submit") => Room(OwnerOf[p])

OnPaper ==
    venue = "paper" =>
        /\ \A s \in Strategies : tier[s] \notin LiveTiers
        /\ \A h \in Posts : post[h].pc \in {"admitted", "judged"} => post[h].st \notin LiveTiers
        /\ \A h \in Posts : post[h].pc # "arm"
        /\ \A h \in Posts : post[h].pc = "judged" => post[h].decision # "escalate"
        /\ \A p \in Proposals : pending[p] = Unset /\ order[p] # "pending_new"
        /\ \A s \in Strategies : PaperSlots(s)
        /\ \A h \in Posts : post[h].pc \notin {"idle", "waiting"} => PaperRoom(h)

IInv ==
    /\ Typed
    /\ \A p \in Proposals : RowsAgree(p)
    /\ \A h \in Posts : PostAgrees(h)
    /\ \A u \in Humans : HumanAgrees(u)
    /\ OneInLock /\ OneWinner
    /\ ApprovalsClean
    /\ \A h \in Posts : RateRoom(h)
    /\ WindowBound
    /\ OnPaper

-----------------------------------------------------------------------------
(* Records.                                                                *)

\* The fields a handler carries at each place of its program.
LEMMA PostFields ==
    ASSUME NEW r \in PostRecs
    PROVE  /\ r.pc \in {"idle", "waiting", "admitted", "judged", "arm", "submit", "record"}
           /\ r.pc = "idle" => r = IdlePost
           /\ r.pc # "idle" => r.id \in Proposals /\ r.at \in Stamps /\ r # IdlePost
           /\ r.pc = "waiting" => r.doc \in Documents
           /\ r.pc \in {"admitted", "judged"} => r.st \in States
           /\ r.pc = "judged" => r.decision \in Decisions /\ r.clipped \in {0, Limits.cap}
BY DEF PostRecs, IdlePost

LEMMA HumanFields ==
    ASSUME NEW r \in HumanRecs
    PROVE  /\ r.pc \in {"idle", "preflight", "resolve", "submit", "record"}
           /\ r.pc = "idle" => r = IdleHuman
           /\ r.pc # "idle" => r.id \in Proposals /\ r # IdleHuman
           /\ r.pc \in {"preflight", "resolve"} => r.at \in Times /\ r.outcome \in Ids
BY DEF HumanRecs, IdleHuman

LEMMA Posting ==
    ASSUME Typed, NEW h \in Posts, NEW r \in PostRecs, post' = [post EXCEPT ![h] = r]
    PROVE  post' \in [Posts -> PostRecs]
BY DEF Typed

LEMMA Answering ==
    ASSUME Typed, NEW h \in Posts, Answer(h)
    PROVE  post' \in [Posts -> PostRecs]
<1>1. IdlePost \in PostRecs
  BY DEF PostRecs
<1> QED
  BY <1>1, Posting DEF Answer

\* The verdict of the gate has a decision, and the size of a clip or none.
LEMMA EvaluateType ==
    ASSUME NEW d, NEW s, NEW t
    PROVE  /\ Evaluate(d, Limits, s, t).decision \in Decisions
           /\ Evaluate(d, Limits, s, t).clipped \in {0, Limits.cap}
BY DEF Evaluate, Decisions

LEMMA SizeType ==
    ASSUME Typed, NEW p \in Proposals, verdict[p] # Unset, row[p] # Unset
    PROVE  SizeOf(p) \in Sizes
<1>1. verdict[p].clipped \in {0, Limits.cap} /\ row[p] \in Documents
  BY DEF Typed, Verdicts
<1>2. row[p].size \in Sizes
  BY <1>1 DEF Sizes
<1>3. Limits.cap \in Sizes
  BY LimitsAssumption DEF Sizes
<1> QED
  BY <1>1, <1>2, <1>3 DEF SizeOf

-----------------------------------------------------------------------------
(* Types.                                                                  *)

LEMMA TypedInit == ProposalsInit => Typed
<1> SUFFICES ASSUME ProposalsInit PROVE Typed
  OBVIOUS
<1>1. LedgerTypeOK
  BY LedgerBoundsAssumption DEF ProposalsInit, LedgerInit, LedgerTypeOK, Times
<1>2. /\ IdlePost \in PostRecs /\ IdleHuman \in HumanRecs /\ IdleSweep \in SweepRecs
      /\ 0 \in Sizes
  BY LimitsAssumption DEF PostRecs, HumanRecs, SweepRecs, Sizes
<1> QED
  BY <1>1, <1>2 DEF ProposalsInit, Typed, States

LEMMA TypedPost ==
    ASSUME Typed, NEW h \in Posts, PostAgrees(h), \A p \in Proposals : RowsAgree(p), PostStep(h)
    PROVE  Typed'
<1> DEFINE r == post[h]
<1>1. r \in PostRecs
  BY DEF Typed
<1>2. /\ r.pc # "idle" => r.id \in Proposals /\ r.at \in Stamps
      /\ r.pc = "waiting" => r.doc \in Documents
      /\ r.pc \in {"admitted", "judged"} => r.st \in States
      /\ r.pc = "judged" => r.decision \in Decisions /\ r.clipped \in {0, Limits.cap}
  BY <1>1, PostFields
<1>3. CASE AnswerStored(h) \/ TurnAway(h)
  BY <1>3, Answering DEF AnswerStored, TurnAway, Typed, LedgerTypeOK, outside, ledger, tables, bookOf
<1>4. CASE Admit(h)
  <2>1. r.pc = "waiting" /\ r.id \in Proposals /\ r.doc \in Documents /\ r.at \in Stamps
    BY <1>2, <1>4 DEF Admit, Waiting
  <2>2. tier[OwnerOf[r.id]] \in States
    BY <2>1, ProposalsAssumption DEF Typed
  <2>3. [pc |-> "admitted", id |-> r.id, at |-> r.at, st |-> tier[OwnerOf[r.id]]] \in PostRecs
    BY <2>1, <2>2 DEF PostRecs
  <2>4. post' \in [Posts -> PostRecs]
    BY <2>3, <1>4, Posting DEF Admit
  <2>5. row' \in [Proposals -> Documents \cup {Unset}]
    BY <2>1, <1>4 DEF Admit, Typed
  <2> QED
    BY <2>4, <2>5, <1>4 DEF Admit, Typed, LedgerTypeOK, outside, ledger, bookOf
<1>5. CASE Judge(h)
  <2>1. r.pc = "admitted" /\ r.id \in Proposals /\ r.at \in Stamps /\ r.st \in States
    BY <1>2, <1>5 DEF Judge
  <2>2. PICK fresh \in BOOLEAN, drift \in Unrealized(OwnerOf[r.id]) :
            LET state == RuntimeState(OwnerOf[r.id], r.st, r.at, fresh, drift)
                v     == Evaluate(row[r.id], Limits, state, r.at)
            IN post' = [post EXCEPT ![h] = [pc |-> "judged", id |-> r.id, at |-> r.at, st |-> r.st,
                                            decision |-> v.decision, clipped |-> v.clipped]]
    BY <1>5 DEF Judge
  <2> DEFINE state == RuntimeState(OwnerOf[r.id], r.st, r.at, fresh, drift)
             v     == Evaluate(row[r.id], Limits, state, r.at)
  <2>3. v.decision \in Decisions /\ v.clipped \in {0, Limits.cap}
    BY EvaluateType
  <2> HIDE DEF v
  <2>4. [pc |-> "judged", id |-> r.id, at |-> r.at, st |-> r.st,
         decision |-> v.decision, clipped |-> v.clipped] \in PostRecs
    BY <2>1, <2>3 DEF PostRecs
  <2>5. post' \in [Posts -> PostRecs]
    BY <2>2, <2>4, Posting DEF v
  <2> QED
    BY <2>5, <1>5 DEF Judge, Typed, LedgerTypeOK, outside, ledger, tables, bookOf
<1>6. CASE StoreVerdict(h)
  <2>1. /\ r.pc = "judged" /\ r.id \in Proposals /\ r.at \in Stamps
        /\ r.decision \in Decisions /\ r.clipped \in {0, Limits.cap}
    BY <1>2, <1>6 DEF StoreVerdict
  <2>2. [decision |-> r.decision, clipped |-> r.clipped, at |-> r.at] \in Verdicts
    BY <2>1 DEF Verdicts, Stamps
  <2>3. verdict' \in [Proposals -> Verdicts \cup {Unset}]
    BY <2>1, <2>2, <1>6 DEF StoreVerdict, Typed
  <2> DEFINE route == IF verdict[r.id] = Unset THEN RouteOf(r.decision, row[r.id], r.st) ELSE "nothing"
  <2>4. route \in {"nothing", "arm", "submit"}
    BY DEF RouteOf
  <2>5. (IF route = "nothing" THEN IdlePost ELSE [pc |-> route, id |-> r.id, at |-> r.at]) \in PostRecs
    BY <2>1, <2>4 DEF PostRecs
  <2>6. post' \in [Posts -> PostRecs]
    BY <2>5, <1>6, Posting DEF StoreVerdict
  <2> QED
    BY <2>3, <2>6, <1>6 DEF StoreVerdict, Typed, LedgerTypeOK, outside, ledger, bookOf
<1>7. CASE Arm(h)
  <2>1. r.id \in Proposals /\ r.at + ApprovalTimeout \in Times
    BY <1>2, <1>7 DEF Arm, Stamps
  <2>2. pending' \in [Proposals -> Times \cup {Unset}]
    BY <2>1, <1>7 DEF Arm, Typed
  <2>3. post' \in [Posts -> PostRecs]
    BY <1>7, Answering DEF Arm
  <2> QED
    BY <2>2, <2>3, <1>7 DEF Arm, Typed, LedgerTypeOK, outside, ledger, bookOf
<1>8. CASE Submit(h)
  <2>1. r.id \in Proposals /\ r.at \in Stamps /\ verdict[r.id] # Unset /\ r.pc = "submit"
    BY <1>2, <1>8 DEF Submit, PostAgrees
  <2>a. r \in [pc : {"arm", "submit", "record"}, id : Proposals, at : Stamps]
    BY <1>1, <2>1 DEF PostRecs, IdlePost
  <2>b. [r EXCEPT !.pc = "record"] \in [pc : {"arm", "submit", "record"}, id : Proposals, at : Stamps]
    BY <2>a
  <2>2. [r EXCEPT !.pc = "record"] \in PostRecs
    BY <2>b DEF PostRecs
  <2>3. post' \in [Posts -> PostRecs]
    BY <2>2, <1>8, Posting, Answering DEF Submit
  <2>4. SizeOf(r.id) \in Sizes
    BY <2>1, SizeType DEF RowsAgree
  <2>5. /\ order' \in [Proposals -> Statuses \cup {Unset}] /\ sent' \in [Proposals -> Sizes]
        /\ loss' \in [Strategies -> Int] /\ submits' \in [Proposals -> Nat]
    BY <2>1, <2>4, <1>8 DEF Submit, Accepted, Rejected, Typed, Statuses
  <2> QED
    BY <2>3, <2>5, <1>8 DEF Submit, Typed, LedgerTypeOK, outside, ledger, tables
<1>9. CASE Record(h)
  <2>1. r.id \in Proposals
    BY <1>2, <1>9 DEF Record
  <2> QED
    BY <2>1, <1>9, Answering DEF Record, Typed, LedgerTypeOK, outside, ledger, bookOf
<1> QED
  BY <1>3, <1>4, <1>5, <1>6, <1>7, <1>8, <1>9 DEF PostStep

LEMMA TypedHuman ==
    ASSUME Typed, NEW u \in Humans, HumanAgrees(u), \A p \in Proposals : RowsAgree(p), HumanStep(u)
    PROVE  Typed'
<1> DEFINE r == human[u]
<1>1. r \in HumanRecs
  BY DEF Typed
<1>2. /\ r.pc # "idle" => r.id \in Proposals
      /\ r.pc \in {"preflight", "resolve"} => r.at \in Times /\ r.outcome \in Ids
  BY <1>1, HumanFields
<1>3. \A x \in HumanRecs : [human EXCEPT ![u] = x] \in [Humans -> HumanRecs]
  BY DEF Typed
<1>4. IdleHuman \in HumanRecs
  BY DEF HumanRecs
<1>5. CASE Recheck(u)
  <2>1. r.pc = "preflight"
    BY <1>5 DEF Recheck
  <2>a. r \in [pc : {"preflight", "resolve"}, id : Proposals, at : Times, outcome : Ids]
    BY <1>1, <2>1 DEF HumanRecs, IdleHuman
  <2>b. \A o \in Ids : [r EXCEPT !.pc = "resolve", !.outcome = o]
                          \in [pc : {"preflight", "resolve"}, id : Proposals, at : Times, outcome : Ids]
    BY <2>a
  <2>2. \A o \in Ids : [r EXCEPT !.pc = "resolve", !.outcome = o] \in HumanRecs
    BY <2>b DEF HumanRecs
  <2>3. PICK o \in Ids : human' = [human EXCEPT ![u].pc = "resolve", ![u].outcome = o]
    BY <1>5 DEF Recheck, Ids
  <2>4. human' = [human EXCEPT ![u] = [r EXCEPT !.pc = "resolve", !.outcome = o]]
    BY <2>3 DEF Typed
  <2> QED
    BY <2>2, <2>4, <1>3, <1>5 DEF Recheck, Typed, LedgerTypeOK, outside, ledger, tables, bookOf
<1>6. CASE Resolve(u)
  <2>1. r.pc = "resolve" /\ r.id \in Proposals /\ r.at \in Times /\ r.outcome \in Ids
    BY <1>2, <1>6 DEF Resolve
  <2>2. [outcome |-> r.outcome, at |-> r.at] \in Approvals
    BY <2>1 DEF Approvals, Ids, Outcomes
  <2>3. approval' \in [Proposals -> Approvals \cup {Unset}]
    BY <2>1, <2>2, <1>6 DEF Resolve, Typed
  <2>4. [pc |-> "submit", id |-> r.id] \in HumanRecs
    BY <2>1 DEF HumanRecs
  <2>5. \E x \in HumanRecs : human' = [human EXCEPT ![u] = x]
    BY <2>4, <1>4, <1>6 DEF Resolve, Typed
  <2>6. human' \in [Humans -> HumanRecs]
    BY <2>5, <1>3
  <2> QED
    BY <2>3, <2>6, <1>6 DEF Resolve, Typed, LedgerTypeOK, outside, ledger, bookOf
<1>7. CASE SubmitDecided(u)
  <2>1. r.pc = "submit" /\ r.id \in Proposals /\ verdict[r.id] # Unset
    BY <1>2, <1>7 DEF SubmitDecided, HumanAgrees
  <2>a. r \in [pc : {"submit", "record"}, id : Proposals]
    BY <1>1, <2>1 DEF HumanRecs, IdleHuman
  <2>b. [r EXCEPT !.pc = "record"] \in [pc : {"submit", "record"}, id : Proposals]
    BY <2>a
  <2>2. [r EXCEPT !.pc = "record"] \in HumanRecs
    BY <2>b DEF HumanRecs
  <2>3. \E x \in HumanRecs : human' = [human EXCEPT ![u] = x]
    BY <2>2, <1>4, <1>7 DEF SubmitDecided, Typed
  <2>4. human' \in [Humans -> HumanRecs]
    BY <2>3, <1>3
  <2>5. SizeOf(r.id) \in Sizes
    BY <2>1, SizeType DEF RowsAgree
  <2>6. /\ order' \in [Proposals -> Statuses \cup {Unset}] /\ sent' \in [Proposals -> Sizes]
        /\ loss' \in [Strategies -> Int] /\ submits' \in [Proposals -> Nat]
    BY <2>1, <2>5, <1>7 DEF SubmitDecided, Accepted, Rejected, Typed, Statuses
  <2> QED
    BY <2>4, <2>6, <1>7 DEF SubmitDecided, Typed, LedgerTypeOK, outside, ledger, tables
<1>8. CASE RecordDecided(u)
  BY <1>2, <1>3, <1>4, <1>8 DEF RecordDecided, Typed, LedgerTypeOK, outside, ledger, bookOf
<1> QED
  BY <1>5, <1>6, <1>7, <1>8 DEF HumanStep

\* The kill ledger: kills are only appended, at the second in which they happen.
LEMMA LedgerStep ==
    ASSUME LedgerTypeOK, KillOrClear
    PROVE  /\ LedgerTypeOK' /\ now' = now
           /\ \/ kills' = kills
              \/ \E c \in Strategies : kills' = Append(kills, [scope |-> c, flatten |-> FALSE, at |-> now])
<1>1. PICK s \in Strategies : AppendKill(s, FALSE) \/ Observe(s) \/ AppendKillClear(s)
  BY DEF KillOrClear
<1>2. s \in Scopes
  BY DEF Scopes
<1>3. CASE AppendKill(s, FALSE)
  <2> DEFINE k == [scope |-> s, flatten |-> FALSE, at |-> now]
  <2>1. k \in KillRow /\ kills \in Seq(KillRow)
    BY <1>2 DEF LedgerTypeOK, KillRow
  <2>2. kills' = Append(kills, k)
    BY <1>3 DEF AppendKill
  <2> HIDE DEF k
  <2>3. /\ kills' \in Seq(KillRow) /\ Len(kills') = Len(kills) + 1 /\ Len(kills) \in Nat
        /\ DOMAIN kills = 1..Len(kills) /\ DOMAIN kills' = 1..Len(kills')
    BY <2>1, <2>2
  <2>4. UNCHANGED <<now, cleared, observed, done, superseded>> /\ Len(kills) < MaxKill
    BY <1>3 DEF AppendKill
  <2>5. LedgerTypeOK'
    BY <2>3, <2>4, LedgerBoundsAssumption DEF LedgerTypeOK
  <2> QED
    BY <2>2, <2>4, <2>5 DEF k
<1>4. CASE Observe(s)
  <2>1. PICK m \in EpochsAt(s) \cup {0} : observed' = [observed EXCEPT ![s] = m]
    BY <1>4 DEF Observe, IsScopeMax
  <2>2. m \in Nat
    BY <2>1 DEF EpochsAt, LedgerTypeOK
  <2> QED
    BY <1>4, <2>1, <2>2 DEF Observe, LedgerTypeOK
<1>5. CASE AppendKillClear(s)
  <2>1. Superseded(s, observed[s]) \subseteq DOMAIN kills
    BY DEF Superseded, EpochsAt
  <2> QED
    BY <1>2, <1>5, <2>1 DEF AppendKillClear, LedgerTypeOK
<1> QED
  BY <1>1, <1>3, <1>4, <1>5

\* The time a request is stamped with lets its timer expire.
LEMMA TypedReceive ==
    ASSUME Typed, NEW h \in Posts, NEW p \in Proposals, NEW d \in Documents, Receive(h, p, d)
    PROVE  Typed'
<1>1. now \in Stamps
  <2>1. now \in Times /\ now + ApprovalTimeout <= MaxNow
    BY DEF Receive, Typed, LedgerTypeOK
  <2> QED
    BY <2>1, ProposalsAssumption, LedgerBoundsAssumption DEF Stamps, Times
<1>2. [pc |-> "waiting", id |-> p, doc |-> d, at |-> now] \in PostRecs
  BY <1>1 DEF PostRecs
<1>3. post' \in [Posts -> PostRecs]
  BY <1>2, Posting DEF Receive
<1> QED
  BY <1>3 DEF Receive, Typed, LedgerTypeOK, outside, ledger, tables, bookOf

LEMMA TypedDecide ==
    ASSUME Typed, NEW u \in Humans, NEW p \in Proposals, NEW yes \in BOOLEAN, Decide(u, p, yes)
    PROVE  Typed'
<1>1. now \in Times
  BY DEF Typed, LedgerTypeOK
<1>2. [pc |-> IF yes THEN "preflight" ELSE "resolve", id |-> p, at |-> now, outcome |-> "rejected"] \in HumanRecs
  BY <1>1 DEF HumanRecs, Ids
<1>3. human' \in [Humans -> HumanRecs]
  BY <1>2 DEF Decide, Typed
<1> QED
  BY <1>3 DEF Decide, Typed, LedgerTypeOK, outside, ledger, tables, bookOf

LEMMA TypedSweep ==
    ASSUME Typed, SweepStep
    PROVE  Typed'
<1>1. CASE StartSweepOfTimers
  <2>1. now \in Times /\ DueUndecided(now) \subseteq Proposals
    BY DEF Typed, LedgerTypeOK, DueUndecided
  <2>2. sweep' \in SweepRecs
    BY <1>1, <2>1 DEF StartSweepOfTimers, SweepRecs
  <2> QED
    BY <1>1, <2>2 DEF StartSweepOfTimers, Typed, LedgerTypeOK, outside, ledger, tables, bookOf
<1>2. CASE ExpireNext
  <2>1. sweep \in [pc : {"resolve"}, at : Times, todo : SUBSET Proposals]
    BY <1>2 DEF ExpireNext, Typed, SweepRecs
  <2>2. PICK p \in sweep.todo :
            /\ approval' = IF OpenForDecision(p)
                           THEN [approval EXCEPT ![p] = [outcome |-> "timeout", at |-> sweep.at]]
                           ELSE approval
            /\ sweep' = IF sweep.todo = {p} THEN IdleSweep ELSE [sweep EXCEPT !.todo = @ \ {p}]
    BY <1>2 DEF ExpireNext
  <2>3. [outcome |-> "timeout", at |-> sweep.at] \in Approvals
    BY <2>1 DEF Approvals, Outcomes
  <2>4. approval' \in [Proposals -> Approvals \cup {Unset}]
    BY <2>1, <2>2, <2>3 DEF Typed
  <2>5. [sweep EXCEPT !.todo = @ \ {p}] \in [pc : {"resolve"}, at : Times, todo : SUBSET Proposals]
    BY <2>1
  <2>6. sweep' \in SweepRecs
    BY <2>2, <2>5 DEF SweepRecs
  <2> QED
    BY <1>2, <2>4, <2>6 DEF ExpireNext, Typed, LedgerTypeOK, outside, ledger, bookOf
<1> QED
  BY <1>1, <1>2 DEF SweepStep

\* What a venue step does to the books: one order moves, and only the close of a
\* filled one wins or loses.
LEMMA VenueEffect ==
    ASSUME Typed, VenueMoves
    PROVE  /\ UNCHANGED <<outside, tables, sent, submits, handlers>>
           /\ \E p \in Proposals :
                 /\ order[p] # Unset
                 /\ \/ /\ order' = [order EXCEPT ![p] = "open"] /\ order[p] = "pending_new"
                       /\ UNCHANGED loss
                    \/ /\ order' = [order EXCEPT ![p] = "filled"] /\ order[p] = "open"
                       /\ UNCHANGED loss
                    \/ order' = [order EXCEPT ![p] = "closed"] /\ UNCHANGED loss
                    \/ /\ order' = [order EXCEPT ![p] = "closed"]
                       /\ \E l \in Losses(p) : loss' = [loss EXCEPT ![OwnerOf[p]] = @ + l]
<1>1. PICK p \in Proposals :
        \/ Acknowledge(p) \/ Fill(p) \/ Cancel(p)
        \/ \E l \in Losses(p) : CloseOut(p, l)
  BY DEF VenueMoves
<1>2. \A x \in Statuses : x # Unset
  BY UnsetAssumption
<1>3. CASE Acknowledge(p) \/ Fill(p) \/ Cancel(p)
  BY <1>2, <1>3 DEF Acknowledge, Fill, Cancel, OrderMoves, Statuses
<1>4. CASE \E l \in Losses(p) : CloseOut(p, l)
  BY <1>2, <1>4 DEF CloseOut, Statuses
<1> QED
  BY <1>1, <1>3, <1>4

LEMMA TypedVenue ==
    ASSUME Typed, \A p \in Proposals : RowsAgree(p), VenueMoves
    PROVE  Typed'
<1>1. PICK p \in Proposals :
                 /\ order[p] # Unset
                 /\ \/ order' = [order EXCEPT ![p] = "open"] /\ UNCHANGED loss
                    \/ order' = [order EXCEPT ![p] = "filled"] /\ UNCHANGED loss
                    \/ order' = [order EXCEPT ![p] = "closed"] /\ UNCHANGED loss
                    \/ /\ order' = [order EXCEPT ![p] = "closed"]
                       /\ \E l \in Losses(p) : loss' = [loss EXCEPT ![OwnerOf[p]] = @ + l]
  BY VenueEffect
<1>2. Losses(p) \subseteq Int
  <2>1. row[p] \in Documents /\ sent[p] \in Sizes
    BY <1>1 DEF RowsAgree, Typed
  <2>2. row[p].stop \in Nat /\ sent[p] \in Nat /\ MaxGap \in Nat
    BY <2>1, ProposalsAssumption, LimitsAssumption DEF IsProposal, Sizes
  <2>3. sent[p] * row[p].stop \in Int
    BY <2>2
  <2> QED
    BY <2>2, <2>3 DEF Losses
<1>3. order' \in [Proposals -> Statuses \cup {Unset}]
  BY <1>1 DEF Typed, Statuses
<1>4. loss' \in [Strategies -> Int]
  BY <1>1, <1>2 DEF Typed
<1>5. UNCHANGED <<outside, tables, sent, submits, handlers>>
  BY VenueEffect
<1> QED
  BY <1>3, <1>4, <1>5 DEF Typed, LedgerTypeOK, outside, ledger, tables, handlers

LEMMA TypedOutside ==
    ASSUME Typed, \/ KillOrClear \/ TimePasses \/ Halt
                  \/ \E s \in Strategies, to \in Tiers \cup {"killed"} : MoveTier(s, to)
    PROVE  Typed'
<1>1. CASE KillOrClear
  BY <1>1, LedgerStep DEF KillOrClear, Typed, tables, bookOf, handlers
<1>2. CASE TimePasses
  <2>1. LedgerTypeOK'
    BY <1>2, LedgerBoundsAssumption DEF TimePasses, Tick, Typed, LedgerTypeOK, Times, ledger
  <2> QED
    BY <1>2, <2>1 DEF TimePasses, Typed, tables, bookOf, handlers
<1>3. CASE Halt
  <2>1. /\ post' \in [Posts -> PostRecs] /\ human' \in [Humans -> HumanRecs] /\ sweep' \in SweepRecs
    BY <1>3 DEF Halt, PostRecs, HumanRecs, SweepRecs
  <2> QED
    BY <1>3, <2>1 DEF Halt, Typed, LedgerTypeOK, ledger, tables, bookOf
<1>4. CASE \E s \in Strategies, to \in Tiers \cup {"killed"} : MoveTier(s, to)
  BY <1>4 DEF MoveTier, Typed, LedgerTypeOK, States, ledger, tables, bookOf, handlers
<1> QED
  BY <1>1, <1>2, <1>3, <1>4

LEMMA TypedStep ==
    ASSUME Typed, \A p \in Proposals : RowsAgree(p), \A h \in Posts : PostAgrees(h),
           \A u \in Humans : HumanAgrees(u), [ProposalsNext]_proposalVars
    PROVE  Typed'
<1>1. CASE UNCHANGED proposalVars
  BY <1>1 DEF proposalVars, Typed, LedgerTypeOK, outside, ledger, tables, bookOf, handlers
<1>2. CASE ProposalsNext
  BY <1>2, TypedReceive, TypedPost, TypedDecide, TypedHuman, TypedSweep, TypedVenue, TypedOutside
     DEF ProposalsNext
<1> QED
  BY <1>1, <1>2

-----------------------------------------------------------------------------
(* The tables.                                                             *)

\* Actions that write none of the rows the invariant is about.
RowsKept == UNCHANGED <<row, verdict, pending, approval, submits, order>>

LEMMA KeptBy ==
    ASSUME NEW h \in Posts,
           \/ AnswerStored(h) \/ TurnAway(h) \/ Judge(h) \/ Record(h)
           \/ \E p \in Proposals, d \in Documents : Receive(h, p, d)
           \/ StartSweepOfTimers \/ KillOrClear \/ TimePasses \/ Halt
           \/ \E s \in Strategies, to \in Tiers \cup {"killed"} : MoveTier(s, to)
           \/ UNCHANGED proposalVars
    PROVE  RowsKept
BY DEF RowsKept, AnswerStored, TurnAway, Judge, Record, Receive, StartSweepOfTimers,
       KillOrClear, TimePasses, Halt, MoveTier, proposalVars, tables, bookOf

LEMMA KeptByHuman ==
    ASSUME NEW u \in Humans,
           \/ Recheck(u) \/ RecordDecided(u)
           \/ \E p \in Proposals, yes \in BOOLEAN : Decide(u, p, yes)
    PROVE  RowsKept
BY DEF RowsKept, Recheck, RecordDecided, Decide, tables, bookOf

\* An undecided row is not submitted yet.
LEMMA OpenIsUnsubmitted ==
    ASSUME Typed, NEW p \in Proposals, RowsAgree(p), OpenForDecision(p)
    PROVE  submits[p] = 0 /\ verdict[p] # Unset /\ row[p].act # "hold"
BY DEF Typed, RowsAgree, OpenForDecision, DirectVerdict, ApprovedBy

LEMMA PostedIds ==
    ASSUME Typed, NEW h \in Posts, post[h].pc # "idle"
    PROVE  /\ post[h].id \in Proposals /\ post[h].at \in Stamps
           /\ OwnerOf[post[h].id] \in Strategies
<1>1. post[h] \in PostRecs
  BY DEF Typed
<1> QED
  BY <1>1, PostFields, ProposalsAssumption

LEMMA HumanIds ==
    ASSUME Typed, NEW u \in Humans, human[u].pc # "idle"
    PROVE  human[u].id \in Proposals
<1>1. human[u] \in HumanRecs
  BY DEF Typed
<1> QED
  BY <1>1, HumanFields

\* Documents, verdicts, deadlines and decisions are not the absent row.
LEMMA Present ==
    /\ \A d \in Documents : d # Unset
    /\ \A v \in Verdicts : v # Unset
    /\ \A t \in Times : t # Unset
    /\ \A a \in Approvals : a # Unset
    /\ \A x \in Statuses : x # Unset
BY UnsetAssumption

LEMMA RowsStep ==
    ASSUME IInv, [ProposalsNext]_proposalVars
    PROVE  \A p \in Proposals : RowsAgree(p)'
<1> USE DEF IInv
<1>k. ASSUME RowsKept PROVE \A p \in Proposals : RowsAgree(p)'
  BY <1>k DEF RowsKept, RowsAgree, DirectVerdict, ApprovedBy
<1>1. CASE UNCHANGED proposalVars
  <2>1. RowsKept
    BY <1>1 DEF RowsKept, proposalVars, tables, bookOf
  <2> QED
    BY <1>k, <2>1
<1>2. ASSUME NEW h \in Posts, NEW p \in Proposals, NEW d \in Documents, Receive(h, p, d)
      PROVE  \A q \in Proposals : RowsAgree(q)'
  BY <1>k, <1>2, KeptBy
<1>3. ASSUME NEW h \in Posts, PostStep(h)
      PROVE  \A q \in Proposals : RowsAgree(q)'
  <2> DEFINE p == post[h].id
  <2>1. CASE AnswerStored(h) \/ TurnAway(h) \/ Judge(h) \/ Record(h)
    BY <1>k, <2>1, KeptBy
  <2>2. CASE Admit(h)
    <3>1. p \in Proposals /\ verdict[p] = Unset
      BY <2>2, PostedIds DEF Admit, Waiting, RowsAgree
    <3>2. \A q \in Proposals : q # p => row'[q] = row[q]
      BY <2>2 DEF Admit, Typed
    <3>3. UNCHANGED <<verdict, pending, approval, submits, order>>
      BY <2>2 DEF Admit, bookOf
    <3> QED
      BY <3>1, <3>2, <3>3 DEF RowsAgree, DirectVerdict, ApprovedBy, Typed
  <2>3. CASE StoreVerdict(h)
    <3>1. p \in Proposals /\ verdict[p] = Unset /\ row[p] # Unset
      BY <2>3, PostedIds DEF StoreVerdict, PostAgrees
    <3>2. \A q \in Proposals : q # p => verdict'[q] = verdict[q]
      BY <2>3 DEF StoreVerdict, Typed
    <3>3. UNCHANGED <<row, pending, approval, submits, order>>
      BY <2>3 DEF StoreVerdict, bookOf
    <3> QED
      BY <3>1, <3>2, <3>3 DEF RowsAgree, DirectVerdict, ApprovedBy, Typed
  <2>4. CASE Arm(h)
    <3>1. p \in Proposals /\ verdict[p] # Unset /\ submits[p] = 0 /\ row[p].act # "hold"
      BY <2>4, PostedIds DEF Arm, PostAgrees
    <3>2. \A q \in Proposals : q # p => pending'[q] = pending[q]
      BY <2>4 DEF Arm, Typed
    <3>3. pending'[p] \in Times
      BY <2>4, <3>1, PostedIds DEF Arm, Typed, Stamps
    <3>4. UNCHANGED <<row, verdict, approval, submits, order>>
      BY <2>4 DEF Arm, bookOf
    <3> QED
      BY <3>1, <3>2, <3>3, <3>4, Present DEF RowsAgree, DirectVerdict, ApprovedBy, Typed
  <2>5. CASE Submit(h)
    <3>1. /\ p \in Proposals /\ verdict[p] # Unset /\ pending[p] = Unset /\ submits[p] = 0
          /\ row[p].act # "hold" /\ verdict[p].decision \in {"approve", "clip"}
      BY <2>5, PostedIds DEF Submit, PostAgrees
    <3>2. /\ submits' = [submits EXCEPT ![p] = @ + 1]
          /\ \/ UNCHANGED order
             \/ order' = [order EXCEPT ![p] = IF venue = "live" THEN "pending_new" ELSE "open"]
      BY <2>5 DEF Submit, Accepted, Rejected
    <3>3. UNCHANGED <<row, verdict, pending, approval>>
      BY <2>5 DEF Submit, tables
    <3> QED
      BY <3>1, <3>2, <3>3 DEF RowsAgree, DirectVerdict, ApprovedBy, Typed
  <2> QED
    BY <1>3, <2>1, <2>2, <2>3, <2>4, <2>5 DEF PostStep
<1>4. ASSUME NEW u \in Humans, NEW p \in Proposals, NEW yes \in BOOLEAN, Decide(u, p, yes)
      PROVE  \A q \in Proposals : RowsAgree(q)'
  BY <1>k, <1>4, KeptByHuman
<1>5. ASSUME NEW u \in Humans, HumanStep(u)
      PROVE  \A q \in Proposals : RowsAgree(q)'
  <2> DEFINE p == human[u].id
  <2>1. CASE Recheck(u) \/ RecordDecided(u)
    BY <1>k, <2>1, KeptByHuman
  <2>2. CASE Resolve(u)
    <3>1. p \in Proposals
      BY <2>2, HumanIds DEF Resolve
    <3>2. UNCHANGED <<row, verdict, pending, submits, order>>
      BY <2>2 DEF Resolve, bookOf
    <3>3. CASE OpenForDecision(p)
      <4>1. submits[p] = 0 /\ pending[p] # Unset
        BY <3>1, <3>3, OpenIsUnsubmitted DEF OpenForDecision
      <4>2. \A q \in Proposals : q # p => approval'[q] = approval[q]
        BY <2>2 DEF Resolve, Typed
      <4> QED
        BY <3>1, <3>2, <4>1, <4>2 DEF RowsAgree, DirectVerdict, ApprovedBy, Typed
    <3>4. CASE ~OpenForDecision(p)
      <4>1. RowsKept
        BY <2>2, <3>2, <3>4 DEF Resolve, RowsKept
      <4> QED
        BY <1>k, <4>1
    <3> QED
      BY <3>3, <3>4
  <2>3. CASE SubmitDecided(u)
    <3>1. p \in Proposals /\ ApprovedBy(p) /\ submits[p] = 0
      BY <2>3, HumanIds DEF SubmitDecided, HumanAgrees
    <3>2. /\ submits' = [submits EXCEPT ![p] = @ + 1]
          /\ \/ UNCHANGED order
             \/ order' = [order EXCEPT ![p] = IF venue = "live" THEN "pending_new" ELSE "open"]
      BY <2>3 DEF SubmitDecided, Accepted, Rejected
    <3>3. UNCHANGED <<row, verdict, pending, approval>>
      BY <2>3 DEF SubmitDecided, tables
    <3> QED
      BY <3>1, <3>2, <3>3 DEF RowsAgree, DirectVerdict, ApprovedBy, Typed
  <2> QED
    BY <1>5, <2>1, <2>2, <2>3 DEF HumanStep
<1>6. CASE SweepStep
  <2>1. CASE StartSweepOfTimers
    <3>1. RowsKept
      BY <2>1 DEF StartSweepOfTimers, RowsKept, tables, bookOf
    <3> QED
      BY <1>k, <3>1
  <2>2. CASE ExpireNext
    <3>1. UNCHANGED <<row, verdict, pending, submits, order>>
      BY <2>2 DEF ExpireNext, bookOf
    <3>2. PICK p \in sweep.todo :
            approval' = IF OpenForDecision(p)
                        THEN [approval EXCEPT ![p] = [outcome |-> "timeout", at |-> sweep.at]]
                        ELSE approval
      BY <2>2 DEF ExpireNext
    <3>3. CASE OpenForDecision(p) /\ p \in Proposals
      <4>1. submits[p] = 0 /\ pending[p] # Unset
        BY <3>3, OpenIsUnsubmitted DEF OpenForDecision
      <4>2. \A q \in Proposals : q # p => approval'[q] = approval[q]
        BY <3>2 DEF Typed
      <4> QED
        BY <3>1, <3>3, <4>1, <4>2 DEF RowsAgree, DirectVerdict, ApprovedBy, Typed
    <3>4. CASE ~(OpenForDecision(p) /\ p \in Proposals)
      <4>1. approval' = approval
        BY <3>2, <3>4 DEF Typed
      <4> QED
        BY <1>k, <3>1, <4>1 DEF RowsKept
    <3> QED
      BY <3>3, <3>4
  <2> QED
    BY <1>6, <2>1, <2>2 DEF SweepStep
<1>7. CASE VenueMoves
  <2>1. UNCHANGED <<row, verdict, pending, approval, submits>>
    BY <1>7, VenueEffect DEF tables
  <2>2. PICK p \in Proposals : order[p] # Unset /\ \A q \in Proposals : q # p => order'[q] = order[q]
    BY <1>7, VenueEffect DEF Typed
  <2> QED
    BY <2>1, <2>2 DEF RowsAgree, DirectVerdict, ApprovedBy
<1>8. CASE KillOrClear \/ TimePasses \/ Halt \/ \E s \in Strategies, to \in Tiers \cup {"killed"} : MoveTier(s, to)
  <2>1. RowsKept
    BY <1>8 DEF RowsKept, KillOrClear, TimePasses, Halt, MoveTier, tables, bookOf
  <2> QED
    BY <1>k, <2>1
<1> QED
  BY <1>1, <1>2, <1>3, <1>4, <1>5, <1>6, <1>7, <1>8 DEF ProposalsNext

-----------------------------------------------------------------------------
(* The handlers in the lock.                                               *)

Holds(h) == post[h].pc \notin {"idle", "waiting"}

LEMMA LockedOut ==
    ASSUME Typed, OneInLock, NEW h \in Posts, NEW g \in Posts, Holds(h), Holds(g), g # h
    PROVE  post[g].id # post[h].id /\ OwnerOf[post[g].id] # OwnerOf[post[h].id]
<1>1. OwnerOf[post[h].id] \in Strategies
  BY PostedIds DEF Holds
<1> QED
  BY <1>1 DEF OneInLock, InLock, Holds

LEMMA NobodyIn ==
    ASSUME NEW h \in Posts, NEW g \in Posts, Waiting(h), Holds(g)
    PROVE  post[g].id # post[h].id /\ OwnerOf[post[g].id] # OwnerOf[post[h].id] /\ g # h
BY DEF Waiting, LockFree, InLock, Holds

\* How a step changes the handlers: one of them moves, or none, or all are gone.
LEMMA PostMoves ==
    ASSUME Typed, NEW h \in Posts, PostStep(h) \/ \E p \in Proposals, d \in Documents : Receive(h, p, d)
    PROVE  \A g \in Posts : g # h => post'[g] = post[g]
BY DEF PostStep, AnswerStored, TurnAway, Admit, Judge, StoreVerdict, Arm, Submit, Record, Receive, Answer, Typed

\* Who waits in line, or goes, needs nothing of the tables.
LEMMA Outside ==
    ASSUME NEW h \in Posts, post'[h].pc \in {"idle", "waiting"}
    PROVE  PostAgrees(h)'
BY DEF PostAgrees

LEMMA AnswerIdles ==
    ASSUME Typed, NEW h \in Posts, Answer(h)
    PROVE  post'[h].pc = "idle"
BY DEF Answer, IdlePost, Typed

LEMMA PostKept ==
    ASSUME NEW g \in Posts, PostAgrees(g), post'[g] = post[g],
           Holds(g) => LET p == post[g].id IN
               /\ row'[p] = row[p] /\ verdict'[p] = verdict[p]
               /\ post[g].pc \in {"arm", "submit"} => pending'[p] = pending[p] /\ submits'[p] = submits[p]
    PROVE  PostAgrees(g)'
BY DEF PostAgrees, Holds

LEMMA PostOwnStep ==
    ASSUME IInv, NEW h \in Posts, PostStep(h)
    PROVE  PostAgrees(h)'
<1> DEFINE r == post[h]
           p == post[h].id
<1> USE DEF IInv
<1>1. CASE AnswerStored(h) \/ TurnAway(h) \/ Arm(h) \/ Record(h)
  <2>1. Answer(h)
    BY <1>1 DEF AnswerStored, TurnAway, Arm, Record
  <2> QED
    BY <2>1, AnswerIdles, Outside
<1>2. CASE Admit(h)
  <2>1. p \in Proposals /\ post[h].doc \in Documents
    <3>1. post[h] \in PostRecs /\ post[h].pc = "waiting"
      BY <1>2 DEF Admit, Waiting, Typed
    <3> QED
      BY <3>1, PostFields
  <2>2. verdict[p] = Unset
    BY <1>2, <2>1 DEF Admit, RowsAgree
  <2>3. row'[p] = post[h].doc /\ verdict' = verdict
    BY <1>2, <2>1 DEF Admit, Typed
  <2>4. post'[h].pc = "admitted" /\ post'[h].id = p
    BY <1>2 DEF Admit, Typed
  <2> QED
    BY <2>1, <2>2, <2>3, <2>4, Present DEF PostAgrees
<1>3. CASE Judge(h)
  <2>1. post'[h].pc = "judged" /\ post'[h].id = p /\ post[h].pc = "admitted"
    BY <1>3 DEF Judge, Typed
  <2>2. UNCHANGED <<row, verdict>>
    BY <1>3 DEF Judge, tables
  <2> QED
    BY <2>1, <2>2 DEF PostAgrees
<1>4. CASE StoreVerdict(h)
  <2> DEFINE x     == post[h].decision
             route == IF verdict[p] = Unset THEN RouteOf(x, row[p], post[h].st) ELSE "nothing"
  <2>1. /\ p \in Proposals /\ verdict[p] = Unset /\ row[p] # Unset
        /\ x \in Decisions /\ post[h].clipped \in {0, Limits.cap} /\ post[h].at \in Stamps
    <3>1. post[h] \in PostRecs /\ post[h].pc = "judged"
      BY <1>4 DEF StoreVerdict, Typed
    <3> QED
      BY <3>1, PostFields DEF PostAgrees
  <2>2. /\ verdict'[p] = [decision |-> x, clipped |-> post[h].clipped, at |-> post[h].at]
        /\ UNCHANGED <<row, pending, submits>>
    BY <1>4, <2>1 DEF StoreVerdict, Typed, bookOf
  <2>3. verdict'[p] \in Verdicts
    BY <2>1, <2>2 DEF Verdicts, Stamps
  <2>4. pending[p] = Unset /\ submits[p] = 0
    BY <2>1 DEF RowsAgree, Typed
  <2>5. post'[h] = IF route = "nothing" THEN IdlePost ELSE [pc |-> route, id |-> p, at |-> post[h].at]
    BY <1>4 DEF StoreVerdict, Typed
  <2>6. /\ route \in {"nothing", "arm", "submit"}
        /\ route # "nothing" => row[p].act # "hold"
        /\ route = "submit" => x \in {"approve", "clip"}
    BY <2>1 DEF RouteOf, Decisions
  <2> HIDE DEF route
  <2>7. CASE route = "nothing"
    BY <2>5, <2>7, Outside DEF IdlePost
  <2>8. CASE route # "nothing"
    <3>1. post'[h].pc = route /\ post'[h].id = p
      BY <2>5, <2>8
    <3> QED
      BY <2>2, <2>3, <2>4, <2>6, <2>8, <3>1, Present DEF PostAgrees
  <2> QED
    BY <2>7, <2>8
<1>5. CASE Submit(h)
  <2>1. post[h].pc = "submit" /\ verdict[p] # Unset /\ UNCHANGED verdict
    BY <1>5 DEF Submit, PostAgrees, tables
  <2>2. CASE Answer(h)
    BY <2>2, AnswerIdles, Outside
  <2>3. CASE post' = [post EXCEPT ![h].pc = "record"]
    <3>1. post'[h].pc = "record" /\ post'[h].id = p
      <4>1. post[h] \in PostRecs
        BY DEF Typed
      <4>2. post'[h] = [post[h] EXCEPT !.pc = "record"]
        BY <2>3 DEF Typed
      <4>3. post[h] \in [pc : {"arm", "submit", "record"}, id : Proposals, at : Stamps]
        BY <2>1, <4>1 DEF PostRecs, IdlePost
      <4> QED
        BY <4>2, <4>3
    <3> QED
      BY <2>1, <3>1 DEF PostAgrees
  <2> QED
    BY <1>5, <2>2, <2>3 DEF Submit
<1> QED
  BY <1>1, <1>2, <1>3, <1>4, <1>5 DEF PostStep

LEMMA PostOthers ==
    ASSUME IInv, NEW h \in Posts, PostStep(h), NEW g \in Posts, g # h
    PROVE  PostAgrees(g)'
<1> DEFINE p == post[h].id
<1> USE DEF IInv
<1>1. post'[g] = post[g]
  BY PostMoves
<1>2. CASE AnswerStored(h) \/ TurnAway(h) \/ Judge(h) \/ Record(h)
  <2>1. RowsKept
    BY <1>2, KeptBy
  <2> QED
    BY <1>1, <2>1, PostKept DEF RowsKept
<1>3. CASE Admit(h)
  <2>1. Holds(g) => post[g].id # p
    BY <1>3, NobodyIn DEF Admit
  <2>2. \A q : q # p => row'[q] = row[q]
    BY <1>3 DEF Admit, Typed
  <2>3. UNCHANGED <<verdict, pending, submits>>
    BY <1>3 DEF Admit, bookOf
  <2> QED
    BY <1>1, <2>1, <2>2, <2>3, PostKept
<1>4. CASE StoreVerdict(h)
  <2>1. Holds(g) => post[g].id # p
    BY <1>4, LockedOut DEF StoreVerdict, Holds
  <2>2. \A q : q # p => verdict'[q] = verdict[q]
    BY <1>4 DEF StoreVerdict, Typed
  <2>3. UNCHANGED <<row, pending, submits>>
    BY <1>4 DEF StoreVerdict, bookOf
  <2> QED
    BY <1>1, <2>1, <2>2, <2>3, PostKept
<1>5. CASE Arm(h)
  <2>1. Holds(g) => post[g].id # p
    BY <1>5, LockedOut DEF Arm, Holds
  <2>2. \A q : q # p => pending'[q] = pending[q]
    BY <1>5 DEF Arm, Typed
  <2>3. UNCHANGED <<row, verdict, submits>>
    BY <1>5 DEF Arm, bookOf
  <2> QED
    BY <1>1, <2>1, <2>2, <2>3, PostKept
<1>6. CASE Submit(h)
  <2>1. Holds(g) => post[g].id # p
    BY <1>6, LockedOut DEF Submit, Holds
  <2>a. submits' = [submits EXCEPT ![p] = @ + 1]
    BY <1>6 DEF Submit, Accepted, Rejected
  <2>2. \A q \in Proposals : q # p => submits'[q] = submits[q]
    BY <2>a DEF Typed
  <2>3. UNCHANGED <<row, verdict, pending>>
    BY <1>6 DEF Submit, tables
  <2> QED
    BY <1>1, <2>1, <2>2, <2>3, PostKept, PostedIds DEF Holds
<1> QED
  BY <1>2, <1>3, <1>4, <1>5, <1>6 DEF PostStep

LEMMA PostsStep ==
    ASSUME IInv, [ProposalsNext]_proposalVars
    PROVE  \A g \in Posts : PostAgrees(g)'
<1> USE DEF IInv
<1> SUFFICES ASSUME NEW g \in Posts PROVE PostAgrees(g)'
  OBVIOUS
<1>k. ASSUME UNCHANGED <<post, row, verdict, pending, submits>> PROVE PostAgrees(g)'
  BY <1>k, PostKept
<1>1. CASE UNCHANGED proposalVars
  BY <1>1, <1>k DEF proposalVars, tables, bookOf, handlers
<1>2. ASSUME NEW h \in Posts, NEW p \in Proposals, NEW d \in Documents, Receive(h, p, d)
      PROVE  PostAgrees(g)'
  <2>1. UNCHANGED <<row, verdict, pending, submits>>
    BY <1>2 DEF Receive, tables, bookOf
  <2>2. post'[g] = post[g] \/ post'[g].pc = "waiting"
    BY <1>2 DEF Receive, Typed
  <2> QED
    BY <2>1, <2>2, PostKept, Outside
<1>3. ASSUME NEW h \in Posts, PostStep(h)
      PROVE  PostAgrees(g)'
  BY <1>3, PostOwnStep, PostOthers
<1>4. ASSUME NEW u \in Humans, NEW p \in Proposals, NEW yes \in BOOLEAN, Decide(u, p, yes)
      PROVE  PostAgrees(g)'
  BY <1>4, <1>k DEF Decide, tables, bookOf
<1>5. ASSUME NEW u \in Humans, HumanStep(u)
      PROVE  PostAgrees(g)'
  <2> DEFINE p == human[u].id
  <2>1. CASE Recheck(u) \/ Resolve(u) \/ RecordDecided(u)
    BY <2>1, <1>k DEF Recheck, Resolve, RecordDecided, tables, bookOf
  <2>2. CASE SubmitDecided(u)
    <3>1. UNCHANGED <<post, row, verdict, pending>>
      BY <2>2 DEF SubmitDecided, tables
    <3>2. pending[p] # Unset
      BY <2>2, HumanIds DEF SubmitDecided, HumanAgrees, ApprovedBy, RowsAgree
    <3>a. submits' = [submits EXCEPT ![p] = @ + 1]
      BY <2>2 DEF SubmitDecided, Accepted, Rejected
    <3>3. \A q \in Proposals : q # p => submits'[q] = submits[q]
      BY <3>a DEF Typed
    <3>4. post[g].pc \in {"arm", "submit"} => post[g].id # p
      BY <3>2 DEF PostAgrees
    <3> QED
      BY <3>1, <3>3, <3>4, PostKept, PostedIds DEF Holds
  <2> QED
    BY <1>5, <2>1, <2>2 DEF HumanStep
<1>6. CASE SweepStep
  BY <1>6, <1>k DEF SweepStep, StartSweepOfTimers, ExpireNext, tables, bookOf
<1>7. CASE VenueMoves
  BY <1>7, <1>k, VenueEffect DEF tables, handlers
<1>8. CASE KillOrClear \/ TimePasses \/ \E s \in Strategies, to \in Tiers \cup {"killed"} : MoveTier(s, to)
  BY <1>8, <1>k DEF KillOrClear, TimePasses, MoveTier, tables, bookOf, handlers
<1>9. CASE Halt
  <2>1. post'[g].pc = "idle"
    BY <1>9 DEF Halt, IdlePost
  <2> QED
    BY <2>1, Outside
<1> QED
  BY <1>1, <1>2, <1>3, <1>4, <1>5, <1>6, <1>7, <1>8, <1>9 DEF ProposalsNext

-----------------------------------------------------------------------------
(* The strategy lock: only Admit acquires it, and only when it is free.    *)

LEMMA Enters ==
    ASSUME Typed, NEW h \in Posts, NEW g \in Posts, [ProposalsNext]_proposalVars,
           Holds(g)', ~(Holds(g) /\ post'[g].id = post[g].id)
    PROVE  /\ Admit(g) /\ post'[g].id = post[g].id
           /\ h # g => post'[h] = post[h]
<1>k. post' # post
  BY DEF Holds
<1>1. ~(UNCHANGED proposalVars)
  BY <1>k DEF proposalVars, handlers
<1>2. ASSUME NEW f \in Posts, NEW p \in Proposals, NEW d \in Documents, Receive(f, p, d)
      PROVE  FALSE
  <2>1. post'[g] = post[g] \/ post'[g].pc = "waiting"
    BY <1>2 DEF Receive, Typed
  <2> QED
    BY <2>1 DEF Holds
<1>3. ASSUME NEW f \in Posts, PostStep(f) PROVE f = g /\ Admit(g)
  <2>1. f = g
    BY <1>3, PostMoves DEF Holds
  <2>2. ~Answer(g)
    BY AnswerIdles DEF Holds
  <2>3. CASE Judge(g)
    <3>1. post[g].pc = "admitted" /\ post'[g].id = post[g].id
      BY <2>3 DEF Judge, Typed
    <3> QED
      BY <3>1 DEF Holds
  <2>4. CASE StoreVerdict(g)
    <3>1. post[g].pc = "judged" /\ (post'[g] = IdlePost \/ post'[g].id = post[g].id)
      BY <2>4 DEF StoreVerdict, Typed
    <3> QED
      BY <3>1 DEF Holds, IdlePost
  <2>5. CASE Submit(g)
    <3>1. post[g].pc = "submit" /\ post' = [post EXCEPT ![g].pc = "record"]
      BY <2>2, <2>5 DEF Submit
    <3>2. post[g] \in [pc : {"arm", "submit", "record"}, id : Proposals, at : Stamps]
      BY <3>1 DEF Typed, PostRecs, IdlePost
    <3>3. post'[g] = [post[g] EXCEPT !.pc = "record"]
      BY <3>1 DEF Typed
    <3>4. post'[g].id = post[g].id
      BY <3>2, <3>3
    <3> QED
      BY <3>1, <3>4 DEF Holds
  <2> QED
    BY <1>3, <2>1, <2>2, <2>3, <2>4, <2>5 DEF PostStep, AnswerStored, TurnAway, Arm, Record
<1>4. ~(\E u \in Humans, p \in Proposals, yes \in BOOLEAN : Decide(u, p, yes))
  BY <1>k DEF Decide
<1>5. ~(\E u \in Humans : HumanStep(u))
  BY <1>k DEF HumanStep, Recheck, Resolve, SubmitDecided, RecordDecided
<1>6. ~SweepStep
  BY <1>k DEF SweepStep, StartSweepOfTimers, ExpireNext
<1>7. ~VenueMoves
  BY <1>k, VenueEffect DEF handlers
<1>8. ~KillOrClear /\ ~TimePasses /\ ~\E s \in Strategies, to \in Tiers \cup {"killed"} : MoveTier(s, to)
  BY <1>k DEF KillOrClear, TimePasses, MoveTier, handlers
<1>9. ~Halt
  BY DEF Halt, Holds, IdlePost
<1>10. Admit(g)
  BY <1>1, <1>2, <1>3, <1>4, <1>5, <1>6, <1>7, <1>8, <1>9 DEF ProposalsNext
<1>11. post'[g].id = post[g].id
  BY <1>10 DEF Admit, Typed
<1>12. \A f \in Posts : f # g => post'[f] = post[f]
  BY <1>10 DEF Admit, Typed
<1> QED
  BY <1>10, <1>11, <1>12

LEMMA LockStep ==
    ASSUME IInv, [ProposalsNext]_proposalVars
    PROVE  OneInLock'
<1> USE DEF IInv
<1> DEFINE Both(h, g) == Holds(h)' /\ Holds(g)' /\ OwnerOf[post'[h].id] = OwnerOf[post'[g].id]
<1> SUFFICES ASSUME NEW h \in Posts, NEW g \in Posts, Both(h, g), h # g PROVE FALSE
  BY DEF OneInLock, InLock, Holds
<1>1. ASSUME NEW a \in Posts, NEW b \in Posts, a # b, Both(a, b), Admit(a), post'[a].id = post[a].id
      PROVE  FALSE
  <2>1. post'[b] = post[b]
    BY <1>1 DEF Admit, Typed
  <2>2. Holds(b)
    BY <1>1, <2>1 DEF Holds
  <2>3. Waiting(a)
    BY <1>1 DEF Admit
  <2> QED
    BY <1>1, <2>1, <2>2, <2>3, NobodyIn
<1>2. CASE ~(Holds(h) /\ post'[h].id = post[h].id)
  BY <1>1, <1>2, Enters
<1>3. CASE ~(Holds(g) /\ post'[g].id = post[g].id)
  BY <1>1, <1>3, Enters
<1>4. CASE Holds(h) /\ post'[h].id = post[h].id /\ Holds(g) /\ post'[g].id = post[g].id
  BY <1>4, LockedOut
<1> QED
  BY <1>2, <1>3, <1>4

-----------------------------------------------------------------------------
(* The humans, and what the preflight established.                         *)

\* A verdict, once inserted, is never rewritten, nor is a decision.
LEMMA VerdictsStand ==
    ASSUME IInv, [ProposalsNext]_proposalVars, NEW p \in Proposals, verdict[p] # Unset
    PROVE  verdict'[p] = verdict[p]
<1>1. CASE \E h \in Posts : StoreVerdict(h)
  <2>1. PICK h \in Posts : StoreVerdict(h)
    BY <1>1
  <2> QED
    BY <2>1 DEF StoreVerdict, IInv, Typed
<1>2. CASE ~\E h \in Posts : StoreVerdict(h)
  <2>1. VenueMoves => verdict' = verdict
    BY VenueEffect DEF IInv, tables
  <2>2. verdict' = verdict
    BY <1>2, <2>1
       DEF ProposalsNext, proposalVars, tables, bookOf, Receive, PostStep, AnswerStored, TurnAway, Admit,
           Judge, Arm, Submit, Record, Decide, HumanStep, Recheck, Resolve, SubmitDecided, RecordDecided,
           SweepStep, StartSweepOfTimers, ExpireNext, KillOrClear, MoveTier, TimePasses, Halt
  <2> QED
    BY <2>2
<1> QED
  BY <1>1, <1>2

\* The clock does not run backwards and a kill is stamped with it.
LEMMA LedgerMoves ==
    ASSUME IInv, [ProposalsNext]_proposalVars
    PROVE  /\ now \in Nat /\ now' \in Nat /\ now' >= now
           /\ \/ kills' = kills
              \/ \E c \in Strategies : kills' = Append(kills, [scope |-> c, flatten |-> FALSE, at |-> now])
<1>0. now \in Nat
  BY DEF IInv, Typed, LedgerTypeOK, Times
<1>1. CASE KillOrClear
  <2>1. LedgerTypeOK
    BY DEF IInv, Typed
  <2>2. /\ now' = now
        /\ \/ kills' = kills
           \/ \E c \in Strategies : kills' = Append(kills, [scope |-> c, flatten |-> FALSE, at |-> now])
    BY <1>1, <2>1, LedgerStep
  <2>3. now' \in Nat /\ now' >= now
    BY <1>0, <2>2
  <2> QED
    BY <1>0, <2>2, <2>3, Zenon
<1>2. CASE TimePasses
  <2>1. now' = now + 1 /\ kills' = kills
    BY <1>2 DEF TimePasses, Tick, ledger
  <2> QED
    BY <1>0, <2>1
<1>3. CASE ~KillOrClear /\ ~TimePasses
  <2>1. VenueMoves => UNCHANGED <<now, kills>>
    BY VenueEffect DEF IInv, outside, ledger
  <2>2. UNCHANGED <<now, kills>>
    BY <1>3, <2>1
       DEF ProposalsNext, proposalVars, outside, ledger, Receive, PostStep, AnswerStored, TurnAway, Admit,
           Judge, StoreVerdict, Arm, Submit, Record, Decide, HumanStep, Recheck, Resolve, SubmitDecided,
           RecordDecided, SweepStep, StartSweepOfTimers, ExpireNext, MoveTier, Halt
  <2> QED
    BY <1>0, <2>2
<1> QED
  BY <1>1, <1>2, <1>3

LEMMA NoKillKept ==
    ASSUME IInv, [ProposalsNext]_proposalVars, NEW p \in Proposals, NEW t \in Times,
           verdict[p] # Unset, NoKillUntil(p, t), t <= now
    PROVE  NoKillUntil(p, t)'
<1>1. verdict'[p] = verdict[p]
  BY VerdictsStand
<1>2. CASE kills' = kills
  BY <1>1, <1>2 DEF NoKillUntil, Binds
<1>3. CASE \E c \in Strategies : kills' = Append(kills, [scope |-> c, flatten |-> FALSE, at |-> now])
  <2>1. PICK c \in Strategies : kills' = Append(kills, [scope |-> c, flatten |-> FALSE, at |-> now])
    BY <1>3
  <2> DEFINE k == [scope |-> c, flatten |-> FALSE, at |-> now]
  <2>2. kills \in Seq(KillRow) /\ k.at = now
    BY DEF IInv, Typed, LedgerTypeOK
  <2>3. k \in KillRow
    BY DEF KillRow, Scopes, IInv, Typed, LedgerTypeOK
  <2>4. kills' = Append(kills, k)
    BY <2>1
  <2> HIDE DEF k
  <2>5. /\ DOMAIN kills' = 1..(Len(kills) + 1) /\ DOMAIN kills = 1..Len(kills) /\ Len(kills) \in Nat
        /\ \A e \in DOMAIN kills : kills'[e] = kills[e]
        /\ kills'[Len(kills) + 1] = k
    BY <2>2, <2>3, <2>4
  <2>6. verdict[p].at \in Int /\ now \in Int /\ t \in Int
    BY DEF IInv, Typed, LedgerTypeOK, Verdicts, Times
  <2> SUFFICES ASSUME NEW e \in DOMAIN kills', Binds(e, OwnerOf[p])'
               PROVE  kills'[e].at \notin verdict[p].at .. (t - 1)
    BY <1>1 DEF NoKillUntil
  <2>7. CASE e \in DOMAIN kills
    BY <2>5, <2>7 DEF NoKillUntil, Binds
  <2>8. CASE e = Len(kills) + 1
    <3>1. kills'[e].at = now
      BY <2>2, <2>5, <2>8
    <3> QED
      BY <3>1, <2>6
  <2> QED
    BY <2>5, <2>7, <2>8
<1> QED
  BY <1>2, <1>3, LedgerMoves

\* Who moves a human's handler.
LEMMA HumanChange ==
    ASSUME Typed, NEW u \in Humans, [ProposalsNext]_proposalVars, human'[u] # human[u]
    PROVE  \/ human'[u] = IdleHuman
           \/ HumanStep(u)
           \/ \E p \in Proposals, yes \in BOOLEAN : Decide(u, p, yes)
<1>k. human' # human
  OBVIOUS
<1>1. ~UNCHANGED proposalVars
  BY <1>k DEF proposalVars, handlers
<1>2. ~\E h \in Posts, p \in Proposals, d \in Documents : Receive(h, p, d)
  BY <1>k DEF Receive
<1>3. ~\E h \in Posts : PostStep(h)
  BY <1>k DEF PostStep, AnswerStored, TurnAway, Admit, Judge, StoreVerdict, Arm, Submit, Record
<1>4. ASSUME NEW w \in Humans, HumanStep(w) PROVE w = u
  BY <1>4 DEF HumanStep, Recheck, Resolve, SubmitDecided, RecordDecided, Typed
<1>5. ASSUME NEW w \in Humans, NEW p \in Proposals, NEW yes \in BOOLEAN, Decide(w, p, yes) PROVE w = u
  BY <1>5 DEF Decide, Typed
<1>6. ~SweepStep
  BY <1>k DEF SweepStep, StartSweepOfTimers, ExpireNext
<1>7. ~VenueMoves
  BY <1>k, VenueEffect DEF handlers
<1>8. ~KillOrClear /\ ~TimePasses /\ ~\E s \in Strategies, to \in Tiers \cup {"killed"} : MoveTier(s, to)
  BY <1>k DEF KillOrClear, TimePasses, MoveTier, handlers
<1>9. Halt => human'[u] = IdleHuman
  BY DEF Halt
<1> QED
  BY <1>1, <1>2, <1>3, <1>4, <1>5, <1>6, <1>7, <1>8, <1>9 DEF ProposalsNext

\* Who may still submit p is alone with it: its count does not move under him.
LEMMA WaitsUnsubmitted ==
    ASSUME IInv, [ProposalsNext]_proposalVars, NEW u \in Humans, human[u].pc = "submit",
           human'[u] = human[u]
    PROVE  submits'[human[u].id] = submits[human[u].id]
<1> DEFINE p == human[u].id
<1> USE DEF IInv
<1>0. p \in Proposals /\ ApprovedBy(p) /\ pending[p] # Unset
  BY HumanIds DEF HumanAgrees, RowsAgree, ApprovedBy
<1>1. ASSUME NEW h \in Posts, Submit(h) PROVE submits'[p] = submits[p]
  <2>1. post[h].id # p /\ post[h].id \in Proposals
    BY <1>0, <1>1, PostedIds DEF Submit, PostAgrees
  <2>2. submits' = [submits EXCEPT ![post[h].id] = @ + 1]
    BY <1>1 DEF Submit, Accepted, Rejected
  <2> QED
    BY <1>0, <2>1, <2>2 DEF Typed
<1>2. ASSUME NEW w \in Humans, SubmitDecided(w) PROVE submits'[p] = submits[p]
  <2>1. human[w].pc = "submit" /\ human[w].id \in Proposals
    BY <1>2, HumanIds DEF SubmitDecided
  <2>2. human[w] \in HumanRecs
    BY DEF Typed
  <2>3. w # u
    <3>1. SUFFICES ASSUME w = u PROVE FALSE
      OBVIOUS
    <3>2. human[u] \in [pc : {"submit", "record"}, id : Proposals]
      BY <2>1, <2>2, <3>1 DEF HumanRecs, IdleHuman
    <3>3. human[u] # [human[u] EXCEPT !.pc = "record"] /\ human[u] # IdleHuman
      <4>1. [human[u] EXCEPT !.pc = "record"].pc = "record" /\ IdleHuman.pc = "idle"
        BY <3>2 DEF IdleHuman
      <4> QED
        BY <4>1
    <3>4. \/ human'[u] = IdleHuman
          \/ human'[u] = [human[u] EXCEPT !.pc = "record"]
      BY <1>2, <3>1 DEF SubmitDecided, Typed
    <3> QED
      BY <3>3, <3>4
  <2>4. human[w].id # p
    BY <2>1, <2>3 DEF OneWinner
  <2>5. submits' = [submits EXCEPT ![human[w].id] = @ + 1]
    BY <1>2 DEF SubmitDecided, Accepted, Rejected
  <2> QED
    BY <1>0, <2>1, <2>4, <2>5 DEF Typed
<1>3. CASE /\ ~\E h \in Posts : Submit(h)
           /\ ~\E w \in Humans : SubmitDecided(w)
  <2>1. VenueMoves => submits' = submits
    BY VenueEffect
  <2>2. submits' = submits
    BY <1>3, <2>1
       DEF ProposalsNext, proposalVars, bookOf, Receive, PostStep, AnswerStored, TurnAway, Admit,
           Judge, StoreVerdict, Arm, Record, Decide, HumanStep, Recheck, Resolve, RecordDecided,
           SweepStep, StartSweepOfTimers, ExpireNext, KillOrClear, MoveTier, TimePasses, Halt
  <2> QED
    BY <2>2
<1> QED
  BY <1>1, <1>2, <1>3

\* A recorded decision stands; a new one is a human's or a timeout.
LEMMA ApprovalsStand ==
    ASSUME IInv, [ProposalsNext]_proposalVars, NEW p \in Proposals
    PROVE  \/ approval'[p] = approval[p]
           \/ approval'[p] \in Approvals /\ approval'[p].outcome = "timeout" /\ approval[p] = Unset
           \/ \E u \in Humans : /\ Resolve(u) /\ human[u].id = p /\ OpenForDecision(p)
                                /\ approval'[p] = [outcome |-> human[u].outcome, at |-> human[u].at]
<1> USE DEF IInv
<1>1. ASSUME NEW u \in Humans, Resolve(u), approval'[p] # approval[p]
      PROVE  /\ human[u].id = p /\ OpenForDecision(p)
             /\ approval'[p] = [outcome |-> human[u].outcome, at |-> human[u].at]
  BY <1>1 DEF Resolve, Typed
<1>2. ASSUME ExpireNext, approval'[p] # approval[p]
      PROVE  approval'[p] \in Approvals /\ approval'[p].outcome = "timeout" /\ approval[p] = Unset
  <2>1. sweep.at \in Times
    BY <1>2 DEF ExpireNext, Typed, SweepRecs
  <2>2. PICK q \in sweep.todo :
          approval' = IF OpenForDecision(q)
                      THEN [approval EXCEPT ![q] = [outcome |-> "timeout", at |-> sweep.at]]
                      ELSE approval
    BY <1>2 DEF ExpireNext
  <2>3. p = q /\ OpenForDecision(p) /\ approval'[p] = [outcome |-> "timeout", at |-> sweep.at]
    BY <1>2, <2>2 DEF Typed
  <2> QED
    BY <2>1, <2>3 DEF Approvals, Outcomes, OpenForDecision
<1>3. CASE ~ExpireNext /\ ~\E u \in Humans : Resolve(u)
  <2>1. VenueMoves => approval' = approval
    BY VenueEffect DEF tables
  <2>2. approval' = approval
    BY <1>3, <2>1
       DEF ProposalsNext, proposalVars, tables, bookOf, Receive, PostStep, AnswerStored, TurnAway, Admit,
           Judge, StoreVerdict, Arm, Submit, Record, Decide, HumanStep, Recheck, SubmitDecided,
           RecordDecided, SweepStep, StartSweepOfTimers, KillOrClear, MoveTier, TimePasses, Halt
  <2> QED
    BY <2>2
<1> QED
  BY <1>1, <1>2, <1>3

LEMMA HumanOwnStep ==
    ASSUME IInv, NEW u \in Humans, HumanStep(u)
    PROVE  HumanAgrees(u)'
<1> DEFINE p == human[u].id
<1> USE DEF IInv
<1>0. [ProposalsNext]_proposalVars
  BY DEF ProposalsNext
<1>1. /\ human[u].pc # "idle" => p \in Proposals /\ verdict[p] # Unset
      /\ human[u] \in HumanRecs
  BY HumanIds DEF HumanAgrees, Typed
<1>2. CASE Recheck(u)
  <2>1. human[u] \in [pc : {"preflight", "resolve"}, id : Proposals, at : Times, outcome : Ids]
    BY <1>1, <1>2 DEF Recheck, HumanRecs, IdleHuman
  <2> DEFINE clear == tier[OwnerOf[p]] = "live_l1" /\ ~KilledSince(OwnerOf[p], verdict[p].at)
  <2>2. PICK fresh \in BOOLEAN, drift \in Unrealized(OwnerOf[p]) :
          human' = [human EXCEPT ![u].pc = "resolve",
              ![u].outcome = IF clear /\ fresh /\ loss[OwnerOf[p]] + drift < Limits.dailyLoss
                             THEN "approved" ELSE "approved_but_blocked"]
    BY <1>2 DEF Recheck
  <2> DEFINE o == IF clear /\ fresh /\ loss[OwnerOf[p]] + drift < Limits.dailyLoss
                  THEN "approved" ELSE "approved_but_blocked"
  <2>a. o = "approved" => ~KilledSince(OwnerOf[p], verdict[p].at)
    OBVIOUS
  <2>b. human'[u] = [human[u] EXCEPT !.pc = "resolve", !.outcome = o]
    BY <2>2 DEF Typed
  <2> HIDE DEF o
  <2>3. /\ human'[u].pc = "resolve" /\ human'[u].id = p /\ human'[u].at = human[u].at
        /\ human'[u].outcome = o
    BY <2>1, <2>b
  <2>4. UNCHANGED <<now, kills, verdict>>
    BY <1>2 DEF Recheck, outside, ledger, tables
  <2>5. human[u].at <= now /\ human[u].pc = "preflight"
    BY <1>2 DEF Recheck, HumanAgrees
  <2>c. \A e \in DOMAIN kills : kills[e] \in KillRow
    BY DEF Typed, LedgerTypeOK
  <2>6. /\ verdict[p].at \in Int /\ human[u].at \in Int
        /\ \A e \in DOMAIN kills : kills[e].at \in Int
    BY <1>1, <2>1, <2>5, <2>c DEF Typed, Verdicts, Times, KillRow
  <2>7. o = "approved" => \A e \in DOMAIN kills :
            Binds(e, OwnerOf[p]) => kills[e].at \notin verdict[p].at .. (human[u].at - 1)
    BY <2>a, <2>6 DEF KilledSince
  <2>8. o = "approved" => \A e \in DOMAIN kills' :
            kills'[e].scope \in Binding(OwnerOf[p]) => kills'[e].at \notin verdict'[p].at .. (human[u].at - 1)
    BY <2>4, <2>7 DEF Binds
  <2> QED
    BY <1>1, <2>3, <2>4, <2>5, <2>8 DEF HumanAgrees, NoKillUntil, Binds, Binding
<1>3. CASE Resolve(u)
  <2>1. UNCHANGED <<verdict, submits>>
    BY <1>3 DEF Resolve, bookOf
  <2>2. CASE OpenForDecision(p) /\ human[u].outcome = "approved"
    <3>1. p \in Proposals /\ verdict[p] # Unset /\ human[u].at \in Times /\ human[u].outcome \in Ids
      BY <1>1, <1>3, HumanFields DEF Resolve
    <3>2. human'[u] = [pc |-> "submit", id |-> p]
      BY <1>3, <2>2 DEF Resolve, Typed
    <3>3. approval'[p] = [outcome |-> human[u].outcome, at |-> human[u].at]
      BY <1>3, <2>2, <3>1 DEF Resolve, Typed
    <3>4. [outcome |-> human[u].outcome, at |-> human[u].at] \in Approvals
      BY <3>1 DEF Approvals, Outcomes, Ids
    <3>5. submits[p] = 0
      BY <2>2, <3>1, OpenIsUnsubmitted
    <3>6. approval'[p] # Unset /\ approval'[p].outcome = "approved"
      BY <2>2, <3>3, <3>4, Present
    <3> QED
      BY <2>1, <3>1, <3>2, <3>5, <3>6 DEF HumanAgrees, ApprovedBy
  <2>3. CASE ~(OpenForDecision(p) /\ human[u].outcome = "approved")
    <3>1. human'[u] = IdleHuman
      BY <1>3, <2>3 DEF Resolve, Typed
    <3> QED
      BY <3>1 DEF HumanAgrees, IdleHuman
  <2> QED
    BY <2>2, <2>3
<1>4. CASE SubmitDecided(u)
  <2>1. human[u] \in [pc : {"submit", "record"}, id : Proposals]
    BY <1>1, <1>4 DEF SubmitDecided, HumanRecs, IdleHuman
  <2>2. \/ human'[u] = IdleHuman
        \/ human'[u] = [human[u] EXCEPT !.pc = "record"]
    BY <1>4 DEF SubmitDecided, Typed
  <2>3. human'[u] = IdleHuman \/ (human'[u].pc = "record" /\ human'[u].id = p)
    BY <2>1, <2>2
  <2>4. UNCHANGED verdict /\ human[u].pc = "submit"
    BY <1>4 DEF SubmitDecided, tables
  <2> QED
    BY <1>1, <2>3, <2>4 DEF HumanAgrees, IdleHuman
<1>5. CASE RecordDecided(u)
  <2>1. human'[u] = IdleHuman
    BY <1>5 DEF RecordDecided, Typed
  <2> QED
    BY <2>1 DEF HumanAgrees, IdleHuman
<1> QED
  BY <1>2, <1>3, <1>4, <1>5 DEF HumanStep

LEMMA HumansStep ==
    ASSUME IInv, [ProposalsNext]_proposalVars
    PROVE  \A u \in Humans : HumanAgrees(u)'
<1> USE DEF IInv
<1> SUFFICES ASSUME NEW u \in Humans PROVE HumanAgrees(u)'
  OBVIOUS
<1>1. CASE human'[u] = human[u]
  <2>1. CASE human[u].pc = "idle"
    BY <1>1, <2>1 DEF HumanAgrees
  <2>2. CASE human[u].pc # "idle"
    <3>1. PICK p \in Proposals : p = human[u].id
      BY <2>2, HumanIds
    <3>2. verdict[p] # Unset /\ verdict'[p] # Unset
      BY <2>2, <3>1, VerdictsStand DEF HumanAgrees
    <3>3. human[u].pc \in {"preflight", "resolve"} =>
              human[u].at \in Times /\ human[u].at <= now /\ human[u].at <= now'
      <4>1. human[u] \in HumanRecs
        BY DEF Typed
      <4>2. human[u].pc \in {"preflight", "resolve"} => human[u].at \in Times /\ human[u].at <= now
        BY <4>1, HumanFields DEF HumanAgrees
      <4> QED
        BY <4>2, LedgerMoves DEF Times
    <3>4. human[u].pc = "resolve" /\ human[u].outcome = "approved" => NoKillUntil(p, human[u].at)'
      <4>1. SUFFICES ASSUME human[u].pc = "resolve", human[u].outcome = "approved"
                     PROVE  NoKillUntil(p, human[u].at)'
        OBVIOUS
      <4>2. PICK t \in Times : t = human[u].at /\ t <= now
        BY <4>1, <3>3
      <4>3. NoKillUntil(p, t)
        BY <3>1, <4>1, <4>2 DEF HumanAgrees
      <4>4. NoKillUntil(p, t)'
        BY <3>2, <4>2, <4>3, NoKillKept
      <4> QED
        BY <1>1, <4>2, <4>4 DEF NoKillUntil
    <3>5. human[u].pc = "submit" => ApprovedBy(p)' /\ submits'[p] = 0
      <4>1. SUFFICES ASSUME human[u].pc = "submit" PROVE ApprovedBy(p)' /\ submits'[p] = 0
        OBVIOUS
      <4>2. ApprovedBy(p) /\ submits[p] = 0
        BY <3>1, <4>1 DEF HumanAgrees
      <4>3. approval'[p] = approval[p]
        BY <4>2, ApprovalsStand DEF ApprovedBy, OpenForDecision
      <4> QED
        BY <1>1, <3>1, <4>1, <4>2, <4>3, WaitsUnsubmitted DEF ApprovedBy
    <3> QED
      BY <1>1, <3>1, <3>2, <3>3, <3>4, <3>5 DEF HumanAgrees, NoKillUntil, ApprovedBy
  <2> QED
    BY <2>1, <2>2
<1>2. CASE human'[u] # human[u]
  <2>1. CASE human'[u] = IdleHuman
    BY <2>1 DEF HumanAgrees, IdleHuman
  <2>2. CASE HumanStep(u)
    BY <2>2, HumanOwnStep
  <2>3. ASSUME NEW p \in Proposals, NEW yes \in BOOLEAN, Decide(u, p, yes)
        PROVE  HumanAgrees(u)'
    <3>1. human'[u] = [pc |-> IF yes THEN "preflight" ELSE "resolve", id |-> p,
                       at |-> now, outcome |-> "rejected"]
      BY <2>3 DEF Decide, Typed
    <3>2. /\ human'[u].pc \in {"preflight", "resolve"} /\ human'[u].id = p
          /\ human'[u].at = now /\ human'[u].outcome = "rejected"
      BY <3>1
    <3>3. verdict'[p] = verdict[p] /\ verdict[p] # Unset /\ now' = now
      BY <2>3 DEF Decide, tables, outside
    <3>4. now \in Int
      BY LedgerMoves
    <3> QED
      BY <3>2, <3>3, <3>4 DEF HumanAgrees
  <2> QED
    BY <1>2, <2>1, <2>2, <2>3, HumanChange
<1> QED
  BY <1>1, <1>2

\* One decision per proposal wins, so one human carries it to the OMS.
LEMMA WinnerStep ==
    ASSUME IInv, [ProposalsNext]_proposalVars
    PROVE  OneWinner'
<1> USE DEF IInv
<1>1. ASSUME NEW u \in Humans, human'[u].pc = "submit", human'[u] # human[u]
      PROVE  /\ approval[human'[u].id] = Unset
             /\ \A w \in Humans : w # u => human'[w] = human[w]
  <2>1. HumanStep(u)
    <3>1. ~\E p \in Proposals, yes \in BOOLEAN : Decide(u, p, yes)
      BY <1>1 DEF Decide, Typed
    <3> QED
      BY <1>1, <3>1, HumanChange DEF IdleHuman
  <2>2. human[u] \in HumanRecs
    BY DEF Typed
  <2>3. ~Recheck(u)
    <3>1. SUFFICES ASSUME Recheck(u) PROVE FALSE
      OBVIOUS
    <3>2. human[u] \in [pc : {"preflight", "resolve"}, id : Proposals, at : Times, outcome : Ids]
      BY <2>2, <3>1 DEF Recheck, HumanRecs, IdleHuman
    <3>3. PICK o \in Ids : human' = [human EXCEPT ![u].pc = "resolve", ![u].outcome = o]
      BY <3>1 DEF Recheck, Ids
    <3>4. human'[u] = [human[u] EXCEPT !.pc = "resolve", !.outcome = o]
      BY <3>3 DEF Typed
    <3>5. human'[u].pc = "resolve"
      BY <3>2, <3>4
    <3> QED
      BY <1>1, <3>5
  <2>4. ~SubmitDecided(u)
    <3>1. SUFFICES ASSUME SubmitDecided(u) PROVE FALSE
      OBVIOUS
    <3>2. human[u] \in [pc : {"submit", "record"}, id : Proposals]
      BY <2>2, <3>1 DEF SubmitDecided, HumanRecs, IdleHuman
    <3>3. [human[u] EXCEPT !.pc = "record"].pc = "record"
      BY <3>2
    <3>4. human'[u] = IdleHuman \/ human'[u] = [human[u] EXCEPT !.pc = "record"]
      BY <3>1 DEF SubmitDecided, Typed
    <3>5. IdleHuman.pc = "idle"
      BY DEF IdleHuman
    <3>6. human'[u].pc \in {"idle", "record"}
      BY <3>3, <3>4, <3>5
    <3> QED
      BY <1>1, <3>6
  <2>5. ~RecordDecided(u)
    BY <1>1 DEF RecordDecided, IdleHuman, Typed
  <2>6. Resolve(u)
    BY <2>1, <2>3, <2>4, <2>5 DEF HumanStep
  <2>7. /\ OpenForDecision(human[u].id)
        /\ human'[u] = [pc |-> "submit", id |-> human[u].id]
        /\ \A w \in Humans : w # u => human'[w] = human[w]
    BY <1>1, <2>6 DEF Resolve, IdleHuman, Typed
  <2> QED
    BY <2>7 DEF OpenForDecision
<1> SUFFICES ASSUME NEW u \in Humans, NEW w \in Humans, human'[u].pc = "submit", human'[w].pc = "submit",
                    human'[u].id = human'[w].id, u # w
             PROVE  FALSE
  BY DEF OneWinner
<1>2. ASSUME NEW a \in Humans, NEW b \in Humans, a # b, human'[a].pc = "submit", human'[b].pc = "submit",
             human'[a].id = human'[b].id, human'[a] # human[a]
      PROVE  FALSE
  <2>1. human'[b] = human[b] /\ approval[human[b].id] = Unset
    BY <1>1, <1>2
  <2> QED
    BY <1>2, <2>1 DEF HumanAgrees, ApprovedBy
<1>3. CASE human'[u] # human[u] \/ human'[w] # human[w]
  BY <1>2, <1>3
<1>4. CASE human'[u] = human[u] /\ human'[w] = human[w]
  BY <1>4 DEF OneWinner
<1> QED
  BY <1>3, <1>4

LEMMA ApprovalsStep ==
    ASSUME IInv, [ProposalsNext]_proposalVars
    PROVE  ApprovalsClean'
<1> USE DEF IInv
<1> SUFFICES ASSUME NEW p \in Proposals, ApprovedBy(p)'
             PROVE  approval'[p].at <= now' /\ NoKillUntil(p, approval[p].at)'
  BY DEF ApprovalsClean
<1>1. CASE approval'[p] = approval[p]
  <2>1. ApprovedBy(p) /\ verdict[p] # Unset
    BY <1>1 DEF ApprovedBy, RowsAgree
  <2>2. PICK t \in Times : t = approval[p].at /\ t <= now /\ NoKillUntil(p, t)
    BY <2>1 DEF ApprovalsClean, ApprovedBy, Typed, Approvals
  <2>3. NoKillUntil(p, t)' /\ t <= now'
    BY <2>1, <2>2, NoKillKept, LedgerMoves DEF Times
  <2> QED
    BY <1>1, <2>2, <2>3 DEF NoKillUntil
<1>2. CASE \E u \in Humans : /\ Resolve(u) /\ human[u].id = p /\ OpenForDecision(p)
                             /\ approval'[p] = [outcome |-> human[u].outcome, at |-> human[u].at]
  <2>1. PICK u \in Humans : /\ Resolve(u) /\ human[u].id = p /\ OpenForDecision(p)
                            /\ approval'[p] = [outcome |-> human[u].outcome, at |-> human[u].at]
    BY <1>2
  <2>2. human[u].pc = "resolve" /\ human[u].outcome = "approved"
    BY <2>1 DEF Resolve, ApprovedBy
  <2>3. approval'[p].at <= now /\ NoKillUntil(p, approval'[p].at)
    BY <2>1, <2>2 DEF HumanAgrees
  <2>4. UNCHANGED <<now, kills, verdict>>
    BY <2>1 DEF Resolve, outside, ledger
  <2> QED
    BY <2>3, <2>4 DEF NoKillUntil, Binds
<1>3. CASE approval'[p].outcome = "timeout"
  BY <1>3 DEF ApprovedBy
<1> QED
  BY <1>1, <1>2, <1>3, ApprovalsStand

\* Which action brought a handler to the place where it is.
LEMMA NextPlace ==
    ASSUME Typed, [ProposalsNext]_proposalVars, NEW h \in Posts, post'[h] # post[h]
    PROVE  /\ post'[h].pc = "admitted" => Admit(h)
           /\ post'[h].pc = "judged" => Judge(h)
           /\ post'[h].pc \in {"arm", "submit"} => StoreVerdict(h)
<1>1. PostStep(h) \/ post'[h].pc \in {"idle", "waiting"}
  <2>1. VenueMoves => post' = post
    BY VenueEffect DEF handlers
  <2>2. ASSUME NEW f \in Posts, PostStep(f) PROVE f = h
    BY <2>2, PostMoves
  <2>3. ASSUME NEW f \in Posts, NEW p \in Proposals, NEW d \in Documents, Receive(f, p, d)
        PROVE  post'[h].pc = "waiting"
    BY <2>3 DEF Receive, Typed
  <2>4. Halt => post'[h].pc = "idle"
    BY DEF Halt, IdlePost
  <2> QED
    BY <2>1, <2>2, <2>3, <2>4
       DEF ProposalsNext, proposalVars, handlers, Decide, HumanStep, Recheck, Resolve, SubmitDecided,
           RecordDecided, SweepStep, StartSweepOfTimers, ExpireNext, KillOrClear, MoveTier, TimePasses
<1>2. Answer(h) => post'[h].pc = "idle"
  BY AnswerIdles
<1>3. Admit(h) => post'[h].pc = "admitted"
  BY DEF Admit, Typed
<1>4. Judge(h) => post'[h].pc = "judged"
  BY DEF Judge, Typed
<1>5. StoreVerdict(h) => post'[h].pc \in {"idle", "arm", "submit"}
  <2>1. SUFFICES ASSUME StoreVerdict(h) PROVE post'[h].pc \in {"idle", "arm", "submit"}
    OBVIOUS
  <2> DEFINE route == IF verdict[post[h].id] = Unset
                      THEN RouteOf(post[h].decision, row[post[h].id], post[h].st) ELSE "nothing"
  <2>2. route \in {"nothing", "arm", "submit"}
    BY DEF RouteOf
  <2>3. post'[h] = IF route = "nothing" THEN IdlePost
                   ELSE [pc |-> route, id |-> post[h].id, at |-> post[h].at]
    BY <2>1 DEF StoreVerdict, Typed
  <2> HIDE DEF route
  <2> QED
    BY <2>2, <2>3 DEF IdlePost
<1>6. Submit(h) => post'[h].pc \in {"idle", "record"}
  <2>1. SUFFICES ASSUME Submit(h), ~Answer(h) PROVE post'[h].pc = "record"
    BY <1>2
  <2>2. post[h].pc = "submit" /\ post' = [post EXCEPT ![h].pc = "record"]
    BY <2>1 DEF Submit
  <2>3. post[h] \in [pc : {"arm", "submit", "record"}, id : Proposals, at : Stamps]
    BY <2>2 DEF Typed, PostRecs, IdlePost
  <2>4. post'[h] = [post[h] EXCEPT !.pc = "record"]
    BY <2>2 DEF Typed
  <2> QED
    BY <2>3, <2>4
<1> QED
  BY <1>1, <1>2, <1>3, <1>4, <1>5, <1>6 DEF PostStep, AnswerStored, TurnAway, Arm, Record

-----------------------------------------------------------------------------
(* The sliding window.                                                     *)

\* What the gate did not refuse was judged with room for it.
LEMMA GateLetThrough ==
    ASSUME NEW d, NEW s, NEW t, Evaluate(d, Limits, s, t).decision \in {"approve", "clip"}
    PROVE  ~Refused(d, Limits, s, t)
BY DEF Evaluate

\* While a handler holds the lock, the rows of its strategy are its own.
LEMMA LockedRows ==
    ASSUME IInv, [ProposalsNext]_proposalVars, NEW h \in Posts, Holds(h), post'[h] = post[h],
           NEW q \in OwnedBy(OwnerOf[post[h].id])
    PROVE  row'[q] = row[q] /\ verdict'[q] = verdict[q]
<1> USE DEF IInv
<1>1. ASSUME NEW g \in Posts, Admit(g) PROVE row'[q] = row[q]
  <2>1. OwnerOf[post[g].id] # OwnerOf[post[h].id]
    BY <1>1, NobodyIn DEF Admit
  <2> QED
    BY <1>1, <2>1 DEF Admit, OwnedBy, Typed
<1>2. ASSUME NEW g \in Posts, StoreVerdict(g) PROVE verdict'[q] = verdict[q]
  <2>1. Holds(g) /\ post[g].pc = "judged"
    BY <1>2 DEF StoreVerdict, Holds
  <2>2. g # h
    <3>1. SUFFICES ASSUME g = h PROVE FALSE
      OBVIOUS
    <3>2. verdict[post[h].id] = Unset /\ verdict'[post[h].id] # Unset
      <4>1. post[h] \in PostRecs /\ post[h].pc = "judged"
        BY <2>1, <3>1 DEF Typed
      <4> DEFINE v == [decision |-> post[h].decision, clipped |-> post[h].clipped, at |-> post[h].at]
      <4>2. v \in Verdicts
        BY <4>1, PostFields DEF Verdicts, Stamps
      <4>3. verdict'[post[h].id] = v
        BY <1>2, <3>1, <4>1, PostedIds DEF StoreVerdict, PostAgrees, Typed
      <4> QED
        BY <4>1, <4>2, <4>3, Present DEF PostAgrees
    <3>3. PostAgrees(h)' /\ post'[h].pc = "judged"
      BY <2>1, <3>1, PostsStep
    <3> QED
      BY <3>2, <3>3 DEF PostAgrees
  <2>3. OwnerOf[post[g].id] # OwnerOf[post[h].id]
    BY <2>1, <2>2, LockedOut
  <2> QED
    BY <1>2, <2>3 DEF StoreVerdict, OwnedBy, Typed
<1>3. VenueMoves => UNCHANGED <<row, verdict>>
  BY VenueEffect DEF tables
<1>4. (~\E g \in Posts : Admit(g)) => row' = row
  BY <1>3
     DEF ProposalsNext, proposalVars, tables, bookOf, Receive, PostStep, AnswerStored, TurnAway, StoreVerdict,
         Judge, Arm, Submit, Record, Decide, HumanStep, Recheck, Resolve, SubmitDecided, RecordDecided,
         SweepStep, StartSweepOfTimers, ExpireNext, KillOrClear, MoveTier, TimePasses, Halt
<1>5. (~\E g \in Posts : StoreVerdict(g)) => verdict' = verdict
  BY <1>3
     DEF ProposalsNext, proposalVars, tables, bookOf, Receive, PostStep, AnswerStored, TurnAway, Admit,
         Judge, Arm, Submit, Record, Decide, HumanStep, Recheck, Resolve, SubmitDecided, RecordDecided,
         SweepStep, StartSweepOfTimers, ExpireNext, KillOrClear, MoveTier, TimePasses, Halt
<1> QED
  BY <1>1, <1>2, <1>4, <1>5

\* The row of a judged proposal is never replaced.
LEMMA RowsStand ==
    ASSUME IInv, [ProposalsNext]_proposalVars, NEW q \in Proposals, verdict[q] # Unset
    PROVE  row'[q] = row[q]
<1> USE DEF IInv
<1>1. ASSUME NEW g \in Posts, Admit(g) PROVE row'[q] = row[q]
  BY <1>1 DEF Admit, RowsAgree, Duplicate, Typed
<1>2. VenueMoves => UNCHANGED row
  BY VenueEffect DEF tables
<1>3. (~\E g \in Posts : Admit(g)) => row' = row
  BY <1>2
     DEF ProposalsNext, proposalVars, tables, bookOf, Receive, PostStep, AnswerStored, TurnAway, StoreVerdict,
         Judge, Arm, Submit, Record, Decide, HumanStep, Recheck, Resolve, SubmitDecided, RecordDecided,
         SweepStep, StartSweepOfTimers, ExpireNext, KillOrClear, MoveTier, TimePasses, Halt
<1> QED
  BY <1>1, <1>3

LEMMA OwnedFinite ==
    ASSUME NEW s, NEW T, T \subseteq OwnedBy(s)
    PROVE  IsFiniteSet(T) /\ Cardinality(T) \in Nat
<1>1. T \subseteq Proposals
  BY DEF OwnedBy
<1> QED
  BY <1>1, ProposalsAssumption, FS_Subset, FS_CardinalityType

LEMMA WindowStep ==
    ASSUME IInv, [ProposalsNext]_proposalVars
    PROVE  WindowBound'
<1> USE DEF IInv
<1> SUFFICES ASSUME NEW s \in Strategies, NEW t \in Times
             PROVE  Cardinality(Window(s, t)') <= Limits.perWindow
  BY DEF WindowBound
<1>0. Cardinality(Window(s, t)) <= Limits.perWindow
  BY DEF WindowBound
<1>1. CASE ~\E h \in Posts : StoreVerdict(h)
  <2>1. VenueMoves => verdict' = verdict
    BY VenueEffect DEF tables
  <2>2. verdict' = verdict
    BY <1>1, <2>1
       DEF ProposalsNext, proposalVars, tables, bookOf, Receive, PostStep, AnswerStored, TurnAway, Admit,
           Judge, Arm, Submit, Record, Decide, HumanStep, Recheck, Resolve, SubmitDecided, RecordDecided,
           SweepStep, StartSweepOfTimers, ExpireNext, KillOrClear, MoveTier, TimePasses, Halt
  <2>3. Window(s, t)' = Window(s, t)
    BY <2>2, RowsStand DEF Window, Counted, OwnedBy
  <2> QED
    BY <1>0, <2>3
<1>2. ASSUME NEW h \in Posts, StoreVerdict(h)
      PROVE  Cardinality(Window(s, t)') <= Limits.perWindow
  <2> DEFINE p == post[h].id
             v == [decision |-> post[h].decision, clipped |-> post[h].clipped, at |-> post[h].at]
  <2>1. p \in Proposals /\ post[h].at \in Stamps /\ verdict[p] = Unset /\ post[h].pc = "judged"
    BY <1>2, PostedIds DEF StoreVerdict, PostAgrees
  <2>2. row' = row /\ verdict' = [verdict EXCEPT ![p] = v]
    BY <1>2, <2>1 DEF StoreVerdict
  <2>3. /\ v.decision = post[h].decision /\ v.at = post[h].at
        /\ \A q \in Proposals : verdict'[q] = IF q = p THEN v ELSE verdict[q]
    BY <2>1, <2>2 DEF Typed
  <2> HIDE DEF v
  <2>4. CASE p \notin Window(s, t)'
    <3>1. Window(s, t)' = Window(s, t)
      BY <2>1, <2>2, <2>3, <2>4 DEF Window, Counted, OwnedBy
    <3> QED
      BY <1>0, <3>1
  <2>5. CASE p \in Window(s, t)'
    <3>1. Passing(h) /\ OwnerOf[p] = s /\ post[h].at \in (t - RateWindow + 1) .. t
      BY <2>1, <2>2, <2>3, <2>5 DEF Window, Counted, OwnedBy, Passing
    <3>2. Cardinality(InWindow(s, post[h].at)) < Limits.perWindow
      BY <3>1 DEF RateRoom
    <3>3. Window(s, t) \subseteq InWindow(s, post[h].at)
      <4> SUFFICES ASSUME NEW q \in Window(s, t) PROVE q \in InWindow(s, post[h].at)
        OBVIOUS
      <4>1. /\ q \in OwnedBy(s) /\ verdict[q] \in Verdicts /\ verdict[q] # Unset
            /\ verdict[q].decision \in {"approve", "clip"} /\ row[q].act # "hold"
            /\ verdict[q].at \in (t - RateWindow + 1) .. t
        BY DEF Window, Counted, OwnedBy, Typed
      <4>2. verdict[q].at > post[h].at - RateWindow
        BY <2>1, <3>1, <4>1, ProposalsAssumption DEF Verdicts, Times, Stamps
      <4> QED
        BY <4>1, <4>2 DEF InWindow
    <3>4. Window(s, t)' = Window(s, t) \cup {p} /\ p \notin Window(s, t)
      BY <2>1, <2>2, <2>3, <2>5 DEF Window, Counted, OwnedBy
    <3>5. InWindow(s, post[h].at) \subseteq OwnedBy(s)
      BY DEF InWindow
    <3>6. /\ IsFiniteSet(InWindow(s, post[h].at)) /\ Cardinality(InWindow(s, post[h].at)) \in Nat
          /\ IsFiniteSet(Window(s, t)) /\ Cardinality(Window(s, t)) \in Nat
      BY <3>3, <3>5, OwnedFinite
    <3>7. Cardinality(Window(s, t)) <= Cardinality(InWindow(s, post[h].at))
      BY <3>3, <3>6, FS_Subset
    <3>8. Cardinality(Window(s, t)') = Cardinality(Window(s, t)) + 1
      BY <3>4, <3>6, FS_AddElement
    <3> QED
      BY <3>2, <3>6, <3>7, <3>8, LimitsAssumption
  <2> QED
    BY <2>4, <2>5
<1> QED
  BY <1>1, <1>2

LEMMA RateStep ==
    ASSUME IInv, [ProposalsNext]_proposalVars
    PROVE  \A h \in Posts : RateRoom(h)'
<1> USE DEF IInv
<1> SUFFICES ASSUME NEW h \in Posts, Passing(h)'
             PROVE  Cardinality(InWindow(OwnerOf[post[h].id], post[h].at)') < Limits.perWindow
  BY DEF RateRoom
<1>1. CASE post'[h] = post[h]
  <2>1. Holds(h) /\ post[h].pc = "judged" /\ post[h].id \in Proposals
    BY <1>1, PostedIds DEF Passing, Holds
  <2>2. PICK p \in Proposals, a \in Stamps : p = post[h].id /\ a = post[h].at
    BY <2>1, PostedIds
  <2>3. \A q \in OwnedBy(OwnerOf[p]) : row'[q] = row[q] /\ verdict'[q] = verdict[q]
    BY <1>1, <2>1, <2>2, LockedRows
  <2>4. p \in OwnedBy(OwnerOf[p])
    BY DEF OwnedBy
  <2>5. Passing(h)
    BY <1>1, <2>2, <2>3, <2>4 DEF Passing
  <2>6. InWindow(OwnerOf[p], a)' = InWindow(OwnerOf[p], a)
    BY <2>3 DEF InWindow, OwnedBy
  <2>7. Cardinality(InWindow(OwnerOf[p], a)) < Limits.perWindow
    BY <2>2, <2>5 DEF RateRoom
  <2> QED
    BY <1>1, <2>2, <2>6, <2>7 DEF InWindow, OwnedBy
<1>2. CASE post'[h] # post[h]
  <2>1. Judge(h)
    BY <1>2, NextPlace DEF Passing
  <2>2. UNCHANGED <<row, verdict>> /\ post[h].pc = "admitted"
    BY <2>1 DEF Judge, tables
  <2>3. PICK p \in Proposals, a \in Stamps : p = post[h].id /\ a = post[h].at
    BY <2>2, PostedIds
  <2>4. PICK fresh \in BOOLEAN, drift \in Unrealized(OwnerOf[p]) :
          LET state == RuntimeState(OwnerOf[p], post[h].st, a, fresh, drift)
              v     == Evaluate(row[p], Limits, state, a)
          IN post' = [post EXCEPT ![h] = [pc |-> "judged", id |-> p, at |-> a, st |-> post[h].st,
                                          decision |-> v.decision, clipped |-> v.clipped]]
    BY <2>1, <2>3 DEF Judge
  <2> DEFINE state == RuntimeState(OwnerOf[p], post[h].st, a, fresh, drift)
             v     == Evaluate(row[p], Limits, state, a)
  <2>5. post'[h] = [pc |-> "judged", id |-> p, at |-> a, st |-> post[h].st,
                    decision |-> v.decision, clipped |-> v.clipped]
    BY <2>4 DEF Typed
  <2> HIDE DEF v
  <2>6. post'[h].id = p /\ post'[h].at = a /\ post'[h].decision = v.decision
    BY <2>5
  <2>7. v.decision \in {"approve", "clip"} /\ row[p].act # "hold"
    BY <2>2, <2>6 DEF Passing
  <2>8. ~RateFull(row[p], Limits, state)
    BY <2>7, GateLetThrough DEF v, Refused
  <2>9. ~(Cardinality(InWindow(OwnerOf[p], a)) >= Limits.perWindow)
    BY <2>7, <2>8 DEF RateFull, RuntimeState
  <2>10. Cardinality(InWindow(OwnerOf[p], a)) \in Nat
    <3>1. InWindow(OwnerOf[p], a) \subseteq OwnedBy(OwnerOf[p])
      BY DEF InWindow
    <3> QED
      BY <3>1, OwnedFinite
  <2>11. Cardinality(InWindow(OwnerOf[p], a)) < Limits.perWindow
    BY <2>9, <2>10, LimitsAssumption
  <2>12. InWindow(OwnerOf[p], a)' = InWindow(OwnerOf[p], a)
    BY <2>2 DEF InWindow, OwnedBy
  <2> QED
    BY <2>6, <2>11, <2>12 DEF InWindow, OwnedBy
<1> QED
  BY <1>1, <1>2

LEMMA WindowGivesRate == Typed /\ WindowBound => RateBound
<1> SUFFICES ASSUME Typed, WindowBound, NEW p \in Proposals, verdict[p] # Unset
             PROVE  LET t == verdict[p].at
                    IN Cardinality({q \in OwnedBy(OwnerOf[p]) :
                            /\ verdict[q] # Unset /\ row[q].act # "hold"
                            /\ verdict[q].decision \in {"approve", "clip"}
                            /\ verdict[q].at \in (t - RateWindow + 1) .. t}) <= Limits.perWindow
  BY DEF RateBound
<1>1. OwnerOf[p] \in Strategies /\ verdict[p].at \in Times
  BY ProposalsAssumption DEF Typed, Verdicts
<1>2. Cardinality(Window(OwnerOf[p], verdict[p].at)) <= Limits.perWindow
  BY <1>1 DEF WindowBound
<1> QED
  BY <1>2, Zenon DEF Window, Counted

-----------------------------------------------------------------------------
(* The slots of a paper strategy.                                          *)

LEMMA SlotsType ==
    ASSUME NEW s
    PROVE  /\ IsFiniteSet(Held(s)) /\ Cardinality(Held(s)) \in Nat
           /\ IsFiniteSet(WithStatus(s, "open")) /\ Cardinality(WithStatus(s, "open")) \in Nat
<1>1. /\ WithStatus(s, "open") \subseteq OwnedBy(s)
      /\ WithStatus(s, "filled") \subseteq OwnedBy(s)
  BY DEF WithStatus
<1>2. IsFiniteSet(WithStatus(s, "filled"))
  BY <1>1, OwnedFinite
<1>3. IsFiniteSet(Held(s))
  <2> DEFINE f == [p \in WithStatus(s, "filled") |-> row[p].symbol]
  <2>1. f \in Surjection(WithStatus(s, "filled"), Held(s))
    BY DEF Surjection, Held
  <2> QED
    BY <1>2, <2>1, FS_Surjection
<1> QED
  BY <1>1, <1>3, OwnedFinite, FS_CardinalityType

\* Positions closed and entries canceled free slots, a position of a symbol already
\* held takes none.
LEMMA SlotsFreed ==
    ASSUME NEW s, Held(s)' \subseteq Held(s), WithStatus(s, "open")' \subseteq WithStatus(s, "open")
    PROVE  Taken(s)' <= Taken(s) /\ Taken(s)' \in Nat
<1>1. /\ Cardinality(Held(s)') <= Cardinality(Held(s))
      /\ Cardinality(Held(s)') \in Nat
  BY SlotsType, FS_Subset, FS_CardinalityType
<1>2. /\ Cardinality(WithStatus(s, "open")') <= Cardinality(WithStatus(s, "open"))
      /\ Cardinality(WithStatus(s, "open")') \in Nat
  BY SlotsType, FS_Subset, FS_CardinalityType
<1> QED
  BY <1>1, <1>2, SlotsType DEF Taken

\* An entry that fills takes at most the slot that it had while it was open.
LEMMA SlotMoved ==
    ASSUME NEW s, NEW x, NEW p \in WithStatus(s, "open"),
           Held(s)' \subseteq Held(s) \cup {x},
           WithStatus(s, "open")' = WithStatus(s, "open") \ {p}
    PROVE  Taken(s)' <= Taken(s) /\ Taken(s)' \in Nat
<1>1. /\ IsFiniteSet(Held(s) \cup {x})
      /\ Cardinality(Held(s) \cup {x}) \in Nat
      /\ Cardinality(Held(s) \cup {x}) <= Cardinality(Held(s)) + 1
  BY SlotsType, FS_AddElement, FS_CardinalityType
<1>2. /\ Cardinality(Held(s)') <= Cardinality(Held(s) \cup {x})
      /\ Cardinality(Held(s)') \in Nat
  BY <1>1, FS_Subset, FS_CardinalityType
<1>3. Cardinality(WithStatus(s, "open")') = Cardinality(WithStatus(s, "open")) - 1
  BY SlotsType, FS_RemoveElement
<1>4. Cardinality(WithStatus(s, "open")') \in Nat
  BY SlotsType, FS_Subset, FS_CardinalityType
<1> QED
  BY <1>1, <1>2, <1>3, <1>4, SlotsType DEF Taken

\* What a submission on the paper bridge does to the books.
PaperAccepted(p) ==
    /\ Opens(row[p])
    /\ order' = [order EXCEPT ![p] = "open"]
    /\ sent' = [sent EXCEPT ![p] = SizeOf(p)]
    /\ UNCHANGED loss

\* On the paper bridge no timer is armed, so no human submits.
LEMMA PaperBooks ==
    ASSUME IInv, [ProposalsNext]_proposalVars, venue = "paper"
    PROVE  \/ UNCHANGED <<order, sent, loss>>
           \/ \E h \in Posts : Submit(h) /\ PaperAccepted(post[h].id)
           \/ VenueMoves
<1> USE DEF IInv
<1>1. ASSUME NEW u \in Humans, SubmitDecided(u) PROVE FALSE
  <2>1. human[u].id \in Proposals /\ ApprovedBy(human[u].id)
    BY <1>1, HumanIds DEF SubmitDecided, HumanAgrees
  <2>2. pending[human[u].id] # Unset
    BY <2>1 DEF RowsAgree, ApprovedBy
  <2> QED
    BY <2>1, <2>2 DEF OnPaper
<1>2. ASSUME NEW h \in Posts, Submit(h)
      PROVE  UNCHANGED <<order, sent, loss>> \/ PaperAccepted(post[h].id)
  BY <1>2 DEF Submit, Accepted, Rejected, PaperAccepted
<1>3. (~\E h \in Posts : Submit(h)) /\ ~VenueMoves => UNCHANGED <<order, sent, loss>>
  BY <1>1
     DEF ProposalsNext, proposalVars, bookOf, Receive, PostStep, AnswerStored, TurnAway, Admit,
         Judge, StoreVerdict, Arm, Record, Decide, HumanStep, Recheck, Resolve, RecordDecided,
         SweepStep, StartSweepOfTimers, ExpireNext, KillOrClear, MoveTier, TimePasses, Halt
<1> QED
  BY <1>2, <1>3

\* The row of an entry that is held is never replaced, so neither is its symbol.
LEMMA HeldRows ==
    ASSUME IInv, [ProposalsNext]_proposalVars, NEW q \in Proposals, order[q] # Unset
    PROVE  row'[q] = row[q]
<1>1. verdict[q] # Unset
  BY DEF IInv, RowsAgree
<1> QED
  BY <1>1, RowsStand

\* The room of a strategy shrinks only by a submission inside its own lock.
LEMMA RoomStays ==
    ASSUME IInv, [ProposalsNext]_proposalVars, venue = "paper", NEW s \in Strategies,
           \A h \in Posts : Submit(h) => OwnerOf[post[h].id] # s
    PROVE  Taken(s)' <= Taken(s) /\ Taken(s)' \in Nat
<1> USE DEF IInv
<1>1. \A q \in Proposals : order[q] = "filled" => row'[q] = row[q]
  BY HeldRows, Present DEF Statuses
<1>2. CASE \A q \in OwnedBy(s) : order'[q] = order[q]
  <2>1. WithStatus(s, "open")' = WithStatus(s, "open") /\ WithStatus(s, "filled")' = WithStatus(s, "filled")
    BY <1>2 DEF WithStatus, OwnedBy
  <2>2. Held(s)' = Held(s)
    BY <1>1, <2>1 DEF Held, WithStatus, OwnedBy
  <2> QED
    BY <2>1, <2>2, SlotsFreed
<1>3. ASSUME NEW h \in Posts, Submit(h), PaperAccepted(post[h].id)
      PROVE  \A q \in OwnedBy(s) : order'[q] = order[q]
  <2>1. OwnerOf[post[h].id] # s
    BY <1>3
  <2> QED
    BY <1>3, <2>1 DEF PaperAccepted, OwnedBy, Typed
<1>4. CASE VenueMoves
  <2>1. PICK p \in Proposals :
                 \/ order' = [order EXCEPT ![p] = "open"] /\ order[p] = "pending_new"
                 \/ order' = [order EXCEPT ![p] = "filled"] /\ order[p] = "open"
                 \/ order' = [order EXCEPT ![p] = "closed"]
    BY <1>4, VenueEffect
  <2>2. order[p] # "pending_new"
    BY DEF OnPaper
  <2>3. CASE OwnerOf[p] # s
    <3>1. \A q \in OwnedBy(s) : order'[q] = order[q]
      BY <2>1, <2>3 DEF OwnedBy, Typed
    <3> QED
      BY <1>2, <3>1
  <2>4. CASE OwnerOf[p] = s /\ order' = [order EXCEPT ![p] = "filled"] /\ order[p] = "open"
    <3>1. \A q \in Proposals : order'[q] = IF q = p THEN "filled" ELSE order[q]
      BY <2>4 DEF Typed
    <3>2. p \in WithStatus(s, "open")
      BY <2>4 DEF WithStatus, OwnedBy
    <3>3. WithStatus(s, "open")' = WithStatus(s, "open") \ {p}
      BY <3>1, <2>4 DEF WithStatus, OwnedBy
    <3>4. WithStatus(s, "filled")' = WithStatus(s, "filled") \cup {p}
      BY <3>1, <2>4 DEF WithStatus, OwnedBy
    <3>5. Held(s)' \subseteq Held(s) \cup {row'[p].symbol}
      BY <1>1, <3>4 DEF Held, WithStatus, OwnedBy
    <3> QED
      BY <3>2, <3>3, <3>5, SlotMoved
  <2>5. CASE OwnerOf[p] = s /\ order' = [order EXCEPT ![p] = "closed"]
    <3>1. \A q \in Proposals : order'[q] = IF q = p THEN "closed" ELSE order[q]
      BY <2>5 DEF Typed
    <3>2. /\ WithStatus(s, "open")' \subseteq WithStatus(s, "open")
          /\ WithStatus(s, "filled")' \subseteq WithStatus(s, "filled")
      BY <3>1 DEF WithStatus, OwnedBy
    <3>3. Held(s)' \subseteq Held(s)
      BY <1>1, <3>2 DEF Held, WithStatus, OwnedBy
    <3> QED
      BY <3>2, <3>3, SlotsFreed
  <2> QED
    BY <2>1, <2>2, <2>3, <2>4, <2>5
<1>5. CASE UNCHANGED <<order, sent, loss>>
  BY <1>2, <1>5
<1> QED
  BY <1>2, <1>3, <1>4, <1>5, PaperBooks

LEMMA SlotsStep ==
    ASSUME IInv, [ProposalsNext]_proposalVars, venue = "paper"
    PROVE  \A s \in Strategies : PaperSlots(s)'
<1> USE DEF IInv
<1> SUFFICES ASSUME NEW s \in Strategies PROVE Taken(s)' <= Limits.maxPositions
  BY DEF PaperSlots
<1>0. Taken(s) <= Limits.maxPositions /\ Taken(s) \in Nat
  BY SlotsType DEF OnPaper, PaperSlots, Taken
<1>1. CASE \A h \in Posts : Submit(h) => OwnerOf[post[h].id] # s
  <2>1. Taken(s)' <= Taken(s) /\ Taken(s)' \in Nat
    BY <1>1, RoomStays
  <2> QED
    BY <1>0, <2>1, LimitsAssumption
<1>2. ASSUME NEW h \in Posts, Submit(h), OwnerOf[post[h].id] = s
      PROVE  Taken(s)' <= Limits.maxPositions
  <2> DEFINE p == post[h].id
  <2>1. /\ p \in Proposals /\ post[h].pc = "submit" /\ submits[p] = 0
        /\ UNCHANGED row
    BY <1>2, PostedIds DEF Submit, PostAgrees, tables
  <2>2. p \in OwnedBy(s) /\ order[p] = Unset
    BY <1>2, <2>1 DEF OwnedBy, RowsAgree
  <2>3. CASE PaperAccepted(p)
    <3>1. Taken(s) < Limits.maxPositions
      BY <1>2, <2>1, <2>3 DEF OnPaper, PaperRoom, PaperAccepted, Room
    <3>2. \A q \in Proposals : order'[q] = IF q = p THEN "open" ELSE order[q]
      BY <2>1, <2>3 DEF PaperAccepted, Typed
    <3> HIDE DEF p
    <3>3. p \notin WithStatus(s, "open") /\ p \notin WithStatus(s, "filled")
      BY <2>1, <2>2, Present DEF WithStatus, Statuses
    <3>4. /\ WithStatus(s, "open")' = WithStatus(s, "open") \cup {p}
          /\ WithStatus(s, "filled")' = WithStatus(s, "filled")
      BY <2>2, <3>2, <3>3 DEF WithStatus, OwnedBy
    <3>5. Held(s)' = Held(s)
      BY <2>1, <3>4 DEF Held
    <3>6. Cardinality(WithStatus(s, "open")') = Cardinality(WithStatus(s, "open")) + 1
      BY <3>3, <3>4, SlotsType, FS_AddElement
    <3>7. Taken(s)' = Taken(s) + 1
      BY <3>5, <3>6, SlotsType DEF Taken
    <3> QED
      BY <1>0, <3>1, <3>7, LimitsAssumption
  <2>4. CASE UNCHANGED <<order, sent, loss>>
    <3>1. Held(s)' = Held(s) /\ WithStatus(s, "open")' = WithStatus(s, "open")
      BY <2>1, <2>4 DEF Held, WithStatus, OwnedBy
    <3> QED
      BY <1>0, <3>1 DEF Taken
  <2> QED
    BY <1>2, <2>3, <2>4 DEF Submit, Accepted, Rejected, PaperAccepted
<1> QED
  BY <1>1, <1>2

\* A verdict that lets an entry pass is judged with a slot free (gate step 9).
LEMMA JudgedWithRoom ==
    ASSUME IInv, venue = "paper", NEW h \in Posts, Judge(h), Opens(row[post[h].id]), Passing(h)'
    PROVE  \E p \in Proposals : p = post[h].id /\ post'[h].id = p /\ Room(OwnerOf[p])
<1> USE DEF IInv
<1>1. post[h].pc = "admitted" /\ UNCHANGED <<row, verdict, order, loss>>
  BY DEF Judge, tables, bookOf
<1>2. PICK p \in Proposals, a \in Stamps : p = post[h].id /\ a = post[h].at
  BY <1>1, PostedIds
<1>3. PICK fresh \in BOOLEAN, drift \in Unrealized(OwnerOf[p]) :
        LET state == RuntimeState(OwnerOf[p], post[h].st, a, fresh, drift)
            v     == Evaluate(row[p], Limits, state, a)
        IN post' = [post EXCEPT ![h] = [pc |-> "judged", id |-> p, at |-> a, st |-> post[h].st,
                                        decision |-> v.decision, clipped |-> v.clipped]]
  BY <1>2 DEF Judge
<1> DEFINE s     == OwnerOf[p]
           state == RuntimeState(s, post[h].st, a, fresh, drift)
           v     == Evaluate(row[p], Limits, state, a)
<1>4. post'[h] = [pc |-> "judged", id |-> p, at |-> a, st |-> post[h].st,
                  decision |-> v.decision, clipped |-> v.clipped]
  BY <1>3 DEF Typed
<1>5. /\ state.positions = Cardinality(Held(s))
      /\ state.pendingEntries = Cardinality(WithStatus(s, "open"))
  BY DEF RuntimeState
<1> HIDE DEF v, state
<1>6. post'[h].id = p /\ post'[h].decision = v.decision
  BY <1>4
<1>7. v.decision \in {"approve", "clip"}
  BY <1>6 DEF Passing
<1>8. ~NoSlot(Limits, state)
  BY <1>2, <1>7, GateLetThrough DEF v, Refused
<1>9. ~(Taken(s) >= Limits.maxPositions)
  BY <1>5, <1>8 DEF NoSlot, Taken
<1>10. Room(s)
  <2>1. Taken(s) \in Nat
    BY SlotsType DEF Taken
  <2> QED
    BY <1>9, <2>1, LimitsAssumption DEF Room
<1> QED
  BY <1>2, <1>6, <1>10

LEMMA VenueStands == Typed /\ [ProposalsNext]_proposalVars => venue' = venue
<1> SUFFICES ASSUME Typed, [ProposalsNext]_proposalVars PROVE venue' = venue
  OBVIOUS
<1>1. VenueMoves => venue' = venue
  BY VenueEffect DEF outside
<1> QED
  BY <1>1
     DEF ProposalsNext, proposalVars, outside, Receive, PostStep, AnswerStored, TurnAway, Admit, Judge,
         StoreVerdict, Arm, Submit, Record, Decide, HumanStep, Recheck, Resolve, SubmitDecided,
         RecordDecided, SweepStep, StartSweepOfTimers, ExpireNext, KillOrClear, MoveTier, TimePasses, Halt

\* The verdict of the handler that goes on to the OMS, or to the timer.
LEMMA Routing ==
    ASSUME IInv, NEW h \in Posts, StoreVerdict(h), post'[h].pc \in {"arm", "submit"}
    PROVE  LET p == post[h].id IN
           /\ p \in Proposals /\ post[h].pc = "judged" /\ post'[h].id = p
           /\ UNCHANGED <<row, order, sent, loss>>
           /\ post'[h].pc = "arm" => post[h].decision = "escalate" \/ post[h].st = "live_l1"
           /\ post'[h].pc = "submit" => Passing(h)
<1> USE DEF IInv
<1> DEFINE p == post[h].id
           route == RouteOf(post[h].decision, row[p], post[h].st)
<1>1. p \in Proposals /\ verdict[p] = Unset /\ post[h].pc = "judged" /\ post[h].decision \in Decisions
  <2>1. post[h] \in PostRecs /\ post[h].pc = "judged"
    BY DEF StoreVerdict, Typed
  <2> QED
    BY <2>1, PostFields DEF PostAgrees
<1>2. UNCHANGED <<row, order, sent, loss>>
  BY DEF StoreVerdict, bookOf
<1>4. post'[h] = IF route = "nothing" THEN IdlePost ELSE [pc |-> route, id |-> p, at |-> post[h].at]
  BY <1>1 DEF StoreVerdict, Typed
<1>5. /\ route = "arm" => post[h].decision = "escalate" \/ post[h].st = "live_l1"
      /\ route = "submit" => post[h].decision \in {"approve", "clip"} /\ row[p].act # "hold"
  BY <1>1 DEF RouteOf, Decisions
<1> HIDE DEF route
<1>6. route # "nothing" /\ post'[h].pc = route /\ post'[h].id = p
  BY <1>4 DEF IdlePost
<1> QED
  BY <1>1, <1>2, <1>5, <1>6 DEF Passing

LEMMA RoomStep ==
    ASSUME IInv, [ProposalsNext]_proposalVars, venue = "paper"
    PROVE  \A h \in Posts : post'[h].pc \notin {"idle", "waiting"} => PaperRoom(h)'
<1> USE DEF IInv
<1> SUFFICES ASSUME NEW h \in Posts, Opens(row'[post'[h].id]), Passing(h)' \/ post'[h].pc = "submit"
             PROVE  \E s \in Strategies : s = OwnerOf[post'[h].id] /\ Room(s)'
  BY DEF PaperRoom, Opens, Room, Taken, Held, WithStatus, OwnedBy
<1>1. CASE post'[h] = post[h]
  <2>1. Holds(h)
    BY <1>1 DEF Holds, Passing
  <2>2. PICK p \in Proposals : p = post[h].id /\ OwnerOf[p] \in Strategies
    BY <2>1, PostedIds DEF Holds
  <2>3. row'[p] = row[p]
    BY <1>1, <2>1, <2>2, LockedRows DEF OwnedBy
  <2>4. Opens(row[p]) /\ (Passing(h) \/ post[h].pc = "submit")
    BY <1>1, <2>2, <2>3 DEF Passing
  <2>5. PICK s \in Strategies : s = OwnerOf[p] /\ Room(s)
    BY <2>1, <2>2, <2>4 DEF OnPaper, PaperRoom, Holds
  <2>6. \A g \in Posts : Submit(g) => OwnerOf[post[g].id] # s
    <3> SUFFICES ASSUME NEW g \in Posts, Submit(g) PROVE OwnerOf[post[g].id] # s
      OBVIOUS
    <3>1. g # h
      <4>1. SUFFICES ASSUME g = h PROVE FALSE
        OBVIOUS
      <4>2. post[h].pc = "submit" /\ post[h] \in PostRecs
        BY <4>1 DEF Submit, Typed
      <4>3. post[h] \in [pc : {"arm", "submit", "record"}, id : Proposals, at : Stamps]
        BY <4>2 DEF PostRecs, IdlePost
      <4>4. [post[h] EXCEPT !.pc = "record"].pc = "record" /\ IdlePost.pc = "idle"
        BY <4>3 DEF IdlePost
      <4>5. post'[h] = IdlePost \/ post'[h] = [post[h] EXCEPT !.pc = "record"]
        BY <4>1 DEF Submit, Answer, Typed
      <4>6. post'[h].pc # "submit"
        BY <4>4, <4>5
      <4> QED
        BY <1>1, <4>2, <4>6
    <3>2. Holds(g)
      BY DEF Submit, Holds
    <3> QED
      BY <2>1, <2>2, <2>5, <3>1, <3>2, LockedOut
  <2>7. Taken(s)' <= Taken(s) /\ Taken(s)' \in Nat
    BY <2>6, RoomStays
  <2>8. Taken(s)' < Limits.maxPositions
    <3>1. Taken(s) \in Nat /\ Taken(s) < Limits.maxPositions
      BY <2>5, SlotsType DEF Room, Taken
    <3> QED
      BY <2>7, <3>1, LimitsAssumption
  <2>9. Room(s)'
    BY <2>8 DEF Room
  <2> QED
    BY <1>1, <2>2, <2>5, <2>9
<1>2. CASE post'[h] # post[h] /\ post'[h].pc = "judged"
  <2>1. Judge(h)
    BY <1>2, NextPlace
  <2>2. UNCHANGED <<row, verdict, order, sent, loss>> /\ Passing(h)'
    BY <1>2, <2>1 DEF Judge, tables, bookOf
  <2>3. post'[h].id = post[h].id
    BY <2>1 DEF Judge, Typed
  <2>4. Opens(row[post[h].id])
    BY <2>2, <2>3
  <2>5. PICK p \in Proposals : p = post[h].id /\ post'[h].id = p /\ Room(OwnerOf[p])
    BY <2>1, <2>2, <2>4, JudgedWithRoom
  <2>6. PICK s \in Strategies : s = OwnerOf[p]
    BY ProposalsAssumption
  <2>7. Room(s)'
    BY <2>2, <2>5, <2>6 DEF Room, Taken, Held, WithStatus, OwnedBy
  <2> QED
    BY <2>5, <2>6, <2>7
<1>3. CASE post'[h] # post[h] /\ post'[h].pc = "submit"
  <2>1. StoreVerdict(h)
    BY <1>3, NextPlace
  <2>2. PICK p \in Proposals :
           /\ p = post[h].id /\ post[h].pc = "judged" /\ post'[h].id = p
           /\ UNCHANGED <<row, order, sent, loss>>
           /\ Passing(h)
    BY <1>3, <2>1, Routing
  <2>3. Opens(row[p])
    BY <2>2
  <2>4. Room(OwnerOf[p])
    BY <2>2, <2>3 DEF OnPaper, PaperRoom
  <2>5. PICK s \in Strategies : s = OwnerOf[p]
    BY ProposalsAssumption
  <2>6. Room(s)'
    BY <2>2, <2>4, <2>5 DEF Room, Taken, Held, WithStatus, OwnedBy
  <2> QED
    BY <2>2, <2>5, <2>6
<1> QED
  BY <1>1, <1>2, <1>3 DEF Passing

\* No strategy on the paper bridge is live, so nothing is escalated or armed.
LEMMA PaperFlags ==
    ASSUME IInv, [ProposalsNext]_proposalVars, venue = "paper"
    PROVE  /\ \A s \in Strategies : tier'[s] \notin LiveTiers
           /\ \A h \in Posts : post'[h].pc \in {"admitted", "judged"} => post'[h].st \notin LiveTiers
           /\ \A h \in Posts : post'[h].pc # "arm"
           /\ \A h \in Posts : post'[h].pc = "judged" => post'[h].decision # "escalate"
           /\ \A p \in Proposals : pending'[p] = Unset /\ order'[p] # "pending_new"
<1> USE DEF IInv
<1>1. ASSUME NEW s \in Strategies PROVE tier'[s] \notin LiveTiers
  <2>1. ASSUME NEW z \in Strategies, NEW to \in Tiers \cup {"killed"}, MoveTier(z, to)
        PROVE  tier'[s] \notin LiveTiers
    <3>1. CASE z # s
      BY <2>1, <3>1 DEF MoveTier, Typed, OnPaper
    <3>2. CASE z = s /\ <<tier[s], to>> \in TierMoves
      <4>1. tier'[s] = to /\ tier[s] \notin LiveTiers
        BY <2>1, <3>2 DEF MoveTier, Typed, OnPaper
      <4>2. <<tier[s], to>>[2] \in LiveTiers => <<tier[s], to>>[1] \in LiveTiers
        BY <3>2, PromotionAssumption
      <4> QED
        BY <4>1, <4>2
    <3>3. CASE z = s /\ to = "killed"
      BY <2>1, <3>3 DEF MoveTier, Typed, LiveTiers
    <3> QED
      BY <2>1, <3>1, <3>2, <3>3 DEF MoveTier
  <2>2. VenueMoves => tier' = tier
    BY VenueEffect DEF outside
  <2>3. (~\E z \in Strategies, to \in Tiers \cup {"killed"} : MoveTier(z, to)) => tier' = tier
    BY <2>2
       DEF ProposalsNext, proposalVars, outside, Receive, PostStep, AnswerStored, TurnAway, Admit, Judge,
           StoreVerdict, Arm, Submit, Record, Decide, HumanStep, Recheck, Resolve, SubmitDecided,
           RecordDecided, SweepStep, StartSweepOfTimers, ExpireNext, KillOrClear, TimePasses, Halt
  <2> QED
    BY <2>1, <2>3 DEF OnPaper
<1>2. ASSUME NEW h \in Posts, post'[h].pc = "admitted" PROVE post'[h].st \notin LiveTiers
  <2>1. CASE post'[h] = post[h]
    BY <1>2, <2>1 DEF OnPaper
  <2>2. CASE post'[h] # post[h]
    <3>1. Admit(h)
      BY <1>2, <2>2, NextPlace
    <3>2. post'[h].st = tier[OwnerOf[post[h].id]]
      BY <3>1 DEF Admit, Typed
    <3>3. OwnerOf[post[h].id] \in Strategies
      BY <3>1, PostedIds DEF Admit, Waiting
    <3> QED
      BY <3>2, <3>3 DEF OnPaper
  <2> QED
    BY <2>1, <2>2
<1>3. ASSUME NEW h \in Posts, post'[h].pc = "judged"
      PROVE  post'[h].st \notin LiveTiers /\ post'[h].decision # "escalate"
  <2>1. CASE post'[h] = post[h]
    BY <1>3, <2>1 DEF OnPaper
  <2>2. CASE post'[h] # post[h]
    <3>1. Judge(h)
      BY <1>3, <2>2, NextPlace
    <3> DEFINE p == post[h].id
               V(fresh, drift) ==
                   Evaluate(row[p], Limits,
                            RuntimeState(OwnerOf[p], post[h].st, post[h].at, fresh, drift), post[h].at)
    <3>2. PICK fresh \in BOOLEAN, drift \in Unrealized(OwnerOf[p]) :
            post' = [post EXCEPT ![h] = [pc |-> "judged", id |-> p, at |-> post[h].at, st |-> post[h].st,
                                         decision |-> V(fresh, drift).decision, clipped |-> V(fresh, drift).clipped]]
      BY <3>1 DEF Judge
    <3>3. post[h].pc = "admitted" /\ post[h].st \notin LiveTiers
      BY <3>1 DEF Judge, OnPaper
    <3>4. RuntimeState(OwnerOf[p], post[h].st, post[h].at, fresh, drift).autonomy = 0
      BY <3>3 DEF RuntimeState, AutonomyFor, LiveTiers
    <3>5. V(fresh, drift).decision # "escalate"
      BY <3>4 DEF Evaluate, AboveEnvelope
    <3> HIDE DEF V
    <3>6. post'[h] = [pc |-> "judged", id |-> p, at |-> post[h].at, st |-> post[h].st,
                      decision |-> V(fresh, drift).decision, clipped |-> V(fresh, drift).clipped]
      BY <3>2 DEF Typed
    <3>7. post'[h].st = post[h].st /\ post'[h].decision = V(fresh, drift).decision
      BY <3>6
    <3> QED
      BY <3>3, <3>5, <3>7
  <2> QED
    BY <2>1, <2>2
<1>4. ASSUME NEW h \in Posts, post'[h].pc = "arm" PROVE FALSE
  <2>1. CASE post'[h] = post[h]
    BY <1>4, <2>1 DEF OnPaper
  <2>2. CASE post'[h] # post[h]
    <3>1. StoreVerdict(h)
      BY <1>4, <2>2, NextPlace
    <3>2. post[h].pc = "judged" /\ (post[h].decision = "escalate" \/ post[h].st = "live_l1")
      BY <1>4, <3>1, Routing
    <3> QED
      BY <3>2 DEF OnPaper, LiveTiers
  <2> QED
    BY <2>1, <2>2
<1>5. pending' = pending
  <2>1. ~\E h \in Posts : Arm(h)
    BY DEF Arm, OnPaper
  <2>2. VenueMoves => pending' = pending
    BY VenueEffect DEF tables
  <2> QED
    BY <2>1, <2>2
       DEF ProposalsNext, proposalVars, tables, Receive, PostStep, AnswerStored, TurnAway, Admit, Judge,
           StoreVerdict, Submit, Record, Decide, HumanStep, Recheck, Resolve, SubmitDecided,
           RecordDecided, SweepStep, StartSweepOfTimers, ExpireNext, KillOrClear, MoveTier, TimePasses, Halt
<1>6. ASSUME NEW p \in Proposals PROVE order'[p] # "pending_new"
  <2>1. order[p] # "pending_new"
    BY DEF OnPaper
  <2>2. CASE UNCHANGED order
    BY <2>1, <2>2
  <2>3. ASSUME NEW h \in Posts, PaperAccepted(post[h].id) PROVE order'[p] # "pending_new"
    BY <2>1, <2>3 DEF PaperAccepted, Typed
  <2>4. CASE VenueMoves
    <3>1. PICK q \in Proposals : \/ order' = [order EXCEPT ![q] = "open"]
                                 \/ order' = [order EXCEPT ![q] = "filled"]
                                 \/ order' = [order EXCEPT ![q] = "closed"]
      BY <2>4, VenueEffect
    <3> QED
      BY <2>1, <3>1 DEF Typed
  <2> QED
    BY <2>2, <2>3, <2>4, PaperBooks
<1> QED
  BY <1>1, <1>2, <1>3, <1>4, <1>5, <1>6 DEF OnPaper

LEMMA PaperStep ==
    ASSUME IInv, [ProposalsNext]_proposalVars
    PROVE  OnPaper'
<1>1. venue' = venue
  BY VenueStands DEF IInv
<1> QED
  BY <1>1, PaperFlags, SlotsStep, RoomStep DEF OnPaper

-----------------------------------------------------------------------------
(* The theorems.                                                           *)

LEMMA IInvInit == ProposalsInit => IInv
<1> SUFFICES ASSUME ProposalsInit PROVE IInv
  OBVIOUS
<1>1. Typed
  BY TypedInit
<1>2. \A p \in Proposals : RowsAgree(p)
  BY DEF ProposalsInit, RowsAgree
<1>3. \A h \in Posts : post[h].pc = "idle"
  BY DEF ProposalsInit, IdlePost
<1>4. \A u \in Humans : human[u].pc = "idle"
  BY DEF ProposalsInit, IdleHuman
<1>5. /\ \A h \in Posts : PostAgrees(h)
      /\ \A u \in Humans : HumanAgrees(u)
      /\ OneInLock /\ OneWinner
      /\ \A h \in Posts : RateRoom(h)
  BY <1>3, <1>4 DEF PostAgrees, HumanAgrees, OneInLock, InLock, OneWinner, RateRoom, Passing
<1>6. ApprovalsClean
  BY DEF ProposalsInit, ApprovalsClean, ApprovedBy
<1>7. WindowBound
  <2> SUFFICES ASSUME NEW s \in Strategies, NEW t \in Times
               PROVE  Cardinality(Window(s, t)) <= Limits.perWindow
    BY DEF WindowBound
  <2>1. Window(s, t) = {}
    BY DEF ProposalsInit, Window, Counted, OwnedBy
  <2> QED
    BY <2>1, FS_EmptySet, LimitsAssumption
<1>8. OnPaper
  <2> SUFFICES ASSUME venue = "paper" PROVE OnPaper
    BY DEF OnPaper
  <2>1. \A s \in Strategies : tier[s] = "paper" /\ "paper" \notin LiveTiers
    BY DEF ProposalsInit, LiveTiers
  <2>2. \A p \in Proposals : pending[p] = Unset /\ order[p] = Unset /\ order[p] # "pending_new"
    BY Present DEF ProposalsInit, Statuses
  <2>3. \A s \in Strategies : PaperSlots(s)
    <3> SUFFICES ASSUME NEW s \in Strategies PROVE PaperSlots(s)
      OBVIOUS
    <3>1. WithStatus(s, "open") = {} /\ WithStatus(s, "filled") = {}
      BY <2>2, Present DEF WithStatus, OwnedBy, Statuses
    <3>2. Held(s) = {}
      BY <3>1 DEF Held
    <3>3. Taken(s) = 0
      BY <3>1, <3>2, FS_EmptySet DEF Taken
    <3> QED
      BY <3>3, LimitsAssumption DEF PaperSlots
  <2> QED
    BY <1>3, <2>1, <2>2, <2>3 DEF OnPaper
<1> QED
  BY <1>1, <1>2, <1>5, <1>6, <1>7, <1>8 DEF IInv

LEMMA IInvStep ==
    ASSUME IInv, [ProposalsNext]_proposalVars
    PROVE  IInv'
<1>1. Typed'
  BY TypedStep DEF IInv
<1>2. \A p \in Proposals : RowsAgree(p)'
  BY RowsStep
<1>3. \A h \in Posts : PostAgrees(h)'
  BY PostsStep
<1>4. \A u \in Humans : HumanAgrees(u)'
  BY HumansStep
<1>5. \A h \in Posts : RateRoom(h)'
  BY RateStep
<1> QED
  BY <1>1, <1>2, <1>3, <1>4, <1>5, LockStep, WinnerStep, ApprovalsStep, WindowStep, PaperStep DEF IInv

\* Every handler may rely on its own proposal while it is in the lock or waits
\* for a human, whatever interleaves (handlePostProposal, ResolveApproval).
THEOREM ProposalsInvariant == ProposalsSpec => []IInv
<1>1. IInv /\ [ProposalsNext]_proposalVars => IInv'
  BY IInvStep
<1> QED
  BY <1>1, IInvInit, PTL DEF ProposalsSpec

\* The tables and the handlers keep their types: a handler past the verdict finds
\* its row and its verdict stored (InsertProposal, InsertVerdict).
THEOREM ProposalsTyped == ProposalsSpec => []ProposalsTypeOK
<1>1. IInv => ProposalsTypeOK
  <2> SUFFICES ASSUME IInv PROVE ProposalsTypeOK
    OBVIOUS
  <2> USE DEF IInv
  <2>1. ASSUME NEW p \in Proposals
        PROVE  /\ verdict[p] # Unset => verdict[p].decision \in Decisions /\ verdict[p].at \in Times
               /\ pending[p] \in Times \cup {Unset}
               /\ approval[p] # Unset => approval[p].outcome \in Outcomes /\ pending[p] # Unset
    BY DEF Typed, Verdicts, Approvals, RowsAgree
  <2>2. ASSUME NEW h \in Posts PROVE PostOK(h)
    <3>1. post[h] \in PostRecs
      BY DEF Typed
    <3> QED
      BY <3>1, PostFields DEF PostOK, PostAgrees, Stamps, IdlePost
  <2>3. ASSUME NEW u \in Humans PROVE HumanOK(u)
    <3>1. human[u] \in HumanRecs
      BY DEF Typed
    <3> QED
      BY <3>1, HumanFields DEF HumanOK, HumanAgrees, IdleHuman
  <2> QED
    BY <2>1, <2>2, <2>3 DEF Typed, ProposalsTypeOK
<1> QED
  BY <1>1, ProposalsInvariant, PTL

\* Nothing reaches the OMS without its one allowing decision, or twice, and no
\* approval is recorded over a kill (evaluateAndRoute, handlePostApproval).
THEOREM OrdersAreAllowed == ProposalsSpec => []OrdersAllowed
<1>1. IInv => OrdersAllowed
  <2> SUFFICES ASSUME IInv PROVE OrdersAllowed
    OBVIOUS
  <2> USE DEF IInv
  <2>1. SubmittedOnce /\ OrderWasAllowed
    BY DEF SubmittedOnce, OrderWasAllowed, RowsAgree
  <2>2. ApprovedSawNoKill
    BY DEF ApprovedSawNoKill, ApprovalsClean, NoKillUntil
  <2> QED
    BY <2>1, <2>2 DEF OrdersAllowed
<1> QED
  BY <1>1, ProposalsInvariant, PTL

\* The limits judged on a snapshot hold in the state they lead to: the rate in every
\* window, and on the paper bridge the slots (CountRateVerdictsSince, gate step 9).
THEOREM LimitsAreHeld == ProposalsSpec => []LimitsHold
<1>1. IInv => LimitsHold
  <2> SUFFICES ASSUME IInv PROVE LimitsHold
    OBVIOUS
  <2> USE DEF IInv
  <2>1. RateBound
    BY WindowGivesRate
  <2>2. PaperSlotsBound
    BY DEF PaperSlotsBound, OnPaper, PaperSlots, Taken
  <2> QED
    BY <2>1, <2>2 DEF LimitsHold
<1> QED
  BY <1>1, ProposalsInvariant, PTL
=============================================================================
