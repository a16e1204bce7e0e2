------------------------------ MODULE Lifecycle ------------------------------
(***************************************************************************)
(* The lifecycle of a strategy: the transition endpoint (api/lifecycle.go),*)
(* the transition table (strategy/transition.go), the compare-and-set of   *)
(* the store, the paper window, and the safety driver that locks live      *)
(* strategies under a kill (oms/live/safetydrive.go).  The deployment is   *)
(* the live one: the paper state submits nothing (routeExecution).         *)
(*                                                                         *)
(* Handlers of one strategy are serialized by strategyLock; kills, clears, *)
(* approvals, fills and the driver's lock take none of it, so a handler's  *)
(* reads may be stale when it commits.  A read or transaction is one step. *)
(***************************************************************************)
EXTENDS KillLedger

CONSTANTS
    Requests,       \* target states that callers ask for
    Callers,        \* their roles: Trader, and Admin or Owner
    GateDays,       \* age the paper window must reach (14 days in the code)
    MaxRow,         \* bound: lifecycle_transitions rows of a strategy
    MaxEntry,       \* bound: entry orders submitted
    MaxCrash        \* bound: control-plane crashes

LiveStates == {"live_l1", "live_l2", "live_l3"}
States     == {"draft", "paper", "paused", "killed"} \cup LiveStates
None       == "none"

ASSUME RequestsAssumption == Requests \subseteq States /\ Callers \subseteq {"trader", "admin"}
ASSUME LifecycleBoundsAssumption ==
    /\ GateDays \in Nat /\ MaxRow \in Nat /\ MaxEntry \in Nat /\ MaxCrash \in Nat

VARIABLES
    life,           \* strategies.lifecycle_state
    hist,           \* lifecycle_transitions rows in rowid order
    flat,           \* every positions row of the strategy is zero
    resting,        \* the strategy has an un-filled ENTRY order
    cancelAlert,    \* lifecycle_entry_cancel_failed alert of the latest pause
    req,            \* the handler that holds strategyLock
    drv,            \* the safety driver's pass
    reconciledAt,   \* lastReconcileEnd, 0 before the first reconcile
    placed,         \* entry orders submitted so far
    approved,       \* an approval handler is between its preflight and SubmitApproved
    crashes

rows    == <<life, hist>>
book    == <<flat, resting, cancelAlert>>
entries == <<placed, approved>>
vars    == <<now, ledger, rows, book, req, drv, reconciledAt, entries, crashes>>

Row == [from : States, to : States, at : Times]

Request == [pc : {"idle", "read", "gate", "commit", "effect"},
            to : States \cup {None}, role : Callers \cup {None}, at : Times \cup {0},
            from : States \cup {None}, prev : States \cup {None},
            flat : BOOLEAN, active : BOOLEAN, gate : BOOLEAN]

NoRequest == [pc |-> "idle", to |-> None, role |-> None, at |-> 0, from |-> None,
              prev |-> None, flat |-> FALSE, active |-> FALSE, gate |-> FALSE]
NoPass    == [pc |-> "idle", todo |-> {}, at |-> 0, ev |-> 0, left |-> {},
              cur |-> Platform, residual |-> FALSE]

TypeOK ==
    /\ LedgerTypeOK
    /\ life \in [Strategies -> States]
    /\ hist \in [Strategies -> Seq(Row)]
    /\ flat \in [Strategies -> BOOLEAN]
    /\ resting \in [Strategies -> BOOLEAN]
    /\ cancelAlert \in [Strategies -> BOOLEAN]
    /\ req \in [Strategies -> Request]
    /\ drv \in [pc : {"idle", "pick", "global", "next", "lock"},
                todo : SUBSET Nat, at : Times \cup {0}, ev : Nat, left : SUBSET Strategies,
                cur : Strategies \cup {Platform}, residual : BOOLEAN]
    /\ reconciledAt \in Times \cup {0}
    /\ placed \in Nat /\ crashes \in Nat
    /\ approved \in [Strategies -> BOOLEAN]

\* A strategy is created in draft, or in paper with its bootstrap row.
Init ==
    /\ LedgerInit
    /\ life \in [Strategies -> {"draft", "paper"}]
    /\ hist = [s \in Strategies |->
                 IF life[s] = "paper"
                 THEN <<[from |-> "draft", to |-> "paper", at |-> now]>> ELSE <<>>]
    /\ flat = [s \in Strategies |-> TRUE]
    /\ resting = [s \in Strategies |-> FALSE]
    /\ cancelAlert = [s \in Strategies |-> FALSE]
    /\ req = [s \in Strategies |-> NoRequest]
    /\ drv = NoPass
    /\ reconciledAt = 0
    /\ placed = 0 /\ crashes = 0
    /\ approved = [s \in Strategies |-> FALSE]

-----------------------------------------------------------------------------
(* The audit trail.                                                        *)

RowsTo(s, to) == {i \in DOMAIN hist[s] : hist[s][i].to = to}
IsLast(i, I)  == i \in I /\ \A j \in I : j <= i

\* Faulty: the first pause of the strategy instead of the newest.
PausedProvenanceOldest(s) ==
    IF RowsTo(s, "paused") = {} THEN None
    ELSE hist[s][CHOOSE i \in RowsTo(s, "paused") :
                   \A j \in RowsTo(s, "paused") : i <= j].from

\* from_state of the newest row to paused; None when there is no such row.
PausedProvenance(s) ==
    IF RowsTo(s, "paused") = {} THEN None
    ELSE hist[s][CHOOSE i \in RowsTo(s, "paused") : IsLast(i, RowsTo(s, "paused"))].from

\* recorded_at of the newest kill that binds s, cleared or not; 0 when none.
NewestKillAt(s) ==
    LET E == {e \in DOMAIN kills : Binds(e, s)}
    IN  IF E = {} THEN 0 ELSE kills[CHOOSE e \in E : IsLast(e, E)].at

\* Faulty: a resume inside the second of the kill does not count as after it.
SinceKillStrict(at, K) == K # 0 /\ at > K

\* recorded_at of a row against the newest binding kill.
SinceKill(at, K) == K # 0 /\ at >= K

ScanStart == [start |-> 0, sinceKill |-> FALSE, lastPausedFrom |-> None]

\* A row to paper qualifies unless it only resumes a paper life that no kill touched.
Qualifies(a, r, K) ==
    \/ r.from # "paused"
    \/ a.lastPausedFrom = "killed"
    \/ K # 0 /\ ~a.sinceKill

\* One row in the loop of PaperWindowStart.
ScanRow(a, r, K) ==
    CASE r.to = "paused" -> [a EXCEPT !.lastPausedFrom = r.from]
      [] r.to = "paper" /\ Qualifies(a, r, K) ->
           [a EXCEPT !.start = r.at, !.sinceKill = @ \/ SinceKill(r.at, K)]
      [] OTHER -> a

\* The loop over the audit trail, whose rows are in the order of their times.
WindowScan(s) ==
    LET scan[i \in 0..Len(hist[s])] ==
          IF i = 0 THEN ScanStart ELSE ScanRow(scan[i - 1], hist[s][i], NewestKillAt(s))
    IN  scan[Len(hist[s])]

\* Faulty: a kill without a later qualifying row does not close the gate.
PaperWindowStartIgnoringKill(s) == WindowScan(s).start

\* Start of the paper window, 0 when the gate fails closed.
PaperWindowStart(s) ==
    LET w == WindowScan(s)
    IN  IF NewestKillAt(s) # 0 /\ ~w.sinceKill THEN 0 ELSE w.start

-----------------------------------------------------------------------------
(* The transition table.  Conditions on configuration, exchange keys and   *)
(* the L2 envelope are left to Refuse: a request may always be refused.    *)

AdminPlus(q) == q.role = "admin"

GuardPaper(q) == /\ q.to \in LiveStates
                 /\ q.gate
                 /\ q.to = "live_l3" => AdminPlus(q)

GuardLive(q) ==
    \/ q.to = "paper" /\ q.flat
    \/ q.from = "live_l1" /\ q.to = "live_l2"
    \/ q.from \in {"live_l1", "live_l2"} /\ q.to = "live_l3" /\ AdminPlus(q)
    \/ q.from = "live_l3" /\ q.to \in {"live_l1", "live_l2"}
    \/ q.from = "live_l2" /\ q.to = "live_l1"

\* guardKilled, also the only exit of a pause without a usable provenance.
GuardKilled(q) ==
    /\ AdminPlus(q)
    /\ ~q.active
    /\ \/ q.to = "paper" /\ q.flat
       \/ q.to = "paused" /\ ~q.flat

GuardPaused(q) ==
    IF q.prev \in {"killed", None}
    THEN q.to = "paper" /\ GuardKilled(q)
    ELSE q.to = q.prev

\* Transition, with the handler's rule that a live target needs KillCleared.
Allowed(q) ==
    /\ q.to \in LiveStates => ~q.active
    /\ \/ q.to = "paused" /\ q.from \in {"paper"} \cup LiveStates
       \/ q.from = "draft"        /\ q.to = "paper"
       \/ q.from = "paper"        /\ GuardPaper(q)
       \/ q.from \in LiveStates   /\ GuardLive(q)
       \/ q.from = "paused"       /\ GuardPaused(q)
       \/ q.from = "killed"       /\ GuardKilled(q)

\* Pairs of states that some row of the table lists; any other is refused.
Listed(from, to) ==
    \/ from = "paper"          /\ to \in {"paused"} \cup LiveStates
    \/ from \in LiveStates     /\ to \in {"paused", "paper"} \cup (LiveStates \ {from})
    \/ from = "draft"          /\ to = "paper"
    \/ from = "paused"         /\ to \in {"paper"} \cup LiveStates
    \/ from = "killed"         /\ to \in {"paper", "paused"}

-----------------------------------------------------------------------------
(* The handler of POST /strategies/{id}/lifecycle.                         *)

\* Under strategyLock: the row and, for a pause, its provenance (no other
\* writer changes a paused strategy).  Kills go through the kill endpoints.
Begin(s) ==
    /\ req[s].pc = "idle"
    /\ \E to \in Requests \ {"killed"}, role \in Callers :
         /\ Listed(life[s], to)
         /\ req' = [req EXCEPT ![s] =
              [NoRequest EXCEPT !.pc = "read", !.to = to, !.role = role, !.at = now,
                 !.from = life[s],
                 !.prev = IF life[s] = "paused" THEN PausedProvenance(s) ELSE None]]
    /\ UNCHANGED <<now, ledger, rows, book, drv, reconciledAt, entries, crashes>>

\* lifecycleContext: positionsFlat and ActiveKill, outside any transaction.
ReadContext(s) ==
    /\ req[s].pc = "read"
    /\ req' = [req EXCEPT ![s].flat = flat[s], ![s].active = ActiveKill(s),
                 ![s].pc = IF req[s].from = "paper" /\ req[s].to \in LiveStates
                           THEN "gate" ELSE "commit"]
    /\ UNCHANGED <<now, ledger, rows, book, drv, reconciledAt, entries, crashes>>

\* paperGateReport.  The conditions on the fills of the window are Refuse's.
ReadGate(s) ==
    /\ req[s].pc = "gate"
    /\ LET start == PaperWindowStart(s)
       IN  req' = [req EXCEPT ![s].pc = "commit",
                     ![s].gate = start # 0 /\ start + GateDays <= req[s].at]
    /\ UNCHANGED <<now, ledger, rows, book, drv, reconciledAt, entries, crashes>>

\* The audit row and the snapshot of one transition.
Transition(s, from, to, at) ==
    /\ life' = [life EXCEPT ![s] = to]
    /\ hist' = [hist EXCEPT ![s] = Append(@, [from |-> from, to |-> to, at |-> at])]

\* Faulty: the state is not compared.
CommitCheckKill(s) == req[s].to \in LiveStates => ~ActiveKill(s)

\* What AppendLifecycleTransitionCAS re-reads in its transaction.
CommitCheck(s) ==
    /\ life[s] = req[s].from
    /\ req[s].to \in LiveStates => ~ActiveKill(s)

Commit(s) ==
    /\ req[s].pc = "commit"
    /\ Allowed(req[s])
    /\ CommitCheck(s)
    /\ Len(hist[s]) < MaxRow
    /\ Transition(s, req[s].from, req[s].to, req[s].at)
    /\ IF req[s].to = "paused"
       THEN /\ req' = [req EXCEPT ![s].pc = "effect"]
            /\ cancelAlert' = [cancelAlert EXCEPT ![s] = FALSE]
       ELSE /\ req' = [req EXCEPT ![s] = NoRequest]
            /\ UNCHANGED cancelAlert
    /\ UNCHANGED <<now, ledger, flat, resting, drv, reconciledAt, entries, crashes>>

\* An answer that is not 200: a guard, the conflict, a failed read.
Refuse(s) ==
    /\ req[s].pc \notin {"idle", "effect"}
    /\ req' = [req EXCEPT ![s] = NoRequest]
    /\ UNCHANGED <<now, ledger, rows, book, drv, reconciledAt, entries, crashes>>

\* What CancelOpenEntries leaves at the venue: nothing, or an entry whose cancel
\* was ambiguous (logged, no error returned).
SweepOutcome(s) ==
    \/ resting' = [resting EXCEPT ![s] = FALSE]
    \/ resting[s] /\ UNCHANGED resting

\* cancelEntryOrders after the commit of a pause: only an error is alerted.
CancelEffect(s) ==
    /\ req[s].pc = "effect"
    /\ \/ SweepOutcome(s) /\ UNCHANGED cancelAlert
       \/ cancelAlert' = [cancelAlert EXCEPT ![s] = TRUE] /\ UNCHANGED resting
    /\ req' = [req EXCEPT ![s] = NoRequest]
    /\ UNCHANGED <<now, ledger, rows, flat, drv, reconciledAt, entries, crashes>>

-----------------------------------------------------------------------------
(* The safety driver's pass over the unserved kills.                       *)

ReconcileDone ==
    /\ reconciledAt # now
    /\ reconciledAt' = now
    /\ UNCHANGED <<now, ledger, rows, book, req, drv, entries, crashes>>

DriverList ==
    /\ drv.pc = "idle"
    /\ reconciledAt # 0
    /\ Unserved # {}
    /\ drv' = [NoPass EXCEPT !.pc = "pick", !.todo = Unserved, !.at = reconciledAt]
    /\ UNCHANGED <<now, ledger, rows, book, req, reconciledAt, entries, crashes>>

\* Platform before tenant before strategy rows, then insertion order.
TierRank(e) == CASE kills[e].scope = Platform -> 0
                 [] kills[e].scope \in Tenants -> 1
                 [] OTHER -> 2
Precedes(e, f) == \/ TierRank(e) < TierRank(f)
                  \/ TierRank(e) = TierRank(f) /\ e <= f

\* driveSafetyEvent up to affectedStrategies, or the end of the pass.
DriverPick ==
    /\ drv.pc = "pick"
    /\ \/ /\ drv.todo = {}
          /\ drv' = NoPass
       \/ \E e \in drv.todo :
            /\ \A f \in drv.todo : Precedes(e, f)
            /\ drv' = IF e \in done
                      THEN [drv EXCEPT !.todo = @ \ {e}]
                      ELSE [drv EXCEPT !.todo = @ \ {e}, !.ev = e,
                              !.pc = IF kills[e].scope = Platform THEN "global" ELSE "next",
                              !.left = {s \in Strategies : Binds(e, s)}]
    /\ UNCHANGED <<now, ledger, rows, book, req, reconciledAt, entries, crashes>>

\* Step 2: one global sweep for a platform row; its error is residual work.
DriverGlobalSweep ==
    /\ drv.pc = "global"
    /\ \/ /\ drv' = [drv EXCEPT !.pc = "next"]
          /\ \E U \in SUBSET {s \in Strategies : resting[s]} :
               resting' = [s \in Strategies |-> s \in U]
       \/ /\ drv' = [drv EXCEPT !.pc = "next", !.residual = TRUE]
          /\ UNCHANGED resting
    /\ UNCHANGED <<now, ledger, rows, flat, cancelAlert, req, reconciledAt, entries, crashes>>

\* Step 3a: the sweep of one strategy, unless the row is a platform row.
DriverSweep(s) ==
    /\ drv.pc = "next" /\ s \in drv.left
    /\ drv' = [drv EXCEPT !.pc = "lock", !.cur = s]
    /\ IF kills[drv.ev].scope = Platform THEN UNCHANGED resting ELSE SweepOutcome(s)
    /\ UNCHANGED <<now, ledger, rows, flat, cancelAlert, req, reconciledAt, entries, crashes>>

\* Step 3b, AppendKillLifecycleLock, and the count of open entries of step 4.
DriverLock(s) ==
    /\ drv.pc = "lock" /\ s = drv.cur
    /\ IF life[s] \in LiveStates THEN Transition(s, life[s], "killed", now) ELSE UNCHANGED rows
    /\ drv' = [drv EXCEPT !.pc = "next", !.cur = Platform, !.left = @ \ {s},
                          !.residual = @ \/ resting[s]]
    /\ UNCHANGED <<now, ledger, book, req, reconciledAt, entries, crashes>>

\* An error of one strategy is residual work; the pass goes on.
DriverFail(s) ==
    /\ \/ drv.pc = "next" /\ s \in drv.left
       \/ drv.pc = "lock" /\ s = drv.cur
    /\ drv' = [drv EXCEPT !.pc = "next", !.cur = Platform, !.left = @ \ {s},
                          !.residual = TRUE]
    /\ UNCHANGED <<now, ledger, rows, book, req, reconciledAt, entries, crashes>>

\* Faulty: the error of a strategy is logged and forgotten.
MayMarkDespiteErrors == drv.at > kills[drv.ev].at

\* No residual work, and a reconcile that ended after the row was recorded.
MayMark == ~drv.residual /\ drv.at > kills[drv.ev].at

DriverEnd ==
    /\ drv.pc = "next" /\ drv.left = {}
    /\ IF MayMark THEN MarkDone(drv.ev) ELSE UNCHANGED done
    /\ drv' = [NoPass EXCEPT !.pc = "pick", !.todo = drv.todo, !.at = drv.at]
    /\ UNCHANGED <<now, kills, cleared, observed, superseded, rows, book, req,
                   reconciledAt, entries, crashes>>

-----------------------------------------------------------------------------
(* Fills, new entries, and the process.                                    *)

\* The order reaches the venue and is not filled yet; the standing-kill check of
\* submitEntry.  The journal and the re-checks of the send are in OrderJournal.
RestEntry(s) ==
    /\ ~ActiveKill(s)
    /\ resting' = [resting EXCEPT ![s] = TRUE]

\* routeExecution of a live_l2 or live_l3 verdict, under strategyLock.
SubmitVerdict(s) ==
    /\ placed < MaxEntry
    /\ req[s].pc = "idle"
    /\ life[s] \in {"live_l2", "live_l3"}
    /\ RestEntry(s)
    /\ placed' = placed + 1
    /\ UNCHANGED <<now, ledger, rows, flat, cancelAlert, req, drv, reconciledAt, approved, crashes>>

\* The preflight of an approval, which takes no lock.
Preflight(s) ==
    /\ placed < MaxEntry
    /\ ~approved[s]
    /\ life[s] = "live_l1"
    /\ approved' = [approved EXCEPT ![s] = TRUE]
    /\ placed' = placed + 1
    /\ UNCHANGED <<now, ledger, rows, book, req, drv, reconciledAt, crashes>>

\* Its SubmitApproved, or an error of the decision or the submission.
SubmitApproved(s) ==
    /\ approved[s]
    /\ approved' = [approved EXCEPT ![s] = FALSE]
    /\ RestEntry(s) \/ UNCHANGED resting
    /\ UNCHANGED <<now, ledger, rows, flat, cancelAlert, req, drv, reconciledAt, placed, crashes>>

FillEntry(s) ==
    /\ resting[s]
    /\ resting' = [resting EXCEPT ![s] = FALSE]
    /\ flat' = [flat EXCEPT ![s] = FALSE]
    /\ UNCHANGED <<now, ledger, rows, cancelAlert, req, drv, reconciledAt, entries, crashes>>

ClosePosition(s) ==
    /\ ~flat[s]
    /\ flat' = [flat EXCEPT ![s] = TRUE]
    /\ UNCHANGED <<now, ledger, rows, resting, cancelAlert, req, drv, reconciledAt,
                   entries, crashes>>

\* Handlers, approvals, the pass and lastReconcileEnd are memory.
Crash ==
    /\ crashes < MaxCrash
    /\ crashes' = crashes + 1
    /\ req' = [s \in Strategies |-> NoRequest]
    /\ drv' = NoPass
    /\ reconciledAt' = 0
    /\ approved' = [s \in Strategies |-> FALSE]
    /\ UNCHANGED <<now, ledger, rows, book, placed>>

Operator == \E c \in Scopes : AppendKill(c, FALSE) \/ Observe(c) \/ AppendKillClear(c)

Handler(s) == \/ Begin(s) \/ ReadContext(s) \/ ReadGate(s)
              \/ Commit(s) \/ Refuse(s) \/ CancelEffect(s)

Driver == \/ ReconcileDone \/ DriverList \/ DriverPick \/ DriverGlobalSweep \/ DriverEnd
          \/ \E s \in Strategies : DriverSweep(s) \/ DriverLock(s) \/ DriverFail(s)

Market(s) == \/ SubmitVerdict(s) \/ Preflight(s) \/ SubmitApproved(s)
             \/ FillEntry(s) \/ ClosePosition(s)

Next ==
    \/ /\ Tick \/ Operator
       /\ UNCHANGED <<rows, book, req, drv, reconciledAt, entries, crashes>>
    \/ \E s \in Strategies : Handler(s) \/ Market(s)
    \/ Driver
    \/ Crash

Spec == Init /\ [][Next]_vars

\* The clock runs, reconciles go on (the ticker of reconcile.go) and the pass
\* after each of them proceeds; a statement of the driver does not fail forever.
Fairness ==
    /\ WF_vars(Tick /\ UNCHANGED <<rows, book, req, drv, reconciledAt, entries, crashes>>)
    /\ WF_vars(ReconcileDone) /\ WF_vars(DriverList) /\ WF_vars(DriverPick)
    /\ WF_vars(DriverGlobalSweep) /\ WF_vars(DriverEnd)
    /\ \A s \in Strategies : SF_vars(DriverSweep(s)) /\ SF_vars(DriverLock(s))

FairSpec == Spec /\ Fairness

-----------------------------------------------------------------------------
(* Properties.                                                             *)

\* An event that the driver marked served and nobody has cleared keeps every
\* strategy it binds out of the live tiers, whatever a handler had read before
\* the kill (the in-transaction re-check of AppendLifecycleTransitionCAS against
\* the lock and the marker of driveSafetyEvent).
ServedKillIsLocked ==
    \A e \in done \ superseded, s \in Strategies :
      Uncleared(e) /\ Binds(e, s) => life[s] \notin LiveStates

\* The audit trail is a chain that ends in the current state: neither a handler
\* nor the driver's lock ever overwrites a transition that it did not read.
AuditTrailIsChain ==
    \A s \in Strategies :
      /\ \A i \in DOMAIN hist[s] : i > 1 => hist[s][i].from = hist[s][i - 1].to
      /\ hist[s] # <<>> => life[s] = hist[s][Len(hist[s])].to

\* Between a kill lock and the next live row there is a paper row: an unlock to
\* paused keeps the lock through the provenance that the audit trail carries.
LiveAfterLockPassesPaper ==
    \A s \in Strategies : \A i, j \in DOMAIN hist[s] :
      i < j /\ hist[s][i].to = "killed" /\ hist[s][j].to \in LiveStates =>
        \E k \in DOMAIN hist[s] : i < k /\ k < j /\ hist[s][k].to = "paper"

\* The paper window as lifecycle-api.md LC-16 defines it, rule by rule: the set of
\* the qualifying rows, the newest of them, and a kill that closes the gate.
LC16Qualifying(s) ==
    LET K == NewestKillAt(s)
        PausedBefore(i) == {p \in RowsTo(s, "paused") : p < i}
    IN  CHOOSE Q \in SUBSET RowsTo(s, "paper") : \A i \in RowsTo(s, "paper") :
          i \in Q <=>
            \/ hist[s][i].from # "paused"
            \/ \E p \in PausedBefore(i) :
                 IsLast(p, PausedBefore(i)) /\ hist[s][p].from = "killed"
            \/ K # 0 /\ ~\E j \in Q : j < i /\ hist[s][j].at >= K

LC16WindowStart(s) ==
    LET Q == LC16Qualifying(s)
        K == NewestKillAt(s)
        closed == K # 0 /\ \A i \in Q : hist[s][i].at < K
    IN  IF Q = {} \/ closed THEN 0 ELSE hist[s][CHOOSE i \in Q : IsLast(i, Q)].at

\* The one-pass scan of store/lifecycle.go computes the window that LC-16 defines,
\* on every audit trail that handlers, locks and kills can produce.
WindowIsLC16 == \A s \in Strategies : PaperWindowStart(s) = LC16WindowStart(s)

\* A promotion rests on a paper row that is GateDays old and not older than any
\* binding kill recorded before the request: no re-promotion on a record from
\* before a kill, even one that landed while the strategy was not live.
PromotedOnFreshRecord ==
    \A s \in Strategies : \A i \in DOMAIN hist[s] :
      hist[s][i].from = "paper" /\ hist[s][i].to \in LiveStates =>
        \E j \in DOMAIN hist[s] :
          /\ j < i /\ hist[s][j].to = "paper"
          /\ hist[s][j].at + GateDays <= hist[s][i].at
          /\ \A e \in DOMAIN kills :
               Binds(e, s) /\ kills[e].at < hist[s][i].at => hist[s][j].at >= kills[e].at

\* The inductive invariant of Lifecycle_proofs.  A handler that has begun carries
\* a time; a pass works on recorded kills; and, as long as a pass over an event
\* has met no error, the strategies it is through with are not live.
RequestsTimed == \A s \in Strategies : req[s].pc # "idle" => req[s].at \in Times

InEvent == drv.pc \in {"global", "next", "lock"}

PassOnKills ==
    /\ drv.todo \subseteq DOMAIN kills
    /\ InEvent => drv.ev \in DOMAIN kills
    /\ drv.pc = "lock" => drv.cur \in drv.left

PassLocks ==
    InEvent /\ ~drv.residual /\ Uncleared(drv.ev) =>
      \A s \in Strategies \ drv.left : Binds(drv.ev, s) => life[s] \notin LiveStates

IInv == /\ TypeOK /\ RequestsTimed /\ PassOnKills
        /\ PassLocks /\ ServedKillIsLocked /\ AuditTrailIsChain

\* A live strategy under an active kill is locked, or the kill is cleared.
KillEventuallyBinds ==
    \A s \in Strategies :
      (life[s] \in LiveStates /\ ActiveKill(s)) ~> (life[s] \notin LiveStates \/ ~ActiveKill(s))

=============================================================================
