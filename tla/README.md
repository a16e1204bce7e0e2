# A TLA+ verification project for AlphaMintX

AlphaMintX is an LLM-driven trading system.  A Python *agent plane* turns market
data into trade proposals; a Go *control plane* decides what may be traded,
executes it on paper or on a live exchange, and is the only component that ever
holds money-moving authority; a Next.js console shows the result.  Paths below
are relative to the repository root; `cp/` abbreviates
`control-plane/internal/` and `spec` abbreviates
`docs/specs/live-oms-and-reconciler.md`.

This directory holds TLA+ modules translated from that code, TLC configurations
that check them on small instances, and proofs that TLAPS checks for every value
of the constants.

## 1. Inventory

### 1.1 The control plane

| component | state it keeps | operations | correct when |
|---|---|---|---|
| Live OMS submit path (`cp/oms/live/submit.go`, `live.go`, `fsm.go`, `cp/store/liveoms.go`) | `orders` rows (status, latest client order id, exchange id), `order_intents` rows (one per attempt: claim, revocation), `order_events`; one goroutine per submission | preflight, journal, claim, transmit, resolve an ambiguous send, retry under a new id, adopt an ack, reject | nothing is sent that is not journaled; a retry never duplicates an order that may exist; a kill binds everything sent after it; a revoked claim does not transmit |
| Reconciler (`cp/oms/live/reconcile.go`) | `reconciled`, `resetPending` in memory, venue epochs in the database | R1 filters, R2 unresolved intents, R3 open-order sweep, R4 absence check, R5 fill backfill, R6 quantity audit, R7 gate; reset acknowledgement | exchange is truth: every order is eventually resolved, orphans leave the book, fills are neither lost nor booked twice; a reset closes the gate |
| Cancel sweeps (`cp/oms/live/safety.go`, `protective.go`) | none | revoke, cancel, record | a sent order that must go, goes; an unsent one is never sent |
| User-data stream, fill booking (`cp/oms/live/stream.go`, `fills.go`) | listen key, watermark (from the database), positions | order reports, trade reports, reconnect | each trade is booked once, to the order that traded |
| Protective drive (`cp/oms/live/protective.go`, `flatten.go`) | `protective_obligations` | place, re-size, retry to the deadline, contingency flatten | every filled entry ends protected or flat |
| Safety-effects driver (`cp/oms/live/safetydrive.go`, `cp/store/safety.go`, `killclear.go`) | `kill_breaker_events`, `kill_clear_events` (append-only), `safety_effects` markers | list unserved events, sweep, lock, flatten, mark; clear | every kill and halt takes full effect once, before it is marked; a clear never un-kills a kill it did not see |
| Breaker monitor and watchdog (`cp/safety/*.go`) | last heartbeat, first-watched times, peak NAV | tick, evaluate, fire, stall scan, silence ladder | an alert precedes its effect; silence of a live strategy ends in a kill; an old silence never kills a newly promoted strategy |
| Lifecycle (`cp/strategy/*.go`, `cp/api/lifecycle.go`, `cp/store/lifecycle.go`) | `strategies.lifecycle_state`, `lifecycle_transitions` | transition with compare-and-set, kill lock | no sequence of legal transitions leads past a kill or the paper gate |
| Proposals and verdicts (`cp/api/proposals.go`, `cp/store/write.go`) | `proposals`, `risk_verdicts` | idempotent ingest, evaluate, route | one verdict and at most one execution per proposal |
| Approvals (`cp/api/approvals.go`, `cp/store/approvals.go`) | `pending_approvals` | approve, reject, time out | one decision each; only an approved one executes |
| Risk gate (`cp/riskgate/*.go`) | none (hydrated inputs) | eighteen ordered checks, shrink-only clipping | never enlarges a proposal; fails closed |
| Paper OMS and bridge (`cp/oms/paper`, `cp/omsbridge`) | in-memory book, persisted fills | submit, tick, restore | the restored book equals the lost one |
| Alert notifier (`cp/notifier`, `cp/store/alertdispatch.go`) | per-source watermark | seed, pass, deliver | at least once, in order, never stuck on one row |
| Dead-man receiver (`control-plane/cmd/deadman`) | raw log, tracker | receive, alarm, restart | one alarm per silence, restarts grant no grace |
| Paper gate (`cp/papergate`, `cp/store/lifecycle.go`) | none (replays the fills of the window) | evaluate | the replayed record is the one the books kept |
| Billing and reconciliation windows (`cp/store/billing.go`, `trace.go`, `reconcile.go`) | `model_costs`, `billing_periods`, `metering_records`, reconciliation runs | ingest costs, ingest exports, close a month, reconcile | every row is on exactly one bill, whatever the order of closes and arrivals |
| Exchange adapter (`cp/exchange`) | none | place, query, cancel, open orders, trades | every error falls into one of four classes |
| Market data, authentication, sessions, tokens, limits, secrets, vault, provisioning, backup and restore gate, backtests, read API, operator tools | rows or caches of their own | request handlers and jobs | see PROJECT.json for each |

### 1.2 The agent plane and the console

The scheduler (`agent-plane/src/alphamintx_agent_plane/scheduler/`) runs one loop
per strategy with a persisted tick number and a checkpoint of the running tick;
the pipeline calls the language model and posts one proposal per tick.  It meets
the control plane only over HTTP: proposal post (idempotent by id), heartbeat,
traces.  The console (`web/`) is a client of the read API.

### 1.3 How the parts interact

```
 scheduler --proposal--> ingest --verdict--> risk gate --> [approval timer]
     |                                                        |
     +--heartbeat--> watchdog --kill--> kill events           v
                     breaker --halt-->      |            Live OMS submit path
 operator --kill/clear/lifecycle/ack reset--+                 |  ^
                                            v                 v  | (acks)
                        safety driver --sweep, flatten--> exchange adapter
                                            ^                 |
                      reconciler R1-R7 -----+------ user-data stream
```

The parties share the database: every party re-reads it before it acts, and the
protocol is in the order of those reads and writes.  In-memory state is small
(`reconciled`, `resetPending`, heartbeats, drive mutex) and lost in a crash.

### 1.4 What is hard

* **Interleaving.** Submission goroutines, reconcile runs, sweeps, the stream,
  the safety driver and HTTP handlers interleave at every database statement and
  every venue call; only the protective drive and the flatten share a mutex.
* **Unknown outcomes.** A placement can be lost, delivered late or delivered and
  unanswered; NotFound can mean never sent, not yet arrived or forgotten.
* **Crash and restart.** Between the journal, the claim, the send, the ack and
  the marker that says an effect was served.
* **Stamp-then-check.** Kills carry an epoch; a submission is stamped with the
  highest one before the standing check and re-checked before each send.
* **Eventually.** Orders resolve, orphans disappear, effects complete, alerts
  arrive.

PROJECT.json lists each hazard at its line with the properties that cover it.

## 2. Plan

The order is that of the damage a mistake would do.

| # | module | models | proofs | section |
|---|---|---|---|---|
| 1 | `OrderJournal` | submit path, R1-R4, R7, sweeps, stream reports, kills, resets, crashes | `OrderJournal_proofs` | 3 |
| 2 | `AttemptLedger` | abstract specification of the journal: each attempt of a submission is sent by one holder, the next one only after the previous was given up | refinement: `OrderJournal_proofs`, last section | 3 |
| 3 | `KillLedger`, `Lifecycle` | kill events and clears, transition table, compare-and-set, kill lock, provenance, paper window | `Lifecycle_proofs` | 4 |
| 4 | `AlertDispatch` | notifier: seed, pass, delivery, watermark, poison rows | `Alerting_proofs` | 5 |
| 5 | `Watchdog` (EXTENDS `KillLedger`) | breaker, heartbeats, silence ladder, alerts, back-fill | `Alerting_proofs` | 5 |
| 6 | `PositionGuard` | protective drive, deadlines, contingency flatten, safety-effects drive, approved close | `Alerting_proofs` | 5 |
| 7 | `DeadMan` | the receiver, its raw log and its restarts | `Alerting_proofs` | 5 |
| 8 | `RiskGate`, `Proposals` (EXTENDS `KillLedger`) | the ordered checks; ingestion, verdict, routing, approvals, timer | `Proposals_proofs` | 6 |
| 9 | `FillBooking` | stream trades, R5 paging, watermark, venue epochs | `Books_proofs` | 6 |
| 10 | `PaperGate`, `PaperOMS` | the replay of the gate; the paper book and its bridge | `Books_proofs` | 6 |
| 11 | `AgentTick` | the agent's tick loop, its checkpoint, its HTTP client | `AgentTick_proofs`, `Sums` | 6 |
| 12 | `Billing` | costs, exports, closes, reconciliation runs | `Billing_proofs`, `Sums` | 6 |

`MCOrderJournal` and `MCLifecycle` hold the instances of rows 1 to 3.
`MCAlerting` runs rows 4 to 7 side by side and `MCTrading` rows 8 to 12: the
parts of one such module share no state, so a behaviour chooses its part
(`part`, from `MCParts`) in its initial state and only that part moves.

What is left, in order:

* Proofs.  Every safety property of a passing run is proved but the type
  invariants of the two compositions, `AlertingTypeOK` and `TradingTypeOK`; what
  is left for the prover needs liveness or `ENABLED` (section 9).
* Models.  The backup verifier and the restore gate keep a flag and files; the
  session and token expiry is a comparison with the clock.  Neither has a
  protocol of its own.
## 3. OrderJournal: the write-ahead intent journal

### 3.1 State and actions

One element of `Orders` is one approved submission; those in `Entries` are of
class ENTRY, the others are protective legs, flattens and closes, which
serialize on `driveMu`.  The client order id `amx1-<token>-<k>` is the pair
`<<order, k>>`.

| variables | code |
|---|---|
| `status`, `att`, `ack` | `orders.status`, the attempt digit of `client_order_id`, the attempt that `exchange_order_id` acknowledges |
| `journaled`, `claimed`, `revoked` | `order_intents` rows, `claimed_at`, `claim_revoked_at` |
| `poisoned` | attempts with an `intent_resolved_absent` event of reason "poisoned" |
| `booked` | the lots of each attempt in the `fills` rows |
| `alarmed`, `killEpoch`, `clearedEpoch` | `venue_reset` event newer than the venue epoch, `MAX(kill_epoch)`, `MAX(cleared_epoch)` |
| `reconciled`, `resetPending`, `started` | the OMS fields under `o.mu`; Run's startup loop has ended |
| `pc`, `stamp`, `tries`, `got` | the goroutine of each submission: where it is, its kill-epoch stamp, the query count, the venue status it carries |
| `rpc`, `phase`, `rtodo`, `rcur`, `rgot`, `seen` | the reconcile run: step, loop, work list, row in hand, answer in hand, R3's `seen` map |
| `wpc`, `wtodo`, `wcur` | one cancel sweep |
| `venue`, `executed` | what the exchange holds of every attempt, "wire" for a request in flight; the lots it has executed |

Every database statement or transaction, every venue call and every section
under `o.mu` is one step, and anything can happen between two steps.  The sender
runs `Submit`, `Stamp`, `StandingKill`, `Journal`, `Claim`, `KillCheck`,
`Reread`, `Place`; an answer is `PlaceAcked`, `PlaceRejected`, `PlaceThrottled`
or `PlaceAmbiguous` (the four error classes); an ambiguous one goes through
`QueryFound`, `QueryNotFound`, `QueryAmbiguous`, `Recheck`, `NextAttempt`.  The
reconcile run is `StartRun`, `LoadFilters` (R1), `ListIntents` .. `ResolveAbsent`
(R2), `SweepOpenOrders` .. `CancelVenueOrphan` (R3), `ListAbsences` ..
`FlagVenueReset` (R4), `Backfill` (R5), `FinishRun` (R7).  The sweep is
`StartSweep`, `SweepNext`, `SweepCancel`, `SweepStatus`, `EndSweep`.  The
environment delivers, loses, fills, expires and forgets; the operator kills,
clears and acknowledges; `Crash` keeps the database and the venue and loses the
rest.

Definitions marked "Faulty" are variants of the code with one plausible mistake;
no behaviour of the specification uses them.  Each is substituted for the right
definition to confirm that a property notices.

### 3.2 Abstractions

* One strategy and one kill scope.  Breaker halts, exchange filters and sizing
  are one step, `Refuse`.  Database errors are not modelled.
* Every submission is of `Lots` lots and is executed and booked in whole lots.
  R5 books any part of what is executed and unbooked of the *acknowledged*
  attempt, for MyTrades carries no client order id; the stream books executions
  of *any* attempt, by the intent.  `filled` is then derived as the code derives
  it: by R5 from the sum of the order's `fills` rows over all its attempts
  (`Covers`, `deriveFillStatus`), by the stream from what the venue says of the
  attempt.  A poisoned attempt that was partly executed and booked by the stream
  and a second attempt that R5 books may so fill an order of which no attempt is
  FILLED at the venue.  The code reads the sum before the transaction of the
  fill, where a concurrent booking can only make it too small; the model reads
  it in the same step.
* R5 is one step for all orders (its pages, errors and watermark are
  `FillBooking`'s); a stream report writes ack, fill and status in one step; the
  three writes of `flagVenueReset` are one step.
* One sweep at a time.  `CancelOpenEntries` sweeps entries, the
  stops-after-flatten sweep the legs other than the closing one.
* The fill columns of an order, fees and positions are `FillBooking`'s and
  `PaperOMS`'s.  The stream's own restart detection (a trade id below the watermark),
  unattributable and foreign orders belong to `FillBooking` too, section 6.
* A reconcile run of the stream goroutine and one started by the operator are
  serialized by the run's mutex; `StartRun` stands for both triggers.
* The bounds `MaxKill`, `MaxFault`, `MaxCrash`, `MaxSweep`, `MaxReset` count
  environment events.  They are in the guards of those actions only, so no step
  of the code is disabled by a bound.

### 3.3 Properties and runs

Instance: one entry (`OneEntry`), or an entry and a protective order
(`EntryAndLeg`), attempts 0..1 instead of 0..9, one or two query tries instead
of five.  Two attempts suffice for everything that relates an attempt to the
next one, which is all the protocol does, and two lots for a partial execution
of each of them.

| run | bounds | shows |
|---|---|---|
| `journal` | 1 fault, and per scenario: the entry alone with two attempts, whose executions add up to its quantity; with 1 crash of one attempt, however executed, or of a retry before it executes; unexecuted against 1 kill and its clear (`EntryAlone`); or one attempt of either order, one lot executed, against 1 sweep of either kind (`OneAgainstSweep`) | the inductive invariant `IInv` of the proofs, `RowsTrueOfVenue`, `KillBindsSend`, `RevokedNeverSent`, and the refinement `ImplementsLedger` |
| `live` | 2 attempts, 2 query tries; one of two lots executed and 1 fault, or 1 crash and 1 reset; or both lots and 1 crash (`LossOrRestart`); fair | `PendingEventuallyResolved`, `OrphanEventuallyGone`, `OpenFollowsVenue` |

The two scenarios of `journal` are constraints on one run, not two runs: what
they cut off is a sweep against a retrying entry, a sweep against a later
reconcile run, attempts that execute more than the order's quantity together, a
crash or a kill beside a retry that executes, and a retry that fills the order
before its sender has the answer.  `RevokedNeverSent` is about one id, hence the single attempt
there; that a new attempt escapes a sweep is the run `send_after_cancel` below.
The theorems of section 3.5 hold for every set of orders and every bound.

**Refinement.** `AttemptLedger` is what the journal promises without senders,
reconciler, sweeps and stream: an attempt is written after every earlier one of
its order was abandoned, held by one sender once and for all, barred by a
revocation, armed by its holder, transmitted, lost, or abandoned, and nothing
armed is abandoned.  `ImplementsLedger` maps `journaled`, `claimed`, `revoked`
and `poisoned` to `written`, `held`, `barred` and `abandoned`, the senders that
are about to transmit to `armed`, and what the exchange has to `out`.  What the
ledger is for is `AtMostOneStands`: an order is at the exchange twice only
through an attempt that the exchange said it did not know.

`AtMostOneStands` (in terms of the journal: `DuplicateOnlyIfPoisoned`) is
deliberately not "at most one copy at the venue": NotFound may precede a late
arrival, so the design accepts a poisoned copy and relies on R3 to remove it
(`OrphanEventuallyGone`).

**Fairness.** `FairSpec` assumes that goroutines run (`Sender`), that the
periodic reconcile ticker fires and its run proceeds (`StartRun`, `Reconcile`),
that a sweep that began proceeds (`Sweep`), and that a request on the wire is
delivered or lost.  The Go scheduler, the ticker in `Run` and HTTP timeouts
justify these.  Nobody is obliged to submit, sweep, kill, clear or acknowledge;
the venue need not fill and the stream need not deliver.  Faults are bounded,
which is the assumption that the network is not down forever.

### 3.4 Where the code and its documentation disagree

Two runs end in a violation; each checks one sentence of the documentation.

| run | claim | what happens |
|---|---|---|
| `transmit_or_resolve` | exactly one of transmit and resolve-absent wins (spec:181-184) | R2 lists an attempt that is journaled and not yet claimed, so nothing is revoked; it resolves the order rejected; the sender then claims and transmits |
| `send_after_cancel` | the send cannot follow the cancel (`cp/oms/live/safety.go:14-16`, spec:188-189) | the sweep revokes attempt 0 while the sender resolves it as ambiguous; the sender journals, claims and sends attempt 1 |

In both the venue order is removed by R3 on a later run
(`OrphanEventuallyGone` covers them), so the consequence is a window, not a
permanent orphan.

Four more disagreements are in the model's behaviours but have no run of their
own: the ack column may hold the ack of an earlier attempt than the row's id
(`cp/store/liveoms.go:88-89` says the latest); R4 may therefore raise the reset
alarm for an order whose latest attempt never arrived (spec:307); a submission
past its preflight transmits after the alarm, for only the preflight reads
`resetPending` (spec:397-399); and a restart opens the gate that the alarm
closed, for the flag is in memory and the alarmed order already expired
(spec:810-812).

### 3.5 What is proved

`OrderJournal_proofs` proves, for every set of orders and every bound, that
`IInv` is inductive, and from it `TypeCorrectness`, `JournaledBeforeSent`,
`DuplicateNeedsPoison`, `ReconciledFirst`, `RowsAreTrue` and the action
properties `PoisonIsFinal`, `KillsBind`, `RevocationIsFinal`.  The assumptions
are those of the module: `Entries \subseteq Orders` and natural bounds,
of which `Lots` and `QueryTries` are at least one.

The safety invariants are not inductive alone.  `IInv` adds:

* `JournalInv`: a sender past its claim holds the claim, what is sent was
  claimed, what is claimed was journaled, and attempts are journaled in order,
  each after the previous was poisoned.
* `PoisonInv`: a sender that may still transmit has an unpoisoned id; one that is
  about to retry has a poisoned one and a digit left.  Type correctness needs
  this too: nothing else bounds `att + 1`.
* `KillInv`: stamps never exceed the kill epoch, and the stamp of an entry past
  the standing check is covered by the clears.  A later kill then exceeds the
  stamp, which is what the pre-send check compares.
* `GateInv`: submissions run only in a process that finished a run.
* `FillInv`: nothing is booked that was not executed, attempt by attempt, and an
  attempt FILLED at the venue was executed in full.
* `CarryInv`, `TruthInv`: a venue answer in a sender's or the reconciler's hand
  is on its way to the row it belongs to and still true when it is written.  A
  filled order is covered by what its attempts executed *together*; the lemmas
  `CoversGrows` and `FullCovers` say that more bookings or executions of any
  attempt only add to the sum.

The proof has one lemma per conjunct and party, one step per action.  Liveness
is model-checked only: the prover handles neither fairness nor ENABLED.

Its last section proves the refinement, `LedgerImplemented`: under
`IInv` every step of a sender is a step of the ledger or a stutter, and every
other party can only bar attempts, make them vanish, or stop a sender.  With the
ledger's own inductive invariant it follows that `OneAttemptStands` holds of the
journal.  `JournaledBeforeSent`, `DuplicateNeedsPoison`, `ReconciledFirst` and
`PoisonIsFinal` have no run of their own: the first three are part of, or follow
from, `IInv`, which `journal` checks.

## 4. KillLedger and Lifecycle

`KillLedger` is the append-only part of the store that decides whether a kill is
active: kill events with their epochs, clears, served markers.  `Lifecycle`
EXTENDS it with the strategies' states, the transition endpoint, the safety
driver that locks killed strategies, and the entries and fills that a transition
must respect.  The flatten half of the driver is in `PositionGuard` and the kills
of the watchdog are in `Watchdog` (section 5), which EXTENDS the ledger too;
`MCLifecycle` holds the instances.

### 4.1 State and code

| variable | code |
|---|---|
| `kills` | `kill_breaker_events` rows of kind `kill`; the index is `kill_epoch`, `MAX + 1` inside the insert transaction |
| `cleared`, `observed` | `kill_clear_events` (MAX of `cleared_epoch` per scope); the epoch the operator read and sends as the compare value |
| `done`, `superseded` | `safety_effects` markers; those a clear wrote under LC-38 |
| `now` | the clock, in seconds as the `recorded_at` columns |
| `life`, `hist` | `strategies.lifecycle_state`, `lifecycle_transitions` in rowid order |
| `flat`, `resting` | all `positions` rows zero; an un-filled ENTRY order at the venue |
| `cancelAlert` | a `lifecycle_entry_cancel_failed` alert for the newest pause |
| `req` | the handler holding `strategyLock`: what it was asked and what it has read |
| `drv` | `DriveSafetyEffects`: the listing still to do, the event, its remaining strategies, `residual` |
| `reconciledAt` | `lastReconcileEnd` |
| `placed`, `approved` | entries submitted; an approval between preflight and `SubmitApproved` |

| action | code |
|---|---|
| `Begin` | `handlePostLifecycle` under the lock: row and provenance |
| `ReadContext`, `ReadGate` | `lifecycleContext` (positions, active kill), `paperGateReport` |
| `Commit`, `Refuse` | `Transition`, then `AppendLifecycleTransitionCAS`; every answer other than 200 |
| `CancelEffect` | `cancelEntryOrders` after a pause |
| `ReconcileDone`, `DriverList`, `DriverPick` | end of a reconcile, the listing, the served re-check and `affectedStrategies` |
| `DriverGlobalSweep`, `DriverSweep`, `DriverLock`, `DriverFail` | steps 2, 3a, 3b and the error of a strategy |
| `DriverEnd` | step 4: marker, if there is no residual work and the listing's reconcile ended after the event |
| `AppendKill`, `Observe`, `AppendKillClear` | the kill endpoints, the operator's read, `appendKillClear` with `supersedeUnserved` |
| `SubmitVerdict` | `routeExecution` of a live_l2 or live_l3 verdict, under `strategyLock` |
| `Preflight`, `SubmitApproved` | the two ends of an approval, which takes no lock |
| `FillEntry`, `ClosePosition`, `Tick` | the venue and the clock (external) |
| `Crash` | handlers, approvals, the pass and `lastReconcileEnd` are memory |

A transaction is one step, and so is a read outside one.  That is where the
difficulty lies: a handler reads the row, the positions, the kills and the gate
in separate steps, while kills, clears and the driver's lock take no
`strategyLock`; only what `AppendLifecycleTransitionCAS` re-reads is protected.

### 4.2 Abstractions

* The deployment is the live one.  In the paper deployment the paper state
  submits and pauses cancel through the bridge; not modelled.
* One boolean stands for the un-filled entries of a strategy and one for its
  positions.  Journal, claims and the re-checks of a send are in `OrderJournal`;
  here an entry reaches the venue in one step, after the standing-kill check.
  The approval preflight's check for a kill since the verdict is left out; the
  standing check of `submitEntry` covers it, except for a kill cleared since,
  where the model admits one submission more than the code.
* The paper gate is its window and `min_days`.  The conditions on fills are a
  pure evaluation; they, the configuration, the exchange keys and the L2
  envelope can only refuse, and `Refuse` may refuse any request.
* `hist` is in rowid order, where the code orders by `(recorded_at, rowid)`; that
  the two agree (`RowsInOrder`, `KillsInOrder`) is part of `RecordInv`, proved.
  A handler stamps its row with the time of its start, so two rows could only be
  out of order if the driver locked in a later second and the handler committed
  afterwards; the compare-and-set refuses that one.
* A kill's `recorded_at` is the second of its commit (the code reads the clock
  just before).  Listing and `lastReconcileEnd` are read in one step; a lock and
  the count of open entries after it are one step.  A failed served re-check is
  the same as every strategy of the event failing: nothing is marked.
* Step 3c (flatten) and its own re-check are in `PositionGuard`, breaker rows and
  the watchdog's kills in `Watchdog` (section 5).  A watchdog kill appends the
  same row as an operator's.

### 4.3 Properties and runs

One strategy, except where the question is about two; seconds 1 to 2, 3 or 4;
`GateDays` 0 or 1 stands for 14 days.  No kill is appended in the last second,
which no reconcile could follow.  `MaxRow` bounds the audit trail: seven rows are
room for live, killed, paused, paper and live again.  `L1Only` are
the targets paper, paused and live_l1; `AllTargets` all of them.

| run | instance | shows |
|---|---|---|
| `life_lock` | 1 strategy kill (`StrategyScope`), 7 rows, 1 entry | `LiveAfterLockPassesPaper`, `WindowIsLC16` and the inductive invariant `IInv`, which contains `TypeOK`, `AuditTrailIsChain` and `ServedKillIsLocked` |
| `life_gate` | 2 strategy kills, 3 seconds, 5 rows, all tiers, both roles, 1 entry, gate of 1, no pass (`NoDriver`) | `PromotedOnFreshRecord` |
| `life_live` | 2 strategies, 1 tenant or platform kill (`TenantOrPlatform`), failures, 1 crash, fair | `ServedKillIsLocked`, `KillEventuallyBinds` |

The constraints on scopes restrict only which kill the operator appends; no
step of the code and no fair action is affected, so they are sound for the
liveness property too.  `life_gate` leaves the driver out because the property
is about strategies that the kill did not find live: paused ones, and ones in
paper.  The locked ones are the subject of `life_lock`.

`ServedKillIsLocked` is the contract of the marker.  The driver visits a strategy
once; a handler that read "no kill" before may commit a promotion after the
visit.  The kill predicate re-evaluated in the compare-and-set transaction stops
it; without that re-evaluation TLC violates `IInv`.

**Fairness.** `FairSpec` assumes that the clock runs, that reconciles go on (the
ticker of `reconcile.go`), and that a pass proceeds.  The sweep and the lock of
a strategy are strongly fair: each may fail on any pass (`DriverFail`), but not
on every one.  Nobody is obliged to kill, clear, request or approve.

### 4.4 Where the code and its documentation disagree

These are in the model's behaviours; TLC exhibits each when the claim is stated
as a property, and none has a run of its own.

* "An in-flight pass never executes superseded effects" (`store/safety.go:87-89`):
  the re-check is per event; a clear that commits before the lock of a strategy
  does not stop it.
* "A kill invalidates any remembered resume target" (`transition.go:14-15`): the
  lock skips a paused strategy, so after a clear it resumes live.
* "An ambiguous cancel is left for the next pass" (`oms/live/safety.go:16-18`): a
  pause has no persisted intent and no next pass; the sweep returns nil, so not
  even the alert is raised.
* An unlock may commit under an active kill (strategy-lifecycle.md:81 forbids it)
  when the kill lands between the handler's read and its commit, for the
  transaction re-checks kills for live targets only; the strategy is then in
  paper or paused, where the kill still bars every live target, and
  `ServedKillIsLocked` holds all the same.
* An approval past its preflight submits its entry after a pause has committed
  and swept (strategy-lifecycle.md:26), for it takes no `strategyLock` and reads
  the state once.

### 4.5 What is proved

`Lifecycle_proofs` proves, for every set of strategies and tenants, every gate
and every bound, that `IInv` is inductive (`Invariance`), and from it
`TypeCorrectness`, `ServedKillsBind` (`ServedKillIsLocked`) and
`NoLostTransition` (`AuditTrailIsChain`).  The assumptions are those of the two
modules: tenants, strategies and the platform scope are distinct, every strategy
has a tenant, targets and roles are of their types, bounds are natural.

`ServedKillIsLocked` is not inductive: it must hold at the moment `DriverEnd`
writes the marker.  `PassLocks` says why it does: while a pass over an event is
without residual work, the strategies it is through with are not live, and a
handler cannot change that, for its commit sees the event uncleared.  `PassOnKills`
keeps the event recorded; `RequestsTimed` gives the rows their times.  Clears
need `Uncleared` in both: `superseded` markers promise nothing.

The properties about rows of the trail need a second invariant, `RecordInv`,
inductive together with `IInv` (`RecordInvariance`):

* `RowsInOrder` and `KillsInOrder`: rows and events carry times that never go
  back, so the newest of a set of rows is the last one;
* `RequestsHold`: a handler between its read and its commit still holds what it
  read, or the driver has locked the strategy in between and its
  compare-and-set will fail.  A resume therefore follows the very row it
  restores from;
* `GateRead`: a promotion that passed the gate has a witness, the row that
  opened the window the gate measured.

Two of its parts are run properties: `LockLeadsThroughPaper`
(`LiveAfterLockPassesPaper`: between a lock and the next live row there is a paper
row; a resume to live leads back to a live row before the pause, for the
provenance of the pause is read off the trail) and `PromotionOnFreshRecord`
(`PromotedOnFreshRecord`).
`WindowOfLC16` (`WindowIsLC16`) says that the scan of the code, a recursive
function, returns the window LC-16 defines by a set: each step of the scan keeps
the window of the rows read (`ScanIsLC16`), and two answers that meet the
definition of LC-16 are equal (`LC16Unique`).

Model-checked only: `KillEventuallyBinds`.

## 5. What follows a danger: Watchdog, PositionGuard, AlertDispatch, DeadMan

`MCAlerting` runs the four side by side.  They meet only in the event and alert
tables: what one appends is an unconstrained input of the next.

### 5.1 State and code

| module | code | state | actions |
|---|---|---|---|
| `Watchdog` | `cp/safety/*.go` | `kills`, `cleared` (from `KillLedger`), `breakers`, `alerts`; in memory `lastSeen`, `firstWatched`, `mon` (where the tick is) | `StartTick`, `EvaluateBreakers`, `Fold`, `Fire`, `StartWatch` (prunes the watch set), `WatchOne`, `ChooseRung`, `Silence`, `Escalate`, `EscalationAlert`, `Backfill`, `EndTick` (stall scan); `Beat`, the operator, the driver, the market and `Restart` between any two |
| `PositionGuard` | `cp/oms/live/protective.go`, `flatten.go`, `safetydrive.go`, the close of `submit.go` | `entry`, `exits` (PROTECTIVE rows), `account` (the exchange), `net` (booked), `timers` (`protective_obligations`), `alarms` (kill and breaker rows with their markers), `drive` (who holds `driveMu` and where it is) | `StartProtectiveDrive`, `DriveEntry`, `DriveKind`, `ResizeProtective`, `PlaceProtective`, `HandleDeadline`, `SizeFlatten`, `SendFlatten`; `StartSafetyDrive`, `SweepEntries`, `ListLeft`, `RecheckServed`, `FlattenForSafety`, `MarkServed`; `ApprovedClose`; executions, bookings, `ReconcileEnds`, `DeadlinesPass`, `ClearKills`, `GuardCrash` |
| `AlertDispatch` | `cp/notifier`, `cp/store/alertdispatch.go` | `table` (three append-only tables), `mark` (watermarks), `batch`, `poison`, failure counters | `Seed`, `StartPass`, `LoadBatch`, `DeliverAccepted`, `DeliverRefused`, `DeliverFailed`, `Advance`, `Skip`, `PersistFails`, `Heartbeat`; `AppendRow`, `DispatchCrash`, `RestoreTables` |
| `DeadMan` | `control-plane/cmd/deadman` | the raw log as far as a restart reads it (`newest`, `firstMark`, `alarmLines`, `torn`), the tracker (`lastNotifier`, `alarmed`), the auth-reject window | `Boot` (scan), `ReadBody`, `LogDelivery`, `TrackHeartbeat`, `CheckAlarm`, `PostAlarm`, `AliveMark`, `AuthReject`, `ReceiverCrash` |

One database statement, one webhook or exchange call and one section under a
mutex is one step.

### 5.2 Abstractions

* **Watchdog.** The clock is coarse: `QuietLimit` 0 and `KillLimit` 1 stand for
  90 seconds and 10 minutes, and keep the boundary between them.  `MarketMoves`
  makes a strategy lose, or its marks go stale; prices and the fold are not
  followed.  The missing-limit guard of the breaker and the cadence of ticks are
  left out.
* **PositionGuard.** One strategy, one symbol, long entries; prices, ticks, the
  notional minimum and the reset gate are left out.  Entries are driven in any
  order (the code: by `submitted_at`).  The exchange locks what a resting stop
  or target is to sell; `Free` is what Balances reports as free
  (`reconcile.go:724` adds the locked part, the drives do not).  A market order
  sells at once or not at all, and its answer may set its row FILLED (adoptAck)
  before its fill is booked.  Stops may be refused at will.  `DeadlinesPass`
  lets all deadlines set so far pass at once.  A position that is short for a
  moment, an exit being booked before its entry, is reached and not followed
  (`net >= 0` in `GuardScenario`); there the code buys back
  (`flatten.go:66-68`).  How each order is sent is `OrderJournal`'s.
* **AlertDispatch.** A row is a serial number.  Each delivery of any row may be
  answered 200, 4xx or not at all, whatever was answered before.  Envelope, truncation and the TLS
  client are left out.  A poison-skipped source stays degraded until its next
  success (AN-17).
* **DeadMan.** A failed append may leave half a line (`torn`), to which the next
  line is glued: a heartbeat answered 200 on such a line is lost to a later
  scan, which is why `AlarmNeverEarly` speaks of readable ones (`safe`).  `Lag`
  is the second a handler may lie between its clock and its section.

### 5.3 Properties and runs

| run | shows |
|---|---|
| `alerting` | `AlertingTypeOK` (of all four) and, per part, `EffectsOnce`, `ActsOnFreshEvidence` (Watchdog); `GuardSafe` (PositionGuard); `NoneBelowMarkLost`, `AcceptedInOrder`, `SkipOnlyAfterRefusals` (AlertDispatch); `ReceiverHonest` (DeadMan) |
| `alerting_live` | `EscalationAlertedWhileWatched`, `SilentEventuallyKilled`; `ProtectedOrFlat`; `EveryRowHandled`; `SilenceAlarms` |

* `EffectsOnce`: the watchdog never stacks a kill on one of its own that nobody
  cleared; an entry sweep follows its durable alert of the day; the breaker fires
  once per strategy and day.  All of it over restarts and failed writes.
* `ActsOnFreshEvidence`: no kill rests on a heartbeat from before the restart,
  the clear or the promotion, and no breaker row on a stalled price.
* `GuardSafe`: a marked alarm that stands has left no open entry and, if it
  flattens, no position, unless the operator is alerted of the residue or fills
  were booked after the driver looked; no flatten of a cleared kill, unless the
  clear fell between the last re-check and the send (`overran`); the safety
  driver journals no second market exit.
* `NoneBelowMarkLost`, `AcceptedInOrder`, `SkipOnlyAfterRefusals`: at least once,
  in order, and a row is given up only after `PoisonAfter` 4xx answers to it in
  this life of the process, with no transient failure and no *recorded*
  acceptance of it among them (consecutive they need not be, section 5.4).
* `EveryRowHandled`: every row is accepted or given up, whatever mix of answers
  it gets.
* `ProtectedOrFlat`: the position keeps returning to flat, dust, or under an exit
  at the exchange for at least its largest entry.  That exit may be the
  take-profit alone: it is what is left when the exchange accepted the target
  and refuses the stop (section 5.4).  A stop shared by two entries is not
  asked to cover both.
* `ReceiverHonest`: silence is measured from the newest heartbeat or the first
  start on record; a page is backed by a log line; every rejected request is on
  record; no alarm before its window has passed.

**Bounds.** One strategy, two kills, four units of the clock, one failed write,
one restart; two source tables and two rows for three and many (a batch of two is
cut by a full pass as one of 50 is); two refusals stand for five; one delivery
handler, a window of one, two reboots, one torn line.  The guard is explored in
the scenarios of `GuardScenario`: an entry with a target, one in two executions,
or two plain ones, without an alarm; a plain one with one alarm, a close and a
failed call; one in two executions with one alarm; a plain one with two alarms
and no failure.  The watchdog's scenarios keep the operator's clear and
promotion, the failing writes and restarts, the heartbeats with pauses, and the
breaker's book apart (`WatchdogScenario`), because each pair of them that meets
in code meets in one scenario.  `alerting_live` keeps the entry with a target,
and drops the clear, the book, the approved close and the alarms of all but the
plain entry.

**Fairness.** The monitor, the dispatcher, the receiver's ticker and each of its
handlers are goroutines that run; a dead receiver is restarted; bookings, the
exchange's answers and reconciles go on, and deadlines pass.  The protective
drive is strongly fair: it waits for `driveMu`, which others take again and
again, and Go's mutex hands over to a waiter that has waited for a millisecond.
Failed calls and writes are bounded.

### 5.4 Where the code and its documentation disagree

Seen in the model's behaviours, without a run of their own.

* spec:822 (invariant 12, protective or flat).  Two entries on one symbol share
  one resting stop, matched by its type and sized for one of them
  (`protective.go:98`); `ProtectedOrFlat` therefore asks for the largest entry
  only, and does not notice what the second one lacks.  With a take-profit
  accepted and the stop refused, the target locks the balance, the deadline's
  contingency flatten finds nothing free to sell, and the stop may be refused
  for ever: the position then rests under its target alone, which
  `ProtectedOrFlat` admits and the specification does not.
* alert-notifier.md:101-108 and 452 (AN-4a): a row is skipped after 12
  *consecutive* attempts at it were refused.  A 2xx whose watermark write fails
  leaves the count standing (`notifier.go:280-287`; only the persisted one and a
  transient failure clear it), so the refusals before and after such an
  acceptance are added up.  The row was delivered in that case, so nothing is
  lost by the early skip.
* A kill or breaker flatten of a position under a resting stop finds a free
  balance of zero; it raises `short_balance` and marks the event served without
  selling (`residue` in `ServedMeansDone`).
* safety-wiring.md:677-680 (invariant 6, one market exit).  The approved close
  does not look for a market exit in flight (`submit.go:86-99`), a second entry's
  contingency uses the pass's stale listing, and an exit FILLED before it is
  booked lets the next pass flatten again.  With `net = 0` the market-exit check
  is skipped (`safetydrive.go:222-224`), so fills booked afterwards are left
  (`late`).  `SafetyNeverStacks` is what does hold: of the safety driver alone.
* safety-wiring.md, invariant 4.  An operator kill between the watchdog's
  ActiveKill read and its `AppendStrategyKill` leaves two kills standing;
  `EffectsOnce` is about the watchdog's own.
* The monitor re-reads neither the watch set nor the lifecycle state between the
  reads and the alert of a tick (`watchdog.go:66`, `161-162`), so the alert of a
  strategy that was locked meanwhile is written; and an alarm whose POST fails is
  repeated on the next tick (`cmd/deadman/main.go:421-432`).

### 5.5 What is proved

`Alerting_proofs` holds the proofs of the modules that share no state.

About `AlertDispatch` it proves, for every number of sources, batch size,
threshold and bound, `DispatchInvariant`, and from it `DispatchTyped`,
`NoRowLost` (`NoneBelowMarkLost`) and `DeliveredInOrder` (`AcceptedInOrder`).
The watermark only ever moves to the row just accepted or just given up, so the
invariant ties the loaded batch to the watermark (`BatchAtMark`), the step before
the watermark's write to the receiver (`AdvanceOfAccepted`), and the order of
deliveries to serials that are handed out once (`SerialsOnce`), a restore
included: it cuts a table short and later rows reuse its rowids.

`SkippedOnlyAfterRefusals` (`SkipOnlyAfterRefusals`) rests on two more conjuncts:
the count of refusals is never ahead of the refusals the receiver gave to that
row since its last transient failure or recorded acceptance, names a row of the table and lives only as long as the process
(`RefusalsCounted`), and a skip in progress is of a row refused as often as the
threshold asks (`SkipOfRefused`).

About `Watchdog` it proves, for every set of strategies, every limit and bound,
`WatchdogInvariant`, and from it `WatchdogTyped`, `EffectsHappenOnce`
(`EffectsOnce`) and `EvidenceIsFresh` (the action properties of
`ActsOnFreshEvidence`).  A tick reads in one statement and acts in a later one,
while heartbeats, operators and the driver go on.  The invariant says what is left
of each reading:

* `NotFiredToday`, `KillsSettled`: a strategy being folded has no breaker row of
  the day, and a strategy about to be killed has no watchdog kill that stands.
  Only the monitor writes these rows and clears never go down, so both still hold
  when the row is appended;
* `BaseFresh`, `KillLate`: the base of a silence is not older than the start of
  the process, the last promotion and the last beat, one of this very second
  excepted.  This needs `WatchKnown` (outside of its first half a tick tracks
  nobody but the watch set, because of the pruning) and `LifeWatched` (nobody was
  promoted from killed while tracked).

`LifeWatched` rests on the one assumption about the operator in the model: a
promotion out of killed comes after days in paper, so the latest tick has seen
the strategy killed (`SetLifecycle`).

About `DeadMan` it proves, for every limit, clock and number of crashes,
`ReceiverInvariant` and `ReceiverIsHonest` (`ReceiverHonest`).  A handler and the
alarm tick interleave, and either may be cut off between the log and the memory.
`DeliveriesTrue` says how far a handler can be behind (`Lag`) and which of its
steps are on file; `LogTrue` that a scan of
the log finds at least what was answered 200, and that the tracker never claims
more than was heard and is never behind what was answered by more than the lag.
So a restart neither forgets an answered heartbeat nor grants a fresh grace.

About `PositionGuard` it proves, for any entries, alarms, clears, failed calls and
crashes, `GuardInvariant` and `EffectsAreDone` (`GuardSafe`).  A drive takes one
look per step and acts in a later one, while fills, kills and clears go on.  What
keeps each look true differs: no entry opens while the event at hand stands
(`SweepHolds`), a position that was flat changes only by a fill, which the ghost
`late` records (`FlattenHolds`), a market exit is journaled by the holder of
`driveMu` alone (`ExitHolds`), and a clear after the last check is the one excuse
that `ClearSupersedes` leaves (`ClearHolds`).  That the exchange never sells more
than the account holds (part of `GuardTypeOK`, a sum over the resting orders) is
left to TLC.

All liveness is model-checked only.
## 6. From a tick to a booked and billed order

`MCTrading` runs five parts side by side: the agent's tick loop, the proposals,
the paper book with its gate, the booking of exchange executions, and billing.

### 6.1 State and code

| module | code | state | actions |
|---|---|---|---|
| `AgentTick` | `scheduler/loop.py`, `state.py`, `pipeline/graph.py`, `client/*.py`; `cp/store/write.go`, `trace.go` | `tickFile`, `thread` (the checkpoint of each tick's thread), `agent` (the task and its request), `mail` (requests on the wire), the proposal, run and trace rows | `BeginTick`, `AnalystNode`, `DebateNode`, `JudgeNode`, `TraderNode`, `PipelineEnds`, `Retries`, `TimeOut`, `TakeAnswer`, `ConcludeTick`, `CutOff`; `InsertProposal`, `InsertTrace`, `TurnDown`, `Lose` |
| `Proposals`, `RiskGate` | `cp/api/proposals.go`, `approvals.go`, `cp/store/write.go`, `approvals.go`, `runtime.go`, `cp/riskgate/*.go` | `row`, `verdict`, `pending`, `approval`, `order`, `tier`, `loss`, kills (from `KillLedger`); `post`, `human`, `sweep`: the handlers and where they are | `Receive`, `TurnAway`, `Admit`, `Judge`, `StoreVerdict`, `Arm`, `Submit`, `Record`; `Decide`, `Recheck`, `Resolve`, `SubmitDecided`, `RecordDecided`; `StartSweepOfTimers`, `ExpireNext`; the venue, kills, `MoveTier`, `TimePasses`, `Halt` |
| `PaperOMS`, `PaperGate` | `cp/oms/paper`, `cp/omsbridge`, `cp/papergate`, `cp/store` | the book in memory (`oms`, `position`), its rows, the state row of the day, `bridge` (who holds the bridge mutex) | `SubmitEntry`, `Flatten`, `CancelOpenEntries`, `StartSweep`, `SweepOrder`, `Persist`, `TransactionFails`, `Reload`, `Midnight`; the gate's replay is the operator `GatePasses` |
| `FillBooking` | `cp/oms/live/stream.go`, `fills.go`, `reconcile.go` R5, R7, `cp/store/liveoms.go` | `trades` (the exchange), `fills`, `held`, `acked`, `epoch`; `loop`, `feed`, `hand`, `run` | `Connect`, `LoseSession`, `Reconnect`, `ReceiveTrade`, `BookStreamFill`, `DropEvent`, `StartupRun`, `PeriodicRun`, `TriggerRun`, `RunAdopt`, `RunPage`, `RunBook`, `RunBooked`, `FailRun`, `FinishRun`, `AcceptReset`, `CrashBooking` |
| `Billing` | `cp/store/billing.go`, `trace.go`, `reconcile.go`, the reconciliation job | `costRows`, `metered`, `periods`, `audits` | `InsertTraceCosts`, `InsertMeteringRecords`, `ClosePeriod`, `Reconcile`, `NextMonth` |

### 6.2 Abstractions

* **AgentTick.** One call per role stands for its reprompt and retries.  A
  node's outcome is durable when it completes (LangGraph's pending writes,
  external).  `DailyTokenBudget` exists in the code and is not wired by
  `build_scheduler` (`__main__.py:97-102`), so it is not modelled.  A trace
  posted before its late-ingested proposal is answered 404 and lost; a trace
  accepted with a null `proposal_id` keeps it after a successful redrive
  (append-only, 409).
* **Proposals.** Rejection reasons, JSON validation and the restore gate are left
  out; losses and drawdown coincide, and no day rolls over.  Filled entries on one
  symbol are one position and one slot (`Held`), and the unrealized result of the
  open positions, anything within `MaxGap`, counts with the day's (`Unrealized`),
  as `foldPositions` has it.  A close gains, or loses more than the worst case
  that the gate judged (`Losses`): a paper stop fills at the mark that triggered
  it, gapped, with slippage and a fee (`oms/paper/ticks.go:51-60`).  An opposite
  entry that nets a position away is the close of both.  The time of a request is
  taken before the lock.  The conflict branch of `InsertVerdict` is
  dead under the strategy lock.  The kill re-check of the paper bridge is vacuous
  (it stamps the current epoch and `paper.OMS.Kill` is never called;
  risk-limits.md:160-163).  `BreakerActive` of the runtime state is never set.
  Preflight demands live_l1, so an escalated live_l2 verdict is always blocked
  unless the strategy is moved.  A human's POST does not check the deadline.
  `RiskGate` uses whole quote units, so `qtyForNotional` and the decimal rounding
  of the clip are abstracted.
* **PaperOMS.** One position, integer prices; the average cost is an integer
  division, as the code's is a rounded decimal one.  Size rounding is left out.
  Every entry has a stop (`IsEntry`), which is what `RequireStopLoss` demands;
  with that limit set to false the code admits entries without one, and
  `PaperBooks` does not speak of those.
* **PaperGate.** One symbol, whole units; the time of a fill is its date, so an
  operation that read its clock before another one and took the mutex after it is
  seen across midnight only (`overtaken`).  `SomeGate` (1 trade, 1 day) stands for
  30 trades and 14 days; a passing verdict is reachable.
* **FillBooking.** Statuses are `OrderJournal`'s; R6, the balance check and
  `noteStartupFailure` append audit rows only.  `started_at` has a precision of a
  second, so the trades of the second in which a reset was accepted may be booked
  again; the model's epoch starts at a trade.
* **Billing.** Costs are whole units, a day of use is its month, lines are per
  strategy and month (the model's name is dropped), and input and output tokens
  are one number.  The newest reconciliation run of a period is kept.  The
  precondition of a cost row, its run, is `AgentTick`'s.

### 6.3 Properties and runs

| run | shows |
|---|---|
| `trading` | `TradingTypeOK` (types of the part that moves), `TicksAccounted`, `OrdersAllowed`, `LimitsHold`, `PaperBooks`, `GateHonest`, `FillsAccounted`, `BilledOnce`, `SpendAccounted` |
| `trading_live` | `TickConcludes`, `PendingEventuallyDecided`, `QueuedExitServed`, `TradeEventuallyBooked` |
| `missed_fill` (violation) | `NothingHidden` |

* `TicksAccounted`: one proposal per tick, whatever the process, the network and
  a request that arrives late do; nothing that a tick decided is dropped without
  a log line; the ledger counts the calls of each run once.
* `OrdersAllowed`: a proposal is submitted at most once; a working order has its
  verdict and, if it was escalated, its approval; an approval saw no kill between
  the verdict and the decision.
* `LimitsHold`: the rate window, and the position slots on paper: positions, per
  symbol, and open entries together.  No bound of the day's loss is among them,
  for the code has none once an entry is in: a stop fills at a gapped mark,
  several entries are judged against the same losses, entries merged on one
  symbol share a slot, and an unrealized profit of the moment counts in an
  entry's favour (section 6.4).
* `PaperBooks`: what the book in memory, the mirrors, the rows, the equity of the
  day and the cash say is one story (`BooksAgree`); stops cover the position, in
  memory and in the rows; a reduce-only fill never flips it.  Failed transactions,
  restarts and midnight fall anywhere.
* `GateHonest`: replayed over the fills table, the gate finds the position, the
  equity and the peak of the books, and its closed trades add up.
* `FillsAccounted`: every fill row counts once; an execution that the watermark
  hides was late or skipped; and the event in hand raises the reset alarm only if
  its own execution is such a one, whatever was accepted before.
* `TradeEventuallyBooked`: an execution is in the books in the end, through lost
  sessions, dropped events and broken runs, unless the watermark passed it or
  its order is a stray, which no page attributes (`Settled`).
* `BilledOnce`, `SpendAccounted`: a row is on exactly one bill of its tenant,
  whatever the order of closes; nothing ingested is lost or counted twice; a
  reconciliation run never takes back a match and satisfies its identity.

**Bounds.** Three proposals, two handlers, two humans, one kill, one move, one
crash; `ProposalScenario` lets entries compete without disturbance (three on
paper, of which one may be in another symbol; two live; a hold beside no other), or disturbs one proposal that is retried
and decided; a clipped one is decided without a kill, a move or a crash.  Three submissions on paper, or two
with a failed transaction, a restart or a midnight.  Two ticks, one debate round,
two HTTP attempts, one end of the process, one error; either the pipeline or the
network is arbitrary.  Three executions of one order undisturbed, or two of an
order and a stray with one outage (a lost session, a dropped event, a run that
breaks off or a crash) and an accepted reset.  Three agent runs of two tenants, two calls, two
months, three closes, two reconciliation runs.  Proposals, handlers and humans
are symmetric in the safety runs, and only there.

**Fairness.** The scheduler's loop, the approval timer's sweep, the bridge's
tick, the stream loop, a run that began and the reconcile ticker are scheduled;
a request that gets no answer times out; the clock moves on.  No fairness is
assumed of humans, the operator, the market, or the network's arrivals.

### 6.4 Where the code and its documentation disagree

`missed_fill` is the run: spec R5 backfills what the stream missed.  A page shows
trades 1 and 2 of an order whose ack is not recorded yet; trade 1 is skipped as
foreign; the ack is recorded; trade 2 is booked, and the watermark is above
trade 1 for ever.

In the model's behaviours, without a run of their own:

* spec:320-322, R5's attribution of the fills of poisoned intents: MyTrades
  carries no client order id (`cp/exchange/binance.go`), so they are skipped.
  "Failed (next run retries)" is not true once a later trade is booked.  After a
  real venue reset a trade id already booked in the old epoch is dropped as a
  replay.  Events queued in a session that was open when a reset was accepted are
  booked again in the new epoch.  An error in `handleUserEvent`, before the fill
  is booked or after, is logged and the event is gone (`stream.go:89-91`,
  `DropEvent`): the next booked event moves the watermark past it.  A failed
  write ends R5 in the middle of a page (`reconcile.go:508-510`, `FailRun`); the
  reconcile after a reconnect coalesces into a run whose page predates the outage
  (`reconcile.go:80`), or fails and is only logged (`stream.go:47`).  The model
  calls an execution `tooLate` when one of these was its last chance of being
  seen before the stream goes on; `FillsAccounted` says that nothing else is
  hidden, and does not promise that these are found.
* An approval that a crash separates from its submission never executes and is
  not audited (`approvals.go:116-121`, `132-136`); persistence-and-api.md:303-305
  has live_l2 escalations approved, which preflight blocks.
* risk-limits.md:74-75 (headroom reserved for open orders): the check uses what
  is lost, not what open orders may lose (`riskgate/checks.go:37-46`; nothing sets
  `ReservedWorstCaseQuote`), so entries judged one after the other may together
  lose more than the daily limit.  The worst case of an order (risk-limits.md:136,
  `riskgate/gate.go:104-107`) leaves gaps and slippage out.
* persistence-and-api.md:286-288 (the cap binds): it is compared with the new
  order alone.  risk-limits.md:138 (the daily state is today's): an operation that
  began before midnight writes the old day (`submit.go:45`, `116`,
  `persist.go:71`).  `submit.go:128-130`: a stop is the one of its entry; it is
  sized by the position.  `submit.go:22-23`: the effects of a failed transaction
  are persisted later only if a later operation touches them.
* LC-18, the gate replays with the same math (`papergate/replay.go`): fills of
  one transaction are stored in the random order of their ids, so an exit may
  come before its entry, where a reduce-only fill on a flat book is clamped.
  Without the proviso `~joined` in `GateReplaysBooks` TLC finds it.
* Rule 2 of the reconciliation: an estimated row under another strategy's call
  is not reported as a misattribution; the precedence is documented.

### 6.5 What is proved

All for every value of the constants their assumptions admit.

**`Proposals_proofs`**: `ProposalsInvariant`, and from it `ProposalsTyped`,
`OrdersAreAllowed` (`OrdersAllowed`) and `LimitsAreHeld` (`LimitsHold`).

* The tables of one proposal agree (`RowsAgree`), and a handler in the lock
  relies on rows that only it writes (`PostAgrees`, `OneInLock`): so a proposal
  is submitted on its verdict or on its approval, never both.  Of two humans who
  decide the same proposal, one wins (`OneWinner`).
* `NoKillUntil` says that no kill binds a proposal between its verdict and the
  clock reading of the human's preflight; kills are stamped with a clock that
  never runs back, so the property survives until the decision is committed.
* The rate bound holds when a verdict is stored, but requests are stamped before
  they get the lock, so verdicts are stored out of order and the window of a
  later one may end between two earlier ones.  `WindowBound` therefore states it
  of every second, and `RateRoom` of the verdict in hand: the snapshot that it was
  judged on covers every window that it falls into.
* On paper the slots that a verdict was judged on move only in its favour before
  it is submitted (`PaperRoom`): an open entry that fills turns its slot into that
  of its symbol's position, or frees it where the symbol has one (`Taken`), and
  closes and cancels only free slots.

`PromotionAssumption` says that with the paper bridge a strategy stays in the
tiers below live.  The code permits an L2 or L3 promotion on a paper bridge
(`guardPaper` demands exchange keys for live_l1 only), where a human's approval
submits outside the lock; the slots bound is a claim about strategies that trade
as `paper`.

**`Books_proofs`**, live fills: `FillsInvariant` and `FillsAreAccounted`
(`FillsAccounted`).  The argument is about where an execution can be that is
neither booked nor given up (`Awaited`): on a run's page, in the session, in the
stream's hand, or `Adrift`, and then a page comes before the next session
(`Placed`).  Whatever is on no page has a higher id than all that may be booked
before it (`Ahead`), so the watermark never passes it.  An event that is dropped and
a page that breaks off leave their executions to the next page where one comes
before the next session, and to `tooLate` otherwise.  For the alarm,
`FormerEpochs` says that what an open session still has to deliver and an earlier
epoch has booked was given up when the reset was accepted: so the event in hand
is late by itself, not by the epoch.

**`Billing_proofs`**: `BillingInvariant`, `RowsBilledOnce` (`BilledOnce`) and
`MatchesNeverTakenBack`.  The watermark of a close is the number of rows at that
moment, so watermarks never fall from one close to the next, whoever it is for
(`MarksRise`); hence the windows of one tenant are disjoint and leave no gap,
though months are closed out of order.

`SpendInvariant` and `SpendIsAccounted` (`SpendAccounted`) are about money that
several tables hold at once.  A trace adds the same tokens to the budget ledger,
to what the traces report and, row by row, to the cost rows (`LedgerSums`).  The
identity of a reconciliation run holds because the lines of a bill are a
partition of its window, the bills of a payer a partition of its billed rows, and
the three classes a partition of the rows it looks at; later traces and exports
change none of the three.  The lemmas about sums over finite sets are in `Sums`.

**`AgentTick_proofs`**: `TickInvariant`, and from it `AgentTypesHold` and
`TicksAreAccounted` (`TicksAccounted`).  A checkpoint whose pipeline is done never
changes, and a request is made of such a checkpoint only.  Hence every request of
a tick says the same, though two lives of the process sent it and the first may
arrive last (`MailTrue`); the control plane never meets a second run of a tick
(`RunsTrue`); an answer may be believed (`AgentTrue`); and a tick behind the tick
file has a proposal or a logged failure (`SettledBehind`).  The invariant covers
traces of a tick that arrive late and again: the ledger adds a run's cost when
its first trace is stored and never after (`LedgerCountsRunsOnce`, by `Sums`).

**`Books_proofs`**, the paper account: `PaperInvariant`, and from it
`PaperBooksHold` (`PaperBooks`), for any entries, prices, fee, slippage and number
of orders.

* One fill (`BookedTrue`): averaging, a partial exit, a full one and a flip keep
  `realized = cash -/+ cost`, because what a closed part cost leaves `cost` and
  enters `realized` in the same rounded amount, and a whole position leaves no
  remainder (`DivExact`).
* Stops (`Covered`): an entry brings a stop for all that it fills, so what it adds
  to one side is covered and what it takes from the other needs less
  (`EntryCovered`).  A stop that fills uncovers exactly what it closes; a
  take-profit or exit that fills leaves the position smaller and every stop
  (`ReducedCovered`); siblings go only with the position (`CancelSound`).
  The model's ids are bounded (`MaxOrder`), so the invariant also counts the free
  ids against the resting entries: a limit that fills finds ids for its stops.
* Failed transactions: the memory may be ahead of the rows by any number of
  operations.  So two statements are carried along, one of the memory against its
  mirrors (`Sound`: a mirrored status is the row's, a settled order that memory
  has forgotten is not open in its row) and one of the rows alone (`RowsSound`:
  what a restart would load is covered and has room).  `Persist` turns the first
  into the second (`PersistRowsSound`), `Reload` the second into the first.
* A filled order has one row (`FillsMatch`): the diff finds an order filled when
  its row does not say so yet, and its two lists are listed without repetition.
* The day's figure (`DayKept`): a snapshot of an earlier date means that today has
  realized nothing yet; that is why a snapshot without a change may be left.

**`Books_proofs`**, the gate: `GateInvariant`, and from it `GateIsHonest`
(`GateHonest`).  The replay is a fold over the fills table, and the claim is that
two programs, `applyFill` and `walk`, which share no code and no table, agree.

* The fold.  `IsWalk` is a table of the intermediate walks over sets of places, the
  last place taken first; two of them agree (`WalksAgree`) and one exists
  (`WalkExists`), by induction over sets of sets.  From this follow `WalkAppend`
  (one more fill is one more step) and `WalkKeeps` (what every step keeps, the walk
  has), and everything else argues with these two.
* One step (`StepIsBooked`): from the position of a book, a fill leads the walk and
  the book to the same position, cost, flip and realized amount, provided that a
  reduce-only fill closes no more than is held; the clamp of the walk is then idle.
* One transaction.  The memory may hold fills that no row has yet.  `Pending` says of
  them what the next transaction needs: with none, the position is its mirror; with
  one, it is the mirror with this fill booked, and a reduce-only one was filled
  within what the mirror holds.  Of two it says nothing, and need not: storing two
  sets `joined`.  So `Persist` takes walk and tables one step further together
  (`PersistWalk`), whether the fill is of this operation or was left by a failed
  transaction, and `Reload` drops what is pending (`ReloadWalk`).
* What is read (`ReadInOrder`): `ListPaperGateFills` orders by date, then by row.
  While no transaction is overtaken the rows ascend (`DatesAscend`, which needs the
  snapshot's date as the latest date stored), so the order read is that of the rows.
* Over any window and in any order (`SpansFollow`), the equity is the seed, the
  closed trades and the open span (`WalkAccounts`), and a profit factor that passes
  means that the closed trades have not lost (`ProfitableIs`).

To be reasoned about, the query of the gate's fills is stated by the rank of a row
(`RowsBefore`) and the sums of the gate as sums over a function.

Model-checked only: the types `TradingTypeOK` of the parts together (those of the
agent and of the proposals are proved by themselves), and all liveness.
## 9. What the proofs leave to TLC, and what is not modelled

* **Liveness and ENABLED** are beyond the prover; the runs `live`, `life_live`,
  `alerting_live` and `trading_live` check them on small instances.
* **Induction over data.**  The prover cannot instantiate an induction theorem
  that takes a predicate.  Induction over finite sets can be stated with a set of
  sets in the predicate's place (`SetInduction` of `Sums`), which is how the sums
  of `Billing` and `AgentTick` and the units under stops of `PaperOMS` are
  reasoned about.  The one fold over a sequence that a property needs, the gate's
  `Walk`, is unfolded by the same induction (`WalksAgree`, `WalkExists` of
  `Books_proofs`).

Every part of the repository is listed in PROJECT.json with its status.  Left
out for good: HTTP signing and decoding, market-data websockets, JSON, prompts
and language-model calls, rendering, file formats and encryption, backup files,
read-only queries, command-line reports: they keep no protocol state.
