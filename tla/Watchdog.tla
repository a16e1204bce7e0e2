------------------------------ MODULE Watchdog ------------------------------
(***************************************************************************)
(* The safety monitor (control-plane/internal/safety): one goroutine whose *)
(* tick evaluates the daily-loss breaker of every monitored strategy, then *)
(* the heartbeat watchdog of every live one, then scans for stalled        *)
(* effects.  Heartbeats arrive from API goroutines, the operator kills,    *)
(* clears, pauses and promotes, the driver serves kill events, and the     *)
(* process crashes, all between any two statements of a tick.              *)
(*                                                                         *)
(* Heartbeats live in memory only; kills, breaker rows and alerts are in   *)
(* the store.  The clock is coarse: QuietLimit and KillLimit stand for the *)
(* 90 seconds and 10 minutes of the two rungs.                             *)
(***************************************************************************)
EXTENDS KillLedger

CONSTANTS
    QuietLimit,     \* WatchdogSilenceThreshold
    KillLimit,      \* WatchdogEscalationThreshold
    StallLimit,     \* age at which an unserved event is reported
    DayLength,      \* units of the clock in a UTC day
    MaxBreaker,     \* bound: breaker rows
    MaxWriteFault,  \* bound: alert appends that fail
    MaxRestart      \* bound: crashes

ASSUME WatchdogAssumption ==
    /\ QuietLimit \in Nat /\ KillLimit \in Nat /\ QuietLimit <= KillLimit
    /\ StallLimit \in Nat /\ DayLength \in Nat \ {0}
    /\ MaxBreaker \in Nat /\ MaxWriteFault \in Nat /\ MaxRestart \in Nat

NoTime == 0                       \* a map without the key; no time

VARIABLES
    lifecycle,      \* strategies.lifecycle_state: live, paused or killed
    naked,          \* strategies with unprotected exposure
    losing,         \* strategies whose daily PnL is at or below the limit
    unmarked,       \* strategies with an open position that has no fresh mark
    breakers,       \* breaker rows: <<strategy, day>> in insertion order
    byWatchdog,     \* epochs whose actor_id is 'watchdog'
    alerts,         \* safety_alerts: <<kind, strategy or epoch, day>>
    reconciled,     \* the live OMS has completed its startup reconcile
    startedAt, lastSeen, firstWatched,  \* memory of the monitor
    mon,            \* the tick in progress
    writeFaults, restarts,              \* bounded counters
    beatAt,         \* ghost: time of the last heartbeat received, ever
    liveSince,      \* ghost: time of the last promotion after a kill
    swept           \* ghost: <<strategy, day>> of the rung-1 sweeps

world     == <<lifecycle, naked, losing, unmarked>>
storeRows == <<breakers, byWatchdog, alerts>>
hbMaps    == <<startedAt, lastSeen, firstWatched>>
marksOf   == <<beatAt, liveSince, swept>>
watchdogVars == <<now, ledger, world, storeRows, reconciled, hbMaps, mon,
                  writeFaults, restarts, marksOf>>

Day(t) == t \div DayLength
Newer(a, b) == IF a >= b THEN a ELSE b

\* watch is the watch set of the tick in progress, or of the last one.
IdleTick(watched) == [pc |-> "idle", todo |-> {}, watch |-> watched, cur |-> Platform,
                      at |-> NoTime, rec |-> FALSE, base |-> NoTime]

WatchdogInit ==
    /\ LedgerInit
    /\ lifecycle = [s \in Strategies |-> "live"]
    /\ naked = {} /\ losing = {} /\ unmarked = {}
    /\ breakers = <<>> /\ byWatchdog = {} /\ alerts = {}
    /\ reconciled = FALSE
    /\ startedAt = now
    /\ lastSeen = [s \in Strategies |-> NoTime]
    /\ firstWatched = [s \in Strategies |-> NoTime]
    /\ mon = IdleTick({})
    /\ writeFaults = 0 /\ restarts = 0
    /\ beatAt = [s \in Strategies |-> NoTime]
    /\ liveSince = [s \in Strategies |-> NoTime]
    /\ swept = {}

-----------------------------------------------------------------------------
(* The agents, the operator, the market, the driver and crashes.           *)

InTick == mon.pc # "idle"

\* A heartbeat is an in-memory update: no lifecycle predicate, no store write.
Beat(s) ==
    /\ beatAt[s] # now
    /\ lastSeen' = [lastSeen EXCEPT ![s] = Newer(@, now)]
    /\ beatAt' = [beatAt EXCEPT ![s] = now]
    /\ UNCHANGED <<now, ledger, world, storeRows, reconciled, startedAt, firstWatched, mon,
                   writeFaults, restarts, liveSince, swept>>

\* A tick takes less than one unit of the clock.
ClockTick ==
    /\ Tick /\ ~InTick
    /\ UNCHANGED <<world, storeRows, reconciled, hbMaps, mon, writeFaults, restarts, marksOf>>

OperatorKill(c) ==
    /\ AppendKill(c, FALSE)
    /\ UNCHANGED <<world, storeRows, reconciled, hbMaps, mon, writeFaults, restarts, marksOf>>

OperatorClear(c) ==
    /\ (Observe(c) \/ AppendKillClear(c))
    /\ UNCHANGED <<world, storeRows, reconciled, hbMaps, mon, writeFaults, restarts, marksOf>>

\* A pause, a resume, or the promotion that follows a clear and an unlock; the
\* last comes after days in paper, so the latest tick has seen it killed.
SetLifecycle(s) ==
    /\ \/ /\ lifecycle[s] = "live"
          /\ lifecycle' = [lifecycle EXCEPT ![s] = "paused"]
          /\ UNCHANGED liveSince
       \/ /\ lifecycle[s] = "paused" /\ ~ActiveKill(s)
          /\ lifecycle' = [lifecycle EXCEPT ![s] = "live"]
          /\ UNCHANGED liveSince
       \/ /\ lifecycle[s] = "killed" /\ ~ActiveKill(s) /\ ~InTick /\ s \notin mon.watch
          /\ lifecycle' = [lifecycle EXCEPT ![s] = "live"]
          /\ liveSince' = [liveSince EXCEPT ![s] = now]
    /\ UNCHANGED <<now, ledger, naked, losing, unmarked, storeRows, reconciled, hbMaps, mon,
                   writeFaults, restarts, beatAt, swept>>

Flip(S, s) == IF s \in S THEN S \ {s} ELSE S \cup {s}

\* The book changes.  A position opened and closed again between two reads of
\* one evaluation is left out.
MarketMoves(s) ==
    /\ \/ naked' = Flip(naked, s) /\ UNCHANGED <<losing, unmarked>>
       \/ losing' = Flip(losing, s) /\ UNCHANGED <<naked, unmarked>>
       \/ /\ mon.pc # "verify" \/ s \notin unmarked
          /\ unmarked' = Flip(unmarked, s) /\ UNCHANGED <<naked, losing>>
    /\ UNCHANGED <<now, ledger, lifecycle, storeRows, reconciled, hbMaps, mon,
                   writeFaults, restarts, marksOf>>

ReconcileCompletes ==
    /\ ~reconciled /\ reconciled' = TRUE
    /\ UNCHANGED <<now, ledger, world, storeRows, hbMaps, mon, writeFaults, restarts, marksOf>>

\* The driver, gated by the reconcile, serves an event: the live strategies it
\* binds are locked and the marker is written.
ServeKill(e) ==
    /\ reconciled /\ e \in Unserved /\ MarkDone(e)
    /\ lifecycle' = [s \in Strategies |->
          IF Binds(e, s) /\ lifecycle[s] = "live" THEN "killed" ELSE lifecycle[s]]
    /\ UNCHANGED <<now, kills, cleared, observed, superseded, naked, losing, unmarked, storeRows,
                   reconciled, hbMaps, mon, writeFaults, restarts, marksOf>>

\* A crash and the next start: a new Monitor, a new startup reconcile.
Restart ==
    /\ restarts < MaxRestart
    /\ restarts' = restarts + 1
    /\ reconciled' = FALSE /\ mon' = IdleTick({}) /\ startedAt' = now
    /\ lastSeen' = [s \in Strategies |-> NoTime]
    /\ firstWatched' = [s \in Strategies |-> NoTime]
    /\ UNCHANGED <<now, ledger, world, storeRows, writeFaults, marksOf>>

-----------------------------------------------------------------------------
(* The tick: candidates, breaker, watchdog, stall scan.                    *)

\* appendAlert: the row, or an error.
AppendAlert(a) ==
    \/ alerts' = alerts \cup {a} /\ UNCHANGED writeFaults
    \/ /\ writeFaults < MaxWriteFault /\ writeFaults' = writeFaults + 1
       /\ UNCHANGED alerts

\* alertDaily: at most one row per kind, subject and UTC day.
AlertDaily(kind, subject) ==
    IF <<kind, subject, Day(mon.at)>> \in alerts
    THEN UNCHANGED <<alerts, writeFaults>>
    ELSE AppendAlert(<<kind, subject, Day(mon.at)>>)

MonitorOnly == UNCHANGED <<now, world, reconciled, startedAt, restarts, beatAt, liveSince>>

\* monitored(): live strategies, and those that hold a position; the states and
\* the reconcile gate are read here, once for the whole tick.
StartTick ==
    /\ ~InTick
    /\ LET live == {s \in Strategies : lifecycle[s] = "live"}
       IN mon' = [mon EXCEPT !.pc = "breaker", !.todo = live \cup naked \cup unmarked,
                             !.watch = live, !.at = now, !.rec = reconciled]
    /\ MonitorOnly /\ UNCHANGED <<ledger, storeRows, lastSeen, firstWatched, writeFaults, swept>>

\* BreakerActiveToday: a row of the strategy's UTC day.
BreakerActiveToday(s) == \E i \in DOMAIN breakers : breakers[i] = <<s, Day(mon.at)>>

Evaluated(s) == mon' = [mon EXCEPT !.pc = "breaker", !.todo = @ \ {s}]

\* Step 1 to the first half of step 4: not reconciled, latched, or a stale mark.
EvaluateBreakers(s) ==
    /\ mon.pc = "breaker" /\ s \in mon.todo
    /\ \/ ~mon.rec /\ AlertDaily("blind", s) /\ Evaluated(s)
       \/ mon.rec /\ BreakerActiveToday(s) /\ Evaluated(s) /\ UNCHANGED <<alerts, writeFaults>>
       \/ /\ mon.rec /\ ~BreakerActiveToday(s) /\ s \in unmarked
          /\ AlertDaily("blind", s) /\ Evaluated(s)
       \/ /\ mon.rec /\ ~BreakerActiveToday(s) /\ s \notin unmarked
          /\ mon' = [mon EXCEPT !.pc = "fold", !.cur = s]
          /\ UNCHANGED <<alerts, writeFaults>>
    /\ MonitorOnly
    /\ UNCHANGED <<ledger, breakers, byWatchdog, lastSeen, firstWatched, swept>>

\* DailyPnL: one snapshot; a position without a fresh mark contributes nothing,
\* so the figure of an unmarked book may say anything.
Fold ==
    /\ mon.pc = "fold"
    /\ \/ mon.cur \in losing \cup unmarked /\ mon' = [mon EXCEPT !.pc = "verify"]
       \/ mon.cur \notin losing \ unmarked /\ Evaluated(mon.cur)
    /\ MonitorOnly
    /\ UNCHANGED <<ledger, storeRows, lastSeen, firstWatched, writeFaults, swept>>

\* Faulty: the freshness of the marks is not verified again after the fold.
FireUnverified ==
    /\ mon.pc = "verify" /\ Len(breakers) < MaxBreaker
    /\ breakers' = Append(breakers, <<mon.cur, Day(mon.at)>>)
    /\ Evaluated(mon.cur)
    /\ MonitorOnly
    /\ UNCHANGED <<ledger, byWatchdog, alerts, lastSeen, firstWatched, writeFaults, swept>>

\* The marks are verified again, then fire appends the breaker row.
Fire ==
    /\ mon.pc = "verify"
    /\ \/ /\ mon.cur \notin unmarked /\ Len(breakers) < MaxBreaker
          /\ breakers' = Append(breakers, <<mon.cur, Day(mon.at)>>)
          /\ UNCHANGED <<alerts, writeFaults>>
       \/ /\ mon.cur \notin unmarked /\ Len(breakers) = MaxBreaker   \* the append failed
          /\ UNCHANGED <<breakers, alerts, writeFaults>>
       \/ mon.cur \in unmarked /\ AlertDaily("blind", mon.cur) /\ UNCHANGED breakers
    /\ Evaluated(mon.cur)
    /\ MonitorOnly
    /\ UNCHANGED <<ledger, byWatchdog, lastSeen, firstWatched, swept>>

\* Faulty: a strategy that left the watch set keeps both of its entries.
PruneKeepsBeats(watched) == UNCHANGED <<firstWatched, lastSeen>>

\* pruneWatchSet: both entries of a tracked strategy that left the watch set.
Prune(watched) ==
    /\ firstWatched' = [s \in Strategies |-> IF s \in watched THEN firstWatched[s] ELSE NoTime]
    /\ lastSeen' = [s \in Strategies |->
          IF s \notin watched /\ firstWatched[s] # NoTime THEN NoTime ELSE lastSeen[s]]

StartWatch ==
    /\ mon.pc = "breaker" /\ mon.todo = {}
    /\ Prune(mon.watch)
    /\ mon' = [mon EXCEPT !.pc = "watch", !.todo = mon.watch]
    /\ MonitorOnly
    /\ UNCHANGED <<ledger, storeRows, writeFaults, swept>>

\* observe and silenceAge: entry into the watch set stamps firstWatched and
\* forgets older beats; the base is the newest of start, entry and last beat.
\* A beat that arrives later is not seen by this tick.
Observation(s) ==
    IF firstWatched[s] = NoTime
    THEN /\ firstWatched' = [firstWatched EXCEPT ![s] = mon.at]
         /\ lastSeen' = [lastSeen EXCEPT ![s] = NoTime]
         /\ mon' = [mon EXCEPT !.pc = "skip", !.cur = s, !.todo = @ \ {s},
                               !.base = Newer(startedAt, mon.at)]
    ELSE /\ mon' = [mon EXCEPT !.pc = "skip", !.cur = s, !.todo = @ \ {s},
                       !.base = Newer(lastSeen[s], Newer(startedAt, firstWatched[s]))]
         /\ UNCHANGED <<firstWatched, lastSeen>>

\* LatestStrategyKillEvent is the watchdog's and no alert names it.
Unalerted(s) ==
    {e \in EpochsAt(s) : /\ \A f \in EpochsAt(s) : f <= e
                         /\ e \in byWatchdog
                         /\ \A a \in alerts : a[1] # "escalation" \/ a[2] # e}

\* Faulty: the back-fill is part of the evaluation that a standing kill skips.
BackfillUnlessKilled(s) ==
    IF Unalerted(s) = {} \/ ActiveKill(s) THEN UNCHANGED <<alerts, writeFaults>>
    ELSE \E e \in Unalerted(s) : AppendAlert(<<"escalation", e, Day(mon.at)>>)

\* backfillEscalationAlert, before and regardless of the standing-kill skip.
Backfill(s) ==
    IF Unalerted(s) = {} THEN UNCHANGED <<alerts, writeFaults>>
    ELSE \E e \in Unalerted(s) : AppendAlert(<<"escalation", e, Day(mon.at)>>)

WatchOne(s) ==
    /\ mon.pc = "watch" /\ s \in mon.todo
    /\ Observation(s) /\ Backfill(s)
    /\ MonitorOnly
    /\ UNCHANGED <<ledger, breakers, byWatchdog, swept>>

Age == mon.at - mon.base

Watched == mon' = [mon EXCEPT !.pc = "watch"]

\* Faulty: the escalation is gated by the reconcile too.
RungReconGated ==
    IF ActiveKill(mon.cur) \/ Age <= QuietLimit THEN "watch"
    ELSE IF mon.rec /\ (Age > KillLimit \/ mon.cur \in naked) THEN "kill" ELSE "silence"

\* Faulty: a standing kill does not stop the evaluation.
RungUnlessQuiet ==
    IF Age <= QuietLimit THEN "watch"
    ELSE IF Age > KillLimit \/ (mon.rec /\ mon.cur \in naked) THEN "kill" ELSE "silence"

\* The standing-kill skip, then the rung the silence has reached.
Rung ==
    IF ActiveKill(mon.cur) \/ Age <= QuietLimit THEN "watch"
    ELSE IF Age > KillLimit \/ (mon.rec /\ mon.cur \in naked) THEN "kill" ELSE "silence"

ChooseRung ==
    /\ mon.pc = "skip"
    /\ mon' = [mon EXCEPT !.pc = Rung]
    /\ MonitorOnly
    /\ UNCHANGED <<ledger, storeRows, lastSeen, firstWatched, writeFaults, swept>>

\* Rung 1: the alert first; without its row no sweep; the sweep if reconciled.
Silence ==
    /\ mon.pc = "silence"
    /\ AlertDaily("silence", mon.cur)
    /\ swept' = IF mon.rec /\ writeFaults' = writeFaults
                THEN swept \cup {<<mon.cur, Day(mon.at)>>} ELSE swept
    /\ Watched /\ MonitorOnly
    /\ UNCHANGED <<ledger, breakers, byWatchdog, lastSeen, firstWatched>>

\* Rung 2: AppendStrategyKill without flatten.
Escalate ==
    /\ mon.pc = "kill"
    /\ \/ /\ AppendKill(mon.cur, FALSE)
          /\ byWatchdog' = byWatchdog \cup {Len(kills) + 1}
          /\ mon' = [mon EXCEPT !.pc = "alert"]
       \/ /\ Len(kills) = MaxKill \/ now = MaxNow        \* the append failed
          /\ Watched /\ UNCHANGED <<now, ledger, byWatchdog>>
    /\ UNCHANGED <<world, breakers, alerts, reconciled, hbMaps, writeFaults, restarts, marksOf>>

\* The alert of the kill; an error is only logged.  The drive is asynchronous.
EscalationAlert ==
    /\ mon.pc = "alert"
    /\ \E e \in Unalerted(mon.cur) : AppendAlert(<<"escalation", e, Day(mon.at)>>)
    /\ Watched /\ MonitorOnly
    /\ UNCHANGED <<ledger, breakers, byWatchdog, lastSeen, firstWatched, swept>>

\* An operator's kill of the same scope came between the row and its alert.
EscalationAlertOvertaken ==
    /\ mon.pc = "alert" /\ Unalerted(mon.cur) = {}
    /\ \E e \in byWatchdog : /\ \A f \in byWatchdog : f <= e
                             /\ AppendAlert(<<"escalation", e, Day(mon.at)>>)
    /\ Watched /\ MonitorOnly
    /\ UNCHANGED <<ledger, breakers, byWatchdog, lastSeen, firstWatched, swept>>

Stalled == {e \in Unserved : mon.at - kills[e].at > StallLimit}

\* stallScan is deferred to the end of every tick.
EndTick ==
    /\ mon.pc = "watch" /\ mon.todo = {}
    /\ IF Stalled = {} THEN UNCHANGED <<alerts, writeFaults>>
       ELSE \E e \in Stalled : AlertDaily("stalled", e)
    /\ mon' = IdleTick(mon.watch)
    /\ MonitorOnly
    /\ UNCHANGED <<ledger, breakers, byWatchdog, lastSeen, firstWatched, swept>>

MonitorStep ==
    \/ StartTick \/ \E s \in Strategies : EvaluateBreakers(s) \/ WatchOne(s)
    \/ Fold \/ Fire \/ StartWatch \/ ChooseRung
    \/ Silence \/ Escalate \/ EscalationAlert \/ EscalationAlertOvertaken \/ EndTick

WatchdogNext ==
    \/ ClockTick \/ ReconcileCompletes \/ Restart
    \/ \E s \in Strategies : Beat(s) \/ SetLifecycle(s) \/ MarketMoves(s)
    \/ \E c \in Scopes : OperatorKill(c) \/ OperatorClear(c)
    \/ \E e \in DOMAIN kills : ServeKill(e)
    \/ MonitorStep

WatchdogSpec == WatchdogInit /\ [][WatchdogNext]_watchdogVars

\* The monitor's goroutine keeps ticking; its append of a row eventually works.
WatchdogFairness == WF_watchdogVars(MonitorStep)

-----------------------------------------------------------------------------
(* Properties.                                                             *)

WatchdogTypeOK ==
    /\ LedgerTypeOK
    /\ lifecycle \in [Strategies -> {"live", "paused", "killed"}]
    /\ naked \subseteq Strategies /\ losing \subseteq Strategies /\ unmarked \subseteq Strategies
    /\ breakers \in Seq(Strategies \X Nat)
    /\ byWatchdog \subseteq DOMAIN kills
    /\ startedAt \in Times
    /\ \A m \in {lastSeen, firstWatched, beatAt, liveSince} : m \in [Strategies -> 0..now]
    /\ mon.pc \in {"idle", "breaker", "fold", "verify", "watch", "skip",
                   "silence", "kill", "alert"}
    /\ InTick => mon.at = now /\ mon.base <= now

\* A watchdog kill rests on silence of the strategy's present life: since the
\* start of the process, its last promotion and its last heartbeat (one that
\* races the tick excepted) more than the quiet limit has passed.
NeverOnStaleSilence ==
    [][\A s \in Strategies :
          byWatchdog' # byWatchdog /\ kills'[Len(kills')].scope = s
            => /\ now - Newer(startedAt, liveSince[s]) > QuietLimit
               /\ beatAt[s] = now \/ now - beatAt[s] > QuietLimit]_watchdogVars

\* The watchdog never piles a kill of its own on one of its kills that nobody
\* has cleared, whatever restarts and operators do (invariant 4, WD-19).
WatchdogNeverStacksOwnKills ==
    \A e, f \in byWatchdog : e < f /\ kills[e].scope = kills[f].scope
                              => \E m \in e..Len(kills) : cleared[kills[e].scope] >= m

\* An entry sweep for silence follows its durable alert of that UTC day (WD-17).
SweepOnlyAfterAlert ==
    \A d \in swept : <<"silence", d[1], d[2]>> \in alerts

\* The breaker fires at most once per strategy and UTC day, across restarts.
BreakerOncePerDay ==
    \A i, j \in DOMAIN breakers : breakers[i] = breakers[j] => i = j

\* An effect of the monitor is repeated or ordered wrongly by no restart, failed write,
\* operator or second tick (watchOne, rungOneSilence, fire).
EffectsOnce == WatchdogNeverStacksOwnKills /\ SweepOnlyAfterAlert /\ BreakerOncePerDay

\* A breaker row is written only while every open position has a fresh mark.
BreakerOnFreshMarks ==
    [][\A s \in unmarked : Len(breakers') > Len(breakers) => breakers'[Len(breakers')][1] # s
      ]_watchdogVars

\* Both: what the monitor acts on is neither a heartbeat from before a restart, a
\* clear or a promotion nor the price of a stalled feed (escalateSilence, evalBook).
ActsOnFreshEvidence == NeverOnStaleSilence /\ BreakerOnFreshMarks

Alerted(e) == \E a \in alerts : a[1] = "escalation" /\ a[2] = e

\* A later kill of the same strategy is the one the back-fill looks at.
Hidden(e) == \E f \in DOMAIN kills : f > e /\ kills[f].scope = kills[e].scope

\* The alert of a watchdog kill is written in the end, through crashes and
\* failed appends, while its strategy stays in the watch set and no later kill
\* of the strategy hides it.
EscalationAlertedWhileWatched ==
    \A e \in 1..MaxKill :
        e \in byWatchdog ~> (e \in byWatchdog =>
            Alerted(e) \/ Hidden(e) \/ lifecycle[kills[e].scope] # "live")

\* Watched, silent for longer than the escalation limit, and not killed.
Overdue(s) ==
    /\ lifecycle[s] = "live" /\ ~ActiveKill(s)
    /\ firstWatched[s] # NoTime
    /\ now - Newer(firstWatched[s], Newer(startedAt, lastSeen[s])) > KillLimit
    /\ Len(kills) < MaxKill /\ now < MaxNow

\* A strategy that has been silent for the escalation limit is killed, whether
\* or not the startup reconcile ever completes (WD-19).
SilentEventuallyKilled == \A s \in Strategies : Overdue(s) ~> ~Overdue(s)

=============================================================================
