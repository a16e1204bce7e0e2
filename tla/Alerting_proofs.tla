-------------------------- MODULE Alerting_proofs --------------------------
(***************************************************************************)
(* Proofs about what follows a danger: the safety monitor (Watchdog), the  *)
(* alert notifier (AlertDispatch), the dead-man receiver (DeadMan) and the *)
(* drives of the live OMS (PositionGuard).  They share no variable, and    *)
(* each part below stands by itself.                                       *)
(*                                                                         *)
(* Watchdog, for every set of strategies, every clock, limit and bound: no *)
(* effect of the monitor is repeated by a restart, a failed write, an      *)
(* operator or a later tick, and the monitor acts neither on a silence of  *)
(* an earlier life of a strategy nor on the price of a stalled feed.  A    *)
(* tick decides in one statement and acts in another one, so the invariant *)
(* says what a decision still means when it is acted on (NotFiredToday,    *)
(* KillsSettled, BaseFresh), and why the maps in memory never reach back   *)
(* beyond the latest promotion (WatchKnown, LifeWatched).                  *)
(*                                                                         *)
(* AlertDispatch, for every number of sources, batch size and bound: no    *)
(* row at or below a watermark is lost, and what the receiver accepted it  *)
(* accepted in order.  The watermark of a source only ever moves to the    *)
(* row just accepted or just given up, so the invariant has to tie the     *)
(* batch to the watermark (BatchAtMark) and the step to the receiver       *)
(* (AdvanceOfAccepted), and the order property needs serials to be used    *)
(* once (SerialsOnce).                                                     *)
(*                                                                         *)
(* DeadMan, for every number of handlers, restarts and half-written lines: *)
(* what the receiver measures, pages and counts is backed by its log, and  *)
(* it never alarms early.  Two handlers may track their heartbeats in      *)
(* either order, and a restart reads the log back; that both leave the     *)
(* tracker close to what was answered 200 rests on how late a handler may  *)
(* be (DeliveriesTrue) and on what of the log can be read (LogTrue).       *)
(*                                                                         *)
(* PositionGuard, for any entries, alarms, clears, failures and crashes: a *)
(* kill or breaker is marked served only when its effects are done, is not *)
(* acted on once superseded, and never sells on top of a market exit.  A   *)
(* drive looks first and acts later; the invariant says what of each look  *)
(* still holds (SweepHolds, FlattenHolds, ClearHolds, ExitHolds).          *)
(***************************************************************************)
EXTENDS Watchdog, AlertDispatch, DeadMan, PositionGuard, SequenceTheorems, FiniteSetTheorems, TLAPS

-----------------------------------------------------------------------------
(* The safety monitor.                                                     *)

MonRecs == [pc : {"idle", "breaker", "fold", "verify", "watch", "skip", "silence", "kill", "alert"},
            todo : SUBSET Strategies, watch : SUBSET Strategies,
            cur : Strategies \cup {Platform}, at : Nat, rec : BOOLEAN, base : Nat]

Typed ==
    /\ WatchdogTypeOK
    /\ mon \in MonRecs
    /\ mon.pc \in {"fold", "verify", "skip", "silence", "kill", "alert"} => mon.cur \in Strategies
    /\ writeFaults \in Nat /\ reconciled \in BOOLEAN
    /\ startedAt <= now /\ mon.base <= now

\* The strategy whose book is being folded has no breaker row of the day.
NotFiredToday == mon.pc \in {"fold", "verify"} => ~BreakerActiveToday(mon.cur)

\* Of two kills of the watchdog at one strategy the first was cleared.
OwnKillsCleared ==
    \A e, f \in byWatchdog :
        e < f /\ kills[e].scope = kills[f].scope => e <= cleared[kills[e].scope]

\* Whatever kill of its own the watchdog is about to follow up was cleared.
KillsSettled ==
    mon.pc = "kill" => \A e \in byWatchdog : kills[e].scope = mon.cur => e <= cleared[mon.cur]

\* Between ticks, and once the watch set is pruned, only its strategies are visited
\* and tracked.
WatchKnown ==
    mon.pc \notin {"breaker", "fold", "verify"} =>
        /\ mon.todo \subseteq mon.watch
        /\ \A s \in Strategies : s \notin mon.watch => firstWatched[s] = NoTime

\* A tracked strategy has not been promoted since it is tracked, and no beat of it
\* is newer than what the monitor has to go by.
LifeWatched ==
    \A s \in Strategies : firstWatched[s] # NoTime =>
        /\ liveSince[s] <= firstWatched[s]
        /\ beatAt[s] <= Newer(lastSeen[s], Newer(startedAt, firstWatched[s]))

\* The base of the silence belongs to the strategy's present life, and only a beat
\* of this very moment is not in it.
BaseFresh ==
    mon.pc \in {"skip", "kill"} =>
        /\ startedAt <= mon.base /\ liveSince[mon.cur] <= mon.base
        /\ beatAt[mon.cur] <= mon.base \/ beatAt[mon.cur] = now

\* A kill is decided on a silence beyond the first rung.
KillLate == mon.pc = "kill" => mon.at - mon.base > QuietLimit

FiredOnce  == BreakerOncePerDay /\ NotFiredToday
KilledOnce == OwnKillsCleared /\ KillsSettled
Fresh      == WatchKnown /\ LifeWatched /\ BaseFresh /\ KillLate

WatchdogInv == Typed /\ FiredOnce /\ SweepOnlyAfterAlert /\ KilledOnce /\ Fresh

-----------------------------------------------------------------------------
(* The steps that are not the monitor's.                                   *)

Outside ==
    \/ ClockTick \/ ReconcileCompletes
    \/ \E s \in Strategies : Beat(s) \/ SetLifecycle(s) \/ MarketMoves(s)
    \/ \E c \in Scopes : OperatorKill(c) \/ OperatorClear(c)
    \/ \E e \in DOMAIN kills : ServeKill(e)

LEMMA NextCases == WatchdogNext => Outside \/ Restart \/ MonitorStep
BY DEF WatchdogNext, Outside

LEMMA OutsideFrame ==
    ASSUME Outside
    PROVE  UNCHANGED <<mon, breakers, byWatchdog, alerts, firstWatched, startedAt, writeFaults,
                       restarts, swept>>
BY DEF Outside, ClockTick, ReconcileCompletes, Beat, SetLifecycle, MarketMoves, OperatorKill,
   OperatorClear, ServeKill, storeRows, hbMaps, marksOf

\* What the operator and the clock do to the tables: events stay, clears only rise.
LedgerKept ==
    /\ LedgerTypeOK'
    /\ Len(kills) <= Len(kills')
    /\ \A e \in DOMAIN kills : kills'[e] = kills[e]
    /\ \A c \in Scopes : cleared[c] <= cleared'[c]

LEMMA LedgerSame ==
    ASSUME LedgerTypeOK, UNCHANGED <<now, ledger>>
    PROVE  LedgerKept
<1>1. \A c \in Scopes : cleared[c] \in Nat
  BY DEF LedgerTypeOK
<1>2. Len(kills) \in Nat
  BY DEF LedgerTypeOK
<1> QED
  BY <1>1, <1>2 DEF LedgerKept, LedgerTypeOK, ledger

LEMMA KillRecorded ==
    ASSUME LedgerTypeOK, NEW c \in Scopes, AppendKill(c, FALSE)
    PROVE  /\ LedgerKept
           /\ Len(kills') = Len(kills) + 1
           /\ DOMAIN kills' = 1..(Len(kills) + 1)
           /\ kills'[Len(kills')].scope = c
           /\ UNCHANGED <<now, cleared>>
<1> DEFINE row == [scope |-> c, flatten |-> FALSE, at |-> now]
<1>1. row \in KillRow /\ kills \in Seq(KillRow) /\ row.scope = c
  BY DEF LedgerTypeOK, KillRow
<1>2. kills' = Append(kills, row)
  BY DEF AppendKill
<1> HIDE DEF row
<1>3. /\ kills' \in Seq(KillRow)
      /\ Len(kills') = Len(kills) + 1 /\ Len(kills) \in Nat
      /\ DOMAIN kills = 1..Len(kills) /\ DOMAIN kills' = 1..Len(kills')
      /\ \A e \in DOMAIN kills : kills'[e] = kills[e]
      /\ kills'[Len(kills')] = row
  BY <1>1, <1>2
<1>4. UNCHANGED <<now, cleared, observed, done, superseded>> /\ Len(kills) < MaxKill
  BY DEF AppendKill
<1>5. DOMAIN kills \subseteq DOMAIN kills' /\ \A d \in Scopes : cleared[d] \in Nat
  BY <1>3 DEF LedgerTypeOK
<1>6. LedgerTypeOK'
  BY <1>3, <1>4, <1>5, LedgerBoundsAssumption DEF LedgerTypeOK
<1> QED
  BY <1>1, <1>3, <1>4, <1>5, <1>6 DEF LedgerKept

LEMMA LedgerStep ==
    ASSUME LedgerTypeOK, Outside
    PROVE  LedgerKept
<1>1. /\ Len(kills) \in Nat /\ DOMAIN kills = 1..Len(kills)
      /\ \A c \in Scopes : cleared[c] \in Nat
  BY DEF LedgerTypeOK
<1>2. CASE ClockTick
  BY <1>1, <1>2, LedgerBoundsAssumption DEF ClockTick, Tick, LedgerTypeOK, LedgerKept, Times, ledger
<1>3. CASE \/ ReconcileCompletes
           \/ \E s \in Strategies : Beat(s) \/ SetLifecycle(s) \/ MarketMoves(s)
  <2>1. UNCHANGED <<now, ledger>>
    BY <1>3 DEF ReconcileCompletes, Beat, SetLifecycle, MarketMoves
  <2> QED
    BY <2>1, LedgerSame
<1>4. ASSUME NEW c \in Scopes, OperatorKill(c)
      PROVE  LedgerKept
  BY <1>4, KillRecorded DEF OperatorKill
<1>5. ASSUME NEW c \in Scopes, Observe(c)
      PROVE  LedgerKept
  <2>1. PICK m \in EpochsAt(c) : observed' = [observed EXCEPT ![c] = m]
    BY <1>5 DEF Observe
  <2>2. m \in Nat
    BY <1>1, <2>1 DEF EpochsAt
  <2> QED
    BY <1>1, <1>5, <2>1, <2>2 DEF Observe, LedgerTypeOK, LedgerKept
<1>6. ASSUME NEW c \in Scopes, AppendKillClear(c)
      PROVE  LedgerKept
  <2>1. /\ cleared' = [cleared EXCEPT ![c] = observed[c]]
        /\ done' = done \cup Superseded(c, observed[c])
        /\ superseded' = superseded \cup Superseded(c, observed[c])
        /\ UNCHANGED <<now, kills, observed>>
    BY <1>6 DEF AppendKillClear
  <2>2. Superseded(c, observed[c]) \subseteq DOMAIN kills \ done
    BY DEF Superseded, EpochsAt
  <2>3. LedgerTypeOK'
    BY <2>1, <2>2 DEF LedgerTypeOK
  <2>4. PICK e \in EpochsAt(c) : e > cleared[c] /\ e <= observed[c]
    BY <1>6 DEF AppendKillClear, ActiveAt, IsScopeMax, Uncleared, EpochsAt
  <2>5. cleared[c] <= observed[c]
    BY <2>4 DEF LedgerTypeOK, EpochsAt
  <2> QED
    BY <1>1, <2>1, <2>3, <2>5 DEF LedgerKept, LedgerTypeOK
<1>7. ASSUME NEW e \in DOMAIN kills, ServeKill(e)
      PROVE  LedgerKept
  BY <1>1, <1>7 DEF ServeKill, MarkDone, LedgerTypeOK, LedgerKept
<1> QED
  BY <1>2, <1>3, <1>4, <1>5, <1>6, <1>7 DEF Outside, OperatorClear

-----------------------------------------------------------------------------
(* Type correctness.                                                       *)

Maps(n) == /\ lastSeen \in [Strategies -> 0..n] /\ firstWatched \in [Strategies -> 0..n]
           /\ beatAt \in [Strategies -> 0..n] /\ liveSince \in [Strategies -> 0..n]

LEMMA ClockFacts ==
    ASSUME Typed
    PROVE  /\ now \in Nat /\ now > 0 /\ startedAt \in 0..now
           /\ mon.at \in Nat /\ mon.base \in Nat
           /\ \A s \in Strategies : /\ lastSeen[s] \in 0..now /\ firstWatched[s] \in 0..now
                                    /\ beatAt[s] \in 0..now /\ liveSince[s] \in 0..now
           /\ \A t \in Times : t \in Nat
BY LedgerBoundsAssumption DEF Typed, WatchdogTypeOK, LedgerTypeOK, Times, MonRecs

LEMMA DayType == ASSUME NEW t \in Nat PROVE Day(t) \in Nat
BY WatchdogAssumption DEF Day

\* A row more in a sequence of breaker rows.
LEMMA RowFired ==
    ASSUME breakers \in Seq(Strategies \X Nat), NEW r \in Strategies \X Nat,
           breakers' = Append(breakers, r)
    PROVE  /\ breakers' \in Seq(Strategies \X Nat)
           /\ Len(breakers) \in Nat /\ DOMAIN breakers = 1..Len(breakers)
           /\ Len(breakers') = Len(breakers) + 1 /\ DOMAIN breakers' = 1..(Len(breakers) + 1)
           /\ \A i \in 1..Len(breakers) : breakers'[i] = breakers[i]
           /\ breakers'[Len(breakers) + 1] = r
OBVIOUS

LEMMA TypedInit == WatchdogInit => Typed
<1> SUFFICES ASSUME WatchdogInit PROVE Typed
  OBVIOUS
<1>1. LedgerTypeOK /\ now \in Times
  BY LedgerBoundsAssumption DEF WatchdogInit, LedgerInit, LedgerTypeOK, Times
<1>2. now = 1
  BY DEF WatchdogInit, LedgerInit
<1>3. Maps(now)
  BY <1>2 DEF WatchdogInit, Maps, NoTime
<1>4. mon \in MonRecs /\ mon.pc = "idle" /\ writeFaults \in Nat
  BY DEF WatchdogInit, IdleTick, MonRecs, NoTime
<1>5. breakers \in Seq(Strategies \X Nat)
  BY DEF WatchdogInit
<1>6. WatchdogTypeOK
  BY <1>1, <1>3, <1>4, <1>5 DEF WatchdogInit, InTick, WatchdogTypeOK, Maps
<1>7. startedAt <= now /\ mon.base <= now
  BY <1>2 DEF WatchdogInit, IdleTick, NoTime
<1> QED
  BY <1>4, <1>6, <1>7 DEF Typed, WatchdogInit

LEMMA TypedOutside ==
    ASSUME Typed, Outside
    PROVE  Typed'
<1>1. LedgerKept
  BY LedgerStep DEF Typed, WatchdogTypeOK
<1>2. byWatchdog' \subseteq DOMAIN kills'
  <2>1. Len(kills) \in Nat /\ DOMAIN kills = 1..Len(kills) /\ DOMAIN kills' = 1..Len(kills')
    BY <1>1 DEF Typed, WatchdogTypeOK, LedgerTypeOK, LedgerKept
  <2>2. Len(kills') \in Nat
    BY <1>1 DEF LedgerKept, LedgerTypeOK
  <2> QED
    BY <1>1, <2>1, <2>2, OutsideFrame DEF Typed, WatchdogTypeOK, LedgerKept
<1>3. /\ lifecycle' \in [Strategies -> {"live", "paused", "killed"}]
      /\ naked' \subseteq Strategies /\ losing' \subseteq Strategies /\ unmarked' \subseteq Strategies
  BY DEF Outside, Typed, WatchdogTypeOK, ClockTick, ReconcileCompletes, Beat, SetLifecycle,
     MarketMoves, OperatorKill, OperatorClear, ServeKill, Flip, world
<1>4. now <= now' /\ (InTick => now' = now) /\ now' \in Nat
  <2>1. now' = now \/ (~InTick /\ now' = now + 1)
    BY DEF Outside, ClockTick, ReconcileCompletes, Beat, SetLifecycle, MarketMoves,
       OperatorKill, OperatorClear, ServeKill, Tick, AppendKill, Observe, AppendKillClear
  <2> QED
    BY <2>1, ClockFacts
<1>4a. 0..now \subseteq 0..now'
  BY <1>4, ClockFacts
<1>4b. /\ lastSeen \in [Strategies -> 0..now] /\ firstWatched \in [Strategies -> 0..now]
       /\ beatAt \in [Strategies -> 0..now] /\ liveSince \in [Strategies -> 0..now]
  BY DEF Typed, WatchdogTypeOK
<1>5. lastSeen' \in [Strategies -> 0..now'] /\ firstWatched' \in [Strategies -> 0..now']
  <2>1. /\ lastSeen \in [Strategies -> 0..now'] /\ firstWatched \in [Strategies -> 0..now']
    BY <1>4a, <1>4b
  <2>2. CASE UNCHANGED lastSeen
    BY <2>1, <2>2, OutsideFrame
  <2>3. ASSUME NEW s \in Strategies, Beat(s)
        PROVE  lastSeen' \in [Strategies -> 0..now']
    BY <2>1, <2>3, ClockFacts DEF Beat, Newer
  <2> QED
    BY <2>1, <2>2, <2>3, OutsideFrame DEF Outside, ClockTick, ReconcileCompletes, SetLifecycle,
       MarketMoves, OperatorKill, OperatorClear, ServeKill, hbMaps
<1>6. beatAt' \in [Strategies -> 0..now'] /\ liveSince' \in [Strategies -> 0..now']
  <2>1. /\ beatAt \in [Strategies -> 0..now'] /\ liveSince \in [Strategies -> 0..now']
    BY <1>4a, <1>4b
  <2>2. CASE UNCHANGED <<beatAt, liveSince>>
    BY <2>1, <2>2
  <2>3. ASSUME NEW s \in Strategies, Beat(s) \/ SetLifecycle(s)
        PROVE  beatAt' \in [Strategies -> 0..now'] /\ liveSince' \in [Strategies -> 0..now']
    BY <2>1, <2>3, ClockFacts DEF Beat, SetLifecycle
  <2> QED
    BY <2>2, <2>3 DEF Outside, ClockTick, ReconcileCompletes, MarketMoves, OperatorKill,
       OperatorClear, ServeKill, marksOf
<1>7. Maps(now)'
  BY <1>5, <1>6 DEF Maps
<1>8. /\ breakers' \in Seq(Strategies \X Nat) /\ startedAt' \in Times
      /\ mon' = mon /\ writeFaults' = writeFaults
  BY OutsideFrame DEF Typed, WatchdogTypeOK
<1>9. (InTick => mon.at = now /\ mon.base <= now)'
  BY <1>4, <1>8, ClockFacts DEF Typed, WatchdogTypeOK, InTick
<1>10. WatchdogTypeOK'
  BY <1>1, <1>2, <1>3, <1>7, <1>8, <1>9, ClockFacts DEF LedgerKept, Typed, MonRecs, WatchdogTypeOK, Maps
<1>11. reconciled' \in BOOLEAN
  BY DEF Typed, Outside, ClockTick, ReconcileCompletes, Beat, SetLifecycle, MarketMoves,
     OperatorKill, OperatorClear, ServeKill
<1>12. startedAt' <= now' /\ mon'.base <= now'
  BY <1>4, <1>8, ClockFacts, OutsideFrame DEF Typed
<1> QED
  BY <1>8, <1>10, <1>11, <1>12 DEF Typed

LEMMA TypedRestart ==
    ASSUME Typed, Restart
    PROVE  Typed'
<1>1. UNCHANGED <<now, ledger, world, storeRows, writeFaults, marksOf>>
  BY DEF Restart
<1>2. /\ startedAt' \in Times
      /\ lastSeen' \in [Strategies -> 0..now] /\ firstWatched' \in [Strategies -> 0..now]
  BY ClockFacts DEF Restart, Typed, WatchdogTypeOK, LedgerTypeOK, NoTime
<1>3. mon' \in MonRecs /\ mon'.pc = "idle"
  BY DEF Restart, IdleTick, MonRecs, NoTime
<1>4. LedgerTypeOK' /\ byWatchdog' \subseteq DOMAIN kills'
  BY <1>1 DEF Typed, WatchdogTypeOK, LedgerTypeOK, ledger, storeRows
<1>5. Maps(now)'
  BY <1>1, <1>2 DEF Typed, WatchdogTypeOK, Maps, marksOf
<1>6. WatchdogTypeOK'
  BY <1>1, <1>2, <1>3, <1>4, <1>5 DEF Typed, WatchdogTypeOK, Maps, InTick, world, storeRows
<1>7. startedAt' <= now' /\ mon'.base <= now' /\ reconciled' = FALSE
  BY <1>1, ClockFacts DEF Restart, IdleTick, NoTime
<1> QED
  BY <1>1, <1>3, <1>6, <1>7 DEF Typed

\* What a statement of a tick leaves alone, and what is left to show.
LEMMA TypedTick ==
    ASSUME Typed, MonitorOnly, UNCHANGED ledger,
           mon' \in MonRecs,
           mon'.pc \in {"fold", "verify", "skip", "silence", "kill", "alert"} => mon'.cur \in Strategies,
           mon'.pc # "idle" => mon'.at = now, mon'.base <= now,
           breakers' \in Seq(Strategies \X Nat), UNCHANGED byWatchdog,
           lastSeen' \in [Strategies -> 0..now], firstWatched' \in [Strategies -> 0..now],
           writeFaults' \in Nat
    PROVE  Typed'
<1>1. mon'.pc \in {"idle", "breaker", "fold", "verify", "watch", "skip", "silence", "kill", "alert"}
  BY DEF MonRecs
<1> QED
  BY <1>1 DEF Typed, WatchdogTypeOK, LedgerTypeOK, InTick, MonitorOnly, ledger, world

LEMMA AlertTyped ==
    ASSUME Typed, NEW a, AppendAlert(a)
    PROVE  writeFaults' \in Nat
BY DEF Typed, AppendAlert

LEMMA DailyTyped ==
    ASSUME Typed, NEW k, NEW x, AlertDaily(k, x)
    PROVE  writeFaults' \in Nat
BY AlertTyped DEF Typed, AlertDaily

LEMMA BackfillTyped ==
    ASSUME Typed, NEW s, Backfill(s)
    PROVE  writeFaults' \in Nat
BY AlertTyped DEF Typed, Backfill

\* The record of a tick with another step and another subject.
LEMMA MonFields ==
    ASSUME Typed
    PROVE  /\ mon.pc \in {"idle", "breaker", "fold", "verify", "watch", "skip", "silence", "kill", "alert"}
           /\ mon.todo \subseteq Strategies /\ mon.watch \subseteq Strategies
           /\ mon.cur \in Strategies \cup {Platform} /\ mon.rec \in BOOLEAN
           /\ mon.at \in Nat /\ mon.base \in Nat
BY DEF Typed, MonRecs

LEMMA TypedMonitor ==
    ASSUME Typed, MonitorStep
    PROVE  Typed'
<1>1. /\ breakers \in Seq(Strategies \X Nat)
      /\ lastSeen \in [Strategies -> 0..now] /\ firstWatched \in [Strategies -> 0..now]
      /\ writeFaults \in Nat /\ mon \in MonRecs
      /\ mon.pc # "idle" => mon.at = now
      /\ now \in Nat /\ mon.at \in Nat /\ mon.base \in Nat /\ mon.base <= now
  BY ClockFacts DEF Typed, WatchdogTypeOK, InTick
<1>2. CASE StartTick
  <2> DEFINE live == {s \in Strategies : lifecycle[s] = "live"}
             todo == live \cup naked \cup unmarked
  <2>1. live \subseteq Strategies /\ todo \subseteq Strategies /\ reconciled \in BOOLEAN
    BY DEF Typed, WatchdogTypeOK
  <2>2. /\ mon' = [mon EXCEPT !.pc = "breaker", !.todo = todo, !.watch = live, !.at = now,
                              !.rec = reconciled]
        /\ MonitorOnly /\ UNCHANGED <<ledger, storeRows, lastSeen, firstWatched, writeFaults>>
    BY <1>2 DEF StartTick
  <2> HIDE DEF live, todo
  <2>3. /\ mon' \in MonRecs /\ mon'.pc = "breaker" /\ mon'.at = now /\ mon'.base = mon.base
    BY <1>1, <2>1, <2>2 DEF MonRecs
  <2> QED
    BY <1>1, <2>2, <2>3, TypedTick DEF storeRows
<1>3. ASSUME NEW s \in Strategies, EvaluateBreakers(s)
      PROVE  Typed'
  <2>1. /\ mon.pc = "breaker" /\ MonitorOnly
        /\ UNCHANGED <<ledger, breakers, byWatchdog, lastSeen, firstWatched>>
    BY <1>3 DEF EvaluateBreakers
  <2>2. \/ mon' = [mon EXCEPT !.pc = "breaker", !.todo = @ \ {s}]
        \/ mon' = [mon EXCEPT !.pc = "fold", !.cur = s]
    BY <1>3 DEF EvaluateBreakers, Evaluated
  <2>3. writeFaults' \in Nat
    BY <1>1, <1>3, DailyTyped DEF EvaluateBreakers
  <2>4. /\ mon' \in MonRecs /\ mon'.at = mon.at /\ mon'.base = mon.base
        /\ mon'.pc = "breaker" \/ (mon'.pc = "fold" /\ mon'.cur = s)
    <3>1. mon' \in MonRecs
      BY <1>1, <2>2 DEF MonRecs
    <3> QED
      BY <1>1, <2>2, <3>1 DEF MonRecs
  <2> QED
    BY <1>1, <2>1, <2>3, <2>4, TypedTick
<1>4. CASE Fold
  <2>1. /\ mon.pc = "fold" /\ MonitorOnly
        /\ UNCHANGED <<ledger, storeRows, lastSeen, firstWatched, writeFaults>>
    BY <1>4 DEF Fold
  <2>2. \/ mon' = [mon EXCEPT !.pc = "breaker", !.todo = @ \ {mon.cur}]
        \/ mon' = [mon EXCEPT !.pc = "verify"]
    BY <1>4 DEF Fold, Evaluated
  <2>3. mon' \in MonRecs /\ mon'.at = mon.at /\ mon'.base = mon.base /\ mon'.cur = mon.cur
    BY <1>1, <2>2 DEF MonRecs
  <2>4. mon.cur \in Strategies /\ mon.pc # "idle"
    BY <2>1 DEF Typed
  <2> QED
    BY <1>1, <2>1, <2>3, <2>4, TypedTick DEF storeRows
<1>5. CASE Fire
  <2>1. /\ mon.pc = "verify" /\ MonitorOnly
        /\ UNCHANGED <<ledger, byWatchdog, lastSeen, firstWatched>>
        /\ mon' = [mon EXCEPT !.pc = "breaker", !.todo = @ \ {mon.cur}]
    BY <1>5 DEF Fire, Evaluated
  <2>2. mon' \in MonRecs /\ mon'.at = mon.at /\ mon'.base = mon.base /\ mon'.pc = "breaker"
    BY <1>1, <2>1 DEF MonRecs
  <2>3. writeFaults' \in Nat
    BY <1>1, <1>5, DailyTyped DEF Fire
  <2>4. <<mon.cur, Day(mon.at)>> \in Strategies \X Nat
    BY <1>1, <2>1, DayType DEF Typed
  <2>5. breakers' \in Seq(Strategies \X Nat)
    BY <1>1, <1>5, <2>4, RowFired DEF Fire
  <2> QED
    BY <1>1, <2>1, <2>2, <2>3, <2>5, TypedTick
<1>6. CASE StartWatch
  <2>1. /\ mon.pc = "breaker" /\ MonitorOnly /\ UNCHANGED <<ledger, storeRows, writeFaults>>
        /\ mon' = [mon EXCEPT !.pc = "watch", !.todo = mon.watch]
    BY <1>6 DEF StartWatch
  <2>2. mon' \in MonRecs /\ mon'.at = mon.at /\ mon'.base = mon.base /\ mon'.pc = "watch"
    BY <1>1, <2>1 DEF MonRecs
  <2>3. lastSeen' \in [Strategies -> 0..now] /\ firstWatched' \in [Strategies -> 0..now]
    BY <1>1, <1>6 DEF StartWatch, Prune, NoTime
  <2> QED
    BY <1>1, <2>1, <2>2, <2>3, TypedTick DEF storeRows
<1>7. ASSUME NEW s \in Strategies, WatchOne(s)
      PROVE  Typed'
  <2>1. /\ mon.pc = "watch" /\ s \in mon.todo /\ MonitorOnly /\ Observation(s)
        /\ UNCHANGED <<ledger, breakers, byWatchdog>>
    BY <1>7 DEF WatchOne
  <2>2. PICK base \in 0..now : mon' = [mon EXCEPT !.pc = "skip", !.cur = s, !.todo = @ \ {s},
                                                   !.base = base]
    <3>1. CASE firstWatched[s] = NoTime
      <4>1. Newer(startedAt, mon.at) \in 0..now
        BY <1>1, <2>1, ClockFacts DEF Newer
      <4> QED
        BY <2>1, <3>1, <4>1 DEF Observation
    <3>2. CASE firstWatched[s] # NoTime
      <4>1. Newer(lastSeen[s], Newer(startedAt, firstWatched[s])) \in 0..now
        BY ClockFacts DEF Newer
      <4> QED
        BY <2>1, <3>2, <4>1 DEF Observation
    <3> QED
      BY <3>1, <3>2
  <2>3. /\ mon' \in MonRecs /\ mon'.at = mon.at /\ mon'.base = base /\ mon'.cur = s
        /\ mon'.pc = "skip"
    <3>1. base \in Nat /\ s \in Strategies
      BY <1>1
    <3>2. mon' \in MonRecs
      BY <1>1, <2>2, <3>1 DEF MonRecs
    <3> QED
      BY <1>1, <2>2, <3>2 DEF MonRecs
  <2>4. lastSeen' \in [Strategies -> 0..now] /\ firstWatched' \in [Strategies -> 0..now]
    <3>1. mon.at = now /\ 0 \in 0..now /\ now \in 0..now
      BY <1>1, <2>1
    <3> QED
      BY <1>1, <2>1, <3>1 DEF Observation, NoTime
  <2>5. writeFaults' \in Nat
    BY <1>7, BackfillTyped DEF WatchOne
  <2> QED
    BY <1>1, <2>1, <2>3, <2>4, <2>5, TypedTick
<1>8. CASE ChooseRung
  <2>1. /\ mon.pc = "skip" /\ MonitorOnly
        /\ UNCHANGED <<ledger, storeRows, lastSeen, firstWatched, writeFaults>>
        /\ mon' = [mon EXCEPT !.pc = Rung]
    BY <1>8 DEF ChooseRung
  <2>2. Rung \in {"watch", "kill", "silence"}
    BY DEF Rung
  <2>3. mon' \in MonRecs /\ mon'.at = mon.at /\ mon'.base = mon.base /\ mon'.cur = mon.cur
    BY <1>1, <2>1, <2>2 DEF MonRecs
  <2>4. mon.cur \in Strategies /\ mon.pc # "idle"
    BY <2>1 DEF Typed
  <2> QED
    BY <1>1, <2>1, <2>3, <2>4, TypedTick DEF storeRows
<1>9. CASE Silence \/ EscalationAlert \/ EscalationAlertOvertaken
  <2>1. /\ mon.pc # "idle" /\ MonitorOnly
        /\ UNCHANGED <<ledger, breakers, byWatchdog, lastSeen, firstWatched>>
        /\ mon' = [mon EXCEPT !.pc = "watch"]
    BY <1>9 DEF Silence, EscalationAlert, EscalationAlertOvertaken, Watched
  <2>2. mon' \in MonRecs /\ mon'.at = mon.at /\ mon'.base = mon.base /\ mon'.pc = "watch"
    BY <1>1, <2>1 DEF MonRecs
  <2>3. writeFaults' \in Nat
    BY <1>9, DailyTyped, AlertTyped DEF Silence, EscalationAlert, EscalationAlertOvertaken
  <2> QED
    BY <1>1, <2>1, <2>2, <2>3, TypedTick
<1>10. CASE EndTick
  <2>1. /\ MonitorOnly /\ UNCHANGED <<ledger, breakers, byWatchdog, lastSeen, firstWatched>>
        /\ mon' = IdleTick(mon.watch)
    BY <1>10 DEF EndTick
  <2>2. mon' \in MonRecs /\ mon'.pc = "idle" /\ mon'.base <= now
    BY <1>1, <2>1 DEF MonRecs, IdleTick, NoTime
  <2>3. writeFaults' \in Nat
    BY <1>1, <1>10, DailyTyped DEF EndTick
  <2> QED
    BY <1>1, <2>1, <2>2, <2>3, TypedTick
<1>11. CASE Escalate
  <2>1. /\ mon.pc = "kill" /\ mon.cur \in Strategies
        /\ UNCHANGED <<world, breakers, alerts, reconciled, hbMaps, writeFaults, restarts, marksOf>>
    BY <1>11 DEF Escalate, Typed
  <2>2. CASE /\ AppendKill(mon.cur, FALSE)
             /\ byWatchdog' = byWatchdog \cup {Len(kills) + 1}
             /\ mon' = [mon EXCEPT !.pc = "alert"]
    <3>1. /\ LedgerKept /\ now' = now
          /\ DOMAIN kills' = 1..(Len(kills) + 1)
      BY <2>1, <2>2, KillRecorded DEF Typed, WatchdogTypeOK, Scopes
    <3>2. byWatchdog' \subseteq DOMAIN kills'
      <4>1. Len(kills) \in Nat /\ DOMAIN kills = 1..Len(kills) /\ byWatchdog \subseteq DOMAIN kills
        BY DEF Typed, WatchdogTypeOK, LedgerTypeOK
      <4> QED
        BY <2>2, <3>1, <4>1
    <3>3. /\ mon' \in MonRecs /\ mon'.at = mon.at /\ mon'.base = mon.base /\ mon'.pc = "alert"
          /\ mon'.cur = mon.cur
      BY <1>1, <2>2 DEF MonRecs
    <3>4. Maps(now)'
      BY <2>1, <3>1 DEF Typed, WatchdogTypeOK, Maps, hbMaps, marksOf
    <3>5. WatchdogTypeOK'
      BY <1>1, <2>1, <3>1, <3>2, <3>3, <3>4
         DEF Typed, WatchdogTypeOK, LedgerKept, Maps, InTick, world, hbMaps
    <3> QED
      BY <1>1, <2>1, <3>1, <3>3, <3>5 DEF Typed, hbMaps
  <2>3. CASE Watched /\ UNCHANGED <<now, ledger, byWatchdog>>
    <3>1. mon' = [mon EXCEPT !.pc = "watch"]
      BY <2>3 DEF Watched
    <3>2. mon' \in MonRecs /\ mon'.at = mon.at /\ mon'.base = mon.base /\ mon'.pc = "watch"
      BY <1>1, <3>1 DEF MonRecs
    <3> QED
      BY <1>1, <2>1, <2>3, <3>2, TypedTick DEF MonitorOnly, hbMaps, marksOf
  <2> QED
    BY <1>11, <2>2, <2>3 DEF Escalate
<1> QED
  BY <1>2, <1>3, <1>4, <1>5, <1>6, <1>7, <1>8, <1>9, <1>10, <1>11 DEF MonitorStep

-----------------------------------------------------------------------------
(* The breaker.                                                            *)

\* Where each statement of a tick leaves it.
LEMMA NextStatement ==
    ASSUME Typed
    PROVE  /\ StartTick => mon'.pc = "breaker"
           /\ (\E s \in Strategies : EvaluateBreakers(s)) => mon'.pc \in {"breaker", "fold"}
           /\ Fold => mon'.pc \in {"breaker", "verify"}
           /\ Fire => mon'.pc = "breaker"
           /\ StartWatch => mon'.pc = "watch"
           /\ (\E s \in Strategies : WatchOne(s)) => mon'.pc = "skip"
           /\ ChooseRung => mon'.pc \in {"watch", "kill", "silence"}
           /\ Silence \/ EscalationAlert \/ EscalationAlertOvertaken => mon'.pc = "watch"
           /\ Escalate => mon'.pc \in {"alert", "watch"}
           /\ EndTick \/ Restart => mon'.pc = "idle"
<1>1. mon \in MonRecs
  BY DEF Typed
<1>2. StartTick => mon'.pc = "breaker"
  <2>1. ASSUME StartTick PROVE mon'.pc = "breaker"
    <3> DEFINE live == {s \in Strategies : lifecycle[s] = "live"}
               todo == live \cup naked \cup unmarked
    <3>1. mon' = [mon EXCEPT !.pc = "breaker", !.todo = todo, !.watch = live, !.at = now,
                             !.rec = reconciled]
      BY <2>1 DEF StartTick
    <3> HIDE DEF live, todo
    <3> QED
      BY <1>1, <3>1 DEF MonRecs
  <2> QED
    BY <2>1
<1>3. ASSUME NEW s \in Strategies, EvaluateBreakers(s) PROVE mon'.pc \in {"breaker", "fold"}
  <2>1. \/ mon' = [mon EXCEPT !.pc = "breaker", !.todo = @ \ {s}]
        \/ mon' = [mon EXCEPT !.pc = "fold", !.cur = s]
    BY <1>3 DEF EvaluateBreakers, Evaluated
  <2> QED
    BY <1>1, <2>1 DEF MonRecs
<1>4. (Fold => mon'.pc \in {"breaker", "verify"}) /\ (Fire => mon'.pc = "breaker")
  BY <1>1 DEF MonRecs, Fold, Fire, Evaluated
<1>5. StartWatch => mon'.pc = "watch"
  BY <1>1 DEF MonRecs, StartWatch
<1>6. ASSUME NEW s \in Strategies, WatchOne(s) PROVE mon'.pc = "skip"
  BY <1>1, <1>6 DEF MonRecs, WatchOne, Observation
<1>7. ChooseRung => mon'.pc \in {"watch", "kill", "silence"}
  <2>1. Rung \in {"watch", "kill", "silence"}
    BY DEF Rung
  <2> QED
    BY <1>1, <2>1 DEF MonRecs, ChooseRung
<1>8. /\ Silence \/ EscalationAlert \/ EscalationAlertOvertaken => mon'.pc = "watch"
      /\ Escalate => mon'.pc \in {"alert", "watch"}
  BY <1>1 DEF MonRecs, Silence, Escalate, EscalationAlert, EscalationAlertOvertaken, Watched
<1>9. EndTick \/ Restart => mon'.pc = "idle"
  BY DEF EndTick, Restart, IdleTick
<1> QED
  BY <1>2, <1>3, <1>4, <1>5, <1>6, <1>7, <1>8, <1>9

LEMMA FiredOnceStep ==
    ASSUME Typed, FiredOnce, WatchdogNext
    PROVE  FiredOnce'
<1>1. CASE Outside \/ Restart
  <2>1. breakers' = breakers /\ (mon' = mon \/ mon'.pc = "idle")
    BY <1>1, OutsideFrame DEF Restart, IdleTick, storeRows
  <2> QED
    BY <2>1 DEF FiredOnce, BreakerOncePerDay, NotFiredToday, BreakerActiveToday
<1>2. ASSUME NEW s \in Strategies, EvaluateBreakers(s)
      PROVE  FiredOnce'
  <2>1. /\ breakers' = breakers
        /\ \/ mon'.pc = "breaker"
           \/ mon'.pc = "fold" /\ mon'.cur = s /\ mon'.at = mon.at /\ ~BreakerActiveToday(s)
    BY <1>2, MonFields DEF EvaluateBreakers, Evaluated, Typed, MonRecs
  <2> QED
    BY <2>1 DEF FiredOnce, BreakerOncePerDay, NotFiredToday, BreakerActiveToday
<1>3. CASE Fold
  <2>1. /\ breakers' = breakers /\ mon.pc = "fold"
        /\ \/ mon'.pc = "breaker"
           \/ mon'.pc = "verify" /\ mon'.cur = mon.cur /\ mon'.at = mon.at
    BY <1>3 DEF Fold, Evaluated, Typed, MonRecs, storeRows
  <2> QED
    BY <2>1 DEF FiredOnce, BreakerOncePerDay, NotFiredToday, BreakerActiveToday
<1>4. CASE Fire
  <2> DEFINE r == <<mon.cur, Day(mon.at)>>
  <2>1. /\ mon.pc = "verify" /\ mon'.pc = "breaker"
        /\ breakers' = breakers \/ breakers' = Append(breakers, r)
    BY <1>4 DEF Fire, Evaluated, Typed, MonRecs
  <2>2. r \in Strategies \X Nat /\ breakers \in Seq(Strategies \X Nat)
    BY <2>1, MonFields, DayType DEF Typed, WatchdogTypeOK
  <2>3. \A i \in DOMAIN breakers : breakers[i] # r
    BY <2>1 DEF FiredOnce, NotFiredToday, BreakerActiveToday
  <2> HIDE DEF r
  <2>4. CASE breakers' = Append(breakers, r)
    <3>1. BreakerOncePerDay'
      BY <2>2, <2>3, <2>4, RowFired DEF FiredOnce, BreakerOncePerDay
    <3> QED
      BY <2>1, <3>1 DEF FiredOnce, NotFiredToday
  <2> QED
    BY <2>1, <2>4 DEF FiredOnce, BreakerOncePerDay, NotFiredToday
<1>5. CASE \/ StartTick \/ StartWatch \/ ChooseRung \/ Silence \/ Escalate
           \/ EscalationAlert \/ EscalationAlertOvertaken \/ EndTick
           \/ \E s \in Strategies : WatchOne(s)
  <2>1. breakers' = breakers
    BY <1>5 DEF StartTick, StartWatch, ChooseRung, Silence, Escalate, EscalationAlert,
       EscalationAlertOvertaken, EndTick, WatchOne, storeRows
  <2>2. mon'.pc \notin {"fold", "verify"}
    BY <1>5, NextStatement
  <2> QED
    BY <2>1, <2>2 DEF FiredOnce, BreakerOncePerDay, NotFiredToday
<1> QED
  BY <1>1, <1>2, <1>3, <1>4, <1>5, NextCases DEF MonitorStep

-----------------------------------------------------------------------------
(* The sweeps.                                                             *)

LEMMA AlertsGrow ==
    ASSUME NEW a, AppendAlert(a)
    PROVE  alerts \subseteq alerts'
BY DEF AppendAlert

LEMMA DailyAlerts ==
    ASSUME NEW k, NEW x, AlertDaily(k, x), writeFaults \in Nat
    PROVE  /\ alerts \subseteq alerts'
           /\ writeFaults' = writeFaults => <<k, x, Day(mon.at)>> \in alerts'
BY DEF AlertDaily, AppendAlert

LEMMA SweepStep ==
    ASSUME Typed, SweepOnlyAfterAlert, WatchdogNext
    PROVE  SweepOnlyAfterAlert'
<1>1. writeFaults \in Nat
  BY DEF Typed
<1>2. CASE Silence
  <2>1. /\ alerts \subseteq alerts'
        /\ writeFaults' = writeFaults => <<"silence", mon.cur, Day(mon.at)>> \in alerts'
    BY <1>1, <1>2, DailyAlerts DEF Silence
  <2>2. swept' = swept \/ (swept' = swept \cup {<<mon.cur, Day(mon.at)>>} /\ writeFaults' = writeFaults)
    BY <1>2 DEF Silence
  <2>3. ASSUME NEW d \in swept'
        PROVE  <<"silence", d[1], d[2]>> \in alerts'
    <3>1. CASE d \in swept
      BY <2>1, <3>1 DEF SweepOnlyAfterAlert
    <3>2. CASE d = <<mon.cur, Day(mon.at)>> /\ writeFaults' = writeFaults
      <4>1. d[1] = mon.cur /\ d[2] = Day(mon.at)
        BY <3>2
      <4> QED
        BY <2>1, <3>2, <4>1
    <3> QED
      BY <2>2, <2>3, <3>1, <3>2
  <2> QED
    BY <2>3 DEF SweepOnlyAfterAlert
<1>3. CASE ~Silence
  <2>1. swept' = swept
    BY <1>3, NextCases, OutsideFrame DEF Restart, MonitorStep, StartTick, EvaluateBreakers, Fold, Fire,
       StartWatch, WatchOne, ChooseRung, Escalate, EscalationAlert, EscalationAlertOvertaken, EndTick,
       marksOf
  <2>2. alerts \subseteq alerts'
    <3>1. CASE Outside \/ Restart
      BY <3>1, OutsideFrame DEF Restart, storeRows
    <3>2. CASE StartTick \/ Fold \/ StartWatch \/ ChooseRung \/ Escalate
      BY <3>2 DEF StartTick, Fold, StartWatch, ChooseRung, Escalate, storeRows
    <3>3. CASE \E s \in Strategies : EvaluateBreakers(s)
      BY <1>1, <3>3, DailyAlerts DEF EvaluateBreakers
    <3>4. CASE Fire
      BY <1>1, <3>4, DailyAlerts DEF Fire
    <3>5. CASE \E s \in Strategies : WatchOne(s)
      BY <3>5, AlertsGrow DEF WatchOne, Backfill
    <3>6. CASE EscalationAlert \/ EscalationAlertOvertaken
      BY <3>6, AlertsGrow DEF EscalationAlert, EscalationAlertOvertaken
    <3>7. CASE EndTick
      BY <1>1, <3>7, DailyAlerts DEF EndTick
    <3> QED
      BY <1>3, <3>1, <3>2, <3>3, <3>4, <3>5, <3>6, <3>7, NextCases DEF MonitorStep
  <2> QED
    BY <2>1, <2>2 DEF SweepOnlyAfterAlert
<1> QED
  BY <1>2, <1>3

-----------------------------------------------------------------------------
(* The kills.                                                              *)

\* Nothing is forgotten of the watchdog's own kills as long as it adds none.
LEMMA KilledOnceFrame ==
    ASSUME Typed, KilledOnce, LedgerKept, UNCHANGED byWatchdog,
           \/ mon'.pc # "kill"
           \/ mon.pc = "kill" /\ mon'.cur = mon.cur
           \/ \A e \in byWatchdog : kills[e].scope = mon'.cur => e <= cleared[mon'.cur]
    PROVE  KilledOnce'
<1>1. \A e \in byWatchdog : /\ e \in DOMAIN kills /\ e \in Nat /\ kills'[e] = kills[e]
                            /\ kills[e].scope \in Scopes
                            /\ cleared[kills[e].scope] \in Nat /\ cleared'[kills[e].scope] \in Nat
                            /\ cleared[kills[e].scope] <= cleared'[kills[e].scope]
  <2> SUFFICES ASSUME NEW e \in byWatchdog
               PROVE  /\ e \in DOMAIN kills /\ e \in Nat /\ kills'[e] = kills[e]
                      /\ kills[e].scope \in Scopes
                      /\ cleared[kills[e].scope] \in Nat /\ cleared'[kills[e].scope] \in Nat
                      /\ cleared[kills[e].scope] <= cleared'[kills[e].scope]
    OBVIOUS
  <2>1. e \in DOMAIN kills /\ kills \in Seq(KillRow) /\ cleared \in [Scopes -> Nat]
    BY DEF Typed, WatchdogTypeOK, LedgerTypeOK
  <2>2. e \in Nat /\ kills[e] \in KillRow
    BY <2>1
  <2>3. kills[e].scope \in Scopes
    BY <2>2 DEF KillRow
  <2> QED
    BY <2>1, <2>2, <2>3 DEF LedgerKept, LedgerTypeOK
<1>2. OwnKillsCleared'
  BY <1>1 DEF KilledOnce, OwnKillsCleared
<1>3. KillsSettled'
  <2> SUFFICES ASSUME mon'.pc = "kill", NEW e \in byWatchdog, kills[e].scope = mon'.cur
               PROVE  e <= cleared'[mon'.cur]
    BY <1>1 DEF KillsSettled
  <2>1. e <= cleared[mon'.cur]
    BY DEF KilledOnce, KillsSettled
  <2> QED
    BY <1>1, <2>1
<1> QED
  BY <1>2, <1>3 DEF KilledOnce

LEMMA KilledOnceStep ==
    ASSUME Typed, KilledOnce, WatchdogNext
    PROVE  KilledOnce'
<1>1. LedgerTypeOK
  BY DEF Typed, WatchdogTypeOK
<1>2. CASE Outside
  BY <1>1, <1>2, LedgerStep, OutsideFrame, KilledOnceFrame
<1>3. CASE Restart
  <2>1. LedgerKept /\ byWatchdog' = byWatchdog /\ mon'.pc = "idle"
    BY <1>1, <1>3, LedgerSame DEF Restart, IdleTick, storeRows
  <2> QED
    BY <2>1, KilledOnceFrame
<1>4. CASE ChooseRung
  <2>1. LedgerKept /\ byWatchdog' = byWatchdog
    BY <1>1, <1>4, LedgerSame DEF ChooseRung, MonitorOnly, storeRows
  <2>2. mon.cur \in Strategies /\ mon'.cur = mon.cur /\ mon'.pc = Rung
    BY <1>4 DEF ChooseRung, Typed, MonRecs
  <2>3. ASSUME mon'.pc = "kill", NEW e \in byWatchdog, kills[e].scope = mon.cur
        PROVE  e <= cleared[mon.cur]
    <3>1. ~ActiveKill(mon.cur)
      BY <2>2, <2>3 DEF Rung
    <3>2. e \in DOMAIN kills /\ e \in Nat /\ cleared[mon.cur] \in Nat
      BY <2>2 DEF Typed, WatchdogTypeOK, LedgerTypeOK, Scopes
    <3> QED
      BY <2>3, <3>1, <3>2 DEF ActiveKill, Binds, Binding, Uncleared
  <2> QED
    BY <2>1, <2>2, <2>3, KilledOnceFrame
<1>5. CASE Escalate
  <2>1. mon.pc = "kill" /\ mon.cur \in Strategies /\ mon.cur \in Scopes
    BY <1>5 DEF Escalate, Typed, Scopes
  <2>2. mon'.pc \in {"alert", "watch"}
    BY <1>5 DEF Escalate, Watched, Typed, MonRecs
  <2>3. CASE AppendKill(mon.cur, FALSE) /\ byWatchdog' = byWatchdog \cup {Len(kills) + 1}
    <3> DEFINE new == Len(kills) + 1
    <3>1. /\ \A e \in DOMAIN kills : kills'[e] = kills[e]
          /\ kills'[new].scope = mon.cur /\ cleared' = cleared
      BY <1>1, <2>1, <2>3, KillRecorded DEF LedgerKept
    <3>2. \A e \in byWatchdog : e \in DOMAIN kills /\ e \in Nat /\ e < new
      BY DEF Typed, WatchdogTypeOK, LedgerTypeOK
    <3>3. ASSUME NEW e \in byWatchdog', NEW f \in byWatchdog', e < f,
                 kills'[e].scope = kills'[f].scope
          PROVE  e <= cleared'[kills'[e].scope]
      <4>1. new \in Nat
        BY <1>1 DEF LedgerTypeOK
      <4>2. e \in byWatchdog
        BY <2>3, <3>2, <3>3, <4>1
      <4>3. CASE f \in byWatchdog
        BY <3>1, <3>2, <3>3, <4>2, <4>3 DEF KilledOnce, OwnKillsCleared
      <4>4. CASE f = new
        BY <2>1, <3>1, <3>2, <3>3, <4>2, <4>4 DEF KilledOnce, KillsSettled
      <4> QED
        BY <2>3, <3>3, <4>3, <4>4
    <3> QED
      BY <2>2, <3>3 DEF KilledOnce, OwnKillsCleared, KillsSettled
  <2>4. CASE UNCHANGED <<now, ledger, byWatchdog>>
    BY <1>1, <2>2, <2>4, LedgerSame, KilledOnceFrame
  <2> QED
    BY <1>5, <2>3, <2>4 DEF Escalate
<1>6. CASE \/ StartTick \/ Fold \/ Fire \/ StartWatch \/ Silence
           \/ EscalationAlert \/ EscalationAlertOvertaken \/ EndTick
           \/ \E s \in Strategies : EvaluateBreakers(s) \/ WatchOne(s)
  <2>1. UNCHANGED <<now, ledger, byWatchdog>>
    BY <1>6 DEF StartTick, Fold, Fire, StartWatch, Silence, EscalationAlert, MonitorOnly,
       EscalationAlertOvertaken, EndTick, EvaluateBreakers, WatchOne, storeRows
  <2>2. mon'.pc # "kill"
    BY <1>6, NextStatement
  <2> QED
    BY <1>1, <2>1, <2>2, LedgerSame, KilledOnceFrame
<1> QED
  BY <1>2, <1>3, <1>4, <1>5, <1>6, NextCases DEF MonitorStep

-----------------------------------------------------------------------------
(* The silence.                                                            *)

\* Steps after which the maps, and with them what is known of a silence, are the same.
LEMMA FreshFrame ==
    ASSUME Typed, Fresh, UNCHANGED <<now, firstWatched, lastSeen, startedAt, beatAt, liveSince>>,
           mon'.pc \notin {"breaker", "fold", "verify"} =>
              /\ mon.pc \notin {"breaker", "fold", "verify"}
              /\ mon'.watch = mon.watch /\ mon'.todo \subseteq mon.todo,
           mon'.pc \notin {"skip", "kill"}
    PROVE  Fresh'
BY DEF Fresh, WatchKnown, LifeWatched, BaseFresh, KillLate, NoTime

LEMMA FreshOutside ==
    ASSUME Typed, Fresh, Outside
    PROVE  Fresh'
<1>1. mon' = mon /\ UNCHANGED <<firstWatched, startedAt>>
  BY OutsideFrame
<1>2. WatchKnown'
  BY <1>1 DEF Fresh, WatchKnown
<1>3. KillLate'
  BY <1>1 DEF Fresh, KillLate
<1>4. CASE UNCHANGED <<now, lastSeen, beatAt, liveSince>>
  BY <1>1, <1>2, <1>3, <1>4 DEF Fresh, LifeWatched, BaseFresh
<1>5. CASE ClockTick
  BY <1>1, <1>2, <1>3, <1>5 DEF Fresh, LifeWatched, BaseFresh, ClockTick, InTick, hbMaps, marksOf
<1>6. ASSUME NEW s \in Strategies, Beat(s)
      PROVE  Fresh'
  <2>1. /\ lastSeen' = [lastSeen EXCEPT ![s] = Newer(lastSeen[s], now)]
        /\ beatAt' = [beatAt EXCEPT ![s] = now] /\ UNCHANGED <<now, liveSince>>
    BY <1>6 DEF Beat
  <2>2. /\ lastSeen \in [Strategies -> 0..now] /\ beatAt \in [Strategies -> 0..now]
    BY DEF Typed, WatchdogTypeOK
  <2>3. LifeWatched'
    <3> SUFFICES ASSUME NEW r \in Strategies, firstWatched[r] # NoTime
                 PROVE  /\ liveSince[r] <= firstWatched[r]
                        /\ beatAt'[r] <= Newer(lastSeen'[r], Newer(startedAt, firstWatched[r]))
      BY <1>1, <2>1 DEF LifeWatched
    <3>1. CASE r = s
      BY <2>1, <2>2, <3>1, ClockFacts DEF Fresh, LifeWatched, Newer
    <3>2. CASE r # s
      BY <2>1, <2>2, <3>2 DEF Fresh, LifeWatched
    <3> QED
      BY <3>1, <3>2
  <2>4. BaseFresh'
    BY <1>1, <2>1, <2>2 DEF Fresh, BaseFresh, Typed
  <2> QED
    BY <1>2, <1>3, <2>3, <2>4 DEF Fresh
<1>7. ASSUME NEW s \in Strategies, SetLifecycle(s)
      PROVE  Fresh'
  <2>1. UNCHANGED <<now, lastSeen, beatAt>>
    BY <1>7 DEF SetLifecycle, hbMaps
  <2>2. CASE liveSince' = liveSince
    BY <1>4, <2>1, <2>2
  <2>3. CASE ~InTick /\ s \notin mon.watch /\ liveSince' = [liveSince EXCEPT ![s] = now]
    <3>1. firstWatched[s] = NoTime /\ mon.pc = "idle"
      BY <2>3 DEF Fresh, WatchKnown, InTick
    <3>2. LifeWatched'
      BY <1>1, <2>1, <2>3, <3>1 DEF Fresh, LifeWatched, Typed, WatchdogTypeOK
    <3> QED
      BY <1>1, <1>2, <1>3, <3>1, <3>2 DEF Fresh, BaseFresh
  <2> QED
    BY <1>7, <2>2, <2>3 DEF SetLifecycle
<1>8. CASE \/ ReconcileCompletes \/ \E s \in Strategies : MarketMoves(s)
           \/ \E c \in Scopes : OperatorKill(c) \/ OperatorClear(c)
           \/ \E e \in DOMAIN kills : ServeKill(e)
  BY <1>4, <1>8 DEF ReconcileCompletes, MarketMoves, OperatorKill, OperatorClear, ServeKill,
     AppendKill, Observe, AppendKillClear, hbMaps, marksOf
<1> QED
  BY <1>5, <1>6, <1>7, <1>8 DEF Outside

LEMMA FreshMonitor ==
    ASSUME Typed, Fresh, MonitorStep
    PROVE  Fresh'
<1>1. mon \in MonRecs
  BY DEF Typed
<1>2. CASE StartTick \/ Fold \/ Fire \/ \E s \in Strategies : EvaluateBreakers(s)
  <2>1. UNCHANGED <<now, firstWatched, lastSeen, startedAt, beatAt, liveSince>>
    BY <1>2 DEF StartTick, Fold, Fire, EvaluateBreakers, MonitorOnly
  <2>2. mon'.pc \in {"breaker", "fold", "verify"}
    BY <1>2, NextStatement
  <2> QED
    BY <2>1, <2>2, FreshFrame
<1>3. CASE Silence \/ EscalationAlert \/ EscalationAlertOvertaken \/ EndTick \/ Escalate
  <2>1. UNCHANGED <<now, firstWatched, lastSeen, startedAt, beatAt, liveSince>>
    BY <1>3 DEF Silence, EscalationAlert, EscalationAlertOvertaken, EndTick, Escalate, MonitorOnly,
       AppendKill, hbMaps, marksOf
  <2>2. mon'.pc \in {"watch", "alert", "idle"} /\ mon.pc \in {"silence", "alert", "watch", "kill"}
    BY <1>3, NextStatement DEF Silence, EscalationAlert, EscalationAlertOvertaken, EndTick, Escalate
  <2>3. mon'.watch = mon.watch /\ mon'.todo \subseteq mon.todo
    <3>1. CASE EndTick
      BY <3>1 DEF EndTick, IdleTick
    <3>2. CASE ~EndTick
      BY <1>1, <1>3, <3>2 DEF MonRecs, Silence, EscalationAlert, EscalationAlertOvertaken, Escalate,
         Watched
    <3> QED
      BY <3>1, <3>2
  <2> QED
    BY <2>1, <2>2, <2>3, FreshFrame
<1>4. CASE StartWatch
  <2>1. /\ UNCHANGED <<now, startedAt, beatAt, liveSince>> /\ Prune(mon.watch)
        /\ mon' = [mon EXCEPT !.pc = "watch", !.todo = mon.watch]
    BY <1>4 DEF StartWatch, MonitorOnly
  <2>2. mon'.pc = "watch" /\ mon'.watch = mon.watch /\ mon'.todo = mon.watch
    BY <1>1, <2>1 DEF MonRecs
  <2>3. \A s \in Strategies :
          /\ firstWatched'[s] = IF s \in mon.watch THEN firstWatched[s] ELSE NoTime
          /\ s \in mon.watch => lastSeen'[s] = lastSeen[s]
    BY <2>1 DEF Prune
  <2>4. WatchKnown' /\ LifeWatched'
    BY <2>1, <2>2, <2>3 DEF Fresh, WatchKnown, LifeWatched
  <2> QED
    BY <2>2, <2>4 DEF Fresh, BaseFresh, KillLate
<1>5. ASSUME NEW s \in Strategies, WatchOne(s)
      PROVE  Fresh'
  <2>1. /\ mon.pc = "watch" /\ s \in mon.todo /\ Observation(s)
        /\ UNCHANGED <<now, startedAt, beatAt, liveSince>>
    BY <1>5 DEF WatchOne, MonitorOnly
  <2>2. mon.at = now
    BY <2>1 DEF Typed, WatchdogTypeOK, InTick
  <2>3. CASE firstWatched[s] = NoTime
    <3>1. /\ firstWatched' = [firstWatched EXCEPT ![s] = now]
          /\ lastSeen' = [lastSeen EXCEPT ![s] = NoTime]
          /\ mon' = [mon EXCEPT !.pc = "skip", !.cur = s, !.todo = @ \ {s},
                                !.base = Newer(startedAt, mon.at)]
      BY <2>1, <2>2, <2>3 DEF Observation
    <3>2. /\ mon'.pc = "skip" /\ mon'.cur = s
          /\ mon'.watch = mon.watch /\ mon'.todo = mon.todo \ {s}
          /\ mon'.base = Newer(startedAt, mon.at)
      BY <1>1, <3>1 DEF MonRecs
    <3>3. Newer(startedAt, mon.at) = now
      BY <2>2, ClockFacts DEF Newer
    <3>4. s \in mon.watch
      BY <2>1 DEF Fresh, WatchKnown
    <3>5. WatchKnown'
      BY <2>1, <3>1, <3>2, <3>4 DEF Fresh, WatchKnown, Typed, WatchdogTypeOK
    <3>6. LifeWatched'
      <4> SUFFICES ASSUME NEW r \in Strategies, firstWatched'[r] # NoTime
                   PROVE  /\ liveSince[r] <= firstWatched'[r]
                          /\ beatAt[r] <= Newer(lastSeen'[r], Newer(startedAt, firstWatched'[r]))
        BY <2>1 DEF LifeWatched
      <4>1. CASE r = s
        <5>1. firstWatched'[r] = now /\ lastSeen'[r] = NoTime
          BY <3>1, <4>1 DEF Typed, WatchdogTypeOK
        <5> QED
          BY <5>1, ClockFacts DEF Newer, NoTime
      <4>2. CASE r # s
        BY <3>1, <4>2 DEF Fresh, LifeWatched, Typed, WatchdogTypeOK
      <4> QED
        BY <4>1, <4>2
    <3>7. BaseFresh' /\ KillLate'
      BY <2>1, <3>2, <3>3, ClockFacts DEF BaseFresh, KillLate
    <3> QED
      BY <3>5, <3>6, <3>7 DEF Fresh
  <2>4. CASE firstWatched[s] # NoTime
    <3> DEFINE base == Newer(lastSeen[s], Newer(startedAt, firstWatched[s]))
    <3>1. /\ UNCHANGED <<firstWatched, lastSeen>>
          /\ mon' = [mon EXCEPT !.pc = "skip", !.cur = s, !.todo = @ \ {s}, !.base = base]
      BY <2>1, <2>4 DEF Observation
    <3>2. startedAt <= base /\ liveSince[s] <= base /\ beatAt[s] <= base
      BY <2>4, ClockFacts DEF Fresh, LifeWatched, Newer
    <3> HIDE DEF base
    <3>3. /\ mon'.pc = "skip" /\ mon'.cur = s /\ mon'.base = base
          /\ mon'.watch = mon.watch /\ mon'.todo = mon.todo \ {s}
      BY <1>1, <3>1 DEF MonRecs
    <3> QED
      BY <2>1, <3>1, <3>2, <3>3 DEF Fresh, WatchKnown, LifeWatched, BaseFresh, KillLate
  <2> QED
    BY <2>3, <2>4
<1>6. CASE ChooseRung
  <2>1. /\ UNCHANGED <<now, firstWatched, lastSeen, startedAt, beatAt, liveSince>>
        /\ mon.pc = "skip" /\ mon' = [mon EXCEPT !.pc = Rung]
    BY <1>6 DEF ChooseRung, MonitorOnly
  <2>2. /\ mon'.pc = Rung /\ mon'.watch = mon.watch /\ mon'.todo = mon.todo /\ mon'.cur = mon.cur
        /\ mon'.at = mon.at /\ mon'.base = mon.base
    BY <1>1, <2>1 DEF MonRecs
  <2>3. KillLate'
    <3>1. ASSUME Rung = "kill" PROVE Age > QuietLimit
      <4>1. Age \in Nat /\ QuietLimit \in Nat
        BY <2>1, ClockFacts, WatchdogAssumption DEF Age, Typed, WatchdogTypeOK, InTick
      <4>2. ~(Age <= QuietLimit)
        BY <3>1 DEF Rung
      <4> QED
        BY <4>1, <4>2
    <3> QED
      BY <2>2, <3>1 DEF KillLate, Age
  <2>4. WatchKnown' /\ LifeWatched' /\ BaseFresh'
    BY <2>1, <2>2 DEF Fresh, WatchKnown, LifeWatched, BaseFresh
  <2> QED
    BY <2>3, <2>4 DEF Fresh
<1> QED
  BY <1>2, <1>3, <1>4, <1>5, <1>6 DEF MonitorStep

LEMMA FreshRestart ==
    ASSUME Restart
    PROVE  Fresh'
<1>1. /\ mon'.pc = "idle" /\ mon'.todo = {}
      /\ \A s \in Strategies : firstWatched'[s] = NoTime
  BY DEF Restart, IdleTick
<1> QED
  BY <1>1 DEF Fresh, WatchKnown, LifeWatched, BaseFresh, KillLate

-----------------------------------------------------------------------------
(* The invariant and what it is for.                                       *)

LEMMA WatchdogInvInit == WatchdogInit => WatchdogInv
<1> SUFFICES ASSUME WatchdogInit PROVE WatchdogInv
  OBVIOUS
<1>1. Typed
  BY TypedInit
<1>2. mon.pc = "idle" /\ mon.todo = {}
  BY DEF WatchdogInit, IdleTick
<1>3. FiredOnce
  BY <1>2 DEF FiredOnce, BreakerOncePerDay, NotFiredToday, WatchdogInit
<1>4. SweepOnlyAfterAlert /\ KilledOnce
  BY <1>2 DEF SweepOnlyAfterAlert, KilledOnce, OwnKillsCleared, KillsSettled, WatchdogInit
<1>5. Fresh
  BY <1>2 DEF Fresh, WatchKnown, LifeWatched, BaseFresh, KillLate, WatchdogInit
<1> QED
  BY <1>1, <1>3, <1>4, <1>5 DEF WatchdogInv

LEMMA WatchdogInvStep == WatchdogInv /\ [WatchdogNext]_watchdogVars => WatchdogInv'
<1> SUFFICES ASSUME WatchdogInv, [WatchdogNext]_watchdogVars PROVE WatchdogInv'
  OBVIOUS
<1>1. CASE WatchdogNext
  <2>1. Typed /\ FiredOnce /\ SweepOnlyAfterAlert /\ KilledOnce /\ Fresh
    BY DEF WatchdogInv
  <2>2. Typed' /\ Fresh'
    BY <1>1, <2>1, NextCases, TypedOutside, TypedRestart, TypedMonitor, FreshOutside, FreshRestart,
       FreshMonitor
  <2>3. FiredOnce' /\ SweepOnlyAfterAlert' /\ KilledOnce'
    BY <1>1, <2>1, FiredOnceStep, SweepStep, KilledOnceStep
  <2> QED
    BY <2>2, <2>3 DEF WatchdogInv
<1>2. CASE UNCHANGED watchdogVars
  <2>1. UNCHANGED <<now, kills, cleared, observed, done, superseded, lifecycle, naked, losing, unmarked,
                    breakers, byWatchdog, alerts, reconciled>>
    BY <1>2 DEF watchdogVars, ledger, world, storeRows
  <2>2. UNCHANGED <<startedAt, lastSeen, firstWatched, mon, writeFaults, beatAt, liveSince, swept>>
    BY <1>2 DEF watchdogVars, hbMaps, marksOf
  <2>3. Typed'
    BY <2>1, <2>2 DEF WatchdogInv, Typed, WatchdogTypeOK, LedgerTypeOK, InTick
  <2>4. FiredOnce' /\ SweepOnlyAfterAlert' /\ KilledOnce'
    BY <2>1, <2>2 DEF WatchdogInv, FiredOnce, BreakerOncePerDay, NotFiredToday, BreakerActiveToday,
       SweepOnlyAfterAlert, KilledOnce, OwnKillsCleared, KillsSettled
  <2>5. Fresh'
    BY <2>1, <2>2 DEF WatchdogInv, Fresh, WatchKnown, LifeWatched, BaseFresh, KillLate
  <2> QED
    BY <2>3, <2>4, <2>5 DEF WatchdogInv
<1> QED
  BY <1>1, <1>2

\* What a decision of the monitor means when it is acted on, and what its memory holds,
\* in every state: the inductive invariant (monitor.go, heartbeat.go).
THEOREM WatchdogInvariant == WatchdogSpec => []WatchdogInv
BY WatchdogInvInit, WatchdogInvStep, PTL DEF WatchdogSpec

\* Type correctness of the monitor and of the tables it writes.
THEOREM WatchdogTyped == WatchdogSpec => []WatchdogTypeOK
<1>1. WatchdogInv => WatchdogTypeOK
  BY DEF WatchdogInv, Typed
<1> QED
  BY <1>1, WatchdogInvariant, PTL

\* No restart, failed write, operator or second tick makes the monitor kill again a
\* strategy whose watchdog kill stands, sweep without its durable alert, or fire a
\* breaker twice a day (watchOne, rungOneSilence, fire).
THEOREM EffectsHappenOnce == WatchdogSpec => []EffectsOnce
<1>1. ASSUME WatchdogInv PROVE WatchdogNeverStacksOwnKills
  <2> SUFFICES ASSUME NEW e \in byWatchdog, NEW f \in byWatchdog, e < f,
                      kills[e].scope = kills[f].scope
               PROVE  \E m \in e..Len(kills) : cleared[kills[e].scope] >= m
    BY DEF WatchdogNeverStacksOwnKills
  <2>1. e \in 1..Len(kills) /\ Len(kills) \in Nat
    BY <1>1 DEF WatchdogInv, Typed, WatchdogTypeOK, LedgerTypeOK
  <2>2. e <= cleared[kills[e].scope]
    BY <1>1 DEF WatchdogInv, KilledOnce, OwnKillsCleared
  <2>3. kills[e] \in KillRow
    BY <1>1, <2>1 DEF WatchdogInv, Typed, WatchdogTypeOK, LedgerTypeOK
  <2>4. cleared[kills[e].scope] \in Nat
    BY <1>1, <2>3 DEF WatchdogInv, Typed, WatchdogTypeOK, LedgerTypeOK, KillRow
  <2> QED
    BY <2>1, <2>2, <2>4
<1>2. WatchdogInv => EffectsOnce
  BY <1>1 DEF WatchdogInv, FiredOnce, EffectsOnce
<1> QED
  BY <1>2, WatchdogInvariant, PTL

\* A kill for silence rests on the strategy's present life, and a breaker row on
\* fresh marks, whatever heartbeat, promotion, restart or price feed falls between
\* the statements of a tick (silenceAge, escalateSilence, evalBook).
THEOREM EvidenceIsFresh == WatchdogSpec => ActsOnFreshEvidence
<1>1. ASSUME WatchdogInv, WatchdogNext, NEW s \in Strategies,
             byWatchdog' # byWatchdog, kills'[Len(kills')].scope = s
      PROVE  /\ now - Newer(startedAt, liveSince[s]) > QuietLimit
             /\ beatAt[s] = now \/ now - beatAt[s] > QuietLimit
  <2>1. Escalate
    BY <1>1, NextCases, OutsideFrame DEF Restart, MonitorStep, StartTick, EvaluateBreakers, Fold, Fire,
       StartWatch, WatchOne, ChooseRung, Silence, EscalationAlert, EscalationAlertOvertaken, EndTick,
       storeRows
  <2>2. mon.pc = "kill" /\ AppendKill(mon.cur, FALSE)
    BY <1>1, <2>1 DEF Escalate
  <2>3. Typed /\ mon.cur \in Strategies /\ mon.cur \in Scopes /\ LedgerTypeOK
    BY <1>1, <2>2 DEF WatchdogInv, Typed, WatchdogTypeOK, Scopes
  <2>4. mon.cur = s
    BY <1>1, <2>2, <2>3, KillRecorded
  <2>5. /\ mon.at = now /\ mon.at - mon.base > QuietLimit /\ mon.base <= now
        /\ startedAt <= mon.base /\ liveSince[s] <= mon.base
        /\ beatAt[s] <= mon.base \/ beatAt[s] = now
    BY <1>1, <2>2, <2>4
       DEF WatchdogInv, Typed, WatchdogTypeOK, InTick, Fresh, BaseFresh, KillLate
  <2> QED
    BY <2>3, <2>5, ClockFacts, WatchdogAssumption DEF Newer
<1>2. ASSUME WatchdogInv, WatchdogNext, NEW s \in unmarked, Len(breakers') > Len(breakers)
      PROVE  breakers'[Len(breakers')][1] # s
  <2>1. Len(breakers) \in Nat
    BY <1>2 DEF WatchdogInv, Typed, WatchdogTypeOK
  <2>2. breakers' # breakers
    BY <1>2, <2>1
  <2>3. Fire
    BY <1>2, <2>2, NextCases, OutsideFrame DEF Restart, MonitorStep, StartTick, EvaluateBreakers, Fold,
       Escalate, StartWatch, WatchOne, ChooseRung, Silence, EscalationAlert,
       EscalationAlertOvertaken, EndTick, storeRows
  <2> DEFINE r == <<mon.cur, Day(mon.at)>>
  <2>4. mon.pc = "verify" /\ mon.cur \notin unmarked /\ breakers' = Append(breakers, r)
    BY <2>2, <2>3 DEF Fire
  <2>5. r \in Strategies \X Nat /\ breakers \in Seq(Strategies \X Nat)
    BY <1>2, <2>4, MonFields, DayType DEF WatchdogInv, Typed, WatchdogTypeOK
  <2>6. r[1] = mon.cur
    OBVIOUS
  <2> HIDE DEF r
  <2>7. breakers'[Len(breakers')] = r
    BY <2>4, <2>5, RowFired
  <2> QED
    BY <2>4, <2>6, <2>7
<1>3. WatchdogInv /\ [WatchdogNext]_watchdogVars =>
        [\A s \in Strategies :
            byWatchdog' # byWatchdog /\ kills'[Len(kills')].scope = s
              => /\ now - Newer(startedAt, liveSince[s]) > QuietLimit
                 /\ beatAt[s] = now \/ now - beatAt[s] > QuietLimit]_watchdogVars
  BY <1>1
<1>4. WatchdogInv /\ [WatchdogNext]_watchdogVars =>
        [\A s \in unmarked : Len(breakers') > Len(breakers) => breakers'[Len(breakers')][1] # s
           ]_watchdogVars
  BY <1>2
<1> QED
  BY <1>3, <1>4, WatchdogInvariant, PTL
     DEF WatchdogSpec, ActsOnFreshEvidence, NeverOnStaleSilence, BreakerOnFreshMarks

-----------------------------------------------------------------------------
(* The alert notifier.                                                     *)

\* Serials were handed out and are used once, over all tables.
SerialsOnce ==
    /\ \A src \in Sources : \A i \in DOMAIN table[src] : table[src][i] <= serial
    /\ \A x \in got : x <= serial
    /\ \A s1, s2 \in Sources : \A i \in DOMAIN table[s1], j \in DOMAIN table[s2] :
          table[s1][i] = table[s2][j] => s1 = s2 /\ i = j

\* What is left of the loaded batch starts just above the watermark.
BatchAtMark ==
    /\ ~up => step = "load"
    /\ step # "load" => /\ at \in Sources
                        /\ batch.from = mark[at] + 1
                        /\ batch.from <= batch.to /\ batch.to <= Len(table[at])

\* The watermark is about to pass only a row that was accepted.
AdvanceOfAccepted == step = "advance" => CurrentRow(at) \in got

\* The count kept in memory never runs ahead of the receiver's own, and lives in the
\* process that counted it: it names a row of the table, not only a rowid.
RefusalsCounted ==
    \A src \in Sources : poison[src].row # NoRow =>
        /\ up /\ poison[src].row \in DOMAIN table[src]
        /\ poison[src].count <= refused[table[src][poison[src].row]]

\* The row about to be skipped has been refused often enough.
SkipOfRefused == step = "skip" => refused[CurrentRow(at)] >= PoisonAfter

DispatchInv ==
    /\ DispatchTypeOK
    /\ SerialsOnce
    /\ BatchAtMark
    /\ AdvanceOfAccepted
    /\ RefusalsCounted
    /\ SkipOfRefused
    /\ NoneBelowMarkLost
    /\ AcceptedInOrder

-----------------------------------------------------------------------------
(* Sequences.                                                              *)

LEMMA FrontOfSeq ==
    ASSUME NEW S, NEW q \in Seq(S), NEW n \in 0..Len(q)
    PROVE  /\ [i \in 1..n |-> q[i]] \in Seq(S)
           /\ Len([i \in 1..n |-> q[i]]) = n
<1>1. /\ Len(q) \in Nat
      /\ \A i \in 1..Len(q) : q[i] \in S
  BY ElementOfSeq, LenProperties
<1>2. \A i \in 1..n : q[i] \in S
  BY <1>1
<1>3. QED
  BY <1>1, <1>2, IsASeq, LenProperties

LEMMA Bounds ==
    /\ NumSources \in Nat \ {0} /\ MaxPerTick \in Nat \ {0} /\ PoisonAfter \in Nat \ {0}
    /\ DegradeAfter \in Nat \ {0} /\ MaxSerial \in Nat /\ MaxDrop \in Nat /\ MaxDown \in Nat
BY DispatchAssumption

-----------------------------------------------------------------------------
(* Type correctness.                                                       *)

LEMMA TypeInit == DispatchInit => DispatchTypeOK
<1>1. <<>> \in Seq(Serials) /\ Unseeded \in Nat \cup {Unseeded}
  BY EmptySeq
<1>2. SUFFICES ASSUME DispatchInit PROVE DispatchTypeOK
  OBVIOUS
<1>3. table \in [Sources -> Seq(Serials)]
  BY <1>1, <1>2 DEF DispatchInit
<1>4. mark \in [Sources -> Nat \cup {Unseeded}] /\ batch \in [from : Nat, to : Nat]
  BY <1>2 DEF DispatchInit, NoBatch
<1>5. poison \in [Sources -> [row : Nat, count : 0..PoisonAfter]]
  BY <1>2, Bounds DEF DispatchInit, NoPoison, NoRow
<1>6. /\ fail \in [Sources \cup {Notifier} -> 0..DegradeAfter]
      /\ refused \in [Serials -> 0..PoisonAfter]
  BY <1>2, Bounds DEF DispatchInit
<1>7. at \in 0..Notifier /\ serial \in 0..MaxSerial /\ drops \in 0..MaxDrop /\ downs \in 0..MaxDown
  BY <1>2, Bounds DEF DispatchInit, Notifier
<1>8. QED
  BY <1>2, <1>3, <1>4, <1>5, <1>6, <1>7 DEF DispatchInit, DispatchTypeOK

LEMMA RefusalType ==
    ASSUME DispatchTypeOK, at \in Sources
    PROVE  RefusalCount \in Nat
BY DEF DispatchTypeOK, RefusalCount

\* Leaving a source keeps the types of the pass.
LEMMA LeaveType ==
    ASSUME at \in Sources, LeaveSource
    PROVE  /\ batch' \in [from : Nat, to : Nat] /\ at' \in 0..Notifier
           /\ step' = "load" /\ ticked' \in BOOLEAN
<1>1. batch' \in [from : Nat, to : Nat]
  BY DEF LeaveSource, NoBatch
<1>2. at' \in 0..Notifier
  BY Bounds DEF LeaveSource, Notifier, Sources
<1>3. step' = "load" /\ ticked' \in BOOLEAN
  BY DEF LeaveSource
<1>4. QED
  BY <1>1, <1>2, <1>3

LEMMA DropType ==
    ASSUME DispatchTypeOK, drops < MaxDrop, drops' = drops + 1
    PROVE  drops' \in 0..MaxDrop
BY Bounds DEF DispatchTypeOK

LEMMA NextRowType ==
    ASSUME DispatchTypeOK, at \in Sources, NEW b \in BOOLEAN, NextRow(b)
    PROVE  /\ batch' \in [from : Nat, to : Nat] /\ step' \in {"load", "deliver"}
           /\ at' \in 0..Notifier /\ ticked' \in BOOLEAN
<1>1. CASE batch.from < batch.to
  BY <1>1 DEF NextRow, DispatchTypeOK
<1>2. CASE ~(batch.from < batch.to)
  <2>1. LeaveSource
    BY <1>2 DEF NextRow
  <2>2. QED
    BY <2>1, LeaveType
<1>3. QED
  BY <1>1, <1>2

LEMMA FailureType ==
    ASSUME DispatchTypeOK, at \in Sources, RecordFailure
    PROVE  fail' \in [Sources \cup {Notifier} -> 0..DegradeAfter]
<1>1. fail[at] \in 0..DegradeAfter
  BY DEF DispatchTypeOK
<1>2. AtMost(fail[at] + 1, DegradeAfter) \in 0..DegradeAfter
  BY <1>1, Bounds DEF AtMost
<1>3. QED
  BY <1>2 DEF RecordFailure, DispatchTypeOK

\* The watermarks of a seeded dispatcher point into their tables.
LEMMA SeededMarkType ==
    ASSUME DispatchTypeOK, NEW src \in Sources
    PROVE  SeededMark(src) \in 0..Len(table[src]) /\ (mark[src] # Unseeded => SeededMark(src) <= mark[src])
<1>1. Len(table[src]) \in Nat
  BY LenProperties DEF DispatchTypeOK
<1>2. QED
  BY <1>1 DEF DispatchTypeOK, SeededMark, Unseeded

\* The row being delivered is a serial.
LEMMA CurrentRowType ==
    ASSUME DispatchTypeOK, BatchAtMark, step # "load"
    PROVE  /\ up /\ at \in Sources /\ batch.from \in DOMAIN table[at]
           /\ CurrentRow(at) \in Serials
           /\ mark[at] \in Nat /\ batch.from = mark[at] + 1
<1>1. up /\ at \in Sources /\ batch.from = mark[at] + 1 /\ batch.from <= Len(table[at])
  <2>1. Len(table[at]) \in Nat /\ batch.from \in Nat /\ batch.to \in Nat
    BY LenProperties DEF DispatchTypeOK, BatchAtMark
  <2>2. QED
    BY <2>1 DEF BatchAtMark, DispatchTypeOK
<1>2. mark[at] \in Nat /\ Len(table[at]) \in Nat
  BY <1>1, LenProperties DEF DispatchTypeOK
<1>3. batch.from \in 1..Len(table[at])
  BY <1>1, <1>2
<1>4. QED
  BY <1>1, <1>2, <1>3, ElementOfSeq, LenProperties DEF DispatchTypeOK, CurrentRow

\* A step keeps the types, given where the batch is.
LEMMA TypeStep ==
    ASSUME DispatchTypeOK, BatchAtMark, DispatchNext
    PROVE  DispatchTypeOK'
<1>1. ASSUME NEW src \in Sources, AppendRow(src) PROVE DispatchTypeOK'
  <2>1. serial + 1 \in Serials
    BY <1>1, Bounds DEF AppendRow, DispatchTypeOK, Serials
  <2>2. /\ table' \in [Sources -> Seq(Serials)]
        /\ \A s \in Sources : Len(table[s]) \in Nat /\ Len(table'[s]) \in {Len(table[s]), Len(table[s]) + 1}
    BY <1>1, <2>1, AppendProperties, LenProperties DEF AppendRow, DispatchTypeOK
  <2>3. serial' \in 0..MaxSerial
    BY <1>1, Bounds DEF AppendRow, DispatchTypeOK
  <2>4. up' => \A s \in Sources : mark'[s] \in 0..Len(table'[s])
    <3>1. up' = up /\ mark' = mark
      BY <1>1 DEF AppendRow
    <3>2. ASSUME up, NEW s \in Sources PROVE mark[s] \in 0..Len(table'[s])
      <4>1. mark[s] \in 0..Len(table[s])
        BY <3>2 DEF DispatchTypeOK
      <4>2. QED
        BY <4>1, <2>2
    <3>3. QED
      BY <3>1, <3>2
  <2>5. QED
    BY <1>1, <2>2, <2>3, <2>4 DEF AppendRow, DispatchTypeOK, memory, ghosts
<1>2. ASSUME HeartbeatFallsDue PROVE DispatchTypeOK'
  BY <1>2 DEF HeartbeatFallsDue, DispatchTypeOK, dispatchEnv, ghosts
<1>3. ASSUME DispatchCrash PROVE DispatchTypeOK'
  <2>1. poison' \in [Sources -> [row : Nat, count : 0..PoisonAfter]]
    BY <1>3, Bounds DEF DispatchCrash, NoPoison, NoRow
  <2>2. fail' \in [Sources \cup {Notifier} -> 0..DegradeAfter]
    BY <1>3, Bounds DEF DispatchCrash
  <2>3. /\ downs' \in 0..MaxDown /\ at' \in 0..Notifier /\ batch' \in [from : Nat, to : Nat]
        /\ refused' \in [Serials -> 0..PoisonAfter]
    BY <1>3, Bounds DEF DispatchCrash, NoBatch, Notifier, DispatchTypeOK
  <2>4. QED
    BY <1>3, <2>1, <2>2, <2>3 DEF DispatchCrash, DispatchTypeOK, ghosts
<1>4. ASSUME RestoreTables PROVE DispatchTypeOK'
  <2>1. PICK src \in Sources, n \in 0..MaxSerial, m \in 0..MaxSerial :
           /\ n < Len(table[src]) /\ m <= mark[src]
           /\ table' = [table EXCEPT ![src] = [i \in 1..n |-> @[i]]]
           /\ mark' = [mark EXCEPT ![src] = m]
    BY <1>4 DEF RestoreTables
  <2>2. table[src] \in Seq(Serials) /\ n \in 0..Len(table[src])
    BY <2>1, LenProperties, Bounds DEF DispatchTypeOK
  <2>3. [i \in 1..n |-> table[src][i]] \in Seq(Serials)
    BY <2>2, FrontOfSeq
  <2>4. table' \in [Sources -> Seq(Serials)] /\ mark' \in [Sources -> Nat \cup {Unseeded}]
    <3>1. table \in [Sources -> Seq(Serials)] /\ mark \in [Sources -> Nat \cup {Unseeded}]
      BY DEF DispatchTypeOK
    <3>2. m \in Nat
      BY Bounds
    <3>3. table' \in [Sources -> Seq(Serials)]
      BY <2>1, <2>3, <3>1, Zenon
    <3>4. QED
      BY <2>1, <3>1, <3>2, <3>3
  <2>5. downs' \in 0..MaxDown
    <3>1. downs < MaxDown /\ downs' = downs + 1 /\ downs \in 0..MaxDown
      BY <1>4 DEF RestoreTables, DispatchTypeOK
    <3>2. QED
      BY <3>1, Bounds
  <2>6. QED
    BY <1>4, <2>4, <2>5 DEF RestoreTables, DispatchTypeOK, memory, ghosts
<1>5. ASSUME Seed PROVE DispatchTypeOK'
  <2>1. \A src \in Sources : mark'[src] = SeededMark(src) /\ SerialsOf(src) \subseteq Serials
    BY <1>5, ElementOfSeq, LenProperties DEF Seed, SerialsOf, DispatchTypeOK
  <2>2. /\ mark' \in [Sources -> Nat \cup {Unseeded}]
        /\ \A src \in Sources : mark'[src] \in 0..Len(table[src])
    <3>1. \A src \in Sources : SeededMark(src) \in Nat /\ SeededMark(src) \in 0..Len(table[src])
      BY SeededMarkType, LenProperties DEF DispatchTypeOK
    <3>2. QED
      BY <1>5, <3>1 DEF Seed
  <2>3. exempt' \subseteq Serials /\ at' \in 0..Notifier
    BY <1>5, <2>1, Bounds DEF Seed, DispatchTypeOK, Notifier
  <2>4. QED
    BY <1>5, <2>2, <2>3 DEF Seed, DispatchTypeOK, dispatchEnv
<1>6. ASSUME RunStep PROVE DispatchTypeOK'
  <2>1. ASSUME StartPass PROVE DispatchTypeOK'
    BY <2>1, Bounds DEF StartPass, DispatchTypeOK, Notifier, dispatchEnv, ghosts
  <2>2. ASSUME LoadBatch PROVE DispatchTypeOK'
    <3>1. at \in Sources /\ mark[at] \in 0..Len(table[at]) /\ Len(table[at]) \in Nat
      BY <2>2, LenProperties DEF LoadBatch, DispatchTypeOK
    <3>2. drops' \in 0..MaxDrop
      BY <2>2, DropType DEF LoadBatch, DispatchTypeOK
    <3>3. /\ batch' \in [from : Nat, to : Nat] /\ at' \in 0..Notifier
          /\ step' \in {"load", "deliver"} /\ ticked' \in BOOLEAN
      <4>1. CASE LeaveSource
        BY <4>1, <3>1, LeaveType
      <4>2. CASE ~LeaveSource
        <5>1. /\ batch' = [from |-> mark[at] + 1,
                           to   |-> AtMost(mark[at] + MaxPerTick, Len(table[at]))]
              /\ step' = "deliver" /\ UNCHANGED <<at, ticked>>
          BY <2>2, <4>2 DEF LoadBatch
        <5>2. mark[at] + 1 \in Nat /\ AtMost(mark[at] + MaxPerTick, Len(table[at])) \in Nat
          BY <3>1, Bounds DEF AtMost
        <5>3. QED
          BY <5>1, <5>2 DEF DispatchTypeOK
      <4>3. QED
        BY <4>1, <4>2
    <3>4. QED
      BY <2>2, <3>2, <3>3 DEF LoadBatch, DispatchTypeOK, ghosts
  <2>3. ASSUME DeliverAccepted PROVE DispatchTypeOK'
    <3>1. CurrentRow(at) \in Serials
      BY <2>3, CurrentRowType DEF DeliverAccepted, Delivering
    <3>2. got' \subseteq Serials
      BY <2>3, <3>1 DEF DeliverAccepted, DispatchTypeOK
    <3>3. QED
      BY <2>3, <3>2 DEF DeliverAccepted, DispatchTypeOK, dispatchEnv
  <2>4. ASSUME DeliverRefused PROVE DispatchTypeOK'
    <3>1. at \in Sources /\ CurrentRow(at) \in Serials /\ RefusalCount \in Nat /\ batch.from \in Nat
      BY <2>4, CurrentRowType, RefusalType DEF DeliverRefused, Delivering, DispatchTypeOK
    <3>2. refused' \in [Serials -> 0..PoisonAfter]
      BY <2>4, <3>1, Bounds DEF DeliverRefused, AtMost, DispatchTypeOK
    <3>3. poison' \in [Sources -> [row : Nat, count : 0..PoisonAfter]]
      <4>1. NoPoison \in [row : Nat, count : 0..PoisonAfter]
        BY Bounds DEF NoPoison, NoRow
      <4>2. RefusalCount < PoisonAfter => [row |-> batch.from, count |-> RefusalCount] \in [row : Nat, count : 0..PoisonAfter]
        BY <3>1, Bounds
      <4>3. \E p \in [row : Nat, count : 0..PoisonAfter] : poison' = [poison EXCEPT ![at] = p]
        BY <2>4, <4>1, <4>2 DEF DeliverRefused
      <4>4. QED
        BY <4>3 DEF DispatchTypeOK
    <3>4. fail' \in [Sources \cup {Notifier} -> 0..DegradeAfter]
      BY <2>4, <3>1, FailureType DEF DeliverRefused, DispatchTypeOK
    <3>5. /\ batch' \in [from : Nat, to : Nat] /\ at' \in 0..Notifier
          /\ step' \in {"load", "skip"} /\ ticked' \in BOOLEAN
      <4>1. CASE LeaveSource
        BY <4>1, <3>1, LeaveType
      <4>2. CASE ~LeaveSource
        BY <2>4, <4>2 DEF DeliverRefused, DispatchTypeOK
      <4>3. QED
        BY <4>1, <4>2
    <3>6. QED
      BY <2>4, <3>2, <3>3, <3>4, <3>5 DEF DeliverRefused, Delivering, DispatchTypeOK, dispatchEnv
  <2>5. ASSUME DeliverFailed PROVE DispatchTypeOK'
    <3>1. at \in Sources /\ CurrentRow(at) \in Serials
      BY <2>5, CurrentRowType DEF DeliverFailed, Delivering
    <3>2. refused' \in [Serials -> 0..PoisonAfter] /\ got' \subseteq Serials
      BY <2>5, <3>1, Bounds DEF DeliverFailed, DispatchTypeOK
    <3>3. poison' \in [Sources -> [row : Nat, count : 0..PoisonAfter]]
      BY <2>5, <3>1, Bounds DEF DeliverFailed, PoisonBrokenByFailure, NoPoison, NoRow, DispatchTypeOK
    <3>4. fail' \in [Sources \cup {Notifier} -> 0..DegradeAfter]
      BY <2>5, <3>1, FailureType DEF DeliverFailed
    <3>5. /\ batch' \in [from : Nat, to : Nat] /\ at' \in 0..Notifier
          /\ step' = "load" /\ ticked' \in BOOLEAN /\ drops' \in 0..MaxDrop
      BY <2>5, <3>1, LeaveType, DropType DEF DeliverFailed, Drop
    <3>6. QED
      BY <2>5, <3>2, <3>3, <3>4, <3>5 DEF DeliverFailed, Delivering, Drop, DispatchTypeOK
  <2>6. ASSUME Advance PROVE DispatchTypeOK'
    <3>1. /\ at \in Sources /\ batch.from \in 1..Len(table[at]) /\ batch.from \in Nat
          /\ CurrentRow(at) \in Serials
      BY <2>6, CurrentRowType, LenProperties DEF Advance, DispatchTypeOK
    <3>2. /\ mark' \in [Sources -> Nat \cup {Unseeded}]
          /\ up /\ \A src \in Sources : mark'[src] \in 0..Len(table[src])
      <4>1. up /\ mark' = [mark EXCEPT ![at] = batch.from]
        BY <2>6 DEF Advance
      <4>2. batch.from \in 0..Len(table[at])
        BY <3>1
      <4>3. QED
        BY <3>1, <4>1, <4>2 DEF DispatchTypeOK
    <3>3. poison' \in [Sources -> [row : Nat, count : 0..PoisonAfter]]
      BY <2>6, <3>1, Bounds DEF Advance, NoPoison, NoRow, DispatchTypeOK
    <3>4. /\ fail' \in [Sources \cup {Notifier} -> 0..DegradeAfter]
          /\ refused' \in [Serials -> 0..PoisonAfter]
      BY <2>6, <3>1, Bounds DEF Advance, DispatchTypeOK
    <3>5. /\ batch' \in [from : Nat, to : Nat] /\ step' \in {"load", "deliver"}
          /\ at' \in 0..Notifier /\ ticked' \in BOOLEAN
      BY <2>6, <3>1, NextRowType DEF Advance, DispatchTypeOK
    <3>6. QED
      BY <2>6, <3>2, <3>3, <3>4, <3>5 DEF Advance, DispatchTypeOK, dispatchEnv, ghosts
  <2>7. ASSUME Skip PROVE DispatchTypeOK'
    <3>1. /\ at \in Sources /\ batch.from \in 1..Len(table[at]) /\ batch.from \in Nat
          /\ CurrentRow(at) \in Serials
      BY <2>7, CurrentRowType, LenProperties DEF Skip, DispatchTypeOK
    <3>2. /\ mark' \in [Sources -> Nat \cup {Unseeded}]
          /\ up /\ \A src \in Sources : mark'[src] \in 0..Len(table[src])
      <4>1. up /\ mark' = [mark EXCEPT ![at] = batch.from]
        BY <2>7 DEF Skip
      <4>2. batch.from \in 0..Len(table[at])
        BY <3>1
      <4>3. QED
        BY <3>1, <4>1, <4>2 DEF DispatchTypeOK
    <3>3. fail' \in [Sources \cup {Notifier} -> 0..DegradeAfter]
      BY <2>7, <3>1, FailureType DEF Skip
    <3>4. /\ batch' \in [from : Nat, to : Nat] /\ step' \in {"load", "deliver"}
          /\ at' \in 0..Notifier /\ ticked' \in BOOLEAN
      BY <2>7, <3>1, NextRowType DEF Skip
    <3>5. QED
      BY <2>7, <3>1, <3>2, <3>3, <3>4 DEF Skip, DispatchTypeOK, dispatchEnv
  <2>8. ASSUME PersistFails PROVE DispatchTypeOK'
    <3>1. /\ batch' \in [from : Nat, to : Nat] /\ at' \in 0..Notifier
          /\ step' = "load" /\ ticked' \in BOOLEAN /\ drops' \in 0..MaxDrop
      BY <2>8, LeaveType, DropType DEF PersistFails, Drop
    <3>2. QED
      BY <2>8, <3>1 DEF PersistFails, Drop, DispatchTypeOK, ghosts
  <2>9. ASSUME Heartbeat PROVE DispatchTypeOK'
    <3>1. fail[Notifier] \in 0..DegradeAfter /\ Notifier \in Nat
      BY Bounds DEF DispatchTypeOK, Notifier
    <3>2. AtMost(fail[Notifier] + 1, DegradeAfter) \in 0..DegradeAfter /\ 0 \in 0..DegradeAfter
      BY <3>1, Bounds DEF AtMost
    <3>3. \/ fail' = fail
          \/ \E n \in 0..DegradeAfter : fail' = [fail EXCEPT ![Notifier] = n]
      BY <2>9, <3>2 DEF Heartbeat
    <3>4. fail' \in [Sources \cup {Notifier} -> 0..DegradeAfter]
      BY <3>3 DEF DispatchTypeOK
    <3>5. drops' \in 0..MaxDrop
      BY <2>9, DropType DEF Heartbeat, DispatchTypeOK
    <3>6. at' \in 0..Notifier
      BY <2>9, <3>1 DEF Heartbeat
    <3>7. hbDue' \in BOOLEAN
      BY <2>9 DEF Heartbeat, DispatchTypeOK
    <3>8. QED
      BY <2>9, <3>4, <3>5, <3>6, <3>7 DEF Heartbeat, DispatchTypeOK, ghosts
  <2>10. QED
    BY <1>6, <2>1, <2>2, <2>3, <2>4, <2>5, <2>6, <2>7, <2>8, <2>9 DEF RunStep
<1>7. QED
  BY <1>1, <1>2, <1>3, <1>4, <1>5, <1>6 DEF DispatchNext

LEMMA TypeStutter ==
    ASSUME DispatchTypeOK, UNCHANGED dispatchVars
    PROVE  DispatchTypeOK'
BY DEF DispatchTypeOK, dispatchVars, memory, dispatchEnv, ghosts

-----------------------------------------------------------------------------
(* What the actions do to the tables, the watermarks and the receiver.     *)

\* An appended row is a new serial at the end of one table.
LEMMA AppendEffect ==
    ASSUME DispatchTypeOK, NEW src \in Sources, AppendRow(src)
    PROVE  /\ serial \in Nat /\ serial' = serial + 1
           /\ Len(table[src]) \in Nat
           /\ table'[src] = Append(table[src], serial + 1)
           /\ Len(table'[src]) = Len(table[src]) + 1
           /\ DOMAIN table'[src] = 1..(Len(table[src]) + 1)
           /\ DOMAIN table[src] = 1..Len(table[src])
           /\ \A i \in DOMAIN table[src] : table'[src][i] = table[src][i]
           /\ table'[src][Len(table[src]) + 1] = serial + 1
           /\ \A s \in Sources \ {src} : table'[s] = table[s]
<1>1. table[src] \in Seq(Serials) /\ serial \in 0..MaxSerial
  BY DEF DispatchTypeOK
<1>2. serial' = serial + 1 /\ serial < MaxSerial
  BY DEF AppendRow
<1>3. serial + 1 \in Serials
  BY <1>1, <1>2, Bounds DEF Serials
<1>4. /\ table'[src] = Append(table[src], serial + 1)
      /\ \A s \in Sources \ {src} : table'[s] = table[s]
  BY DEF AppendRow, DispatchTypeOK
<1>5. QED
  BY <1>1, <1>2, <1>3, <1>4, AppendProperties, LenProperties

\* A restore leaves a front of one table and a lower watermark.
LEMMA RestoreEffect ==
    ASSUME DispatchTypeOK, RestoreTables
    PROVE  \A s \in Sources :
              /\ DOMAIN table'[s] \subseteq DOMAIN table[s]
              /\ \A i \in DOMAIN table'[s] : table'[s][i] = table[s][i] /\ i \in Nat
              /\ mark'[s] <= mark[s] /\ mark[s] \in Int /\ mark'[s] \in Int
<1>1. PICK src \in Sources, n \in 0..MaxSerial, m \in 0..MaxSerial :
         /\ n < Len(table[src]) /\ m <= mark[src]
         /\ table' = [table EXCEPT ![src] = [i \in 1..n |-> @[i]]]
         /\ mark' = [mark EXCEPT ![src] = m]
  BY DEF RestoreTables
<1>2. /\ table \in [Sources -> Seq(Serials)] /\ mark \in [Sources -> Int]
      /\ \A s \in Sources : Len(table[s]) \in Nat /\ DOMAIN table[s] = 1..Len(table[s])
  BY LenProperties DEF DispatchTypeOK, Unseeded
<1>3. m \in Int /\ n \in Nat
  BY Bounds
<1>4. /\ table'[src] = [i \in 1..n |-> table[src][i]]
      /\ \A s \in Sources \ {src} : table'[s] = table[s]
      /\ mark'[src] = m /\ \A s \in Sources \ {src} : mark'[s] = mark[s]
  BY <1>1, <1>2
<1>5. QED
  BY <1>1, <1>2, <1>3, <1>4

\* Only these steps touch the tables, the serials or what the receiver has.
LEMMA QuietSteps ==
    ASSUME DispatchNext,
           \A src \in Sources : ~AppendRow(src),
           ~RestoreTables, ~DeliverAccepted, ~DeliverFailed
    PROVE  UNCHANGED <<table, serial, got>>
BY DEF DispatchNext, RunStep, HeartbeatFallsDue, DispatchCrash, Seed, StartPass, LoadBatch,
       DeliverRefused, Advance, Skip, PersistFails, Heartbeat, Drop, ghosts, dispatchEnv

-----------------------------------------------------------------------------
(* The parts of the inductive invariant.                                   *)

LEMMA SerialsStep ==
    ASSUME DispatchTypeOK, SerialsOnce, BatchAtMark, DispatchNext
    PROVE  SerialsOnce'
<1>1. ASSUME NEW src \in Sources, AppendRow(src) PROVE SerialsOnce'
  <2>1. got' = got
    BY <1>1 DEF AppendRow, ghosts
  <2>2. \A s \in Sources : \A i \in DOMAIN table[s] : table[s][i] \in Nat
    <3>1. ASSUME NEW s \in Sources, NEW i \in DOMAIN table[s] PROVE table[s][i] \in Nat
      <4>1. table[s] \in Seq(Serials)
        BY <3>1 DEF DispatchTypeOK
      <4>2. table[s][i] \in Serials
        BY <3>1, <4>1, ElementOfSeq, LenProperties
      <4>3. QED
        BY <4>2, Bounds DEF Serials
    <3>2. QED
      BY <3>1
  <2>3. \A x \in got : x \in Nat
    BY Bounds DEF DispatchTypeOK, Serials
  <2>4. \A s \in Sources : \A i \in DOMAIN table'[s] :
            \/ i \in DOMAIN table[s] /\ table'[s][i] = table[s][i]
            \/ s = src /\ i = Len(table[src]) + 1 /\ table'[s][i] = serial + 1
    BY <1>1, AppendEffect
  <2>5. \A s \in Sources : \A i \in DOMAIN table[s] : table[s][i] < serial + 1
    BY <1>1, <2>2, AppendEffect DEF SerialsOnce
  <2>6. \A s \in Sources : \A i \in DOMAIN table'[s] : table'[s][i] <= serial'
    BY <1>1, <2>2, <2>4, <2>5, AppendEffect
  <2>7. \A x \in got' : x <= serial'
    BY <1>1, <2>1, <2>3, AppendEffect DEF SerialsOnce
  <2>8. ASSUME NEW s1 \in Sources, NEW s2 \in Sources, NEW i \in DOMAIN table'[s1],
               NEW j \in DOMAIN table'[s2], table'[s1][i] = table'[s2][j]
        PROVE  s1 = s2 /\ i = j
    <3>1. CASE i \in DOMAIN table[s1] /\ table'[s1][i] = table[s1][i]
      <4>1. CASE j \in DOMAIN table[s2] /\ table'[s2][j] = table[s2][j]
        <5>1. table[s1][i] = table[s2][j] /\ i \in DOMAIN table[s1] /\ j \in DOMAIN table[s2]
          BY <2>8, <3>1, <4>1
        <5>2. QED
          BY <5>1 DEF SerialsOnce
      <4>2. CASE table'[s2][j] = serial + 1
        <5>1. table[s1][i] = serial + 1 /\ table[s1][i] < serial + 1 /\ table[s1][i] \in Nat
          BY <2>2, <2>5, <2>8, <3>1, <4>2
        <5>2. serial \in Nat
          BY <1>1, AppendEffect
        <5>3. QED
          BY <5>1, <5>2
      <4>3. QED
        BY <2>4, <4>1, <4>2
    <3>2. CASE s1 = src /\ i = Len(table[src]) + 1 /\ table'[s1][i] = serial + 1
      <4>1. CASE j \in DOMAIN table[s2] /\ table'[s2][j] = table[s2][j]
        BY <1>1, <2>2, <2>5, <2>8, <3>2, <4>1, AppendEffect
      <4>2. CASE s2 = src /\ j = Len(table[src]) + 1
        BY <3>2, <4>2
      <4>3. QED
        BY <2>4, <4>1, <4>2
    <3>3. QED
      BY <2>4, <3>1, <3>2
  <2>9. QED
    BY <2>6, <2>7, <2>8 DEF SerialsOnce
<1>2. ASSUME RestoreTables PROVE SerialsOnce'
  <2>1. serial' = serial /\ got' = got
    BY <1>2 DEF RestoreTables, ghosts
  <2>2. QED
    BY <1>2, <2>1, RestoreEffect DEF SerialsOnce
<1>3. ASSUME DeliverAccepted \/ DeliverFailed PROVE SerialsOnce'
  <2>1. UNCHANGED <<table, serial>> /\ got' \subseteq got \cup {CurrentRow(at)}
    BY <1>3 DEF DeliverAccepted, DeliverFailed, Drop, dispatchEnv
  <2>2. at \in Sources /\ batch.from \in DOMAIN table[at]
    BY <1>3, CurrentRowType DEF DeliverAccepted, DeliverFailed, Delivering
  <2>3. CurrentRow(at) <= serial
    BY <2>2 DEF SerialsOnce, CurrentRow
  <2>4. QED
    BY <2>1, <2>3 DEF SerialsOnce
<1>4. QED
  BY <1>1, <1>2, <1>3, QuietSteps DEF SerialsOnce

LEMMA NextRowBatch ==
    ASSUME DispatchTypeOK, BatchAtMark, step # "load", NEW b \in BOOLEAN, NextRow(b),
           table' = table, up' = up, mark' = [mark EXCEPT ![at] = batch.from]
    PROVE  BatchAtMark' /\ step' \in {"load", "deliver"}
<1>1. up /\ at \in Sources /\ batch.from \in Nat /\ batch.to \in Nat /\ batch.to <= Len(table[at])
  BY CurrentRowType DEF DispatchTypeOK, BatchAtMark
<1>2. CASE batch.from < batch.to
  <2>1. /\ batch' = [batch EXCEPT !.from = @ + 1] /\ step' = "deliver" /\ at' = at
    BY <1>2 DEF NextRow
  <2>2. batch'.from = batch.from + 1 /\ batch'.to = batch.to /\ mark'[at] = batch.from
    BY <1>1, <2>1 DEF DispatchTypeOK
  <2>3. batch'.from <= batch'.to
    BY <1>1, <1>2, <2>2
  <2>4. QED
    BY <1>1, <2>1, <2>2, <2>3 DEF BatchAtMark
<1>3. CASE ~(batch.from < batch.to)
  BY <1>3 DEF NextRow, LeaveSource, BatchAtMark
<1>4. QED
  BY <1>2, <1>3

LEMMA BatchStep ==
    ASSUME DispatchTypeOK, BatchAtMark, DispatchNext
    PROVE  BatchAtMark'
<1>1. ASSUME NEW src \in Sources, AppendRow(src) PROVE BatchAtMark'
  <2>1. UNCHANGED <<up, at, batch, step, mark>>
    BY <1>1 DEF AppendRow, memory
  <2>2. \A s \in Sources : Len(table[s]) \in Nat /\ Len(table[s]) <= Len(table'[s]) /\ Len(table'[s]) \in Nat
    <3>1. \A s \in Sources : Len(table[s]) \in Nat
      BY LenProperties DEF DispatchTypeOK
    <3>2. QED
      BY <1>1, <3>1, AppendEffect
  <2>3. batch.to \in Nat
    BY DEF DispatchTypeOK
  <2>4. CASE step = "load"
    BY <2>1, <2>4 DEF BatchAtMark
  <2>5. CASE step # "load"
    <3>1. at \in Sources /\ batch.to <= Len(table[at])
      BY <2>5 DEF BatchAtMark
    <3>2. batch.to <= Len(table'[at])
      BY <2>2, <2>3, <3>1
    <3>3. QED
      BY <2>1, <2>5, <3>2 DEF BatchAtMark
  <2>6. QED
    BY <2>4, <2>5
<1>2. ASSUME RestoreTables PROVE BatchAtMark'
  BY <1>2 DEF RestoreTables, BatchAtMark, memory
<1>3. ASSUME Seed \/ StartPass \/ DispatchCrash PROVE BatchAtMark'
  BY <1>3 DEF Seed, StartPass, DispatchCrash, BatchAtMark, Notifier, Sources
<1>4. ASSUME LoadBatch PROVE BatchAtMark'
  <2>1. CASE LeaveSource
    BY <1>4, <2>1 DEF LoadBatch, LeaveSource, BatchAtMark
  <2>2. CASE ~LeaveSource
    <3>1. /\ mark[at] < Len(table[at]) /\ at \in Sources /\ up' = up /\ up
          /\ batch' = [from |-> mark[at] + 1,
                       to   |-> AtMost(mark[at] + MaxPerTick, Len(table[at]))]
          /\ UNCHANGED <<at, mark, table>>
      BY <1>4, <2>2 DEF LoadBatch
    <3>2. mark[at] \in Nat /\ Len(table[at]) \in Nat
      <4>1. mark[at] \in 0..Len(table[at])
        BY <3>1 DEF DispatchTypeOK
      <4>2. QED
        BY <3>1, <4>1, LenProperties DEF DispatchTypeOK
    <3>3. /\ mark[at] + 1 <= AtMost(mark[at] + MaxPerTick, Len(table[at]))
          /\ AtMost(mark[at] + MaxPerTick, Len(table[at])) <= Len(table[at])
      BY <3>1, <3>2, Bounds DEF AtMost
    <3>4. QED
      BY <3>1, <3>3 DEF BatchAtMark
  <2>3. QED
    BY <2>1, <2>2
<1>5. ASSUME Advance \/ Skip PROVE BatchAtMark'
  <2>1. ticked \in BOOLEAN /\ step # "load"
    BY <1>5 DEF DispatchTypeOK, Advance, Skip
  <2>2. \E b \in BOOLEAN : NextRow(b)
    BY <1>5, <2>1 DEF Advance, Skip
  <2>3. table' = table /\ up' = up /\ mark' = [mark EXCEPT ![at] = batch.from]
    BY <1>5 DEF Advance, Skip
  <2>4. QED
    BY <2>1, <2>2, <2>3, NextRowBatch
<1>6. ASSUME DeliverFailed \/ PersistFails PROVE BatchAtMark'
  BY <1>6 DEF DeliverFailed, PersistFails, Delivering, LeaveSource, BatchAtMark
<1>7. ASSUME DeliverAccepted PROVE BatchAtMark'
  BY <1>7 DEF DeliverAccepted, Delivering, BatchAtMark
<1>8. ASSUME DeliverRefused PROVE BatchAtMark'
  BY <1>8 DEF DeliverRefused, Delivering, LeaveSource, BatchAtMark
<1>9. ASSUME HeartbeatFallsDue PROVE BatchAtMark'
  BY <1>9 DEF HeartbeatFallsDue, BatchAtMark
<1>10. ASSUME Heartbeat PROVE BatchAtMark'
  <2>1. Notifier \notin Sources
    BY Bounds DEF Notifier, Sources
  <2>2. step = "load"
    BY <1>10, <2>1 DEF Heartbeat, BatchAtMark
  <2>3. QED
    BY <1>10, <2>2 DEF Heartbeat, BatchAtMark
<1>11. QED
  BY <1>1, <1>2, <1>3, <1>4, <1>5, <1>6, <1>7, <1>8, <1>9, <1>10 DEF DispatchNext, RunStep

LEMMA AdvanceStep ==
    ASSUME DispatchTypeOK, BatchAtMark, AdvanceOfAccepted, DispatchNext
    PROVE  AdvanceOfAccepted'
<1>1. ASSUME NEW src \in Sources, AppendRow(src) PROVE AdvanceOfAccepted'
  <2>1. UNCHANGED <<step, at, batch, got>>
    BY <1>1 DEF AppendRow, memory, ghosts
  <2>2. CASE step = "advance"
    <3>1. at \in Sources /\ batch.from \in DOMAIN table[at]
      BY <2>2, CurrentRowType
    <3>2. table'[at][batch.from] = table[at][batch.from]
      BY <1>1, <3>1, AppendEffect
    <3>3. QED
      BY <2>1, <3>2 DEF AdvanceOfAccepted, CurrentRow
  <2>3. QED
    BY <2>1, <2>2 DEF AdvanceOfAccepted
<1>2. ASSUME DeliverAccepted PROVE AdvanceOfAccepted'
  BY <1>2 DEF DeliverAccepted, AdvanceOfAccepted, CurrentRow
<1>3. ASSUME RestoreTables PROVE AdvanceOfAccepted'
  BY <1>3 DEF RestoreTables, AdvanceOfAccepted, BatchAtMark, memory
<1>4. ASSUME Advance \/ Skip PROVE AdvanceOfAccepted'
  BY <1>4 DEF Advance, Skip, NextRow, LeaveSource, AdvanceOfAccepted
<1>5. ASSUME DispatchCrash \/ DeliverRefused \/ DeliverFailed \/ PersistFails PROVE AdvanceOfAccepted'
  BY <1>5 DEF DispatchCrash, DeliverRefused, DeliverFailed, PersistFails, LeaveSource, AdvanceOfAccepted
<1>6. ASSUME LoadBatch PROVE AdvanceOfAccepted'
  BY <1>6 DEF LoadBatch, LeaveSource, AdvanceOfAccepted
<1>7. ASSUME Seed PROVE AdvanceOfAccepted'
  BY <1>7 DEF Seed, BatchAtMark, AdvanceOfAccepted
<1>8. ASSUME StartPass PROVE AdvanceOfAccepted'
  <2>1. step = "load"
    BY <1>8, Bounds DEF StartPass, BatchAtMark, Sources
  <2>2. QED
    BY <1>8, <2>1 DEF StartPass, AdvanceOfAccepted
<1>9. ASSUME HeartbeatFallsDue PROVE AdvanceOfAccepted'
  BY <1>9 DEF HeartbeatFallsDue, AdvanceOfAccepted, CurrentRow, ghosts
<1>10. ASSUME Heartbeat PROVE AdvanceOfAccepted'
  <2>1. Notifier \notin Sources
    BY Bounds DEF Notifier, Sources
  <2>2. step = "load"
    BY <1>10, <2>1 DEF Heartbeat, BatchAtMark
  <2>3. QED
    BY <1>10, <2>2 DEF Heartbeat, AdvanceOfAccepted
<1>11. QED
  BY <1>1, <1>2, <1>3, <1>4, <1>5, <1>6, <1>7, <1>8, <1>9, <1>10 DEF DispatchNext, RunStep

\* Only a refusal, a failure, a recorded acceptance or a crash changes the count of the
\* refusals.
LEMMA QuietRefusals ==
    ASSUME DispatchNext, ~Advance, ~DeliverRefused, ~DeliverFailed, ~DispatchCrash
    PROVE  refused' = refused
BY DEF DispatchNext, RunStep, AppendRow, HeartbeatFallsDue, DeliverAccepted, RestoreTables, Seed,
       StartPass, LoadBatch, Skip, PersistFails, Heartbeat, ghosts

\* The count of a row in memory is given up or kept as it is, but for the row just
\* refused.
LEMMA PoisonKept ==
    ASSUME DispatchTypeOK, BatchAtMark, DispatchNext, ~DispatchCrash, ~DeliverRefused, NEW src \in Sources
    PROVE  /\ up => up'
           /\ poison'[src] \in {poison[src], NoPoison}
<1>1. poison[src] \in [row : Nat, count : 0..PoisonAfter] /\ poison = [s \in Sources |-> poison[s]]
  BY DEF DispatchTypeOK
<1>2. up => up'
  <2>1. CASE \E s \in Sources : AppendRow(s)
    BY <2>1 DEF AppendRow
  <2>2. CASE HeartbeatFallsDue \/ RestoreTables \/ Seed
    BY <2>2 DEF HeartbeatFallsDue, RestoreTables, Seed, dispatchEnv
  <2>3. CASE StartPass \/ LoadBatch \/ Heartbeat
    BY <2>3 DEF StartPass, LoadBatch, Heartbeat, dispatchEnv
  <2>4. CASE DeliverAccepted \/ DeliverFailed
    BY <2>4 DEF DeliverAccepted, DeliverFailed, Drop, dispatchEnv
  <2>5. CASE Advance \/ Skip
    <3>1. UNCHANGED <<up, dispatchEnv>>
      BY <2>5 DEF Advance, Skip
    <3>2. QED
      BY <3>1 DEF dispatchEnv
  <2>6. CASE PersistFails
    BY <2>6 DEF PersistFails, Drop
  <2>7. QED
    BY <2>1, <2>2, <2>3, <2>4, <2>5, <2>6 DEF DispatchNext, RunStep
<1>3. \/ poison' = poison
      \/ poison' = [poison EXCEPT ![at] = NoPoison]
  BY DEF DispatchNext, RunStep, AppendRow, HeartbeatFallsDue, RestoreTables, Seed,
         StartPass, LoadBatch, DeliverAccepted, DeliverFailed, PoisonBrokenByFailure, Advance, Skip,
         PersistFails, Heartbeat, memory
<1>4. QED
  BY <1>1, <1>2, <1>3

\* Rows keep their rowid while the process runs.
LEMMA RowsStay ==
    ASSUME DispatchTypeOK, DispatchNext, up, NEW src \in Sources, NEW i \in DOMAIN table[src]
    PROVE  i \in DOMAIN table'[src] /\ table'[src][i] = table[src][i]
<1>1. ASSUME NEW s \in Sources, AppendRow(s)
      PROVE  i \in DOMAIN table'[src] /\ table'[src][i] = table[src][i]
  BY <1>1, AppendEffect
<1>2. CASE \A s \in Sources : ~AppendRow(s)
  <2>1. table' = table
    BY <1>2, QuietSteps DEF DeliverAccepted, DeliverFailed, RestoreTables
  <2>2. QED
    BY <2>1
<1>3. QED
  BY <1>1, <1>2

\* A row of the table is a serial, so the receiver has a count for it.
LEMMA RowType ==
    ASSUME DispatchTypeOK, NEW src \in Sources, NEW i \in DOMAIN table[src]
    PROVE  table[src][i] \in Serials /\ refused[table[src][i]] \in Nat
<1>1. table[src] \in Seq(Serials)
  BY DEF DispatchTypeOK
<1>2. table[src][i] \in Serials
  BY <1>1, ElementOfSeq, LenProperties
<1>3. QED
  BY <1>2, Bounds DEF DispatchTypeOK

\* A refused delivery: the count in memory follows the receiver's.
LEMMA RefusedStep ==
    ASSUME DispatchTypeOK, SerialsOnce, BatchAtMark, RefusalsCounted, DeliverRefused
    PROVE  RefusalsCounted' /\ SkipOfRefused'
<1>1. /\ up /\ at \in Sources /\ batch.from \in DOMAIN table[at] /\ CurrentRow(at) \in Serials
      /\ batch.from \in Nat /\ CurrentRow(at) = table[at][batch.from]
  BY CurrentRowType DEF DeliverRefused, Delivering, DispatchTypeOK, CurrentRow
<1>2. /\ UNCHANGED <<table, up>>
      /\ refused' = [refused EXCEPT ![CurrentRow(at)] = AtMost(@ + 1, PoisonAfter)]
  BY DEF DeliverRefused, dispatchEnv
<1>3. \A x \in Serials : refused[x] \in 0..PoisonAfter
  BY DEF DispatchTypeOK
<1>4. PoisonAfter \in Nat
  BY Bounds
<1>5. \A x \in Serials : refused[x] <= refused'[x] /\ refused'[x] \in 0..PoisonAfter
  <2>1. AtMost(refused[CurrentRow(at)] + 1, PoisonAfter) \in 0..PoisonAfter
    BY <1>1, <1>3, <1>4 DEF AtMost
  <2>2. refused[CurrentRow(at)] <= AtMost(refused[CurrentRow(at)] + 1, PoisonAfter)
    BY <1>1, <1>3, <1>4 DEF AtMost
  <2>3. QED
    BY <1>1, <1>2, <1>3, <2>1, <2>2 DEF DispatchTypeOK
<1>6. RefusalCount \in Nat /\ RefusalCount <= refused[CurrentRow(at)] + 1
  <2>1. poison[at].row \in Nat /\ poison[at].count \in 0..PoisonAfter
    BY <1>1 DEF DispatchTypeOK
  <2>2. CASE poison[at].row = batch.from
    <3>1. poison[at].row # NoRow
      <4>1. DOMAIN table[at] = 1..Len(table[at]) /\ Len(table[at]) \in Nat
        BY <1>1, LenProperties DEF DispatchTypeOK
      <4>2. QED
        BY <1>1, <2>2, <4>1 DEF NoRow
    <3>2. poison[at].count <= refused[CurrentRow(at)]
      BY <1>1, <2>2, <3>1 DEF RefusalsCounted
    <3>3. RefusalCount = 1 + poison[at].count /\ refused[CurrentRow(at)] \in Nat
      BY <1>1, <1>3, <1>4, <2>2 DEF RefusalCount
    <3>4. QED
      BY <1>4, <2>1, <3>2, <3>3
  <2>3. CASE poison[at].row # batch.from
    BY <1>1, <1>3, <1>4, <2>3 DEF RefusalCount
  <2>4. QED
    BY <2>2, <2>3
<1>7. refused'[CurrentRow(at)] = AtMost(refused[CurrentRow(at)] + 1, PoisonAfter)
  BY <1>1, <1>2 DEF DispatchTypeOK
<1>8. CASE RefusalCount >= PoisonAfter /\ poison' = [poison EXCEPT ![at] = NoPoison]
           /\ step' = "skip" /\ UNCHANGED <<at, batch>>
  <2>1. refused'[CurrentRow(at)] >= PoisonAfter
    BY <1>1, <1>3, <1>4, <1>6, <1>7, <1>8 DEF AtMost
  <2>2. SkipOfRefused'
    BY <1>2, <1>8, <2>1 DEF SkipOfRefused, CurrentRow
  <2>3. ASSUME NEW src \in Sources, poison'[src].row # NoRow
        PROVE  /\ up' /\ poison'[src].row \in DOMAIN table'[src]
               /\ poison'[src].count <= refused'[table'[src][poison'[src].row]]
    <3>1. src # at /\ poison'[src] = poison[src]
      BY <1>1, <1>8, <2>3 DEF NoPoison, DispatchTypeOK
    <3>2. /\ poison[src].row \in DOMAIN table[src]
          /\ poison[src].count <= refused[table[src][poison[src].row]]
      BY <2>3, <3>1 DEF RefusalsCounted
    <3>3. poison[src].count \in Nat /\ table[src][poison[src].row] \in Serials
      BY <1>4, <3>2, RowType DEF DispatchTypeOK
    <3>4. poison[src].count <= refused'[table[src][poison[src].row]]
      BY <1>3, <1>4, <1>5, <3>2, <3>3
    <3>5. QED
      BY <1>1, <1>2, <3>1, <3>2, <3>4
  <2>4. QED
    BY <2>2, <2>3 DEF RefusalsCounted
<1>9. CASE RefusalCount < PoisonAfter /\ step' = "load"
           /\ poison' = [poison EXCEPT ![at] = [row |-> batch.from, count |-> RefusalCount]]
  <2>1. SkipOfRefused'
    BY <1>9 DEF SkipOfRefused
  <2>2. RefusalCount <= refused'[CurrentRow(at)]
    BY <1>1, <1>3, <1>4, <1>6, <1>7, <1>9 DEF AtMost
  <2>3. ASSUME NEW src \in Sources, poison'[src].row # NoRow
        PROVE  /\ up' /\ poison'[src].row \in DOMAIN table'[src]
               /\ poison'[src].count <= refused'[table'[src][poison'[src].row]]
    <3>1. CASE src = at
      <4>1. poison'[src] = [row |-> batch.from, count |-> RefusalCount]
        BY <1>1, <1>9, <3>1 DEF DispatchTypeOK
      <4>2. QED
        BY <1>1, <1>2, <2>2, <3>1, <4>1
    <3>2. CASE src # at
      <4>1. poison'[src] = poison[src]
        BY <1>1, <1>9, <3>2 DEF DispatchTypeOK
      <4>2. /\ poison[src].row \in DOMAIN table[src]
            /\ poison[src].count <= refused[table[src][poison[src].row]]
        BY <2>3, <4>1 DEF RefusalsCounted
      <4>3. poison[src].count \in Nat /\ table[src][poison[src].row] \in Serials
        BY <1>4, <4>2, RowType DEF DispatchTypeOK
      <4>4. poison[src].count <= refused'[table[src][poison[src].row]]
        BY <1>3, <1>4, <1>5, <4>2, <4>3
      <4>5. QED
        BY <1>1, <1>2, <4>1, <4>2, <4>4
    <3>3. QED
      BY <3>1, <3>2
  <2>4. QED
    BY <2>1, <2>3 DEF RefusalsCounted
<1>10. QED
  BY <1>8, <1>9 DEF DeliverRefused, LeaveSource

\* A delivery that fails and an acceptance that is recorded restart the count of the
\* row, and the row is not the one memory counts for - or memory forgets its count.
LEMMA AnsweredStep ==
    ASSUME DispatchTypeOK, SerialsOnce, BatchAtMark, RefusalsCounted, DispatchNext,
           Advance \/ DeliverFailed
    PROVE  RefusalsCounted'
<1>1. /\ up /\ at \in Sources /\ batch.from \in DOMAIN table[at] /\ CurrentRow(at) \in Serials
      /\ CurrentRow(at) = table[at][batch.from]
  BY CurrentRowType DEF Advance, DeliverFailed, Delivering, CurrentRow
<1>2. UNCHANGED <<table, up>> /\ refused' = [refused EXCEPT ![CurrentRow(at)] = 0]
  BY DEF Advance, DeliverFailed
<1>3. ~DispatchCrash /\ ~DeliverRefused
  <2>1. drops \in Nat
    BY Bounds DEF DispatchTypeOK
  <2>2. ~DispatchCrash
    BY <1>1, <1>2 DEF DispatchCrash
  <2>3. CASE Advance
    BY <2>2, <2>3 DEF Advance, DeliverRefused, Delivering
  <2>4. CASE DeliverFailed
    <3>1. drops' # drops
      BY <2>1, <2>4 DEF DeliverFailed, Drop
    <3>2. QED
      BY <2>2, <3>1 DEF DeliverRefused, dispatchEnv
  <2>5. QED
    BY <2>3, <2>4
<1>4. ASSUME NEW src \in Sources, poison'[src].row # NoRow
      PROVE  /\ up' /\ poison'[src].row \in DOMAIN table'[src]
             /\ poison'[src].count <= refused'[table'[src][poison'[src].row]]
  <2>1. poison'[src] = poison[src]
    BY <1>3, <1>4, PoisonKept DEF NoPoison
  <2>2. /\ poison[src].row \in DOMAIN table[src]
        /\ poison[src].count <= refused[table[src][poison[src].row]]
    BY <1>4, <2>1 DEF RefusalsCounted
  <2>3. table[src][poison[src].row] # CurrentRow(at)
    <3>1. ASSUME table[src][poison[src].row] = CurrentRow(at) PROVE FALSE
      <4>1. src = at /\ poison[at].row = batch.from
        BY <1>1, <2>2, <3>1 DEF SerialsOnce
      <4>2. poison'[at] = NoPoison
        BY <1>1, <4>1 DEF Advance, DeliverFailed, PoisonBrokenByFailure, DispatchTypeOK
      <4>3. QED
        BY <1>4, <4>1, <4>2 DEF NoPoison
    <3>2. QED
      BY <3>1
  <2>4. table[src][poison[src].row] \in Serials
    BY <2>2, RowType
  <2>5. refused'[table[src][poison[src].row]] = refused[table[src][poison[src].row]]
    BY <1>1, <1>2, <2>3, <2>4 DEF DispatchTypeOK
  <2>6. QED
    BY <1>1, <1>2, <2>1, <2>2, <2>5
<1>5. QED
  BY <1>4 DEF RefusalsCounted

LEMMA RefusalsStep ==
    ASSUME DispatchTypeOK, SerialsOnce, BatchAtMark, RefusalsCounted, DispatchNext
    PROVE  RefusalsCounted'
<1>1. CASE DeliverRefused
  BY <1>1, RefusedStep
<1>2. CASE Advance \/ DeliverFailed
  BY <1>2, AnsweredStep
<1>3. CASE DispatchCrash
  BY <1>3 DEF DispatchCrash, RefusalsCounted, NoPoison
<1>4. CASE ~DeliverRefused /\ ~Advance /\ ~DeliverFailed /\ ~DispatchCrash
  <2>1. refused' = refused
    BY <1>4, QuietRefusals
  <2>2. ASSUME NEW src \in Sources, poison'[src].row # NoRow
        PROVE  /\ up' /\ poison'[src].row \in DOMAIN table'[src]
               /\ poison'[src].count <= refused'[table'[src][poison'[src].row]]
    <3>1. poison'[src] = poison[src] /\ (up => up')
      BY <1>4, <2>2, PoisonKept DEF NoPoison
    <3>2. /\ up /\ poison[src].row \in DOMAIN table[src]
          /\ poison[src].count <= refused[table[src][poison[src].row]]
      BY <2>2, <3>1 DEF RefusalsCounted
    <3>3. /\ poison[src].row \in DOMAIN table'[src]
          /\ table'[src][poison[src].row] = table[src][poison[src].row]
      BY <3>2, RowsStay
    <3>4. QED
      BY <2>1, <3>1, <3>2, <3>3
  <2>3. QED
    BY <2>2 DEF RefusalsCounted
<1>5. QED
  BY <1>1, <1>2, <1>3, <1>4

\* The step "skip" is reached by a refusal only, and left by the skip or a failed write.
LEMMA SkipStep ==
    ASSUME DispatchTypeOK, SerialsOnce, BatchAtMark, RefusalsCounted, SkipOfRefused, DispatchNext
    PROVE  SkipOfRefused'
<1>1. CASE DeliverRefused
  BY <1>1, RefusedStep
<1>2. ASSUME NEW src \in Sources, AppendRow(src) PROVE SkipOfRefused'
  <2>1. UNCHANGED <<step, at, batch, refused>>
    BY <1>2 DEF AppendRow, memory, ghosts
  <2>2. CASE step = "skip"
    <3>1. at \in Sources /\ batch.from \in DOMAIN table[at]
      BY <2>2, CurrentRowType
    <3>2. table'[at][batch.from] = table[at][batch.from]
      BY <1>2, <3>1, AppendEffect
    <3>3. QED
      BY <2>1, <3>2 DEF SkipOfRefused, CurrentRow
  <2>3. QED
    BY <2>1, <2>2 DEF SkipOfRefused
<1>3. CASE RestoreTables
  BY <1>3 DEF RestoreTables, SkipOfRefused, BatchAtMark, memory
<1>4. CASE Advance \/ Skip
  BY <1>4 DEF Advance, Skip, NextRow, LeaveSource, SkipOfRefused
<1>5. CASE DispatchCrash \/ DeliverAccepted \/ DeliverFailed \/ PersistFails
  BY <1>5 DEF DispatchCrash, DeliverAccepted, DeliverFailed, PersistFails, LeaveSource, SkipOfRefused
<1>6. CASE LoadBatch
  BY <1>6 DEF LoadBatch, LeaveSource, SkipOfRefused
<1>7. CASE Seed \/ StartPass \/ Heartbeat
  <2>1. 0 \notin Sources /\ Notifier \notin Sources
    BY Bounds DEF Notifier, Sources
  <2>2. step = "load"
    BY <1>7, <2>1 DEF Seed, StartPass, Heartbeat, BatchAtMark
  <2>3. QED
    BY <1>7, <2>2 DEF Seed, StartPass, Heartbeat, SkipOfRefused
<1>8. CASE HeartbeatFallsDue
  BY <1>8 DEF HeartbeatFallsDue, SkipOfRefused, CurrentRow, ghosts
<1>9. QED
  BY <1>1, <1>2, <1>3, <1>4, <1>5, <1>6, <1>7, <1>8 DEF DispatchNext, RunStep

\* Handled rows stay handled: got, skipped and exempt only grow.
LEMMA HandledGrows ==
    ASSUME DispatchNext
    PROVE  got \subseteq got' /\ skipped \subseteq skipped' /\ exempt \subseteq exempt'
<1>1. ASSUME NEW src \in Sources, AppendRow(src) PROVE UNCHANGED ghosts
  BY <1>1 DEF AppendRow
<1>2. CASE DeliverAccepted
  BY <1>2 DEF DeliverAccepted
<1>3. CASE DeliverFailed
  BY <1>3 DEF DeliverFailed
<1>4. CASE HeartbeatFallsDue \/ DispatchCrash \/ RestoreTables \/ StartPass \/ LoadBatch \/ Heartbeat \/ PersistFails \/ Advance
  BY <1>4 DEF HeartbeatFallsDue, DispatchCrash, RestoreTables, StartPass, LoadBatch, Heartbeat,
              PersistFails, Advance, ghosts
<1>5. CASE Seed \/ DeliverRefused \/ Skip
  BY <1>5 DEF Seed, DeliverRefused, Skip
<1>6. QED
  BY <1>1, <1>2, <1>3, <1>4, <1>5 DEF DispatchNext, RunStep, ghosts

\* A watermark moves only by Seed, by a restore, or to the row just handled.
LEMMA QuietMarks ==
    ASSUME DispatchNext, ~RestoreTables, ~Seed, ~Advance, ~Skip
    PROVE  mark' = mark
BY DEF DispatchNext, RunStep, AppendRow, HeartbeatFallsDue, DispatchCrash, StartPass, LoadBatch,
       DeliverAccepted, DeliverRefused, DeliverFailed, PersistFails, Heartbeat

LEMMA MarkStep ==
    ASSUME DispatchInv, DispatchNext
    PROVE  NoneBelowMarkLost'
<1> USE DEF DispatchInv
<1>1. Handled \subseteq Handled'
  BY HandledGrows DEF Handled
<1>2. SUFFICES ASSUME NEW src \in Sources, NEW i \in DOMAIN table'[src], i <= mark'[src]
               PROVE  table'[src][i] \in Handled'
  BY DEF NoneBelowMarkLost
<1>3. /\ Len(table[src]) \in Nat /\ DOMAIN table[src] = 1..Len(table[src])
      /\ mark[src] \in Int
  BY LenProperties DEF DispatchTypeOK, Unseeded
<1>4. ASSUME NEW s \in Sources, AppendRow(s) PROVE table'[src][i] \in Handled'
  <2>1. mark' = mark /\ mark[s] <= Len(table[s])
    <3>1. up => mark[s] \in 0..Len(table[s])
      BY DEF DispatchTypeOK
    <3>2. Len(table[s]) \in Nat
      BY LenProperties DEF DispatchTypeOK
    <3>3. mark' = mark /\ (up \/ mark[s] <= Len(table[s]))
      BY <1>4 DEF AppendRow
    <3>4. CASE up
      BY <3>1, <3>2, <3>3, <3>4
    <3>5. QED
      BY <3>3, <3>4
  <2>2. i \in DOMAIN table[src] /\ table'[src][i] = table[src][i]
    BY <1>2, <1>3, <1>4, <2>1, AppendEffect
  <2>3. QED
    BY <1>1, <1>2, <2>1, <2>2 DEF NoneBelowMarkLost
<1>5. ASSUME RestoreTables PROVE table'[src][i] \in Handled'
  <2>1. i \in DOMAIN table[src] /\ table'[src][i] = table[src][i] /\ i \in Int
        /\ mark'[src] <= mark[src] /\ mark'[src] \in Int
    BY <1>5, RestoreEffect
  <2>2. i <= mark[src]
    BY <1>2, <1>3, <2>1
  <2>3. QED
    BY <1>1, <2>1, <2>2 DEF NoneBelowMarkLost
<1>6. ASSUME Seed PROVE table'[src][i] \in Handled'
  <2>1. table' = table /\ mark'[src] = SeededMark(src)
    BY <1>6 DEF Seed
  <2>2. CASE mark[src] = Unseeded
    <3>1. SerialsOf(src) \subseteq exempt'
      BY <1>6, <2>2 DEF Seed
    <3>2. QED
      BY <2>1, <3>1 DEF SerialsOf, Handled
  <2>3. CASE mark[src] # Unseeded
    <3>1. i \in DOMAIN table[src] /\ i \in Int /\ SeededMark(src) \in Int
      BY <1>3, <2>1, SeededMarkType
    <3>2. i <= mark[src]
      BY <1>2, <1>3, <2>1, <2>3, <3>1, SeededMarkType
    <3>3. QED
      BY <1>1, <2>1, <3>1, <3>2 DEF NoneBelowMarkLost
  <2>4. QED
    BY <2>2, <2>3
<1>7. ASSUME Advance \/ Skip PROVE table'[src][i] \in Handled'
  <2>1. /\ table' = table /\ mark' = [mark EXCEPT ![at] = batch.from] /\ step # "load"
        /\ CurrentRow(at) \in got' \cup skipped'
    BY <1>7 DEF Advance, Skip, AdvanceOfAccepted, ghosts
  <2>2. at \in Sources /\ mark[at] \in Nat /\ batch.from = mark[at] + 1
    BY <2>1, CurrentRowType
  <2>3. CASE src = at /\ i = batch.from
    BY <2>1, <2>3 DEF CurrentRow, Handled
  <2>4. CASE ~(src = at /\ i = batch.from)
    <3>1. mark'[src] = IF src = at THEN mark[at] + 1 ELSE mark[src]
      BY <2>1, <2>2 DEF DispatchTypeOK
    <3>2. i \in DOMAIN table[src] /\ i \in Int
      BY <1>3, <2>1
    <3>3. i <= mark[src]
      BY <1>2, <1>3, <2>2, <2>4, <3>1, <3>2
    <3>4. QED
      BY <1>1, <2>1, <3>2, <3>3 DEF NoneBelowMarkLost
  <2>5. QED
    BY <2>3, <2>4
<1>8. CASE /\ \A s \in Sources : ~AppendRow(s)
           /\ ~RestoreTables /\ ~Seed /\ ~Advance /\ ~Skip
  <2>1. mark' = mark
    BY <1>8, QuietMarks
  <2>2. table' = table
    BY <1>8, QuietSteps DEF DeliverAccepted, DeliverFailed
  <2>3. QED
    BY <1>1, <1>2, <2>1, <2>2 DEF NoneBelowMarkLost
<1>9. QED
  BY <1>4, <1>5, <1>6, <1>7, <1>8

LEMMA OrderStep ==
    ASSUME DispatchInv, DispatchNext
    PROVE  AcceptedInOrder'
<1> USE DEF DispatchInv
<1>1. Handled \subseteq Handled'
  BY HandledGrows DEF Handled
<1>2. SUFFICES ASSUME NEW src \in Sources, NEW i \in DOMAIN table'[src], NEW j \in DOMAIN table'[src],
                      i < j, table'[src][j] \in got'
               PROVE  table'[src][i] \in Handled'
  BY DEF AcceptedInOrder
<1>3. Len(table[src]) \in Nat /\ DOMAIN table[src] = 1..Len(table[src])
  BY LenProperties DEF DispatchTypeOK
<1>4. ASSUME NEW s \in Sources, AppendRow(s) PROVE table'[src][i] \in Handled'
  <2>1. got' = got
    BY <1>4 DEF AppendRow, ghosts
  <2>2. j # Len(table[src]) + 1 \/ src # s
    <3>1. ASSUME j = Len(table[src]) + 1, src = s PROVE FALSE
      <4>1. serial + 1 \in got
        BY <1>2, <1>4, <2>1, <3>1, AppendEffect
      <4>2. serial + 1 <= serial /\ serial \in Nat
        BY <1>4, <4>1, AppendEffect DEF SerialsOnce
      <4>3. QED
        BY <4>2
    <3>2. QED
      BY <3>1
  <2>3. /\ i \in DOMAIN table[src] /\ table'[src][i] = table[src][i]
        /\ j \in DOMAIN table[src] /\ table'[src][j] = table[src][j]
    BY <1>2, <1>3, <1>4, <2>2, AppendEffect
  <2>4. QED
    BY <1>1, <1>2, <2>1, <2>3 DEF AcceptedInOrder
<1>5. ASSUME RestoreTables PROVE table'[src][i] \in Handled'
  <2>1. got' = got
    BY <1>5 DEF RestoreTables, ghosts
  <2>2. QED
    BY <1>1, <1>2, <1>5, <2>1, RestoreEffect DEF AcceptedInOrder
<1>6. ASSUME DeliverAccepted \/ DeliverFailed PROVE table'[src][i] \in Handled'
  <2>1. /\ table' = table /\ got' \subseteq got \cup {CurrentRow(at)} /\ step # "load"
    BY <1>6 DEF DeliverAccepted, DeliverFailed, Delivering
  <2>2. /\ at \in Sources /\ batch.from \in DOMAIN table[at]
        /\ mark[at] \in Nat /\ batch.from = mark[at] + 1
    BY <2>1, CurrentRowType
  <2>3. CASE table[src][j] \in got
    BY <1>1, <1>2, <2>1, <2>3 DEF AcceptedInOrder
  <2>4. CASE table[src][j] = CurrentRow(at)
    <3>1. src = at /\ j = batch.from
      BY <1>2, <2>1, <2>2, <2>4 DEF SerialsOnce, CurrentRow
    <3>2. i \in DOMAIN table[src] /\ i \in Int
      BY <1>3, <2>1
    <3>3. i <= mark[src]
      BY <1>2, <2>2, <3>1, <3>2
    <3>4. QED
      BY <1>1, <2>1, <3>2, <3>3 DEF NoneBelowMarkLost
  <2>5. QED
    BY <1>2, <2>1, <2>3, <2>4
<1>7. CASE /\ \A s \in Sources : ~AppendRow(s)
           /\ ~RestoreTables /\ ~DeliverAccepted /\ ~DeliverFailed
  <2>1. table' = table /\ got' = got
    BY <1>7, QuietSteps
  <2>2. QED
    BY <1>1, <1>2, <2>1 DEF AcceptedInOrder
<1>8. QED
  BY <1>4, <1>5, <1>6, <1>7

-----------------------------------------------------------------------------
(* The theorems.                                                           *)

LEMMA DispatchInvInit == DispatchInit => DispatchInv
<1>1. SUFFICES ASSUME DispatchInit PROVE DispatchInv
  OBVIOUS
<1>2. \A src \in Sources : DOMAIN table[src] = {}
  BY <1>1, EmptySeq DEF DispatchInit
<1>3. SerialsOnce /\ NoneBelowMarkLost /\ AcceptedInOrder
  BY <1>1, <1>2 DEF DispatchInit, SerialsOnce, NoneBelowMarkLost, AcceptedInOrder
<1>4. BatchAtMark /\ AdvanceOfAccepted /\ RefusalsCounted /\ SkipOfRefused
  BY <1>1 DEF DispatchInit, BatchAtMark, AdvanceOfAccepted, RefusalsCounted, SkipOfRefused, NoPoison
<1>5. QED
  BY <1>1, <1>3, <1>4, TypeInit DEF DispatchInv

LEMMA DispatchInvStep == DispatchInv /\ [DispatchNext]_dispatchVars => DispatchInv'
<1>1. ASSUME DispatchInv, DispatchNext PROVE DispatchInv'
  BY <1>1, TypeStep, SerialsStep, BatchStep, AdvanceStep, RefusalsStep, SkipStep, MarkStep, OrderStep
     DEF DispatchInv
<1>2. ASSUME DispatchInv, UNCHANGED dispatchVars PROVE DispatchInv'
  <2>1. DispatchTypeOK'
    BY <1>2, TypeStutter DEF DispatchInv
  <2>2. UNCHANGED <<table, mark, up, at, batch, step, serial, got, skipped, exempt,
                    poison, refused>>
    BY <1>2 DEF dispatchVars, memory, dispatchEnv, ghosts
  <2>3. SerialsOnce' /\ BatchAtMark' /\ AdvanceOfAccepted'
    BY <1>2, <2>2 DEF DispatchInv, SerialsOnce, BatchAtMark, AdvanceOfAccepted, CurrentRow
  <2>4. NoneBelowMarkLost' /\ AcceptedInOrder'
    BY <1>2, <2>2 DEF DispatchInv, NoneBelowMarkLost, AcceptedInOrder, Handled
  <2>5. RefusalsCounted' /\ SkipOfRefused'
    BY <1>2, <2>2 DEF DispatchInv, RefusalsCounted, SkipOfRefused, CurrentRow
  <2>6. QED
    BY <2>1, <2>3, <2>4, <2>5 DEF DispatchInv
<1>3. QED
  BY <1>1, <1>2

\* The inductive invariant of the dispatcher holds for every number of sources, rows,
\* faults and restarts.
THEOREM DispatchInvariant == DispatchSpec => []DispatchInv
BY DispatchInvInit, DispatchInvStep, PTL DEF DispatchSpec

\* The dispatcher's memory, watermarks and receiver keep their types, and while it runs
\* no watermark is above its table (Seed clamps the one a restore left there).
THEOREM DispatchTyped == DispatchSpec => []DispatchTypeOK
<1>1. DispatchInv => DispatchTypeOK
  BY DEF DispatchInv
<1>2. QED
  BY <1>1, DispatchInvariant, PTL

\* No kill, clear or alert row at or below a watermark was lost: it was accepted, skipped
\* as a poison row, or older than the first seed (notifier.go: dispatchSource).
THEOREM NoRowLost == DispatchSpec => []NoneBelowMarkLost
<1>1. DispatchInv => NoneBelowMarkLost
  BY DEF DispatchInv
<1>2. QED
  BY <1>1, DispatchInvariant, PTL

\* A row reaches the receiver only after every older row of its table was handled.
THEOREM DeliveredInOrder == DispatchSpec => []AcceptedInOrder
<1>1. DispatchInv => AcceptedInOrder
  BY DEF DispatchInv
<1>2. QED
  BY <1>1, DispatchInvariant, PTL

\* A row is given up as poison only on PoisonAfter refusals of that very row in this life
\* of the process, with no transient failure and no recorded acceptance among them: no
\* restart, reused rowid or 5xx hastens a skip, though an acceptance whose watermark
\* was not persisted does not delay it (notifier.go: dispatchSource, the poison map).
THEOREM SkippedOnlyAfterRefusals == DispatchSpec => SkipOnlyAfterRefusals
<1>1. ASSUME DispatchInv, DispatchNext, NEW x \in skipped' \ skipped
      PROVE  refused[x] >= PoisonAfter
  <2>1. CASE Skip
    BY <1>1, <2>1 DEF Skip, DispatchInv, SkipOfRefused
  <2>2. CASE ~Skip
    BY <1>1, <2>2 DEF DispatchNext, RunStep, AppendRow, HeartbeatFallsDue, DispatchCrash,
       RestoreTables, Seed, StartPass, LoadBatch, DeliverAccepted, DeliverRefused, DeliverFailed,
       Advance, PersistFails, Heartbeat, ghosts
  <2>3. QED
    BY <2>1, <2>2
<1>2. DispatchInv /\ [DispatchNext]_dispatchVars
        => [\A x \in skipped' \ skipped : refused[x] >= PoisonAfter]_dispatchVars
  BY <1>1
<1>3. QED
  BY <1>2, DispatchInvariant, PTL DEF DispatchSpec, SkipOnlyAfterRefusals

-----------------------------------------------------------------------------
(* The dead-man receiver.                                                  *)

\* A handler that runs is at most Lag behind, and what it has logged is on record.
DeliveriesTrue ==
    \A d \in Deliveries :
        /\ delivery[d].state # "idle" =>
              delivery[d].at \in Clock /\ delivery[d].at <= clock /\ clock <= delivery[d].at + Lag
        /\ delivery[d].state \in {"track", "glued"} => delivery[d].at <= heard
        /\ delivery[d].state = "track" => delivery[d].at <= newest

\* What a restart reads back is what was answered 200, and no more than was heard.
LogTrue ==
    /\ safe <= newest /\ newest <= heard /\ heard <= clock
    /\ serving => /\ lastNotifier \in Clock
                  /\ lastNotifier <= SilentSince /\ safe <= lastNotifier + Lag

\* Every alarm in memory, and so every page, is a line of the log.
AlarmsLogged ==
    /\ posting # NoAlarm => posting \in alarmLines
    /\ alarmed => alarmPayload \in alarmLines
    /\ paged \subseteq alarmLines

ReceiverInv ==
    ReceiverTypeOK /\ DeliveriesTrue /\ LogTrue /\ AlarmsLogged /\ EveryRejectAccounted

\* No alarm looks like the absence of one.
LEMMA NoAlarmIsNone == NoAlarm \notin AlarmLine
BY ReceiverAssumption DEF NoAlarm, AlarmLine, Never, Clock

\* At the start nothing is logged.
LEMMA ReceiverInvInit == ReceiverInit => ReceiverInv
<1> SUFFICES ASSUME ReceiverInit PROVE ReceiverInv
  OBVIOUS
<1>1. /\ MaxClock \in Nat /\ MaxClock >= 1 /\ MaxTorn \in Nat /\ MaxReboot \in Nat
      /\ MaxReject \in Nat /\ RejectCap \in Nat
  BY ReceiverAssumption
<1>2. delivery \in [Deliveries -> [state : {"idle", "read", "track", "glued"},
                                   at : 0..MaxClock, kind : Kinds]]
  BY <1>1 DEF ReceiverInit, Idle, Never, Kinds
<1>3. ReceiverTypeOK
  <2>1. (alarmed <=> alarmPayload # NoAlarm) /\ alarmed \in BOOLEAN
    BY DEF ReceiverInit
  <2>2. alarmPayload \in AlarmLine \cup {NoAlarm} /\ posting \in AlarmLine \cup {NoAlarm}
    BY DEF ReceiverInit
  <2>3. torn \in BOOLEAN /\ serving \in BOOLEAN
    BY DEF ReceiverInit
  <2>4. /\ clock \in Clock /\ newest \in 0..MaxClock /\ firstMark \in 0..MaxClock
        /\ lastNotifier \in 0..MaxClock /\ window \in 0..MaxClock
        /\ heard \in 0..MaxClock /\ safe \in 0..MaxClock
    BY <1>1 DEF ReceiverInit, Never, Clock
  <2>5. /\ lines \in 0..RejectCap /\ suppressed \in Nat
        /\ torns \in 0..MaxTorn /\ reboots \in 0..MaxReboot /\ rejects \in 0..MaxReject
        /\ verbatim \in Nat /\ folded \in Nat /\ surfaced \in Nat
    BY <1>1 DEF ReceiverInit
  <2>6. alarmLines \subseteq AlarmLine /\ paged \subseteq AlarmLine
    BY DEF ReceiverInit
  <2> QED
    BY <1>2, <2>1, <2>2, <2>3, <2>4, <2>5, <2>6 DEF ReceiverTypeOK
<1>4. DeliveriesTrue
  BY DEF ReceiverInit, DeliveriesTrue, Idle
<1>5. LogTrue /\ AlarmsLogged /\ EveryRejectAccounted
  BY DEF ReceiverInit, LogTrue, AlarmsLogged, EveryRejectAccounted, Never
<1> QED
  BY <1>3, <1>4, <1>5 DEF ReceiverInv

\* Types are kept.
LEMMA ReceiverTypeStep == ReceiverInv /\ [ReceiverNext]_receiverVars => ReceiverTypeOK'
<1> SUFFICES ASSUME ReceiverInv, [ReceiverNext]_receiverVars PROVE ReceiverTypeOK'
  OBVIOUS
<1> USE DEF Clock, Never
<1>1. ReceiverTypeOK
  BY DEF ReceiverInv
<1>2. /\ MaxClock \in Nat /\ MaxClock >= 1 /\ MaxTorn \in Nat /\ MaxReboot \in Nat
      /\ MaxReject \in Nat /\ RejectCap \in Nat /\ RejectCap >= 1
  BY ReceiverAssumption
<1>3. CASE UNCHANGED receiverVars
  BY <1>1, <1>2, <1>3 DEF receiverVars, rawLog, tracker, rejectState, arrivals, ReceiverTypeOK
<1>4. ASSUME Appended \/ AppendFailed
      PROVE  torn' \in BOOLEAN /\ torns' \in 0..MaxTorn
  <2>1. torn \in BOOLEAN /\ torns \in 0..MaxTorn
    BY <1>1 DEF ReceiverTypeOK
  <2>2. torn' \in {torn, TRUE, FALSE}
    BY <1>4 DEF Appended, AppendFailed
  <2>3. torns' \in 0..MaxTorn
    <3>1. CASE Appended
      BY <2>1, <3>1 DEF Appended
    <3>2. CASE AppendFailed
      BY <1>2, <2>1, <3>2 DEF AppendFailed
    <3> QED
      BY <1>4, <3>1, <3>2
  <2> QED
    BY <2>1, <2>2, <2>3
<1>5. CASE ReceiverTick
  BY <1>1, <1>2, <1>5 DEF ReceiverTick, rawLog, tracker, rejectState, arrivals, ReceiverTypeOK
<1>6. CASE Boot
  <2>1. TrackerSeed \in 1..MaxClock
    BY <1>1, <1>2 DEF TrackerSeed, ReceiverTypeOK
  <2>2. firstMark' \in 0..MaxClock /\ heard' \in 0..MaxClock /\ lastNotifier' \in 0..MaxClock
    BY <1>1, <1>2, <1>6, <2>1 DEF Boot, ReceiverTypeOK
  <2>4. serving' \in BOOLEAN
    BY <1>1, <1>6 DEF Boot, ReceiverTypeOK
  <2>3. torn' \in BOOLEAN /\ torns' \in 0..MaxTorn
    BY <1>4, <1>6 DEF Boot
  <2> QED
    BY <1>1, <1>2, <1>6, <2>2, <2>3, <2>4 DEF Boot, rejectState, ReceiverTypeOK
<1>7. CASE AliveMark
  <2>1. firstMark' \in 0..MaxClock
    BY <1>1, <1>2, <1>7 DEF AliveMark, ReceiverTypeOK
  <2>2. torn' \in BOOLEAN /\ torns' \in 0..MaxTorn
    BY <1>4, <1>7 DEF AliveMark
  <2> QED
    BY <1>1, <1>2, <1>7, <2>1, <2>2 DEF AliveMark, tracker, rejectState, arrivals, ReceiverTypeOK
<1>8. CASE ReceiverCrash
  <2>1. /\ delivery' \in [Deliveries -> [state : {"idle", "read", "track", "glued"},
                                         at : 0..MaxClock, kind : Kinds]]
    BY <1>2, <1>8 DEF ReceiverCrash, Idle, Kinds
  <2>2. reboots' \in 0..MaxReboot /\ surfaced' \in Nat
    BY <1>1, <1>2, <1>8 DEF ReceiverCrash, ReceiverTypeOK
  <2>3. (alarmed <=> alarmPayload # NoAlarm)' /\ alarmed' \in BOOLEAN
    BY <1>8 DEF ReceiverCrash
  <2>4. alarmPayload' \in AlarmLine \cup {NoAlarm} /\ posting' \in AlarmLine \cup {NoAlarm}
    BY <1>8 DEF ReceiverCrash
  <2>5. torn' \in BOOLEAN /\ serving' \in BOOLEAN
    BY <1>1, <1>8 DEF ReceiverCrash, rawLog, ReceiverTypeOK
  <2>6. /\ clock' \in Clock /\ newest' \in 0..MaxClock /\ firstMark' \in 0..MaxClock
        /\ lastNotifier' \in 0..MaxClock /\ window' \in 0..MaxClock
        /\ heard' \in 0..MaxClock /\ safe' \in 0..MaxClock
    BY <1>1, <1>2, <1>8 DEF ReceiverCrash, rawLog, arrivals, ReceiverTypeOK
  <2>7. /\ lines' \in 0..RejectCap /\ suppressed' \in Nat
        /\ torns' \in 0..MaxTorn /\ rejects' \in 0..MaxReject
        /\ verbatim' \in Nat /\ folded' \in Nat
        /\ alarmLines' \subseteq AlarmLine /\ paged' \subseteq AlarmLine
    BY <1>1, <1>2, <1>8 DEF ReceiverCrash, rawLog, ReceiverTypeOK
  <2> QED
    BY <2>1, <2>2, <2>3, <2>4, <2>5, <2>6, <2>7 DEF ReceiverTypeOK
<1>9. ASSUME NEW d \in Deliveries, ReadBody(d) PROVE ReceiverTypeOK'
  BY <1>1, <1>2, <1>9 DEF ReadBody, rawLog, tracker, rejectState, arrivals, ReceiverTypeOK
<1>10. ASSUME NEW d \in Deliveries, LogDelivery(d) PROVE ReceiverTypeOK'
  <2>1. delivery[d].at \in 0..MaxClock
    BY <1>1, <1>2 DEF ReceiverTypeOK
  <2>2. newest' \in 0..MaxClock /\ heard' \in 0..MaxClock
    BY <1>1, <1>2, <1>10, <2>1 DEF LogDelivery, Later, ReceiverTypeOK
  <2>3. torn' \in BOOLEAN /\ torns' \in 0..MaxTorn
    BY <1>4, <1>10 DEF LogDelivery
  <2>4. delivery' \in [Deliveries -> [state : {"idle", "read", "track", "glued"},
                                      at : 0..MaxClock, kind : Kinds]]
    BY <1>1, <1>2, <1>10 DEF LogDelivery, ReceiverTypeOK, Idle, Kinds
  <2> QED
    BY <1>1, <1>2, <1>10, <2>2, <2>3, <2>4 DEF LogDelivery, tracker, rejectState, ReceiverTypeOK
<1>11. ASSUME NEW d \in Deliveries, TrackHeartbeat(d) PROVE ReceiverTypeOK'
  <2>1. delivery[d].at \in 0..MaxClock
    BY <1>1, <1>2 DEF ReceiverTypeOK
  <2>2. safe' \in 0..MaxClock /\ lastNotifier' \in 0..MaxClock
    BY <1>1, <1>2, <1>11, <2>1 DEF TrackHeartbeat, Later, ReceiverTypeOK
  <2>3. delivery' \in [Deliveries -> [state : {"idle", "read", "track", "glued"},
                                      at : 0..MaxClock, kind : Kinds]]
    BY <1>1, <1>2, <1>11 DEF TrackHeartbeat, ReceiverTypeOK, Idle, Kinds
  <2> QED
    BY <1>1, <1>2, <1>11, <2>2, <2>3 DEF TrackHeartbeat, rawLog, rejectState, ReceiverTypeOK
<1>12. CASE AuthReject
  <2>1. /\ window' \in 0..MaxClock /\ lines' \in 0..RejectCap /\ suppressed' \in Nat
        /\ rejects' \in 0..MaxReject
    BY <1>1, <1>2, <1>12 DEF AuthReject, ReceiverTypeOK
  <2>2. folded' \in Nat /\ verbatim' \in Nat /\ surfaced' \in Nat
    BY <1>1, <1>2, <1>12 DEF AuthReject, Summarise, ReceiverTypeOK
  <2>3. torn' \in BOOLEAN /\ torns' \in 0..MaxTorn
    BY <1>1, <1>2, <1>4, <1>12 DEF AuthReject, ReceiverTypeOK
  <2> QED
    BY <1>1, <1>2, <1>12, <2>1, <2>2, <2>3 DEF AuthReject, tracker, arrivals, ReceiverTypeOK
<1>13. CASE CheckAlarm
  <2>1. NewAlarm \in AlarmLine /\ NewAlarm # NoAlarm
    <3>1. lastNotifier \in Clock
      BY <1>13 DEF CheckAlarm, ReceiverInv, LogTrue
    <3> QED
      BY <1>1, <1>2, <3>1, NoAlarmIsNone DEF NewAlarm, AlarmLine, ReceiverTypeOK
  <2>2. torn' \in BOOLEAN /\ torns' \in 0..MaxTorn
    BY <1>1, <1>2, <1>4, <1>13 DEF CheckAlarm, ReceiverTypeOK
  <2>3. /\ alarmLines' \subseteq AlarmLine /\ alarmed' \in BOOLEAN
        /\ alarmPayload' \in AlarmLine \cup {NoAlarm} /\ posting' \in AlarmLine \cup {NoAlarm}
        /\ (alarmed' <=> alarmPayload' # NoAlarm)
    <3>1. \/ /\ alarmLines' = alarmLines \cup {NewAlarm}
             /\ alarmed' = TRUE /\ alarmPayload' = NewAlarm /\ posting' = NewAlarm
          \/ /\ alarmLines' = alarmLines /\ alarmed' = alarmed /\ alarmPayload' = alarmPayload
             /\ posting' \in {posting, alarmPayload}
      BY <1>13 DEF CheckAlarm
    <3>2. /\ alarmLines \subseteq AlarmLine /\ alarmed \in BOOLEAN
          /\ alarmPayload \in AlarmLine \cup {NoAlarm} /\ posting \in AlarmLine \cup {NoAlarm}
          /\ (alarmed <=> alarmPayload # NoAlarm)
      BY <1>1 DEF ReceiverTypeOK
    <3>3. /\ alarmLines' \subseteq AlarmLine
          /\ alarmPayload' \in AlarmLine \cup {NoAlarm} /\ posting' \in AlarmLine \cup {NoAlarm}
      BY <2>1, <3>1, <3>2
    <3>4. CASE alarmed' = TRUE /\ alarmPayload' = NewAlarm
      BY <2>1, <3>3, <3>4
    <3>5. CASE alarmed' = alarmed /\ alarmPayload' = alarmPayload
      BY <3>2, <3>3, <3>5
    <3> QED
      BY <3>1, <3>4, <3>5
  <2> QED
    BY <1>1, <1>2, <1>13, <2>2, <2>3 DEF CheckAlarm, rejectState, arrivals, ReceiverTypeOK
<1>14. CASE PostAlarm
  BY <1>1, <1>2, <1>14 DEF PostAlarm, rawLog, tracker, rejectState, arrivals, ReceiverTypeOK
<1> QED
  BY <1>3, <1>5, <1>6, <1>7, <1>8, <1>9, <1>10, <1>11, <1>12, <1>13, <1>14 DEF ReceiverNext

\* A handler's stamp is true of the log as it was written (LogDelivery), and it is served
\* within its lag.
LEMMA DeliveriesStep == ReceiverInv /\ [ReceiverNext]_receiverVars => DeliveriesTrue'
<1> SUFFICES ASSUME ReceiverInv, [ReceiverNext]_receiverVars PROVE DeliveriesTrue'
  OBVIOUS
<1>1. /\ clock \in Nat /\ clock \in Clock /\ heard \in Nat /\ newest \in Nat /\ MaxClock \in Nat
      /\ \A d \in Deliveries : delivery[d].at \in Nat
      /\ delivery \in [Deliveries -> [state : {"idle", "read", "track", "glued"},
                                      at : 0..MaxClock, kind : Kinds]]
  BY ReceiverAssumption DEF ReceiverInv, ReceiverTypeOK, Clock
<1>2. DeliveriesTrue /\ heard <= clock
  BY DEF ReceiverInv, LogTrue
<1>3. CASE UNCHANGED <<clock, delivery, newest, heard>>
  BY <1>2, <1>3 DEF DeliveriesTrue
<1>4. CASE ReceiverTick
  BY <1>1, <1>2, <1>4 DEF ReceiverTick, rawLog, arrivals, DeliveriesTrue, Lag
<1>5. CASE Boot
  <2>1. TrackerSeed \in Nat /\ (newest = Never /\ firstMark = Never => TrackerSeed = clock)
    BY <1>1 DEF TrackerSeed, ReceiverInv, ReceiverTypeOK
  <2>2. heard' \in Nat /\ heard <= heard'
    BY <1>1, <1>2, <1>5, <2>1 DEF Boot
  <2> QED
    BY <1>1, <1>2, <1>5, <2>2 DEF Boot, DeliveriesTrue
<1>6. CASE ReceiverCrash
  BY <1>6 DEF ReceiverCrash, DeliveriesTrue, Idle
<1>7. ASSUME NEW d \in Deliveries, ReadBody(d) PROVE DeliveriesTrue'
  <2>1. \A e \in Deliveries \ {d} : delivery'[e] = delivery[e]
    BY <1>1, <1>7 DEF ReadBody
  <2>2. delivery'[d].state = "read" /\ delivery'[d].at = clock
    BY <1>1, <1>7 DEF ReadBody
  <2> QED
    BY <1>1, <1>2, <1>7, <2>1, <2>2 DEF ReadBody, rawLog, arrivals, DeliveriesTrue, Lag
<1>8. ASSUME NEW d \in Deliveries, LogDelivery(d) PROVE DeliveriesTrue'
  <2>1. \A e \in Deliveries \ {d} : delivery'[e] = delivery[e]
    BY <1>1, <1>8 DEF LogDelivery
  <2>2. /\ heard' \in Nat /\ heard <= heard' /\ newest' \in Nat /\ newest <= newest'
    BY <1>1, <1>8 DEF LogDelivery, Later
  <2>3. \/ delivery'[d].state = "idle"
        \/ /\ delivery'[d].state \in {"track", "glued"} /\ delivery'[d].at = delivery[d].at
           /\ delivery[d].at <= heard'
           /\ delivery'[d].state = "track" => delivery[d].at <= newest'
    BY <1>1, <1>8 DEF LogDelivery, Later, Idle
  <2>4. delivery[d].state = "read" /\ clock' = clock
    BY <1>8 DEF LogDelivery
  <2> QED
    BY <1>1, <1>2, <2>1, <2>2, <2>3, <2>4 DEF DeliveriesTrue
<1>9. ASSUME NEW d \in Deliveries, TrackHeartbeat(d) PROVE DeliveriesTrue'
  <2>1. \A e \in Deliveries \ {d} : delivery'[e] = delivery[e]
    BY <1>1, <1>9 DEF TrackHeartbeat
  <2>2. delivery'[d].state = "idle"
    BY <1>1, <1>9 DEF TrackHeartbeat, Idle
  <2> QED
    BY <1>1, <1>2, <1>9, <2>1, <2>2 DEF TrackHeartbeat, rawLog, DeliveriesTrue
<1>10. CASE AliveMark \/ AuthReject \/ CheckAlarm \/ PostAlarm
  BY <1>3, <1>10 DEF AliveMark, AuthReject, CheckAlarm, PostAlarm, rawLog, arrivals
<1>11. CASE UNCHANGED receiverVars
  BY <1>3, <1>11 DEF receiverVars, rawLog, arrivals
<1> QED
  BY <1>4, <1>5, <1>6, <1>7, <1>8, <1>9, <1>10, <1>11 DEF ReceiverNext

\* The tracker never starts before what was answered 200 nor after what is on record
\* (seedTracker, scanRawLog).
LEMMA LogStep == ReceiverInv /\ [ReceiverNext]_receiverVars => LogTrue'
<1> SUFFICES ASSUME ReceiverInv, [ReceiverNext]_receiverVars PROVE LogTrue'
  OBVIOUS
<1>1. /\ clock \in Nat /\ clock \in Clock /\ heard \in Nat /\ newest \in Nat /\ MaxClock \in Nat
      /\ firstMark \in 0..MaxClock /\ newest \in 0..MaxClock /\ safe \in Nat /\ lastNotifier \in Nat
      /\ clock <= MaxClock /\ 1 <= clock
      /\ \A d \in Deliveries : delivery[d].at \in Nat
  BY ReceiverAssumption DEF ReceiverInv, ReceiverTypeOK, Clock
<1>2. LogTrue /\ DeliveriesTrue
  BY DEF ReceiverInv
<1>3. CASE UNCHANGED <<clock, newest, firstMark, heard, safe, serving, lastNotifier>>
  BY <1>2, <1>3 DEF LogTrue, SilentSince, Later
<1>4. CASE ReceiverTick
  BY <1>1, <1>2, <1>4 DEF ReceiverTick, rawLog, tracker, arrivals, LogTrue, SilentSince, Later
<1>5. CASE Boot /\ serving'
  <2>1. /\ lastNotifier' = TrackerSeed /\ firstMark' \in {firstMark, clock}
        /\ (firstMark # Never => firstMark' = firstMark)
        /\ heard' = (IF newest = Never /\ firstMark = Never THEN TrackerSeed ELSE heard)
        /\ newest' = newest /\ clock' = clock /\ safe' = safe
    BY <1>5 DEF Boot
  <2>2. TrackerSeed \in Clock /\ TrackerSeed \in Nat
    BY <1>1 DEF TrackerSeed, Clock, Never
  <2>3. newest # Never => TrackerSeed = newest
    BY DEF TrackerSeed
  <2>4. newest = Never /\ firstMark # Never => TrackerSeed = firstMark
    BY DEF TrackerSeed
  <2>5. newest = Never /\ firstMark = Never => TrackerSeed = clock
    BY DEF TrackerSeed
  <2>6. safe <= newest /\ newest <= heard /\ heard <= clock
    BY <1>2 DEF LogTrue
  <2> HIDE DEF TrackerSeed
  <2>7. heard' \in Nat /\ firstMark' \in Nat /\ heard <= heard' /\ heard' <= clock
    BY <1>1, <2>1, <2>2, <2>5, <2>6
  <2>8. lastNotifier' <= heard' \/ lastNotifier' <= firstMark'
    BY <1>1, <2>1, <2>2, <2>3, <2>4, <2>5, <2>6
  <2>9. safe <= lastNotifier' + Lag
    BY <1>1, <2>1, <2>2, <2>3, <2>6 DEF Lag, Never
  <2> QED
    BY <1>1, <2>1, <2>2, <2>6, <2>7, <2>8, <2>9 DEF LogTrue, SilentSince, Later
<1>6. CASE Boot /\ ~serving'
  <2>1. UNCHANGED <<firstMark, newest, heard, clock, safe>>
    BY <1>6 DEF Boot
  <2> QED
    BY <1>2, <1>6, <2>1 DEF LogTrue
<1>7. CASE AliveMark
  <2>1. /\ firstMark' \in {firstMark, clock} /\ (firstMark # Never => firstMark' = firstMark)
        /\ UNCHANGED <<clock, newest, heard, safe, serving, lastNotifier>>
    BY <1>7 DEF AliveMark, tracker, arrivals
  <2> QED
    BY <1>1, <1>2, <2>1 DEF LogTrue, SilentSince, Later, Never
<1>8. CASE ReceiverCrash
  BY <1>2, <1>8 DEF ReceiverCrash, rawLog, arrivals, LogTrue
<1>9. ASSUME NEW d \in Deliveries, LogDelivery(d) PROVE LogTrue'
  <2>1. delivery[d].at <= clock
    BY <1>2, <1>9 DEF LogDelivery, DeliveriesTrue
  <2>2. \/ heard' = Later(heard, delivery[d].at) /\ newest' = Later(newest, delivery[d].at)
        \/ heard' = Later(heard, delivery[d].at) /\ newest' = newest
        \/ heard' = heard /\ newest' = newest
    BY <1>9 DEF LogDelivery
  <2>3. UNCHANGED <<clock, firstMark, serving, lastNotifier, safe>>
    BY <1>9 DEF LogDelivery, tracker
  <2> QED
    BY <1>1, <1>2, <2>1, <2>2, <2>3 DEF LogTrue, SilentSince, Later
<1>10. ASSUME NEW d \in Deliveries, TrackHeartbeat(d) PROVE LogTrue'
  <2>1. /\ delivery[d].state \in {"track", "glued"} /\ lastNotifier' = delivery[d].at
        /\ safe' = IF delivery[d].state = "track" THEN Later(safe, delivery[d].at) ELSE safe
        /\ UNCHANGED <<clock, newest, firstMark, heard, serving>>
    BY <1>10 DEF TrackHeartbeat, rawLog
  <2>2. /\ delivery[d].at \in Clock /\ delivery[d].at <= clock /\ clock <= delivery[d].at + Lag
        /\ delivery[d].at <= heard
        /\ delivery[d].state = "track" => delivery[d].at <= newest
    BY <1>2, <2>1 DEF DeliveriesTrue
  <2> QED
    BY <1>1, <1>2, <2>1, <2>2 DEF LogTrue, SilentSince, Later, Lag
<1>11. CASE (\E d \in Deliveries : ReadBody(d)) \/ AuthReject \/ CheckAlarm \/ PostAlarm
  BY <1>3, <1>11 DEF ReadBody, AuthReject, CheckAlarm, PostAlarm, rawLog, tracker, arrivals
<1>12. CASE UNCHANGED receiverVars
  BY <1>3, <1>12 DEF receiverVars, rawLog, tracker, arrivals
<1> QED
  BY <1>4, <1>5, <1>6, <1>7, <1>8, <1>9, <1>10, <1>11, <1>12 DEF ReceiverNext

\* Alarms are logged before they are paged (checkAlarm).
LEMMA AlarmsStep == ReceiverInv /\ [ReceiverNext]_receiverVars => AlarmsLogged'
<1> SUFFICES ASSUME ReceiverInv, [ReceiverNext]_receiverVars PROVE AlarmsLogged'
  OBVIOUS
<1>1. AlarmsLogged
  BY DEF ReceiverInv
<1>2. CASE UNCHANGED <<alarmLines, alarmed, alarmPayload, posting, paged>>
  BY <1>1, <1>2 DEF AlarmsLogged
<1>3. CASE CheckAlarm
  <2>1. \/ /\ alarmLines' = alarmLines \cup {NewAlarm}
           /\ alarmed' = TRUE /\ alarmPayload' = NewAlarm /\ posting' = NewAlarm
        \/ /\ alarmLines' = alarmLines /\ alarmed' = alarmed /\ alarmPayload' = alarmPayload
           /\ posting' = posting
        \/ /\ alarmed
           /\ alarmLines' = alarmLines /\ alarmed' = alarmed /\ alarmPayload' = alarmPayload
           /\ posting' = alarmPayload
    BY <1>3 DEF CheckAlarm
  <2>2. paged' = paged
    BY <1>3 DEF CheckAlarm
  <2> QED
    BY <1>1, <2>1, <2>2 DEF AlarmsLogged
<1>4. CASE PostAlarm
  BY <1>1, <1>4 DEF PostAlarm, rawLog, tracker, AlarmsLogged
<1>5. CASE ReceiverCrash
  BY <1>1, <1>5 DEF ReceiverCrash, rawLog, AlarmsLogged
<1>6. ASSUME NEW d \in Deliveries, TrackHeartbeat(d) PROVE AlarmsLogged'
  BY <1>1, <1>6 DEF TrackHeartbeat, rawLog, AlarmsLogged
<1>7. ASSUME NEW d \in Deliveries, ReadBody(d) \/ LogDelivery(d) PROVE AlarmsLogged'
  BY <1>2, <1>7 DEF ReadBody, LogDelivery, rawLog, tracker
<1>8. CASE ReceiverTick \/ Boot \/ AliveMark \/ AuthReject
  BY <1>2, <1>8 DEF ReceiverTick, Boot, AliveMark, AuthReject, rawLog, tracker
<1>9. CASE UNCHANGED receiverVars
  BY <1>2, <1>9 DEF receiverVars, rawLog, tracker
<1> QED
  BY <1>3, <1>4, <1>5, <1>6, <1>7, <1>8, <1>9 DEF ReceiverNext

\* A request with a wrong bearer is counted in one place (recordAuthReject).
LEMMA RejectsStep == ReceiverInv /\ [ReceiverNext]_receiverVars => EveryRejectAccounted'
<1> SUFFICES ASSUME ReceiverInv, [ReceiverNext]_receiverVars PROVE EveryRejectAccounted'
  OBVIOUS
<1>1. /\ rejects = verbatim + folded + suppressed + surfaced
      /\ verbatim \in Nat /\ folded \in Nat /\ suppressed \in Nat /\ surfaced \in Nat
  BY DEF ReceiverInv, EveryRejectAccounted, ReceiverTypeOK
<1>2. CASE UNCHANGED <<rejects, verbatim, folded, suppressed, surfaced>>
  BY <1>1, <1>2 DEF EveryRejectAccounted
<1>3. CASE AuthReject
  <2>1. /\ rejects' = rejects + 1
        /\ \/ /\ folded' = folded + suppressed /\ suppressed' = 0
              /\ \/ verbatim' = verbatim + 1 /\ surfaced' = surfaced
                 \/ verbatim' = verbatim /\ surfaced' = surfaced + 1
           \/ /\ folded' = folded /\ suppressed' = suppressed
              /\ \/ verbatim' = verbatim + 1 /\ surfaced' = surfaced
                 \/ verbatim' = verbatim /\ surfaced' = surfaced + 1
           \/ /\ folded' = folded /\ suppressed' = suppressed + 1
              /\ verbatim' = verbatim /\ surfaced' = surfaced
    BY <1>3 DEF AuthReject, Summarise
  <2> QED
    BY <1>1, <2>1 DEF EveryRejectAccounted
<1>4. CASE ReceiverCrash
  BY <1>1, <1>4 DEF ReceiverCrash, EveryRejectAccounted
<1>5. ASSUME NEW d \in Deliveries, ReadBody(d) \/ LogDelivery(d) \/ TrackHeartbeat(d)
      PROVE  EveryRejectAccounted'
  BY <1>2, <1>5 DEF ReadBody, LogDelivery, TrackHeartbeat, rejectState
<1>6. CASE ReceiverTick \/ Boot \/ AliveMark \/ CheckAlarm \/ PostAlarm
  BY <1>2, <1>6 DEF ReceiverTick, Boot, AliveMark, CheckAlarm, PostAlarm, rejectState
<1>7. CASE UNCHANGED receiverVars
  BY <1>2, <1>7 DEF receiverVars, rejectState
<1> QED
  BY <1>3, <1>4, <1>5, <1>6, <1>7 DEF ReceiverNext

\* What the receiver remembers agrees with its log, over restarts, half-written lines
\* and deliveries handled at once.
THEOREM ReceiverInvariant == ReceiverSpec => []ReceiverInv
<1>1. ReceiverInv /\ [ReceiverNext]_receiverVars => ReceiverInv'
  BY ReceiverTypeStep, DeliveriesStep, LogStep, AlarmsStep, RejectsStep DEF ReceiverInv
<1> QED
  BY <1>1, ReceiverInvInit, PTL DEF ReceiverSpec

\* A step appends an alarm only when the window since the last heartbeat that is safely
\* on record, less the lag of a handler, has passed.
LEMMA AlarmStep ==
    ReceiverInv /\ [ReceiverNext]_receiverVars
        => \A l \in alarmLines' \ alarmLines : l.fired - safe > SilenceAfter - Lag
<1> SUFFICES ASSUME ReceiverInv, [ReceiverNext]_receiverVars, NEW l \in alarmLines' \ alarmLines
             PROVE  l.fired - safe > SilenceAfter - Lag
  OBVIOUS
<1>1. CASE alarmLines' = alarmLines
  BY <1>1
<1>2. CASE CheckAlarm
  <2>1. l = NewAlarm /\ serving /\ Silent
    BY <1>2 DEF CheckAlarm
  <2>2. /\ clock \in Nat /\ safe \in Nat /\ lastNotifier \in Nat /\ SilenceAfter \in Nat
        /\ safe <= lastNotifier + Lag
    BY <2>1, ReceiverAssumption DEF ReceiverInv, ReceiverTypeOK, LogTrue, Clock
  <2> QED
    BY <2>1, <2>2 DEF NewAlarm, Silent, Lag
<1>3. CASE \E d \in Deliveries : ReadBody(d) \/ LogDelivery(d) \/ TrackHeartbeat(d)
  BY <1>1, <1>3 DEF ReadBody, LogDelivery, TrackHeartbeat, rawLog
<1>4. CASE ReceiverTick \/ Boot \/ AliveMark \/ AuthReject \/ PostAlarm \/ ReceiverCrash
  BY <1>1, <1>4 DEF ReceiverTick, Boot, AliveMark, AuthReject, PostAlarm, ReceiverCrash, rawLog
<1>5. CASE UNCHANGED receiverVars
  BY <1>1, <1>5 DEF receiverVars, rawLog
<1> QED
  BY <1>2, <1>3, <1>4, <1>5 DEF ReceiverNext

\* What the receiver measures, pages and counts is backed by its log, and it never alarms
\* before its window has passed (scanRawLog, seedTracker, checkAlarm, recordAuthReject).
THEOREM ReceiverIsHonest == ReceiverSpec => ReceiverHonest
<1>1. ReceiverInv => LogIsTruth
  BY DEF ReceiverInv, LogIsTruth, LogTrue, AlarmsLogged, NoFreshGrace, PagedIsLogged
<1>2. ReceiverSpec => []LogIsTruth
  BY <1>1, ReceiverInvariant, PTL
<1> DEFINE NotEarly == \A l \in alarmLines' \ alarmLines : l.fired - safe > SilenceAfter - Lag
<1>3. ReceiverInv /\ [ReceiverNext]_receiverVars => NotEarly
  BY AlarmStep
<1> HIDE DEF NotEarly
<1>4. ReceiverSpec => [][NotEarly]_receiverVars
  BY <1>3, ReceiverInvariant, PTL DEF ReceiverSpec
<1> QED
  BY <1>2, <1>4, PTL DEF ReceiverHonest, AlarmNeverEarly, NotEarly

-----------------------------------------------------------------------------
(* The position guard.                                                     *)

\* Where the holder of driveMu is, by what it is doing.
ProtectivePcs == {"entry", "kind", "deadline", "resize", "place", "size", "send"}
AlarmPcs      == {"sweep", "list", "recheck", "flatten?", "size", "send", "mark"}

\* A drive; what the proof does not need keeps its value.
DriveShape(d) ==
    d \in [pc : {"idle", "event"} \cup ProtectivePcs \cup AlarmPcs,
           by : {"nobody", "protective", "safety", "close"},
           live : {d.live}, todo : {d.todo}, open : {d.open}, of : {d.of}, kinds : {d.kinds},
           pos : {d.pos}, size : {d.size}, event : Nat, verified : {d.verified}, residual : Nat]

DriveStanding(d) ==
    /\ DriveShape(d)
    /\ d.by = "nobody" => d.pc = "idle"
    /\ d.by = "protective" => d.pc \in ProtectivePcs
    /\ d.by = "close" => d.pc \in {"size", "send"}
    /\ d.by # "safety" => d.event = 0
    /\ d.by = "safety" => /\ d.kinds = <<>>
                          /\ (d.pc = "event" /\ d.event = 0) \/ d.pc \in AlarmPcs

ExitShape(x) == x \in [kind : {x.kind}, size : {x.size}, status : {x.status}, ran : {x.ran}]

Alarms == [kind : {"kill", "breaker"}, flatten : BOOLEAN, served : {"no", "clear", "drive"},
           cleared : BOOLEAN, verified : BOOLEAN]

EntryRow == [status : {"none", "open", "ended"}, ran : Nat, booked : Nat]

GuardTyped ==
    /\ entry \in [EntryOrders -> EntryRow]
    /\ exits = [i \in Slots |-> exits[i]] /\ \A i \in Slots : ExitShape(exits[i])
    /\ alarms \in Seq(Alarms)
    /\ DriveStanding(drive)

\* The event at hand is one that nobody marked as done, and a clear marks what it covers.
EventTrue ==
    /\ drive.pc \in AlarmPcs /\ drive.by = "safety" =>
          drive.event \in DOMAIN alarms /\ alarms[drive.event].served # "drive"
    /\ \A i \in DOMAIN alarms : alarms[i].served = "no" => ~alarms[i].cleared

AtHand(pcs) ==
    drive.by = "safety" /\ drive.pc \in pcs /\ alarms[drive.event].served = "no"

\* What the drive has seen done stays done while the event stands.
SweepHolds ==
    AtHand({"recheck", "flatten?", "size", "send", "mark"}) /\ drive.residual = 0 => OpenEntries = {}

FlattenHolds ==
    AtHand({"mark"}) /\ drive.residual = 0 /\ Flattens(alarms[drive.event])
      => net = 0 \/ drive.event \in residue \/ drive.event \in late

\* A clear that comes too late for the last check is noticed.
ClearHolds ==
    drive.by = "safety" /\ drive.pc \in {"flatten?", "size", "send"}
        /\ alarms[drive.event].served = "clear"
      => drive.event \in overran

ExitHolds ==
    drive.by = "safety" /\ drive.pc \in {"size", "send"} => ~Has(exits, "market")

GuardInv ==
    /\ GuardTyped /\ EventTrue
    /\ SweepHolds /\ FlattenHolds /\ ClearHolds /\ ExitHolds
    /\ ServedMeansDone /\ ClearSupersedes

\* At the start nothing is open and no drive runs.
LEMMA GuardInvInit == GuardInit => GuardInv
<1> SUFFICES ASSUME GuardInit PROVE GuardInv
  OBVIOUS
<1>1. DriveStanding(drive)
  BY DEF GuardInit, NoDrive, DriveStanding, DriveShape, ProtectivePcs, AlarmPcs
<1>2. GuardTyped
  <2>1. ExitShape(NoExit)
    BY DEF ExitShape, NoExit
  <2>2. exits = [i \in Slots |-> exits[i]] /\ \A i \in Slots : ExitShape(exits[i])
    BY <2>1 DEF GuardInit
  <2>3. alarms \in Seq(Alarms)
    BY DEF GuardInit
  <2>4. entry \in [EntryOrders -> EntryRow]
    BY DEF GuardInit, EntryRow
  <2>5. QED
    BY <1>1, <2>2, <2>3, <2>4 DEF GuardTyped
<1>3. DOMAIN alarms = {} /\ drive.by = "nobody"
  BY DEF GuardInit, NoDrive
<1>4. EventTrue /\ SweepHolds /\ FlattenHolds /\ ClearHolds /\ ExitHolds
  BY <1>3 DEF EventTrue, SweepHolds, FlattenHolds, ClearHolds, ExitHolds, AtHand
<1>5. ServedMeansDone /\ ClearSupersedes
  BY <1>3 DEF ServedMeansDone, ClearSupersedes, GuardInit
<1>6. QED
  BY <1>2, <1>4, <1>5 DEF GuardInv

\* Where a drive goes on.
LEMMA ProceedStands ==
    ASSUME NEW d, DriveShape(d), d.by \in {"protective", "safety"}, d.event = 0,
           d.by = "safety" => d.kinds = <<>>
    PROVE  /\ DriveStanding(Proceed(d)) /\ Proceed(d).by \in {"nobody", d.by}
           /\ Proceed(d).pc \notin AlarmPcs
<1>1. DriveStanding(NoDrive) /\ NoDrive.by = "nobody" /\ NoDrive.pc = "idle"
  BY DEF NoDrive, DriveStanding, DriveShape, ProtectivePcs, AlarmPcs
<1>2. ASSUME d.kinds # <<>> PROVE DriveStanding([d EXCEPT !.pc = "kind"])
  BY <1>2 DEF DriveStanding, DriveShape, ProtectivePcs, AlarmPcs
<1>3. CASE d.by = "safety"
  <2>1. DriveStanding([d EXCEPT !.pc = "event"])
    BY <1>3 DEF DriveStanding, DriveShape, ProtectivePcs, AlarmPcs
  <2>2. [d EXCEPT !.pc = "event"].by = d.by /\ [d EXCEPT !.pc = "event"].pc = "event"
    BY DEF DriveShape
  <2>3. Proceed(d) = IF d.todo # {} THEN [d EXCEPT !.pc = "event"] ELSE NoDrive
    BY <1>3 DEF Proceed
  <2>4. QED
    BY <1>1, <2>1, <2>2, <2>3 DEF AlarmPcs
<1>4. CASE d.by = "protective"
  <2>1. DriveStanding([d EXCEPT !.pc = "entry"])
    BY <1>4 DEF DriveStanding, DriveShape, ProtectivePcs, AlarmPcs
  <2>2. /\ [d EXCEPT !.pc = "entry"].by = d.by /\ [d EXCEPT !.pc = "entry"].pc = "entry"
        /\ [d EXCEPT !.pc = "kind"].by = d.by /\ [d EXCEPT !.pc = "kind"].pc = "kind"
    BY DEF DriveShape
  <2>3. Proceed(d) = IF d.kinds # <<>> THEN [d EXCEPT !.pc = "kind"]
                     ELSE IF d.todo # {} THEN [d EXCEPT !.pc = "entry"] ELSE NoDrive
    BY <1>4 DEF Proceed
  <2>4. QED
    BY <1>1, <1>2, <2>1, <2>2, <2>3 DEF AlarmPcs
<1>5. QED
  BY <1>3, <1>4

\* No alarm that stands lets an entry open.
LEMMA StandingHalts ==
    ASSUME NEW i \in DOMAIN alarms, alarms[i].kind = "breaker" \/ ~alarms[i].cleared
    PROVE  Halted
BY DEF Halted

\* A step that leaves drive and alarms alone.
LEMMA QuietStep ==
    ASSUME GuardInv, GuardTyped', UNCHANGED <<drive, alarms, residue, overran, afterClear>>,
           ~Halted \/ (OpenEntries = {} => OpenEntries' = {}),
           Has(exits', "market") => Has(exits, "market"),
           UNCHANGED <<net, late>> \/ late' = DOMAIN alarms
    PROVE  GuardInv'
<1>1. EventTrue' /\ ClearHolds' /\ ClearSupersedes'
  BY DEF GuardInv, EventTrue, ClearHolds, ClearSupersedes
<1>2. ExitHolds'
  BY DEF GuardInv, ExitHolds
<1>3. SweepHolds'
  <2>1. ASSUME AtHand({"recheck", "flatten?", "size", "send", "mark"})
        PROVE  drive.event \in DOMAIN alarms /\ Halted
    BY <2>1, StandingHalts DEF GuardInv, EventTrue, AtHand, AlarmPcs
  <2>2. AtHand({"recheck", "flatten?", "size", "send", "mark"})' =
        AtHand({"recheck", "flatten?", "size", "send", "mark"})
    BY DEF AtHand
  <2>3. QED
    BY <2>1, <2>2 DEF GuardInv, SweepHolds
<1>4. FlattenHolds'
  <2>1. ASSUME AtHand({"mark"}) PROVE drive.event \in DOMAIN alarms
    BY <2>1 DEF GuardInv, EventTrue, AtHand, AlarmPcs
  <2>2. AtHand({"mark"})' = AtHand({"mark"})
    BY DEF AtHand
  <2>3. QED
    BY <2>1, <2>2 DEF GuardInv, FlattenHolds, Flattens
<1>5. ServedMeansDone'
  <2>1. ASSUME NEW i \in DOMAIN alarms, alarms[i].served = "drive", ~alarms[i].cleared
        PROVE  /\ OpenEntries' = {}
               /\ Flattens(alarms[i]) => net' = 0 \/ i \in residue \/ i \in late'
    <3>1. Halted
      BY <2>1, StandingHalts
    <3>2. /\ OpenEntries = {}
          /\ Flattens(alarms[i]) => net = 0 \/ i \in residue \/ i \in late
      BY <2>1 DEF GuardInv, ServedMeansDone
    <3>3. QED
      BY <2>1, <3>1, <3>2
  <2>2. QED
    BY <2>1 DEF ServedMeansDone, Flattens
<1>6. QED
  BY <1>1, <1>2, <1>3, <1>4, <1>5 DEF GuardInv

\* A step after which no event is at hand.
LEMMA NoEventStep ==
    ASSUME GuardInv, GuardTyped', UNCHANGED <<entry, alarms, net, late, afterClear>>,
           ~(drive'.by = "safety" /\ drive'.pc \in AlarmPcs),
           residue \subseteq residue', overran \subseteq overran'
    PROVE  GuardInv'
<1>1. EventTrue' /\ SweepHolds' /\ FlattenHolds' /\ ClearHolds' /\ ExitHolds'
  BY DEF GuardInv, EventTrue, SweepHolds, FlattenHolds, ClearHolds, ExitHolds, AtHand, AlarmPcs
<1>2. ClearSupersedes'
  BY DEF GuardInv, ClearSupersedes
<1>3. OpenEntries' = OpenEntries
  BY DEF OpenEntries
<1>4. ServedMeansDone'
  BY <1>3 DEF GuardInv, ServedMeansDone, Flattens
<1>5. QED
  BY <1>1, <1>2, <1>4 DEF GuardInv

\* Orders keep their shape.
LEMMA ExitsTyped ==
    ASSUME exits = [i \in Slots |-> exits[i]], \A i \in Slots : ExitShape(exits[i]),
           NEW i \in Slots, NEW x, ExitShape(x)
    PROVE  LET e == [exits EXCEPT ![i] = x]
           IN  e = [j \in Slots |-> e[j]] /\ \A j \in Slots : ExitShape(e[j])
OBVIOUS

LEMMA CancelTyped ==
    ASSUME exits = [i \in Slots |-> exits[i]], \A i \in Slots : ExitShape(exits[i]),
           NEW but, NEW failing
    PROVE  LET e == CancelResting(but, failing)
           IN  /\ e = [j \in Slots |-> e[j]] /\ \A j \in Slots : ExitShape(e[j])
               /\ \A j \in Slots : Live(e[j]) => e[j] = exits[j]
<1>1. ExitShape(NoExit) /\ ~Live(NoExit)
  BY DEF ExitShape, NoExit, Live
<1>2. ASSUME NEW j \in Slots
      PROVE  ExitShape([exits[j] EXCEPT !.status = "done"]) /\ ~Live([exits[j] EXCEPT !.status = "done"])
  BY <1>2 DEF ExitShape, Live
<1>3. QED
  BY <1>1, <1>2 DEF CancelResting

-----------------------------------------------------------------------------
\* What the exchange executes and what is booked.
LEMMA EnterStep ==
    ASSUME GuardInv, NEW e \in EntryOrders, Enter(e) \/ EntryExecutes(e) PROVE GuardInv'
<1>1. GuardTyped'
  <2>1. entry' \in [EntryOrders -> EntryRow]
    <3>1. entry \in [EntryOrders -> EntryRow]
      BY DEF GuardInv, GuardTyped, EntryRow
    <3>2. entry' = [entry EXCEPT ![e].status = "open"] \/ entry' = [entry EXCEPT ![e].ran = @ + 1]
      BY DEF Enter, EntryExecutes
    <3>3. [entry[e] EXCEPT !.status = "open"] \in EntryRow /\ [entry[e] EXCEPT !.ran = @ + 1] \in EntryRow
      BY <3>1 DEF EntryRow
    <3>4. \/ entry' = [entry EXCEPT ![e] = [entry[e] EXCEPT !.status = "open"]]
          \/ entry' = [entry EXCEPT ![e] = [entry[e] EXCEPT !.ran = @ + 1]]
      BY <3>1, <3>2
    <3>5. QED
      BY <3>1, <3>3, <3>4 DEF EntryRow
  <2>2. UNCHANGED <<exits, alarms, drive>>
    BY DEF Enter, EntryExecutes, safety
  <2>3. QED
    BY <2>1, <2>2 DEF GuardInv, GuardTyped
<1>2. CASE Enter(e)
  <2>1. /\ UNCHANGED <<drive, alarms, residue, overran, afterClear, exits, net, late>>
        /\ ~Halted
    BY <1>2 DEF Enter, safety, ghostly
  <2>2. Has(exits', "market") => Has(exits, "market")
    BY <2>1
  <2>3. QED
    BY <1>1, <2>1, <2>2, QuietStep
<1>3. CASE EntryExecutes(e)
  <2>1. UNCHANGED <<drive, alarms, residue, overran, afterClear, exits, net, late>>
    BY <1>3 DEF EntryExecutes, safety, ghostly
  <2>2. OpenEntries' = OpenEntries
    BY <1>3 DEF EntryExecutes, OpenEntries, GuardInv, GuardTyped
  <2>3. Has(exits', "market") => Has(exits, "market")
    BY <2>1
  <2>4. QED
    BY <1>1, <2>1, <2>2, <2>3, QuietStep
<1>4. QED
  BY <1>2, <1>3

LEMMA BookEntryStep ==
    ASSUME GuardInv, NEW e \in EntryOrders, BookEntryFill(e) PROVE GuardInv'
<1>1. UNCHANGED <<drive, alarms, residue, overran, afterClear, exits>> /\ late' = DOMAIN alarms
  BY DEF BookEntryFill, safety
<1>2. /\ entry' \in [EntryOrders -> EntryRow]
      /\ \A x \in EntryOrders : entry'[x].status = "open" => entry[x].status = "open"
  <2>1. entry' = [entry EXCEPT ![e].booked = entry[e].booked + 1,
                    ![e].status = IF entry[e].booked + 1 = Units[e] THEN "ended" ELSE @]
    BY DEF BookEntryFill
  <2>2. entry \in [EntryOrders -> EntryRow]
    BY DEF GuardInv, GuardTyped
  <2> DEFINE x == [entry[e] EXCEPT !.booked = entry[e].booked + 1]
             y == [x EXCEPT !.status = IF entry[e].booked + 1 = Units[e] THEN "ended" ELSE x.status]
  <2>3. y \in EntryRow /\ (y.status = "open" => entry[e].status = "open")
    <3>1. entry[e] \in EntryRow
      BY <2>2 DEF EntryRow
    <3>2. x \in EntryRow /\ x.status = entry[e].status
      BY <3>1 DEF EntryRow
    <3> HIDE DEF x
    <3>3. QED
      BY <3>2 DEF EntryRow
  <2>4. entry' = [entry EXCEPT ![e] = y]
    BY <2>1, <2>2
  <2> HIDE DEF x, y
  <2>5. QED
    BY <2>2, <2>3, <2>4 DEF EntryRow
<1>3. GuardTyped'
  BY <1>1, <1>2 DEF GuardInv, GuardTyped
<1>4. OpenEntries = {} => OpenEntries' = {}
  BY <1>2 DEF OpenEntries
<1>5. Has(exits', "market") => Has(exits, "market")
  BY <1>1
<1>6. QED
  BY <1>1, <1>3, <1>4, <1>5, QuietStep

\* An exit runs, is found again or is booked.
LEMMA ExitStepStands ==
    ASSUME GuardInv, NEW i \in Slots, ExitExecutes(i) \/ BookExitFill(i) \/ ResolveExit(i)
    PROVE  GuardInv'
<1>1. /\ UNCHANGED <<drive, alarms, residue, overran, afterClear, entry>>
      /\ UNCHANGED <<net, late>> \/ late' = DOMAIN alarms
  BY DEF ExitExecutes, BookExitFill, ResolveExit, safety, ghostly
<1>2. exits = [j \in Slots |-> exits[j]] /\ \A j \in Slots : ExitShape(exits[j])
  BY DEF GuardInv, GuardTyped
<1>3. ExitShape(NoExit) /\ ~Live(NoExit)
  BY DEF ExitShape, NoExit, Live
<1>4. /\ exits' = [j \in Slots |-> exits'[j]] /\ \A j \in Slots : ExitShape(exits'[j])
      /\ \A j \in Slots : Live(exits'[j]) => Live(exits[j]) /\ exits'[j].kind = exits[j].kind
  <2>1. CASE ExitExecutes(i)
    <3>1. exits' = [exits EXCEPT ![i] = [exits[i] EXCEPT !.ran = TRUE]]
      BY <2>1, <1>2 DEF ExitExecutes
    <3>2. LET x == [exits[i] EXCEPT !.ran = TRUE]
          IN  ExitShape(x) /\ (Live(x) => Live(exits[i])) /\ x.kind = exits[i].kind
      BY <1>2 DEF ExitShape, Live
    <3>3. QED
      BY <1>2, <3>1, <3>2
  <2>2. CASE ResolveExit(i)
    <3>1. PICK s \in {"done", "open"} :
             exits' = [exits EXCEPT ![i] = [exits[i] EXCEPT !.status = s]]
               \/ exits' = [exits EXCEPT ![i] = NoExit]
      <4>1. CASE exits' = [exits EXCEPT ![i] = NoExit]
        BY <4>1
      <4>2. CASE exits' = [exits EXCEPT ![i].status = IF exits[i].ran THEN "done" ELSE "open"]
        BY <4>2, <1>2
      <4>3. QED
        BY <2>2, <4>1, <4>2 DEF ResolveExit
    <3>2. LET x == [exits[i] EXCEPT !.status = s]
          IN  ExitShape(x) /\ x.kind = exits[i].kind
      BY <1>2 DEF ExitShape
    <3>3. Live(exits[i])
      BY <2>2 DEF ResolveExit, Live
    <3>4. QED
      BY <1>2, <1>3, <3>1, <3>2, <3>3
  <2>3. CASE BookExitFill(i)
    <3>1. CASE exits' = [exits EXCEPT ![i] = NoExit]
      BY <1>2, <1>3, <3>1
    <3>2. CASE \E failing : exits' = [CancelResting(i, failing) EXCEPT ![i] = NoExit]
      <4>1. PICK failing : exits' = [CancelResting(i, failing) EXCEPT ![i] = NoExit]
        BY <3>2
      <4> DEFINE c == CancelResting(i, failing)
      <4>2. /\ c = [j \in Slots |-> c[j]] /\ \A j \in Slots : ExitShape(c[j])
            /\ \A j \in Slots : Live(c[j]) => c[j] = exits[j]
        BY <1>2, CancelTyped
      <4>3. exits' = [c EXCEPT ![i] = NoExit]
        BY <4>1
      <4> HIDE DEF c
      <4>4. QED
        BY <1>2, <1>3, <4>2, <4>3
    <3>3. QED
      BY <2>3, <3>1, <3>2 DEF BookExitFill
  <2>4. QED
    BY <2>1, <2>2, <2>3
<1>5. GuardTyped'
  BY <1>1, <1>4 DEF GuardInv, GuardTyped
<1>6. Has(exits', "market") => Has(exits, "market")
  BY <1>4 DEF Has
<1>7. OpenEntries' = OpenEntries
  BY <1>1 DEF OpenEntries
<1>8. QED
  BY <1>1, <1>5, <1>6, <1>7, QuietStep

\* Deadlines pass.
LEMMA DeadlinesStep == ASSUME GuardInv, DeadlinesPass PROVE GuardInv'
<1>1. UNCHANGED <<drive, alarms, residue, overran, afterClear, entry, exits, net, late>>
  BY DEF DeadlinesPass, safety, ghostly
<1>2. GuardTyped' /\ OpenEntries' = OpenEntries /\ (Has(exits', "market") => Has(exits, "market"))
  BY <1>1 DEF GuardInv, GuardTyped, OpenEntries
<1>3. QED
  BY <1>1, <1>2, QuietStep

\* Alarms are added, or only their time changes.
LEMMA AlarmRowsStep ==
    ASSUME GuardInv, alarms' \in Seq(Alarms), DOMAIN alarms \subseteq DOMAIN alarms',
           \A i \in DOMAIN alarms :
              /\ alarms'[i].kind = alarms[i].kind /\ alarms'[i].flatten = alarms[i].flatten
              /\ alarms'[i].served = alarms[i].served /\ alarms'[i].cleared = alarms[i].cleared,
           \A i \in DOMAIN alarms' \ DOMAIN alarms : alarms'[i].served = "no" /\ ~alarms'[i].cleared,
           UNCHANGED <<entry, exits, net, residue, late, overran, afterClear>>,
           drive' \in {drive, NoDrive}
    PROVE  GuardInv'
<1>1. DriveStanding(NoDrive) /\ NoDrive.by = "nobody"
  BY DEF NoDrive, DriveStanding, DriveShape, ProtectivePcs, AlarmPcs
<1>2. GuardTyped'
  BY <1>1 DEF GuardInv, GuardTyped
<1>3. OpenEntries' = OpenEntries
  BY DEF OpenEntries
<1>4. ServedMeansDone' /\ ClearSupersedes'
  BY <1>3 DEF GuardInv, ServedMeansDone, ClearSupersedes, Flattens
<1>5. \A i \in DOMAIN alarms' : alarms'[i].served = "no" => ~alarms'[i].cleared
  BY DEF GuardInv, EventTrue
<1>6. CASE drive' = NoDrive
  BY <1>1, <1>2, <1>4, <1>5, <1>6
     DEF GuardInv, EventTrue, SweepHolds, FlattenHolds, ClearHolds, ExitHolds, AtHand
<1>7. CASE drive' = drive
  <2>1. EventTrue'
    BY <1>5, <1>7 DEF GuardInv, EventTrue
  <2>2. drive.pc \in AlarmPcs /\ drive.by = "safety" =>
          /\ drive.event \in DOMAIN alarms
          /\ alarms'[drive.event].served = alarms[drive.event].served
          /\ Flattens(alarms'[drive.event]) = Flattens(alarms[drive.event])
    BY DEF GuardInv, EventTrue, Flattens
  <2>3. SweepHolds' /\ FlattenHolds'
    BY <1>3, <1>7, <2>2 DEF GuardInv, SweepHolds, FlattenHolds, AtHand, AlarmPcs
  <2>4. ClearHolds' /\ ExitHolds'
    BY <1>7, <2>2 DEF GuardInv, ClearHolds, ExitHolds, AlarmPcs
  <2>5. QED
    BY <1>2, <1>4, <2>1, <2>3, <2>4 DEF GuardInv
<1>8. QED
  BY <1>6, <1>7

\* A row per alarm is a sequence again.
LEMMA AlarmRows ==
    ASSUME alarms \in Seq(Alarms), NEW f, f = [i \in DOMAIN alarms |-> f[i]],
           \A i \in DOMAIN alarms : f[i] \in Alarms
    PROVE  f \in Seq(Alarms) /\ DOMAIN f = DOMAIN alarms
<1>1. Len(alarms) \in Nat /\ DOMAIN alarms = 1..Len(alarms)
  BY LenProperties
<1>2. f \in [1..Len(alarms) -> Alarms]
  BY <1>1
<1>3. QED
  BY <1>1, <1>2, SeqDef

\* A reconcile ends, the process ends: only the times of verification change.
LEMMA VerifiedStep == ASSUME GuardInv, ReconcileEnds \/ GuardCrash PROVE GuardInv'
<1>1. alarms \in Seq(Alarms) /\ \A i \in DOMAIN alarms : alarms[i] \in Alarms
  BY ElementOfSeq, LenProperties DEF GuardInv, GuardTyped
<1>2. PICK b \in BOOLEAN : alarms' = [i \in DOMAIN alarms |-> [alarms[i] EXCEPT !.verified = b]]
  BY DEF ReconcileEnds, GuardCrash
<1>3. \A i \in DOMAIN alarms :
        /\ alarms'[i] \in Alarms
        /\ alarms'[i].kind = alarms[i].kind /\ alarms'[i].flatten = alarms[i].flatten
        /\ alarms'[i].served = alarms[i].served /\ alarms'[i].cleared = alarms[i].cleared
  <2>1. ASSUME NEW i \in DOMAIN alarms, NEW a, a = alarms[i]
        PROVE  LET x == [a EXCEPT !.verified = b]
               IN  /\ x \in Alarms /\ x.kind = a.kind /\ x.flatten = a.flatten
                   /\ x.served = a.served /\ x.cleared = a.cleared
    BY <1>1, <2>1 DEF Alarms
  <2>2. QED
    BY <1>2, <2>1
<1>4. alarms' \in Seq(Alarms) /\ DOMAIN alarms' = DOMAIN alarms
  BY <1>1, <1>2, <1>3, AlarmRows
<1>5. /\ UNCHANGED <<entry, exits, net, residue, late, overran, afterClear>>
      /\ drive' \in {drive, NoDrive}
  BY DEF ReconcileEnds, GuardCrash, ghostly
<1>6. QED
  BY <1>3, <1>4, <1>5, AlarmRowsStep

LEMMA RaiseStep ==
    ASSUME GuardInv, NEW k \in {"kill", "breaker"}, NEW f \in BOOLEAN, RaiseAlarm(k, f)
    PROVE  GuardInv'
<1> DEFINE a == [kind |-> k, flatten |-> f, served |-> "no", cleared |-> FALSE, verified |-> FALSE]
<1>1. a \in Alarms /\ a.served = "no" /\ ~a.cleared
  BY DEF Alarms
<1>2. alarms' = Append(alarms, a)
  BY DEF RaiseAlarm
<1>3. alarms \in Seq(Alarms) /\ Len(alarms) \in Nat /\ DOMAIN alarms = 1..Len(alarms)
  BY LenProperties DEF GuardInv, GuardTyped
<1> HIDE DEF a
<1>4. /\ alarms' \in Seq(Alarms) /\ DOMAIN alarms' = 1..(Len(alarms) + 1)
      /\ \A i \in 1..Len(alarms) : alarms'[i] = alarms[i]
      /\ alarms'[Len(alarms) + 1] = a
  BY <1>1, <1>2, <1>3, AppendProperties
<1>5. /\ UNCHANGED <<entry, exits, net, residue, late, overran, afterClear>>
      /\ drive' \in {drive, NoDrive}
  BY DEF RaiseAlarm, ghostly
<1>6. \A i \in DOMAIN alarms' \ DOMAIN alarms : alarms'[i] = a
  BY <1>3, <1>4
<1>7. QED
  BY <1>1, <1>3, <1>4, <1>5, <1>6, AlarmRowsStep

\* A clear: the kills it covers stand no longer.
LEMMA ClearStep == ASSUME GuardInv, ClearKills PROVE GuardInv'
<1>1. alarms \in Seq(Alarms) /\ \A i \in DOMAIN alarms : alarms[i] \in Alarms
  BY ElementOfSeq, LenProperties DEF GuardInv, GuardTyped
<1>2. \A i \in DOMAIN alarms :
        /\ alarms'[i] \in Alarms
        /\ Flattens(alarms'[i]) = Flattens(alarms[i])
        /\ i \notin Covered => alarms'[i] = alarms[i]
        /\ i \in Covered => /\ alarms'[i].cleared
                            /\ alarms'[i].served \in {"clear", alarms[i].served} \ {"no"}
  <2>2. ASSUME NEW i \in DOMAIN alarms
        PROVE  alarms'[i] = IF i \in Covered
                 THEN [[alarms[i] EXCEPT !.cleared = TRUE] EXCEPT
                         !.served = IF alarms[i].served = "no" THEN "clear" ELSE alarms[i].served]
                 ELSE alarms[i]
    <3>1. [alarms[i] EXCEPT !.cleared = TRUE].served = alarms[i].served
      BY <1>1, <2>2 DEF Alarms
    <3>2. QED
      BY <2>2, <3>1 DEF ClearKills
  <2>3. ASSUME NEW i \in DOMAIN alarms, i \in Covered
        PROVE  /\ alarms'[i] \in Alarms /\ Flattens(alarms'[i]) = Flattens(alarms[i])
               /\ alarms'[i].cleared
               /\ alarms'[i].served \in {"clear", alarms[i].served} \ {"no"}
    <3>1. PICK s \in {"clear", alarms[i].served} :
            /\ s # "no"
            /\ alarms'[i] = [[alarms[i] EXCEPT !.cleared = TRUE] EXCEPT !.served = s]
      BY <2>2, <2>3
    <3>2. alarms[i] \in Alarms
      BY <1>1, <2>3
    <3> DEFINE x == [alarms[i] EXCEPT !.cleared = TRUE]
    <3>3. /\ x \in Alarms /\ x.kind = alarms[i].kind /\ x.flatten = alarms[i].flatten
          /\ x.served = alarms[i].served /\ x.cleared = TRUE
      BY <3>2 DEF Alarms
    <3>4. alarms'[i] = [x EXCEPT !.served = s]
      BY <3>1
    <3> HIDE DEF x
    <3>5. s \in {"no", "clear", "drive"}
      BY <3>1, <3>2 DEF Alarms
    <3>6. alarms'[i] \in Alarms /\ Flattens(alarms'[i]) = Flattens(alarms[i])
      BY <3>3, <3>4, <3>5 DEF Alarms, Flattens
    <3>7. alarms'[i].cleared = TRUE /\ alarms'[i].served = s
      BY <3>3, <3>4, <3>5 DEF Alarms
    <3>8. QED
      BY <3>1, <3>6, <3>7
  <2>4. QED
    BY <1>1, <2>2, <2>3
<1>3. alarms' \in Seq(Alarms) /\ DOMAIN alarms' = DOMAIN alarms
  <2>1. alarms' = [i \in DOMAIN alarms |-> alarms'[i]]
    BY DEF ClearKills
  <2>2. QED
    BY <1>1, <1>2, <2>1, AlarmRows
<1>4. UNCHANGED <<entry, exits, net, residue, late, afterClear, drive>> /\ overran \subseteq overran'
  BY DEF ClearKills
<1>5. GuardTyped' /\ OpenEntries' = OpenEntries
  BY <1>3, <1>4 DEF GuardInv, GuardTyped, OpenEntries
<1>6. /\ ClearSupersedes' /\ ExitHolds'
  BY <1>4 DEF GuardInv, ClearSupersedes, ExitHolds
<1>7. ServedMeansDone'
  <2>1. ASSUME NEW i \in DOMAIN alarms, alarms'[i].served = "drive", ~alarms'[i].cleared
        PROVE  alarms[i].served = "drive" /\ ~alarms[i].cleared
    BY <1>2, <2>1
  <2>2. QED
    BY <1>2, <1>3, <1>4, <1>5, <2>1 DEF GuardInv, ServedMeansDone
<1>8. EventTrue'
  BY <1>2, <1>3, <1>4 DEF GuardInv, EventTrue
<1>9. ASSUME drive.by = "safety", drive.pc \in AlarmPcs
      PROVE  LET i == drive.event
             IN  /\ alarms'[i].served = "no" => alarms[i].served = "no"
                 /\ alarms'[i].served = "clear" =>
                       alarms[i].served = "clear" \/ i \in Covered
                 /\ Flattens(alarms'[i]) = Flattens(alarms[i])
  BY <1>2, <1>9 DEF GuardInv, EventTrue
<1>10. SweepHolds' /\ FlattenHolds'
  BY <1>4, <1>5, <1>9 DEF GuardInv, SweepHolds, FlattenHolds, AtHand, AlarmPcs
<1>11. ClearHolds'
  <2>1. drive.pc \in {"flatten?", "size", "send"} =>
          overran' = overran \cup (Covered \cap {drive.event})
    BY DEF ClearKills
  <2>2. QED
    BY <1>4, <1>9, <2>1 DEF GuardInv, ClearHolds, AlarmPcs
<1>12. QED
  BY <1>5, <1>6, <1>7, <1>8, <1>10, <1>11 DEF GuardInv

-----------------------------------------------------------------------------
\* The drive of the protective orders.
LEMMA KindDoneStands ==
    ASSUME DriveStanding(drive), drive.by = "protective"
    PROVE  DriveStanding(KindDone) /\ KindDone.by \in {"nobody", "protective"}
<1> DEFINE d == [drive EXCEPT !.kinds = Tail(drive.kinds)]
<1>1. DriveShape(d) /\ d.by = "protective" /\ d.event = 0
  BY DEF DriveStanding, DriveShape
<1>2. KindDone = Proceed(d)
  BY DEF KindDone
<1> HIDE DEF d
<1>3. DriveStanding(Proceed(d)) /\ Proceed(d).by \in {"nobody", d.by}
  BY <1>1, ProceedStands
<1>4. QED
  BY <1>1, <1>2, <1>3

LEMMA JournaledTyped ==
    ASSUME exits = [i \in Slots |-> exits[i]], \A i \in Slots : ExitShape(exits[i]),
           NEW kind, NEW status, NEW ran, Journaled(kind, status, ran)
    PROVE  exits' = [i \in Slots |-> exits'[i]] /\ \A i \in Slots : ExitShape(exits'[i])
<1> DEFINE x == [kind |-> kind, size |-> drive.size, status |-> status, ran |-> ran]
<1>1. ExitShape(x)
  BY DEF ExitShape
<1>2. exits' = [exits EXCEPT ![Min(Vacant)] = x]
  BY DEF Journaled
<1> HIDE DEF x
<1>3. QED
  BY <1>1, <1>2

\* What the drive of the protective orders needs to stay typed.
LEMMA ProtectiveStep ==
    ASSUME GuardInv, UNCHANGED <<entry, alarms, net, residue, late, overran, afterClear>>,
           exits' = [i \in Slots |-> exits'[i]], \A i \in Slots : ExitShape(exits'[i]),
           DriveStanding(drive'), ~(drive'.by = "safety" /\ drive'.pc \in AlarmPcs)
    PROVE  GuardInv'
<1>1. GuardTyped'
  BY DEF GuardInv, GuardTyped
<1>2. QED
  BY <1>1, NoEventStep

\* A drive begins, of the protective orders, of the alarms or of a close.
LEMMA StartStep ==
    ASSUME GuardInv, StartProtectiveDrive \/ StartSafetyDrive \/ ApprovedClose PROVE GuardInv'
<1>1. /\ UNCHANGED <<entry, exits, alarms, net, residue, late, overran, afterClear>>
  BY DEF StartProtectiveDrive, StartSafetyDrive, ApprovedClose, safety, ghostly
<1>2. exits' = [i \in Slots |-> exits'[i]] /\ \A i \in Slots : ExitShape(exits'[i])
  BY <1>1 DEF GuardInv, GuardTyped
<1>3. DriveStanding(drive') /\ ~(drive'.by = "safety" /\ drive'.pc \in AlarmPcs)
  <2>1. CASE StartProtectiveDrive
    <3>1. PICK l, t, o : drive' = [NoDrive EXCEPT !.pc = "entry", !.by = "protective",
                                     !.live = l, !.todo = t, !.open = o]
      BY <2>1 DEF StartProtectiveDrive
    <3>2. QED
      BY <3>1 DEF NoDrive, DriveStanding, DriveShape, ProtectivePcs, AlarmPcs
  <2>2. CASE StartSafetyDrive
    <3>1. PICK t, v : drive' = [NoDrive EXCEPT !.pc = "event", !.by = "safety",
                                  !.todo = t, !.verified = v]
      BY <2>2 DEF StartSafetyDrive
    <3>2. QED
      BY <3>1 DEF NoDrive, DriveStanding, DriveShape, ProtectivePcs, AlarmPcs
  <2>3. CASE ApprovedClose
    BY <2>3 DEF ApprovedClose, NoDrive, DriveStanding, DriveShape, ProtectivePcs, AlarmPcs
  <2>4. QED
    BY <2>1, <2>2, <2>3
<1>4. QED
  BY <1>1, <1>2, <1>3, ProtectiveStep

LEMMA DriveEntryStep ==
    ASSUME GuardInv, NEW e \in EntryOrders, DriveEntry(e) PROVE GuardInv'
<1>1. UNCHANGED <<entry, alarms, net, residue, late, overran, afterClear>>
  BY DEF DriveEntry, safety, ghostly
<1>2. DriveStanding(drive) /\ drive.by = "protective"
  BY DEF GuardInv, GuardTyped, DriveEntry, DriveAt, DriveStanding, DriveShape, ProtectivePcs, AlarmPcs
<1> DEFINE left == [drive EXCEPT !.todo = drive.todo \ {e}]
<1>3. DriveShape(left) /\ left.by = "protective" /\ left.event = 0 /\ left.pc = drive.pc
  BY <1>2 DEF DriveStanding, DriveShape
<1>4. \/ drive' = Proceed(left)
      \/ \E p : drive' = [left EXCEPT !.pc = "kind", !.of = e, !.kinds = KindsOf(e), !.pos = p]
  BY DEF DriveEntry
<1> HIDE DEF left
<1>5. DriveStanding(drive') /\ drive'.by # "safety"
  <2>1. CASE drive' = Proceed(left)
    BY <1>3, <2>1, ProceedStands
  <2>2. CASE \E p : drive' = [left EXCEPT !.pc = "kind", !.of = e, !.kinds = KindsOf(e), !.pos = p]
    BY <1>3, <2>2 DEF DriveStanding, DriveShape, ProtectivePcs
  <2>3. QED
    BY <1>4, <2>1, <2>2
<1>6. exits' = [i \in Slots |-> exits'[i]] /\ \A i \in Slots : ExitShape(exits'[i])
  <2>1. exits' = exits \/ \E failing : exits' = CancelResting(0, failing)
    BY DEF DriveEntry
  <2>2. QED
    BY <2>1, CancelTyped DEF GuardInv, GuardTyped
<1>7. QED
  BY <1>1, <1>5, <1>6, ProtectiveStep

LEMMA DriveKindStep ==
    ASSUME GuardInv, DriveKind \/ ResizeProtective \/ PlaceProtective \/ HandleDeadline
    PROVE  GuardInv'
<1>1. UNCHANGED <<entry, alarms, net, residue, late, overran, afterClear>>
  BY DEF DriveKind, ResizeProtective, PlaceProtective, HandleDeadline, safety, ghostly
<1>2. DriveStanding(drive) /\ drive.by = "protective"
  BY DEF GuardInv, GuardTyped, DriveKind, ResizeProtective, PlaceProtective, HandleDeadline, DriveAt,
     DriveStanding, DriveShape, ProtectivePcs, AlarmPcs
<1>3. \/ drive' = KindDone
      \/ \E p \in {"deadline", "place", "size"} : drive' = [drive EXCEPT !.pc = p]
      \/ \E p \in {"resize", "place"} : \E s, o :
            drive' = [drive EXCEPT !.size = s, !.open = o, !.pc = p]
  <2>1. CASE DriveKind
    BY <2>1 DEF DriveKind, DriveTo
  <2>2. CASE ResizeProtective \/ PlaceProtective \/ HandleDeadline
    BY <2>2 DEF ResizeProtective, PlaceProtective, HandleDeadline, DriveTo
  <2>3. QED
    BY <2>1, <2>2
<1>4. DriveStanding(drive') /\ drive'.by # "safety"
  <2>1. CASE drive' = KindDone
    BY <1>2, <2>1, KindDoneStands
  <2>2. CASE \E p \in {"deadline", "place", "size"} : drive' = [drive EXCEPT !.pc = p]
    BY <1>2, <2>2 DEF DriveStanding, DriveShape, ProtectivePcs
  <2>3. CASE \E p \in {"resize", "place"} : \E s, o :
                drive' = [drive EXCEPT !.size = s, !.open = o, !.pc = p]
    BY <1>2, <2>3 DEF DriveStanding, DriveShape, ProtectivePcs
  <2>4. QED
    BY <1>3, <2>1, <2>2, <2>3
<1>5. exits' = [i \in Slots |-> exits'[i]] /\ \A i \in Slots : ExitShape(exits'[i])
  <2>1. exits = [i \in Slots |-> exits[i]] /\ \A i \in Slots : ExitShape(exits[i])
    BY DEF GuardInv, GuardTyped
  <2>2. \/ exits' = exits
        \/ \E but, failing : exits' = CancelResting(but, failing)
        \/ \E status \in {"open", "pending"} : Journaled(Kind, status, FALSE)
    BY DEF DriveKind, ResizeProtective, PlaceProtective, HandleDeadline
  <2>3. QED
    BY <2>1, <2>2, CancelTyped, JournaledTyped
<1>6. QED
  BY <1>1, <1>4, <1>5, ProtectiveStep

-----------------------------------------------------------------------------
\* The flatten, of whoever holds driveMu.
LEMMA Flatteners ==
    ASSUME GuardInv, drive.pc \in {"size", "send"}
    PROVE  /\ drive.by \in {"protective", "safety", "close"}
           /\ DriveStanding(drive) /\ drive.residual \in Nat
           /\ drive.by # "safety" => drive.event = 0
BY DEF GuardInv, GuardTyped, DriveStanding, DriveShape, ProtectivePcs, AlarmPcs

LEMMA FlattenEndsStands ==
    ASSUME GuardInv, drive.pc \in {"size", "send"}, NEW work \in Nat, FlattenEnds(work)
    PROVE  /\ DriveStanding(drive')
           /\ drive.by # "safety" => drive'.by # "safety"
           /\ drive.by = "safety" => /\ drive'.by = "safety" /\ drive'.pc = "mark"
                                     /\ drive'.event = drive.event
                                     /\ drive'.residual = drive.residual + work
<1>1. DriveStanding(drive) /\ drive.by \in {"protective", "safety", "close"} /\ drive.residual \in Nat
  BY Flatteners
<1>2. CASE drive.by = "protective"
  BY <1>1, <1>2, KindDoneStands DEF FlattenEnds
<1>3. CASE drive.by = "close"
  <2>1. drive' = NoDrive
    BY <1>3 DEF FlattenEnds
  <2>2. QED
    BY <1>3, <2>1 DEF NoDrive, DriveStanding, DriveShape
<1>4. CASE drive.by = "safety"
  <2>1. drive' = [drive EXCEPT !.pc = "mark", !.residual = drive.residual + work]
    BY <1>4 DEF FlattenEnds
  <2> DEFINE r == drive.residual + work
  <2>2. r \in Nat
    BY <1>1
  <2> HIDE DEF r
  <2>3. drive' = [drive EXCEPT !.pc = "mark", !.residual = r]
    BY <2>1 DEF r
  <2>4. /\ DriveStanding(drive') /\ drive'.by = "safety" /\ drive'.pc = "mark"
        /\ drive'.event = drive.event /\ drive'.residual = r
    BY <1>1, <1>4, <2>2, <2>3 DEF DriveStanding, DriveShape, AlarmPcs
  <2>5. QED
    BY <1>4, <2>4 DEF r
<1>5. QED
  BY <1>1, <1>2, <1>3, <1>4

LEMMA SizeStep == ASSUME GuardInv, SizeFlatten PROVE GuardInv'
<1>1. /\ UNCHANGED <<entry, exits, alarms, net, late, overran, afterClear>>
      /\ drive.pc = "size"
  BY DEF SizeFlatten, DriveAt, ghostly
<1>2. residue' \in {residue, residue \cup ({drive.event} \ {0})}
  BY DEF SizeFlatten
<1>3. exits' = [i \in Slots |-> exits'[i]] /\ \A i \in Slots : ExitShape(exits'[i])
  BY <1>1 DEF GuardInv, GuardTyped
<1>4. /\ DriveStanding(drive) /\ drive.by \in {"protective", "safety", "close"}
      /\ drive.residual \in Nat /\ (drive.by # "safety" => drive.event = 0)
  BY <1>1, Flatteners
<1>5. \/ FlattenEnds(1)
      \/ FlattenEnds(0) /\ residue' = residue \cup ({drive.event} \ {0})
      \/ \E q : drive' = [drive EXCEPT !.pc = "send", !.size = q]
  BY DEF SizeFlatten
<1>6. OpenEntries' = OpenEntries
  BY <1>1 DEF OpenEntries
<1>7. CASE drive.by # "safety"
  <2>1. DriveStanding(drive') /\ drive'.by # "safety"
    <3>1. CASE FlattenEnds(1) \/ FlattenEnds(0)
      BY <1>1, <1>7, <3>1, FlattenEndsStands
    <3>2. CASE \E q : drive' = [drive EXCEPT !.pc = "send", !.size = q]
      BY <1>4, <1>7, <3>2 DEF DriveStanding, DriveShape, ProtectivePcs
    <3>3. QED
      BY <1>5, <3>1, <3>2
  <2>2. residue' = residue
    BY <1>2, <1>4, <1>7
  <2>3. QED
    BY <1>1, <1>3, <2>1, <2>2, ProtectiveStep
<1>8. CASE drive.by = "safety"
  <2>1. /\ drive.event \in DOMAIN alarms /\ alarms[drive.event].served # "drive"
        /\ drive.event # 0
    <3>1. DOMAIN alarms = 1..Len(alarms) /\ Len(alarms) \in Nat
      BY LenProperties DEF GuardInv, GuardTyped
    <3>2. QED
      BY <1>1, <1>8, <3>1 DEF GuardInv, EventTrue, AlarmPcs
  <2>2. /\ DriveStanding(drive') /\ drive'.by = "safety" /\ drive'.event = drive.event
        /\ drive'.pc \in {"mark", "send"} /\ drive'.residual \in Nat
        /\ drive'.residual = 0 => drive.residual = 0
        /\ drive'.pc = "mark" => drive'.residual # 0 \/ drive.event \in residue'
    <3>1. CASE FlattenEnds(1)
      <4>1. /\ DriveStanding(drive') /\ drive'.by = "safety" /\ drive'.pc = "mark"
            /\ drive'.event = drive.event /\ drive'.residual = drive.residual + 1
        BY <1>1, <1>8, <3>1, FlattenEndsStands
      <4>2. QED
        BY <1>4, <4>1
    <3>2. CASE FlattenEnds(0) /\ residue' = residue \cup ({drive.event} \ {0})
      <4>1. /\ DriveStanding(drive') /\ drive'.by = "safety" /\ drive'.pc = "mark"
            /\ drive'.event = drive.event /\ drive'.residual = drive.residual + 0
        BY <1>1, <1>8, <3>2, FlattenEndsStands
      <4>2. QED
        BY <1>4, <2>1, <3>2, <4>1
    <3>3. CASE \E q : drive' = [drive EXCEPT !.pc = "send", !.size = q]
      BY <1>4, <1>8, <3>3 DEF DriveStanding, DriveShape, AlarmPcs
    <3>4. QED
      BY <1>5, <3>1, <3>2, <3>3
  <2>3. GuardTyped'
    BY <1>1, <1>3, <2>2 DEF GuardInv, GuardTyped
  <2>4. EventTrue' /\ ExitHolds' /\ ClearHolds' /\ ClearSupersedes'
    BY <1>1, <1>8, <2>1, <2>2
       DEF GuardInv, EventTrue, ExitHolds, ClearHolds, ClearSupersedes
  <2>5. SweepHolds' /\ FlattenHolds'
    BY <1>1, <1>6, <1>8, <2>2 DEF GuardInv, SweepHolds, FlattenHolds, AtHand
  <2>6. ServedMeansDone'
    BY <1>1, <1>2, <1>6 DEF GuardInv, ServedMeansDone, Flattens
  <2>7. QED
    BY <2>3, <2>4, <2>5, <2>6 DEF GuardInv
<1>9. QED
  BY <1>7, <1>8

LEMMA SendStep == ASSUME GuardInv, SendFlatten PROVE GuardInv'
<1>1. /\ UNCHANGED <<entry, alarms, residue, net, late, overran>>
      /\ drive.pc = "send" /\ FlattenEnds(1)
      /\ afterClear' = afterClear \cup
           (IF drive.event # 0 /\ alarms[drive.event].served = "clear" THEN {drive.event} ELSE {})
  BY DEF SendFlatten, DriveAt, safety
<1>2. exits' = [i \in Slots |-> exits'[i]] /\ \A i \in Slots : ExitShape(exits'[i])
  <2>1. exits' = exits \/ \E ran, status : Journaled("market", status, ran)
    BY DEF SendFlatten
  <2>2. exits = [i \in Slots |-> exits[i]] /\ \A i \in Slots : ExitShape(exits[i])
    BY DEF GuardInv, GuardTyped
  <2>3. QED
    BY <2>1, <2>2, JournaledTyped
<1>3. /\ DriveStanding(drive) /\ drive.by \in {"protective", "safety", "close"}
      /\ drive.residual \in Nat /\ (drive.by # "safety" => drive.event = 0)
  BY <1>1, Flatteners
<1>4. /\ DriveStanding(drive') /\ (drive.by # "safety" => drive'.by # "safety")
      /\ drive.by = "safety" => /\ drive'.by = "safety" /\ drive'.pc = "mark"
                                /\ drive'.event = drive.event
                                /\ drive'.residual = drive.residual + 1
  BY <1>1, FlattenEndsStands
<1>5. OpenEntries' = OpenEntries
  BY <1>1 DEF OpenEntries
<1>6. CASE drive.by # "safety"
  <2>1. afterClear' = afterClear
    BY <1>1, <1>3, <1>6
  <2>2. QED
    BY <1>1, <1>2, <1>4, <1>6, <2>1, ProtectiveStep
<1>7. CASE drive.by = "safety"
  <2>1. drive.event \in DOMAIN alarms /\ alarms[drive.event].served # "drive"
    BY <1>1, <1>7 DEF GuardInv, EventTrue, AlarmPcs
  <2>2. GuardTyped'
    BY <1>1, <1>2, <1>4 DEF GuardInv, GuardTyped
  <2>3. ClearSupersedes'
    BY <1>1, <1>7 DEF GuardInv, ClearHolds, ClearSupersedes
  <2>4. EventTrue' /\ ExitHolds' /\ ClearHolds'
    BY <1>1, <1>4, <1>7, <2>1 DEF GuardInv, EventTrue, ExitHolds, ClearHolds
  <2>5. SweepHolds' /\ FlattenHolds'
    BY <1>3, <1>4, <1>7 DEF SweepHolds, FlattenHolds
  <2>6. ServedMeansDone'
    BY <1>1, <1>5 DEF GuardInv, ServedMeansDone, Flattens
  <2>7. QED
    BY <2>2, <2>3, <2>4, <2>5, <2>6 DEF GuardInv
<1>8. QED
  BY <1>6, <1>7

-----------------------------------------------------------------------------
\* The drive of the alarms.
LEMMA DriveEventStep ==
    ASSUME GuardInv, NEW i \in DOMAIN alarms, DriveSafetyEvent(i) PROVE GuardInv'
<1>1. UNCHANGED <<entry, exits, alarms, net, residue, late, overran, afterClear>>
  BY DEF DriveSafetyEvent, safety, ghostly
<1>2. DriveStanding(drive) /\ drive.by = "safety" /\ drive.pc = "event"
  BY DEF GuardInv, GuardTyped, DriveSafetyEvent, DriveAt, DriveStanding, DriveShape, ProtectivePcs, AlarmPcs
<1>3. i \in Nat
  BY LenProperties DEF GuardInv, GuardTyped
<1> DEFINE left == [drive EXCEPT !.todo = drive.todo \ {i}]
<1>4. DriveShape(left) /\ left.by = "safety" /\ left.event = 0 /\ left.pc = "event" /\ left.kinds = <<>>
  BY <1>2 DEF DriveStanding, DriveShape, AlarmPcs
<1>5. drive' = IF alarms[i].served # "no" THEN Proceed(left)
               ELSE [left EXCEPT !.pc = "sweep", !.event = i, !.residual = 0]
  BY DEF DriveSafetyEvent
<1> HIDE DEF left
<1>6. exits' = [j \in Slots |-> exits'[j]] /\ \A j \in Slots : ExitShape(exits'[j])
  BY <1>1 DEF GuardInv, GuardTyped
<1>7. CASE alarms[i].served # "no"
  <2>1. DriveStanding(drive') /\ drive'.pc \notin AlarmPcs
    BY <1>4, <1>5, <1>7, ProceedStands
  <2>2. QED
    BY <1>1, <1>6, <2>1, ProtectiveStep
<1>8. CASE alarms[i].served = "no"
  <2>1. DriveStanding(drive') /\ drive'.by = "safety" /\ drive'.pc = "sweep" /\ drive'.event = i
    BY <1>3, <1>4, <1>5, <1>8 DEF DriveStanding, DriveShape, AlarmPcs
  <2>2. GuardTyped'
    BY <1>1, <1>6, <2>1 DEF GuardInv, GuardTyped
  <2>3. EventTrue' /\ ClearSupersedes'
    BY <1>1, <1>8, <2>1 DEF GuardInv, EventTrue, ClearSupersedes
  <2>4. SweepHolds' /\ FlattenHolds' /\ ClearHolds' /\ ExitHolds'
    BY <2>1 DEF SweepHolds, FlattenHolds, ClearHolds, ExitHolds, AtHand
  <2>5. ServedMeansDone'
    BY <1>1 DEF GuardInv, ServedMeansDone, OpenEntries, Flattens
  <2>6. QED
    BY <2>2, <2>3, <2>4, <2>5 DEF GuardInv
<1>9. QED
  BY <1>7, <1>8

\* A step on the event at hand that touches no row.
LEMMA AtHandStep ==
    ASSUME GuardInv, drive.by = "safety", drive.pc \in AlarmPcs,
           UNCHANGED <<exits, alarms, net, residue, overran, afterClear>>,
           entry' \in [EntryOrders -> EntryRow], OpenEntries' \subseteq OpenEntries,
           late' = late \/ late' = late \ {drive.event},
           NEW p \in {"list", "recheck", "flatten?", "mark"},
           NEW r \in Nat, NEW l, drive' = [drive EXCEPT !.live = l, !.residual = r, !.pc = p]
    PROVE  /\ GuardTyped' /\ EventTrue' /\ ExitHolds' /\ ServedMeansDone' /\ ClearSupersedes'
           /\ drive'.by = "safety" /\ drive'.pc = p /\ drive'.event = drive.event
           /\ drive'.residual = r
<1>1. DriveStanding(drive)
  BY DEF GuardInv, GuardTyped
<1>2. /\ DriveStanding(drive') /\ drive'.by = "safety" /\ drive'.pc = p
      /\ drive'.event = drive.event /\ drive'.residual = r
  BY <1>1 DEF DriveStanding, DriveShape, AlarmPcs
<1>3. drive.event \in DOMAIN alarms /\ alarms[drive.event].served # "drive"
  BY DEF GuardInv, EventTrue
<1>4. GuardTyped'
  BY <1>2 DEF GuardInv, GuardTyped
<1>5. EventTrue' /\ ExitHolds' /\ ClearSupersedes'
  BY <1>2, <1>3 DEF GuardInv, EventTrue, ExitHolds, ClearSupersedes
<1>6. ServedMeansDone'
  BY <1>3 DEF GuardInv, ServedMeansDone, Flattens
<1>7. QED
  BY <1>2, <1>4, <1>5, <1>6

\* The holder is at the pc of an alarm's event.
LEMMA AlarmDriver ==
    ASSUME GuardInv, drive.pc \in {"sweep", "list", "recheck", "flatten?", "mark"}
    PROVE  /\ DriveStanding(drive) /\ drive.by = "safety" /\ drive.pc \in AlarmPcs
           /\ drive.residual \in Nat /\ drive.event \in DOMAIN alarms
           /\ alarms[drive.event].served # "drive"
<1>1. DriveStanding(drive) /\ drive.by = "safety" /\ drive.pc \in AlarmPcs /\ drive.residual \in Nat
  BY DEF GuardInv, GuardTyped, DriveStanding, DriveShape, ProtectivePcs, AlarmPcs
<1>2. QED
  BY <1>1 DEF GuardInv, EventTrue

\* The sweep of the entries, and the count of what it left.
LEMMA SweepEntriesStep == ASSUME GuardInv, SweepEntries PROVE GuardInv'
<1>1. /\ drive.pc = "sweep" /\ drive' = [drive EXCEPT !.pc = "list"]
      /\ UNCHANGED <<exits, alarms, net, residue, late, overran, afterClear>>
  BY DEF SweepEntries, DriveAt, DriveTo, safety, ghostly
<1>2. /\ entry' \in [EntryOrders -> EntryRow] /\ OpenEntries' \subseteq OpenEntries
  <2>1. entry \in [EntryOrders -> EntryRow]
    BY DEF GuardInv, GuardTyped
  <2>2. PICK failing : entry' = [e \in EntryOrders |-> [entry[e] EXCEPT
                 !.status = IF e \in OpenEntries \ failing THEN "ended" ELSE @]]
    BY DEF SweepEntries
  <2>3. ASSUME NEW e \in EntryOrders
        PROVE  /\ entry'[e] \in EntryRow
               /\ entry'[e].status = "open" => entry[e].status = "open"
    <3>1. entry[e] \in EntryRow
      BY <2>1
    <3>2. PICK s \in {"ended", entry[e].status} : entry'[e] = [entry[e] EXCEPT !.status = s]
      BY <2>2, <3>1
    <3>3. QED
      BY <3>1, <3>2 DEF EntryRow
  <2>4. entry' \in [EntryOrders -> EntryRow]
    BY <2>2, <2>3
  <2>5. QED
    BY <2>3, <2>4 DEF OpenEntries
<1>3. DriveStanding(drive) /\ drive.by = "safety" /\ drive.pc \in AlarmPcs /\ drive.residual \in Nat
  BY <1>1, AlarmDriver
<1>4. drive' = [drive EXCEPT !.live = drive.live, !.residual = drive.residual, !.pc = "list"]
  BY <1>1, <1>3 DEF DriveStanding, DriveShape
<1>5. /\ GuardTyped' /\ EventTrue' /\ ExitHolds' /\ ServedMeansDone' /\ ClearSupersedes'
      /\ drive'.pc = "list"
  BY <1>1, <1>2, <1>3, <1>4, AtHandStep
<1>6. SweepHolds' /\ FlattenHolds' /\ ClearHolds'
  BY <1>5 DEF SweepHolds, FlattenHolds, ClearHolds, AtHand
<1>7. QED
  BY <1>5, <1>6 DEF GuardInv

LEMMA ListStep == ASSUME GuardInv, ListLeft PROVE GuardInv'
<1> DEFINE r == Cardinality(OpenEntries)
           p == IF Flattens(alarms[drive.event]) THEN "recheck" ELSE "mark"
           l == Listing({"market"})
<1>1. /\ drive.pc = "list" /\ drive' = [drive EXCEPT !.live = l, !.residual = r, !.pc = p]
      /\ UNCHANGED <<entry, exits, alarms, net, residue, late, overran, afterClear>>
  BY DEF ListLeft, DriveAt, safety, ghostly
<1>2. r \in Nat /\ (r = 0 => OpenEntries = {})
  <2>1. IsFiniteSet(OpenEntries)
    BY GuardAssumption, FS_Subset DEF OpenEntries
  <2>2. QED
    BY <2>1, FS_CardinalityType, FS_EmptySet
<1>3. OpenEntries' = OpenEntries
  BY <1>1 DEF OpenEntries
<1>4. p \in {"recheck", "mark"} /\ (p = "mark" => ~Flattens(alarms[drive.event]))
  OBVIOUS
<1> HIDE DEF r, p, l
<1>5. entry' \in [EntryOrders -> EntryRow]
  BY <1>1 DEF GuardInv, GuardTyped
<1>6. drive.by = "safety" /\ drive.pc \in AlarmPcs
  BY <1>1, AlarmDriver
<1>7. /\ GuardTyped' /\ EventTrue' /\ ExitHolds' /\ ServedMeansDone' /\ ClearSupersedes'
      /\ drive'.by = "safety" /\ drive'.pc = p /\ drive'.event = drive.event /\ drive'.residual = r
  BY <1>1, <1>2, <1>3, <1>4, <1>5, <1>6, AtHandStep
<1>8. SweepHolds' /\ FlattenHolds' /\ ClearHolds'
  BY <1>1, <1>2, <1>3, <1>4, <1>7 DEF SweepHolds, FlattenHolds, ClearHolds, AtHand
<1>9. QED
  BY <1>7, <1>8 DEF GuardInv

\* The checks before a flatten.
LEMMA RecheckStep == ASSUME GuardInv, RecheckServed PROVE GuardInv'
<1> DEFINE p == IF alarms[drive.event].served = "no" THEN "flatten?" ELSE "mark"
<1>1. /\ drive.pc = "recheck" /\ drive' = [drive EXCEPT !.pc = p]
      /\ UNCHANGED <<entry, exits, alarms, net, residue, late, overran, afterClear>>
  BY DEF RecheckServed, DriveAt, DriveTo, safety, ghostly
<1>2. DriveStanding(drive) /\ drive.by = "safety" /\ drive.pc \in AlarmPcs /\ drive.residual \in Nat
  BY <1>1, AlarmDriver
<1>3. drive' = [drive EXCEPT !.live = drive.live, !.residual = drive.residual, !.pc = p]
  BY <1>1, <1>2 DEF DriveStanding, DriveShape
<1>4. /\ p \in {"flatten?", "mark"}
      /\ p = "mark" => alarms[drive.event].served # "no"
      /\ p = "flatten?" => alarms[drive.event].served = "no"
  OBVIOUS
<1> HIDE DEF p
<1>5. entry' \in [EntryOrders -> EntryRow] /\ OpenEntries' = OpenEntries
  BY <1>1 DEF GuardInv, GuardTyped, OpenEntries
<1>6. /\ GuardTyped' /\ EventTrue' /\ ExitHolds' /\ ServedMeansDone' /\ ClearSupersedes'
      /\ drive'.by = "safety" /\ drive'.pc = p /\ drive'.event = drive.event
      /\ drive'.residual = drive.residual
  <2> DEFINE l == drive.live
             r == drive.residual
  <2>1. r \in Nat /\ drive' = [drive EXCEPT !.live = l, !.residual = r, !.pc = p]
    BY <1>2, <1>3
  <2>2. OpenEntries' \subseteq OpenEntries /\ (late' = late \/ late' = late \ {drive.event})
    BY <1>1, <1>5
  <2>5. UNCHANGED <<exits, alarms, net, residue, overran, afterClear>>
    BY <1>1
  <2>6. p \in {"list", "recheck", "flatten?", "mark"} /\ drive.by = "safety" /\ drive.pc \in AlarmPcs
    BY <1>2, <1>4
  <2>7. entry' \in [EntryOrders -> EntryRow]
    BY <1>5
  <2> HIDE DEF l, r
  <2>3. /\ GuardTyped' /\ EventTrue' /\ ExitHolds' /\ ServedMeansDone' /\ ClearSupersedes'
        /\ drive'.by = "safety" /\ drive'.pc = p /\ drive'.event = drive.event
        /\ drive'.residual = r
    BY <2>1, <2>2, <2>5, <2>6, <2>7, AtHandStep
  <2>4. QED
    BY <2>3 DEF r
<1>7. SweepHolds' /\ FlattenHolds' /\ ClearHolds'
  BY <1>1, <1>2, <1>4, <1>5, <1>6 DEF GuardInv, SweepHolds, FlattenHolds, ClearHolds, AtHand
<1>8. QED
  BY <1>6, <1>7 DEF GuardInv

LEMMA FlattenForSafetyStep == ASSUME GuardInv, FlattenForSafety PROVE GuardInv'
<1>1. /\ drive.pc = "flatten?" /\ late' = late \ {drive.event}
      /\ UNCHANGED <<entry, exits, alarms, net, residue, overran, afterClear>>
  BY DEF FlattenForSafety, DriveAt, safety
<1>2. /\ DriveStanding(drive) /\ drive.by = "safety" /\ drive.pc \in AlarmPcs
      /\ drive.residual \in Nat /\ drive.event \in DOMAIN alarms
      /\ alarms[drive.event].served # "drive"
  BY <1>1, AlarmDriver
<1>3. entry' \in [EntryOrders -> EntryRow] /\ OpenEntries' = OpenEntries
  BY <1>1 DEF GuardInv, GuardTyped, OpenEntries
<1>4. CASE drive' = [drive EXCEPT !.pc = "size"] /\ ~Has(exits, "market")
  <2>1. /\ DriveStanding(drive') /\ drive'.by = "safety" /\ drive'.pc = "size"
        /\ drive'.event = drive.event /\ drive'.residual = drive.residual
    BY <1>2, <1>4 DEF DriveStanding, DriveShape, AlarmPcs
  <2>2. GuardTyped'
    BY <1>1, <1>3, <2>1 DEF GuardInv, GuardTyped
  <2>3. EventTrue' /\ ClearSupersedes' /\ ClearHolds'
    BY <1>1, <1>2, <2>1 DEF GuardInv, EventTrue, ClearSupersedes, ClearHolds
  <2>4. ExitHolds'
    BY <1>1, <1>4 DEF ExitHolds, Has
  <2>5. SweepHolds' /\ FlattenHolds'
    BY <1>1, <1>2, <1>3, <2>1 DEF GuardInv, SweepHolds, FlattenHolds, AtHand
  <2>6. ServedMeansDone'
    BY <1>1, <1>2, <1>3 DEF GuardInv, ServedMeansDone, Flattens
  <2>7. QED
    BY <2>2, <2>3, <2>4, <2>5, <2>6 DEF GuardInv
<1>5. CASE \E r \in Nat : /\ drive' = [drive EXCEPT !.residual = r, !.pc = "mark"]
                          /\ r = 0 => net = 0 /\ drive.residual = 0
  <2>1. PICK r \in Nat : /\ drive' = [drive EXCEPT !.residual = r, !.pc = "mark"]
                         /\ r = 0 => net = 0 /\ drive.residual = 0
    BY <1>5
  <2>2. drive' = [drive EXCEPT !.live = drive.live, !.residual = r, !.pc = "mark"]
    BY <1>2, <2>1 DEF DriveStanding, DriveShape
  <2>3. /\ GuardTyped' /\ EventTrue' /\ ExitHolds' /\ ServedMeansDone' /\ ClearSupersedes'
        /\ drive'.by = "safety" /\ drive'.pc = "mark" /\ drive'.event = drive.event
        /\ drive'.residual = r
    BY <1>1, <1>2, <1>3, <2>2, AtHandStep
  <2>4. SweepHolds' /\ FlattenHolds' /\ ClearHolds'
    BY <1>1, <1>2, <1>3, <2>1, <2>3 DEF GuardInv, SweepHolds, FlattenHolds, ClearHolds, AtHand
  <2>5. QED
    BY <2>3, <2>4 DEF GuardInv
<1>6. \/ drive' = [drive EXCEPT !.pc = "size"] /\ ~Has(exits, "market")
      \/ \E r \in Nat : /\ drive' = [drive EXCEPT !.residual = r, !.pc = "mark"]
                        /\ r = 0 => net = 0 /\ drive.residual = 0
  <2>1. CASE net = 0
    <3>1. drive' = [drive EXCEPT !.pc = "mark"]
      BY <2>1 DEF FlattenForSafety
    <3>2. drive' = [drive EXCEPT !.residual = drive.residual, !.pc = "mark"]
      BY <1>2, <3>1 DEF DriveStanding, DriveShape
    <3>3. QED
      BY <1>2, <2>1, <3>2
  <2>2. CASE net # 0 /\ (Has(drive.live, "market") \/ Has(exits, "market"))
    <3>1. drive' = [drive EXCEPT !.pc = "mark", !.residual = drive.residual + 1]
      BY <2>2 DEF FlattenForSafety
    <3> DEFINE r == drive.residual + 1
    <3>2. r \in Nat /\ r # 0
      BY <1>2
    <3> HIDE DEF r
    <3>3. drive' = [drive EXCEPT !.residual = r, !.pc = "mark"]
      BY <1>2, <3>1 DEF r, DriveStanding, DriveShape
    <3>4. QED
      BY <3>2, <3>3
  <2>3. CASE net # 0 /\ ~Has(drive.live, "market") /\ ~Has(exits, "market")
    BY <2>3 DEF FlattenForSafety
  <2>4. QED
    BY <2>1, <2>2, <2>3
<1>7. QED
  BY <1>4, <1>5, <1>6

\* The event is marked served, or left to the next drive.
LEMMA MarkServedStep == ASSUME GuardInv, MarkServed PROVE GuardInv'
<1> DEFINE i == drive.event
           d == [drive EXCEPT !.event = 0]
<1>1. /\ UNCHANGED <<entry, exits, net, residue, late, overran, afterClear>>
      /\ drive.pc = "mark" /\ drive' = Proceed(d)
      /\ \/ alarms' = alarms
         \/ /\ drive.residual = 0 /\ alarms[i].served = "no"
            /\ alarms' = [alarms EXCEPT ![i].served = "drive"]
  BY DEF MarkServed, DriveAt, ghostly
<1>2. /\ DriveStanding(drive) /\ drive.by = "safety" /\ i \in DOMAIN alarms
  BY <1>1, AlarmDriver
<1>3. DriveShape(d) /\ d.by = "safety" /\ d.event = 0 /\ d.kinds = <<>>
  BY <1>2 DEF DriveStanding, DriveShape
<1> HIDE DEF d
<1>4. DriveStanding(drive') /\ drive'.pc \notin AlarmPcs
  BY <1>1, <1>3, ProceedStands
<1>5. exits' = [j \in Slots |-> exits'[j]] /\ \A j \in Slots : ExitShape(exits'[j])
  BY <1>1 DEF GuardInv, GuardTyped
<1>6. CASE alarms' = alarms
  BY <1>1, <1>4, <1>5, <1>6, ProtectiveStep
<1>7. CASE /\ drive.residual = 0 /\ alarms[i].served = "no"
           /\ alarms' = [alarms EXCEPT ![i].served = "drive"]
  <2>1. alarms \in Seq(Alarms) /\ \A j \in DOMAIN alarms : alarms[j] \in Alarms
    BY ElementOfSeq, LenProperties DEF GuardInv, GuardTyped
  <2> DEFINE x == [alarms[i] EXCEPT !.served = "drive"]
  <2>2. /\ x \in Alarms /\ Flattens(x) = Flattens(alarms[i]) /\ x.served = "drive"
    BY <1>2, <2>1 DEF Alarms, Flattens
  <2>3. alarms' = [alarms EXCEPT ![i] = x]
    BY <1>2, <1>7, <2>1
  <2> HIDE DEF x
  <2>4. /\ DOMAIN alarms' = DOMAIN alarms /\ alarms'[i] = x
        /\ \A j \in DOMAIN alarms : j # i => alarms'[j] = alarms[j]
        /\ alarms' = [j \in DOMAIN alarms |-> alarms'[j]]
    BY <1>2, <2>1, <2>3, LenProperties
  <2>5. alarms' \in Seq(Alarms)
    BY <2>1, <2>2, <2>4, AlarmRows
  <2>6. OpenEntries' = OpenEntries
    BY <1>1 DEF OpenEntries
  <2>7. OpenEntries = {} /\ (Flattens(alarms[i]) => net = 0 \/ i \in residue \/ i \in late)
    BY <1>1, <1>2, <1>7 DEF GuardInv, SweepHolds, FlattenHolds, AtHand
  <2>8. GuardTyped'
    BY <1>1, <1>4, <1>5, <2>5 DEF GuardInv, GuardTyped
  <2>9. EventTrue' /\ ClearSupersedes'
    BY <1>1, <1>4, <2>2, <2>4 DEF GuardInv, EventTrue, ClearSupersedes
  <2>10. SweepHolds' /\ FlattenHolds' /\ ClearHolds' /\ ExitHolds'
    BY <1>4 DEF SweepHolds, FlattenHolds, ClearHolds, ExitHolds, AtHand, AlarmPcs
  <2>11. ServedMeansDone'
    <3>1. ASSUME NEW j \in DOMAIN alarms', alarms'[j].served = "drive", ~alarms'[j].cleared
          PROVE  /\ OpenEntries' = {}
                 /\ Flattens(alarms'[j]) => net' = 0 \/ j \in residue' \/ j \in late'
      <4>1. CASE j = i
        BY <1>1, <2>2, <2>4, <2>6, <2>7, <4>1
      <4>2. CASE j # i
        BY <1>1, <2>4, <2>6, <3>1, <4>2 DEF GuardInv, ServedMeansDone
      <4>3. QED
        BY <4>1, <4>2
    <3>2. QED
      BY <3>1 DEF ServedMeansDone
  <2>12. QED
    BY <2>8, <2>9, <2>10, <2>11 DEF GuardInv
<1>8. QED
  BY <1>1, <1>6, <1>7

-----------------------------------------------------------------------------

LEMMA GuardInvStep == GuardInv /\ [GuardNext]_guardVars => GuardInv'
<1> SUFFICES ASSUME GuardInv, [GuardNext]_guardVars PROVE GuardInv'
  OBVIOUS
<1>1. CASE UNCHANGED guardVars
  <2>1. UNCHANGED <<entry, exits, drive, alarms, residue, net, late, overran, afterClear>>
    BY <1>1 DEF guardVars, safety, ghostly
  <2>2. /\ GuardTyped' /\ OpenEntries' = OpenEntries
        /\ Has(exits', "market") => Has(exits, "market")
    BY <2>1 DEF GuardInv, GuardTyped, OpenEntries
  <2>3. QED
    BY <2>1, <2>2, QuietStep
<1>2. CASE \E e \in EntryOrders : Enter(e) \/ EntryExecutes(e)
  BY <1>2, EnterStep
<1>3. CASE (\E i \in Slots : ExitExecutes(i)) \/ ExitStep
  BY <1>3, ExitStepStands DEF ExitStep
<1>4. CASE BookStep
  BY <1>4, BookEntryStep DEF BookStep
<1>5. CASE ReconcileEnds \/ GuardCrash
  BY <1>5, VerifiedStep
<1>6. CASE DeadlinesPass
  BY <1>6, DeadlinesStep
<1>7. CASE (\E flatten \in BOOLEAN : RaiseAlarm("kill", flatten)) \/ RaiseAlarm("breaker", TRUE)
  BY <1>7, RaiseStep
<1>8. CASE ClearKills
  BY <1>8, ClearStep
<1>9. CASE StartProtectiveDrive \/ StartSafetyDrive \/ ApprovedClose
  BY <1>9, StartStep
<1>10. CASE DriveStep
  BY <1>10, DriveEntryStep, DriveKindStep, SizeStep, SendStep, DriveEventStep, SweepEntriesStep, ListStep,
     RecheckStep, FlattenForSafetyStep, MarkServedStep DEF DriveStep
<1>11. QED
  BY <1>1, <1>2, <1>3, <1>4, <1>5, <1>6, <1>7, <1>8, <1>9, <1>10 DEF GuardNext

\* What the drives have checked still holds where they act on it, for any entries, sizes,
\* alarms, clears, failed calls and crashes (driveSafetyEvent, flattenForSafety).
THEOREM GuardInvariant == GuardSpec => []GuardInv
BY GuardInvInit, GuardInvStep, PTL DEF GuardSpec

\* The effects of a kill or breaker are done when its done-marker is written, not done
\* on top of a market exit, and not done once superseded, but for a clear that comes
\* after the last check (AppendSafetyEffectDone, flattenForSafety, ClearKills).
THEOREM EffectsAreDone == GuardSpec => GuardSafe
<1>1. GuardInv => ServedMeansDone /\ ClearSupersedes
  BY DEF GuardInv
<1>2. GuardInv => SafetyNeverStacks
  BY DEF GuardInv, ExitHolds, SafetyNeverStacks
<1>3. GuardInv /\ [GuardNext]_guardVars => [SafetyNeverStacks]_guardVars
  BY <1>2
<1>4. QED
  BY <1>1, <1>3, GuardInvariant, PTL DEF GuardSpec, GuardSafe

=============================================================================
