----------------------------- MODULE MCAlerting -----------------------------
(***************************************************************************)
(* Instances for TLC of what follows a danger: the safety monitor records  *)
(* the event, the drives of the live OMS protect or flatten the position,  *)
(* the dispatcher POSTs the alert and the dead-man receiver notices the    *)
(* dispatcher's own silence.  They share no state but the event and alert  *)
(* tables, so one run explores them side by side: a behaviour belongs to   *)
(* the part chosen initially.                                              *)
(***************************************************************************)
EXTENDS MCParts, Watchdog, AlertDispatch, DeadMan, PositionGuard, TLC

CONSTANTS e1, e2, e3, e4

SizesOf == e1 :> 1 @@ e2 :> 2 @@ e3 :> 1 @@ e4 :> 1

alertingVars == <<part, watchdogVars, dispatchVars, receiverVars, guardVars>>

AlertingInit ==
    /\ part \in {"watchdog", "dispatch", "receiver", "guard"}
    /\ WatchdogInit /\ ReceiverInit /\ DispatchInit /\ GuardInit

OfWatchdog(A) ==
    part = "watchdog" /\ A /\ UNCHANGED <<part, dispatchVars, receiverVars, guardVars>>
OfDispatch(A) ==
    part = "dispatch" /\ A /\ UNCHANGED <<part, watchdogVars, receiverVars, guardVars>>
OfReceiver(A) ==
    part = "receiver" /\ A /\ UNCHANGED <<part, watchdogVars, dispatchVars, guardVars>>
OfGuard(A) ==
    part = "guard" /\ A /\ UNCHANGED <<part, watchdogVars, dispatchVars, receiverVars>>

AlertingNext ==
    \/ OfWatchdog(WatchdogNext)
    \/ OfDispatch(DispatchNext)
    \/ OfReceiver(ReceiverNext)
    \/ OfGuard(GuardNext)

\* Types of the parts.
AlertingTypeOK == WatchdogTypeOK /\ DispatchTypeOK /\ ReceiverTypeOK /\ GuardTypeOK

AlertingSpec == AlertingInit /\ [][AlertingNext]_alertingVars

-----------------------------------------------------------------------------
(* The scenarios of the watchdog: the operator kills one strategy, and...  *)

NeverIn(x) == \A s \in Strategies : lifecycle[s] # x
NoBeat   == \A s \in Strategies : beatAt[s] = NoTime
NoBook   == losing = {} /\ unmarked = {} /\ breakers = <<>>
NoClear  == \A c \in Scopes : cleared[c] = 0 /\ observed[c] = 0
NoFault  == restarts = 0 /\ writeFaults = 0
OwnKills == byWatchdog = DOMAIN kills

\* ... clears and promotes it again, after the reconcile;
\* ... the monitor's writes fail and it is restarted, with nobody else acting;
\* ... heartbeats come and go, with a pause and unprotected positions;
\* or there is no kill, and the breaker watches a book.
WatchdogScenario ==
    /\ \A i \in DOMAIN kills : kills[i].scope \in Strategies
    /\ \/ NoBook /\ naked = {} /\ NoFault /\ NoBeat /\ NeverIn("paused") /\ \A a \in alerts : a[1] # "blind"
       \/ NoBook /\ naked = {} /\ NoClear /\ NoBeat /\ NeverIn("paused") /\ OwnKills
       \/ NoBook /\ NoClear /\ NoFault /\ OwnKills /\ Len(kills) <= 1 /\ (NoBeat \/ naked = {})
       \/ kills = <<>> /\ naked = {} /\ NoBeat /\ NeverIn("paused")

\* The receiver counts rejected bearers, or hears heartbeats and is restarted.
ReceiverScenario ==
    rejects > 0 => reboots = 0 /\ newest = Never /\ clock <= 2 /\ \A d \in Deliveries : delivery[d] = Idle

\* The guard: one entry, with a target, in two executions, or plain; or two plain
\* ones; without an alarm, with one, or with two of them and nothing failing.  A
\* position that is short, an exit being booked before its entry, is not followed.
Entered == {e \in EntryOrders : entry[e].status # "none"}

GuardScenario ==
    /\ net >= 0
    /\ \/ /\ alarms = <<>> /\ closes = 0
          /\ \E alone \in {{e1}, {e2}, {e3, e4}} : Entered \subseteq alone
       \/ Entered \subseteq {e3} /\ Len(alarms) <= 1
       \/ Entered \subseteq {e2} /\ Len(alarms) <= 1 /\ closes = 0 /\ guardFaults = 0
       \/ Entered \subseteq {e3} /\ closes = 0 /\ guardFaults = 0

AlertingScenario == WatchdogScenario /\ ReceiverScenario /\ GuardScenario

-----------------------------------------------------------------------------
(* The goroutines of the monitor and of the dispatcher, the alarm ticker of   *)
(* the receiver and each of its handlers are scheduled; so are the holder of  *)
(* driveMu, the bookings and the reconciler, and the mutex, first come first  *)
(* served to whoever has waited long, lets the protective drive in.           *)

Fairness ==
    /\ WF_alertingVars(OfWatchdog(MonitorStep))
    /\ WF_alertingVars(OfDispatch(Seed))
    /\ WF_alertingVars(OfDispatch(RunStep))
    /\ WF_alertingVars(OfReceiver(ReceiverTick))
    /\ WF_alertingVars(OfReceiver(Boot))
    /\ WF_alertingVars(OfReceiver(CheckAlarm))
    /\ WF_alertingVars(OfReceiver(PostAlarm))
    /\ \A d \in Deliveries : WF_alertingVars(OfReceiver(LogDelivery(d) \/ TrackHeartbeat(d)))
    /\ WF_alertingVars(OfGuard(DriveStep))
    /\ WF_alertingVars(OfGuard(BookStep))
    /\ WF_alertingVars(OfGuard(ExitStep))
    /\ WF_alertingVars(OfGuard(ReconcileEnds))
    /\ WF_alertingVars(OfGuard(DeadlinesPass))
    /\ SF_alertingVars(OfGuard(StartProtectiveDrive))

AlertingFairSpec == AlertingSpec /\ Fairness

\* The hazards of progress: no book, no clear and no heartbeat that returns.
AlertingLiveScenario ==
    /\ AlertingScenario /\ NoBook /\ NoClear /\ NoBeat
    /\ closes = 0
    /\ alarms # <<>> => Entered \subseteq {e3}
    /\ e4 \in Entered => guardFaults = 0

=============================================================================
