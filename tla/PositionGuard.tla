---------------------------- MODULE PositionGuard ----------------------------
(***************************************************************************)
(* How the live OMS keeps one position protected or flat (oms/live         *)
(* protective.go, flatten.go, safetydrive.go): the protective drive with   *)
(* its deadlines, the safety-effects drive of kills and breakers, and the  *)
(* approved close.  The three exclude each other by driveMu; the exchange, *)
(* the booking of fills, kills, clears and crashes do not wait for it.     *)
(*                                                                         *)
(* One strategy, one symbol, long entries.  How an order is sent is        *)
(* OrderJournal's, how a fill is booked FillBooking's, the lock of a       *)
(* killed strategy Lifecycle's.                                            *)
(***************************************************************************)
EXTENDS Integers, Sequences, FiniteSets, FiniteSetsExt

CONSTANTS
    EntryOrders,    \* approved entries, each with a stop-loss
    Units,          \* their sizes
    WithTarget,     \* those with a take-profit
    MinQty,         \* the symbol's minimum quantity
    MaxExit,        \* bound: exit orders at a time
    MaxAlarm,       \* bound: kill and breaker rows
    MaxClose,       \* bound: approved closes
    MaxGuardFault   \* bound: failed calls and crashes

ASSUME GuardAssumption ==
    /\ IsFiniteSet(EntryOrders) /\ WithTarget \subseteq EntryOrders
    /\ \A e \in EntryOrders : Units[e] \in Nat
    /\ MinQty \in Nat
    /\ MaxExit \in Nat /\ MaxAlarm \in Nat /\ MaxClose \in Nat /\ MaxGuardFault \in Nat

VARIABLES
    entry,          \* per entry: status, units executed, units booked
    exits,          \* PROTECTIVE orders, open or not booked yet
    account,        \* base units at the exchange
    net,            \* positions.qty_base
    timers,         \* open protective_obligations: <<entry, kind, quantity at the fill>>
    overdue,        \* those with due_at passed
    alarms,         \* kill_breaker_events with their done-markers and clears
    residue,        \* alarms with a safety_residue_abandoned alert
    gate,           \* OMS memory: reconciled
    drive,          \* what the holder of driveMu is doing
    closes, guardFaults,
    late, overran, afterClear   \* ghosts: see ServedMeansDone, ClearSupersedes

obligations == <<timers, overdue>>
safety      == <<alarms, residue>>
ghostly     == <<late, overran, afterClear>>
guardVars   == <<entry, exits, account, net, obligations, safety, gate, drive, closes,
                 guardFaults, ghostly>>

Slots  == 1..MaxExit
NoExit == [kind |-> "none", size |-> 0, status |-> "none", ran |-> FALSE]

\* protectiveKindsOf.
KindsOf(e) == IF e \in WithTarget THEN <<"sl", "tp">> ELSE <<"sl">>

NoDrive ==
    [pc |-> "idle", by |-> "nobody", live |-> [i \in Slots |-> NoExit], todo |-> {},
     open |-> {}, of |-> "none", kinds |-> <<>>, pos |-> 0, size |-> 0,
     event |-> 0, verified |-> {}, residual |-> 0]

GuardInit ==
    /\ entry = [e \in EntryOrders |-> [status |-> "none", ran |-> 0, booked |-> 0]]
    /\ exits = [i \in Slots |-> NoExit] /\ account = 0 /\ net = 0
    /\ timers = {} /\ overdue = {} /\ alarms = <<>> /\ residue = {}
    /\ gate = FALSE /\ drive = NoDrive /\ closes = 0 /\ guardFaults = 0
    /\ late = {} /\ overran = {} /\ afterClear = {}

Disturbed   == guardFaults < MaxGuardFault /\ guardFaults' = guardFaults + 1
Undisturbed == UNCHANGED guardFaults

\* Orders as ListNonTerminalLiveOrders lists them, and what is looked for there.
Live(x)            == x.status \in {"pending", "open"}
Has(orders, kind)  == \E i \in Slots : Live(orders[i]) /\ orders[i].kind = kind
Find(orders, kind) == CHOOSE i \in Slots : Live(orders[i]) /\ orders[i].kind = kind
Listing(kinds) ==
    [i \in Slots |-> IF Live(exits[i]) /\ exits[i].kind \in kinds
                     THEN [exits[i] EXCEPT !.ran = FALSE] ELSE NoExit]

\* The exchange locks what a resting stop or target is to sell (balance.locked).
Rests(i) == exits[i].status = "open" /\ exits[i].kind # "market" /\ ~exits[i].ran
Free     == account - MapThenSumSet(LAMBDA i : exits[i].size, {i \in Slots : Rests(i)})

Halted == \E i \in DOMAIN alarms : alarms[i].kind = "breaker" \/ ~alarms[i].cleared

-----------------------------------------------------------------------------
(* Entries, the exchange, the bookings.                                    *)

\* An entry is sent while no kill or breaker stands (OrderJournal).
Enter(e) ==
    /\ entry[e].status = "none" /\ gate /\ ~Halted
    /\ entry' = [entry EXCEPT ![e].status = "open"]
    /\ UNCHANGED <<exits, account, net, obligations, safety, gate, drive, closes, guardFaults, ghostly>>

EntryExecutes(e) ==
    /\ entry[e].status = "open" /\ entry[e].ran < Units[e]
    /\ entry' = [entry EXCEPT ![e].ran = @ + 1]
    /\ account' = account + 1
    /\ UNCHANGED <<exits, net, obligations, safety, gate, drive, closes, guardFaults, ghostly>>

\* A stop or target is triggered.
ExitExecutes(i) ==
    /\ Rests(i)
    /\ exits' = [exits EXCEPT ![i].ran = TRUE]
    /\ account' = account - exits[i].size
    /\ UNCHANGED <<entry, net, obligations, safety, gate, drive, closes, guardFaults, ghostly>>

\* bookVenueFill of an entry: position and deadline rows in one transaction.
BookEntryFill(e) ==
    /\ entry[e].booked < entry[e].ran
    /\ LET booked == entry[e].booked + 1 IN
         /\ entry' = [entry EXCEPT ![e].booked = booked,
                        ![e].status = IF booked = Units[e] THEN "ended" ELSE @]
         /\ timers' = timers \cup {<<e, KindsOf(e)[i], booked>> : i \in DOMAIN KindsOf(e)}
    /\ net' = net + 1 /\ late' = DOMAIN alarms
    /\ UNCHANGED <<exits, account, overdue, safety, gate, drive, closes, guardFaults, overran, afterClear>>

\* cancelRestingProtectives: what has executed at the exchange is booked later, a
\* cancel that fails leaves its order alone.
CancelResting(but, failing) ==
    [i \in Slots |->
        IF ~Live(exits[i]) \/ i = but \/ i \in failing THEN exits[i]
        ELSE IF exits[i].ran THEN [exits[i] EXCEPT !.status = "done"] ELSE NoExit]

Failing(orders) ==
    {{}} \cup (IF guardFaults < MaxGuardFault THEN {{x} : x \in orders} ELSE {})
Counted(failing) == guardFaults' = guardFaults + Cardinality(failing)

\* bookVenueFill of an exit; the fill that leaves the book flat sweeps the rest,
\* without driveMu.
BookExitFill(i) ==
    /\ exits[i].ran
    /\ net' = net - exits[i].size /\ late' = DOMAIN alarms
    /\ IF net' = 0
       THEN \E failing \in Failing({j \in Slots \ {i} : Live(exits[j])}) :
              /\ exits' = [CancelResting(i, failing) EXCEPT ![i] = NoExit]
              /\ Counted(failing)
       ELSE exits' = [exits EXCEPT ![i] = NoExit] /\ Undisturbed
    /\ UNCHANGED <<entry, account, obligations, safety, gate, drive, closes, overran, afterClear>>

\* R2 of a reconcile: the exchange has a pending exit or it does not.
ResolveExit(i) ==
    /\ exits[i].status = "pending"
    /\ \/ /\ exits[i].ran \/ (exits[i].kind # "market" /\ exits[i].size <= Free)
          /\ exits' = [exits EXCEPT ![i].status = IF exits[i].ran THEN "done" ELSE "open"]
       \/ ~exits[i].ran /\ exits' = [exits EXCEPT ![i] = NoExit]
    /\ UNCHANGED <<entry, account, net, obligations, safety, gate, drive, closes, guardFaults, ghostly>>

\* A reconcile completes after every row recorded so far.
ReconcileEnds ==
    /\ ~gate \/ \E i \in DOMAIN alarms : ~alarms[i].verified
    /\ gate' = TRUE
    /\ alarms' = [i \in DOMAIN alarms |-> [alarms[i] EXCEPT !.verified = TRUE]]
    /\ UNCHANGED <<entry, exits, account, net, obligations, residue, drive, closes, guardFaults, ghostly>>

\* Time passes: every deadline set so far is over.
DeadlinesPass ==
    /\ overdue # timers
    /\ overdue' = timers
    /\ UNCHANGED <<entry, exits, account, net, timers, safety, gate, drive, closes, guardFaults, ghostly>>

\* The process ends: memory, and with it the time of the last reconcile, is lost.
GuardCrash ==
    /\ Disturbed
    /\ gate' = FALSE /\ drive' = NoDrive
    /\ alarms' = [i \in DOMAIN alarms |-> [alarms[i] EXCEPT !.verified = FALSE]]
    /\ UNCHANGED <<entry, exits, account, net, obligations, residue, closes, ghostly>>

RaiseAlarm(kind, flatten) ==
    /\ Len(alarms) < MaxAlarm
    /\ alarms' = Append(alarms, [kind |-> kind, flatten |-> flatten, served |-> "no",
                                 cleared |-> FALSE, verified |-> FALSE])
    /\ UNCHANGED <<entry, exits, account, net, obligations, residue, gate, drive, closes, guardFaults, ghostly>>

\* The operator's clear covers every kill so far and marks the unserved ones superseded.
Covered == {i \in DOMAIN alarms : alarms[i].kind = "kill" /\ ~alarms[i].cleared}
ClearKills ==
    /\ Covered # {}
    /\ alarms' = [i \in DOMAIN alarms |->
         IF i \in Covered
         THEN [alarms[i] EXCEPT !.cleared = TRUE, !.served = IF @ = "no" THEN "clear" ELSE @]
         ELSE alarms[i]]
    /\ overran' = overran \cup
         (IF drive.pc \in {"flatten?", "size", "send"} THEN Covered \cap {drive.event} ELSE {})
    /\ UNCHANGED <<entry, exits, account, net, obligations, residue, gate, drive, closes,
                   guardFaults, late, afterClear>>

-----------------------------------------------------------------------------
(* The holder of driveMu.                                                  *)

DriveAt(pc) == drive.pc = pc
DriveTo(pc) == drive' = [drive EXCEPT !.pc = pc]

\* It goes on with the next kind, entry or event, or returns.
Proceed(d) ==
    IF d.kinds # <<>> THEN [d EXCEPT !.pc = "kind"]
    ELSE IF d.todo # {} THEN [d EXCEPT !.pc = IF d.by = "safety" THEN "event" ELSE "entry"]
    ELSE NoDrive

KindDone == Proceed([drive EXCEPT !.kinds = Tail(@)])

\* A new order takes a slot that the drive's listing does not name.
Vacant == {i \in Slots : exits[i] = NoExit /\ drive.live[i] = NoExit}
Journaled(kind, status, ran) ==
    LET new == Min(Vacant)
    IN exits' = [exits EXCEPT ![new] =
                    [kind |-> kind, size |-> drive.size, status |-> status, ran |-> ran]]

\* driveProtectives: entries with fills, open rows and live orders, listed once.
StartProtectiveDrive ==
    /\ gate /\ DriveAt("idle") /\ \E e \in EntryOrders : entry[e].booked > 0
    /\ drive' = [NoDrive EXCEPT !.pc = "entry", !.by = "protective",
                   !.live = Listing({"sl", "tp", "market"}),
                   !.todo = {e \in EntryOrders : entry[e].booked > 0}, !.open = timers]
    /\ UNCHANGED <<entry, exits, account, net, obligations, safety, gate, closes, guardFaults, ghostly>>

\* driveEntry.
DriveEntry(e) ==
    /\ DriveAt("entry") /\ e \in drive.todo
    /\ LET left == [drive EXCEPT !.todo = @ \ {e}]
           mine == {t \in drive.open : t[1] = e}
       IN \/ /\ Has(drive.live, "market")
             /\ drive' = Proceed(left) /\ UNCHANGED <<exits, obligations, guardFaults>>
          \/ /\ ~Has(drive.live, "market") /\ net = 0
             /\ IF Has(drive.live, "sl") \/ Has(drive.live, "tp")
                THEN \E failing \in Failing({i \in Slots : Live(exits[i])}) :
                       exits' = CancelResting(0, failing) /\ Counted(failing)
                ELSE UNCHANGED <<exits, guardFaults>>
             /\ timers' = timers \ mine /\ overdue' = overdue \ mine
             /\ drive' = Proceed(left)
          \/ /\ ~Has(drive.live, "market") /\ net # 0
             /\ drive' = [left EXCEPT !.pc = "kind", !.of = e, !.kinds = KindsOf(e),
                            !.pos = Max({net, -net})]
             /\ UNCHANGED <<exits, obligations, guardFaults>>
    /\ UNCHANGED <<entry, account, net, safety, gate, closes, ghostly>>

\* The kind that the drive is at, its rows, the listed order and the target.
Kind    == Head(drive.kinds)
Group   == {t \in drive.open : t[1] = drive.of /\ t[2] = Kind}
Listed  == Has(drive.live, Kind)
Resting == drive.live[Find(drive.live, Kind)]
Target  == Min({entry[drive.of].booked, drive.pos})

SatisfyObligations(group) == timers' = timers \ group /\ overdue' = overdue \ group

\* driveKind, up to its first call of the exchange; the symbol's filters may be
\* unavailable.
DriveKind ==
    /\ DriveAt("kind")
    /\ \/ /\ Listed /\ Resting.status = "pending"
          /\ drive' = KindDone /\ UNCHANGED <<obligations, guardFaults>>
       \/ /\ Listed => Resting.status = "open"
          /\ Disturbed /\ DriveTo("deadline") /\ UNCHANGED obligations
       \/ /\ Listed /\ Resting.status = "open" /\ Resting.size >= Target
          /\ SatisfyObligations(Group) /\ drive' = KindDone /\ Undisturbed
       \/ /\ Listed => Resting.status = "open" /\ Resting.size < Target
          /\ Undisturbed
          /\ IF Target < MinQty
             THEN DriveTo("deadline") /\ UNCHANGED obligations
             ELSE LET fresh == IF Group = {} THEN {<<drive.of, Kind, 0>>} ELSE {} IN
                    /\ timers' = timers \cup fresh /\ UNCHANGED overdue
                    /\ drive' = [drive EXCEPT !.size = Target, !.open = @ \cup fresh,
                                   !.pc = IF Listed THEN "resize" ELSE "place"]
    /\ UNCHANGED <<entry, exits, account, net, safety, gate, closes, ghostly>>

\* resizeProtective: an order that the exchange no longer knows counts as canceled.
ResizeProtective ==
    /\ DriveAt("resize")
    /\ LET i == Find(drive.live, Kind) IN
         \/ /\ exits' = CancelResting(0, Slots \ {i})
            /\ DriveTo("place") /\ Undisturbed
         \/ Disturbed /\ DriveTo("deadline") /\ UNCHANGED exits
    /\ UNCHANGED <<entry, account, net, obligations, safety, gate, closes, ghostly>>

\* placeProtective: the exchange may refuse a stop whenever it likes.
PlaceProtective ==
    /\ DriveAt("place") /\ Vacant # {}
    /\ \/ /\ drive.size <= Free /\ Journaled(Kind, "open", FALSE)
          /\ SatisfyObligations(Group) /\ drive' = KindDone /\ Undisturbed
       \/ DriveTo("deadline") /\ UNCHANGED <<exits, obligations>> /\ Undisturbed
       \/ /\ Disturbed /\ Journaled(Kind, "pending", FALSE)
          /\ DriveTo("deadline") /\ UNCHANGED obligations
    /\ UNCHANGED <<entry, account, net, safety, gate, closes, ghostly>>

\* Mutant: a breached deadline is always left to the next drive.
HandleDeadlineRetryOnly ==
    /\ DriveAt("deadline")
    /\ drive' = KindDone
    /\ UNCHANGED <<entry, exits, account, net, obligations, safety, gate, closes, guardFaults, ghostly>>

\* handleDeadline: only a stop-loss past its deadline is answered with a flatten.
HandleDeadline ==
    /\ DriveAt("deadline")
    /\ IF Kind = "sl" /\ Group \cap overdue # {} THEN DriveTo("size") ELSE drive' = KindDone
    /\ UNCHANGED <<entry, exits, account, net, obligations, safety, gate, closes, guardFaults, ghostly>>

-----------------------------------------------------------------------------
(* Flatten, of a deadline, a safety event or an approved close.            *)

FlattenEnds(work) ==
    drive' = CASE drive.by = "protective" -> KindDone
               [] drive.by = "safety" -> [drive EXCEPT !.pc = "mark", !.residual = @ + work]
               [] OTHER -> NoDrive

\* The smaller of the local position and the free balance; dust is not sold.  A
\* position that is short for a moment (an exit booked before its entry) is bought back.
SizeFlatten ==
    /\ DriveAt("size")
    /\ \/ /\ net = 0 /\ FlattenEnds(1) /\ UNCHANGED residue /\ Undisturbed
       \/ Disturbed /\ FlattenEnds(1) /\ UNCHANGED residue
       \/ /\ net # 0 /\ Undisturbed
          /\ LET qty == Min({net, Free}) IN
               IF Max({qty, -qty}) < MinQty
               THEN FlattenEnds(0) /\ residue' = residue \cup ({drive.event} \ {0})
               ELSE drive' = [drive EXCEPT !.pc = "send", !.size = qty] /\ UNCHANGED residue
    /\ UNCHANGED <<entry, exits, account, net, obligations, alarms, gate, closes, ghostly>>

\* A market order sells at once or not at all; the answer may say FILLED before the
\* fill is booked, or be lost.
SendFlatten ==
    /\ DriveAt("send") /\ Vacant # {}
    /\ afterClear' = afterClear \cup
         (IF drive.event # 0 /\ alarms[drive.event].served = "clear" THEN {drive.event} ELSE {})
    /\ \/ \E ran \in BOOLEAN, status \in {"done", "open", "pending"} :
            /\ ran => drive.size <= Free
            /\ IF status = "pending" THEN Disturbed ELSE ran /\ Undisturbed
            /\ Journaled("market", status, ran)
            /\ account' = IF ran THEN account - drive.size ELSE account
       \/ /\ \/ drive.size > Free /\ Undisturbed
             \/ Disturbed
          /\ UNCHANGED <<exits, account>>
    /\ FlattenEnds(1)
    /\ UNCHANGED <<entry, net, obligations, safety, gate, closes, late, overran>>

\* SubmitApproved of a close.
ApprovedClose ==
    /\ gate /\ DriveAt("idle") /\ closes < MaxClose
    /\ closes' = closes + 1
    /\ drive' = [NoDrive EXCEPT !.pc = "size", !.by = "close"]
    /\ UNCHANGED <<entry, exits, account, net, obligations, safety, gate, guardFaults, ghostly>>

-----------------------------------------------------------------------------
(* DriveSafetyEffects.                                                     *)

UnservedAlarms == {i \in DOMAIN alarms : alarms[i].served = "no"}

StartSafetyDrive ==
    /\ gate /\ DriveAt("idle") /\ UnservedAlarms # {}
    /\ drive' = [NoDrive EXCEPT !.pc = "event", !.by = "safety", !.todo = UnservedAlarms,
                   !.verified = {i \in DOMAIN alarms : alarms[i].verified}]
    /\ UNCHANGED <<entry, exits, account, net, obligations, safety, gate, closes, guardFaults, ghostly>>

\* driveSafetyEvent: what a clear has superseded is left alone.
DriveSafetyEvent(i) ==
    /\ DriveAt("event") /\ i \in drive.todo
    /\ LET left == [drive EXCEPT !.todo = @ \ {i}] IN
         drive' = IF alarms[i].served # "no" THEN Proceed(left)
                  ELSE [left EXCEPT !.pc = "sweep", !.event = i, !.residual = 0]
    /\ UNCHANGED <<entry, exits, account, net, obligations, safety, gate, closes, guardFaults, ghostly>>

OpenEntries == {e \in EntryOrders : entry[e].status = "open"}

\* CancelOpenEntries.
SweepEntries ==
    /\ DriveAt("sweep")
    /\ \E failing \in Failing(OpenEntries) :
         /\ entry' = [e \in EntryOrders |-> [entry[e] EXCEPT
                        !.status = IF e \in OpenEntries \ failing THEN "ended" ELSE @]]
         /\ Counted(failing)
    /\ DriveTo("list")
    /\ UNCHANGED <<exits, account, net, obligations, safety, gate, closes, ghostly>>

Flattens(a) == a.kind = "breaker" \/ a.flatten

\* The orders that are left: entries are residual work.
ListLeft ==
    /\ DriveAt("list")
    /\ drive' = [drive EXCEPT !.live = Listing({"market"}), !.residual = Cardinality(OpenEntries),
                   !.pc = IF Flattens(alarms[drive.event]) THEN "recheck" ELSE "mark"]
    /\ UNCHANGED <<entry, exits, account, net, obligations, safety, gate, closes, guardFaults, ghostly>>

\* Mutant: the strategy's flatten goes on from the event's own check.
RecheckServedOnce ==
    /\ DriveAt("recheck")
    /\ DriveTo("flatten?")
    /\ UNCHANGED <<entry, exits, account, net, obligations, safety, gate, closes, guardFaults, ghostly>>

\* The second supersede check, before the flatten.
RecheckServed ==
    /\ DriveAt("recheck")
    /\ DriveTo(IF alarms[drive.event].served = "no" THEN "flatten?" ELSE "mark")
    /\ UNCHANGED <<entry, exits, account, net, obligations, safety, gate, closes, guardFaults, ghostly>>

\* Mutant: the flatten does not look for a market exit that is under way.
FlattenForSafetyAlways ==
    /\ DriveAt("flatten?")
    /\ DriveTo(IF net = 0 THEN "mark" ELSE "size")
    /\ late' = late \ {drive.event}
    /\ UNCHANGED <<entry, exits, account, net, obligations, safety, gate, closes, guardFaults,
                   overran, afterClear>>

\* flattenForSafety: never on top of a market exit, listed before or live now.
FlattenForSafety ==
    /\ DriveAt("flatten?")
    /\ drive' = IF net = 0 THEN [drive EXCEPT !.pc = "mark"]
                ELSE IF Has(drive.live, "market") \/ Has(exits, "market")
                THEN [drive EXCEPT !.pc = "mark", !.residual = @ + 1]
                ELSE [drive EXCEPT !.pc = "size"]
    /\ late' = late \ {drive.event}
    /\ UNCHANGED <<entry, exits, account, net, obligations, safety, gate, closes, guardFaults,
                   overran, afterClear>>

\* AppendSafetyEffectDone: no residual work, and a reconcile since the row.
MarkServed ==
    /\ DriveAt("mark")
    /\ LET i == drive.event IN
         IF drive.residual = 0 /\ i \in drive.verified /\ alarms[i].served = "no"
         THEN alarms' = [alarms EXCEPT ![i].served = "drive"]
         ELSE UNCHANGED alarms
    /\ drive' = Proceed([drive EXCEPT !.event = 0])
    /\ UNCHANGED <<entry, exits, account, net, obligations, residue, gate, closes, guardFaults, ghostly>>

-----------------------------------------------------------------------------

DriveStep ==
    \/ \E e \in EntryOrders : DriveEntry(e)
    \/ DriveKind \/ ResizeProtective \/ PlaceProtective \/ HandleDeadline
    \/ SizeFlatten \/ SendFlatten
    \/ \E i \in DOMAIN alarms : DriveSafetyEvent(i)
    \/ SweepEntries \/ ListLeft \/ RecheckServed \/ FlattenForSafety \/ MarkServed

BookStep == \E e \in EntryOrders : BookEntryFill(e)
ExitStep == \E i \in Slots : BookExitFill(i) \/ ResolveExit(i)

GuardNext ==
    \/ \E e \in EntryOrders : Enter(e) \/ EntryExecutes(e)
    \/ \E i \in Slots : ExitExecutes(i)
    \/ BookStep \/ ExitStep \/ ReconcileEnds \/ GuardCrash \/ DeadlinesPass
    \/ \E flatten \in BOOLEAN : RaiseAlarm("kill", flatten)
    \/ RaiseAlarm("breaker", TRUE)
    \/ ClearKills
    \/ StartProtectiveDrive \/ StartSafetyDrive \/ ApprovedClose \/ DriveStep

GuardSpec == GuardInit /\ [][GuardNext]_guardVars

-----------------------------------------------------------------------------
(* Properties.                                                             *)

\* Types.
GuardTypeOK ==
    /\ \A e \in EntryOrders :
         /\ entry[e].status \in {"none", "open", "ended"}
         /\ entry[e].booked \in 0..entry[e].ran /\ entry[e].ran \in 0..Units[e]
    /\ account \in Nat /\ Free \in Nat /\ overdue \subseteq timers
    /\ \A i \in Slots : exits[i].status \in {"none", "pending", "open", "done"}

\* A kill or breaker that the driver marks served has left, while it stands, no
\* entry open; and one that flattens no position, unless the operator is alerted
\* of what remains or fills were booked after the driver looked at it.
ServedMeansDone ==
    \A i \in DOMAIN alarms : alarms[i].served = "drive" /\ ~alarms[i].cleared =>
      /\ OpenEntries = {}
      /\ Flattens(alarms[i]) => net = 0 \/ i \in residue \/ i \in late

\* A flatten of a kill that the operator has cleared is sent only if the clear fell
\* between the last supersede check and the send.
ClearSupersedes == afterClear \subseteq overran

\* The safety driver never journals a market exit while another one is live, an
\* approved close or a contingency included.
SafetyNeverStacks ==
    drive.pc = "send" /\ drive.by = "safety" /\ exits' # exits /\ drive' # drive
      => ~Has(exits, "market")

\* The three together: the effects of an alarm are done when they are marked done,
\* not done again, and not done once superseded (driveSafetyEvent, flattenForSafety).
GuardSafe ==
    /\ [](ServedMeansDone /\ ClearSupersedes)
    /\ [][SafetyNeverStacks]_guardVars

\* The position keeps returning to where it is flat or dust, or an exit rests at the
\* exchange for at least its largest entry: the stop - or only the target, which the
\* exchange accepted where it refused the stop, and which locks the units that the
\* deadline's contingency flatten would sell (driveProtectives, handleDeadline).
Largest == Max({Min({entry[e].booked, net}) : e \in EntryOrders})
ProtectedOrFlat ==
    []<>(net < MinQty \/ \E i \in Slots : Rests(i) /\ exits[i].size >= Largest)

=============================================================================
