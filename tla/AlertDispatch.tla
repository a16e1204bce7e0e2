---------------------------- MODULE AlertDispatch ----------------------------
(***************************************************************************)
(* The alert dispatcher of the control plane (internal/notifier and the    *)
(* store's alert_dispatch_state table): a poller that POSTs every row of   *)
(* three append-only tables to a webhook, in insertion order, and keeps    *)
(* per table a persisted watermark.                                        *)
(*                                                                         *)
(* A source is its position in the fixed order of a pass: kills, clears,   *)
(* alerts.  A row is identified by a serial number that is never reused,   *)
(* its rowid is its index in the table: a table cut short by a restore     *)
(* gives a later row a rowid an earlier one had.  One database statement   *)
(* and one webhook call is one step.                                       *)
(***************************************************************************)
EXTENDS Integers, Sequences, FiniteSets

CONSTANTS
    NumSources,     \* source tables (3 in the code)
    MaxPerTick,     \* rows of one source delivered in one pass
    PoisonAfter,    \* 4xx answers to one row before it is skipped
    DegradeAfter,   \* failed ticks after which a source is degraded
    MaxSerial,      \* bound: rows appended
    MaxDrop,        \* bound: timeouts, 5xx answers and failed writes
    MaxDown         \* bound: crashes and restores

ASSUME DispatchAssumption ==
    /\ NumSources \in Nat \ {0} /\ MaxPerTick \in Nat \ {0}
    /\ PoisonAfter \in Nat \ {0} /\ DegradeAfter \in Nat \ {0}
    /\ MaxSerial \in Nat /\ MaxDrop \in Nat /\ MaxDown \in Nat

Sources  == 1..NumSources
Notifier == NumSources + 1      \* the heartbeat's failure counter
Serials  == 1..MaxSerial
Unseeded == -1                  \* no alert_dispatch_state row
NoRow    == 0

VARIABLES
    table,          \* per source, its rows (serials) in rowid order
    mark,           \* per source, last_rowid
    up,             \* the dispatcher is seeded and running
    at,             \* 0 between passes, a source, or Notifier: where the pass is
    batch,          \* the rowids of the loaded batch still to deliver: [from, to]
    step,           \* what comes next for the row batch.from
    ticked,         \* this pass has already recorded a failure of the source
    poison,         \* per source, the row and the count of its 4xx answers
    fail,           \* per source, consecutive failed ticks (capped)
    hbDue,          \* now is past nextHB
    serial, drops, downs,   \* bounded counters
    got,            \* ghost: serials the receiver has accepted
    skipped,        \* ghost: serials passed over as poison rows
    exempt,         \* ghost: serials older than the first seed
    refused         \* ghost: 4xx answers to a serial in this life of the process, since
                    \* its last transient failure or recorded acceptance

memory      == <<at, batch, step, ticked, poison, fail, hbDue>>
dispatchEnv == <<serial, drops, downs>>
ghosts      == <<got, skipped, exempt, refused>>
dispatchVars == <<table, mark, up, memory, dispatchEnv, ghosts>>

NoBatch  == [from |-> 1, to |-> 0]
NoPoison == [row |-> NoRow, count |-> 0]

SerialsOf(src)   == {table[src][i] : i \in DOMAIN table[src]}
CurrentRow(src)  == table[src][batch.from]
AtMost(n, bound) == IF n <= bound THEN n ELSE bound

DispatchInit ==
    /\ table \in [Sources -> {<<>>}] /\ mark = [src \in Sources |-> Unseeded]
    /\ up = FALSE /\ at = 0 /\ batch = NoBatch /\ step = "load" /\ ticked = FALSE
    /\ poison = [src \in Sources |-> NoPoison]
    /\ fail = [src \in Sources \cup {Notifier} |-> 0]
    /\ hbDue = FALSE
    /\ serial = 0 /\ drops = 0 /\ downs = 0
    /\ got = {} /\ skipped = {} /\ exempt = {}
    /\ refused = [x \in Serials |-> 0]

-----------------------------------------------------------------------------
(* The writers of the source tables, the receiver and the environment.     *)

\* Faulty: the writers start before Seed.
AppendRowBeforeSeed(src) ==
    /\ serial < MaxSerial
    /\ serial' = serial + 1
    /\ table' = [table EXCEPT ![src] = Append(@, serial + 1)]
    /\ UNCHANGED <<mark, up, memory, drops, downs, ghosts>>

\* A kill, clear or alert is appended: after Seed, or by a process that runs
\* without the notifier.  A database whose watermark is above its table is
\* assumed to be started with the notifier next: it alone clamps the mark.
AppendRow(src) ==
    /\ serial < MaxSerial
    /\ up \/ mark[src] <= Len(table[src])
    /\ serial' = serial + 1
    /\ table' = [table EXCEPT ![src] = Append(@, serial + 1)]
    /\ UNCHANGED <<mark, up, memory, drops, downs, ghosts>>

\* The interval of the heartbeat has passed.
HeartbeatFallsDue ==
    /\ up /\ ~hbDue
    /\ hbDue' = TRUE
    /\ UNCHANGED <<table, mark, up, at, batch, step, ticked, poison, fail,
                   dispatchEnv, ghosts>>

Drop == drops < MaxDrop /\ drops' = drops + 1 /\ UNCHANGED <<serial, downs>>

\* The process ends; its memory is lost.
DispatchCrash ==
    /\ up /\ downs < MaxDown
    /\ downs' = downs + 1
    /\ up' = FALSE /\ at' = 0 /\ batch' = NoBatch /\ step' = "load" /\ ticked' = FALSE
    /\ poison' = [src \in Sources |-> NoPoison]
    /\ fail' = [src \in Sources \cup {Notifier} |-> 0]
    /\ hbDue' = FALSE
    /\ refused' = [x \in Serials |-> 0]
    /\ UNCHANGED <<table, mark, serial, drops, got, skipped, exempt>>

\* With the process down, the database is replaced by an older one, or its
\* tables lose their newest rows: a watermark may be left above the table.
RestoreTables ==
    /\ ~up /\ downs < MaxDown
    /\ downs' = downs + 1
    /\ \E src \in Sources, n \in 0..MaxSerial, m \in 0..MaxSerial :
          /\ n < Len(table[src]) /\ m <= mark[src]
          /\ table' = [table EXCEPT ![src] = [i \in 1..n |-> @[i]]]
          /\ mark' = [mark EXCEPT ![src] = m]
    /\ UNCHANGED <<up, memory, serial, drops, ghosts>>

-----------------------------------------------------------------------------
(* Seed, then Run.                                                         *)

\* Faulty: a watermark above the table is kept.
SeededMarkUnclamped(src) == IF mark[src] = Unseeded THEN Len(table[src]) ELSE mark[src]

\* SeedAlertDispatchWatermark: MAX(rowid) unless the source has a row; Seed
\* clamps a watermark that is above MAX(rowid).
SeededMark(src) ==
    IF mark[src] = Unseeded \/ mark[src] > Len(table[src])
    THEN Len(table[src]) ELSE mark[src]

\* Seed runs before any writer starts; the first heartbeat is due at once.
\* The pass that Run starts with begins at the first source.
Seed ==
    /\ ~up
    /\ mark' = [src \in Sources |-> SeededMark(src)]
    /\ exempt' = exempt \cup UNION {SerialsOf(src) : src \in {s \in Sources : mark[s] = Unseeded}}
    /\ up' = TRUE /\ hbDue' = TRUE /\ at' = 1
    /\ UNCHANGED <<table, batch, step, ticked, poison, fail, dispatchEnv,
                   got, skipped, refused>>

\* The ticker: a pass starts only when none runs.
StartPass ==
    /\ up /\ at = 0
    /\ at' = 1
    /\ UNCHANGED <<table, mark, up, batch, step, ticked, poison, fail, hbDue,
                   dispatchEnv, ghosts>>

\* The pass leaves the source for the next one, then for the heartbeat.
LeaveSource ==
    /\ at' = at + 1
    /\ batch' = NoBatch /\ step' = "load" /\ ticked' = FALSE

\* The watermark is read again from the store; the rows above it, at most
\* MaxPerTick of them, are materialised.
LoadBatch ==
    /\ up /\ at \in Sources /\ step = "load"
    /\ \/ /\ mark[at] < Len(table[at])
          /\ batch' = [from |-> mark[at] + 1,
                       to   |-> AtMost(mark[at] + MaxPerTick, Len(table[at]))]
          /\ step' = "deliver"
          /\ UNCHANGED <<at, ticked, drops>>
       \/ /\ mark[at] = Len(table[at])
          /\ LeaveSource /\ UNCHANGED drops
       \/ /\ LeaveSource /\ drops < MaxDrop /\ drops' = drops + 1     \* the read failed
    /\ UNCHANGED <<table, mark, up, poison, fail, hbDue, serial, downs, ghosts>>

Delivering == up /\ at \in Sources /\ step = "deliver"

\* recordFailure and tickFailed: the first failure of a tick counts.
RecordFailure ==
    fail' = IF ticked THEN fail ELSE [fail EXCEPT ![at] = AtMost(@ + 1, DegradeAfter)]

\* Faulty: every 4xx answer starts a new count.
RefusalCountRestarted == 1

\* The count goes on from the poison entry if that names the row.
RefusalCount == 1 + (IF poison[at].row = batch.from THEN poison[at].count ELSE 0)

\* The row is accepted; the watermark is not persisted yet, and the count of the
\* row's 4xx answers stands until it is.
DeliverAccepted ==
    /\ Delivering
    /\ got' = got \cup {CurrentRow(at)}
    /\ step' = "advance"
    /\ UNCHANGED <<table, mark, up, at, batch, ticked, poison, fail, hbDue,
                   dispatchEnv, skipped, exempt, refused>>

\* A 4xx answer, whatever the receiver said of the row before: at PoisonAfter the
\* row is to be skipped, else the source stops.
DeliverRefused ==
    /\ Delivering
    /\ refused' = [refused EXCEPT ![CurrentRow(at)] = AtMost(@ + 1, PoisonAfter)]
    /\ \/ /\ RefusalCount >= PoisonAfter
          /\ poison' = [poison EXCEPT ![at] = NoPoison]
          /\ step' = "skip"
          /\ UNCHANGED <<at, batch, ticked, fail>>
       \/ /\ RefusalCount < PoisonAfter
          /\ poison' = [poison EXCEPT ![at] = [row |-> batch.from, count |-> RefusalCount]]
          /\ RecordFailure
          /\ LeaveSource
    /\ UNCHANGED <<table, mark, up, hbDue, dispatchEnv, got, skipped, exempt>>

\* Faulty: a transient failure leaves the count of the row as it is.
PoisonKeptByFailure == UNCHANGED poison

\* A transient failure breaks the row's chain of 4xx answers.
PoisonBrokenByFailure ==
    poison' = IF poison[at].row = batch.from
              THEN [poison EXCEPT ![at] = NoPoison] ELSE poison

\* The next row of the batch, or the next source.
NextRow(failedTick) ==
    IF batch.from < batch.to
    THEN batch' = [batch EXCEPT !.from = @ + 1] /\ step' = "deliver"
         /\ ticked' = failedTick /\ UNCHANGED at
    ELSE LeaveSource

\* Faulty: the batch goes on after a failed delivery.
DeliverFailedContinues ==
    /\ Delivering /\ Drop
    /\ refused' = [refused EXCEPT ![CurrentRow(at)] = 0]
    /\ PoisonBrokenByFailure
    /\ RecordFailure
    /\ NextRow(TRUE)
    /\ UNCHANGED <<table, mark, up, hbDue, got, skipped, exempt>>

\* A timeout, a transport error, a 3xx or a 5xx: the receiver may have accepted
\* the row.  The source stops; the watermark holds.
DeliverFailed ==
    /\ Delivering /\ Drop
    /\ got' \in {got, got \cup {CurrentRow(at)}}
    /\ refused' = [refused EXCEPT ![CurrentRow(at)] = 0]
    /\ PoisonBrokenByFailure
    /\ RecordFailure
    /\ LeaveSource
    /\ UNCHANGED <<table, mark, up, hbDue, skipped, exempt>>

\* UpsertAlertDispatchWatermark after an accepted row; the source has succeeded.
Advance ==
    /\ up /\ at \in Sources /\ step = "advance"
    /\ mark' = [mark EXCEPT ![at] = batch.from]
    /\ poison' = IF poison[at].row = batch.from
                 THEN [poison EXCEPT ![at] = NoPoison] ELSE poison
    /\ refused' = [refused EXCEPT ![CurrentRow(at)] = 0]
    /\ fail' = [fail EXCEPT ![at] = 0]
    /\ NextRow(ticked)
    /\ UNCHANGED <<table, up, hbDue, dispatchEnv, got, skipped, exempt>>

\* UpsertAlertDispatchWatermark past a poison row: the skip, logged loudly.
Skip ==
    /\ up /\ at \in Sources /\ step = "skip"
    /\ mark' = [mark EXCEPT ![at] = batch.from]
    /\ skipped' = skipped \cup {CurrentRow(at)}
    /\ RecordFailure
    /\ NextRow(TRUE)
    /\ UNCHANGED <<table, up, poison, hbDue, dispatchEnv, got, exempt, refused>>

\* Faulty: the batch goes on although the watermark was not persisted.
PersistFailureIgnored ==
    /\ up /\ at \in Sources /\ step \in {"advance", "skip"} /\ Drop
    /\ NextRow(ticked)
    /\ UNCHANGED <<table, mark, up, poison, fail, hbDue, ghosts>>

\* The upsert failed: the source stops, its next pass starts from the store.
PersistFails ==
    /\ up /\ at \in Sources /\ step \in {"advance", "skip"} /\ Drop
    /\ LeaveSource
    /\ UNCHANGED <<table, mark, up, poison, fail, hbDue, ghosts>>

\* heartbeatPass: attempted when due, after the sources; a failure keeps it due.
Heartbeat ==
    /\ up /\ at = Notifier
    /\ \/ ~hbDue /\ UNCHANGED <<hbDue, fail, drops>>
       \/ hbDue /\ hbDue' = FALSE /\ fail' = [fail EXCEPT ![Notifier] = 0] /\ UNCHANGED drops
       \/ /\ hbDue /\ drops < MaxDrop /\ drops' = drops + 1
          /\ fail' = [fail EXCEPT ![Notifier] = AtMost(@ + 1, DegradeAfter)]
          /\ UNCHANGED hbDue
    /\ at' = 0
    /\ UNCHANGED <<table, mark, up, batch, step, ticked, poison,
                   serial, downs, ghosts>>

\* The steps of the Run goroutine.
RunStep ==
    \/ StartPass \/ LoadBatch
    \/ DeliverAccepted \/ DeliverRefused \/ DeliverFailed
    \/ Advance \/ Skip \/ PersistFails \/ Heartbeat

DispatchNext ==
    \/ \E src \in Sources : AppendRow(src)
    \/ HeartbeatFallsDue \/ DispatchCrash \/ RestoreTables \/ Seed
    \/ RunStep

DispatchSpec == DispatchInit /\ [][DispatchNext]_dispatchVars

\* The process is restarted and its goroutine is scheduled.
DispatchFairness == WF_dispatchVars(Seed) /\ WF_dispatchVars(RunStep)

-----------------------------------------------------------------------------
(* Properties.                                                             *)

Handled == got \cup skipped \cup exempt

\* Types; and while the dispatcher runs every watermark points into its table.
DispatchTypeOK ==
    /\ table \in [Sources -> Seq(Serials)]
    /\ mark \in [Sources -> Nat \cup {Unseeded}]
    /\ up => \A src \in Sources : mark[src] \in 0..Len(table[src])
    /\ up \in BOOLEAN /\ hbDue \in BOOLEAN /\ ticked \in BOOLEAN
    /\ at \in 0..Notifier
    /\ batch \in [from : Nat, to : Nat]
    /\ step \in {"load", "deliver", "advance", "skip"}
    /\ poison \in [Sources -> [row : Nat, count : 0..PoisonAfter]]
    /\ fail \in [Sources \cup {Notifier} -> 0..DegradeAfter]
    /\ serial \in 0..MaxSerial /\ drops \in 0..MaxDrop /\ downs \in 0..MaxDown
    /\ got \subseteq Serials /\ skipped \subseteq Serials /\ exempt \subseteq Serials
    /\ refused \in [Serials -> 0..PoisonAfter]

\* No event is silently skipped: every row at or below the watermark, but for those
\* older than the first seed, was accepted by the receiver or skipped as a poison row -
\* whatever was lost, refused, crashed or restored on the way.
NoneBelowMarkLost ==
    \A src \in Sources : \A i \in DOMAIN table[src] :
        i <= mark[src] => table[src][i] \in Handled

\* In order: a row the receiver has accepted has no unhandled row below it.
AcceptedInOrder ==
    \A src \in Sources : \A i, j \in DOMAIN table[src] :
        i < j /\ table[src][j] \in got => table[src][i] \in Handled

\* A row is skipped only on PoisonAfter 4xx answers to that very row, all in this life
\* of the process, with no transient failure and no recorded acceptance of it among
\* them: a restart, a reused rowid or a 5xx can delay the skip, never hasten it.  The
\* answers need not be consecutive: an acceptance whose watermark was not persisted
\* leaves the count as it was.
SkipOnlyAfterRefusals ==
    [][\A x \in skipped' \ skipped : refused[x] >= PoisonAfter]_dispatchVars

\* Every row is in the end accepted or skipped, or lost by a restore: one row the
\* receiver refuses for ever never silences the kills recorded after it.
EveryRowHandled ==
    \A x \in Serials :
        (\E src \in Sources : x \in SerialsOf(src))
            ~> (x \in Handled \/ \A src \in Sources : x \notin SerialsOf(src))

=============================================================================
