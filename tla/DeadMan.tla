------------------------------- MODULE DeadMan -------------------------------
(***************************************************************************)
(* The dead-man receiver (cmd/deadman): a webhook server that appends      *)
(* every accepted delivery to a raw log before it answers 200, and appends *)
(* an alarm line when the notifier's heartbeats have been silent for too   *)
(* long.  It runs apart from the control plane and is itself restarted.    *)
(*                                                                         *)
(* Of the raw log the model keeps what a restart reads back and what the   *)
(* alarm rules are about.  A failed append may leave half a line without   *)
(* its newline (torn): the next line is then glued to it and unreadable.   *)
(***************************************************************************)
EXTENDS Integers, FiniteSets

CONSTANTS
    Deliveries,     \* delivery handlers that may run at once
    SilenceAfter,   \* H + 1, in units of the clock
    RejectCap,      \* verbatim auth_reject lines per window (10 in the code)
    MaxClock,       \* bound: units of the clock
    MaxTorn,        \* bound: failed appends
    MaxReboot,      \* bound: crashes of the receiver
    MaxReject       \* bound: requests with a wrong bearer

ASSUME ReceiverAssumption ==
    /\ SilenceAfter \in Nat \ {0} /\ RejectCap \in Nat \ {0}
    /\ MaxClock \in Nat \ {0} /\ MaxTorn \in Nat /\ MaxReboot \in Nat /\ MaxReject \in Nat

Clock  == 1..MaxClock
Never  == 0                     \* no such line in the log; the zero time
Kinds  == {"notifier", "other", "invalid"}

\* A handler lags at most this far behind the clock it read.
Lag == 1

AlarmLine == [since : Clock, fired : Clock]
NoAlarm   == [since |-> Never, fired |-> Never]

VARIABLES
    clock,
    newest, firstMark,          \* the log: newest readable heartbeat, oldest mark
    alarmLines, torn,           \* the log: its alarm lines, a half-written last line
    serving,                    \* the receiver runs
    lastNotifier, alarmed,      \* memory under s.mu: the silence tracker
    alarmPayload, posting,      \*   the episode's alarm, and the one being POSTed
    delivery,                   \* per handler: state, received_at, kind
    window, lines, suppressed,  \* memory under s.mu: the auth-reject window
    torns, reboots, rejects,      \* bounded counters
    paged,                      \* ghost: alarms that reached DEADMAN_ALARM_URL
    heard, safe,                \* ghost: newest heartbeat logged (or first start); answered 200 and readable
    verbatim, folded, surfaced  \* ghost: rejects logged, summarised, left to stderr or lost

rawLog      == <<newest, firstMark, alarmLines, torn>>
tracker     == <<lastNotifier, alarmed, alarmPayload>>
rejectState == <<window, lines, suppressed, rejects, verbatim, folded, surfaced>>
arrivals    == <<heard, safe>>
receiverVars == <<clock, rawLog, serving, tracker, posting, delivery, rejectState,
                  torns, reboots, paged, arrivals>>

Idle == [state |-> "idle", at |-> Never, kind |-> "other"]
Later(a, b) == IF a >= b THEN a ELSE b

ReceiverInit ==
    /\ clock = 1
    /\ newest = Never /\ firstMark = Never /\ alarmLines = {} /\ torn = FALSE
    /\ serving = FALSE
    /\ lastNotifier = Never /\ alarmed = FALSE /\ alarmPayload = NoAlarm /\ posting = NoAlarm
    /\ delivery = [d \in Deliveries |-> Idle]
    /\ window = Never /\ lines = 0 /\ suppressed = 0
    /\ torns = 0 /\ reboots = 0 /\ rejects = 0
    /\ paged = {} /\ heard = Never /\ safe = Never
    /\ verbatim = 0 /\ folded = 0 /\ surfaced = 0

-----------------------------------------------------------------------------
(* The log.  appendLocked writes one line; every append is under s.mu.     *)

Appended     == torn' = FALSE /\ UNCHANGED torns
AppendFailed == torns < MaxTorn /\ torns' = torns + 1 /\ torn' \in {torn, TRUE}

\* The line just appended can be parsed by a later scan.
Readable == ~torn

-----------------------------------------------------------------------------
(* Start and end of the process.                                           *)

ReceiverTick ==
    /\ clock < MaxClock
    /\ \A d \in Deliveries : delivery[d].state # "idle" => clock < delivery[d].at + Lag
    /\ clock' = clock + 1
    /\ UNCHANGED <<rawLog, serving, tracker, posting, delivery, rejectState,
                   torns, reboots, paged, arrivals>>

\* Faulty: without a heartbeat on record the tracker starts from now.
TrackerSeedFromNow == IF newest # Never THEN newest ELSE clock

\* Faulty: the scan keeps the oldest mark only.
TrackerSeedFromMark == IF firstMark # Never THEN firstMark ELSE clock

\* scanRawLog: the newest heartbeat, else the oldest mark, else a first boot.
TrackerSeed ==
    IF newest # Never THEN newest
    ELSE IF firstMark # Never THEN firstMark ELSE clock

\* newServer; the receiver_start mark must be appended or the start fails.
Boot ==
    /\ ~serving
    /\ \/ /\ Appended
          /\ firstMark' = IF firstMark = Never /\ Readable THEN clock ELSE firstMark
          /\ lastNotifier' = TrackerSeed
          /\ heard' = IF newest = Never /\ firstMark = Never THEN lastNotifier' ELSE heard
          /\ serving' = TRUE
       \/ /\ AppendFailed
          /\ UNCHANGED <<firstMark, lastNotifier, heard, serving>>
    /\ UNCHANGED <<clock, newest, alarmLines, alarmed, alarmPayload, posting, delivery,
                   rejectState, reboots, paged, safe>>

\* aliveLoop: its error is dropped, the next tick appends another mark.
AliveMark ==
    /\ serving
    /\ \/ Appended /\ firstMark' = IF firstMark = Never /\ Readable THEN clock ELSE firstMark
       \/ AppendFailed /\ UNCHANGED firstMark
    /\ UNCHANGED <<clock, newest, alarmLines, serving, tracker, posting, delivery, rejectState,
                   reboots, paged, arrivals>>

ReceiverCrash ==
    /\ serving /\ reboots < MaxReboot
    /\ reboots' = reboots + 1
    /\ serving' = FALSE
    /\ lastNotifier' = Never /\ alarmed' = FALSE /\ alarmPayload' = NoAlarm /\ posting' = NoAlarm
    /\ delivery' = [d \in Deliveries |-> Idle]
    /\ window' = Never /\ lines' = 0 /\ suppressed' = 0
    /\ surfaced' = surfaced + suppressed
    /\ UNCHANGED <<clock, rawLog, torns, rejects, paged, arrivals,
                   verbatim, folded>>

-----------------------------------------------------------------------------
(* ServeHTTP.                                                              *)

\* A POST with the right bearer, its body read: received_at is taken here.
ReadBody(d) ==
    /\ serving /\ delivery[d].state = "idle"
    /\ \E k \in Kinds : delivery' = [delivery EXCEPT ![d] =
          [state |-> "read", at |-> clock, kind |-> k]]
    /\ UNCHANGED <<clock, rawLog, serving, tracker, posting, rejectState, torns,
                   reboots, paged, arrivals>>

\* The append decides the answer: 500 if it fails, 400 for a body that is not
\* JSON; a heartbeat goes on to the tracker, anything else is answered 200.
LogDelivery(d) ==
    /\ delivery[d].state = "read"
    /\ \/ /\ Appended
          /\ IF delivery[d].kind = "notifier"
             THEN /\ delivery' = [delivery EXCEPT ![d].state =
                                    IF Readable THEN "track" ELSE "glued"]
                  /\ newest' = IF Readable THEN Later(newest, delivery[d].at) ELSE newest
                  /\ heard' = Later(heard, delivery[d].at)
             ELSE delivery' = [delivery EXCEPT ![d] = Idle] /\ UNCHANGED <<newest, heard>>
       \/ /\ AppendFailed
          /\ delivery' = [delivery EXCEPT ![d] = Idle]
          /\ UNCHANGED <<newest, heard>>
    /\ UNCHANGED <<clock, firstMark, alarmLines, serving, tracker, posting, rejectState,
                   reboots, paged, safe>>

\* A second section under s.mu: the tracker takes received_at, the alarm is
\* re-armed; then the 200.
TrackHeartbeat(d) ==
    /\ delivery[d].state \in {"track", "glued"}
    /\ lastNotifier' = delivery[d].at
    /\ alarmed' = FALSE /\ alarmPayload' = NoAlarm
    /\ safe' = IF delivery[d].state = "track" THEN Later(safe, delivery[d].at) ELSE safe
    /\ delivery' = [delivery EXCEPT ![d] = Idle]
    /\ UNCHANGED <<clock, rawLog, serving, posting, rejectState, torns, reboots, paged, heard>>

-----------------------------------------------------------------------------
(* recordAuthReject: all of it but the time is read under s.mu.            *)

WindowRolls == window = Never \/ clock > window

\* The summary line of the window that ends, if it suppressed any.
Summarise == folded' = IF WindowRolls THEN folded + suppressed ELSE folded

\* Within the cap the reject gets a line of its own, or stderr if the append
\* fails; beyond it the reject is counted.  Appends other than this one are
\* taken to succeed here.
AuthReject ==
    /\ serving /\ rejects < MaxReject
    /\ rejects' = rejects + 1
    /\ window' = IF WindowRolls THEN clock ELSE window
    /\ Summarise
    /\ IF ~WindowRolls /\ lines >= RejectCap
       THEN /\ suppressed' = suppressed + 1
            /\ UNCHANGED <<lines, verbatim, surfaced, torn, torns>>
       ELSE /\ lines' = (IF WindowRolls THEN 0 ELSE lines) + 1
            /\ suppressed' = IF WindowRolls THEN 0 ELSE suppressed
            /\ \/ Appended /\ verbatim' = verbatim + 1 /\ UNCHANGED surfaced
               \/ AppendFailed /\ surfaced' = surfaced + 1 /\ UNCHANGED verbatim
    /\ UNCHANGED <<clock, newest, firstMark, alarmLines, serving, tracker, posting,
                   delivery, reboots, paged, arrivals>>

-----------------------------------------------------------------------------
(* checkAlarm: the section under s.mu, then the POST outside it.           *)

Silent == clock - lastNotifier > SilenceAfter

NewAlarm == [since |-> lastNotifier, fired |-> clock]

\* The first tick of an episode appends the line; a failed append is retried
\* by the next tick.  The POST of the episode's payload follows.
CheckAlarm ==
    /\ serving /\ Silent /\ posting = NoAlarm
    /\ \/ /\ ~alarmed /\ Appended
          /\ alarmLines' = alarmLines \cup {NewAlarm}
          /\ alarmed' = TRUE /\ alarmPayload' = NewAlarm /\ posting' = NewAlarm
       \/ /\ ~alarmed /\ AppendFailed
          /\ UNCHANGED <<alarmLines, alarmed, alarmPayload, posting>>
       \/ /\ alarmed /\ posting' = alarmPayload
          /\ UNCHANGED <<alarmLines, alarmed, alarmPayload, torn, torns>>
    /\ UNCHANGED <<clock, newest, firstMark, serving, lastNotifier, delivery, rejectState,
                   reboots, paged, arrivals>>

\* postAlarm is best effort: delivered or not.
PostAlarm ==
    /\ posting # NoAlarm
    /\ paged' \in {paged, paged \cup {posting}}
    /\ posting' = NoAlarm
    /\ UNCHANGED <<clock, rawLog, serving, tracker, delivery, rejectState, torns, reboots,
                   arrivals>>

ReceiverNext ==
    \/ ReceiverTick \/ Boot \/ AliveMark \/ ReceiverCrash
    \/ \E d \in Deliveries : ReadBody(d) \/ LogDelivery(d) \/ TrackHeartbeat(d)
    \/ AuthReject \/ CheckAlarm \/ PostAlarm

ReceiverSpec == ReceiverInit /\ [][ReceiverNext]_receiverVars

\* The receiver is restarted, and its alarm ticker and handlers are scheduled.
ReceiverFairness ==
    /\ WF_receiverVars(Boot) /\ WF_receiverVars(ReceiverTick)
    /\ WF_receiverVars(CheckAlarm) /\ WF_receiverVars(PostAlarm)
    /\ \A d \in Deliveries : WF_receiverVars(LogDelivery(d) \/ TrackHeartbeat(d))

-----------------------------------------------------------------------------
(* Properties.                                                             *)

\* The newest heartbeat in the log, or else the first start it records.
SilentSince == Later(heard, firstMark)

\* Types; and an alarm is remembered only with the line it stands for.
ReceiverTypeOK ==
    /\ clock \in Clock /\ newest \in 0..MaxClock /\ firstMark \in 0..MaxClock
    /\ alarmLines \subseteq AlarmLine /\ torn \in BOOLEAN /\ serving \in BOOLEAN
    /\ lastNotifier \in 0..MaxClock /\ alarmed \in BOOLEAN
    /\ alarmPayload \in AlarmLine \cup {NoAlarm} /\ posting \in AlarmLine \cup {NoAlarm}
    /\ delivery \in [Deliveries -> [state : {"idle", "read", "track", "glued"},
                                    at : 0..MaxClock, kind : Kinds]]
    /\ window \in 0..MaxClock /\ lines \in 0..RejectCap /\ suppressed \in Nat
    /\ torns \in 0..MaxTorn /\ reboots \in 0..MaxReboot /\ rejects \in 0..MaxReject
    /\ paged \subseteq AlarmLine /\ heard \in 0..MaxClock /\ safe \in 0..MaxClock
    /\ verbatim \in Nat /\ folded \in Nat /\ surfaced \in Nat
    /\ alarmed <=> alarmPayload # NoAlarm

\* However often the receiver is restarted, silence is measured from the newest
\* heartbeat or the first start on record: a crash loop never grants itself a new window.
NoFreshGrace == serving => lastNotifier <= SilentSince

\* A heartbeat answered 200, and readable in the log, keeps the alarm quiet for H + 1
\* (less the lag of a handler), over restarts and two deliveries handled at once.
AlarmNeverEarly ==
    [][\A l \in alarmLines' \ alarmLines : l.fired - safe > SilenceAfter - Lag]_receiverVars

\* The page an operator got is always backed by a line of the raw log, which starts
\* the clock of the response time.
PagedIsLogged == paged \subseteq alarmLines

\* Every request with a wrong bearer is on record: in a line of its own, in a summary
\* count, still counted in memory, or surfaced on stderr (or lost with the memory).
EveryRejectAccounted == rejects = verbatim + folded + suppressed + surfaced

\* What the receiver measures, pages and counts is backed by its log, whatever was torn,
\* restarted or handled at once (scanRawLog, checkAlarm, recordAuthReject).
LogIsTruth == NoFreshGrace /\ PagedIsLogged /\ EveryRejectAccounted

\* And it never alarms before its window has passed (checkAlarm, seedTracker).
ReceiverHonest == []LogIsTruth /\ AlarmNeverEarly

\* When the notifier stays silent an alarm line newer than its last heartbeat is
\* appended in the end, though appends fail and the receiver restarts meanwhile.
SilenceAlarms ==
    (clock = MaxClock /\ heard # Never /\ MaxClock - SilentSince > SilenceAfter)
        ~> (\/ MaxClock - SilentSince <= SilenceAfter
            \/ \E l \in alarmLines : l.fired > SilentSince)

=============================================================================
