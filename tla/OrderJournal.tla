---------------------------- MODULE OrderJournal ----------------------------
(***************************************************************************)
(* The write-ahead intent journal of the live order-management system      *)
(* (control-plane/internal/oms/live): how an approved order is journaled,  *)
(* claimed, transmitted and resolved while four other parties touch the    *)
(* same rows - the reconciler (R1-R7), the ENTRY cancel sweep and the      *)
(* stops-after-flatten sweep, the user-data stream, and the operator's     *)
(* kill, clear and reset acknowledgements - and while the process crashes, *)
(* the network loses, delays or throttles requests, and the venue resets.  *)
(*                                                                         *)
(* One element of Orders is one approved submission.  An attempt id        *)
(* "amx1-<token>-<k>" is the pair <<order, k>>.  Every database statement  *)
(* or transaction, every venue call and every in-memory section under o.mu *)
(* is one atomic step; everything between two of them can be interleaved.  *)
(***************************************************************************)
EXTENDS Integers, FiniteSets, Functions

CONSTANTS
    Orders,         \* submissions that may reach the live OMS
    Entries,        \* those of class ENTRY; the others are class PROTECTIVE
    MaxAttempt,     \* last attempt digit of a client order id (9 in the code)
    Lots,           \* a submission's quantity: executed and booked in whole lots
    QueryTries,     \* QueryOrder tries of one resolution loop (5 in the code)
    MaxKill,        \* bound: kill events appended
    MaxFault,       \* bound: lost, throttled, timed-out or ambiguous venue calls
    MaxCrash,       \* bound: control-plane crashes
    MaxSweep,       \* bound: cancel sweeps started
    MaxReset        \* bound: venue resets

ASSUME OrdersAssumption == Entries \subseteq Orders
ASSUME BoundsAssumption ==
    /\ MaxAttempt \in Nat /\ Lots \in Nat \ {0} /\ QueryTries \in Nat \ {0} /\ MaxKill \in Nat
    /\ MaxFault \in Nat /\ MaxCrash \in Nat /\ MaxSweep \in Nat /\ MaxReset \in Nat

Attempts == 0..MaxAttempt
Ids      == Orders \X Attempts
NoAck    == -1                       \* orders.exchange_order_id IS NULL

Terminal    == {"filled", "canceled", "rejected", "expired"}
NonTerminal == {"pending_new", "open", "partially_filled"}
Statuses    == Terminal \cup NonTerminal \cup {"none"}

VenueLive == {"NEW", "PARTIALLY_FILLED"}
Present   == VenueLive \cup {"FILLED", "CANCELED", "EXPIRED"}

VARIABLES
    status, att, ack,                  \* orders: status, latest attempt, acked attempt
    journaled, claimed, revoked,       \* order_intents: rows, claimed_at, claim_revoked_at
    poisoned,                          \* ids with an intent_resolved_absent "poisoned" event
    alarmed,                           \* a venue_reset event newer than the venue epoch
    killEpoch, clearedEpoch,           \* MAX(kill_epoch), MAX(cleared_epoch)
    reconciled, resetPending,          \* OMS memory, guarded by o.mu
    started,                           \* Run's startup loop has ended: the stream is read
    pc, stamp, tries, got,             \* one sender goroutine per submission
    rpc, phase, rtodo, rcur, rgot, seen,  \* the reconcile run
    wpc, wtodo, wcur,                  \* a cancel sweep
    venue,                             \* the exchange's view of every attempt id
    executed,                          \* lots the exchange has executed of every attempt
    booked,                            \* the fills rows: lots booked of every attempt
    faults, crashes, sweeps, resets    \* bounded counters of environment events

rows    == <<status, att, ack>>
intents == <<journaled, claimed, revoked, poisoned>>
kills   == <<killEpoch, clearedEpoch>>
memory  == <<reconciled, resetPending, started>>
sender  == <<pc, stamp, tries, got>>
recon   == <<rpc, phase, rtodo, rcur, rgot, seen>>
sweep   == <<wpc, wtodo, wcur>>
trades  == <<executed, booked>>
bounds  == <<faults, crashes, sweeps, resets>>
vars    == <<rows, intents, alarmed, kills, memory, sender, recon, sweep, venue, trades, bounds>>

-----------------------------------------------------------------------------
(* The order FSM, the venue vocabulary and the store mutators.             *)

StatusRank(s) ==
    CASE s = "none" -> -1
      [] s = "pending_new" -> 0
      [] s = "open" -> 1
      [] s = "partially_filled" -> 2
      [] OTHER -> 3

\* The persisted status a venue status maps to ("" keeps the current one).
LocalStatus(v) ==
    CASE v = "NEW" -> "open"
      [] v = "PARTIALLY_FILLED" -> "partially_filled"
      [] v = "FILLED" -> "filled"
      [] v = "CANCELED" -> "canceled"
      [] v = "EXPIRED" -> "expired"
      [] OTHER -> ""

\* recordOrderStatus: a write of no higher rank is a no-op.
Advanced(cur, s) == IF s # "" /\ StatusRank(s) > StatusRank(cur) THEN s ELSE cur

RecordOrderStatus(o, s) == status' = [status EXCEPT ![o] = Advanced(@, s)]

\* RecordIntentClaim succeeds iff the row exists, unclaimed and unrevoked.
Claimable(id) == id \in journaled /\ id \notin claimed /\ id \notin revoked

Latest(o) == <<o, att[o]>>

\* SUM(fills.qty_base) when q is booked: an order's quantity over all its attempts,
\* and whether it covers what the order asked for.
AttemptsOf(o) == {o} \X Attempts
Total(q, o)   == SumFunctionOnSet(q, AttemptsOf(o))
Covers(q, o)  == Total(q, o) >= Lots

\* Faulty: the startup reconcile is not awaited.
GateOpenUnlessReset == ~resetPending

GateOpen == reconciled /\ ~resetPending

ActiveKill == killEpoch > clearedEpoch

\* Protective placements, flattens and closes serialize on driveMu.
DriveBusy == \E p \in Orders \ Entries : pc[p] \notin {"idle", "done"}

\* What a call made now, or a report generated earlier, may say of id.
Reports(id) == {venue[id]} \cup {"NEW"}

Fault == faults < MaxFault /\ faults' = faults + 1

\* CancelOrder takes effect only on an order that rests at the venue.
VenueCancel(id) ==
    venue' = [venue EXCEPT ![id] = IF @ \in VenueLive THEN "CANCELED" ELSE @]

\* The call answers (NotFound is success too), or its outcome is unknown.
CancelAnswered(id)  == VenueCancel(id) /\ UNCHANGED bounds
CancelAmbiguous(id) ==
    /\ Fault /\ UNCHANGED <<crashes, sweeps, resets>>
    /\ VenueCancel(id) \/ UNCHANGED venue

-----------------------------------------------------------------------------
(* The sender: SubmitApproved, submitEntry and placeProtective, then       *)
(* journalAndSend, sendIntent, transmit and resolveAmbiguous.              *)

Goto(o, l) == pc' = [pc EXCEPT ![o] = l]

\* A sender step that only reads shared state and moves on.
OnlyPc == UNCHANGED <<rows, intents, alarmed, kills, trades, memory, stamp, tries, got,
                      recon, sweep, venue, bounds>>

\* preflightGate; a closed gate drops the submission and leaves no order.
Submit(o) ==
    /\ pc[o] = "idle" /\ GateOpen
    /\ o \in Entries \/ ~DriveBusy
    /\ Goto(o, "stamp")
    /\ OnlyPc

\* GlobalMaxKillEpoch; for an entry the standing-kill check comes after it.
Stamp(o) ==
    /\ pc[o] = "stamp"
    /\ stamp' = [stamp EXCEPT ![o] = killEpoch]
    /\ Goto(o, IF o \in Entries THEN "standing" ELSE "journal")
    /\ UNCHANGED <<rows, intents, alarmed, kills, trades, memory, tries, got,
                   recon, sweep, venue, bounds>>

StandingKill(o) ==
    /\ pc[o] = "standing"
    /\ Goto(o, IF ActiveKill THEN "done" ELSE "journal")
    /\ OnlyPc

\* A breaker halt, filters or sizing refuse the submission: no order either.
Refuse(o) ==
    /\ pc[o] \in {"stamp", "journal"}
    /\ Goto(o, "done")
    /\ OnlyPc

\* Faulty: the orders row commits, the intent row is left for after the send.
JournalLater(o) ==
    /\ pc[o] = "journal"
    /\ status' = [status EXCEPT ![o] = "pending_new"]
    /\ Goto(o, "kill")
    /\ UNCHANGED <<att, ack, intents, alarmed, kills, trades, memory, stamp, tries, got,
                   recon, sweep, venue, bounds>>

\* Faulty: the kill epoch is stamped at journal time, after the standing check.
JournalRestamped(o) ==
    /\ pc[o] = "journal"
    /\ status' = [status EXCEPT ![o] = "pending_new"]
    /\ journaled' = journaled \cup {<<o, 0>>}
    /\ stamp' = [stamp EXCEPT ![o] = killEpoch]
    /\ Goto(o, "claim")
    /\ UNCHANGED <<att, ack, claimed, revoked, poisoned, alarmed, kills, trades, memory,
                   tries, got, recon, sweep, venue, bounds>>

\* InsertJournaledOrder: the orders row and the attempt-0 intent, one transaction.
Journal(o) ==
    /\ pc[o] = "journal"
    /\ status' = [status EXCEPT ![o] = "pending_new"]
    /\ journaled' = journaled \cup {<<o, 0>>}
    /\ Goto(o, "claim")
    /\ UNCHANGED <<att, ack, claimed, revoked, poisoned, alarmed, kills, trades, memory,
                   stamp, tries, got, recon, sweep, venue, bounds>>

\* RecordIntentClaim; a lost claim ends the send without an error.
Claim(o) ==
    /\ pc[o] = "claim"
    /\ \/ /\ Claimable(Latest(o))
          /\ claimed' = claimed \cup {Latest(o)}
          /\ Goto(o, "kill")
       \/ /\ ~Claimable(Latest(o))
          /\ Goto(o, "done")
          /\ UNCHANGED claimed
    /\ UNCHANGED <<rows, journaled, revoked, poisoned, alarmed, kills, trades, memory,
                   stamp, tries, got, recon, sweep, venue, bounds>>

\* The kill re-check before every transmission.
KillCheck(o) ==
    /\ pc[o] = "kill"
    /\ Goto(o, IF killEpoch > stamp[o] THEN "reject" ELSE "reread")
    /\ OnlyPc

\* Faulty: the claim is not read again before the send.
RereadSkipped(o) == pc[o] = "reread" /\ Goto(o, "send") /\ OnlyPc

\* The claim re-read: a revoked claim must not transmit.
Reread(o) ==
    /\ pc[o] = "reread"
    /\ Goto(o, IF Latest(o) \in revoked THEN "done" ELSE "send")
    /\ OnlyPc

\* PlaceOrder leaves the process; the request is on the wire.
Place(o) ==
    /\ pc[o] = "send"
    /\ venue' = [venue EXCEPT ![Latest(o)] = IF @ = "none" THEN "wire" ELSE @]
    /\ Goto(o, "await")
    /\ UNCHANGED <<rows, intents, alarmed, kills, trades, memory, stamp, tries, got,
                   recon, sweep, bounds>>

\* A placement answered with an ack that carries the venue status.
PlaceAcked(o) ==
    /\ pc[o] = "await" /\ venue[Latest(o)] \in Present
    /\ \E r \in Reports(Latest(o)) : got' = [got EXCEPT ![o] = r]
    /\ Goto(o, "adopt")
    /\ UNCHANGED <<rows, intents, alarmed, kills, trades, memory, stamp, tries,
                   recon, sweep, venue, bounds>>

\* ClassDefiniteReject: the venue processed the request and refused it.
PlaceRejected(o) ==
    /\ pc[o] = "await" /\ venue[Latest(o)] = "wire"
    /\ venue' = [venue EXCEPT ![Latest(o)] = "none"]
    /\ Goto(o, "reject")
    /\ UNCHANGED <<rows, intents, alarmed, kills, trades, memory, stamp, tries, got,
                   recon, sweep, bounds>>

\* ClassThrottled with Retry-After: not executed; the same id is resent
\* after the sleep, and the loop's checks run again.
PlaceThrottled(o) ==
    /\ pc[o] = "await" /\ venue[Latest(o)] = "wire" /\ Fault
    /\ venue' = [venue EXCEPT ![Latest(o)] = "none"]
    /\ Goto(o, "kill")
    /\ UNCHANGED <<rows, intents, alarmed, kills, trades, memory, stamp, tries, got,
                   recon, sweep, crashes, sweeps, resets>>

\* Faulty: an ambiguous outcome is retried without a query.
PlaceAmbiguousRetried(o) ==
    /\ pc[o] = "await"
    /\ IF venue[Latest(o)] = "none" THEN UNCHANGED faults ELSE Fault
    /\ Goto(o, IF att[o] < MaxAttempt THEN "retry" ELSE "query")
    /\ UNCHANGED <<rows, intents, alarmed, kills, trades, memory, stamp, tries, got,
                   recon, sweep, venue, crashes, sweeps, resets>>

\* ClassAmbiguous: the outcome is unknown, the id is resolved by query.
PlaceAmbiguous(o) ==
    /\ pc[o] = "await"
    /\ IF venue[Latest(o)] = "none" THEN UNCHANGED faults ELSE Fault
    /\ Goto(o, "query")
    /\ UNCHANGED <<rows, intents, alarmed, kills, trades, memory, stamp, tries, got,
                   recon, sweep, venue, crashes, sweeps, resets>>

\* QueryOrder finds the attempt.
QueryFound(o) ==
    /\ pc[o] = "query" /\ venue[Latest(o)] \in Present
    /\ got' = [got EXCEPT ![o] = venue[Latest(o)]]
    /\ tries' = [tries EXCEPT ![o] = 0]
    /\ Goto(o, "adopt")
    /\ UNCHANGED <<rows, intents, alarmed, kills, trades, memory, stamp,
                   recon, sweep, venue, bounds>>

\* Faulty: the id that was not found is sent once more.
QueryNotFoundResent(o) ==
    /\ pc[o] = "query" /\ venue[Latest(o)] \notin Present
    /\ poisoned' = poisoned \cup {Latest(o)}
    /\ tries' = [tries EXCEPT ![o] = 0]
    /\ Goto(o, "kill")
    /\ UNCHANGED <<rows, journaled, claimed, revoked, alarmed, kills, trades, memory,
                   stamp, got, recon, sweep, venue, bounds>>

\* QueryOrder answers NotFound: the poisoning event is journaled.
QueryNotFound(o) ==
    /\ pc[o] = "query" /\ venue[Latest(o)] \notin Present
    /\ poisoned' = poisoned \cup {Latest(o)}
    /\ tries' = [tries EXCEPT ![o] = 0]
    /\ Goto(o, "recheck")
    /\ UNCHANGED <<rows, journaled, claimed, revoked, alarmed, kills, trades, memory,
                   stamp, got, recon, sweep, venue, bounds>>

\* QueryOrder itself is ambiguous; after the last try the Reconciler owns
\* the pending_new order.
QueryAmbiguous(o) ==
    /\ pc[o] = "query" /\ Fault
    /\ \/ /\ tries[o] + 1 < QueryTries
          /\ tries' = [tries EXCEPT ![o] = @ + 1] /\ Goto(o, "query")
       \/ /\ tries[o] + 1 >= QueryTries
          /\ tries' = [tries EXCEPT ![o] = 0] /\ Goto(o, "done")
    /\ UNCHANGED <<rows, intents, alarmed, kills, trades, memory, stamp, got,
                   recon, sweep, venue, crashes, sweeps, resets>>

\* The kill re-check before a retry, and the attempt ceiling.
Recheck(o) ==
    /\ pc[o] = "recheck"
    /\ Goto(o, IF killEpoch > stamp[o] \/ att[o] >= MaxAttempt
               THEN "reject" ELSE "retry")
    /\ OnlyPc

\* RecordIntentAttempt: the attempt+1 row, and the order's id moves to it.
NextAttempt(o) ==
    /\ pc[o] = "retry"
    /\ att' = [att EXCEPT ![o] = @ + 1]
    /\ journaled' = journaled \cup {<<o, att[o] + 1>>}
    /\ Goto(o, "claim")
    /\ UNCHANGED <<status, ack, claimed, revoked, poisoned, alarmed, kills, trades, memory,
                   stamp, tries, got, recon, sweep, venue, bounds>>

\* abandonStale, rejectDefinite and the two local rejections of step 7.
Reject(o) ==
    /\ pc[o] = "reject"
    /\ RecordOrderStatus(o, "rejected")
    /\ Goto(o, "done")
    /\ UNCHANGED <<att, ack, intents, alarmed, kills, trades, memory, stamp, tries, got,
                   recon, sweep, venue, bounds>>

\* adoptAck: RecordExchangeAck, then the FSM advance.
AdoptAck(o) ==
    /\ pc[o] = "adopt"
    /\ ack' = [ack EXCEPT ![o] = att[o]]
    /\ Goto(o, "adopted")
    /\ UNCHANGED <<status, att, intents, alarmed, kills, trades, memory, stamp, tries, got,
                   recon, sweep, venue, bounds>>

AdoptStatus(o) ==
    /\ pc[o] = "adopted"
    /\ RecordOrderStatus(o, LocalStatus(got[o]))
    /\ got' = [got EXCEPT ![o] = "none"]
    /\ Goto(o, "done")
    /\ UNCHANGED <<att, ack, intents, alarmed, kills, trades, memory, stamp, tries,
                   recon, sweep, venue, bounds>>

Sender(o) ==
    \/ Stamp(o) \/ StandingKill(o) \/ Refuse(o) \/ Journal(o) \/ Claim(o)
    \/ KillCheck(o) \/ Reread(o) \/ Place(o)
    \/ PlaceAcked(o) \/ PlaceRejected(o) \/ PlaceThrottled(o) \/ PlaceAmbiguous(o)
    \/ QueryFound(o) \/ QueryNotFound(o) \/ QueryAmbiguous(o)
    \/ Recheck(o) \/ NextAttempt(o) \/ Reject(o) \/ AdoptAck(o) \/ AdoptStatus(o)

-----------------------------------------------------------------------------
(* The reconcile run, R1 to R7.  One run at a time; triggers coalesce.     *)

Step(l) == rpc' = l

\* Back to the loop of the current phase; the iteration's locals are dead.
Return == rpc' = phase /\ rcur' = {} /\ rgot' = "none"

StartRun ==
    /\ rpc = "idle" /\ Step("filters")
    /\ UNCHANGED <<rows, intents, alarmed, kills, trades, memory, sender,
                   phase, rtodo, rcur, rgot, seen, sweep, venue, bounds>>

\* TriggerRun(acceptVenueReset): the next venue_epochs row, then a
\* startup-grade run.
AcceptReset ==
    /\ rpc = "idle" /\ resetPending
    /\ alarmed' = FALSE /\ resetPending' = FALSE /\ reconciled' = FALSE
    /\ Step("filters")
    /\ UNCHANGED <<rows, intents, kills, trades, started, sender,
                   phase, rtodo, rcur, rgot, seen, sweep, venue, bounds>>

\* R1; a failure aborts a startup run and is tolerated by a periodic one.
LoadFilters ==
    /\ rpc = "filters"
    /\ \/ Step("r2list") /\ UNCHANGED faults
       \/ Fault /\ Step(IF reconciled THEN "r2list" ELSE "idle")
    /\ UNCHANGED <<rows, intents, alarmed, kills, trades, memory, sender,
                   phase, rtodo, rcur, rgot, seen, sweep, venue,
                   crashes, sweeps, resets>>

\* Faulty: attempts journaled by a sender that died before its claim are skipped.
ListIntentsClaimedOnly ==
    /\ rpc = "r2list"
    /\ rtodo' = {[id |-> Latest(o), mark |-> TRUE] :
                    o \in {p \in Orders : status[p] = "pending_new"
                                          /\ Latest(p) \in claimed \ revoked}}
    /\ phase' = "r2" /\ Step("r2")
    /\ UNCHANGED <<rows, intents, alarmed, kills, trades, memory, sender,
                   rcur, rgot, seen, sweep, venue, bounds>>

\* R2: ListPendingNewIntents, the latest attempt of every pending_new order
\* with the claim columns as they are now.
ListIntents ==
    /\ rpc = "r2list"
    /\ rtodo' = {[id |-> Latest(o), mark |-> Latest(o) \in claimed \ revoked] :
                    o \in {p \in Orders : status[p] = "pending_new"}}
    /\ phase' = "r2" /\ Step("r2")
    /\ UNCHANGED <<rows, intents, alarmed, kills, trades, memory, sender,
                   rcur, rgot, seen, sweep, venue, bounds>>

\* The claim of a listed-as-claimed attempt is revoked before its query.
NextIntent ==
    /\ rpc = "r2"
    /\ \E w \in rtodo :
         /\ rtodo' = rtodo \ {w} /\ rcur' = {w.id}
         /\ revoked' = IF w.mark THEN revoked \cup {w.id} ELSE revoked
    /\ Step("query")
    /\ UNCHANGED <<rows, journaled, claimed, poisoned, alarmed, kills, trades, memory,
                   sender, phase, rgot, seen, sweep, venue, bounds>>

\* Found => adopt, NotFound => resolve absent, ambiguous => the next run.
QueryIntent ==
    /\ rpc = "query"
    /\ \E id \in rcur :
         \/ /\ venue[id] \in Present /\ rgot' = venue[id] /\ Step("adopt")
            /\ UNCHANGED <<rcur, faults>>
         \/ /\ venue[id] \notin Present /\ Step("absent")
            /\ UNCHANGED <<rcur, rgot, faults>>
         \/ Fault /\ Return
    /\ UNCHANGED <<rows, intents, alarmed, kills, trades, memory, sender,
                   phase, rtodo, seen, sweep, venue, crashes, sweeps, resets>>

\* Faulty: the ack is taken for the order's attempt of the moment.
ReconAckCurrent ==
    /\ rpc = "adopt"
    /\ \E id \in rcur : ack' = [ack EXCEPT ![id[1]] = att[id[1]]]
    /\ Step("status")
    /\ UNCHANGED <<status, att, intents, alarmed, kills, trades, memory, sender,
                   phase, rtodo, rcur, rgot, seen, sweep, venue, bounds>>

\* RecordExchangeAck, of R2's adoption and of R3's missing ack.
ReconAck ==
    /\ rpc = "adopt"
    /\ \E id \in rcur : ack' = [ack EXCEPT ![id[1]] = id[2]]
    /\ Step("status")
    /\ UNCHANGED <<status, att, intents, alarmed, kills, trades, memory, sender,
                   phase, rtodo, rcur, rgot, seen, sweep, venue, bounds>>

\* The FSM advance from the reported status: adoptAck and advanceStatus.
ReconStatus ==
    /\ rpc = "status"
    /\ \E id \in rcur : RecordOrderStatus(id[1], LocalStatus(rgot))
    /\ Return
    /\ UNCHANGED <<att, ack, intents, alarmed, kills, trades, memory, sender,
                   phase, rtodo, seen, sweep, venue, bounds>>

\* resolveAbsent: rejected and intent_resolved_absent, one transaction.
ResolveAbsent ==
    /\ rpc = "absent"
    /\ \E id \in rcur : RecordOrderStatus(id[1], "rejected")
    /\ Return
    /\ UNCHANGED <<att, ack, intents, alarmed, kills, trades, memory, sender,
                   phase, rtodo, seen, sweep, venue, bounds>>

\* R3: OpenOrders; a failed call leaves nothing seen in this run.
SweepOpenOrders ==
    /\ rpc = "r2" /\ rtodo = {}
    /\ \/ /\ seen' = [id \in Ids |-> IF venue[id] \in VenueLive THEN venue[id] ELSE "none"]
          /\ rtodo' = {[id |-> i, mark |-> FALSE] : i \in {j \in Ids : venue[j] \in VenueLive}}
          /\ UNCHANGED faults
       \/ Fault /\ UNCHANGED <<seen, rtodo>>
    /\ phase' = "r3" /\ Step("r3")
    /\ UNCHANGED <<rows, intents, alarmed, kills, trades, memory, sender,
                   rcur, rgot, sweep, venue, crashes, sweeps, resets>>

\* Faulty: an id that is no order's latest attempt is taken for foreign.
ClassifyLatestOnly ==
    /\ rpc = "r3"
    /\ \E w \in rtodo : LET o == w.id[1] IN
         /\ rtodo' = rtodo \ {w}
         /\ IF w.id = Latest(o)
            THEN /\ rcur' = {w.id} /\ rgot' = seen[w.id]
                 /\ Step(IF status[o] \in Terminal THEN "cancel"
                         ELSE IF ack[o] = NoAck THEN "adopt" ELSE "status")
            ELSE UNCHANGED <<rcur, rgot, rpc>>
    /\ UNCHANGED <<rows, intents, alarmed, kills, trades, memory, sender,
                   phase, seen, sweep, venue, bounds>>

\* classifyVenueOpen: a live local order is synced; an id that is not the
\* order's latest, or whose order is terminal, is canceled as an orphan.
ClassifyVenueOpen ==
    /\ rpc = "r3"
    /\ \E w \in rtodo : LET o == w.id[1] IN
         /\ rtodo' = rtodo \ {w} /\ rcur' = {w.id} /\ rgot' = seen[w.id]
         /\ Step(IF w.id = Latest(o) /\ status[o] \in NonTerminal
                 THEN (IF ack[o] = NoAck THEN "adopt" ELSE "status")
                 ELSE "cancel")
    /\ UNCHANGED <<rows, intents, alarmed, kills, trades, memory, sender,
                   phase, seen, sweep, venue, bounds>>

\* cancelVenueOrphan, after its orphan_canceled event.
CancelVenueOrphan ==
    /\ rpc = "cancel"
    /\ \E id \in rcur : CancelAnswered(id) \/ CancelAmbiguous(id)
    /\ Return
    /\ UNCHANGED <<rows, intents, alarmed, kills, trades, memory, sender,
                   phase, rtodo, seen, sweep>>

\* R4: the acked-or-open local orders that R3 did not see.
ListAbsences ==
    /\ rpc = "r3" /\ rtodo = {}
    /\ rtodo' = {[id |-> Latest(o), mark |-> ack[o] # NoAck] :
                    o \in {p \in Orders : /\ status[p] \in {"open", "partially_filled"}
                                          /\ seen[Latest(p)] = "none"}}
    /\ seen' = [id \in Ids |-> "none"]
    /\ phase' = "r4" /\ Step("r4")
    /\ UNCHANGED <<rows, intents, alarmed, kills, trades, memory, sender,
                   rcur, rgot, sweep, venue, bounds>>

\* NotFound splits on the ack history of the listed row.
AbsenceCheck ==
    /\ rpc = "r4"
    /\ \E w \in rtodo :
         /\ rtodo' = rtodo \ {w}
         /\ \/ /\ venue[w.id] \in Present /\ rgot' = venue[w.id]
               /\ rcur' = {w.id} /\ Step("status") /\ UNCHANGED faults
            \/ /\ venue[w.id] \notin Present
               /\ rcur' = {w.id} /\ Step(IF w.mark THEN "reset" ELSE "absent")
               /\ UNCHANGED <<rgot, faults>>
            \/ Fault /\ UNCHANGED <<rcur, rgot, rpc>>
    /\ UNCHANGED <<rows, intents, alarmed, kills, trades, memory, sender,
                   phase, seen, sweep, venue, crashes, sweeps, resets>>

\* Faulty: the alarm leaves the order open.
FlagWithoutExpiry ==
    /\ rpc = "reset"
    /\ alarmed' = TRUE /\ resetPending' = TRUE
    /\ Return
    /\ UNCHANGED <<rows, intents, kills, trades, reconciled, started, sender,
                   phase, rtodo, seen, sweep, venue, bounds>>

\* flagVenueReset: the venue_reset event and alert, the order expired, all
\* sends refused until an operator acknowledges.
FlagVenueReset ==
    /\ rpc = "reset"
    /\ \E id \in rcur : RecordOrderStatus(id[1], "expired")
    /\ alarmed' = TRUE /\ resetPending' = TRUE
    /\ Return
    /\ UNCHANGED <<att, ack, intents, kills, trades, reconciled, started, sender,
                   phase, rtodo, seen, sweep, venue, bounds>>

\* MyTrades attributes by the acked exchange order id: the executions that R5
\* can book are those of the acked attempt while the venue has it.
Unbooked(o) ==
    IF ack[o] = NoAck THEN 0
    ELSE IF venue[<<o, ack[o]>>] \notin Present THEN 0
    ELSE executed[<<o, ack[o]>>] - booked[<<o, ack[o]>>]

\* The fills rows after more[o] lots of every order's acked attempt are booked.
BookedWith(more) ==
    [id \in Ids |-> IF more[id[1]] > 0 /\ id[2] = ack[id[1]]
                    THEN booked[id] + more[id[1]] ELSE booked[id]]

\* Faulty: a trade that the stream has booked counts once more.
BackfillReplayed ==
    /\ rpc = "r4" /\ rtodo = {} /\ ~resetPending
    /\ \E more \in [Orders -> 0..Lots] :
          /\ \A o \in Orders : more[o] <= IF ack[o] = NoAck THEN 0
                                           ELSE executed[<<o, ack[o]>>]
          /\ status' = [o \in Orders |->
                IF more[o] = 0 THEN status[o]
                ELSE Advanced(status[o], IF Total(booked, o) + more[o] >= Lots
                                         THEN "filled" ELSE "partially_filled")]
    /\ Step("finish")
    /\ UNCHANGED <<att, ack, intents, alarmed, kills, trades, memory, sender,
                   phase, rtodo, rcur, rgot, seen, sweep, venue, bounds>>

\* R5: backfillTrade books executions that are not in the table yet, and
\* deriveFillStatus compares what is booked of the order, of whichever attempt,
\* with its quantity.  How much of the trade list a run sees is FillBooking's
\* subject; here it is any part of it.
Backfill ==
    /\ rpc = "r4" /\ rtodo = {}
    /\ \/ /\ ~resetPending
          /\ \E more \in [Orders -> 0..Lots] :
                /\ \A o \in Orders : more[o] <= Unbooked(o)
                /\ booked' = BookedWith(more)
                /\ status' = [o \in Orders |->
                      IF more[o] = 0 THEN status[o]
                      ELSE Advanced(status[o], IF Covers(BookedWith(more), o)
                                               THEN "filled" ELSE "partially_filled")]
          /\ UNCHANGED faults
       \/ resetPending /\ UNCHANGED <<status, booked, faults>>
       \/ ~resetPending /\ Fault /\ UNCHANGED <<status, booked>>
    /\ Step("finish")
    /\ UNCHANGED <<att, ack, intents, alarmed, kills, executed, memory, sender,
                   phase, rtodo, rcur, rgot, seen, sweep, venue,
                   crashes, sweeps, resets>>

\* R7: the gate opens unless a reset awaits its acknowledgement.
FinishRun ==
    /\ rpc = "finish"
    /\ reconciled' = (reconciled \/ ~resetPending)
    /\ started' = (started \/ ~resetPending)
    /\ Step("idle") /\ phase' = "r2"
    /\ UNCHANGED <<rows, intents, alarmed, kills, trades, resetPending, sender,
                   rtodo, rcur, rgot, seen, sweep, venue, bounds>>

Reconcile ==
    \/ LoadFilters \/ ListIntents \/ NextIntent \/ QueryIntent
    \/ ReconAck \/ ReconStatus \/ ResolveAbsent
    \/ SweepOpenOrders \/ ClassifyVenueOpen \/ CancelVenueOrphan
    \/ ListAbsences \/ AbsenceCheck \/ FlagVenueReset \/ Backfill \/ FinishRun

-----------------------------------------------------------------------------
(* The cancel sweeps: CancelOpenEntries (kill, breaker, watchdog and       *)
(* lifecycle exits) and cancelRestingProtectives (a fill closed the        *)
(* position).  Both list, then revoke, cancel and record order by order.   *)

Listed(os) == {[id |-> Latest(o), mark |-> status[o] = "pending_new"] :
                 o \in {p \in os : status[p] \in NonTerminal}}

StartSweep ==
    /\ wpc = "idle" /\ sweeps < MaxSweep /\ sweeps' = sweeps + 1
    /\ \/ wtodo' = Listed(Entries)
       \/ started /\ \E closing \in Orders :
            wtodo' = Listed((Orders \ Entries) \ {closing})
    /\ wpc' = "list"
    /\ UNCHANGED <<rows, intents, alarmed, kills, trades, memory, sender, recon, wcur,
                   venue, faults, crashes, resets>>

\* A pending_new order has its claim revoked so that the send cannot follow
\* the cancel.
SweepNext ==
    /\ wpc = "list"
    /\ \E w \in wtodo :
         /\ wtodo' = wtodo \ {w} /\ wcur' = {w.id}
         /\ revoked' = IF w.mark THEN revoked \cup {w.id} ELSE revoked
    /\ wpc' = "cancel"
    /\ UNCHANGED <<rows, journaled, claimed, poisoned, alarmed, kills, trades, memory,
                   sender, recon, venue, bounds>>

\* An ambiguous cancel is left for a later pass.
SweepCancel ==
    /\ wpc = "cancel"
    /\ \E id \in wcur :
         \/ CancelAnswered(id) /\ wpc' = "status" /\ UNCHANGED wcur
         \/ CancelAmbiguous(id) /\ wpc' = "list" /\ wcur' = {}
    /\ UNCHANGED <<rows, intents, alarmed, kills, trades, memory, sender, recon, wtodo>>

SweepStatus ==
    /\ wpc = "status"
    /\ \E id \in wcur : RecordOrderStatus(id[1], "canceled")
    /\ wpc' = "list" /\ wcur' = {}
    /\ UNCHANGED <<att, ack, intents, alarmed, kills, trades, memory, sender, recon,
                   wtodo, venue, bounds>>

EndSweep ==
    /\ wpc = "list" /\ wtodo = {} /\ wpc' = "idle"
    /\ UNCHANGED <<rows, intents, alarmed, kills, trades, memory, sender, recon,
                   wtodo, wcur, venue, bounds>>

Sweep == SweepNext \/ SweepCancel \/ SweepStatus \/ EndSweep

-----------------------------------------------------------------------------
(* The user-data stream.  A report may be late, repeated or never arrive.  *)
(* A report of the order's latest attempt records a missing ack.  One that *)
(* is no trade moves the status of the latest attempt only; a trade that   *)
(* is not booked yet is booked, and moves the order's status by what the   *)
(* venue said of the attempt, an earlier one's too (intentTarget).         *)
StreamReport(o, a) ==
    /\ started /\ venue[<<o, a>>] \in Present
    /\ \/ /\ a = att[o]
          /\ \E r \in Reports(<<o, a>>) \ {"PARTIALLY_FILLED", "FILLED"} :
               RecordOrderStatus(o, LocalStatus(r))
          /\ UNCHANGED booked
       \/ \E n \in 1..(executed[<<o, a>>] - booked[<<o, a>>]) :
            /\ booked' = [booked EXCEPT ![<<o, a>>] = @ + n]
            /\ \/ n < Lots /\ RecordOrderStatus(o, "partially_filled")
               \/ venue[<<o, a>>] = "FILLED" /\ RecordOrderStatus(o, "filled")
    /\ ack' = [ack EXCEPT ![o] = IF a = att[o] /\ @ = NoAck THEN a ELSE @]
    /\ UNCHANGED <<att, intents, alarmed, kills, executed, memory, sender, recon, sweep,
                   venue, bounds>>

-----------------------------------------------------------------------------
(* The venue, the operator and the process.                                *)

\* A request on the wire reaches the venue, possibly long after its timeout.
VenueAccept(id) ==
    /\ venue[id] = "wire" /\ venue' = [venue EXCEPT ![id] = "NEW"]
    /\ UNCHANGED <<rows, intents, alarmed, kills, trades, memory, sender, recon, sweep, bounds>>

VenueLose(id) ==
    /\ venue[id] = "wire" /\ Fault /\ venue' = [venue EXCEPT ![id] = "none"]
    /\ UNCHANGED <<rows, intents, alarmed, kills, trades, memory, sender, recon, sweep,
                   crashes, sweeps, resets>>

\* One or more lots execute; the last of them fills the order.
VenueFill(id) ==
    /\ venue[id] \in VenueLive
    /\ \E n \in (executed[id] + 1)..Lots :
         /\ executed' = [executed EXCEPT ![id] = n]
         /\ venue' = [venue EXCEPT ![id] = IF n = Lots THEN "FILLED" ELSE "PARTIALLY_FILLED"]
    /\ UNCHANGED <<rows, intents, alarmed, kills, booked, memory, sender, recon, sweep, bounds>>

VenueExpire(id) ==
    /\ venue[id] \in VenueLive /\ venue' = [venue EXCEPT ![id] = "EXPIRED"]
    /\ UNCHANGED <<rows, intents, alarmed, kills, trades, memory, sender, recon, sweep, bounds>>

VenueWork(id) == VenueFill(id) \/ VenueExpire(id)

\* The venue forgets every order (a testnet reset, a replaced account).
VenueReset ==
    /\ resets < MaxReset /\ resets' = resets + 1
    /\ venue' = [id \in Ids |-> IF venue[id] = "wire" THEN "wire" ELSE "none"]
    /\ UNCHANGED <<rows, intents, alarmed, kills, trades, memory, sender, recon, sweep,
                   faults, crashes, sweeps>>

\* A kill event: MAX(kill_epoch) + 1 in one transaction.
Kill ==
    /\ killEpoch < MaxKill /\ killEpoch' = killEpoch + 1
    /\ UNCHANGED <<rows, intents, alarmed, clearedEpoch, trades, memory, sender, recon,
                   sweep, venue, bounds>>

\* A clear covers the epochs its compare-and-set observed.
ClearKill ==
    /\ ActiveKill /\ clearedEpoch' = killEpoch
    /\ UNCHANGED <<rows, intents, alarmed, killEpoch, trades, memory, sender, recon,
                   sweep, venue, bounds>>

\* The process dies and restarts: rows and events survive, memory does not.
Crash ==
    /\ crashes < MaxCrash /\ crashes' = crashes + 1
    /\ reconciled' = FALSE /\ resetPending' = FALSE /\ started' = FALSE
    /\ pc' = [o \in Orders |-> IF pc[o] = "idle" THEN "idle" ELSE "done"]
    /\ tries' = [o \in Orders |-> 0] /\ got' = [o \in Orders |-> "none"]
    /\ rpc' = "idle" /\ phase' = "r2" /\ rtodo' = {} /\ rcur' = {} /\ rgot' = "none"
    /\ seen' = [id \in Ids |-> "none"]
    /\ wpc' = "idle" /\ wtodo' = {} /\ wcur' = {}
    /\ UNCHANGED <<rows, intents, alarmed, kills, trades, stamp,
                   venue, faults, sweeps, resets>>

-----------------------------------------------------------------------------
Init ==
    /\ status = [o \in Orders |-> "none"]
    /\ att = [o \in Orders |-> 0] /\ ack = [o \in Orders |-> NoAck]
    /\ journaled = {} /\ claimed = {} /\ revoked = {} /\ poisoned = {}
    /\ alarmed = FALSE /\ killEpoch = 0 /\ clearedEpoch = 0
    /\ reconciled = FALSE /\ resetPending = FALSE /\ started = FALSE
    /\ pc = [o \in Orders |-> "idle"] /\ stamp = [o \in Orders |-> 0]
    /\ tries = [o \in Orders |-> 0] /\ got = [o \in Orders |-> "none"]
    /\ rpc = "idle" /\ phase = "r2" /\ rtodo = {} /\ rcur = {} /\ rgot = "none"
    /\ seen = [id \in Ids |-> "none"]
    /\ wpc = "idle" /\ wtodo = {} /\ wcur = {}
    /\ venue = [id \in Ids |-> "none"]
    /\ executed = [id \in Ids |-> 0] /\ booked = [id \in Ids |-> 0]
    /\ faults = 0 /\ crashes = 0 /\ sweeps = 0 /\ resets = 0

Environment ==
    \/ \E id \in Ids : VenueAccept(id) \/ VenueLose(id) \/ VenueWork(id)
    \/ VenueReset \/ Kill \/ ClearKill \/ Crash

Next ==
    \/ \E o \in Orders : Submit(o) \/ Sender(o)
    \/ StartRun \/ AcceptReset \/ Reconcile
    \/ StartSweep \/ Sweep
    \/ \E o \in Orders : \E a \in Attempts : StreamReport(o, a)
    \/ Environment

Spec == Init /\ [][Next]_vars

\* Goroutines run; the periodic reconcile fires; a request on the wire is
\* eventually delivered or lost.  Nothing obliges anyone to submit, sweep,
\* kill, clear or acknowledge, nor the venue to fill or the stream to deliver.
Fairness ==
    /\ \A o \in Orders : WF_vars(Sender(o))
    /\ WF_vars(StartRun) /\ WF_vars(Reconcile) /\ WF_vars(Sweep)
    /\ \A id \in Ids : WF_vars(VenueAccept(id) \/ VenueLose(id))

FairSpec == Spec /\ Fairness

-----------------------------------------------------------------------------
(* Properties.                                                             *)

PcLabels == {"idle", "stamp", "standing", "journal", "claim", "kill", "reread",
             "send", "await", "query", "recheck", "retry", "reject", "adopt",
             "adopted", "done"}
RpcLabels == {"idle", "filters", "r2list", "r2", "query", "absent", "adopt",
              "status", "r3", "cancel", "r4", "reset", "finish"}
Views == Present \cup {"none"}
Work  == [id : Ids, mark : BOOLEAN]

\* Type correctness: rows, journal, memory, goroutines, venue and bounds.
TypeOK ==
    /\ status \in [Orders -> Statuses]
    /\ att \in [Orders -> Attempts]
    /\ ack \in [Orders -> Attempts \cup {NoAck}]
    /\ journaled \subseteq Ids /\ claimed \subseteq Ids
    /\ revoked \subseteq Ids /\ poisoned \subseteq Ids
    /\ alarmed \in BOOLEAN
    /\ killEpoch \in Nat /\ clearedEpoch \in Nat
    /\ reconciled \in BOOLEAN /\ resetPending \in BOOLEAN /\ started \in BOOLEAN
    /\ pc \in [Orders -> PcLabels] /\ stamp \in [Orders -> Nat]
    /\ tries \in [Orders -> Nat] /\ got \in [Orders -> Views]
    /\ rpc \in RpcLabels /\ phase \in {"r2", "r3", "r4"}
    /\ rtodo \subseteq Work /\ rcur \subseteq Ids
    /\ rgot \in Views /\ seen \in [Ids -> Views]
    /\ wpc \in {"idle", "list", "cancel", "status"}
    /\ wtodo \subseteq Work /\ wcur \subseteq Ids
    /\ venue \in [Ids -> Views \cup {"wire"}]
    /\ executed \in [Ids -> 0..Lots] /\ booked \in [Ids -> 0..Lots]
    /\ faults \in Nat /\ crashes \in Nat /\ sweeps \in Nat /\ resets \in Nat

\* Journal-before-send: whatever the wire or the venue holds was journaled
\* and its attempt was claimed first (InsertJournaledOrder,
\* RecordIntentAttempt, RecordIntentClaim).
JournalBeforeSend ==
    \A id \in Ids : venue[id] # "none" => id \in journaled /\ id \in claimed

\* An order can be at the venue twice only through a poisoned id: a later
\* attempt is sent only when every earlier one was resolved NotFound.
DuplicateOnlyIfPoisoned ==
    \A o \in Orders : \A a, b \in Attempts :
        a < b /\ venue[<<o, b>>] # "none" => <<o, a>> \in poisoned

\* A poisoned id is never sent again (transmit, resolveAmbiguous).
PoisonedNeverResent ==
    [][\A id \in poisoned : venue[id] = "none" => venue'[id] = "none"]_vars

Unsent(id) == venue[id] = "none" /\ ~(id = Latest(id[1]) /\ pc[id[1]] = "send")

\* A revoked claim that is not at the venue or past its sender's re-read stays
\* so: neither the throttle loop, nor a resolution, nor a sender that claimed
\* before the revocation transmits it (RecordIntentClaimRevoked, transmit).
RevokedNeverSent ==
    [][\A id \in revoked : Unsent(id) => Unsent(id)']_vars

\* Stamp-then-check: an entry never passes its pre-send kill re-check while
\* an uncleared kill binds it, whatever kills and clears commit between the
\* stamp, the standing check, the journal write and the re-check.
KillBindsSend ==
    [][\A o \in Entries : pc[o] = "kill" /\ pc'[o] = "reread" => ~ActiveKill]_vars

\* What the rows say happened did happen: an acknowledged attempt is at the
\* venue, and the executions of a filled order's attempts together cover its
\* quantity, whichever of sender, R2, R3, R5 and stream wrote it, however late,
\* and whichever of them booked which part of it.  R4 tells a reset from a
\* rejection and R5 attributes trades by these columns.
RowsTrueOfVenue ==
    resets = 0 =>
        \A o \in Orders :
            /\ ack[o] # NoAck => venue[<<o, ack[o]>>] \in Present
            /\ status[o] = "filled" => Covers(executed, o)

\* Reconcile-before-trade: a submission is under way only in a process whose
\* startup reconcile has completed.
StartupReconcileFirst ==
    \A o \in Orders : pc[o] \notin {"idle", "done"} => started

\* Every journaled order is eventually resolved: by its sender, or by R2
\* after a crash or an unreachable venue.
PendingEventuallyResolved ==
    \A o \in Orders : status[o] = "pending_new" ~> status[o] # "pending_new"

Orphan(id) ==
    venue[id] \in VenueLive /\ (status[id[1]] \in Terminal \/ id # Latest(id[1]))

\* A venue order that no live local order accounts for - a late send, or a
\* poisoned id that materialized - is eventually gone from the book (R3).
OrphanEventuallyGone == \A id \in Ids : Orphan(id) ~> ~Orphan(id)

Stale(o) ==
    status[o] \in {"open", "partially_filled"} /\ venue[Latest(o)] \notin VenueLive

\* Exchange-is-truth: an order that is open locally but rests nowhere at the
\* venue - filled, canceled, expired or forgotten while the stream was down -
\* does not stay so (R4, R5).
OpenFollowsVenue == \A o \in Orders : Stale(o) ~> ~Stale(o)

-----------------------------------------------------------------------------
(* The inductive invariant behind the safety properties; the module        *)
(* OrderJournal_proofs uses it.                                            *)

Unclaimed    == {"idle", "stamp", "standing", "journal", "claim"}
Transmitting == {"kill", "reread", "send", "await", "query"}
Resolved     == {"recheck", "retry"}
Adopting     == {"adopt", "adopted"}

\* A sender past its claim holds it; everything sent was claimed, everything
\* claimed was journaled, and attempts are journaled in order.
JournalInv ==
    /\ \A id \in Ids : venue[id] # "none" => id \in claimed
    /\ claimed \subseteq journaled
    /\ \A o \in Orders :
          pc[o] \in Transmitting \cup Resolved \cup Adopting => Latest(o) \in claimed
    /\ \A id \in journaled :
          /\ id[2] <= att[id[1]]
          /\ \A a \in Attempts : a < id[2] => <<id[1], a>> \in poisoned

\* An attempt is poisoned exactly when its sender leaves it for the next one.
PoisonInv ==
    /\ \A id \in poisoned : id[2] <= att[id[1]]
    /\ \A o \in Orders :
          /\ pc[o] \in Unclaimed \cup Transmitting => Latest(o) \notin poisoned
          /\ pc[o] \in Resolved => Latest(o) \in poisoned
          /\ pc[o] = "retry" => att[o] < MaxAttempt

\* The stamp of an entry past its standing check is covered by the clears.
KillInv ==
    /\ clearedEpoch <= killEpoch
    /\ \A o \in Orders : stamp[o] <= killEpoch
    /\ \A o \in Entries :
          pc[o] \notin {"idle", "stamp", "standing", "done"} => stamp[o] <= clearedEpoch

\* A process that trades has finished a run.
GateInv == StartupReconcileFirst /\ (reconciled => started)

\* A venue answer is carried only on the way to the row it is written to, and
\* the run works on one row at a time.
CarryInv ==
    /\ \A o \in Orders : pc[o] \notin Adopting => got[o] = "none"
    /\ rpc \notin {"adopt", "status", "cancel"} => rgot = "none"
    /\ rpc \in {"r2", "r3", "r4"} => phase = rpc
    /\ \A i, j \in rcur : i = j

\* Only what was executed is booked, and a filled attempt was executed in full.
FillInv ==
    \A id \in Ids :
        /\ booked[id] <= executed[id]
        /\ venue[id] = "FILLED" => executed[id] = Lots

\* What senders and the reconciler carry is still true of the venue when they
\* write it.
TruthInv ==
    resets = 0 =>
        /\ RowsTrueOfVenue
        /\ \A o \in Orders :
              /\ pc[o] \in Adopting => venue[Latest(o)] \in Present
              /\ got[o] = "FILLED" => venue[Latest(o)] = "FILLED"
        /\ rpc \in {"adopt", "status"} => \A id \in rcur : venue[id] \in Present
        /\ rgot = "FILLED" => \A id \in rcur : venue[id] = "FILLED"
        /\ phase = "r3" => \A w \in rtodo : venue[w.id] \in Present
        /\ \A id \in Ids : seen[id] # "FILLED"

IInv == TypeOK /\ JournalInv /\ PoisonInv /\ KillInv /\ GateInv /\ CarryInv /\ FillInv /\ TruthInv

-----------------------------------------------------------------------------
(* What all of it implements: the ledger of attempts.                      *)

\* Senders whose next step is the transmission of their order's latest attempt.
ArmedIds == {id \in Ids : id = Latest(id[1]) /\ pc[id[1]] = "send"}

\* Attempts on the wire or known to the exchange.
OutIds == {id \in Ids : venue[id] # "none"}

Ledger == INSTANCE AttemptLedger WITH
    LastAttempt <- MaxAttempt,
    written <- journaled, held <- claimed, barred <- revoked, abandoned <- poisoned,
    armed <- ArmedIds, out <- OutIds

\* Senders, reconciler, sweeps, stream, crashes and lost calls together still keep
\* one ledger per order: written before sent, sent by the one claim holder, and
\* given up for good before the next attempt is written, whoever revokes meanwhile.
ImplementsLedger == Ledger!LedgerSpec

-----------------------------------------------------------------------------
(* Claims of the documentation and of the comments that the code does not  *)
(* keep; each is refuted by a run of its own.                              *)

\* "Exactly one of {transmit, resolve-absent} wins": a sender never passes
\* its claim re-read for an order already resolved absent.
TransmitExcludesResolveAbsent ==
    [][\A o \in Orders : pc[o] = "reread" /\ pc'[o] = "send" => status[o] # "rejected"]_vars

\* "The send cannot follow the cancel": a sender never passes its claim
\* re-read for an order the sweep has already recorded as canceled.
SendNeverFollowsCancel ==
    [][\A o \in Orders : pc[o] = "reread" /\ pc'[o] = "send" => status[o] # "canceled"]_vars

=============================================================================
