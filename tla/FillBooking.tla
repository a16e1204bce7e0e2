----------------------------- MODULE FillBooking -----------------------------
(***************************************************************************)
(* How executions at the exchange become fills in the books of the live    *)
(* OMS (oms/live fills.go, stream.go, R5 of reconcile.go): Run's loop of   *)
(* stream sessions with a reconcile before each, the periodic runs between *)
(* two stream events, the operator's TriggerRun beside them, the watermark *)
(* they share, deferred fees, and the false alarm of a venue reset.        *)
(*                                                                         *)
(* One symbol.  The exchange numbers its executions; each fills one unit   *)
(* of an order.  A stray order is a poisoned attempt that materialized.    *)
(***************************************************************************)
EXTENDS Integers, Sequences, SequencesExt, FiniteSets

CONSTANTS
    VenueOrders,    \* orders the exchange may execute
    Strays,         \* those under an attempt id that is no order's latest
    Deferring,      \* those whose commission has no fresh mark when booked
    MaxTrade,       \* bound: executions
    MaxEpoch,       \* bound: venue epochs
    MaxOutage       \* bound: lost sessions, failed calls and writes, crashes

ASSUME StraysAssumption == Strays \subseteq VenueOrders
ASSUME FillsBoundsAssumption == MaxTrade \in Nat /\ MaxEpoch \in Nat /\ MaxOutage \in Nat

VARIABLES
    trades,         \* the exchange's executions, numbered by position
    acked,          \* orders with their exchange_order_id recorded
    fills,          \* keys <<venue_epoch, trade id>> of the fills table
    held,           \* positions.qty_base
    owed,           \* fills with an unconverted pending_fill_fees row
    charged,        \* fees in the books
    epoch, epochStart,   \* latest venue_epochs row; executions before started_at
    opened,         \* OMS memory: reconciled and resetPending
    loop,           \* where Run is
    feed,           \* events of the open session not yet received
    hand,           \* the event in bookStreamFill with the watermark it read
    run,            \* the reconcile run in progress
    outages,
    unseen, tooLate, skipped  \* ghost: see Unreported

books    == <<fills, held, owed, charged>>
epochs   == <<epoch, epochStart>>
loops    == <<loop, feed, hand>>
ghosts   == <<unseen, tooLate, skipped>>
fillVars == <<trades, acked, books, epochs, opened, loops, run, outages, ghosts>>

NoHand  == [id |-> 0, mark |-> 0]
IdleRun == [pc |-> "idle", own |-> TRUE, page |-> <<>>]
Closed  == [reconciled |-> FALSE, reset |-> FALSE]

TradeIds == 1..MaxTrade
Executed == 1..Len(trades)

FillsInit ==
    /\ trades = <<>> /\ acked = {}
    /\ fills = {} /\ held = 0 /\ owed = {} /\ charged = 0
    /\ epoch = 0 /\ epochStart = 0 /\ opened = Closed
    /\ loop = "starting" /\ feed = <<>> /\ hand = NoHand /\ run = IdleRun
    /\ outages = 0 /\ unseen = {} /\ tooLate = {} /\ skipped = {}

\* FillWatermark: the highest trade id booked in an epoch, 0 on a cold start.
Watermark(e) == CHOOSE w \in 0..MaxTrade :
    /\ w = 0 \/ <<e, w>> \in fills
    /\ \A f \in fills : f[1] = e => f[2] <= w

Running == run.pc # "idle"
OwnRun  == Running /\ run.own           \* the loop waits for it
Outage  == outages < MaxOutage /\ outages' = outages + 1

-----------------------------------------------------------------------------
(* The exchange and the submit path.                                       *)

\* Faulty: the page starts one id too late.
FromAfterNext == IF Watermark(epoch) > 0 THEN Watermark(epoch) + 2 ELSE epochStart + 1

\* The first id a page asks for: after the watermark, on a cold start by started_at.
FromId == IF Watermark(epoch) > 0 THEN Watermark(epoch) + 1 ELSE epochStart + 1

\* Run reconciles before the session it opens next.
PageBeforeSession ==
    \/ loop = "reconnecting"
    \/ loop = "starting" /\ ~opened.reconciled /\ run.pc \in {"idle", "adopt", "page"}
    \/ OwnRun /\ run.pc \in {"adopt", "page"}

\* The ghosts: `unseen` are executions that no session and no page of MyTrades has
\* reported, or whose report was lost, `tooLate` those for which no page comes before
\* the stream goes on, `skipped` those a page showed without their order's ack.  No
\* action reads them.
Unreported(ids, isLate) ==
    /\ unseen' = unseen \cup ids
    /\ tooLate' = tooLate \cup {id \in ids : isLate \/ id < FromId}
    /\ UNCHANGED skipped

GivenUp == tooLate' = tooLate \cup unseen /\ UNCHANGED <<unseen, skipped>>

\* The exchange executes one unit; an open session reports it.
Execute(o) ==
    /\ Len(trades) < MaxTrade
    /\ trades' = Append(trades, o)
    /\ IF loop = "streaming"
       THEN feed' = Append(feed, Len(trades) + 1) /\ UNCHANGED ghosts
       ELSE Unreported({Len(trades) + 1}, ~PageBeforeSession) /\ UNCHANGED feed
    /\ UNCHANGED <<acked, books, epochs, opened, loop, hand, run, outages>>

\* adoptAck of the sender, whose answer may come after the execution.
Acknowledged(o) ==
    /\ o \notin acked \cup Strays
    /\ acked' = acked \cup {o}
    /\ UNCHANGED <<trades, books, epochs, opened, loops, run, outages, ghosts>>

-----------------------------------------------------------------------------
(* One path into the books.                                                *)

\* feeToQuote: what the commission costs, or a row that waits for a mark.
ChargeFee(f) ==
    IF trades[f[2]] \in Deferring THEN owed' = owed \cup {f} /\ UNCHANGED charged
                                  ELSE charged' = charged + 1 /\ UNCHANGED owed

\* The accounting of one fill: loadBook, applyFill, persistBook.
ApplyFill(f) == held' = held + 1 /\ ChargeFee(f)

\* Dedup, fill row and accounting in one transaction; a replay changes nothing.
RecordVenueFill(f) ==
    \/ f \in fills /\ UNCHANGED books
    \/ f \notin fills /\ fills' = fills \cup {f} /\ ApplyFill(f)

\* bookVenueFill, of the stream and of the backfill.
Book(id) == RecordVenueFill(<<epoch, id>>)

-----------------------------------------------------------------------------
(* The stream goroutine: Run and streamOnce.                               *)

StartRun(own) == run' = [IdleRun EXCEPT !.pc = "adopt", !.own = own]

\* The startup reconcile; a run of the operator's in progress stands for it.
StartupRun ==
    /\ loop = "starting" /\ ~opened.reconciled /\ ~Running
    /\ StartRun(TRUE)
    /\ UNCHANGED <<trades, acked, books, epochs, opened, loops, outages, ghosts>>

StartupDone ==
    /\ loop = "starting" /\ opened.reconciled /\ ~OwnRun
    /\ loop' = "connecting"
    /\ UNCHANGED <<trades, acked, books, epochs, opened, feed, hand, run, outages, ghosts>>

\* NewListenKey and StreamUserData; no reconcile follows the connection.
Connect ==
    /\ loop = "connecting" /\ ~OwnRun
    /\ \/ loop' = "streaming" /\ UNCHANGED outages
       \/ Outage /\ loop' = "reconnecting"
    /\ UNCHANGED <<trades, acked, books, epochs, opened, feed, hand, run, ghosts>>

\* Closed, silent, or its listen key expired: events on their way are gone.
LoseSession ==
    /\ loop = "streaming" /\ ~OwnRun /\ hand = NoHand /\ Outage
    /\ loop' = "reconnecting" /\ feed' = <<>> /\ Unreported(ToSet(feed), FALSE)
    /\ UNCHANGED <<trades, acked, books, epochs, opened, hand, run>>

\* Faulty: the next session is opened without a reconcile.
ReconnectOnly ==
    /\ loop = "reconnecting"
    /\ loop' = "connecting"
    /\ UNCHANGED <<trades, acked, books, epochs, opened, feed, hand, run, outages, ghosts>>

\* The reconcile before the next session; it coalesces into a run in progress,
\* however far that one has come.
Reconnect ==
    /\ loop = "reconnecting"
    /\ loop' = "connecting"
    /\ IF Running THEN GivenUp /\ UNCHANGED run ELSE StartRun(TRUE) /\ UNCHANGED ghosts
    /\ UNCHANGED <<trades, acked, books, epochs, opened, feed, hand, outages>>

PeriodicRun ==
    /\ loop = "streaming" /\ hand = NoHand /\ ~Running
    /\ StartRun(TRUE)
    /\ UNCHANGED <<trades, acked, books, epochs, opened, loops, outages, ghosts>>

\* handleUserEvent: the ack of an order that has none, then the watermark.
ReceiveTrade ==
    /\ loop = "streaming" /\ ~OwnRun /\ hand = NoHand /\ feed # <<>>
    /\ acked' = acked \cup ({trades[Head(feed)]} \ Strays)
    /\ hand' = [id |-> Head(feed), mark |-> Watermark(epoch)]
    /\ feed' = Tail(feed)
    /\ UNCHANGED <<trades, books, epochs, opened, loop, run, outages, ghosts>>

\* What was not there although the watermark had passed it is taken for a venue reset.
LooksReset == <<epoch, hand.id>> \notin fills /\ hand.id <= hand.mark

\* bookStreamFill.
BookStreamFill ==
    /\ hand # NoHand
    /\ Book(hand.id)
    /\ opened' = [opened EXCEPT !.reset = @ \/ LooksReset]
    /\ hand' = NoHand
    /\ UNCHANGED <<trades, acked, epochs, loop, feed, run, outages, ghosts>>

\* A read or write of handleUserEvent fails, before the fill is booked or after: the
\* error is logged, the event gone, and the session goes on with the next.
DropEvent ==
    /\ Outage
    /\ \/ /\ loop = "streaming" /\ ~OwnRun /\ hand = NoHand /\ feed # <<>>
          /\ feed' = Tail(feed)
          /\ Unreported({Head(feed)} \ ToSet(run.page), TRUE) /\ UNCHANGED <<hand, books>>
       \/ /\ hand # NoHand
          /\ hand' = NoHand
          /\ \/ Unreported({hand.id} \ ToSet(run.page), TRUE) /\ UNCHANGED books
             \/ Book(hand.id) /\ UNCHANGED ghosts
          /\ UNCHANGED feed
    /\ UNCHANGED <<trades, acked, epochs, opened, loop, run>>

-----------------------------------------------------------------------------
(* A reconcile run, by the loop or by the operator.                        *)

TriggerRun ==
    /\ ~Running
    /\ StartRun(FALSE)
    /\ UNCHANGED <<trades, acked, books, epochs, opened, loops, outages, ghosts>>

\* The acknowledgment of a reset: the next epoch, closed until its first run.
\* started_at keeps whole seconds, so the last execution may still count as new.
\* Its pages start above what an open session has yet to deliver.
AcceptReset ==
    /\ ~Running /\ opened.reset /\ epoch < MaxEpoch
    /\ epoch' = epoch + 1
    /\ epochStart' \in {Len(trades), Len(trades) - 1} \cap Nat
    /\ opened' = Closed
    /\ tooLate' = tooLate \cup unseen \cup ToSet(feed) \cup ({hand.id} \ {0})
    /\ UNCHANGED <<unseen, skipped>>
    /\ StartRun(FALSE)
    /\ UNCHANGED <<trades, acked, books, loops, outages>>

\* R2 adopts what was sent and not acked, and R5 is next unless a reset awaits its
\* acknowledgment.
RunAdopt ==
    /\ run.pc = "adopt"
    /\ acked' = acked \cup (ToSet(trades) \ Strays)
    /\ IF opened.reset THEN run' = [run EXCEPT !.pc = "finish"] /\ GivenUp
                       ELSE run' = [run EXCEPT !.pc = "page"] /\ UNCHANGED ghosts
    /\ UNCHANGED <<trades, books, epochs, opened, loops, outages>>

\* What the exchange answers: everything from an id on.
MyTrades(from) == [i \in 1..(Len(trades) - from + 1) |-> from + i - 1]

\* backfillSymbol: one page of MyTrades; a failed call leaves it to a later run.
RunPage ==
    /\ run.pc = "page"
    /\ \/ /\ run' = [run EXCEPT !.pc = "book",
                       !.page = MyTrades(FromId)]
          /\ unseen' = {} /\ UNCHANGED <<outages, tooLate, skipped>>
       \/ Outage /\ run' = [run EXCEPT !.pc = "fees"] /\ GivenUp
    /\ UNCHANGED <<trades, acked, books, epochs, opened, loops>>

\* MyTrades names the exchange order only, so the trade of an order without a
\* recorded ack is taken for somebody else's.
Attributed(id) == trades[id] \in acked

\* backfillTrade.
RunBook ==
    /\ run.pc = "book" /\ run.page # <<>>
    /\ LET id == Head(run.page) IN
         \/ Attributed(id) /\ Book(id) /\ UNCHANGED skipped
         \/ ~Attributed(id) /\ skipped' = skipped \cup {id} /\ UNCHANGED books
    /\ run' = [run EXCEPT !.page = Tail(@)]
    /\ UNCHANGED <<trades, acked, epochs, opened, loops, outages, unseen, tooLate>>

RunBooked ==
    /\ run.pc = "book" /\ run.page = <<>>
    /\ run' = [run EXCEPT !.pc = "fees"]
    /\ UNCHANGED <<trades, acked, books, epochs, opened, loops, outages, ghosts>>

\* retryFeeConversions: the mark and the books in one transaction.
ConvertFee(f) ==
    /\ run.pc = "fees" /\ f \in owed
    /\ owed' = owed \ {f} /\ charged' = charged + 1
    /\ UNCHANGED <<trades, acked, fills, held, epochs, opened, loops, run, outages, ghosts>>

\* R7; marks may still be missing, then their fees stay owed.
FinishRun ==
    /\ run.pc \in {"fees", "finish"}
    /\ run' = IdleRun
    /\ opened' = [opened EXCEPT !.reconciled = @ \/ ~opened.reset]
    /\ UNCHANGED <<trades, acked, books, epochs, loops, outages, ghosts>>

\* Run repeats a run that failed only before its first session, and starts one of its
\* own before it opens the next.
RunStillDue == loop = "reconnecting" \/ (loop = "starting" /\ ~opened.reconciled)

\* A read or write fails, R1 of a startup run, or a booking halfway through the page:
\* the run ends there, what is left of its page is in no hand but the stream's.
FailRun ==
    /\ Running /\ Outage
    /\ run' = IdleRun
    /\ Unreported(unseen \cup (ToSet(run.page) \ (ToSet(feed) \cup {hand.id})), ~RunStillDue)
    /\ UNCHANGED <<trades, acked, books, epochs, opened, loops>>

\* The process dies: rows survive, memory, session and page do not.
CrashBooking ==
    /\ Outage
    /\ loop' = "starting" /\ feed' = <<>> /\ hand' = NoHand /\ run' = IdleRun /\ opened' = Closed
    /\ Unreported(ToSet(feed) \cup ToSet(run.page) \cup ({hand.id} \ {0}), FALSE)
    /\ UNCHANGED <<trades, acked, books, epochs>>

-----------------------------------------------------------------------------

LoopStep == StartupRun \/ StartupDone \/ Connect \/ Reconnect \/ ReceiveTrade \/ BookStreamFill
RunStep  == RunAdopt \/ RunPage \/ RunBook \/ RunBooked \/ FinishRun

FillsNext ==
    \/ \E o \in VenueOrders : Execute(o) \/ Acknowledged(o)
    \/ LoopStep \/ LoseSession \/ DropEvent \/ PeriodicRun
    \/ TriggerRun \/ AcceptReset \/ RunStep \/ \E f \in owed : ConvertFee(f)
    \/ FailRun \/ CrashBooking

FillsSpec == FillsInit /\ [][FillsNext]_fillVars

-----------------------------------------------------------------------------
(* Properties.                                                             *)

FillsTypeOK ==
    /\ trades \in Seq(VenueOrders) /\ Len(trades) <= MaxTrade
    /\ acked \subseteq VenueOrders \ Strays
    /\ fills \cup owed \subseteq (0..MaxEpoch) \X TradeIds
    /\ held \in Nat /\ charged \in Nat /\ outages \in 0..MaxOutage
    /\ epoch \in 0..MaxEpoch /\ epochStart \in 0..MaxTrade
    /\ opened \in [reconciled : BOOLEAN, reset : BOOLEAN]
    /\ loop \in {"starting", "connecting", "streaming", "reconnecting"}
    /\ feed \in Seq(TradeIds) /\ hand \in [id : 0..MaxTrade, mark : 0..MaxTrade]
    /\ run \in [pc : {"idle", "adopt", "page", "book", "fees", "finish"}, own : BOOLEAN,
                page : Seq(TradeIds)]
    /\ unseen \cup tooLate \cup skipped \subseteq TradeIds

InBooks(id)  == \E e \in 0..epoch : <<e, id>> \in fills
Underway(id) == id \in ToSet(feed) \cup ToSet(run.page) \cup {hand.id}

\* An execution that is in no fill row, in nobody's hand, and that no later page
\* of MyTrades will show.
Hidden(id) == ~InBooks(id) /\ ~Underway(id) /\ id < FromId

\* Stream, periodic run and operator's run book the same executions side by side,
\* and each counts once: the position is the number of fill rows and every fee is
\* charged or owed (RecordVenueFill, retryFeeConversions).
EachFillCountsOnce ==
    /\ held = Cardinality(fills)
    /\ owed \subseteq fills /\ charged = Cardinality(fills \ owed)

\* What the watermark hides for good was executed after the last page before a
\* session, was left to a page that failed, broke off, coalesced or waits for the
\* operator, was in an event whose booking failed, was not yet delivered when a reset
\* was accepted, or was shown by a page before its order's ack.  Nothing else is lost,
\* whatever sessions, runs and crashes do (Run, runInternal, backfillSymbol).
HiddenOnlyIfLate ==
    \A id \in Executed : Hidden(id) => id \in tooLate \cup skipped

\* The event in hand raises the alarm of a venue reset only if its own execution is
\* such a one, before and after any reset that was accepted (bookStreamFill).
AlarmOnlyIfLate == hand # NoHand /\ LooksReset => hand.id \in tooLate \cup skipped

FillsAccounted == EachFillCountsOnce /\ HiddenOnlyIfLate /\ AlarmOnlyIfLate

\* In the books, or out of the reach of any page: below the watermark, or of a stray
\* order, which a page cannot attribute.
Settled(id) ==
    \/ InBooks(id) \/ opened.reset
    \/ id \in tooLate \cup skipped /\ (id < FromId \/ trades[id] \in Strays)

\* Every execution is eventually in the books, through lost sessions, failed calls,
\* dropped events, broken runs and crashes, unless the watermark has passed it for one
\* of those reasons, a stray order's last event is lost, or a reset awaits its
\* acknowledgment.
TradeEventuallyBooked == \A id \in TradeIds : id \in Executed ~> Settled(id)

\* "The stream is a latency optimization, never a source of correctness": no
\* execution becomes unreachable for R5.
NothingHidden == \A id \in Executed : ~Hidden(id)

=============================================================================
