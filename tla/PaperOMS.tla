------------------------------ MODULE PaperOMS ------------------------------
(***************************************************************************)
(* The paper OMS (internal/oms/paper) and the bridge that persists it      *)
(* (internal/omsbridge): orders and a position per strategy and symbol are *)
(* kept in memory, every operation changes memory first and is then        *)
(* mirrored into the store in one transaction, and a restart rebuilds the  *)
(* memory from the store.  The module follows one position.                *)
(*                                                                         *)
(* The bridge mutex makes an operation and its transaction one critical    *)
(* section; they are steps of `bridge', since the transaction may fail and *)
(* the process may end between them.  Order ids are random, so the orders  *)
(* of one class are swept in any order.  The kill re-check is left out:    *)
(* a submission carries the epoch just read, and nothing raises the OMS's  *)
(* own epoch in a running process.                                         *)
(***************************************************************************)
EXTENDS PaperGate, FiniteSets, Functions

CONSTANTS
    NoOrder,        \* an id that is not in use
    Entries,        \* what a proposal may open (IsEntry)
    Marks,          \* prices of the feed
    Slip, Fee,      \* slippage of a market fill, fee of a fill
    Allocated,      \* the capital of the strategy
    Submissions,    \* proposal ids
    Gate,           \* minDays, minTrades and limits of the paper gate
    MaxOrder,       \* bound: orders
    MaxDay,         \* bound: UTC days
    MaxPaperFault,  \* bound: failed transactions
    MaxReload       \* bound: restarts

\* at: the limit price, 0 for a market entry; take 0: no take-profit.
IsEntry(e) ==
    /\ e.buy \in BOOLEAN /\ e.qty \in Nat \ {0}
    /\ e.at \in Nat /\ e.stop \in Nat \ {0} /\ e.take \in Nat

OrderKinds    == {"entry", "exit", "stop", "profit"}
OrderStatuses == {"open", "filled", "canceled"}
PaperOrders ==
    [kind : OrderKinds, buy : BOOLEAN, qty : Nat \ {0}, at : Nat, stop : Nat, take : Nat,
     status : OrderStatuses, price : Int]
PaperRows == [o : PaperOrders, pid : Submissions]

ASSUME PaperAssumption ==
    /\ NoOrder \notin PaperOrders /\ NoOrder \notin PaperRows /\ NoOrder \notin OrderStatuses
    /\ \A e \in Entries : IsEntry(e)
    /\ Marks \subseteq Nat \ {0} /\ 0 \notin Submissions
    /\ Slip \in Nat /\ Fee \in Nat /\ Allocated \in Nat
    /\ MaxOrder \in Nat /\ MaxDay \in Nat \ {0}

Ids == 1..MaxOrder

VARIABLES
    bridge,         \* the operation in the critical section
    oms,            \* OMS.orders
    position,           \* OMS.positions of this strategy and symbol
    known,          \* Bridge.statuses
    author,         \* Bridge.proposals
    kept,           \* Bridge.books
    orderRows,      \* the orders table, with the proposal_id of each row
    fillTable,      \* the fills table in the order of its rowids
    posRow,         \* the positions row
    stateRow,       \* the strategy_state row: equity, peak, daily, date
    day,            \* the UTC date
    late,           \* the date of an operation that waits for the mutex, or 0
    overtaken,      \* ghost: an operation was persisted after one of a later day
    joined,         \* ghost: a transaction persisted more than one fill
    given,          \* proposals submitted
    dayPnl,         \* ghost: what operations of this date have realized
    paperFaults, reloads

bridgeMemory == <<oms, position, known, author, kept>>
paperTables  == <<orderRows, fillTable, joined, posRow, stateRow>>
dates        == <<day, late, overtaken, dayPnl>>
paperVars == <<bridge, bridgeMemory, paperTables, given, dates, paperFaults, reloads>>

Resting == [pc |-> "idle"]
Flat    == [qty |-> 0, cost |-> 0, realized |-> 0, cash |-> 0]

PaperInit ==
    /\ bridge = Resting
    /\ oms = [i \in Ids |-> NoOrder] /\ position = Flat
    /\ known = [i \in Ids |-> NoOrder]
    /\ author = [i \in Ids |-> 0] /\ kept = Flat
    /\ orderRows = [i \in Ids |-> NoOrder]
    /\ fillTable = <<>> /\ joined = FALSE
    /\ posRow = Flat
    /\ stateRow = [equity |-> Allocated, peak |-> Allocated, daily |-> 0, date |-> 0]
    /\ given = {} /\ day = 1 /\ late = 0 /\ overtaken = FALSE /\ dayPnl = 0
    /\ paperFaults = 0 /\ reloads = 0

-----------------------------------------------------------------------------
(* Arithmetic of a position.  cost is |qty| times the average entry price; *)
(* cash, a ghost, is what the fills paid and received, fees included.      *)

Size(b)      == IF b.qty < 0 THEN -b.qty ELSE b.qty
Least(x, y)  == IF x < y THEN x ELSE y
Sign(buy)    == IF buy THEN 1 ELSE -1
Closes(b, buy) == IF buy THEN b.qty < 0 ELSE b.qty > 0
Slipped(buy, mark) == mark + Sign(buy) * Slip

\* applyFill: averaged when it opens or adds; a flip reopens at the fill price.
CostAfter(b, buy, qty, price) ==
    IF ~Closes(b, buy) THEN b.cost + price * qty
    ELSE IF qty > Size(b) THEN price * (qty - Size(b))
    ELSE b.cost - (b.cost * Least(qty, Size(b))) \div Size(b)

\* Realized on the closed quantity only; the fee is realized when paid.
Gross(b, buy, qty, price) ==
    IF ~Closes(b, buy) THEN 0
    ELSE LET closed == Least(qty, Size(b))
         IN -Sign(buy) * (price * closed - (b.cost * closed) \div Size(b))

Booked(b, buy, qty, price) ==
    [qty      |-> b.qty + Sign(buy) * qty,
     cost     |-> CostAfter(b, buy, qty, price),
     realized |-> b.realized + Gross(b, buy, qty, price) - Fee,
     cash     |-> b.cash - Sign(buy) * price * qty - Fee]

-----------------------------------------------------------------------------
(* Orders.  kind: "entry" (limit), "exit" (a queued flatten), "stop" or    *)
(* "profit"; at is the price that triggers it.                             *)

IsOpen(i)    == oms[i] # NoOrder /\ oms[i].status = "open"
OpenOf(kind) == {i \in Ids : IsOpen(i) /\ oms[i].kind = kind}
Protectives  == {i \in Ids : IsOpen(i) /\ oms[i].kind # "entry"}
FreeId(used) == CHOOSE i \in Ids : i \notin used /\ \A j \in Ids \ used : i <= j
UsedIds      == {i \in Ids : oms[i] # NoOrder \/ orderRows[i] # NoOrder}
\* Room for n more orders and for what the resting entries may still place.
Room(n)      == Cardinality(Ids \ UsedIds) >= n + 2 * Cardinality(OpenOf("entry"))

NewOrder(kind, buy, qty, price) ==
    [kind |-> kind, buy |-> buy, qty |-> qty, at |-> price, stop |-> 0, take |-> 0, status |-> "open", price |-> 0]

\* Faulty: the stop covers the limit entry's first unit only.
WithUnitStop(os, e) ==
    LET used == {i \in Ids : os[i] # NoOrder \/ orderRows[i] # NoOrder}
    IN [os EXCEPT ![FreeId(used)] = NewOrder("stop", ~e.buy, 1, e.stop)]

\* placeProtectivesLocked for the entry stored under id, in orders os: a stop
\* for the whole filled quantity and, if it has one, a take-profit.
WithProtectives(os, e) ==
    LET used == {i \in Ids : os[i] # NoOrder \/ orderRows[i] # NoOrder}
        s    == FreeId(used)
        t    == FreeId(used \cup {s})
        stop == NewOrder("stop", ~e.buy, e.qty, e.stop)
        take == NewOrder("profit", ~e.buy, e.qty, e.take)
    IN [i \in Ids |-> IF i = s THEN stop
                      ELSE IF i = t /\ e.take # 0 THEN take ELSE os[i]]

\* bookFill.
FilledAt(o, price) == [o EXCEPT !.status = "filled", !.price = price]

\* Every open protective order of the position is canceled.
AllCanceled(os) ==
    [i \in Ids |-> IF os[i] # NoOrder /\ os[i].kind # "entry" /\ os[i].status = "open"
                   THEN [os[i] EXCEPT !.status = "canceled"] ELSE os[i]]

-----------------------------------------------------------------------------
(* SubmitApproved, CancelOpenEntries.  mark 0: none fresh.                 *)

Persisting(pid, date) == [pc |-> "persist", pid |-> pid, date |-> date]

\* The time of an operation is read before the mutex is taken.
Stamped(date) ==
    /\ \/ date = day /\ UNCHANGED late
       \/ date = late /\ late # 0 /\ late' = 0
    /\ UNCHANGED <<day, overtaken, dayPnl>>

\* An approved proposal is submitted once, and may place up to n orders.
Starts(pid, n) ==
    /\ bridge = Resting /\ Room(n)
    /\ pid \notin given /\ given' = given \cup {pid}
    /\ \E date \in 1..day : Stamped(date) /\ bridge' = Persisting(pid, date)
    /\ UNCHANGED <<known, author, kept, paperTables, paperFaults, reloads>>

\* SubmitEntry: a market entry fills at once or fails; a marketable limit fills
\* at its limit; another one rests.  A failed one is persisted like the others.
SubmitEntry(e, pid, mark) ==
    LET id      == FreeId(UsedIds)
        entry   == [kind |-> "entry", buy |-> e.buy, qty |-> e.qty, at |-> e.at,
                    stop |-> e.stop, take |-> e.take, status |-> "open", price |-> 0]
        crossed == IF e.buy THEN mark <= e.at ELSE mark >= e.at
        fills   == mark # 0 /\ (e.at = 0 \/ crossed)
        price   == IF e.at = 0 THEN Slipped(e.buy, mark) ELSE e.at
        filled  == [oms EXCEPT ![id] = FilledAt(entry, price)]
    IN
    /\ Starts(pid, 3)
    /\ \/ /\ fills
          /\ position' = Booked(position, e.buy, e.qty, price)
          /\ oms' = WithProtectives(filled, e)
       \/ /\ ~fills /\ e.at # 0
          /\ oms' = [oms EXCEPT ![id] = entry]
          /\ UNCHANGED position
       \/ ~fills /\ e.at = 0 /\ UNCHANGED <<oms, position>>

\* Faulty: the stops go when the exit is queued.
FlattenStopsFirst(pid, mark) ==
    LET buy  == position.qty < 0
        exit == NewOrder("exit", buy, Size(position), 0)
        id   == FreeId(UsedIds)
    IN
    /\ position.qty # 0
    /\ Starts(pid, 1)
    /\ IF mark = 0 THEN oms' = [AllCanceled(oms) EXCEPT ![id] = exit] /\ UNCHANGED position
       ELSE /\ position' = Booked(position, buy, Size(position), Slipped(buy, mark))
            /\ oms' = AllCanceled([oms EXCEPT ![id] = FilledAt(exit, Slipped(buy, mark))])

\* flattenLocked: without a fresh mark the exit is queued and the stops stay.
Flatten(pid, mark) ==
    LET buy  == position.qty < 0
        exit == NewOrder("exit", buy, Size(position), 0)
        id   == FreeId(UsedIds)
    IN
    /\ position.qty # 0
    /\ Starts(pid, 1)
    /\ IF mark = 0 THEN oms' = [oms EXCEPT ![id] = exit] /\ UNCHANGED position
       ELSE /\ position' = Booked(position, buy, Size(position), Slipped(buy, mark))
            /\ oms' = AllCanceled([oms EXCEPT ![id] = FilledAt(exit, Slipped(buy, mark))])

CancelOpenEntries ==
    /\ bridge = Resting /\ OpenOf("entry") # {}
    /\ oms' = [i \in Ids |-> IF i \in OpenOf("entry") THEN [oms[i] EXCEPT !.status = "canceled"] ELSE oms[i]]
    /\ \E date \in 1..day : Stamped(date) /\ bridge' = Persisting(0, date)
    /\ UNCHANGED <<position, known, author, kept, paperTables, paperFaults, reloads, given>>

-----------------------------------------------------------------------------
(* ProcessTick: queued exits, then stops, then take-profits, then limits.  *)

Rank(kind) == CASE kind = "exit" -> 1 [] kind = "stop" -> 2 [] kind = "profit" -> 3 [] OTHER -> 4

Below(o, mark)   == mark <= o.at
Above(o, mark)   == mark >= o.at

\* Faulty: a queued exit waits for its price like a limit.
TriggeredByPrice(o, mark) ==
    IF o.kind = "stop" THEN (IF o.buy THEN Above(o, mark) ELSE Below(o, mark))
    ELSE IF o.buy THEN Below(o, mark) ELSE Above(o, mark)

\* stopTriggered, limitCrossed; an exit waits for any mark.
Triggered(o, mark) ==
    CASE o.kind = "exit" -> TRUE
      [] o.kind = "stop" -> IF o.buy THEN Above(o, mark) ELSE Below(o, mark)
      [] OTHER           -> IF o.buy THEN Below(o, mark) ELSE Above(o, mark)

AfterTick(todo, mark, date) ==
    IF todo = {} THEN Persisting(0, date)
    ELSE [pc |-> "tick", mark |-> mark, todo |-> todo, date |-> date]

\* What a sweep places itself rests until the next one.
StartSweep(mark) ==
    LET todo == {i \in Ids : IsOpen(i) /\ Triggered(oms[i], mark)} IN
    /\ bridge = Resting
    /\ \E date \in 1..day : Stamped(date) /\ bridge' = AfterTick(todo, mark, date)
    /\ UNCHANGED <<bridgeMemory, paperTables, paperFaults, reloads, given>>

FillPrice(o, mark) == IF o.kind \in {"exit", "stop"} THEN Slipped(o.buy, mark) ELSE o.at

\* Faulty: a protective fills for all it was placed for.
ReducingAsPlaced(o) == o.qty

\* min(order, position); a queued exit takes the whole position.
Reducing(o) == IF o.kind = "exit" THEN Size(position) ELSE Least(o.qty, Size(position))

\* fillProtectiveLocked; the siblings go once the position is flat.
FillProtective(i, mark) ==
    LET o     == oms[i]
        qty   == Reducing(o)
        price == FillPrice(o, mark)
        after == Booked(position, o.buy, qty, price)
        done1 == [oms EXCEPT ![i] = FilledAt([o EXCEPT !.qty = qty], price)]
    IN IF Closes(position, o.buy)
       THEN position' = after /\ oms' = (IF after.qty = 0 THEN AllCanceled(done1) ELSE done1)
       ELSE oms' = [oms EXCEPT ![i].status = "canceled"] /\ UNCHANGED position

FillResting(i) ==
    LET o == oms[i] IN
    /\ position' = Booked(position, o.buy, o.qty, o.at)
    /\ oms' = WithProtectives([oms EXCEPT ![i] = FilledAt(o, o.at)], o)

\* Canceled meanwhile by a sibling's fill: passed over.
SweepOrder(i) ==
    /\ bridge.pc = "tick" /\ i \in bridge.todo
    /\ \A j \in bridge.todo : Rank(oms[i].kind) <= Rank(oms[j].kind)
    /\ bridge' = AfterTick(bridge.todo \ {i}, bridge.mark, bridge.date)
    /\ IF ~IsOpen(i) THEN UNCHANGED <<oms, position>>
       ELSE IF oms[i].kind = "entry" THEN FillResting(i) ELSE FillProtective(i, bridge.mark)
    /\ UNCHANGED <<known, author, kept, paperTables, dates, paperFaults, reloads, given>>

-----------------------------------------------------------------------------
(* persistLocked: one transaction over everything that changed.            *)

StatusOf(i) == IF oms[i] = NoOrder THEN NoOrder ELSE oms[i].status
Created     == {i \in Ids : oms[i] # NoOrder /\ known[i] = NoOrder}
Changed     == {i \in Ids : oms[i] # NoOrder /\ known[i] # NoOrder /\ known[i] # oms[i].status}
NewlyFilled == {i \in Created \cup Changed : oms[i].status = "filled"}

\* entryFills: for one position, the proposal of one of the entries filled in this
\* diff; a submission overrides it; 0: the created order has none.
Originators == {author[i] : i \in {j \in Changed \cap NewlyFilled : oms[j].kind = "entry"}}
PidsFor(pid) == IF pid # 0 THEN {pid} ELSE IF Originators = {} THEN {0} ELSE Originators

\* The daily figure restarts with the date.
DailySoFar == IF stateRow.date = bridge.date THEN stateRow.daily ELSE 0

\* writeStrategyState, for a strategy that realized or filled something.
StateAfter ==
    LET delta == position.realized - kept.realized
        total == stateRow.equity + delta
    IN IF delta = 0 /\ NewlyFilled = {} THEN stateRow
       ELSE [equity |-> total,
             peak   |-> IF total > stateRow.peak THEN total ELSE stateRow.peak,
             daily  |-> DailySoFar + delta,
             date   |-> bridge.date]

\* insertFill, in the order of the random ids: the changed orders, then the new ones.
FillRows(ids) == [n \in DOMAIN ids |-> [order |-> ids[n], qty |-> oms[ids[n]].qty,
                                        price |-> oms[ids[n]].price, ts |-> bridge.date]]

\* A new order with no originating proposal fails the whole transaction.
Persist ==
    /\ bridge.pc = "persist"
    /\ \E pid \in PidsFor(bridge.pid) :
          /\ pid # 0 \/ Created = {}
          /\ orderRows' = [i \in Ids |-> IF i \in Created THEN [o |-> oms[i], pid |-> pid]
                                         ELSE IF i \in Changed THEN [orderRows[i] EXCEPT !.o = oms[i]]
                                         ELSE orderRows[i]]
          /\ author' = [i \in Ids |-> IF i \in Created THEN pid ELSE author[i]]
    /\ \E changed \in SetToSeqs(Changed \cap NewlyFilled), created \in SetToSeqs(Created \cap NewlyFilled) :
          fillTable' = fillTable \o FillRows(changed \o created)
    /\ joined' = (joined \/ Cardinality(NewlyFilled) > 1)
    /\ posRow' = position /\ stateRow' = StateAfter
    /\ known' = [i \in Ids |-> StatusOf(i)] /\ kept' = position
    /\ overtaken' = (overtaken \/ bridge.date < stateRow.date)
    /\ bridge' = Resting
    /\ dayPnl' = IF bridge.date = day THEN dayPnl + position.realized - kept.realized ELSE dayPnl
    /\ UNCHANGED <<oms, position, day, late, paperFaults, reloads, given>>

\* Faulty: the mirror of the books moves although nothing was written.
TransactionFailsStaged ==
    /\ bridge.pc = "persist" /\ paperFaults < MaxPaperFault
    /\ paperFaults' = paperFaults + 1
    /\ kept' = position
    /\ bridge' = Resting
    /\ UNCHANGED <<oms, position, known, author, paperTables, dates, reloads, given>>

\* A statement fails: the rows and the mirrors stay, the memory has moved on.
TransactionFails ==
    /\ bridge.pc = "persist" /\ paperFaults < MaxPaperFault
    /\ paperFaults' = paperFaults + 1
    /\ bridge' = Resting
    /\ UNCHANGED <<bridgeMemory, paperTables, dates, reloads, given>>

\* The transaction is refused for want of an originating proposal.
PersistRefused ==
    /\ bridge.pc = "persist"
    /\ PidsFor(bridge.pid) = {0} /\ Created # {}
    /\ bridge' = Resting
    /\ UNCHANGED <<bridgeMemory, paperTables, dates, paperFaults, reloads, given>>

\* hydrate: open orders, the position and their mirrors come from the tables.
Reload ==
    LET opened == {i \in Ids : orderRows[i] # NoOrder /\ orderRows[i].o.status = "open"} IN
    /\ reloads < MaxReload
    /\ reloads' = reloads + 1
    /\ oms' = [i \in Ids |-> IF i \in opened THEN orderRows[i].o ELSE NoOrder]
    /\ known' = [i \in Ids |-> IF i \in opened THEN "open" ELSE NoOrder]
    /\ author' = [i \in Ids |-> IF i \in opened THEN orderRows[i].pid ELSE 0]
    /\ position' = posRow /\ kept' = posRow
    /\ bridge' = Resting
    /\ UNCHANGED <<paperTables, dates, paperFaults, given>>

\* An operation may have read its clock just before.
Midnight ==
    /\ day < MaxDay
    /\ day' = day + 1 /\ dayPnl' = 0
    /\ late' \in {0, day}
    /\ UNCHANGED <<bridge, bridgeMemory, paperTables, overtaken, paperFaults, reloads, given>>

-----------------------------------------------------------------------------
(* What the gate reads.                                                    *)

JoinedRow(r) ==
    LET o == orderRows[r.order].o
    IN [buy |-> o.buy, reduce |-> o.kind # "entry", qty |-> r.qty, price |-> r.price, fee |-> Fee, ts |-> r.ts]

RowsBefore(n, rows) ==
    {m \in rows : \/ fillTable[m].ts < fillTable[n].ts
                  \/ fillTable[m].ts = fillTable[n].ts /\ m < n}

\* ListPaperGateFills: fills joined with their orders, by time and then by row.
PaperGateFills(since) ==
    LET rows == {n \in DOMAIN fillTable : fillTable[n].ts >= since}
    IN [k \in 1..Cardinality(rows) |->
           JoinedRow(fillTable[CHOOSE n \in rows : Cardinality(RowsBefore(n, rows)) = k - 1])]

\* paperGateReport, for a window that starts on a date.
GateInput(since) ==
    [windowOK |-> TRUE, start |-> since, now |-> day, minDays |-> Gate.minDays,
     minTrades |-> Gate.minTrades, limits |-> Gate.limits, seed |-> Allocated,
     fills |-> PaperGateFills(since)]

-----------------------------------------------------------------------------

BridgeStep == (\E i \in Ids : SweepOrder(i)) \/ Persist \/ PersistRefused

PaperNext ==
    \/ \E e \in Entries, pid \in Submissions, mark \in Marks \cup {0} : SubmitEntry(e, pid, mark)
    \/ \E pid \in Submissions, mark \in Marks \cup {0} : Flatten(pid, mark)
    \/ CancelOpenEntries
    \/ \E mark \in Marks : StartSweep(mark)
    \/ BridgeStep
    \/ TransactionFails
    \/ Reload
    \/ Midnight

PaperSpec == PaperInit /\ [][PaperNext]_paperVars

-----------------------------------------------------------------------------
(* Types and properties.                                                   *)

OrderOK(o) ==
    /\ o \in PaperOrders
    /\ o.price >= 0 /\ (o.status = "filled") = (o.price > 0)

PaperTypeOK ==
    /\ bridge.pc \in {"idle", "tick", "persist"}
    /\ \A i \in Ids :
          /\ oms[i] # NoOrder => OrderOK(oms[i])
          /\ orderRows[i] # NoOrder => OrderOK(orderRows[i].o) /\ orderRows[i].pid \in Submissions
          /\ known[i] # NoOrder => oms[i] # NoOrder
          /\ author[i] \in Submissions \cup {0}
    /\ position.qty \in Int /\ position.cost \in Nat
    /\ (position.qty = 0) = (position.cost = 0)
    /\ \A n \in DOMAIN fillTable : fillTable[n].order \in Ids /\ fillTable[n].price > 0
    /\ day \in 1..MaxDay /\ stateRow.date \in 0..day /\ late \in 0..day

\* The units that the open stops of the closing side would sell or buy back.
OpenStop(o) == o # NoOrder /\ o.kind = "stop" /\ o.status = "open"
StopUnits(b, os) ==
    SumFunctionOnSet([i \in Ids |-> IF OpenStop(os[i]) /\ Closes(b, os[i].buy) THEN os[i].qty ELSE 0], Ids)

RowOrders == [i \in Ids |-> IF orderRows[i] = NoOrder THEN NoOrder ELSE orderRows[i].o]

\* In memory and in the tables, after any sequence of entries on both sides,
\* partial exits, queued exits, flips, sweeps and restarts, the open stops cover
\* the whole position ("a fill can never create a naked position").
StopsCoverPosition ==
    /\ StopUnits(position, oms) >= Size(position)
    /\ StopUnits(posRow, RowOrders) >= Size(posRow)

\* The mirrors that the next diff starts from are what the tables hold,
\* also after a failed transaction ("a rollback leaves memory and DB aligned").
MirrorIsDatabase ==
    /\ kept = posRow
    /\ \A i \in Ids : known[i] # NoOrder => /\ orderRows[i] # NoOrder
                                            /\ orderRows[i].o.status = known[i]

\* An order has its fills row exactly when its row says filled.
OneFillRow ==
    \A i \in Ids :
        Cardinality({n \in DOMAIN fillTable : fillTable[n].order = i})
            = IF RowOrders[i] # NoOrder /\ RowOrders[i].status = "filled" THEN 1 ELSE 0

\* The equity snapshot is the capital plus all the position has realized, whatever
\* was retried or lost with a restart, and its peak is a maximum.
EquityIsRealized ==
    /\ stateRow.equity = Allocated + posRow.realized
    /\ stateRow.peak >= stateRow.equity

\* "daily_loss = realized PnL of trades closed in the current UTC day"
\* (risk-limits.md:138): a snapshot dated today holds what the operations
\* of this date realized, provided that no operation was overtaken by one of a later day.
DailyIsToday == ~overtaken /\ stateRow.date = day => stateRow.daily = dayPnl

\* Realized PnL is cash in minus cash out, fees included, less what the open
\* quantity cost: averaging, partial exits and flips lose nothing.
RealizedIsCash ==
    position.realized = position.cash + (IF position.qty < 0 THEN -position.cost ELSE position.cost)

\* Memory, mirrors, tables and cash tell one story after failed transactions, restarts
\* and midnights (persistLocked, writeStrategyState, applyFill).
BooksAgree ==
    MirrorIsDatabase /\ OneFillRow /\ EquityIsRealized /\ DailyIsToday /\ RealizedIsCash

\* "The SAME math as paper.applyFill" (replay.go): walked over the fills table, the
\* gate finds the position, the equity and the peak of the books, whatever was opened,
\* averaged, flipped and closed, retried or restarted, provided that the rows are in
\* the order of the fills: no transaction stored two and none was overtaken.
GateReplaysBooks ==
    LET w == Walk(PaperGateFills(1), Allocated) IN
    ~joined /\ ~overtaken =>
        /\ w.qty = posRow.qty /\ w.cost = posRow.cost
        /\ w.equity = stateRow.equity /\ w.peak = stateRow.peak

\* Whatever the order of the rows and the window, realized deltas and fees are those
\* of the closed trades and the open span, and a strategy that passes has not lost by
\* its closed trades (walk, condProfitFactor).
SpansAddUp ==
    \A since \in 1..MaxDay :
        LET in == GateInput(since)
            w  == Walk(in.fills, in.seed)
        IN /\ w.equity = in.seed + SumOf(Pnls(w.trades)) + w.pnl
           /\ GatePasses(in) => SumOf(Pnls(w.trades)) >= 0 /\ w.equity - w.pnl >= in.seed

\* The gate judges the account that was traded (papergate, replay.go).
GateHonest == GateReplaysBooks /\ SpansAddUp

\* A sweep never opens, adds to or flips a position by a reduce-only order.
ReduceOnlyNeverFlips ==
    [][\A i \in Ids : SweepOrder(i) /\ oms[i].kind # "entry" =>
           IF position.qty >= 0 THEN position'.qty \in 0..position.qty ELSE position'.qty \in position.qty..0]_paperVars

\* An account that no order of steps puts out of step with itself, leaves without a
\* stop or turns over by a reduce-only fill (SubmitApproved, Sweep, Restore).
PaperBooks == [](BooksAgree /\ StopsCoverPosition) /\ ReduceOnlyNeverFlips

\* A queued exit is served by a later tick with a mark, or was pointless.
QueuedExitServed ==
    \A i \in Ids : i \in OpenOf("exit") ~> i \notin OpenOf("exit")

=============================================================================
