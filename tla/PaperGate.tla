----------------------------- MODULE PaperGate -----------------------------
(***************************************************************************)
(* The gate between paper and live (internal/papergate): a pure replay of  *)
(* the fills of the paper window into closed trades and an equity curve,   *)
(* and the five conditions over them.  The book follows one symbol; the    *)
(* strings of the report are left out.                                     *)
(*                                                                         *)
(* A fill is [buy, reduce, qty, price, fee, ts]; reduce is the flag of its *)
(* order.  cost stands for |qty| times the average entry price.            *)
(***************************************************************************)
EXTENDS Integers, Sequences, SequencesExt, Functions

Bigger(x, y)  == IF x > y THEN x ELSE y
Smaller(x, y) == IF x < y THEN x ELSE y
Magnitude(n)  == IF n < 0 THEN -n ELSE n

\* The walk before the first fill.  pnl and notional are those of the open span;
\* curve samples equity and peak after each fill.
WalkFrom(seed) ==
    [qty |-> 0, cost |-> 0, pnl |-> 0, notional |-> 0, trades |-> <<>>,
     equity |-> seed, peak |-> seed, curve |-> <<>>]

Opposes(w, f) == IF f.buy THEN w.qty < 0 ELSE w.qty > 0

\* A reduce-only fill counts up to what it closes.
Clamped(w, f) ==
    IF ~f.reduce THEN f.qty ELSE IF Opposes(w, f) THEN Smaller(f.qty, Magnitude(w.qty)) ELSE 0

\* Faulty: what a flip leaves over opens at the old average price.
CostAfterFlipKept(w, f, qty) ==
    LET held == Magnitude(w.qty) IN
    IF ~Opposes(w, f) THEN w.cost + f.price * qty
    ELSE IF qty > held THEN (w.cost * (qty - held)) \div held
    ELSE w.cost - (w.cost * qty) \div held

\* Averaged while it opens or increases; a flip reopens at the fill's price.
CostAfterFill(w, f, qty) ==
    LET held == Magnitude(w.qty) IN
    IF ~Opposes(w, f) THEN w.cost + f.price * qty
    ELSE IF qty > held THEN f.price * (qty - held)
    ELSE w.cost - (w.cost * qty) \div held

\* Realized on the closed quantity only.
RealizedBy(w, f, closed) ==
    IF closed = 0 THEN 0
    ELSE (IF f.buy THEN -1 ELSE 1) * (f.price * closed - (w.cost * closed) \div Magnitude(w.qty))

\* One fill of walk.  The span closes where the book crosses zero, with the whole fee.
WalkStep(w, f) ==
    LET qty    == Clamped(w, f)
        closed == IF Opposes(w, f) THEN Smaller(qty, Magnitude(w.qty)) ELSE 0
        gross  == RealizedBy(w, f, closed)
        span   == [pnl |-> w.pnl + gross - f.fee, notional |-> w.notional + closed * f.price]
        ends   == closed > 0 /\ closed = Magnitude(w.qty)
        equity == w.equity + gross - f.fee
        peak   == Bigger(w.peak, equity)
    IN [qty      |-> w.qty + (IF f.buy THEN qty ELSE -qty),
        cost     |-> CostAfterFill(w, f, qty),
        pnl      |-> IF ends THEN 0 ELSE span.pnl,
        notional |-> IF ends THEN 0 ELSE span.notional,
        trades   |-> IF ends THEN Append(w.trades, span) ELSE w.trades,
        equity   |-> equity,
        peak     |-> peak,
        curve    |-> Append(w.curve, [equity |-> equity, peak |-> peak])]

Walk(fillsOf, seed) == FoldLeft(WalkStep, WalkFrom(seed), fillsOf)

SumOf(numbers) == SumFunction(numbers)
Pnls(trades)   == [i \in DOMAIN trades |-> trades[i].pnl]
GrossProfit(trades) == SumOf([i \in DOMAIN trades |-> Bigger(trades[i].pnl, 0)])
GrossLoss(trades)   == -SumOf([i \in DOMAIN trades |-> Smaller(trades[i].pnl, 0)])

-----------------------------------------------------------------------------
(* The five conditions.  limits is [ok, cap, drawdown]: not ok without a   *)
(* provider of limits.                                                     *)

LongEnough(start, now, minDays) == now - start >= minDays

EnoughTrades(trades, minTrades) == Len(trades) >= minTrades

\* The average closing notional reaches a quarter of the cap.
LargeEnough(trades, limits) ==
    /\ limits.ok /\ limits.cap > 0 /\ trades # <<>>
    /\ 4 * SumOf([i \in DOMAIN trades |-> trades[i].notional]) >= limits.cap * Len(trades)

\* No sample of the curve is further below its peak than the limit, in percent.
DrawdownWithin(w, limits, seed) ==
    /\ limits.ok /\ limits.drawdown > 0 /\ w.trades # <<>> /\ seed > 0
    /\ \A i \in DOMAIN w.curve :
          100 * (w.curve[i].peak - w.curve[i].equity) <= limits.drawdown * w.curve[i].peak

\* Without losses any profit will do; without either it fails.
Profitable(trades) == GrossProfit(trades) > 0 /\ GrossProfit(trades) >= GrossLoss(trades)

\* Evaluate; a window that does not qualify fails every condition.
GatePasses(in) ==
    LET w == Walk(in.fills, in.seed) IN
    /\ in.windowOK
    /\ LongEnough(in.start, in.now, in.minDays)
    /\ EnoughTrades(w.trades, in.minTrades)
    /\ LargeEnough(w.trades, in.limits)
    /\ DrawdownWithin(w, in.limits, in.seed)
    /\ Profitable(w.trades)

\* What the arena shows of the same walk.
ReplayCurve(fillsOf, seed) ==
    LET w == Walk(fillsOf, seed) IN
    [curve    |-> w.curve,
     realized |-> w.equity - seed,
     paid     |-> SumOf([i \in DOMAIN fillsOf |-> fillsOf[i].fee]),
     wins     |-> Len(SelectSeq(Pnls(w.trades), LAMBDA n : n > 0)),
     losses   |-> Len(SelectSeq(Pnls(w.trades), LAMBDA n : n < 0))]

=============================================================================
