---------------------------- MODULE Billing_proofs ----------------------------
(***************************************************************************)
(* Proofs about Billing, for any tenants, strategies, traces, exports and  *)
(* numbers of closes and runs: every row is billed once, whatever the      *)
(* order of the closes; a reconciliation run looks at the window that was  *)
(* billed and never takes back a match; and what is billed, what the       *)
(* ledger holds and what the traces report are the same money.             *)
(*                                                                         *)
(* The watermark of a close is the number of rows at that moment, so the   *)
(* watermarks never fall from one close to the next, whoever it is for     *)
(* (MarksRise).  The previous watermark is a maximum over closes; that it  *)
(* exists is carried along (HighestExists), since a close only adds one    *)
(* candidate that is above all others.                                     *)
(*                                                                         *)
(* The second half is about sums: a trace adds the same tokens to the      *)
(* ledger, to what is reported and, row by row, to the rows (LedgerSums);  *)
(* the lines of a bill are a partition of its window, the bills of a payer *)
(* a partition of its billed rows, and the classes of a reconciliation run *)
(* a partition of the rows it looks at.                                    *)
(***************************************************************************)
EXTENDS Billing, Sums, SequenceTheorems, TLAPS

\* A sequence, of whatever it holds.
IsSequence(s) == s \in Seq({s[i] : i \in DOMAIN s})

RowsTyped ==
    /\ costRows \in Seq(CostRow)
    /\ metered \in [Calls -> Exports \cup {Unknown}]

PeriodsTyped ==
    /\ IsSequence(periods) /\ IsSequence(audits) /\ Len(audits) = Len(periods)
    /\ \A i \in 1..Len(periods) :
          periods[i].payer \in Payers /\ periods[i].mark \in 0..Len(costRows)

MarksRise == \A i, j \in 1..Len(periods) : i <= j => periods[i].mark <= periods[j].mark

\* The candidates of PrevWatermark.
Marks(t, n) == {0} \cup {periods[j].mark : j \in {i \in DOMAIN periods : i <= n /\ periods[i].payer = t}}

HighestExists ==
    \A t \in Payers : \A n \in 0..Len(periods) :
        \E m \in Marks(t, n) : \A x \in Marks(t, n) : x <= m

\* A row up to a close's watermark is in the window of that close or an earlier one.
BilledByThen ==
    \A i \in 1..Len(periods) : \A n \in 1..periods[i].mark :
        PayerOf[costRows[n].client] = periods[i].payer
            => \E j \in 1..i : periods[j].payer = periods[i].payer /\ n \in DOMAIN ClientSet(j)

LinesOfWindow ==
    \A i \in 1..Len(periods) :
        /\ periods[i].lines = BuildInvoice(ClientSet(i))
        /\ periods[i].total = Total(periods[i].lines)

\* What a run matched is still matched.
MatchedStill ==
    \A i \in 1..Len(audits) : audits[i] # Unknown => audits[i].matched \subseteq Matched(ClientSet(i))

BillingInv ==
    /\ RowsTyped /\ PeriodsTyped
    /\ MarksRise /\ HighestExists
    /\ BilledByThen /\ LinesOfWindow /\ MatchedStill

-----------------------------------------------------------------------------
(* Sequences and watermarks.                                               *)

LEMMA SequenceFacts ==
    ASSUME NEW s, IsSequence(s)
    PROVE  Len(s) \in Nat /\ DOMAIN s = 1..Len(s)
BY LenProperties DEF IsSequence

LEMMA FunctionIsSequence ==
    ASSUME NEW n \in Nat, NEW s, DOMAIN s = 1..n, s = [i \in 1..n |-> s[i]]
    PROVE  IsSequence(s)
<1>1. s \in [1..n -> {s[i] : i \in DOMAIN s}]
  OBVIOUS
<1>2. QED
  BY <1>1, SeqDef DEF IsSequence

LEMMA AppendedSequence ==
    ASSUME NEW s, IsSequence(s), NEW e
    PROVE  /\ IsSequence(Append(s, e)) /\ Len(Append(s, e)) = Len(s) + 1
           /\ \A i \in 1..Len(s) : Append(s, e)[i] = s[i]
           /\ Append(s, e)[Len(s) + 1] = e
<1> DEFINE T == {s[i] : i \in DOMAIN s} \cup {e}
           a == Append(s, e)
<1>1. s \in Seq(T) /\ e \in T
  BY SeqMonotonic DEF IsSequence
<1>2. /\ a \in Seq(T) /\ Len(a) = Len(s) + 1
      /\ \A i \in 1..Len(s) : a[i] = s[i]
      /\ a[Len(s) + 1] = e
  BY <1>1, AppendProperties
<1>3. Len(a) \in Nat /\ DOMAIN a = 1..Len(a) /\ a \in [1..Len(a) -> T]
  BY <1>2, LenProperties
<1>4. a = [i \in 1..Len(a) |-> a[i]]
  BY <1>3
<1> HIDE DEF a
<1>5. QED
  BY <1>2, <1>3, <1>4, FunctionIsSequence DEF a

LEMMA ExceptSequence ==
    ASSUME NEW s, IsSequence(s), NEW k \in 1..Len(s), NEW e
    PROVE  LET x == [s EXCEPT ![k] = e]
           IN /\ IsSequence(x) /\ Len(x) = Len(s)
              /\ \A i \in 1..Len(s) : x[i] = IF i = k THEN e ELSE s[i]
<1> DEFINE T == {s[i] : i \in DOMAIN s} \cup {e}
           x == [s EXCEPT ![k] = e]
<1>1. s \in Seq(T) /\ e \in T
  BY SeqMonotonic DEF IsSequence
<1>2. /\ x \in Seq(T) /\ Len(x) = Len(s)
      /\ \A i \in 1..Len(s) : x[i] = IF i = k THEN e ELSE s[i]
  BY <1>1, ExceptSeq
<1>3. Len(x) \in Nat /\ DOMAIN x = 1..Len(x) /\ x \in [1..Len(x) -> T]
  BY <1>2, LenProperties
<1>4. x = [i \in 1..Len(x) |-> x[i]]
  BY <1>3
<1> HIDE DEF x
<1>5. IsSequence(x)
  BY <1>3, <1>4, FunctionIsSequence
<1>6. QED
  BY <1>2, <1>5 DEF x

\* The previous watermark is the watermark of an earlier close of the tenant, or 0,
\* and no earlier close of the tenant has a higher one.
LEMMA PrevWatermarkIsHighest ==
    ASSUME PeriodsTyped, HighestExists, NEW t \in Payers, NEW n \in 0..Len(periods)
    PROVE  /\ PrevWatermark(t, n) \in Marks(t, n)
           /\ \A x \in Marks(t, n) : x <= PrevWatermark(t, n)
<1>1. \E m \in Marks(t, n) : \A x \in Marks(t, n) : x <= m
  BY DEF HighestExists
<1>2. PrevWatermark(t, n) = HighestOf(Marks(t, n))
  BY DEF PrevWatermark, Marks
<1>3. QED
  BY <1>1, <1>2 DEF HighestOf


\* What every step does to the tables of rows and closes: it adds at their end.
RowsGrow ==
    /\ costRows' \in Seq(CostRow) /\ Len(costRows) <= Len(costRows')
    /\ \A n \in 1..Len(costRows) : costRows'[n] = costRows[n]

PeriodsGrow ==
    /\ IsSequence(periods)' /\ Len(periods) <= Len(periods')
    /\ \A i \in 1..Len(periods) : periods'[i] = periods[i]

LEMMA MarksStay ==
    ASSUME PeriodsTyped, PeriodsGrow, NEW t, NEW n \in 0..Len(periods)
    PROVE  Marks(t, n)' = Marks(t, n) /\ PrevWatermark(t, n)' = PrevWatermark(t, n)
<1>1. /\ DOMAIN periods = 1..Len(periods) /\ DOMAIN periods' = 1..Len(periods')
      /\ Len(periods) \in Nat /\ Len(periods') \in Nat
  BY SequenceFacts DEF PeriodsTyped, PeriodsGrow
<1>2. {i \in DOMAIN periods' : i <= n /\ periods'[i].payer = t}
          = {i \in DOMAIN periods : i <= n /\ periods[i].payer = t}
  BY <1>1 DEF PeriodsGrow
<1>3. Marks(t, n)' = Marks(t, n)
  BY <1>1, <1>2 DEF PeriodsGrow, Marks
<1>4. /\ PrevWatermark(t, n) = HighestOf(Marks(t, n))
      /\ PrevWatermark(t, n)' = HighestOf(Marks(t, n)')
  BY DEF PrevWatermark, Marks
<1>5. QED
  BY <1>3, <1>4

\* The window of a close is a function of rows that stay as they are.
LEMMA ClientSetStays ==
    ASSUME RowsTyped, PeriodsTyped, HighestExists, RowsGrow, PeriodsGrow,
           NEW i \in 1..Len(periods)
    PROVE  ClientSet(i)' = ClientSet(i)
<1> DEFINE t == periods[i].payer
           low == PrevWatermark(t, i - 1)
           high == periods[i].mark
<1>1. Len(periods) \in Nat /\ Len(costRows) \in Nat /\ DOMAIN costRows = 1..Len(costRows)
  BY SequenceFacts, LenProperties DEF RowsTyped, PeriodsTyped
<1>2. Len(costRows') \in Nat /\ DOMAIN costRows' = 1..Len(costRows')
  BY LenProperties DEF RowsGrow
<1>3. periods'[i] = periods[i] /\ high \in 0..Len(costRows)
  BY DEF PeriodsGrow, PeriodsTyped
<1>4. PrevWatermark(t, i - 1)' = low
  <2>1. i - 1 \in 0..Len(periods)
    BY <1>1
  <2>2. \A x : PrevWatermark(x, i - 1)' = PrevWatermark(x, i - 1)
    BY <2>1, MarksStay
  <2>3. PrevWatermark(t, i - 1)' = PrevWatermark(periods'[i].payer, i - 1)
    BY <2>2
  <2>4. QED
    BY <2>3, <1>3
<1>5. {m \in DOMAIN costRows' : low < m /\ m <= high /\ PayerOf[costRows'[m].client] = t}
          = {m \in DOMAIN costRows : low < m /\ m <= high /\ PayerOf[costRows[m].client] = t}
  BY <1>1, <1>2, <1>3 DEF RowsGrow
<1>6. ClientSet(i) =
          [n \in {m \in DOMAIN costRows : low < m /\ m <= high /\ PayerOf[costRows[m].client] = t} |-> costRows[n]]
  BY DEF ClientSet, WindowRows
<1>7. ClientSet(i)' =
          [n \in {m \in DOMAIN costRows' : low < m /\ m <= high /\ PayerOf[costRows'[m].client] = t} |-> costRows'[n]]
  BY <1>3, <1>4 DEF ClientSet, WindowRows
<1>8. \A n \in {m \in DOMAIN costRows : low < m /\ m <= high /\ PayerOf[costRows[m].client] = t} :
          costRows'[n] = costRows[n]
  BY <1>1 DEF RowsGrow
<1>9. QED
  BY <1>5, <1>6, <1>7, <1>8


\* If rows and closes only grow and no close is added, the windows' facts stay.
LEMMA GrowthKeeps ==
    ASSUME BillingInv, RowsGrow, UNCHANGED periods
    PROVE  MarksRise' /\ HighestExists' /\ BilledByThen' /\ LinesOfWindow'
<1>1. PeriodsGrow /\ IsSequence(periods) /\ Len(periods) \in Nat /\ Len(costRows) \in Nat
  BY SequenceFacts, LenProperties DEF BillingInv, PeriodsTyped, PeriodsGrow, RowsTyped
<1>2. \A i \in 1..Len(periods) : ClientSet(i)' = ClientSet(i)
  BY <1>1, ClientSetStays DEF BillingInv
<1>3. MarksRise' /\ HighestExists'
  BY DEF BillingInv, MarksRise, HighestExists, Marks
<1>4. BilledByThen'
  <2>1. SUFFICES ASSUME NEW i \in 1..Len(periods), NEW n \in 1..periods[i].mark,
                        PayerOf[costRows'[n].client] = periods[i].payer
                 PROVE  \E j \in 1..i : periods[j].payer = periods[i].payer /\ n \in DOMAIN ClientSet(j)'
    BY DEF BilledByThen
  <2>2. n \in 1..Len(costRows) /\ costRows'[n] = costRows[n]
    BY <1>1 DEF BillingInv, PeriodsTyped, RowsGrow
  <2>3. PICK j \in 1..i : periods[j].payer = periods[i].payer /\ n \in DOMAIN ClientSet(j)
    BY <2>1, <2>2 DEF BillingInv, BilledByThen
  <2>4. j \in 1..Len(periods)
    BY <1>1
  <2>5. QED
    BY <1>2, <2>3, <2>4
<1>5. LinesOfWindow'
  <2>1. \A i \in 1..Len(periods) : BuildInvoice(ClientSet(i))' = BuildInvoice(ClientSet(i))
    BY <1>2
  <2>2. QED
    BY <2>1 DEF BillingInv, LinesOfWindow
<1>6. QED
  BY <1>3, <1>4, <1>5

\* And what is matched stays matched while records are only added.
LEMMA MatchesGrow ==
    ASSUME BillingInv, RowsGrow, PeriodsGrow, RowsTyped',
           \A c \in Calls : metered[c] # Unknown => metered'[c] = metered[c],
           NEW i \in 1..Len(periods)
    PROVE  Matched(ClientSet(i)) \subseteq Matched(ClientSet(i))'
<1>1. ClientSet(i)' = ClientSet(i)
  BY ClientSetStays DEF BillingInv
<1>2. \A n \in DOMAIN ClientSet(i) : ClientSet(i)[n] \in CostRow
  <2>1. \A n \in DOMAIN costRows : costRows[n] \in CostRow
    BY LenProperties DEF BillingInv, RowsTyped
  <2>2. QED
    BY <2>1 DEF ClientSet, WindowRows
<1>3. Measured(ClientSet(i))' = Measured(ClientSet(i))
  BY <1>1 DEF Measured, Estimated, Unattributed
<1>4. \A n \in Measured(ClientSet(i)) : ClientSet(i)[n].call \in Calls
  BY <1>2 DEF Measured, Unattributed, CostRow
<1>5. QED
  BY <1>1, <1>3, <1>4 DEF Matched

LEMMA BillingInvInit == BillingInit => BillingInv
<1>1. SUFFICES ASSUME BillingInit PROVE BillingInv
  OBVIOUS
<1>2. Len(periods) = 0 /\ Len(audits) = 0 /\ DOMAIN periods = {} /\ DOMAIN audits = {}
  BY <1>1, EmptySeq DEF BillingInit
<1>3. RowsTyped
  BY <1>1, EmptySeq DEF BillingInit, RowsTyped
<1>4. PeriodsTyped
  BY <1>1, <1>2, EmptySeq DEF BillingInit, PeriodsTyped, IsSequence
<1>5. HighestExists
  BY <1>2 DEF HighestExists, Marks
<1>6. MarksRise /\ BilledByThen /\ LinesOfWindow /\ MatchedStill
  BY <1>2 DEF MarksRise, BilledByThen, LinesOfWindow, MatchedStill
<1>7. QED
  BY <1>3, <1>4, <1>5, <1>6 DEF BillingInv


-----------------------------------------------------------------------------
(* One lemma per action.                                                   *)

MeteredGrows == \A c \in Calls : metered[c] # Unknown => metered'[c] = metered[c]

\* What closes no period keeps the invariant when rows and records only grow.
LEMMA QuietStep ==
    ASSUME BillingInv, RowsTyped', RowsGrow, MeteredGrows, UNCHANGED <<periods, audits>>
    PROVE  BillingInv'
<1>1. /\ Len(periods) \in Nat /\ Len(audits) = Len(periods)
      /\ Len(costRows) \in Nat /\ Len(costRows') \in Nat
  BY SequenceFacts, LenProperties DEF BillingInv, PeriodsTyped, RowsTyped, RowsGrow
<1>2. PeriodsGrow
  BY <1>1 DEF BillingInv, PeriodsTyped, PeriodsGrow
<1>3. PeriodsTyped'
  <2>1. IsSequence(periods)' /\ IsSequence(audits)' /\ Len(audits') = Len(periods')
    BY DEF BillingInv, PeriodsTyped
  <2>2. \A i \in 1..Len(periods) : periods[i].payer \in Payers /\ periods[i].mark \in 0..Len(costRows')
    BY <1>1 DEF BillingInv, PeriodsTyped, RowsGrow
  <2>3. QED
    BY <2>1, <2>2 DEF PeriodsTyped
<1>4. MatchedStill'
  <2>1. SUFFICES ASSUME NEW i \in 1..Len(audits), audits[i] # Unknown
                 PROVE  audits[i].matched \subseteq Matched(ClientSet(i))'
    BY DEF MatchedStill
  <2>2. Matched(ClientSet(i)) \subseteq Matched(ClientSet(i))'
    BY <1>1, <1>2, MatchesGrow DEF MeteredGrows
  <2>3. QED
    BY <2>1, <2>2 DEF BillingInv, MatchedStill
<1>5. QED
  BY <1>3, <1>4, GrowthKeeps DEF BillingInv

LEMMA InsertTraceRows ==
    ASSUME BillingInv, NEW r \in AgentRuns, NEW e \in EnvelopesOf[r], InsertTraceCosts(r, e)
    PROVE  RowsTyped' /\ RowsGrow
<1> DEFINE new == [k \in DOMAIN e.costs |-> InsertModelCost(r, e, k)]
<1>1. /\ e.month \in Months /\ e.costs \in Seq(Costs) /\ ClientOf[r] \in Clients
  BY BillingAssumption DEF IsEnvelope
<1>2. Len(e.costs) \in Nat /\ DOMAIN e.costs = 1..Len(e.costs)
      /\ \A k \in 1..Len(e.costs) : e.costs[k] \in Costs
  BY <1>1, LenProperties
<1>3. \A k \in 1..Len(e.costs) : InsertModelCost(r, e, k) \in CostRow
  <2>1. SUFFICES ASSUME NEW k \in 1..Len(e.costs) PROVE InsertModelCost(r, e, k) \in CostRow
    OBVIOUS
  <2>2. e.costs[k] \in [call : Calls \cup {NoCall}, estimated : BOOLEAN, tokens : Nat, cost : Nat]
    BY <1>2 DEF Costs
  <2>3. (IF IdTaken(e, k) THEN NoCall ELSE e.costs[k].call) \in Calls \cup {NoCall}
    BY <2>2
  <2>4. QED
    BY <1>1, <2>2, <2>3 DEF InsertModelCost, CostRow
<1>4. new \in Seq(CostRow)
  BY <1>2, <1>3, SeqDef
<1>5. costRows' = costRows \o new /\ costRows \in Seq(CostRow)
  BY DEF InsertTraceCosts, BillingInv, RowsTyped
<1> HIDE DEF new
<1>6. /\ costRows' \in Seq(CostRow) /\ Len(costRows') = Len(costRows) + Len(new)
      /\ \A n \in 1..Len(costRows) + Len(new) :
            costRows'[n] = IF n <= Len(costRows) THEN costRows[n] ELSE new[n - Len(costRows)]
  BY <1>4, <1>5, ConcatProperties
<1>7. Len(costRows) \in Nat /\ Len(new) \in Nat
  BY <1>4, <1>5, LenProperties
<1>8. RowsGrow
  BY <1>6, <1>7 DEF RowsGrow
<1>9. RowsTyped'
  BY <1>6 DEF RowsTyped, InsertTraceCosts, BillingInv
<1>10. QED
  BY <1>8, <1>9

LEMMA InsertMeteringRecordsRows ==
    ASSUME BillingInv, NEW batch \in Batches, InsertMeteringRecords(batch)
    PROVE  RowsTyped' /\ MeteredGrows
<1>1. batch \subseteq Exports
  BY DEF Batches
<1>2. \A c \in Calls : (\E x \in batch : x.call = c) =>
          /\ (CHOOSE x \in batch : x.call = c) \in batch
          /\ (CHOOSE x \in batch : x.call = c).call = c
  OBVIOUS
<1>3. RowsTyped'
  <2>1. metered' \in [Calls -> Exports \cup {Unknown}]
    BY <1>1, <1>2 DEF InsertMeteringRecords, BillingInv, RowsTyped
  <2>2. QED
    BY <2>1 DEF InsertMeteringRecords, BillingInv, RowsTyped
<1>4. ASSUME NEW c \in Calls, metered[c] # Unknown PROVE metered'[c] = metered[c]
  <2>1. CASE \E x \in batch : x.call = c
    <3>1. metered'[c] = (CHOOSE x \in batch : x.call = c)
      BY <2>1 DEF InsertMeteringRecords
    <3>2. \A x \in batch : metered[x.call] \in {x, Unknown}
      BY DEF InsertMeteringRecords
    <3>3. metered[c] = (CHOOSE x \in batch : x.call = c)
      BY <1>2, <1>4, <2>1, <3>2
    <3>4. QED
      BY <3>1, <3>3
  <2>2. CASE ~\E x \in batch : x.call = c
    BY <2>2 DEF InsertMeteringRecords
  <2>3. QED
    BY <2>1, <2>2
<1>5. QED
  BY <1>3, <1>4 DEF MeteredGrows

LEMMA RowsUnchanged ==
    ASSUME BillingInv, UNCHANGED costRows
    PROVE  RowsGrow
BY LenProperties DEF BillingInv, RowsTyped, RowsGrow

\* A run stores what is matched now; the other periods keep theirs.
LEMMA ReconcileStep ==
    ASSUME BillingInv, NEW i \in DOMAIN periods, Reconcile(i)
    PROVE  BillingInv' /\ audits'[i].matched = Matched(ClientSet(i))
                       /\ \A j \in DOMAIN audits : j # i => audits'[j] = audits[j]
<1>1. /\ DOMAIN periods = 1..Len(periods) /\ DOMAIN audits = 1..Len(audits)
      /\ Len(audits) = Len(periods) /\ Len(periods) \in Nat /\ IsSequence(audits)
  BY SequenceFacts DEF BillingInv, PeriodsTyped
<1> DEFINE run == ReconciliationRun(i, ClientSet(i))
<1>2. audits' = [audits EXCEPT ![i] = run] /\ run.matched = Matched(ClientSet(i))
  BY DEF Reconcile, ReconciliationRun
<1> HIDE DEF run
<1>3. /\ IsSequence(audits)' /\ Len(audits') = Len(audits)
      /\ \A j \in 1..Len(audits) : audits'[j] = IF j = i THEN run ELSE audits[j]
  BY <1>1, <1>2, ExceptSequence
<1>4. UNCHANGED <<costRows, periods, metered>>
  BY DEF Reconcile
<1>5. RowsGrow /\ RowsTyped'
  BY <1>4, RowsUnchanged DEF BillingInv, RowsTyped
<1>6. PeriodsTyped'
  BY <1>3, <1>4 DEF BillingInv, PeriodsTyped
<1>7. MatchedStill'
  <2>1. \A j \in 1..Len(periods) : Matched(ClientSet(j))' = Matched(ClientSet(j))
    BY <1>4 DEF Matched, Measured, Estimated, Unattributed, ClientSet, WindowRows, PrevWatermark
  <2>2. QED
    BY <1>1, <1>2, <1>3, <2>1 DEF BillingInv, MatchedStill
<1>8. QED
  BY <1>1, <1>2, <1>3, <1>4, <1>5, <1>6, <1>7, GrowthKeeps DEF BillingInv


\* A close adds the window above the tenant's previous watermark, up to the last row.
LEMMA ClosePeriodWindow ==
    ASSUME BillingInv, NEW t \in Payers, NEW p \in Months, ClosePeriod(t, p),
           NEW n \in Nat, n = Len(periods) + 1
    PROVE  /\ RowsGrow /\ PeriodsGrow /\ MeteredGrows /\ RowsTyped' /\ PeriodsTyped'
           /\ Len(periods') = n /\ periods'[n].payer = t /\ periods'[n].mark = Len(costRows)
           /\ ClientSet(n)' = WindowRows(t, PrevWatermark(t, n - 1), Len(costRows))
           /\ periods'[n].lines = BuildInvoice(ClientSet(n)')
           /\ periods'[n].total = Total(periods'[n].lines)
           /\ audits'[n] = Unknown /\ \A i \in 1..Len(audits) : audits'[i] = audits[i]
<1> DEFINE window == WindowRows(t, PrevWatermark(t, Len(periods)), Len(costRows))
           new == [payer |-> t, period |-> p, mark |-> Len(costRows),
                   lines |-> BuildInvoice(window), total |-> Total(BuildInvoice(window))]
<1>1. periods' = Append(periods, new) /\ audits' = Append(audits, Unknown)
  BY DEF ClosePeriod
<1>2. UNCHANGED <<costRows, metered>>
  BY DEF ClosePeriod
<1>3. /\ Len(periods) \in Nat /\ Len(audits) = Len(periods) /\ Len(costRows) \in Nat
      /\ IsSequence(periods) /\ IsSequence(audits)
  BY SequenceFacts, LenProperties DEF BillingInv, PeriodsTyped, RowsTyped
<1> HIDE DEF new
<1>4. /\ IsSequence(periods)' /\ Len(periods') = n /\ periods'[n] = new
      /\ \A i \in 1..Len(periods) : periods'[i] = periods[i]
  BY <1>1, <1>3, AppendedSequence
<1>5. /\ IsSequence(audits)' /\ Len(audits') = n /\ audits'[n] = Unknown
      /\ \A i \in 1..Len(audits) : audits'[i] = audits[i]
  BY <1>1, <1>3, AppendedSequence
<1>6. RowsGrow /\ PeriodsGrow /\ MeteredGrows /\ RowsTyped'
  BY <1>2, <1>3, <1>4, RowsUnchanged DEF PeriodsGrow, MeteredGrows, BillingInv, RowsTyped
<1>7. new.payer = t /\ new.mark = Len(costRows)
      /\ new.lines = BuildInvoice(window) /\ new.total = Total(new.lines)
  BY DEF new
<1>8. PeriodsTyped'
  <2>1. \A i \in 1..n : periods'[i].payer \in Payers /\ periods'[i].mark \in 0..Len(costRows)
    BY <1>3, <1>4, <1>7 DEF BillingInv, PeriodsTyped
  <2>2. QED
    BY <1>2, <1>4, <1>5, <2>1 DEF PeriodsTyped
<1>9. \A x : PrevWatermark(x, n - 1)' = PrevWatermark(x, n - 1)
  BY <1>3, <1>6, MarksStay DEF BillingInv
<1>10. ClientSet(n)' = window
  <2>1. periods'[n].payer = t /\ periods'[n].mark = Len(costRows) /\ n - 1 = Len(periods)
    BY <1>3, <1>4, <1>7
  <2>2. PrevWatermark(periods[n].payer, n - 1)' = PrevWatermark(t, Len(periods))
    <3>1. PrevWatermark(periods[n].payer, n - 1)' = PrevWatermark(periods'[n].payer, n - 1)
      BY <1>9
    <3>2. QED
      BY <2>1, <3>1
  <2>3. QED
    BY <1>2, <2>1, <2>2 DEF ClientSet, WindowRows
<1>11. QED
  BY <1>3, <1>4, <1>5, <1>6, <1>7, <1>8, <1>10


LEMMA ClosePeriodStep ==
    ASSUME BillingInv, NEW t \in Payers, NEW p \in Months, ClosePeriod(t, p)
    PROVE  BillingInv'
<1> DEFINE n == Len(periods) + 1
<1>1. /\ Len(periods) \in Nat /\ n \in Nat /\ n - 1 = Len(periods) /\ Len(audits) = Len(periods)
      /\ Len(costRows) \in Nat /\ DOMAIN costRows = 1..Len(costRows) /\ DOMAIN periods = 1..Len(periods)
  BY SequenceFacts, LenProperties DEF BillingInv, PeriodsTyped, RowsTyped
<1>2. PICK k \in Nat : k = n
  BY <1>1
<1>3. /\ RowsGrow /\ PeriodsGrow /\ MeteredGrows /\ RowsTyped' /\ PeriodsTyped'
      /\ Len(periods') = k /\ periods'[k].payer = t /\ periods'[k].mark = Len(costRows)
      /\ ClientSet(k)' = WindowRows(t, PrevWatermark(t, k - 1), Len(costRows))
      /\ periods'[k].lines = BuildInvoice(ClientSet(k)')
      /\ periods'[k].total = Total(periods'[k].lines)
      /\ audits'[k] = Unknown /\ \A i \in 1..Len(audits) : audits'[i] = audits[i]
  BY <1>2, ClosePeriodWindow
<1>4. /\ \A i \in 1..k : i \in 1..Len(periods) \/ i = k
      /\ \A i \in 1..Len(periods) : periods'[i] = periods[i] /\ ClientSet(i)' = ClientSet(i)
      /\ \A i \in 1..Len(periods) : periods[i].mark \in 0..Len(costRows)
  BY <1>1, <1>2, <1>3, ClientSetStays DEF BillingInv, PeriodsGrow, PeriodsTyped
<1>5. MarksRise'
  BY <1>1, <1>2, <1>3, <1>4 DEF BillingInv, MarksRise
<1>6. HighestExists'
  <2>1. SUFFICES ASSUME NEW x \in Payers, NEW j \in 0..k
                 PROVE  \E m \in Marks(x, j)' : \A y \in Marks(x, j)' : y <= m
    BY <1>3 DEF HighestExists
  <2>2. \A i \in 0..Len(periods) : Marks(x, i)' = Marks(x, i)
    BY <1>3, MarksStay DEF BillingInv
  <2>3. CASE j \in 0..Len(periods)
    BY <2>2, <2>3 DEF BillingInv, HighestExists
  <2>4. CASE j = k /\ x # t
    <3>1. Marks(x, k)' = Marks(x, k - 1)'
      BY <1>1, <1>2, <1>3, <2>4 DEF Marks
    <3>2. Marks(x, j)' = Marks(x, k - 1)
      BY <1>1, <1>2, <2>2, <2>4, <3>1
    <3>3. QED
      BY <1>1, <1>2, <3>2 DEF BillingInv, HighestExists
  <2>5. CASE j = k /\ x = t
    <3>1. DOMAIN periods' = 1..k
      BY <1>3, SequenceFacts DEF PeriodsTyped
    <3>2. Len(costRows) \in Marks(x, k)'
      BY <1>2, <1>1, <1>3, <2>5, <3>1 DEF Marks
    <3>3. \A y \in Marks(x, k)' : y <= Len(costRows)
      BY <1>1, <1>3, <1>4, <3>1 DEF Marks
    <3>4. QED
      BY <2>5, <3>2, <3>3
  <2>6. QED
    BY <1>1, <1>2, <2>3, <2>4, <2>5
<1>7. BilledByThen'
  <2>1. SUFFICES ASSUME NEW i \in 1..k, NEW m \in 1..periods'[i].mark,
                        PayerOf[costRows'[m].client] = periods'[i].payer
                 PROVE  \E j \in 1..i : periods'[j].payer = periods'[i].payer /\ m \in DOMAIN ClientSet(j)'
    BY <1>3 DEF BilledByThen
  <2>2. m \in 1..Len(costRows) /\ costRows'[m] = costRows[m]
    <3>1. CASE i \in 1..Len(periods)
      <4>1. periods'[i].mark \in 0..Len(costRows)
        BY <1>4, <3>1
      <4>2. m \in 1..Len(costRows)
        BY <1>1, <2>1, <4>1
      <4>3. QED
        BY <1>3, <4>2 DEF RowsGrow
    <3>2. CASE i = k
      <4>1. m \in 1..Len(costRows)
        BY <1>3, <2>1, <3>2
      <4>2. QED
        BY <1>3, <4>1 DEF RowsGrow
    <3>3. QED
      BY <1>4, <3>1, <3>2
  <2>3. ASSUME NEW i0 \in 1..Len(periods), m <= periods[i0].mark,
               PayerOf[costRows[m].client] = periods[i0].payer, i0 <= i
        PROVE  \E j \in 1..i : periods'[j].payer = periods[i0].payer /\ m \in DOMAIN ClientSet(j)'
    <3>1. PICK j \in 1..i0 : periods[j].payer = periods[i0].payer /\ m \in DOMAIN ClientSet(j)
      BY <1>1, <2>2, <2>3 DEF BillingInv, BilledByThen
    <3>2. j \in 1..Len(periods) /\ j \in 1..i
      BY <1>1, <2>3
    <3>3. QED
      BY <1>4, <3>1, <3>2
  <2>4. CASE i \in 1..Len(periods)
    BY <1>1, <1>4, <2>1, <2>2, <2>3, <2>4
  <2>5. CASE i = k
    <3> DEFINE low == PrevWatermark(t, k - 1)
    <3>1. low \in Marks(t, k - 1)
      BY <1>1, <1>2, PrevWatermarkIsHighest DEF BillingInv
    <3>2. CASE low < m
      BY <1>1, <1>3, <2>1, <2>2, <2>5, <3>2 DEF WindowRows
    <3>3. CASE m <= low
      <4>1. PICK j \in 1..Len(periods) : periods[j].payer = t /\ periods[j].mark = low
        BY <1>1, <3>1, <3>3 DEF Marks
      <4>2. QED
        BY <1>1, <1>2, <1>3, <2>1, <2>2, <2>3, <2>5, <3>3, <4>1
    <3>4. low \in Nat
      BY <1>1, <1>4, <3>1 DEF Marks
    <3>5. QED
      BY <2>2, <3>2, <3>3, <3>4
  <2>6. QED
    BY <1>4, <2>4, <2>5
<1>8. LinesOfWindow'
  <2>1. \A i \in 1..Len(periods) : /\ periods'[i].lines = BuildInvoice(ClientSet(i)')
                                   /\ periods'[i].total = Total(periods'[i].lines)
    BY <1>4 DEF BillingInv, LinesOfWindow
  <2>2. \A i \in 1..k : /\ periods'[i].lines = BuildInvoice(ClientSet(i)')
                        /\ periods'[i].total = Total(periods'[i].lines)
    BY <1>3, <1>4, <2>1
  <2>3. QED
    BY <1>3, <2>2 DEF LinesOfWindow
<1>9. MatchedStill'
  <2>1. \A i \in 1..Len(periods) : Matched(ClientSet(i)) \subseteq Matched(ClientSet(i))'
    BY <1>3, MatchesGrow DEF MeteredGrows
  <2>2. Len(audits') = k
    BY <1>3 DEF PeriodsTyped
  <2>3. QED
    BY <1>1, <1>3, <1>4, <2>1, <2>2 DEF BillingInv, MatchedStill
<1>10. QED
  BY <1>3, <1>5, <1>6, <1>7, <1>8, <1>9 DEF BillingInv

-----------------------------------------------------------------------------
(* The theorems.                                                           *)

LEMMA BillingInvStep == BillingInv /\ [BillingNext]_billingVars => BillingInv'
<1> SUFFICES ASSUME BillingInv, [BillingNext]_billingVars PROVE BillingInv'
  OBVIOUS
<1>1. ASSUME UNCHANGED <<costRows, metered, periods, audits>> PROVE BillingInv'
  BY <1>1, RowsUnchanged, QuietStep DEF MeteredGrows, BillingInv, RowsTyped
<1>2. CASE NextMonth
  BY <1>1, <1>2 DEF NextMonth
<1>3. ASSUME NEW r \in AgentRuns, NEW e \in EnvelopesOf[r], InsertTraceCosts(r, e) PROVE BillingInv'
  BY <1>3, InsertTraceRows, QuietStep DEF InsertTraceCosts, MeteredGrows
<1>4. ASSUME NEW batch \in Batches, InsertMeteringRecords(batch) PROVE BillingInv'
  BY <1>4, InsertMeteringRecordsRows, RowsUnchanged, QuietStep DEF InsertMeteringRecords
<1>5. ASSUME NEW t \in Payers, NEW p \in Months, ClosePeriod(t, p) PROVE BillingInv'
  BY <1>5, ClosePeriodStep
<1>6. ASSUME NEW i \in DOMAIN periods, Reconcile(i) PROVE BillingInv'
  BY <1>6, ReconcileStep
<1>7. CASE UNCHANGED billingVars
  BY <1>1, <1>7 DEF billingVars
<1>8. QED
  BY <1>2, <1>3, <1>4, <1>5, <1>6, <1>7 DEF BillingNext

\* Watermarks rise and every window is what its close saw, for any history.
THEOREM BillingInvariant == BillingSpec => []BillingInv
BY BillingInvInit, BillingInvStep, PTL DEF BillingSpec

\* No row is in the windows of two closes: the later window starts above the earlier
\* close's watermark.
LEMMA WindowsDisjoint ==
    ASSUME BillingInv, NEW i \in DOMAIN periods, NEW j \in DOMAIN periods, i < j,
           NEW n \in DOMAIN ClientSet(i)
    PROVE  n \notin DOMAIN ClientSet(j)
<1>1. /\ DOMAIN periods = 1..Len(periods) /\ Len(periods) \in Nat
      /\ Len(costRows) \in Nat /\ DOMAIN costRows = 1..Len(costRows)
  BY SequenceFacts, LenProperties DEF BillingInv, PeriodsTyped, RowsTyped
<1>2. n \in 1..Len(costRows) /\ n <= periods[i].mark /\ PayerOf[costRows[n].client] = periods[i].payer
  BY <1>1 DEF ClientSet, WindowRows
<1>3. SUFFICES ASSUME n \in DOMAIN ClientSet(j) PROVE FALSE
  OBVIOUS
<1> DEFINE t == periods[j].payer
           low == PrevWatermark(t, j - 1)
<1>4. low < n /\ PayerOf[costRows[n].client] = t
  BY <1>3 DEF ClientSet, WindowRows
<1>5. t \in Payers /\ j - 1 \in 0..Len(periods) /\ i <= j - 1
  BY <1>1 DEF BillingInv, PeriodsTyped
<1>6. periods[i].mark \in Marks(t, j - 1)
  BY <1>1, <1>2, <1>4, <1>5 DEF Marks
<1>7. periods[i].mark <= low /\ low \in Nat
  <2>1. low \in Marks(t, j - 1) /\ periods[i].mark <= low
    BY <1>5, <1>6, PrevWatermarkIsHighest DEF BillingInv
  <2>2. \A x \in Marks(t, j - 1) : x \in Nat
    BY <1>1 DEF Marks, BillingInv, PeriodsTyped
  <2>3. QED
    BY <2>1, <2>2
<1>8. periods[i].mark \in Nat
  BY <1>1 DEF BillingInv, PeriodsTyped
<1>9. QED
  BY <1>2, <1>4, <1>7, <1>8

\* Every cost row up to a tenant's newest close is in exactly one window of its payer,
\* in whatever order months are closed and traces arrive, each invoice is the sum over
\* its window, and a reconciliation looks at that window (ClosePeriod, Reconcile).
THEOREM RowsBilledOnce == BillingSpec => []BilledOnce
<1>1. BillingInv => BilledOnce
  <2>1. SUFFICES ASSUME BillingInv PROVE BilledOnce
    OBVIOUS
  <2>2. DOMAIN periods = 1..Len(periods) /\ Len(periods) \in Nat
    BY <2>1, SequenceFacts DEF BillingInv, PeriodsTyped
  <2>3. \A i, j \in DOMAIN periods : \A n \in DOMAIN ClientSet(i) \cap DOMAIN ClientSet(j) : i = j
    <3>1. SUFFICES ASSUME NEW i \in DOMAIN periods, NEW j \in DOMAIN periods,
                          NEW n \in DOMAIN ClientSet(i) \cap DOMAIN ClientSet(j), i # j
                   PROVE  FALSE
      OBVIOUS
    <3>2. i < j \/ j < i
      BY <2>2, <3>1
    <3>3. QED
      BY <2>1, <3>1, <3>2, WindowsDisjoint
  <2>4. \A i \in DOMAIN periods : \A n \in 1..periods[i].mark :
            PayerOf[costRows[n].client] = periods[i].payer
                => \E j \in DOMAIN periods : periods[j].payer = periods[i].payer /\ n \in DOMAIN ClientSet(j)
    <3>1. \A i \in 1..Len(periods) : 1..i \subseteq 1..Len(periods)
      BY <2>2
    <3>2. QED
      BY <2>1, <2>2, <3>1 DEF BillingInv, BilledByThen
  <2>5. QED
    BY <2>1, <2>2, <2>3, <2>4 DEF BilledOnce, BillingInv, LinesOfWindow
<1>2. QED
  BY <1>1, BillingInvariant, PTL

\* What one reconciliation run matched, every later run of the period matches, whatever
\* traces and exports have arrived in between (InsertMeteringRecords, windowRows).
THEOREM MatchesNeverTakenBack == BillingSpec => MatchesStand
<1> DEFINE Kept == \A i \in DOMAIN audits : audits[i] # Unknown /\ audits'[i] # Unknown =>
                       audits[i].matched \subseteq audits'[i].matched
<1>1. ASSUME BillingInv, [BillingNext]_billingVars PROVE [Kept]_billingVars
  <2>1. CASE UNCHANGED billingVars
    BY <2>1
  <2>2. /\ DOMAIN audits = 1..Len(audits) /\ Len(audits) = Len(periods)
        /\ DOMAIN periods = 1..Len(periods)
    BY <1>1, SequenceFacts DEF BillingInv, PeriodsTyped
  <2>3. ASSUME UNCHANGED audits PROVE Kept
    BY <2>3
  <2>4. ASSUME NEW i \in DOMAIN periods, Reconcile(i) PROVE Kept
    BY <1>1, <2>2, <2>4, ReconcileStep DEF BillingInv, MatchedStill
  <2>5. ASSUME NEW t \in Payers, NEW p \in Months, ClosePeriod(t, p) PROVE Kept
    <3>1. Len(periods) + 1 \in Nat
      BY <1>1, SequenceFacts DEF BillingInv, PeriodsTyped
    <3>2. \A i \in 1..Len(audits) : audits'[i] = audits[i]
      BY <1>1, <2>5, <3>1, ClosePeriodWindow
    <3>3. QED
      BY <2>2, <3>2
  <2>6. CASE BillingNext
    <3>1. CASE NextMonth
      BY <2>3, <3>1 DEF NextMonth
    <3>2. CASE \E r \in AgentRuns : \E e \in EnvelopesOf[r] : InsertTraceCosts(r, e)
      BY <2>3, <3>2 DEF InsertTraceCosts
    <3>3. CASE \E batch \in Batches : InsertMeteringRecords(batch)
      BY <2>3, <3>3 DEF InsertMeteringRecords
    <3>4. QED
      BY <2>4, <2>5, <2>6, <3>1, <3>2, <3>3 DEF BillingNext
  <2>7. QED
    BY <1>1, <2>1, <2>6
<1>2. QED
  BY <1>1, BillingInvariant, PTL DEF BillingSpec, MatchesStand

-----------------------------------------------------------------------------
(* The second half: sums.  First those of the ledger.                       *)

\* The runs whose trace is stored.
Posted == {r \in AgentRuns : ingested[r] # Unknown}

RowsOf(c, m) == {n \in DOMAIN costRows : costRows[n].client = c /\ costRows[n].month = m}

LedgerTyped ==
    /\ ingested = [r \in AgentRuns |-> ingested[r]]
    /\ \A r \in AgentRuns : ingested[r] \in EnvelopesOf[r] \cup {Unknown}
    /\ IsFiniteSet(Posted)
    /\ budget \in [Clients \X Months -> Nat]

\* What the traces of a strategy and month report, and what its rows hold.
ReportedTokens(c, m) == [r \in Reported(c, m) |-> Total(Tokens(ingested[r].costs))]
RowTokens(c, m)      == [n \in RowsOf(c, m) |-> costRows[n].tokens]

LedgerSums ==
    \A c \in Clients, m \in Months :
        /\ budget[<<c, m>>] = Total(ReportedTokens(c, m))
        /\ budget[<<c, m>>] = Total(RowTokens(c, m))

RowsReported == \A n \in DOMAIN costRows : Reported(costRows[n].client, costRows[n].month) # {}

IdentityStands == \A i \in 1..Len(audits) : audits[i] # Unknown => audits[i].identity

SpendInv == BillingInv /\ LedgerTyped /\ LedgerSums /\ RowsReported /\ IdentityStands

\* The sum of a function is its sum over its domain.
LEMMA TotalIsSum == ASSUME NEW f, NEW S, DOMAIN f = S PROVE Total(f) = SumFunctionOnSet(f, S)
BY DEF Total, SumFunction

\* The tokens of an envelope are its entries', one by one.
LEMMA EnvelopeTokens ==
    ASSUME NEW r \in AgentRuns, NEW e \in EnvelopesOf[r]
    PROVE  /\ Len(e.costs) \in Nat /\ DOMAIN e.costs = 1..Len(e.costs)
           /\ e # Unknown /\ e.month \in Months /\ ClientOf[r] \in Clients
           /\ \A k \in 1..Len(e.costs) : e.costs[k].tokens \in Nat
           /\ DOMAIN Tokens(e.costs) = 1..Len(e.costs)
           /\ \A k \in 1..Len(e.costs) : Tokens(e.costs)[k] = e.costs[k].tokens
           /\ Total(Tokens(e.costs)) = SumFunctionOnSet(Tokens(e.costs), 1..Len(e.costs))
           /\ Total(Tokens(e.costs)) \in Nat
<1>1. e.costs \in Seq(Costs) /\ e.month \in Months /\ e # Unknown /\ ClientOf[r] \in Clients
  BY BillingAssumption DEF IsEnvelope
<1>2. Len(e.costs) \in Nat /\ DOMAIN e.costs = 1..Len(e.costs)
      /\ \A k \in 1..Len(e.costs) : e.costs[k] \in Costs
  BY <1>1, LenProperties
<1>3. \A k \in 1..Len(e.costs) : e.costs[k].tokens \in Nat
  BY <1>2 DEF Costs
<1>4. /\ DOMAIN Tokens(e.costs) = 1..Len(e.costs)
      /\ \A k \in 1..Len(e.costs) : Tokens(e.costs)[k] = e.costs[k].tokens
  BY <1>2 DEF Tokens
<1>5. Total(Tokens(e.costs)) = SumFunctionOnSet(Tokens(e.costs), 1..Len(e.costs))
  BY <1>4, TotalIsSum
<1>6. IsFiniteSet(1..Len(e.costs))
  BY <1>2, FS_Interval
<1>7. SumFunctionOnSet(Tokens(e.costs), 1..Len(e.costs)) \in Nat
  BY <1>3, <1>4, <1>6, SumType
<1> QED
  BY <1>1, <1>2, <1>3, <1>4, <1>5, <1>7

\* The sets and sums of a strategy and month are finite and natural.
LEMMA LedgerFacts ==
    ASSUME RowsTyped, LedgerTyped, NEW c \in Clients, NEW m \in Months
    PROVE  /\ IsFiniteSet(Reported(c, m)) /\ IsFiniteSet(RowsOf(c, m))
           /\ DOMAIN ReportedTokens(c, m) = Reported(c, m)
           /\ DOMAIN RowTokens(c, m) = RowsOf(c, m)
           /\ \A r \in Reported(c, m) : ReportedTokens(c, m)[r] = Total(Tokens(ingested[r].costs))
           /\ \A r \in Reported(c, m) : ReportedTokens(c, m)[r] \in Nat
           /\ \A n \in RowsOf(c, m) : RowTokens(c, m)[n] = costRows[n].tokens
           /\ \A n \in RowsOf(c, m) : RowTokens(c, m)[n] \in Nat
<1>1. IsFiniteSet(Reported(c, m))
  <2>1. Reported(c, m) \subseteq Posted
    BY DEF Reported, Posted
  <2> QED
    BY <2>1, FS_Subset DEF LedgerTyped
<1>2. Len(costRows) \in Nat /\ DOMAIN costRows = 1..Len(costRows)
      /\ \A n \in 1..Len(costRows) : costRows[n] \in CostRow
  BY LenProperties DEF RowsTyped
<1>3. IsFiniteSet(RowsOf(c, m))
  <2>1. RowsOf(c, m) \subseteq 1..Len(costRows) /\ IsFiniteSet(1..Len(costRows))
    BY <1>2, FS_Interval DEF RowsOf
  <2> QED
    BY <2>1, FS_Subset
<1>4. \A r \in Reported(c, m) : ReportedTokens(c, m)[r] = Total(Tokens(ingested[r].costs))
  BY DEF ReportedTokens
<1>5. \A r \in Reported(c, m) : Total(Tokens(ingested[r].costs)) \in Nat
  BY EnvelopeTokens DEF Reported, LedgerTyped
<1>6. \A n \in RowsOf(c, m) : RowTokens(c, m)[n] = costRows[n].tokens
  BY DEF RowTokens
<1>7. \A n \in RowsOf(c, m) : costRows[n].tokens \in Nat
  BY <1>2 DEF RowsOf, CostRow
<1> QED
  BY <1>1, <1>3, <1>4, <1>5, <1>6, <1>7 DEF ReportedTokens, RowTokens

\* Where a trace's rows are.
LEMMA InsertTraceAppends ==
    ASSUME BillingInv, NEW r \in AgentRuns, NEW e \in EnvelopesOf[r], InsertTraceCosts(r, e)
    PROVE  /\ Len(costRows') = Len(costRows) + Len(e.costs)
           /\ \A k \in 1..Len(e.costs) : costRows'[Len(costRows) + k] = InsertModelCost(r, e, k)
<1> DEFINE new == [k \in DOMAIN e.costs |-> InsertModelCost(r, e, k)]
<1>1. e.costs \in Seq(Costs) /\ costRows' = costRows \o new
  BY BillingAssumption DEF IsEnvelope, InsertTraceCosts
<1>2. Len(e.costs) \in Nat /\ DOMAIN e.costs = 1..Len(e.costs)
  BY <1>1, LenProperties
<1>3. costRows \in Seq(CostRow) /\ Len(costRows) \in Nat
  BY LenProperties DEF BillingInv, RowsTyped
<1> DEFINE T == CostRow \cup {InsertModelCost(r, e, k) : k \in 1..Len(e.costs)}
<1>4. costRows \in Seq(T)
  <2>1. CostRow \subseteq T
    OBVIOUS
  <2> HIDE DEF T
  <2> QED
    BY <1>3, <2>1, SeqMonotonic
<1>5. new \in [1..Len(e.costs) -> T]
  BY <1>2
<1>6. \A k \in 1..Len(e.costs) : new[k] = InsertModelCost(r, e, k)
  BY <1>2
<1> HIDE DEF T, new
<1>7. new \in Seq(T) /\ Len(new) = Len(e.costs)
  <2>1. new \in Seq(T)
    BY <1>2, <1>5, SeqDef
  <2> QED
    BY <1>2, <1>5, <2>1, LenProperties
<1>8. /\ Len(costRows \o new) = Len(costRows) + Len(new)
      /\ \A n \in 1..Len(costRows) + Len(new) :
            (costRows \o new)[n] = IF n <= Len(costRows) THEN costRows[n] ELSE new[n - Len(costRows)]
  BY <1>4, <1>7, ConcatProperties
<1>9. ASSUME NEW k \in 1..Len(e.costs)
      PROVE  (costRows \o new)[Len(costRows) + k] = new[k]
  <2>1. Len(costRows) + k \in 1..Len(costRows) + Len(new) /\ ~(Len(costRows) + k <= Len(costRows))
        /\ (Len(costRows) + k) - Len(costRows) = k
    BY <1>2, <1>3, <1>7
  <2> QED
    BY <1>8, <2>1
<1> QED
  BY <1>1, <1>6, <1>7, <1>8, <1>9

\* The rows of the trace's strategy and month are joined by the trace's, in its order.
LEMMA InsertTraceRowsOf ==
    ASSUME BillingInv, NEW r \in AgentRuns, NEW e \in EnvelopesOf[r], InsertTraceCosts(r, e),
           NEW c \in Clients, NEW m \in Months,
           NEW new, new = {n \in DOMAIN costRows' : n > Len(costRows)}
    PROVE  /\ (c = ClientOf[r] /\ m = e.month) => RowsOf(c, m)' = RowsOf(c, m) \cup new
           /\ ~(c = ClientOf[r] /\ m = e.month) => RowsOf(c, m)' = RowsOf(c, m)
           /\ \A n \in RowsOf(c, m) : costRows'[n] = costRows[n]
           /\ RowsOf(c, m) \cap new = {}
           /\ new = {Len(costRows) + k : k \in 1..Len(e.costs)}
           /\ \A k \in 1..Len(e.costs) : costRows'[Len(costRows) + k].tokens = e.costs[k].tokens
<1>1. /\ Len(costRows') = Len(costRows) + Len(e.costs)
      /\ \A k \in 1..Len(e.costs) : costRows'[Len(costRows) + k] = InsertModelCost(r, e, k)
  BY InsertTraceAppends
<1>2. RowsGrow /\ Len(costRows) \in Nat /\ DOMAIN costRows = 1..Len(costRows)
  BY InsertTraceRows, LenProperties DEF BillingInv, RowsTyped
<1>3. DOMAIN costRows' = 1..Len(costRows') /\ Len(e.costs) \in Nat
  BY <1>2, EnvelopeTokens, LenProperties DEF RowsGrow
<1>4. \A n \in 1..Len(costRows) : costRows'[n] = costRows[n]
  BY <1>2 DEF RowsGrow
<1>5. new = {Len(costRows) + k : k \in 1..Len(e.costs)}
  <2>1. ASSUME NEW n \in new PROVE \E k \in 1..Len(e.costs) : n = Len(costRows) + k
    <3>1. n - Len(costRows) \in 1..Len(e.costs) /\ n = Len(costRows) + (n - Len(costRows))
      BY <1>1, <1>2, <1>3
    <3> QED
      BY <3>1
  <2>2. ASSUME NEW k \in 1..Len(e.costs) PROVE Len(costRows) + k \in new
    BY <1>1, <1>2, <1>3
  <2> QED
    BY <2>1, <2>2
<1>6. \A k \in 1..Len(e.costs) : /\ costRows'[Len(costRows) + k].tokens = e.costs[k].tokens
                                 /\ costRows'[Len(costRows) + k].client = ClientOf[r]
                                 /\ costRows'[Len(costRows) + k].month = e.month
  <2>1. ASSUME NEW k \in 1..Len(e.costs)
        PROVE  /\ InsertModelCost(r, e, k).tokens = e.costs[k].tokens
               /\ InsertModelCost(r, e, k).client = ClientOf[r]
               /\ InsertModelCost(r, e, k).month = e.month
    BY DEF InsertModelCost
  <2> QED
    BY <1>1, <2>1
<1>7. \A n \in new : costRows'[n].client = ClientOf[r] /\ costRows'[n].month = e.month
  BY <1>5, <1>6
<1>8. \A n \in DOMAIN costRows' : n \in DOMAIN costRows \/ n \in new
  BY <1>1, <1>2, <1>3
<1>9. DOMAIN costRows \subseteq DOMAIN costRows' /\ new \subseteq DOMAIN costRows'
      /\ DOMAIN costRows \cap new = {}
  BY <1>1, <1>2, <1>3
<1>10. RowsOf(c, m)' = {n \in DOMAIN costRows' : costRows'[n].client = c /\ costRows'[n].month = m}
  BY DEF RowsOf
<1>11. \A n \in DOMAIN costRows : costRows'[n] = costRows[n]
  BY <1>2, <1>4
<1>12. CASE c = ClientOf[r] /\ m = e.month
  BY <1>5, <1>6, <1>7, <1>8, <1>9, <1>10, <1>11, <1>12 DEF RowsOf
<1>13. CASE ~(c = ClientOf[r] /\ m = e.month)
  BY <1>5, <1>6, <1>7, <1>8, <1>9, <1>10, <1>11, <1>13 DEF RowsOf
<1> QED
  BY <1>12, <1>13

\* So do the runs that reported for it.
LEMMA InsertTraceReported ==
    ASSUME LedgerTyped, NEW r \in AgentRuns, NEW e \in EnvelopesOf[r], InsertTraceCosts(r, e),
           NEW c \in Clients, NEW m \in Months
    PROVE  /\ (c = ClientOf[r] /\ m = e.month) => Reported(c, m)' = Reported(c, m) \cup {r}
           /\ ~(c = ClientOf[r] /\ m = e.month) => Reported(c, m)' = Reported(c, m)
           /\ r \notin Reported(c, m) /\ ingested'[r] = e
           /\ \A x \in Reported(c, m) : ingested'[x] = ingested[x]
           /\ LedgerTyped'
<1>1. /\ ingested[r] = Unknown /\ e # Unknown
      /\ \A x \in AgentRuns : ingested'[x] = IF x = r THEN e ELSE ingested[x]
      /\ ingested' = [x \in AgentRuns |-> ingested'[x]]
  BY EnvelopeTokens DEF InsertTraceCosts, LedgerTyped
<1>2. Posted' = Posted \cup {r}
  BY <1>1 DEF Posted
<1>3. IsFiniteSet(Posted')
  BY <1>2, FS_AddElement DEF LedgerTyped
<1>4. budget' \in [Clients \X Months -> Nat]
  <2>1. Total(Tokens(e.costs)) \in Nat /\ <<ClientOf[r], e.month>> \in Clients \X Months
    BY EnvelopeTokens
  <2>2. budget \in [Clients \X Months -> Nat]
    BY DEF LedgerTyped
  <2> DEFINE k0 == <<ClientOf[r], e.month>>
             t == Total(Tokens(e.costs))
  <2>3. budget' = [budget EXCEPT ![k0] = @ + t]
    BY DEF InsertTraceCosts
  <2> HIDE DEF k0, t
  <2>4. budget[k0] + t \in Nat
    BY <2>1, <2>2 DEF k0, t
  <2> QED
    BY <2>2, <2>3, <2>4
<1>5. LedgerTyped'
  BY <1>1, <1>3, <1>4 DEF LedgerTyped
<1>6. Reported(c, m)' = {x \in AgentRuns : ingested'[x] # Unknown /\ ClientOf[x] = c /\ ingested'[x].month = m}
  BY DEF Reported
<1>7. CASE c = ClientOf[r] /\ m = e.month
  BY <1>1, <1>5, <1>6, <1>7 DEF Reported
<1>8. CASE ~(c = ClientOf[r] /\ m = e.month)
  BY <1>1, <1>5, <1>6, <1>8 DEF Reported
<1> QED
  BY <1>7, <1>8

\* A trace adds its tokens to what was reported and, row by row, to the rows.
LEMMA InsertTraceSums ==
    ASSUME SpendInv, NEW r \in AgentRuns, NEW e \in EnvelopesOf[r], InsertTraceCosts(r, e)
    PROVE  LedgerSums'
<1> DEFINE t == Total(Tokens(e.costs))
           L == Len(costRows)
           k == Len(e.costs)
           new == {n \in DOMAIN costRows' : n > Len(costRows)}
<1>1. /\ k \in Nat /\ t \in Nat /\ e.month \in Months /\ ClientOf[r] \in Clients
      /\ DOMAIN Tokens(e.costs) = 1..k
      /\ \A j \in 1..k : Tokens(e.costs)[j] = e.costs[j].tokens /\ e.costs[j].tokens \in Nat
      /\ t = SumFunctionOnSet(Tokens(e.costs), 1..k)
  BY EnvelopeTokens
<1>2. RowsTyped' /\ LedgerTyped' /\ RowsTyped /\ LedgerTyped /\ BillingInv
  BY <1>1, InsertTraceRows, InsertTraceReported DEF SpendInv, BillingInv
<1>3. L \in Nat
  BY <1>2, LenProperties DEF RowsTyped
<1>4. SUFFICES ASSUME NEW c \in Clients, NEW m \in Months
               PROVE  /\ budget'[<<c, m>>] = Total(ReportedTokens(c, m)')
                      /\ budget'[<<c, m>>] = Total(RowTokens(c, m)')
  BY DEF LedgerSums
<1> DEFINE R  == Reported(c, m)
           Q  == RowsOf(c, m)
           RT == ReportedTokens(c, m)
           QT == RowTokens(c, m)
<1>5. /\ budget[<<c, m>>] = Total(RT) /\ budget[<<c, m>>] = Total(QT)
      /\ budget[<<c, m>>] \in Nat
      /\ budget'[<<c, m>>] = IF c = ClientOf[r] /\ m = e.month THEN budget[<<c, m>>] + t ELSE budget[<<c, m>>]
  BY <1>2 DEF SpendInv, LedgerSums, LedgerTyped, InsertTraceCosts
<1>6. /\ IsFiniteSet(R) /\ IsFiniteSet(Q) /\ DOMAIN RT = R /\ DOMAIN QT = Q
      /\ \A x \in R : RT[x] = Total(Tokens(ingested[x].costs)) /\ RT[x] \in Nat
      /\ \A n \in Q : QT[n] = costRows[n].tokens /\ QT[n] \in Nat
  BY <1>2, LedgerFacts
<1>7. /\ IsFiniteSet(R') /\ IsFiniteSet(Q') /\ DOMAIN RT' = R' /\ DOMAIN QT' = Q'
      /\ \A x \in R' : RT'[x] = Total(Tokens(ingested'[x].costs)) /\ RT'[x] \in Nat
      /\ \A n \in Q' : QT'[n] = costRows'[n].tokens /\ QT'[n] \in Nat
  <2>1. \A x \in R' : ingested'[x] \in EnvelopesOf[x]
    BY <1>2 DEF LedgerTyped, Reported
  <2>2. \A x \in R' : x \in AgentRuns
    BY DEF Reported
  <2>3. /\ DOMAIN RT' = R' /\ DOMAIN QT' = Q'
        /\ \A x \in R' : RT'[x] = Total(Tokens(ingested'[x].costs))
        /\ \A n \in Q' : QT'[n] = costRows'[n].tokens
    BY DEF ReportedTokens, RowTokens
  <2>4. \A x \in R' : RT'[x] \in Nat
    BY <2>1, <2>2, <2>3, EnvelopeTokens
  <2>5. Len(costRows') \in Nat /\ DOMAIN costRows' = 1..Len(costRows')
        /\ \A n \in 1..Len(costRows') : costRows'[n] \in CostRow
    BY <1>2, LenProperties DEF RowsTyped
  <2>6. \A n \in Q' : costRows'[n].tokens \in Nat
    BY <2>5 DEF RowsOf, CostRow
  <2>7. IsFiniteSet(Q')
    <3>1. Q' \subseteq 1..Len(costRows') /\ IsFiniteSet(1..Len(costRows'))
      BY <2>5, FS_Interval DEF RowsOf
    <3> QED
      BY <3>1, FS_Subset
  <2>8. IsFiniteSet(R')
    <3>1. R' \subseteq Posted' /\ IsFiniteSet(Posted')
      BY <1>2 DEF Reported, Posted, LedgerTyped
    <3> QED
      BY <3>1, FS_Subset
  <2> QED
    BY <2>3, <2>4, <2>6, <2>7, <2>8
<1>8. /\ (c = ClientOf[r] /\ m = e.month) => R' = R \cup {r}
      /\ ~(c = ClientOf[r] /\ m = e.month) => R' = R
      /\ r \notin R /\ ingested'[r] = e
      /\ \A x \in R : ingested'[x] = ingested[x]
  BY <1>2, InsertTraceReported
<1>9. /\ (c = ClientOf[r] /\ m = e.month) => Q' = Q \cup new
      /\ ~(c = ClientOf[r] /\ m = e.month) => Q' = Q
      /\ \A n \in Q : costRows'[n] = costRows[n]
      /\ Q \cap new = {}
      /\ new = {L + j : j \in 1..k}
      /\ \A j \in 1..k : costRows'[L + j].tokens = e.costs[j].tokens
  BY <1>2, InsertTraceRowsOf
<1>10. /\ Total(RT) = SumFunctionOnSet(RT, R) /\ Total(RT') = SumFunctionOnSet(RT', R')
       /\ Total(QT) = SumFunctionOnSet(QT, Q) /\ Total(QT') = SumFunctionOnSet(QT', Q')
  BY <1>6, <1>7, TotalIsSum
<1> HIDE DEF t, L, k, new, R, Q, RT, QT
<1>11. SumFunctionOnSet(RT', R) = SumFunctionOnSet(RT, R)
  <2>1. R \subseteq R' /\ \A x \in R : RT'[x] = RT[x]
    BY <1>6, <1>7, <1>8
  <2> QED
    BY <1>6, <2>1, SumSame
<1>12. SumFunctionOnSet(QT', Q) = SumFunctionOnSet(QT, Q)
  <2>1. Q \subseteq Q' /\ \A n \in Q : QT'[n] = QT[n]
    BY <1>6, <1>7, <1>9
  <2> QED
    BY <1>6, <2>1, SumSame
<1>13. CASE ~(c = ClientOf[r] /\ m = e.month)
  BY <1>5, <1>8, <1>9, <1>10, <1>11, <1>12, <1>13 DEF RT, QT
<1>14. CASE c = ClientOf[r] /\ m = e.month
  <2>1. SumFunctionOnSet(RT', R') = SumFunctionOnSet(RT, R) + t
    <3>1. R' = R \cup {r} /\ RT'[r] = t /\ \A x \in R \cup {r} : RT'[x] \in Int
      BY <1>7, <1>8, <1>14 DEF t
    <3>2. SumFunctionOnSet(RT', R \cup {r}) = SumFunctionOnSet(RT', R) + RT'[r]
      BY <1>6, <1>8, <3>1, SumAdd
    <3> QED
      BY <1>11, <3>1, <3>2
  <2>2. SumFunctionOnSet(QT', Q') = SumFunctionOnSet(QT, Q) + t
    <3>1. Q' = Q \cup new /\ Q \cap new = {} /\ \A n \in Q \cup new : QT'[n] \in Int
      BY <1>7, <1>9, <1>14
    <3>2. new \subseteq Q'
      BY <3>1
    <3>3. IsFiniteSet(new) /\ IsFiniteSet(1..k)
      BY <1>1, <1>7, <3>2, FS_Subset, FS_Interval
    <3>4. SumFunctionOnSet(QT', Q \cup new) = SumFunctionOnSet(QT', Q) + SumFunctionOnSet(QT', new)
      BY <1>6, <3>1, <3>3, SumUnion
    <3>5. SumFunctionOnSet(QT', new) = SumFunctionOnSet(Tokens(e.costs), 1..k)
      <4> DEFINE from == [j \in 1..k |-> L + j]
      <4>1. /\ \A j \in 1..k : from[j] \in new
            /\ \A n \in new : \E j \in 1..k : from[j] = n
        BY <1>9
      <4>2. \A i, j \in 1..k : from[i] = from[j] => i = j
        BY <1>3, <1>1
      <4>3. \A j \in 1..k : Tokens(e.costs)[j] = QT'[from[j]]
        <5>1. ASSUME NEW j \in 1..k PROVE Tokens(e.costs)[j] = QT'[from[j]]
          <6>1. from[j] = L + j /\ from[j] \in Q'
            BY <3>2, <4>1
          <6>2. QT'[from[j]] = costRows'[from[j]].tokens
            BY <1>7, <6>1
          <6> QED
            BY <1>1, <1>9, <6>1, <6>2
        <5> QED
          BY <5>1
      <4>4. \A n \in new : QT'[n] \in Int
        BY <3>1
      <4> DEFINE K == 1..k
                 f == QT'
                 g == Tokens(e.costs)
      <4>5. /\ \A j \in K : from[j] \in new
            /\ \A n \in new : \E j \in K : from[j] = n
            /\ \A i, j \in K : from[i] = from[j] => i = j
            /\ \A j \in K : g[j] = f[from[j]]
            /\ \A n \in new : f[n] \in Int
            /\ IsFiniteSet(K)
        BY <3>3, <4>1, <4>2, <4>3, <4>4
      <4> HIDE DEF from, K, f, g
      <4>6. SumFunctionOnSet(f, new) = SumFunctionOnSet(g, K)
        BY <3>3, <4>5, SumMoved
      <4> QED
        BY <4>6 DEF f, g, K
    <3> QED
      BY <1>1, <1>12, <3>1, <3>4, <3>5
  <2> QED
    BY <1>5, <1>10, <1>14, <2>1, <2>2 DEF RT, QT
<1> QED
  BY <1>13, <1>14 DEF RT, QT

\* A new row is reported by the trace that it came with.
LEMMA InsertTraceRowsReported ==
    ASSUME SpendInv, NEW r \in AgentRuns, NEW e \in EnvelopesOf[r], InsertTraceCosts(r, e)
    PROVE  RowsReported'
<1>1. BillingInv /\ LedgerTyped /\ RowsTyped' /\ RowsTyped /\ e.month \in Months /\ ClientOf[r] \in Clients
  BY InsertTraceRows, EnvelopeTokens DEF SpendInv, BillingInv
<1>2. SUFFICES ASSUME NEW n \in DOMAIN costRows', NEW c, c = costRows'[n].client,
                      NEW m, m = costRows'[n].month
               PROVE  Reported(c, m)' # {}
  BY DEF RowsReported, Reported
<1>3. c \in Clients /\ m \in Months
  <2>1. costRows'[n] \in CostRow
    BY <1>1, LenProperties DEF RowsTyped
  <2> QED
    BY <1>2, <2>1 DEF CostRow
<1>4. /\ (c = ClientOf[r] /\ m = e.month) => Reported(c, m)' = Reported(c, m) \cup {r}
      /\ ~(c = ClientOf[r] /\ m = e.month) => Reported(c, m)' = Reported(c, m)
  BY <1>1, <1>3, InsertTraceReported
<1> DEFINE new == {x \in DOMAIN costRows' : x > Len(costRows)}
<1>5. /\ (c = ClientOf[r] /\ m = e.month) => RowsOf(c, m)' = RowsOf(c, m) \cup new
      /\ ~(c = ClientOf[r] /\ m = e.month) => RowsOf(c, m)' = RowsOf(c, m)
      /\ \A x \in RowsOf(c, m) : costRows'[x] = costRows[x]
      /\ RowsOf(c, m) \cap new = {}
      /\ new = {Len(costRows) + k : k \in 1..Len(e.costs)}
      /\ \A k \in 1..Len(e.costs) : costRows'[Len(costRows) + k].tokens = e.costs[k].tokens
  BY <1>1, <1>3, InsertTraceRowsOf
<1>6. n \in RowsOf(c, m)'
  BY <1>2 DEF RowsOf
<1>7. CASE c = ClientOf[r] /\ m = e.month
  BY <1>4, <1>7
<1>8. CASE ~(c = ClientOf[r] /\ m = e.month)
  <2>1. n \in RowsOf(c, m)
    BY <1>5, <1>6, <1>8
  <2>2. Reported(c, m) # {}
    BY <2>1 DEF SpendInv, RowsReported, RowsOf
  <2> QED
    BY <1>4, <1>8, <2>2
<1> QED
  BY <1>7, <1>8

-----------------------------------------------------------------------------
(* Sums of an invoice.                                                     *)

\* A sum over rows of a set reads their costs in the whole set's costs.
LEMMA SumOverRows ==
    ASSUME NEW set, IsFiniteSet(DOMAIN set), \A n \in DOMAIN set : set[n].cost \in Nat,
           NEW S \in SUBSET DOMAIN set
    PROVE  SumOver(set, S) = SumFunctionOnSet(Costing(set), S) /\ IsFiniteSet(S)
<1> DEFINE g == [n \in S |-> set[n].cost]
<1>1. IsFiniteSet(S)
  BY FS_Subset
<1>2. SumOver(set, S) = SumFunctionOnSet(g, S)
  <2>1. DOMAIN g = S /\ SumOver(set, S) = Total(g)
    BY DEF SumOver
  <2> QED
    BY <2>1, TotalIsSum
<1>3. \A n \in S : g[n] = Costing(set)[n]
  BY DEF Costing
<1> HIDE DEF g
<1>4. SumFunctionOnSet(g, S) = SumFunctionOnSet(Costing(set), S)
  BY <1>1, <1>3, SumSame
<1> QED
  BY <1>1, <1>2, <1>4

LEMMA CostingFacts ==
    ASSUME NEW set, \A n \in DOMAIN set : set[n].cost \in Nat
    PROVE  \A n \in DOMAIN set : Costing(set)[n] = set[n].cost /\ Costing(set)[n] \in Int
BY DEF Costing

\* The rows of a line.
LineRows(set, key) == {n \in DOMAIN set : KeyOf(set[n]) = key}

\* The lines of an invoice are sums over its rows, and so is its total.
LEMMA InvoiceSums ==
    ASSUME NEW set, IsFiniteSet(DOMAIN set), \A n \in DOMAIN set : set[n].cost \in Nat,
           NEW lines, lines = BuildInvoice(set)
    PROVE  /\ DOMAIN lines = {KeyOf(set[n]) : n \in DOMAIN set}
           /\ \A key \in DOMAIN lines :
                 lines[key] = SumFunctionOnSet(Costing(set), LineRows(set, key))
           /\ Total(lines) = SumFunctionOnSet(Costing(set), DOMAIN set)
<1> DEFINE K == {KeyOf(set[n]) : n \in DOMAIN set}
           part == [key \in K |-> LineRows(set, key)]
<1>1. DOMAIN lines = K /\ \A key \in K : lines[key] = SumOver(set, part[key])
  BY DEF BuildInvoice, SumOver, LineRows
<1>2. \A key \in K : part[key] \in SUBSET DOMAIN set
  BY DEF LineRows
<1>3. \A key \in K : lines[key] = SumFunctionOnSet(Costing(set), part[key])
  <2> HIDE DEF part, K
  <2> QED
    BY <1>1, <1>2, SumOverRows
<1>4. IsFiniteSet(K)
  <2> DEFINE key == [n \in DOMAIN set |-> KeyOf(set[n])]
  <2>1. key \in Surjection(DOMAIN set, K)
    BY DEF Surjection
  <2> HIDE DEF key, K
  <2> QED
    BY <2>1, FS_Surjection
<1>5. /\ \A key \in K : part[key] \subseteq DOMAIN set
      /\ \A n \in DOMAIN set : \E key \in K : n \in part[key]
      /\ \A j, key \in K : j # key => part[j] \cap part[key] = {}
  BY DEF LineRows
<1>6. \A n \in DOMAIN set : Costing(set)[n] \in Int
  BY CostingFacts
<1>7. SumFunctionOnSet(lines, K) = SumFunctionOnSet(Costing(set), DOMAIN set)
  <2> HIDE DEF part, K
  <2> QED
    BY <1>3, <1>4, <1>5, <1>6, SumParts
<1>8. Total(lines) = SumFunctionOnSet(lines, K)
  BY <1>1, TotalIsSum
<1> QED
  BY <1>1, <1>3, <1>7, <1>8

\* The classes of a reconciliation run are disjoint and hold every row of its set.
LEMMA ClassesAddUp ==
    ASSUME NEW set, IsFiniteSet(DOMAIN set), \A n \in DOMAIN set : set[n].cost \in Nat
    PROVE  SumOver(set, Matched(set)) + SumOver(set, OrphanClient(set))
               + SumOver(set, Estimated(set)) + SumOver(set, Unattributed(set))
           = SumFunctionOnSet(Costing(set), DOMAIN set)
<1> DEFINE M == Matched(set)
           O == OrphanClient(set)
           E == Estimated(set)
           U == Unattributed(set)
           MO == M \cup O
           MOE == MO \cup E
           f == Costing(set)
<1>1. /\ M \in SUBSET DOMAIN set /\ O \in SUBSET DOMAIN set
      /\ E \in SUBSET DOMAIN set /\ U \in SUBSET DOMAIN set
  BY DEF Matched, OrphanClient, Estimated, Unattributed, Measured
<1>2. M \cap O = {} /\ MO \cap E = {} /\ MOE \cap U = {} /\ MOE \cup U = DOMAIN set
  BY DEF Matched, OrphanClient, Estimated, Unattributed, Measured
<1>3. MO \in SUBSET DOMAIN set /\ MOE \in SUBSET DOMAIN set
  BY <1>1
<1> HIDE DEF M, O, E, U
<1>4. \A S \in SUBSET DOMAIN set : /\ SumOver(set, S) = SumFunctionOnSet(f, S)
                                    /\ IsFiniteSet(S) /\ SumFunctionOnSet(f, S) \in Int
  <2>1. SUFFICES ASSUME NEW S \in SUBSET DOMAIN set
                 PROVE  /\ SumOver(set, S) = SumFunctionOnSet(f, S)
                        /\ IsFiniteSet(S) /\ SumFunctionOnSet(f, S) \in Int
    OBVIOUS
  <2>2. SumOver(set, S) = SumFunctionOnSet(f, S) /\ IsFiniteSet(S)
    BY SumOverRows
  <2>3. \A n \in S : f[n] \in Int
    BY CostingFacts
  <2>4. SumFunctionOnSet(f, S) \in Int
    BY <2>2, <2>3, SumType
  <2> QED
    BY <2>2, <2>4
<1>5. \A n \in DOMAIN set : f[n] \in Int
  BY CostingFacts
<1> HIDE DEF f
<1>6. SumFunctionOnSet(f, MO) = SumFunctionOnSet(f, M) + SumFunctionOnSet(f, O)
  <2>1. \A n \in M \cup O : f[n] \in Int
    BY <1>1, <1>5
  <2> QED
    BY <1>1, <1>2, <1>4, <2>1, SumUnion
<1>7. SumFunctionOnSet(f, MOE) = SumFunctionOnSet(f, MO) + SumFunctionOnSet(f, E)
  <2>1. \A n \in MOE : f[n] \in Int
    BY <1>3, <1>5
  <2> HIDE DEF MO
  <2> QED
    BY <1>1, <1>2, <1>3, <1>4, <2>1, SumUnion
<1>8. SumFunctionOnSet(f, DOMAIN set) = SumFunctionOnSet(f, MOE) + SumFunctionOnSet(f, U)
  <2> HIDE DEF MOE
  <2>1. SumFunctionOnSet(f, MOE \cup U) = SumFunctionOnSet(f, MOE) + SumFunctionOnSet(f, U)
    BY <1>1, <1>2, <1>3, <1>4, <1>5, SumUnion
  <2> QED
    BY <1>2, <2>1
<1>9. /\ SumFunctionOnSet(f, M) \in Int /\ SumFunctionOnSet(f, O) \in Int
      /\ SumFunctionOnSet(f, E) \in Int /\ SumFunctionOnSet(f, U) \in Int
  BY <1>1, <1>4
<1> QED
  <2>1. SumOver(set, M) + SumOver(set, O) + SumOver(set, E) + SumOver(set, U)
            = SumFunctionOnSet(f, DOMAIN set)
    BY <1>1, <1>4, <1>6, <1>7, <1>8, <1>9
  <2> QED
    BY <2>1 DEF M, O, E, U, f

-----------------------------------------------------------------------------
(* What is billed.                                                         *)

LEMMA ClientSetRows ==
    ASSUME BillingInv, NEW i \in DOMAIN periods
    PROVE  /\ IsFiniteSet(DOMAIN ClientSet(i))
           /\ \A n \in DOMAIN ClientSet(i) :
                 /\ n \in DOMAIN costRows /\ n <= periods[i].mark
                 /\ ClientSet(i)[n] = costRows[n] /\ costRows[n].cost \in Nat
                 /\ PayerOf[costRows[n].client] = periods[i].payer
           /\ periods[i].lines = BuildInvoice(ClientSet(i))
           /\ periods[i].total = Total(periods[i].lines)
<1>1. Len(costRows) \in Nat /\ DOMAIN costRows = 1..Len(costRows)
      /\ \A n \in 1..Len(costRows) : costRows[n] \in CostRow
  BY LenProperties DEF BillingInv, RowsTyped
<1>2. \A n \in DOMAIN costRows : costRows[n].cost \in Nat
  BY <1>1 DEF CostRow
<1>3. \A n \in DOMAIN ClientSet(i) :
          /\ n \in DOMAIN costRows /\ n <= periods[i].mark
          /\ ClientSet(i)[n] = costRows[n]
          /\ PayerOf[costRows[n].client] = periods[i].payer
  BY DEF ClientSet, WindowRows
<1>4. IsFiniteSet(DOMAIN ClientSet(i))
  <2>1. DOMAIN ClientSet(i) \subseteq 1..Len(costRows) /\ IsFiniteSet(1..Len(costRows))
    BY <1>1, <1>3, FS_Interval
  <2> QED
    BY <2>1, FS_Subset
<1>5. i \in 1..Len(periods)
  BY SequenceFacts DEF BillingInv, PeriodsTyped
<1> QED
  BY <1>2, <1>3, <1>4, <1>5 DEF BillingInv, LinesOfWindow

\* The lines and the total of a close, as sums over its window.
LEMMA CloseSums ==
    ASSUME BillingInv, NEW i \in DOMAIN periods
    PROVE  /\ \A k \in DOMAIN periods[i].lines :
                 periods[i].lines[k] = SumFunctionOnSet(Costing(ClientSet(i)), LineRows(ClientSet(i), k))
           /\ periods[i].total = SumFunctionOnSet(Costing(ClientSet(i)), DOMAIN ClientSet(i))
<1> DEFINE set == ClientSet(i)
           lines == periods[i].lines
<1>1. /\ IsFiniteSet(DOMAIN set) /\ \A n \in DOMAIN set : set[n].cost \in Nat
      /\ lines = BuildInvoice(set) /\ periods[i].total = Total(lines)
  BY ClientSetRows
<1> HIDE DEF set, lines
<1>2. /\ DOMAIN lines = {KeyOf(set[n]) : n \in DOMAIN set}
      /\ \A k \in DOMAIN lines : lines[k] = SumFunctionOnSet(Costing(set), LineRows(set, k))
      /\ Total(lines) = SumFunctionOnSet(Costing(set), DOMAIN set)
  BY <1>1, InvoiceSums
<1> QED
  BY <1>1, <1>2 DEF set, lines

ClosesOf(c)    == {i \in DOMAIN periods : periods[i].payer = PayerOf[c]}
LineOf(c, m)   == [client |-> c, original |-> m]
LinedIn(c, m)  == {i \in ClosesOf(c) : LineOf(c, m) \in DOMAIN periods[i].lines}
BilledOf(c, m) == {n \in RowsOf(c, m) : \E i \in ClosesOf(c) : n <= periods[i].mark}
LineTotals(c, m)  == [i \in LinedIn(c, m) |-> periods[i].lines[LineOf(c, m)]]
BilledCosts(c, m) == [n \in BilledOf(c, m) |-> costRows[n].cost]

\* The lines of a strategy and month of use add up to its billed rows.
LEMMA LinesAddUp ==
    ASSUME BillingInv, NEW c \in Clients, NEW m \in Months
    PROVE  Total(LineTotals(c, m)) = Total(BilledCosts(c, m))
<1> DEFINE closes == ClosesOf(c)
           key    == LineOf(c, m)
           lined  == LinedIn(c, m)
           billed == BilledOf(c, m)
           f == BilledCosts(c, m)
           g == LineTotals(c, m)
           part == [i \in lined |-> {n \in DOMAIN ClientSet(i) : KeyOf(ClientSet(i)[n]) = key}]
<1>0. /\ closes = {i \in DOMAIN periods : periods[i].payer = PayerOf[c]}
      /\ key = [client |-> c, original |-> m]
      /\ lined = {i \in closes : key \in DOMAIN periods[i].lines}
      /\ billed = {n \in RowsOf(c, m) : \E i \in closes : n <= periods[i].mark}
      /\ f = [n \in billed |-> costRows[n].cost]
      /\ g = [i \in lined |-> periods[i].lines[key]]
  BY DEF ClosesOf, LineOf, LinedIn, BilledOf, LineTotals, BilledCosts
<1> HIDE DEF closes, key, lined, billed, f, g
<1>1. /\ Len(costRows) \in Nat /\ DOMAIN costRows = 1..Len(costRows)
      /\ Len(periods) \in Nat /\ DOMAIN periods = 1..Len(periods)
      /\ \A n \in 1..Len(costRows) : costRows[n] \in CostRow
  BY SequenceFacts, LenProperties DEF BillingInv, RowsTyped, PeriodsTyped
<1>2. IsFiniteSet(billed) /\ IsFiniteSet(lined)
  <2>1. billed \subseteq 1..Len(costRows) /\ lined \subseteq 1..Len(periods)
    BY <1>0, <1>1 DEF RowsOf
  <2>2. IsFiniteSet(1..Len(costRows)) /\ IsFiniteSet(1..Len(periods))
    BY <1>1, FS_Interval
  <2> QED
    BY <2>1, <2>2, FS_Subset
<1>3. \A n \in billed : f[n] = costRows[n].cost /\ f[n] \in Int
  BY <1>0, <1>1 DEF RowsOf, CostRow
<1>4. \A i \in lined : i \in DOMAIN periods /\ periods[i].payer = PayerOf[c]
  BY <1>0
<1>5. \A n \in DOMAIN costRows : KeyOf(costRows[n]) = key <=> n \in RowsOf(c, m)
  BY <1>0 DEF KeyOf, RowsOf
<1>6. \A i \in lined : part[i] \subseteq billed
  <2>1. SUFFICES ASSUME NEW i \in lined, NEW n \in DOMAIN ClientSet(i), KeyOf(ClientSet(i)[n]) = key
                 PROVE  n \in billed
    OBVIOUS
  <2>2. n \in DOMAIN costRows /\ n <= periods[i].mark /\ ClientSet(i)[n] = costRows[n]
    BY <1>4, ClientSetRows
  <2> QED
    BY <1>0, <1>4, <1>5, <2>1, <2>2
<1>7. \A n \in billed : \E i \in lined : n \in part[i]
  <2>1. SUFFICES ASSUME NEW n \in billed PROVE \E i \in lined : n \in part[i]
    OBVIOUS
  <2>2. PICK i \in closes : n <= periods[i].mark
    BY <1>0
  <2>3. n \in 1..periods[i].mark /\ PayerOf[costRows[n].client] = periods[i].payer
        /\ i \in 1..Len(periods)
    BY <1>0, <1>1, <2>2 DEF RowsOf, BillingInv, PeriodsTyped
  <2>4. PICK j \in 1..i : periods[j].payer = periods[i].payer /\ n \in DOMAIN ClientSet(j)
    BY <2>3 DEF BillingInv, BilledByThen
  <2>5. j \in closes /\ j \in DOMAIN periods
    BY <1>0, <1>1, <2>2, <2>3, <2>4
  <2>6. KeyOf(ClientSet(j)[n]) = key
    BY <1>0, <1>5, <2>4, <2>5, ClientSetRows
  <2>7. key \in DOMAIN periods[j].lines
    <3> DEFINE set == ClientSet(j)
    <3>1. periods[j].lines = BuildInvoice(set) /\ n \in DOMAIN set /\ KeyOf(set[n]) = key
      BY <2>4, <2>5, <2>6, ClientSetRows
    <3> HIDE DEF set
    <3>2. DOMAIN BuildInvoice(set) = {KeyOf(set[x]) : x \in DOMAIN set}
      BY DEF BuildInvoice
    <3> QED
      BY <3>1, <3>2
  <2>8. j \in lined
    BY <1>0, <2>5, <2>7
  <2> QED
    BY <2>4, <2>6, <2>8
<1>8. \A i, j \in lined : i # j => part[i] \cap part[j] = {}
  <2>1. SUFFICES ASSUME NEW i \in lined, NEW j \in lined, i # j, NEW n,
                        n \in DOMAIN ClientSet(i), n \in DOMAIN ClientSet(j)
                 PROVE  FALSE
    OBVIOUS
  <2>2. i < j \/ j < i
    BY <1>1, <1>4, <2>1
  <2> QED
    BY <1>4, <2>1, <2>2, WindowsDisjoint
<1>9. \A i \in lined : g[i] = SumFunctionOnSet(f, part[i])
  <2>1. SUFFICES ASSUME NEW i \in lined PROVE g[i] = SumFunctionOnSet(f, part[i])
    OBVIOUS
  <2> DEFINE set == ClientSet(i)
             P == part[i]
  <2>2. /\ IsFiniteSet(DOMAIN set) /\ \A n \in DOMAIN set : set[n] = costRows[n] /\ set[n].cost \in Nat
        /\ periods[i].lines = BuildInvoice(set) /\ key \in DOMAIN periods[i].lines
    BY <1>0, <1>4, <2>1, ClientSetRows
  <2>3. P = LineRows(set, key) /\ P \subseteq billed /\ P \subseteq DOMAIN set
    BY <1>6 DEF LineRows
  <2>4. g[i] = periods[i].lines[key]
    BY <1>0
  <2> HIDE DEF P, part, set
  <2>5. periods[i].lines[key] = SumFunctionOnSet(Costing(set), P)
    BY <1>4, <2>2, <2>3, CloseSums DEF set
  <2>6. \A n \in P : Costing(set)[n] = f[n]
    BY <1>3, <2>2, <2>3, CostingFacts
  <2>7. IsFiniteSet(P)
    BY <2>2, <2>3, FS_Subset
  <2>8. SumFunctionOnSet(Costing(set), P) = SumFunctionOnSet(f, P)
    BY <2>6, <2>7, SumSame
  <2> QED
    BY <2>4, <2>5, <2>8 DEF P
<1>10. DOMAIN f = billed /\ DOMAIN g = lined
  BY <1>0
<1> HIDE DEF part
<1>11. \A n \in billed : f[n] \in Int
  BY <1>3
<1>12. SumFunctionOnSet(g, lined) = SumFunctionOnSet(f, billed)
  BY ONLY <1>2, <1>6, <1>7, <1>8, <1>9, <1>11, SumParts
<1>13. Total(g) = Total(f)
  BY <1>10, <1>12, TotalIsSum
<1> QED
  BY <1>13 DEF f, g

\* So a run's identity holds.
LEMMA IdentityHolds ==
    ASSUME BillingInv, NEW i \in DOMAIN periods PROVE Identity(i, ClientSet(i))
<1> DEFINE set == ClientSet(i)
<1>1. /\ IsFiniteSet(DOMAIN set) /\ \A n \in DOMAIN set : set[n].cost \in Nat
      /\ periods[i].total = SumFunctionOnSet(Costing(set), DOMAIN set)
  BY ClientSetRows, CloseSums
<1> HIDE DEF set
<1>2. Identity(i, set)
  BY <1>1, ClassesAddUp DEF Identity
<1> QED
  BY <1>2 DEF set

-----------------------------------------------------------------------------
(* The inductive invariant of the sums.                                    *)

LEMMA SpendInvInit == BillingInit => SpendInv
<1> SUFFICES ASSUME BillingInit PROVE SpendInv
  OBVIOUS
<1>1. Posted = {} /\ \A c \in Clients, m \in Months : Reported(c, m) = {} /\ RowsOf(c, m) = {}
  BY EmptySeq DEF BillingInit, Posted, Reported, RowsOf
<1>2. LedgerTyped
  BY <1>1, FS_EmptySet DEF BillingInit, LedgerTyped
<1>3. LedgerSums
  <2>1. SUFFICES ASSUME NEW c \in Clients, NEW m \in Months
                 PROVE  Total(ReportedTokens(c, m)) = 0 /\ Total(RowTokens(c, m)) = 0
    BY DEF BillingInit, LedgerSums
  <2>2. DOMAIN ReportedTokens(c, m) = {} /\ DOMAIN RowTokens(c, m) = {}
    BY <1>1 DEF ReportedTokens, RowTokens
  <2> QED
    BY <2>2, TotalIsSum, SumEmpty
<1>4. RowsReported /\ IdentityStands
  BY EmptySeq DEF BillingInit, RowsReported, IdentityStands
<1> QED
  BY <1>2, <1>3, <1>4, BillingInvInit DEF SpendInv

\* The ledger's sums read only the ledger, the stored traces and the rows.
LEMMA LedgerUnchanged ==
    ASSUME SpendInv, UNCHANGED <<costRows, ingested, budget>>
    PROVE  LedgerTyped' /\ LedgerSums' /\ RowsReported'
<1>1. LedgerTyped'
  BY DEF SpendInv, LedgerTyped, Posted
<1>2. LedgerSums'
  <2>1. ASSUME NEW c \in Clients, NEW m \in Months
        PROVE  /\ ReportedTokens(c, m)' = ReportedTokens(c, m) /\ RowTokens(c, m)' = RowTokens(c, m)
               /\ Total(ReportedTokens(c, m))' = Total(ReportedTokens(c, m)')
               /\ Total(RowTokens(c, m))' = Total(RowTokens(c, m)')
    BY DEF ReportedTokens, RowTokens, Reported, RowsOf
  <2> QED
    BY <2>1 DEF SpendInv, LedgerSums
<1>3. RowsReported'
  BY DEF SpendInv, RowsReported, Reported
<1> QED
  BY <1>1, <1>2, <1>3

LEMMA SpendInvStep == SpendInv /\ [BillingNext]_billingVars => SpendInv'
<1> SUFFICES ASSUME SpendInv, [BillingNext]_billingVars PROVE SpendInv'
  OBVIOUS
<1>1. BillingInv /\ BillingInv'
  BY BillingInvStep DEF SpendInv
<1>2. ASSUME UNCHANGED <<costRows, ingested, budget, audits>> PROVE SpendInv'
  <2>1. IdentityStands'
    BY <1>2 DEF SpendInv, IdentityStands
  <2> QED
    BY <1>1, <1>2, <2>1, LedgerUnchanged DEF SpendInv
<1>3. CASE NextMonth
  BY <1>2, <1>3 DEF NextMonth
<1>4. ASSUME NEW r \in AgentRuns, NEW e \in EnvelopesOf[r], InsertTraceCosts(r, e) PROVE SpendInv'
  <2>1. e.month \in Months /\ ClientOf[r] \in Clients
    BY EnvelopeTokens
  <2>2. LedgerTyped'
    BY <1>4, <2>1, InsertTraceReported DEF SpendInv
  <2>3. IdentityStands'
    BY <1>4 DEF SpendInv, IdentityStands, InsertTraceCosts
  <2> QED
    BY <1>1, <1>4, <2>2, <2>3, InsertTraceSums, InsertTraceRowsReported DEF SpendInv
<1>5. ASSUME NEW batch \in Batches, InsertMeteringRecords(batch) PROVE SpendInv'
  BY <1>2, <1>5 DEF InsertMeteringRecords
<1>6. ASSUME NEW t \in Payers, NEW p \in Months, ClosePeriod(t, p) PROVE SpendInv'
  <2>1. Len(periods) \in Nat /\ Len(audits) = Len(periods)
    BY <1>1, SequenceFacts DEF BillingInv, PeriodsTyped
  <2>2. PICK n \in Nat : n = Len(periods) + 1
    BY <2>1
  <2>3. /\ audits'[n] = Unknown /\ \A i \in 1..Len(audits) : audits'[i] = audits[i]
        /\ PeriodsTyped' /\ Len(periods') = n
    BY <1>1, <1>6, <2>2, ClosePeriodWindow
  <2>4. Len(audits') = n
    BY <2>3 DEF PeriodsTyped
  <2>5. IdentityStands'
    BY <2>1, <2>2, <2>3, <2>4 DEF SpendInv, IdentityStands
  <2>6. LedgerTyped' /\ LedgerSums' /\ RowsReported'
    BY <1>6, LedgerUnchanged DEF ClosePeriod
  <2> QED
    BY <1>1, <2>5, <2>6 DEF SpendInv
<1>7. ASSUME NEW i \in DOMAIN periods, Reconcile(i) PROVE SpendInv'
  <2> DEFINE new == ReconciliationRun(i, ClientSet(i))
  <2>1. audits' = [audits EXCEPT ![i] = new]
    BY <1>7 DEF Reconcile
  <2>2. new.identity = Identity(i, ClientSet(i))
    BY DEF ReconciliationRun
  <2>3. new.identity
    BY <1>1, <2>2, IdentityHolds
  <2> HIDE DEF new
  <2>4. IsSequence(audits) /\ i \in 1..Len(audits)
    BY <1>1, SequenceFacts DEF BillingInv, PeriodsTyped
  <2>5. Len(audits') = Len(audits) /\ \A j \in 1..Len(audits) : audits'[j] = IF j = i THEN new ELSE audits[j]
    BY <2>1, <2>4, ExceptSequence
  <2>6. IdentityStands'
    BY <2>3, <2>5 DEF SpendInv, IdentityStands
  <2>7. LedgerTyped' /\ LedgerSums' /\ RowsReported'
    BY <1>7, LedgerUnchanged DEF Reconcile
  <2> QED
    BY <1>1, <2>6, <2>7 DEF SpendInv
<1>8. CASE UNCHANGED billingVars
  BY <1>2, <1>8 DEF billingVars
<1> QED
  BY <1>3, <1>4, <1>5, <1>6, <1>7, <1>8 DEF BillingNext

\* The ledger, the rows and what the traces report agree for every strategy and month,
\* and every run that was made found its identity to hold (InsertTrace, Reconcile).
THEOREM SpendInvariant == BillingSpec => []SpendInv
BY SpendInvInit, SpendInvStep, PTL DEF BillingSpec

LEMMA SpendIsRecorded == SpendInv => SpendRecorded
<1> SUFFICES ASSUME SpendInv PROVE SpendRecorded
  OBVIOUS
<1>1. ASSUME NEW c \in Clients, NEW m \in Months PROVE SpentIn(c, m)
  <2>1. Total(LineTotals(c, m)) = Total(BilledCosts(c, m))
    BY LinesAddUp DEF SpendInv
  <2>2. /\ budget[<<c, m>>] = Total([r \in Reported(c, m) |-> Total(Tokens(ingested[r].costs))])
        /\ budget[<<c, m>>] = Total([n \in RowsOf(c, m) |-> costRows[n].tokens])
    BY DEF SpendInv, LedgerSums, ReportedTokens, RowTokens
  <2> QED
    BY <2>1, <2>2 DEF SpentIn, RowsOf, LineTotals, BilledCosts, LinedIn, BilledOf, ClosesOf, LineOf
<1>2. ASSUME NEW c \in Clients, NEW m \in Months, Reported(c, m) = {} PROVE budget[<<c, m>>] = 0
  <2>1. DOMAIN ReportedTokens(c, m) = {}
    BY <1>2 DEF ReportedTokens
  <2>2. Total(ReportedTokens(c, m)) = 0
    BY <2>1, TotalIsSum, SumEmpty
  <2> QED
    BY <2>2 DEF SpendInv, LedgerSums
<1> QED
  BY <1>1, <1>2 DEF SpendRecorded, SpendInv, RowsReported

\* Spend is accounted for through any order of traces, exports, closes and runs: the
\* ledger and the rows hold what traces report, also under an id that is taken, lines of
\* the month of use add up to the billed rows, every reconciliation run's identity holds
\* and no match is taken back (insertModelCost, buildInvoice, Reconcile).
THEOREM SpendIsAccounted == BillingSpec => SpendAccounted
<1> DEFINE Held == \A i \in DOMAIN audits : audits'[i] # Unknown => audits'[i].identity
<1>1. ASSUME SpendInv, SpendInv', [BillingNext]_billingVars PROVE [Held]_billingVars
  <2>1. DOMAIN audits = 1..Len(audits) /\ Len(audits) \in Nat
        /\ Len(audits') \in Nat
    BY <1>1, SequenceFacts DEF SpendInv, BillingInv, PeriodsTyped
  <2>2. CASE UNCHANGED billingVars
    BY <2>2
  <2>3. ASSUME Len(audits) <= Len(audits') PROVE Held
    BY <1>1, <2>1, <2>3 DEF SpendInv, IdentityStands
  <2>4. ASSUME UNCHANGED audits PROVE Held
    BY <2>1, <2>3, <2>4
  <2>5. CASE NextMonth
    BY <2>4, <2>5 DEF NextMonth
  <2>6. CASE \E r \in AgentRuns : \E e \in EnvelopesOf[r] : InsertTraceCosts(r, e)
    BY <2>4, <2>6 DEF InsertTraceCosts
  <2>7. CASE \E batch \in Batches : InsertMeteringRecords(batch)
    BY <2>4, <2>7 DEF InsertMeteringRecords
  <2>8. ASSUME NEW t \in Payers, NEW p \in Months, ClosePeriod(t, p) PROVE Held
    <3>1. IsSequence(audits) /\ audits' = Append(audits, Unknown)
      BY <1>1, <2>8 DEF SpendInv, BillingInv, PeriodsTyped, ClosePeriod
    <3>2. Len(audits') = Len(audits) + 1
      BY <3>1, AppendedSequence
    <3> QED
      BY <2>1, <2>3, <3>2
  <2>9. ASSUME NEW i \in DOMAIN periods, Reconcile(i) PROVE Held
    <3>1. IsSequence(audits) /\ i \in 1..Len(audits)
      BY <1>1, SequenceFacts DEF SpendInv, BillingInv, PeriodsTyped
    <3>2. Len(audits') = Len(audits)
      BY <2>9, <3>1, ExceptSequence DEF Reconcile
    <3> QED
      BY <2>1, <2>3, <3>2
  <2> QED
    BY <1>1, <2>2, <2>5, <2>6, <2>7, <2>8, <2>9 DEF BillingNext
<1>2. BillingSpec => []SpendRecorded
  BY SpendInvariant, SpendIsRecorded, PTL
<1>3. BillingSpec => [][Held]_billingVars
  BY <1>1, SpendInvariant, PTL DEF BillingSpec
<1> QED
  BY <1>2, <1>3, MatchesNeverTakenBack, PTL DEF SpendAccounted, AuditsStand

=============================================================================
