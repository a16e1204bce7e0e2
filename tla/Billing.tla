------------------------------ MODULE Billing ------------------------------
(***************************************************************************)
(* Billing (store/trace.go, store/billing.go, store/reconcile.go): the     *)
(* costs of the language-model calls that traces report become model_costs *)
(* rows; closing a tenant's month bills the rows between two watermarks on *)
(* the implicit rowid; a reconciliation run compares such a window with    *)
(* the export of the gateway.  Each operation is one transaction, so what  *)
(* can go wrong lies in their order: months are closed in any order, late  *)
(* or twice, traces arrive late or again, and exports arrive before or     *)
(* after the rows that they are to confirm.                                *)
(***************************************************************************)
EXTENDS Integers, Sequences, FiniteSets, Functions

CONSTANTS
    Payers,         \* tenants
    Clients,        \* strategies
    PayerOf,        \* strategies.tenant_id
    Calls,          \* request ids of model calls
    NoCall,         \* request_id NULL
    AgentRuns,      \* runs
    EnvelopesOf,    \* per run, the trace envelopes it may post (IsEnvelope)
    ClientOf,       \* the strategy of a run
    Exports,        \* rows of the gateway's export (IsExport)
    Unknown,        \* an absent row
    MaxMonth,       \* bound: UTC months
    MaxClose,       \* bound: closed periods
    MaxAudit        \* bound: reconciliation runs

Months == 1..MaxMonth
Costs  == [call : Calls \cup {NoCall}, estimated : BOOLEAN, tokens : Nat, cost : Nat]

\* month: of started_at; the day of the ledger is coarsened to it.
IsEnvelope(e) ==
    /\ e.month \in Months
    /\ e.costs \in Seq(Costs)

IsExport(x) ==
    /\ x.call \in Calls /\ x.client \in Clients
    /\ x.month \in Months /\ x.tokens \in Nat /\ x.cost \in Nat

ASSUME BillingAssumption ==
    /\ PayerOf \in [Clients -> Payers] /\ ClientOf \in [AgentRuns -> Clients]
    /\ NoCall \notin Calls
    /\ \A r \in AgentRuns : \A e \in EnvelopesOf[r] : IsEnvelope(e) /\ e # Unknown
    /\ \A x \in Exports : IsExport(x) /\ x # Unknown
    /\ MaxMonth \in Nat /\ MaxClose \in Nat /\ MaxAudit \in Nat

VARIABLES
    costRows,       \* model_costs by rowid, with the month of the row's trace
    ingested,       \* agent_traces: the envelope stored for a run
    budget,         \* token_budget_ledger
    metered,        \* metering_records by request id
    periods,        \* billing_periods by rowid, each with its invoice
    audits,         \* the newest reconciliation_runs row of each period
    audited,        \* their number
    month           \* the current month

billingVars == <<costRows, ingested, budget, metered, periods, audits, audited, month>>

CostRow == [call : Calls \cup {NoCall}, estimated : BOOLEAN, tokens : Nat, cost : Nat,
            client : Clients, month : Months]

\* original: the month of a carry_over line, or the period itself.
LineKey == [client : Clients, original : Months]

BillingTypeOK ==
    /\ costRows \in Seq(CostRow)
    /\ \A r \in AgentRuns : ingested[r] \in EnvelopesOf[r] \cup {Unknown}
    /\ budget \in [Clients \X Months -> Nat]
    /\ metered \in [Calls -> Exports \cup {Unknown}]
    /\ \A i \in DOMAIN periods :
          /\ periods[i].payer \in Payers /\ periods[i].period \in Months
          /\ periods[i].mark \in 0..Len(costRows)
          /\ DOMAIN periods[i].lines \subseteq LineKey
    /\ DOMAIN audits = DOMAIN periods
    /\ month \in 1..(MaxMonth + 1) /\ audited \in 0..MaxAudit

BillingInit ==
    /\ costRows = <<>> /\ periods = <<>> /\ audits = <<>>
    /\ ingested = [r \in AgentRuns |-> Unknown]
    /\ budget = [k \in Clients \X Months |-> 0]
    /\ metered = [c \in Calls |-> Unknown]
    /\ audited = 0 /\ month = 1

\* Exact sums of a function's values.
Total(f) == SumFunction(f)

Costing(f) == [n \in DOMAIN f |-> f[n].cost]
Tokens(f)  == [n \in DOMAIN f |-> f[n].tokens]

NextMonth ==
    /\ month <= MaxMonth
    /\ month' = month + 1
    /\ UNCHANGED <<costRows, ingested, budget, metered, periods, audits, audited>>

-----------------------------------------------------------------------------
(* Ingestion: the trace of a run, and the export of the gateway.           *)

\* The unique index on request_id has the id of an earlier row, or of an earlier
\* entry of the same envelope.
IdTaken(e, k) ==
    \/ \E n \in DOMAIN costRows : costRows[n].call = e.costs[k].call
    \/ \E j \in 1..(k - 1) : e.costs[j].call = e.costs[k].call

\* Faulty: the conflict drops the cost instead of the id.
InsertModelCostDropped(r, e, k) ==
    [call |-> IF IdTaken(e, k) THEN NoCall ELSE e.costs[k].call,
     estimated |-> e.costs[k].estimated,
     tokens |-> IF e.costs[k].call # NoCall /\ IdTaken(e, k) THEN 0 ELSE e.costs[k].tokens,
     cost |-> IF e.costs[k].call # NoCall /\ IdTaken(e, k) THEN 0 ELSE e.costs[k].cost,
     client |-> ClientOf[r], month |-> e.month]

\* Such an entry is stored without its id; its cost counts all the same.
InsertModelCost(r, e, k) ==
    [call |-> IF IdTaken(e, k) THEN NoCall ELSE e.costs[k].call,
     estimated |-> e.costs[k].estimated, tokens |-> e.costs[k].tokens, cost |-> e.costs[k].cost,
     client |-> ClientOf[r], month |-> e.month]

\* A repeated envelope is answered without a write, a rebuilt one refused.
InsertTraceCosts(r, e) ==
    /\ ingested[r] = Unknown
    /\ ingested' = [ingested EXCEPT ![r] = e]
    /\ costRows' = costRows \o [k \in DOMAIN e.costs |-> InsertModelCost(r, e, k)]
    /\ budget' = [budget EXCEPT ![<<ClientOf[r], e.month>>] = @ + Total(Tokens(e.costs))]
    /\ UNCHANGED <<metered, periods, audits, audited, month>>

\* Faulty: an export overwrites what an earlier one said of a call.
InsertMeteringRecordsAnew(batch) ==
    /\ \A x, y \in batch : x.call = y.call => x = y
    /\ metered' = [c \in Calls |->
                      IF \E x \in batch : x.call = c THEN CHOOSE x \in batch : x.call = c ELSE metered[c]]
    /\ UNCHANGED <<costRows, ingested, budget, periods, audits, audited, month>>

\* All of a batch, or nothing when it disagrees with a stored record or itself.
InsertMeteringRecords(batch) ==
    /\ \A x \in batch : metered[x.call] \in {x, Unknown}
    /\ \A x, y \in batch : x.call = y.call => x = y
    /\ metered' = [c \in Calls |->
                      IF \E x \in batch : x.call = c THEN CHOOSE x \in batch : x.call = c ELSE metered[c]]
    /\ UNCHANGED <<costRows, ingested, budget, periods, audits, audited, month>>

-----------------------------------------------------------------------------
(* Closing a period.                                                       *)

HighestOf(S) == CHOOSE m \in S : \A x \in S : x <= m

\* Faulty: the highest watermark of all tenants.
PrevWatermarkOfAll(t, n) ==
    HighestOf({0} \cup {periods[j].mark : j \in {i \in DOMAIN periods : i <= n}})

\* The highest watermark among the first n closes of a tenant: ClosePeriod asks
\* for all of them, Reconcile for those before the close it looks at.
PrevWatermark(t, n) ==
    HighestOf({0} \cup {periods[j].mark : j \in {i \in DOMAIN periods : i <= n /\ periods[i].payer = t}})

\* The tenant's rows in the window, as a function of the rowid.
WindowRows(t, low, high) ==
    [n \in {m \in DOMAIN costRows : low < m /\ m <= high /\ PayerOf[costRows[m].client] = t} |-> costRows[n]]

KeyOf(x) == [client |-> x.client, original |-> x.month]

\* One line per strategy and month of use: usage in the period, else carry_over.
BuildInvoice(window) ==
    [key \in {KeyOf(window[n]) : n \in DOMAIN window} |->
        Total([n \in {m \in DOMAIN window : KeyOf(window[m]) = key} |-> window[n].cost])]

IsClosed(t, p) == \E i \in DOMAIN periods : periods[i].payer = t /\ periods[i].period = p

ClosePeriod(t, p) ==
    /\ p < month /\ Len(periods) < MaxClose
    /\ ~IsClosed(t, p)
    /\ LET lines == BuildInvoice(WindowRows(t, PrevWatermark(t, Len(periods)), Len(costRows)))
       IN periods' = Append(periods, [payer |-> t, period |-> p, mark |-> Len(costRows),
                                      lines |-> lines, total |-> Total(lines)])
    /\ audits' = Append(audits, Unknown)
    /\ UNCHANGED <<costRows, ingested, budget, metered, audited, month>>

-----------------------------------------------------------------------------
(* Reconciliation of a closed period.                                      *)

\* The client set of a run: the window that the close must have seen.
ClientSet(i) == WindowRows(periods[i].payer, PrevWatermark(periods[i].payer, i - 1), periods[i].mark)

\* Every row in the first class that fits.
Unattributed(set) == {n \in DOMAIN set : set[n].call = NoCall}
Estimated(set)    == {n \in DOMAIN set \ Unattributed(set) : set[n].estimated}
Measured(set)     == DOMAIN set \ (Unattributed(set) \cup Estimated(set))
Matched(set)      == {n \in Measured(set) : /\ metered[set[n].call] # Unknown
                                            /\ metered[set[n].call].client = set[n].client}
OrphanClient(set) == Measured(set) \ Matched(set)
Misattributed(set) == {n \in OrphanClient(set) : metered[set[n].call] # Unknown}

TokenMismatch(set) == {n \in Matched(set) : metered[set[n].call].tokens # set[n].tokens}
CostMismatch(set)  == {n \in Matched(set) : metered[set[n].call].cost # set[n].cost}

\* The gateway's records of the period that no row of the set matched.
OrphanGateway(i, set) ==
    {c \in Calls : /\ metered[c] # Unknown
                   /\ PayerOf[metered[c].client] = periods[i].payer
                   /\ metered[c].month = periods[i].period
                   /\ \A n \in Matched(set) : set[n].call # c}

SumOver(set, S) == Total([n \in S |-> set[n].cost])

\* matched + orphan + estimated + unattributed = the invoice's total.
Identity(i, set) ==
    SumOver(set, Matched(set)) + SumOver(set, OrphanClient(set))
        + SumOver(set, Estimated(set)) + SumOver(set, Unattributed(set)) = periods[i].total

\* Token sums per strategy and day of use agree over the matched pairs.
AggregateOK(set) ==
    \A key \in {KeyOf(set[n]) : n \in Matched(set)} :
        LET group == {n \in Matched(set) : KeyOf(set[n]) = key}
        IN Total([n \in group |-> set[n].tokens]) = Total([n \in group |-> metered[set[n].call].tokens])

Passes(i, set) ==
    /\ TokenMismatch(set) = {} /\ Misattributed(set) = {}
    /\ Identity(i, set) /\ AggregateOK(set)

\* The row of a run.
ReconciliationRun(i, set) ==
    [pass |-> Passes(i, set), identity |-> Identity(i, set), matched |-> Matched(set),
     discrepancies |-> Cardinality(Estimated(set)) + Cardinality(Misattributed(set))
         + Cardinality(OrphanClient(set) \ Misattributed(set)) + Cardinality(TokenMismatch(set))
         + Cardinality(CostMismatch(set)) + Cardinality(OrphanGateway(i, set))]

Reconcile(i) ==
    /\ audited < MaxAudit
    /\ audits' = [audits EXCEPT ![i] = ReconciliationRun(i, ClientSet(i))]
    /\ audited' = audited + 1
    /\ UNCHANGED <<costRows, ingested, budget, metered, periods, month>>

-----------------------------------------------------------------------------

Batches == {batch \in SUBSET Exports : Cardinality(batch) \in {1, 2}}

BillingNext ==
    \/ NextMonth
    \/ \E r \in AgentRuns : \E e \in EnvelopesOf[r] : InsertTraceCosts(r, e)
    \/ \E batch \in Batches : InsertMeteringRecords(batch)
    \/ \E t \in Payers, p \in Months : ClosePeriod(t, p)
    \/ \E i \in DOMAIN periods : Reconcile(i)

BillingSpec == BillingInit /\ [][BillingNext]_billingVars

-----------------------------------------------------------------------------
(* Properties.                                                             *)

\* The rows of a tenant up to its newest close are each in exactly one of its
\* windows, whatever the order of the closes and whenever the row arrived ("every
\* row billed exactly once, whatever calendar order the closes run in"); and the
\* window that Reconcile computes later is still the one that was billed.
BilledOnce ==
    /\ \A i, j \in DOMAIN periods :
          \A n \in DOMAIN ClientSet(i) \cap DOMAIN ClientSet(j) : i = j
    /\ \A i \in DOMAIN periods : \A n \in 1..periods[i].mark :
          PayerOf[costRows[n].client] = periods[i].payer
              => \E j \in DOMAIN periods : periods[j].payer = periods[i].payer /\ n \in DOMAIN ClientSet(j)
    /\ \A i \in DOMAIN periods :
          /\ periods[i].lines = BuildInvoice(ClientSet(i))
          /\ periods[i].total = Total(periods[i].lines)

Reported(c, m) == {r \in AgentRuns : ingested[r] # Unknown /\ ClientOf[r] = c /\ ingested[r].month = m}

\* What traces report, also under an id that is taken, is in the ledger and in the
\* rows; and, up to the newest close, in invoice lines of the month of use.
SpentIn(c, m) ==
    LET mine   == {n \in DOMAIN costRows : costRows[n].client = c /\ costRows[n].month = m}
        closes == {i \in DOMAIN periods : periods[i].payer = PayerOf[c]}
        key    == [client |-> c, original |-> m]
        lined  == {i \in closes : key \in DOMAIN periods[i].lines}
        billed == {n \in mine : \E i \in closes : n <= periods[i].mark}
    IN /\ budget[<<c, m>>] = Total([r \in Reported(c, m) |-> Total(Tokens(ingested[r].costs))])
       /\ budget[<<c, m>>] = Total([n \in mine |-> costRows[n].tokens])
       /\ Total([i \in lined |-> periods[i].lines[key]]) = Total([n \in billed |-> costRows[n].cost])

SpendRecorded ==
    /\ \A c \in Clients, m \in Months :
           IF Reported(c, m) = {} THEN budget[<<c, m>>] = 0 ELSE SpentIn(c, m)
    /\ \A n \in DOMAIN costRows : Reported(costRows[n].client, costRows[n].month) # {}

\* A run never takes back a match: neither a later trace nor a later export changes
\* what an earlier run saw of a pair (InsertMeteringRecords, windowRows).
MatchesStand ==
    [][\A i \in DOMAIN audits : audits[i] # Unknown /\ audits'[i] # Unknown =>
           audits[i].matched \subseteq audits'[i].matched]_billingVars

\* And the identity holds on every run.
AuditsStand ==
    /\ MatchesStand
    /\ [][\A i \in DOMAIN audits : audits'[i] # Unknown => audits'[i].identity]_billingVars

\* Both (insertModelCost, buildInvoice, InsertMeteringRecords, Reconcile).
SpendAccounted == []SpendRecorded /\ AuditsStand

=============================================================================
