------------------------- MODULE OrderJournal_proofs -------------------------
(***************************************************************************)
(* Proofs about OrderJournal for every set of orders, every number of      *)
(* attempts and every bound.  IInv is inductive; the safety properties     *)
(* follow from it.  Each of its parts has a lemma that says a step         *)
(* preserves it.  The last section proves that OrderJournal implements     *)
(* AttemptLedger.                                                          *)
(***************************************************************************)
EXTENDS OrderJournal, Sums

-----------------------------------------------------------------------------
(* Operators.                                                              *)

\* recordOrderStatus writes the offered status or keeps the current one.
LEMMA AdvancedStatus ==
    ASSUME NEW cur \in Statuses, NEW s \in Statuses \cup {""}
    PROVE  Advanced(cur, s) \in {cur, s} \cap Statuses
BY DEF Advanced, StatusRank, Statuses, Terminal, NonTerminal

\* localStatus maps into the persisted statuses, and only FILLED to filled.
LEMMA LocalStatusType ==
    ASSUME NEW v \in Views
    PROVE  /\ LocalStatus(v) \in Statuses \cup {""}
           /\ LocalStatus(v) = "filled" => v = "FILLED"
BY DEF LocalStatus, Views, Present, VenueLive, Statuses, Terminal, NonTerminal

\* What a venue call may say of an attempt that the venue has.
LEMMA ReportsType ==
    ASSUME TypeOK, NEW id \in Ids, venue[id] \in Present, NEW r \in Reports(id)
    PROVE  r \in Present /\ (r = "FILLED" => venue[id] = "FILLED")
BY DEF TypeOK, Reports, Present, VenueLive

\* A status write touches one row and writes what was offered or nothing.
LEMMA StatusWrite ==
    ASSUME status \in [Orders -> Statuses], NEW o \in Orders,
           NEW s \in Statuses \cup {""}, RecordOrderStatus(o, s)
    PROVE  /\ status' \in [Orders -> Statuses]
           /\ \A p \in Orders : status'[p] = status[p] \/ (p = o /\ status'[p] = s)
BY AdvancedStatus DEF RecordOrderStatus

\* The journal's id of an order's latest attempt is well formed, and below the
\* ceiling of resolveAmbiguous there is a next attempt digit.
LEMMA AttemptsType ==
    ASSUME TypeOK
    PROVE  /\ 0 \in Attempts
           /\ \A o \in Orders : Latest(o) \in Ids
           /\ \A o \in Orders : att[o] \in Nat /\ (att[o] < MaxAttempt => att[o] + 1 \in Attempts)
BY BoundsAssumption DEF TypeOK, Attempts, Ids, Latest

\* RecordIntentAttempt's attempt + 1 leaves no gap in the attempts before it.
LEMMA BelowNext ==
    ASSUME NEW n \in Nat, NEW a \in Attempts
    PROVE  a < n + 1 => a < n \/ a = n
BY BoundsAssumption DEF Attempts

\* The statuses that the mutators write as literals are persisted statuses.
LEMMA StatusesType ==
    /\ {"rejected", "canceled", "expired", "pending_new"} \subseteq Statuses
    /\ Present \subseteq Views /\ VenueLive \subseteq Present
    /\ "none" \in Views /\ "wire" \notin Views
    /\ {"PARTIALLY_FILLED", "FILLED", "EXPIRED", "CANCELED", "NEW"} \subseteq Present
BY DEF Statuses, Terminal, NonTerminal, Views, Present, VenueLive

\* deriveFillStatus names one of two persisted statuses.
LEMMA FillStatusesType == "filled" \in Statuses /\ "partially_filled" \in Statuses
BY DEF Statuses, Terminal, NonTerminal

\* What R5 does to the fills rows and the statuses when it books more[o] lots of
\* every order's acked attempt.
BackfillOf(more) ==
    /\ \A o \in Orders : more[o] <= Unbooked(o)
    /\ booked' = BookedWith(more)
    /\ status' = [o \in Orders |->
          IF more[o] = 0 THEN status[o]
          ELSE Advanced(status[o], IF Covers(BookedWith(more), o)
                                   THEN "filled" ELSE "partially_filled")]

\* R5 books something or nothing.
LEMMA BackfillBooks ==
    ASSUME Backfill, ~UNCHANGED <<status, booked>>
    PROVE  \E more \in [Orders -> 0..Lots] : BackfillOf(more)
BY DEF Backfill, BackfillOf

\* R5 books no more of an attempt than the venue has executed.
LEMMA BookedWithBounds ==
    ASSUME TypeOK, NEW more \in [Orders -> 0..Lots], \A o \in Orders : more[o] <= Unbooked(o)
    PROVE  \A id \in Ids :
              /\ BookedWith(more)[id] \in Nat
              /\ BookedWith(more)[id] <= booked[id] \/ BookedWith(more)[id] <= executed[id]
<1> SUFFICES ASSUME NEW id \in Ids
             PROVE  /\ BookedWith(more)[id] \in Nat
                    /\ BookedWith(more)[id] <= booked[id] \/ BookedWith(more)[id] <= executed[id]
  OBVIOUS
<1>1. id[1] \in Orders /\ id[2] \in Attempts /\ id = <<id[1], id[2]>>
  BY DEF Ids
<1>2. /\ booked[id] \in Nat /\ executed[id] \in Nat /\ more[id[1]] \in Nat
      /\ more[id[1]] <= Unbooked(id[1])
  BY <1>1, BoundsAssumption DEF TypeOK
<1>3. CASE more[id[1]] > 0 /\ id[2] = ack[id[1]]
  <2>1. BookedWith(more)[id] = booked[id] + more[id[1]]
    BY <1>3 DEF BookedWith
  <2>2. Unbooked(id[1]) = executed[id] - booked[id]
    BY <1>1, <1>2, <1>3 DEF Unbooked
  <2> QED BY <1>2, <2>1, <2>2
<1>4. CASE ~(more[id[1]] > 0 /\ id[2] = ack[id[1]])
  BY <1>2, <1>4 DEF BookedWith
<1> QED BY <1>3, <1>4

LEMMA BookedWithType ==
    ASSUME TypeOK, NEW more \in [Orders -> 0..Lots], \A o \in Orders : more[o] <= Unbooked(o)
    PROVE  BookedWith(more) \in [Ids -> 0..Lots]
<1>1. \A id \in Ids : BookedWith(more)[id] \in 0..Lots
  BY BookedWithBounds, BoundsAssumption DEF TypeOK
<1> QED BY <1>1 DEF BookedWith

\* The attempts of one order are finitely many.
LEMMA AttemptsFinite ==
    ASSUME NEW o \in Orders
    PROVE  IsFiniteSet(AttemptsOf(o)) /\ AttemptsOf(o) \subseteq Ids
<1>1. IsFiniteSet({o}) /\ IsFiniteSet(Attempts)
  BY FS_Singleton, FS_Interval, BoundsAssumption DEF Attempts
<1>2. IsFiniteSet(AttemptsOf(o))
  BY <1>1, FS_Product DEF AttemptsOf
<1> QED BY <1>2 DEF AttemptsOf, Ids

\* SUM(fills.qty_base) grows with its summands.
LEMMA CoversGrows ==
    ASSUME NEW f, NEW g, NEW o \in Orders,
           \A id \in Ids : f[id] \in Nat /\ g[id] \in Nat /\ f[id] <= g[id],
           Covers(f, o)
    PROVE  Covers(g, o)
<1> DEFINE S == AttemptsOf(o)
           h == [id \in S |-> g[id] - f[id]]
<1>1. IsFiniteSet(S) /\ S \subseteq Ids
  BY AttemptsFinite
<1>2. \A id \in S : /\ g[id] \in Int /\ f[id] \in Int /\ h[id] \in Int
                     /\ g[id] = f[id] + h[id] /\ h[id] \in Nat /\ f[id] \in Nat
  BY <1>1
<1> HIDE DEF S, h
<1>3. SumFunctionOnSet(g, S) = SumFunctionOnSet(f, S) + SumFunctionOnSet(h, S)
  BY <1>1, <1>2, SumPlus
<1>4. SumFunctionOnSet(f, S) \in Nat /\ SumFunctionOnSet(h, S) \in Nat
  BY <1>1, <1>2, SumType
<1>5. SumFunctionOnSet(f, S) >= Lots
  BY DEF Covers, Total, S
<1>6. SumFunctionOnSet(g, S) >= Lots
  BY <1>3, <1>4, <1>5, BoundsAssumption
<1> QED BY <1>6 DEF Covers, Total, S

\* One attempt filled in full covers its order.
LEMMA FullCovers ==
    ASSUME NEW f, NEW id \in Ids, \A i \in Ids : f[i] \in Nat, f[id] = Lots
    PROVE  Covers(f, id[1])
<1> DEFINE S == AttemptsOf(id[1])
           R == S \ {id}
<1>1. id[1] \in Orders /\ id \in S
  BY DEF Ids, AttemptsOf
<1>2. IsFiniteSet(S) /\ S \subseteq Ids
  BY <1>1, AttemptsFinite
<1>3. IsFiniteSet(R) /\ R \subseteq S
  BY <1>2, FS_Subset
<1>4. /\ \A x \in S : f[x] \in Int
      /\ \A x \in R : f[x] \in Nat
  BY <1>2
<1> HIDE DEF S
<1>5. SumFunctionOnSet(f, S) = f[id] + SumFunctionOnSet(f, R)
  BY <1>1, <1>2, <1>4, SumRemove
<1> HIDE DEF R
<1>6. SumFunctionOnSet(f, R) \in Nat
  BY <1>3, <1>4, SumType
<1>7. SumFunctionOnSet(f, S) >= Lots
  BY <1>5, <1>6, BoundsAssumption
<1> QED BY <1>7 DEF Covers, Total, S

-----------------------------------------------------------------------------
(* Type correctness.  It is inductive only together with PoisonInv: the    *)
(* attempt digit stays in range because of the ceiling in Recheck.         *)

\* Every handler keeps the types; the attempt digit stays in range because of
\* the ceiling in resolveAmbiguous.
LEMMA TypeStep ==
    ASSUME TypeOK, PoisonInv, [Next]_vars
    PROVE  TypeOK'
<1> USE OrdersAssumption, BoundsAssumption
<1>1. CASE UNCHANGED vars
  BY <1>1 DEF vars, TypeOK, rows, intents, kills, trades, memory, sender, recon, sweep, bounds
<1>2. CASE Next
  <2> USE StatusesType DEF TypeOK, rows, intents, kills, trades, memory, sender, recon, sweep, bounds,
          PcLabels, RpcLabels, Ids
  <2>1. ASSUME NEW o \in Orders, Submit(o) PROVE TypeOK'
    BY <2>1 DEF Submit, Goto, OnlyPc, GateOpen, DriveBusy
  <2>2. ASSUME NEW o \in Orders, Stamp(o) PROVE TypeOK'
    BY <2>2 DEF Stamp, Goto
  <2>3. ASSUME NEW o \in Orders, StandingKill(o) PROVE TypeOK'
    BY <2>3 DEF StandingKill, Goto, OnlyPc, ActiveKill
  <2>4. ASSUME NEW o \in Orders, Refuse(o) PROVE TypeOK'
    BY <2>4 DEF Refuse, Goto, OnlyPc
  <2>5. ASSUME NEW o \in Orders, Journal(o) PROVE TypeOK'
    BY <2>5, AttemptsType DEF Journal, Goto
  <2>6. ASSUME NEW o \in Orders, Claim(o) PROVE TypeOK'
    BY <2>6 DEF Claim, Goto, Latest, Claimable
  <2>7. ASSUME NEW o \in Orders, KillCheck(o) PROVE TypeOK'
    BY <2>7 DEF KillCheck, Goto, OnlyPc
  <2>8. ASSUME NEW o \in Orders, Reread(o) PROVE TypeOK'
    BY <2>8 DEF Reread, Goto, OnlyPc, Latest
  <2>9. ASSUME NEW o \in Orders, Place(o) PROVE TypeOK'
    BY <2>9 DEF Place, Goto, Latest
  <2>10. ASSUME NEW o \in Orders, PlaceAcked(o) PROVE TypeOK'
    BY <2>10 DEF PlaceAcked, Goto, Latest, Reports
  <2>11. ASSUME NEW o \in Orders, PlaceRejected(o) PROVE TypeOK'
    BY <2>11 DEF PlaceRejected, Goto, Latest
  <2>12. ASSUME NEW o \in Orders, PlaceThrottled(o) PROVE TypeOK'
    BY <2>12 DEF PlaceThrottled, Goto, Latest, Fault
  <2>13. ASSUME NEW o \in Orders, PlaceAmbiguous(o) PROVE TypeOK'
    BY <2>13 DEF PlaceAmbiguous, Goto, Latest, Fault
  <2>14. ASSUME NEW o \in Orders, QueryFound(o) PROVE TypeOK'
    BY <2>14 DEF QueryFound, Goto, Latest
  <2>15. ASSUME NEW o \in Orders, QueryNotFound(o) PROVE TypeOK'
    BY <2>15 DEF QueryNotFound, Goto, Latest
  <2>16. ASSUME NEW o \in Orders, QueryAmbiguous(o) PROVE TypeOK'
    <3>1. /\ tries' \in [Orders -> Nat] /\ pc' \in [Orders -> PcLabels] /\ faults' \in Nat
          /\ UNCHANGED <<rows, intents, alarmed, kills, trades, memory, stamp, got,
                         recon, sweep, venue, crashes, sweeps, resets>>
      BY <2>16 DEF QueryAmbiguous, Goto, Fault
    <3> QED
      BY <3>1
  <2>17. ASSUME NEW o \in Orders, Recheck(o) PROVE TypeOK'
    BY <2>17 DEF Recheck, Goto, OnlyPc
  <2>18. ASSUME NEW o \in Orders, NextAttempt(o) PROVE TypeOK'
    <3>1. att[o] < MaxAttempt
      BY <2>18 DEF NextAttempt, PoisonInv
    <3> QED
      BY <2>18, <3>1, AttemptsType DEF NextAttempt, Goto
  <2>19. ASSUME NEW o \in Orders, Reject(o) PROVE TypeOK'
    <3>1. status' \in [Orders -> Statuses]
      BY <2>19, StatusWrite DEF Reject
    <3> QED
      BY <2>19, <3>1 DEF Reject, Goto, RecordOrderStatus
  <2>20. ASSUME NEW o \in Orders, AdoptAck(o) PROVE TypeOK'
    BY <2>20 DEF AdoptAck, Goto
  <2>21. ASSUME NEW o \in Orders, AdoptStatus(o) PROVE TypeOK'
    <3>1. got[o] \in Views
      OBVIOUS
    <3>2. status' \in [Orders -> Statuses]
      BY <2>21, <3>1, StatusWrite, LocalStatusType DEF AdoptStatus
    <3> QED
      BY <2>21, <3>2 DEF AdoptStatus, Goto, RecordOrderStatus
  <2>22. ASSUME StartRun PROVE TypeOK'
    BY <2>22 DEF StartRun, Step
  <2>23. ASSUME AcceptReset PROVE TypeOK'
    BY <2>23 DEF AcceptReset, Step
  <2>24. ASSUME LoadFilters PROVE TypeOK'
    BY <2>24 DEF LoadFilters, Fault, Step
  <2>25. ASSUME ListIntents PROVE TypeOK'
    <3>1. \A o \in Orders :
            [id |-> Latest(o), mark |-> Latest(o) \in claimed \ revoked] \in Work
      BY AttemptsType DEF Work
    <3>2. rtodo' \subseteq Work
      BY <2>25, <3>1 DEF ListIntents
    <3> QED
      BY <2>25, <3>2 DEF ListIntents, Step
  <2>26. ASSUME NextIntent PROVE TypeOK'
    BY <2>26 DEF NextIntent, Step, Work
  <2>27. ASSUME QueryIntent PROVE TypeOK'
    BY <2>27 DEF QueryIntent, Fault, Step, Return
  <2>28. ASSUME ReconAck PROVE TypeOK'
    BY <2>28 DEF ReconAck, Step
  <2>29. ASSUME ReconStatus PROVE TypeOK'
    BY <2>29, StatusWrite, LocalStatusType DEF ReconStatus, Return
  <2>30. ASSUME ResolveAbsent PROVE TypeOK'
    BY <2>30, StatusWrite DEF ResolveAbsent, Return
  <2>31. ASSUME SweepOpenOrders PROVE TypeOK'
    <3>1. \A i \in Ids : [id |-> i, mark |-> FALSE] \in Work
      BY DEF Work
    <3>2. rtodo' \subseteq Work
      BY <2>31, <3>1 DEF SweepOpenOrders
    <3>3. seen' \in [Ids -> Views]
      BY <2>31 DEF SweepOpenOrders
    <3> QED
      BY <2>31, <3>2, <3>3 DEF SweepOpenOrders, Fault, Step
  <2>32. ASSUME ClassifyVenueOpen PROVE TypeOK'
    BY <2>32 DEF ClassifyVenueOpen, Latest, Step, Work
  <2>33. ASSUME CancelVenueOrphan PROVE TypeOK'
    BY <2>33 DEF CancelVenueOrphan, CancelAnswered, CancelAmbiguous, Return,
       VenueCancel, Fault
  <2>34. ASSUME ListAbsences PROVE TypeOK'
    <3>1. \A o \in Orders : [id |-> Latest(o), mark |-> ack[o] # NoAck] \in Work
      BY AttemptsType DEF Work
    <3>2. rtodo' \subseteq Work
      BY <2>34, <3>1 DEF ListAbsences
    <3> QED
      BY <2>34, <3>2 DEF ListAbsences, Step
  <2>35. ASSUME AbsenceCheck PROVE TypeOK'
    BY <2>35 DEF AbsenceCheck, Fault, Step, Work
  <2>36. ASSUME FlagVenueReset PROVE TypeOK'
    BY <2>36, StatusWrite DEF FlagVenueReset, Return
  <2>37. ASSUME Backfill PROVE TypeOK'
    <3>1. CASE UNCHANGED <<status, booked>>
      BY <2>37, <3>1 DEF Backfill, Fault, Step
    <3>2. CASE ~UNCHANGED <<status, booked>>
      <4>1. PICK more \in [Orders -> 0..Lots] : BackfillOf(more)
        BY <2>37, <3>2, BackfillBooks
      <4>2. booked' \in [Ids -> 0..Lots]
        BY <4>1, BookedWithType DEF BackfillOf
      <4>3. status' \in [Orders -> Statuses]
        <5>1. \A o \in Orders : status'[o] \in Statuses
          BY <4>1, AdvancedStatus, FillStatusesType DEF BackfillOf
        <5>2. \E f : status' = [o \in Orders |-> f[o]]
          BY <4>1 DEF BackfillOf
        <5> QED BY <5>1, <5>2
      <4> QED
        BY <2>37, <4>2, <4>3 DEF Backfill, Fault, Step
    <3> QED
      BY <3>1, <3>2
  <2>38. ASSUME FinishRun PROVE TypeOK'
    BY <2>38 DEF FinishRun, Step
  <2>39. ASSUME StartSweep PROVE TypeOK'
    <3>1. \A o \in Orders : [id |-> Latest(o), mark |-> status[o] = "pending_new"] \in Work
      BY AttemptsType DEF Work
    <3>2. \A os \in SUBSET Orders : Listed(os) \subseteq Work
      BY <3>1 DEF Listed
    <3>3. wtodo' \subseteq Work
      <4> HIDE DEF TypeOK
      <4>1. /\ Entries \in SUBSET Orders
            /\ \A closing \in Orders : (Orders \ Entries) \ {closing} \in SUBSET Orders
        OBVIOUS
      <4> QED
        BY <2>39, <4>1, <3>2 DEF StartSweep
    <3> QED
      BY <2>39, <3>3 DEF StartSweep
  <2>40. ASSUME SweepNext PROVE TypeOK'
    BY <2>40 DEF SweepNext, Work
  <2>41. ASSUME SweepCancel PROVE TypeOK'
    BY <2>41 DEF SweepCancel, CancelAnswered, CancelAmbiguous, VenueCancel,
       Fault
  <2>42. ASSUME SweepStatus PROVE TypeOK'
    BY <2>42, StatusWrite DEF SweepStatus
  <2>43. ASSUME EndSweep PROVE TypeOK'
    BY <2>43 DEF EndSweep
  <2>44. ASSUME NEW o \in Orders, NEW a \in Attempts, StreamReport(o, a) PROVE TypeOK'
    <3>1. Reports(<<o, a>>) \subseteq Views
      BY <2>44 DEF StreamReport, Reports
    <3>2. status' \in [Orders -> Statuses]
      BY <2>44, <3>1, StatusWrite, LocalStatusType, FillStatusesType DEF StreamReport
    <3>3. ack' \in [Orders -> Attempts \cup {NoAck}]
      BY <2>44 DEF StreamReport
    <3>4. booked' \in [Ids -> 0..Lots]
      <4>1. CASE UNCHANGED booked
        BY <4>1
      <4>2. ASSUME NEW n \in 1..(executed[<<o, a>>] - booked[<<o, a>>]),
                   booked' = [booked EXCEPT ![<<o, a>>] = @ + n]
            PROVE  booked' \in [Ids -> 0..Lots]
        <5>1. /\ executed[<<o, a>>] \in 0..Lots /\ booked[<<o, a>>] \in 0..Lots
              /\ Lots \in Nat
          OBVIOUS
        <5>2. booked[<<o, a>>] + n \in 0..Lots
          BY <5>1
        <5> QED BY <4>2, <5>2
      <4> QED BY <2>44, <4>1, <4>2 DEF StreamReport
    <3> QED
      BY <2>44, <3>2, <3>3, <3>4 DEF StreamReport, RecordOrderStatus
  <2>45. ASSUME NEW id \in Ids, VenueAccept(id) PROVE TypeOK'
    BY <2>45 DEF VenueAccept
  <2>46. ASSUME NEW id \in Ids, VenueLose(id) PROVE TypeOK'
    BY <2>46 DEF VenueLose, Fault
  <2>47. ASSUME NEW id \in Ids, VenueWork(id) PROVE TypeOK'
    BY <2>47 DEF VenueWork, VenueFill, VenueExpire
  <2>48. ASSUME VenueReset PROVE TypeOK'
    BY <2>48 DEF VenueReset
  <2>49. ASSUME Kill PROVE TypeOK'
    BY <2>49 DEF Kill
  <2>50. ASSUME ClearKill PROVE TypeOK'
    BY <2>50 DEF ClearKill, ActiveKill
  <2>51. ASSUME Crash PROVE TypeOK'
    <3>1. pc' \in [Orders -> PcLabels]
      BY <2>51 DEF Crash
    <3>2. tries' \in [Orders -> Nat] /\ got' \in [Orders -> Views] /\ seen' \in [Ids -> Views]
      BY <2>51 DEF Crash
    <3>3. rtodo' \subseteq Work /\ rcur' \subseteq Ids /\ wtodo' \subseteq Work /\ wcur' \subseteq Ids
      BY <2>51 DEF Crash
    <3>4. /\ rpc' \in RpcLabels /\ phase' \in {"r2", "r3", "r4"} /\ rgot' \in Views
          /\ wpc' \in {"idle", "list", "cancel", "status"}
      BY <2>51 DEF Crash
    <3>5. crashes' \in Nat
      BY <2>51 DEF Crash
    <3>6. reconciled' \in BOOLEAN /\ resetPending' \in BOOLEAN /\ started' \in BOOLEAN
      BY <2>51 DEF Crash
    <3>7. UNCHANGED <<rows, intents, alarmed, kills, trades, stamp, venue, faults, sweeps, resets>>
      BY <2>51 DEF Crash
    <3> QED
      BY <3>1, <3>2, <3>3, <3>4, <3>5, <3>6, <3>7
  <2> QED
    BY <1>2, <2>1, <2>2, <2>3, <2>4, <2>5, <2>6, <2>7, <2>8, <2>9, <2>10, <2>11, <2>12, <2>13, <2>14, <2>15, <2>16, <2>17, <2>18, <2>19, <2>20, <2>21, <2>22, <2>23, <2>24, <2>25, <2>26, <2>27, <2>28, <2>29, <2>30, <2>31, <2>32, <2>33, <2>34, <2>35, <2>36, <2>37, <2>38, <2>39, <2>40, <2>41, <2>42, <2>43, <2>44, <2>45, <2>46, <2>47, <2>48, <2>49, <2>50, <2>51 DEF Next, Sender, Reconcile, Sweep, Environment
<1> QED BY <1>1, <1>2

-----------------------------------------------------------------------------
(* Footprints: what the parties other than the senders leave alone.        *)

\* Nothing appears at the venue, and what rests there is at most canceled.
OnlyCanceled ==
    \A id \in Ids :
        venue'[id] = venue[id] \/ (venue[id] \in VenueLive /\ venue'[id] = "CANCELED")

\* A CancelOrder call, answered or not, cancels what rests and nothing else.
LEMMA CancelFootprint ==
    ASSUME TypeOK, NEW id \in Ids, CancelAnswered(id) \/ CancelAmbiguous(id)
    PROVE  OnlyCanceled /\ UNCHANGED <<crashes, sweeps, resets>>
BY DEF TypeOK, CancelAnswered, CancelAmbiguous, VenueCancel, Fault, bounds, OnlyCanceled

\* What a reconcile step can do to the journal: revoke claims and cancel venue
\* orders; it never journals, claims, poisons or sends.
LEMMA ReconcileFootprint ==
    ASSUME TypeOK, StartRun \/ AcceptReset \/ Reconcile
    PROVE  /\ UNCHANGED <<att, journaled, claimed, poisoned, kills, executed, sender, resets>>
           /\ OnlyCanceled
           /\ Backfill \/ UNCHANGED booked
<1> USE DEF rows, intents, kills, trades, memory, sender, recon, sweep, bounds, OnlyCanceled
<1>1. CASE CancelVenueOrphan
  BY <1>1, CancelFootprint DEF CancelVenueOrphan, Return, TypeOK
<1>2. CASE ~CancelVenueOrphan
  BY <1>2 DEF StartRun, AcceptReset, Reconcile, LoadFilters, ListIntents, NextIntent,
     QueryIntent, ReconAck, ReconStatus, ResolveAbsent, SweepOpenOrders,
     ClassifyVenueOpen, ListAbsences, AbsenceCheck, FlagVenueReset, Backfill, FinishRun,
     Fault
<1> QED BY <1>1, <1>2

\* What a sweep step can do to the journal: revoke claims and cancel.
LEMMA SweepFootprint ==
    ASSUME TypeOK, StartSweep \/ Sweep
    PROVE  /\ UNCHANGED <<att, ack, journaled, claimed, poisoned, kills, trades, memory,
                          sender, recon, resets>>
           /\ OnlyCanceled
<1> USE DEF rows, intents, kills, trades, memory, sender, recon, sweep, bounds, OnlyCanceled
<1>1. CASE SweepCancel
  BY <1>1, CancelFootprint DEF SweepCancel, TypeOK
<1>2. CASE ~SweepCancel
  BY <1>2 DEF StartSweep, Sweep, SweepNext, SweepStatus, EndSweep
<1> QED BY <1>1, <1>2

-----------------------------------------------------------------------------
(* Journal before send, and the order of attempts.                         *)

\* Every handler keeps the journal ahead of the claims, the claims ahead of the
\* wire, and a poisoned attempt behind every later one.
LEMMA JournalStep ==
    ASSUME TypeOK, JournalInv, PoisonInv, Next
    PROVE  JournalInv' /\ PoisonInv'
<1> USE AttemptsType, StatusesType DEF TypeOK, JournalInv, PoisonInv, Latest, Ids,
    Unclaimed, Transmitting, Resolved, Adopting,
    rows, intents, kills, trades, memory, sender, recon, sweep, bounds
<1>1. ASSUME NEW o \in Orders, Submit(o) PROVE JournalInv' /\ PoisonInv'
  BY <1>1 DEF Submit, Goto, OnlyPc, GateOpen, DriveBusy
<1>2. ASSUME NEW o \in Orders, Stamp(o) PROVE JournalInv' /\ PoisonInv'
  BY <1>2 DEF Stamp, Goto
<1>3. ASSUME NEW o \in Orders, StandingKill(o) PROVE JournalInv' /\ PoisonInv'
  BY <1>3 DEF StandingKill, Goto, OnlyPc, ActiveKill
<1>4. ASSUME NEW o \in Orders, Refuse(o) PROVE JournalInv' /\ PoisonInv'
  BY <1>4 DEF Refuse, Goto, OnlyPc
<1>5. ASSUME NEW o \in Orders, Journal(o) PROVE JournalInv' /\ PoisonInv'
  BY <1>5, BoundsAssumption DEF Journal, Goto, Attempts
<1>6. ASSUME NEW o \in Orders, Claim(o) PROVE JournalInv' /\ PoisonInv'
  <2>1. /\ UNCHANGED <<att, journaled, poisoned, venue>> /\ pc[o] = "claim"
        /\ \A p \in Orders \ {o} : pc'[p] = pc[p]
    BY <1>6 DEF Claim, Goto
  <2>2. CASE Claimable(Latest(o)) /\ claimed' = claimed \cup {Latest(o)} /\ pc'[o] = "kill"
    <3>1. JournalInv'
      <4>1. claimed \subseteq claimed' /\ claimed' \subseteq journaled'
        <5>1. claimed' = claimed \cup {Latest(o)} /\ Latest(o) \in journaled /\ journaled' = journaled
          BY <2>1, <2>2 DEF Claimable
        <5>2. claimed \subseteq journaled
          OBVIOUS
        <5> HIDE DEF JournalInv, PoisonInv, TypeOK
        <5> QED BY <5>1, <5>2, Zenon
      <4>2. \A id \in Ids : venue'[id] # "none" => id \in claimed'
        BY <2>1, <4>1
      <4>3. ASSUME NEW p \in Orders,
                   pc'[p] \in Transmitting \cup Resolved \cup Adopting
            PROVE  Latest(p)' \in claimed'
        BY <2>1, <2>2, <4>1, <4>3
      <4>4. \A id \in journaled' :
              /\ id[2] <= att'[id[1]]
              /\ \A a \in Attempts : a < id[2] => <<id[1], a>> \in poisoned'
        BY <2>1
      <4> QED BY <4>1, <4>2, <4>3, <4>4
    <3>2. PoisonInv'
      BY <2>1, <2>2 DEF Claimable
    <3> QED BY <3>1, <3>2
  <2>3. CASE UNCHANGED claimed /\ pc'[o] = "done"
    BY <2>1, <2>3
  <2>4. \/ Claimable(Latest(o)) /\ claimed' = claimed \cup {Latest(o)} /\ pc'[o] = "kill"
        \/ UNCHANGED claimed /\ pc'[o] = "done"
    BY <1>6 DEF Claim, Goto
  <2> QED BY <2>2, <2>3, <2>4
<1>7. ASSUME NEW o \in Orders, KillCheck(o) PROVE JournalInv' /\ PoisonInv'
  BY <1>7 DEF KillCheck, Goto, OnlyPc
<1>8. ASSUME NEW o \in Orders, Reread(o) PROVE JournalInv' /\ PoisonInv'
  BY <1>8 DEF Reread, Goto, OnlyPc
<1>9. ASSUME NEW o \in Orders, Place(o) PROVE JournalInv' /\ PoisonInv'
  BY <1>9 DEF Place, Goto
<1>10. ASSUME NEW o \in Orders, PlaceAcked(o) PROVE JournalInv' /\ PoisonInv'
  BY <1>10 DEF PlaceAcked, Goto, Reports
<1>11. ASSUME NEW o \in Orders, PlaceRejected(o) PROVE JournalInv' /\ PoisonInv'
  BY <1>11 DEF PlaceRejected, Goto
<1>12. ASSUME NEW o \in Orders, PlaceThrottled(o) PROVE JournalInv' /\ PoisonInv'
  BY <1>12 DEF PlaceThrottled, Goto, Fault
<1>13. ASSUME NEW o \in Orders, PlaceAmbiguous(o) PROVE JournalInv' /\ PoisonInv'
  BY <1>13 DEF PlaceAmbiguous, Goto, Fault
<1>14. ASSUME NEW o \in Orders, QueryFound(o) PROVE JournalInv' /\ PoisonInv'
  BY <1>14 DEF QueryFound, Goto
<1>15. ASSUME NEW o \in Orders, QueryNotFound(o) PROVE JournalInv' /\ PoisonInv'
  BY <1>15 DEF QueryNotFound, Goto
<1>16. ASSUME NEW o \in Orders, QueryAmbiguous(o) PROVE JournalInv' /\ PoisonInv'
  BY <1>16 DEF QueryAmbiguous, Goto, Fault
<1>17. ASSUME NEW o \in Orders, Recheck(o) PROVE JournalInv' /\ PoisonInv'
  BY <1>17, BoundsAssumption DEF Recheck, Goto, OnlyPc, Attempts
<1>18. ASSUME NEW o \in Orders, NextAttempt(o) PROVE JournalInv' /\ PoisonInv'
  <2>1. /\ att[o] \in Nat /\ att'[o] = att[o] + 1 /\ pc'[o] = "claim"
        /\ \A p \in Orders \ {o} : att'[p] = att[p] /\ pc'[p] = pc[p]
        /\ journaled' = journaled \cup {<<o, att[o] + 1>>}
        /\ UNCHANGED <<claimed, poisoned, venue>>
    BY <1>18 DEF NextAttempt, Goto
  <2>2. <<o, att[o]>> \in journaled /\ <<o, att[o]>> \in poisoned
    BY <1>18 DEF NextAttempt
  <2>3. \A a \in Attempts : a < att[o] + 1 => <<o, a>> \in poisoned
    <3>1. \A a \in Attempts : a < att[o] => <<o, a>> \in poisoned
      BY <2>2
    <3>2. \A a \in Attempts : a < att[o] + 1 => a < att[o] \/ a = att[o]
      BY <2>1, BelowNext
    <3> QED BY <2>2, <3>1, <3>2
  <2>4. \A id \in journaled' :
          /\ id[2] <= att'[id[1]]
          /\ \A a \in Attempts : a < id[2] => <<id[1], a>> \in poisoned
    BY <2>1, <2>3, BoundsAssumption DEF Attempts
  <2>5. JournalInv'
    BY <2>1, <2>4
  <2>6. PoisonInv'
    BY <2>1, BoundsAssumption DEF Attempts
  <2> QED BY <2>5, <2>6
<1>19. ASSUME NEW o \in Orders, Reject(o) PROVE JournalInv' /\ PoisonInv'
  BY <1>19 DEF Reject, Goto, RecordOrderStatus
<1>20. ASSUME NEW o \in Orders, AdoptAck(o) PROVE JournalInv' /\ PoisonInv'
  BY <1>20 DEF AdoptAck, Goto
<1>21. ASSUME NEW o \in Orders, AdoptStatus(o) PROVE JournalInv' /\ PoisonInv'
  BY <1>21 DEF AdoptStatus, Goto, RecordOrderStatus
<1>22. CASE StartRun \/ AcceptReset \/ Reconcile
  BY <1>22, ReconcileFootprint DEF OnlyCanceled, VenueLive
<1>23. CASE StartSweep \/ Sweep
  BY <1>23, SweepFootprint DEF OnlyCanceled, VenueLive
<1>24. ASSUME NEW o \in Orders, NEW a \in Attempts, StreamReport(o, a) PROVE JournalInv' /\ PoisonInv'
  BY <1>24 DEF StreamReport, Reports, RecordOrderStatus
<1>25. ASSUME NEW id \in Ids, VenueAccept(id) PROVE JournalInv' /\ PoisonInv'
  BY <1>25 DEF VenueAccept
<1>26. ASSUME NEW id \in Ids, VenueLose(id) PROVE JournalInv' /\ PoisonInv'
  BY <1>26 DEF VenueLose, Fault
<1>27. ASSUME NEW id \in Ids, VenueWork(id) PROVE JournalInv' /\ PoisonInv'
  BY <1>27 DEF VenueWork, VenueFill, VenueExpire, VenueLive
<1>28. ASSUME VenueReset PROVE JournalInv' /\ PoisonInv'
  BY <1>28 DEF VenueReset
<1>29. ASSUME Kill PROVE JournalInv' /\ PoisonInv'
  BY <1>29 DEF Kill
<1>30. ASSUME ClearKill PROVE JournalInv' /\ PoisonInv'
  BY <1>30 DEF ClearKill, ActiveKill
<1>31. ASSUME Crash PROVE JournalInv' /\ PoisonInv'
  BY <1>31 DEF Crash
<1> QED BY <1>1, <1>2, <1>3, <1>4, <1>5, <1>6, <1>7, <1>8, <1>9, <1>10, <1>11,
    <1>12, <1>13, <1>14, <1>15, <1>16, <1>17, <1>18, <1>19, <1>20, <1>21, <1>22,
    <1>23, <1>24, <1>25, <1>26, <1>27, <1>28, <1>29, <1>30, <1>31 DEF Next, Sender, Environment

-----------------------------------------------------------------------------
(* The kill stamp and the reconcile gate.                                  *)

\* A sender moves its own counter, from a place where it was running, and
\* leaves the kill events, the gate, the reconciler and the sweep alone.
LEMMA SenderFootprint ==
    ASSUME TypeOK, NEW o \in Orders, Sender(o)
    PROVE  /\ UNCHANGED <<kills, trades, memory, recon, sweep, resets>>
           /\ pc[o] \notin {"idle", "done"}
           /\ \A p \in Orders \ {o} : pc'[p] = pc[p]
           /\ Stamp(o) \/ UNCHANGED stamp
           /\ pc[o] = "stamp" => Stamp(o) \/ pc'[o] = "done"
           /\ pc[o] = "standing" => StandingKill(o)
<1> USE DEF TypeOK, Sender, rows, intents, kills, trades, memory, recon, sweep, bounds, Goto, OnlyPc
<1>1. CASE Stamp(o) \/ StandingKill(o) \/ Refuse(o) \/ Journal(o) \/ Claim(o)
  BY <1>1 DEF Stamp, StandingKill, Refuse, Journal, Claim
<1>2. CASE KillCheck(o) \/ Reread(o) \/ Place(o)
  BY <1>2 DEF KillCheck, Reread, Place
<1>3. CASE PlaceAcked(o) \/ PlaceRejected(o) \/ PlaceThrottled(o) \/ PlaceAmbiguous(o)
  BY <1>3 DEF PlaceAcked, PlaceRejected, PlaceThrottled, PlaceAmbiguous
<1>4. CASE QueryFound(o) \/ QueryNotFound(o) \/ QueryAmbiguous(o)
  BY <1>4 DEF QueryFound, QueryNotFound, QueryAmbiguous
<1>5. CASE Recheck(o) \/ NextAttempt(o) \/ Reject(o) \/ AdoptAck(o) \/ AdoptStatus(o)
  BY <1>5 DEF Recheck, NextAttempt, Reject, AdoptAck, AdoptStatus
<1> QED BY <1>1, <1>2, <1>3, <1>4, <1>5

\* The environment other than kills, clears and crashes.
LEMMA EnvironmentFootprint ==
    ASSUME Environment
    PROVE  \/ Kill \/ ClearKill \/ Crash
           \/ UNCHANGED <<rows, intents, alarmed, kills, booked, memory, sender, recon, sweep>>
BY DEF Environment, VenueAccept, VenueLose, VenueWork, VenueFill, VenueExpire,
   VenueReset, trades

\* Stamp, standing check and clear keep the stamp of every entry on its way to
\* the venue covered by the clears (submitEntry, AppendKillClear).
LEMMA KillStep ==
    ASSUME TypeOK, TypeOK', KillInv, Next
    PROVE  KillInv'
<1> USE OrdersAssumption DEF TypeOK, KillInv, rows, intents, kills, trades, memory, sender, recon,
        sweep, bounds
<1>1. ASSUME NEW o \in Orders, Submit(o) PROVE KillInv'
  BY <1>1 DEF Submit, Goto, OnlyPc
<1>2. ASSUME NEW o \in Orders, Stamp(o) PROVE KillInv'
  BY <1>2 DEF Stamp, Goto
<1>3. ASSUME NEW o \in Orders, StandingKill(o) PROVE KillInv'
  BY <1>3 DEF StandingKill, Goto, OnlyPc, ActiveKill
<1>4. ASSUME NEW o \in Orders, Sender(o), ~Stamp(o), ~StandingKill(o) PROVE KillInv'
  BY <1>4, SenderFootprint
<1>5. CASE StartRun \/ AcceptReset \/ Reconcile
  BY <1>5, ReconcileFootprint
<1>6. CASE StartSweep \/ Sweep
  BY <1>6, SweepFootprint
<1>7. ASSUME NEW o \in Orders, NEW a \in Attempts, StreamReport(o, a) PROVE KillInv'
  BY <1>7 DEF StreamReport
<1>8. CASE Kill
  BY <1>8 DEF Kill
<1>9. CASE ClearKill
  BY <1>9 DEF ClearKill, ActiveKill
<1>10. CASE Crash
  BY <1>10 DEF Crash
<1>11. CASE Environment /\ ~Kill /\ ~ClearKill /\ ~Crash
  BY <1>11, EnvironmentFootprint
<1> QED
  BY <1>1, <1>2, <1>3, <1>4, <1>5, <1>6, <1>7, <1>8, <1>9, <1>10, <1>11 DEF Next

\* preflightGate, Run's startup loop and a crash keep trading behind a finished run.
LEMMA GateStep ==
    ASSUME TypeOK, GateInv, Next
    PROVE  GateInv'
<1> USE DEF TypeOK, GateInv, StartupReconcileFirst, rows, intents, kills, trades, memory, sender,
        recon, sweep, bounds
<1>1. ASSUME NEW o \in Orders, Submit(o) PROVE GateInv'
  BY <1>1 DEF Submit, Goto, OnlyPc, GateOpen
<1>2. ASSUME NEW o \in Orders, Sender(o) PROVE GateInv'
  BY <1>2, SenderFootprint
<1>3. CASE AcceptReset
  BY <1>3 DEF AcceptReset
<1>4. CASE FinishRun
  BY <1>4 DEF FinishRun
<1>5. CASE (StartRun \/ Reconcile) /\ ~FinishRun
  <2>1. UNCHANGED <<pc, reconciled, started>>
    BY <1>5 DEF StartRun, Reconcile, LoadFilters, ListIntents, NextIntent, QueryIntent,
       ReconAck, ReconStatus, ResolveAbsent, SweepOpenOrders, ClassifyVenueOpen,
       CancelVenueOrphan, ListAbsences, AbsenceCheck, FlagVenueReset, Backfill
  <2> QED BY <2>1
<1>6. CASE StartSweep \/ Sweep
  BY <1>6, SweepFootprint
<1>7. ASSUME NEW o \in Orders, NEW a \in Attempts, StreamReport(o, a) PROVE GateInv'
  BY <1>7 DEF StreamReport
<1>8. CASE Kill \/ ClearKill
  BY <1>8 DEF Kill, ClearKill
<1>9. CASE Crash
  BY <1>9 DEF Crash
<1>10. CASE Environment /\ ~Kill /\ ~ClearKill /\ ~Crash
  BY <1>10, EnvironmentFootprint
<1> QED
  BY <1>1, <1>2, <1>3, <1>4, <1>5, <1>6, <1>7, <1>8, <1>9, <1>10 DEF Next

-----------------------------------------------------------------------------
(* The rows are true of the venue.                                         *)

\* A venue answer is in the sender's hands only between the answer and the row.
LEMMA CarryStep ==
    ASSUME TypeOK, CarryInv, Next
    PROVE  CarryInv'
<1> USE DEF TypeOK, CarryInv, Adopting, rows, intents, kills, trades, memory, sender, recon,
        sweep, bounds
<1>1. ASSUME NEW o \in Orders, Submit(o) PROVE CarryInv'
  BY <1>1 DEF Submit, Goto, OnlyPc, GateOpen, DriveBusy
<1>2. ASSUME NEW o \in Orders, Stamp(o) PROVE CarryInv'
  BY <1>2 DEF Stamp, Goto
<1>3. ASSUME NEW o \in Orders, StandingKill(o) PROVE CarryInv'
  BY <1>3 DEF StandingKill, Goto, OnlyPc, ActiveKill
<1>4. ASSUME NEW o \in Orders, Refuse(o) PROVE CarryInv'
  BY <1>4 DEF Refuse, Goto, OnlyPc
<1>5. ASSUME NEW o \in Orders, Journal(o) PROVE CarryInv'
  BY <1>5 DEF Journal, Goto
<1>6. ASSUME NEW o \in Orders, Claim(o) PROVE CarryInv'
  BY <1>6 DEF Claim, Goto, Latest, Claimable
<1>7. ASSUME NEW o \in Orders, KillCheck(o) PROVE CarryInv'
  BY <1>7 DEF KillCheck, Goto, OnlyPc
<1>8. ASSUME NEW o \in Orders, Reread(o) PROVE CarryInv'
  BY <1>8 DEF Reread, Goto, OnlyPc, Latest
<1>9. ASSUME NEW o \in Orders, Place(o) PROVE CarryInv'
  BY <1>9 DEF Place, Goto, Latest
<1>10. ASSUME NEW o \in Orders, PlaceAcked(o) PROVE CarryInv'
  BY <1>10 DEF PlaceAcked, Goto, Latest, Reports
<1>11. ASSUME NEW o \in Orders, PlaceRejected(o) PROVE CarryInv'
  BY <1>11 DEF PlaceRejected, Goto, Latest
<1>12. ASSUME NEW o \in Orders, PlaceThrottled(o) PROVE CarryInv'
  BY <1>12 DEF PlaceThrottled, Goto, Latest, Fault
<1>13. ASSUME NEW o \in Orders, PlaceAmbiguous(o) PROVE CarryInv'
  BY <1>13 DEF PlaceAmbiguous, Goto, Latest, Fault
<1>14. ASSUME NEW o \in Orders, QueryFound(o) PROVE CarryInv'
  BY <1>14 DEF QueryFound, Goto, Latest
<1>15. ASSUME NEW o \in Orders, QueryNotFound(o) PROVE CarryInv'
  BY <1>15 DEF QueryNotFound, Goto, Latest
<1>16. ASSUME NEW o \in Orders, QueryAmbiguous(o) PROVE CarryInv'
  BY <1>16 DEF QueryAmbiguous, Goto, Fault
<1>17. ASSUME NEW o \in Orders, Recheck(o) PROVE CarryInv'
  BY <1>17 DEF Recheck, Goto, OnlyPc
<1>18. ASSUME NEW o \in Orders, NextAttempt(o) PROVE CarryInv'
  BY <1>18 DEF NextAttempt, Goto
<1>19. ASSUME NEW o \in Orders, Reject(o) PROVE CarryInv'
  BY <1>19 DEF Reject, Goto, RecordOrderStatus
<1>20. ASSUME NEW o \in Orders, AdoptAck(o) PROVE CarryInv'
  BY <1>20 DEF AdoptAck, Goto
<1>21. ASSUME NEW o \in Orders, AdoptStatus(o) PROVE CarryInv'
  BY <1>21 DEF AdoptStatus, Goto, RecordOrderStatus
<1>22. ASSUME StartRun PROVE CarryInv'
  BY <1>22 DEF StartRun, Step
<1>23. ASSUME AcceptReset PROVE CarryInv'
  BY <1>23 DEF AcceptReset, Step
<1>24. ASSUME LoadFilters PROVE CarryInv'
  BY <1>24 DEF LoadFilters, Fault, Step
<1>25. ASSUME ListIntents PROVE CarryInv'
  BY <1>25 DEF ListIntents, Latest, Step
<1>26. ASSUME NextIntent PROVE CarryInv'
  BY <1>26 DEF NextIntent, Step
<1>27. ASSUME QueryIntent PROVE CarryInv'
  BY <1>27 DEF QueryIntent, Fault, Step, Return
<1>28. ASSUME ReconAck PROVE CarryInv'
  BY <1>28 DEF ReconAck, Step
<1>29. ASSUME ReconStatus PROVE CarryInv'
  BY <1>29 DEF ReconStatus, Return
<1>30. ASSUME ResolveAbsent PROVE CarryInv'
  BY <1>30 DEF ResolveAbsent, Return
<1>31. ASSUME SweepOpenOrders PROVE CarryInv'
  BY <1>31 DEF SweepOpenOrders, Fault, Step
<1>32. ASSUME ClassifyVenueOpen PROVE CarryInv'
  BY <1>32 DEF ClassifyVenueOpen, Latest, Step
<1>33. ASSUME CancelVenueOrphan PROVE CarryInv'
  BY <1>33 DEF CancelVenueOrphan, CancelAnswered, CancelAmbiguous, Return,
     VenueCancel, Fault
<1>34. ASSUME ListAbsences PROVE CarryInv'
  BY <1>34 DEF ListAbsences, Latest, Step
<1>35. ASSUME AbsenceCheck PROVE CarryInv'
  BY <1>35 DEF AbsenceCheck, Fault, Step
<1>36. ASSUME FlagVenueReset PROVE CarryInv'
  BY <1>36 DEF FlagVenueReset, Return
<1>37. ASSUME Backfill PROVE CarryInv'
  BY <1>37 DEF Backfill, Fault, Step
<1>38. ASSUME FinishRun PROVE CarryInv'
  BY <1>38 DEF FinishRun, Step
<1>39. CASE StartSweep \/ Sweep
  BY <1>39, SweepFootprint
<1>40. ASSUME NEW o \in Orders, NEW a \in Attempts, StreamReport(o, a) PROVE CarryInv'
  BY <1>40 DEF StreamReport
<1>41. CASE Kill \/ ClearKill
  BY <1>41 DEF Kill, ClearKill
<1>42. CASE Crash
  BY <1>42 DEF Crash
<1>43. CASE Environment /\ ~Kill /\ ~ClearKill /\ ~Crash
  BY <1>43, EnvironmentFootprint
<1> QED BY <1>1, <1>2, <1>3, <1>4, <1>5, <1>6, <1>7, <1>8, <1>9, <1>10, <1>11,
    <1>12, <1>13, <1>14, <1>15, <1>16, <1>17, <1>18, <1>19, <1>20, <1>21, <1>22,
    <1>23, <1>24, <1>25, <1>26, <1>27, <1>28, <1>29, <1>30, <1>31, <1>32, <1>33,
    <1>34, <1>35, <1>36, <1>37, <1>38, <1>39, <1>40, <1>41, <1>42, <1>43 DEF Next, Sender, Reconcile

\* Save for a reset, the venue keeps what it has and a fill is final; attempts
\* only move on.
Steady ==
    /\ \A id \in Ids : venue[id] \in Present => venue'[id] \in Present
    /\ \A id \in Ids : venue[id] = "FILLED" => venue'[id] = "FILLED"
    /\ \A o \in Orders : att[o] <= att'[o]

\* While the venue does not reset, it keeps what it has and what is filled, and
\* attempts only grow.
LEMMA SteadyStep ==
    ASSUME TypeOK, TypeOK', Next, ~VenueReset
    PROVE  Steady
<1> USE BoundsAssumption, AttemptsType DEF TypeOK, Steady, Present, VenueLive, Attempts,
        rows, intents, kills, trades, memory, sender, recon, sweep, bounds
<1>1. ASSUME NEW o \in Orders, Submit(o) PROVE Steady
  BY <1>1 DEF Submit, Goto, OnlyPc, GateOpen, DriveBusy
<1>2. ASSUME NEW o \in Orders, Stamp(o) PROVE Steady
  BY <1>2 DEF Stamp, Goto
<1>3. ASSUME NEW o \in Orders, StandingKill(o) PROVE Steady
  BY <1>3 DEF StandingKill, Goto, OnlyPc, ActiveKill
<1>4. ASSUME NEW o \in Orders, Refuse(o) PROVE Steady
  BY <1>4 DEF Refuse, Goto, OnlyPc
<1>5. ASSUME NEW o \in Orders, Journal(o) PROVE Steady
  BY <1>5 DEF Journal, Goto
<1>6. ASSUME NEW o \in Orders, Claim(o) PROVE Steady
  BY <1>6 DEF Claim, Goto, Latest, Claimable
<1>7. ASSUME NEW o \in Orders, KillCheck(o) PROVE Steady
  BY <1>7 DEF KillCheck, Goto, OnlyPc
<1>8. ASSUME NEW o \in Orders, Reread(o) PROVE Steady
  BY <1>8 DEF Reread, Goto, OnlyPc, Latest
<1>9. ASSUME NEW o \in Orders, Place(o) PROVE Steady
  BY <1>9 DEF Place, Goto, Latest
<1>10. ASSUME NEW o \in Orders, PlaceAcked(o) PROVE Steady
  BY <1>10 DEF PlaceAcked, Goto, Latest, Reports
<1>11. ASSUME NEW o \in Orders, PlaceRejected(o) PROVE Steady
  BY <1>11 DEF PlaceRejected, Goto, Latest
<1>12. ASSUME NEW o \in Orders, PlaceThrottled(o) PROVE Steady
  <2>1. att' = att /\ venue[Latest(o)] = "wire" /\ venue' = [venue EXCEPT ![Latest(o)] = "none"]
    BY <1>12 DEF PlaceThrottled
  <2> QED BY <2>1
<1>13. ASSUME NEW o \in Orders, PlaceAmbiguous(o) PROVE Steady
  BY <1>13 DEF PlaceAmbiguous, Goto, Latest, Fault
<1>14. ASSUME NEW o \in Orders, QueryFound(o) PROVE Steady
  BY <1>14 DEF QueryFound, Goto, Latest
<1>15. ASSUME NEW o \in Orders, QueryNotFound(o) PROVE Steady
  BY <1>15 DEF QueryNotFound, Goto, Latest
<1>16. ASSUME NEW o \in Orders, QueryAmbiguous(o) PROVE Steady
  BY <1>16 DEF QueryAmbiguous, Goto, Fault
<1>17. ASSUME NEW o \in Orders, Recheck(o) PROVE Steady
  BY <1>17 DEF Recheck, Goto, OnlyPc
<1>18. ASSUME NEW o \in Orders, NextAttempt(o) PROVE Steady
  BY <1>18 DEF NextAttempt, Goto
<1>19. ASSUME NEW o \in Orders, Reject(o) PROVE Steady
  BY <1>19 DEF Reject, Goto, RecordOrderStatus
<1>20. ASSUME NEW o \in Orders, AdoptAck(o) PROVE Steady
  BY <1>20 DEF AdoptAck, Goto
<1>21. ASSUME NEW o \in Orders, AdoptStatus(o) PROVE Steady
  BY <1>21 DEF AdoptStatus, Goto, RecordOrderStatus
<1>22. CASE StartRun \/ AcceptReset \/ Reconcile
  BY <1>22, ReconcileFootprint DEF OnlyCanceled
<1>23. CASE StartSweep \/ Sweep
  BY <1>23, SweepFootprint DEF OnlyCanceled
<1>24. ASSUME NEW o \in Orders, NEW a \in Attempts, StreamReport(o, a) PROVE Steady
  BY <1>24 DEF StreamReport
<1>25. ASSUME NEW id \in Ids, VenueAccept(id) PROVE Steady
  BY <1>25 DEF VenueAccept
<1>26. ASSUME NEW id \in Ids, VenueLose(id) PROVE Steady
  BY <1>26 DEF VenueLose, Fault
<1>27. ASSUME NEW id \in Ids, VenueWork(id) PROVE Steady
  BY <1>27 DEF VenueWork, VenueFill, VenueExpire
<1>28. ASSUME Kill PROVE Steady
  BY <1>28 DEF Kill
<1>29. ASSUME ClearKill PROVE Steady
  BY <1>29 DEF ClearKill, ActiveKill
<1>30. ASSUME Crash PROVE Steady
  BY <1>30 DEF Crash
<1> QED BY <1>1, <1>2, <1>3, <1>4, <1>5, <1>6, <1>7, <1>8, <1>9, <1>10, <1>11,
    <1>12, <1>13, <1>14, <1>15, <1>16, <1>17, <1>18, <1>19, <1>20, <1>21, <1>22,
    <1>23, <1>24, <1>25, <1>26, <1>27, <1>28, <1>29, <1>30 DEF Next, Sender, Environment

\* The executions grow, the bookings follow them, and full is full.
FillKept ==
    /\ FillInv'
    /\ \A id \in Ids : executed[id] <= executed'[id]

\* Only the venue fills: a sender at most sends, or learns that nothing was sent.
LEMMA SenderFillsNothing ==
    ASSUME TypeOK, NEW o \in Orders, Sender(o), NEW id \in Ids, venue'[id] = "FILLED"
    PROVE  venue[id] = "FILLED"
<1> USE DEF TypeOK, Sender, Goto, OnlyPc
<1>1. CASE Stamp(o) \/ StandingKill(o) \/ Refuse(o) \/ Journal(o) \/ Claim(o)
  BY <1>1 DEF Stamp, StandingKill, Refuse, Journal, Claim
<1>2. CASE KillCheck(o) \/ Reread(o) \/ Place(o)
  BY <1>2 DEF KillCheck, Reread, Place
<1>3. CASE PlaceAcked(o) \/ PlaceRejected(o) \/ PlaceThrottled(o) \/ PlaceAmbiguous(o)
  BY <1>3 DEF PlaceAcked, PlaceRejected, PlaceThrottled, PlaceAmbiguous
<1>4. CASE QueryFound(o) \/ QueryNotFound(o) \/ QueryAmbiguous(o)
  BY <1>4 DEF QueryFound, QueryNotFound, QueryAmbiguous
<1>5. CASE Recheck(o) \/ NextAttempt(o) \/ Reject(o) \/ AdoptAck(o) \/ AdoptStatus(o)
  BY <1>5 DEF Recheck, NextAttempt, Reject, AdoptAck, AdoptStatus
<1> QED BY <1>1, <1>2, <1>3, <1>4, <1>5

\* Stream, R5 and sender book no more than the venue executes.
LEMMA FillStep ==
    ASSUME TypeOK, FillInv, Next
    PROVE  FillKept
<1> DEFINE Same == /\ UNCHANGED trades
                   /\ \A id \in Ids : venue'[id] = "FILLED" => venue[id] = "FILLED"
<1>0. /\ \A id \in Ids : executed[id] \in Nat /\ booked[id] \in Nat /\ executed[id] <= Lots
      /\ Lots \in Nat
  BY BoundsAssumption DEF TypeOK
<1>1. ASSUME Same PROVE FillKept
  BY <1>0, <1>1 DEF FillInv, FillKept, trades
<1>2. ASSUME \A id \in Ids : booked'[id] <= executed[id], UNCHANGED executed,
             \A id \in Ids : venue'[id] = "FILLED" => venue[id] = "FILLED"
      PROVE  FillKept
  BY <1>0, <1>2 DEF FillInv, FillKept
<1>3. ASSUME NEW o \in Orders, Submit(o) PROVE Same
  BY <1>3 DEF Submit, OnlyPc
<1>4. ASSUME NEW o \in Orders, Sender(o) PROVE Same
  BY <1>4, SenderFootprint, SenderFillsNothing
<1>5. CASE Backfill
  <2>1. UNCHANGED <<venue, executed>>
    BY <1>5 DEF Backfill
  <2>2. CASE UNCHANGED booked
    BY <1>1, <2>1, <2>2 DEF trades
  <2>3. CASE booked' # booked
    <3>1. PICK more \in [Orders -> 0..Lots] : BackfillOf(more)
      BY <1>5, <2>3, BackfillBooks
    <3>2. \A id \in Ids : booked'[id] \in Nat
                         /\ (booked'[id] <= booked[id] \/ booked'[id] <= executed[id])
      BY <3>1, BookedWithBounds DEF BackfillOf
    <3>3. \A id \in Ids : booked'[id] <= executed[id]
      BY <1>0, <3>2 DEF FillInv
    <3> QED BY <1>2, <2>1, <3>3
  <2> QED BY <2>2, <2>3
<1>6. CASE (StartRun \/ AcceptReset \/ Reconcile) /\ ~Backfill
  <2>1. UNCHANGED trades
    BY <1>6, ReconcileFootprint DEF trades
  <2>2. \A id \in Ids : venue'[id] = "FILLED" => venue[id] = "FILLED"
    BY <1>6, ReconcileFootprint DEF OnlyCanceled
  <2> QED BY <1>1, <2>1, <2>2
<1>7. CASE StartSweep \/ Sweep
  <2>1. UNCHANGED trades
    BY <1>7, SweepFootprint
  <2>2. \A id \in Ids : venue'[id] = "FILLED" => venue[id] = "FILLED"
    BY <1>7, SweepFootprint DEF OnlyCanceled
  <2> QED BY <1>1, <2>1, <2>2
<1>8. ASSUME NEW o \in Orders, NEW a \in Attempts, StreamReport(o, a) PROVE FillKept
  <2>1. UNCHANGED <<venue, executed>>
    BY <1>8 DEF StreamReport
  <2>2. CASE UNCHANGED booked
    BY <1>1, <2>1, <2>2 DEF trades
  <2>3. ASSUME NEW n \in 1..(executed[<<o, a>>] - booked[<<o, a>>]),
               booked' = [booked EXCEPT ![<<o, a>>] = @ + n]
        PROVE  FillKept
    <3>1. \A id \in Ids : booked'[id] <= executed[id]
      <4> SUFFICES ASSUME NEW id \in Ids PROVE booked'[id] <= executed[id]
        OBVIOUS
      <4>1. CASE id = <<o, a>>
        <5>1. booked'[id] = booked[id] + n
          BY <2>3, <4>1 DEF TypeOK
        <5> QED BY <1>0, <4>1, <5>1
      <4>2. CASE id # <<o, a>>
        BY <2>3, <4>2 DEF TypeOK, FillInv
      <4> QED BY <4>1, <4>2
    <3> QED BY <1>2, <2>1, <3>1
  <2> QED BY <1>8, <2>2, <2>3 DEF StreamReport
<1>9. ASSUME NEW id \in Ids, VenueFill(id) PROVE FillKept
  <2>1. PICK n \in (executed[id] + 1)..Lots :
           /\ executed' = [executed EXCEPT ![id] = n]
           /\ venue' = [venue EXCEPT ![id] = IF n = Lots THEN "FILLED" ELSE "PARTIALLY_FILLED"]
    BY <1>9 DEF VenueFill
  <2>2. \A i \in Ids : /\ executed[i] <= executed'[i]
                       /\ venue'[i] = "FILLED" => executed'[i] = Lots
    BY <1>0, <2>1 DEF TypeOK, FillInv
  <2>3. UNCHANGED booked /\ \A i \in Ids : executed'[i] \in Nat
    BY <1>0, <1>9, <2>1 DEF VenueFill, TypeOK
  <2>4. \A i \in Ids : booked'[i] <= executed'[i]
    BY <1>0, <2>2, <2>3 DEF FillInv
  <2> QED BY <2>2, <2>4 DEF FillKept, FillInv
<1>10. CASE Environment /\ ~\E id \in Ids : VenueFill(id)
  <2>1. UNCHANGED trades
    BY <1>10 DEF Environment, VenueAccept, VenueLose, VenueWork, VenueExpire, VenueReset, Kill,
       ClearKill, Crash
  <2>2. \A id \in Ids : venue'[id] = "FILLED" => venue[id] = "FILLED"
    BY <1>10 DEF Environment, VenueAccept, VenueLose, VenueWork, VenueExpire, VenueReset, Kill,
       ClearKill, Crash, TypeOK
  <2> QED BY <1>1, <2>1, <2>2
<1> QED BY <1>1, <1>3, <1>4, <1>5, <1>6, <1>7, <1>8, <1>9, <1>10 DEF Next

\* An attempt that the venue has was journaled, so it is among the order's.
LEMMA PresentBelow ==
    ASSUME TypeOK, JournalInv, NEW id \in Ids, venue[id] \in Present
    PROVE  /\ id[1] \in Orders /\ id[2] \in Attempts /\ id = <<id[1], id[2]>>
           /\ id[2] \in 0..att[id[1]]
<1>1. venue[id] # "none"
  BY DEF Present, VenueLive
<1>2. id \in journaled
  BY <1>1 DEF JournalInv
<1>3. id[1] \in Orders /\ id[2] \in Attempts /\ id = <<id[1], id[2]>>
  BY DEF Ids
<1>4. id[2] <= att[id[1]]
  BY <1>2 DEF JournalInv
<1> QED BY <1>3, <1>4, BoundsAssumption DEF TypeOK, Attempts

\* What a step writes into the rows is true of the venue as it writes.
TrueWrites ==
    \A o \in Orders :
        /\ \/ ack'[o] = ack[o]
           \/ ack'[o] \in Attempts /\ venue[<<o, ack'[o]>>] \in Present
        /\ \/ status'[o] = status[o]
           \/ status'[o] # "filled"
           \/ Covers(executed, o)

\* What recorded columns claim stays true while the venue is steady and every
\* write is true (RecordExchangeAck, RecordOrderStatus).
LEMMA RowsStep ==
    ASSUME TypeOK, TypeOK', resets = 0, resets' = 0, RowsTrueOfVenue, Steady, FillKept, TrueWrites
    PROVE  RowsTrueOfVenue'
<1> SUFFICES ASSUME NEW o \in Orders
             PROVE  /\ ack'[o] # NoAck => venue'[<<o, ack'[o]>>] \in Present
                    /\ status'[o] = "filled" => Covers(executed', o)
  BY DEF RowsTrueOfVenue, Covers, Total
<1>1. ack'[o] # NoAck => venue'[<<o, ack'[o]>>] \in Present
  <2>1. \A a \in Attempts : venue[<<o, a>>] \in Present => venue'[<<o, a>>] \in Present
    BY DEF Steady, Ids
  <2>2. ack'[o] # NoAck => ack'[o] \in Attempts /\ venue[<<o, ack'[o]>>] \in Present
    BY DEF TrueWrites, RowsTrueOfVenue, TypeOK
  <2> QED BY <2>1, <2>2
<1>2. status'[o] = "filled" => Covers(executed', o)
  <2>1. status'[o] = "filled" => Covers(executed, o)
    BY DEF TrueWrites, RowsTrueOfVenue
  <2>2. \A id \in Ids : executed[id] \in Nat /\ executed'[id] \in Nat
    BY BoundsAssumption DEF TypeOK
  <2> QED BY <2>1, <2>2, CoversGrows DEF FillKept
<1> QED BY <1>1, <1>2

\* An attempt that the venue filled covers its order.
LEMMA FilledCovers ==
    ASSUME TypeOK, FillInv, NEW id \in Ids, venue[id] = "FILLED"
    PROVE  Covers(executed, id[1])
<1>1. \A i \in Ids : executed[i] \in Nat
  BY BoundsAssumption DEF TypeOK
<1>2. executed[id] = Lots
  BY DEF FillInv
<1> QED BY <1>1, <1>2, FullCovers

\* What sender o carries, and what the reconciler carries.
SenderTruth(o) ==
    /\ pc[o] \in Adopting => venue[Latest(o)] \in Present
    /\ got[o] = "FILLED" => venue[Latest(o)] = "FILLED"

ReconTruth ==
    /\ rpc \in {"adopt", "status"} => \A id \in rcur : venue[id] \in Present
    /\ rgot = "FILLED" => \A id \in rcur : venue[id] = "FILLED"
    /\ phase = "r3" => \A w \in rtodo : venue[w.id] \in Present
    /\ \A id \in Ids : seen[id] # "FILLED"

\* TruthInv is the rows' part, the senders' and the reconciler's.
LEMMA TruthParts ==
    TruthInv <=> (resets = 0 => RowsTrueOfVenue /\ (\A o \in Orders : SenderTruth(o)) /\ ReconTruth)
BY DEF TruthInv, SenderTruth, ReconTruth

\* What the reconciler carries stays true while others move.
LEMMA ReconTruthKept ==
    ASSUME TypeOK, ReconTruth, Steady, UNCHANGED recon
    PROVE  ReconTruth'
BY DEF TypeOK, ReconTruth, Steady, recon, Work

\* What a sender carries stays true while others move.
LEMMA SenderTruthKept ==
    ASSUME TypeOK, NEW o \in Orders, SenderTruth(o), Steady,
           pc'[o] = pc[o], got'[o] = got[o], att'[o] = att[o]
    PROVE  SenderTruth(o)'
BY AttemptsType DEF TypeOK, SenderTruth, Steady, Latest

\* A sender's step keeps what it carries true and writes only what is true.
LEMMA SenderTruthStep ==
    ASSUME TypeOK, CarryInv, FillInv, NEW o \in Orders, SenderTruth(o), Steady, Sender(o)
    PROVE  SenderTruth(o)' /\ TrueWrites
<1> USE AttemptsType, StatusesType DEF TypeOK, CarryInv, SenderTruth, TrueWrites, Steady, Latest, Adopting,
        rows, intents, kills, trades, memory, recon, sweep, bounds
<1>1. CASE Stamp(o)
  BY <1>1 DEF Stamp, Goto
<1>2. CASE StandingKill(o)
  BY <1>2 DEF StandingKill, Goto, OnlyPc, ActiveKill
<1>3. CASE Refuse(o)
  BY <1>3 DEF Refuse, Goto, OnlyPc
<1>4. CASE Journal(o)
  BY <1>4 DEF Journal, Goto
<1>5. CASE Claim(o)
  BY <1>5 DEF Claim, Goto, Claimable
<1>6. CASE KillCheck(o)
  BY <1>6 DEF KillCheck, Goto, OnlyPc
<1>7. CASE Reread(o)
  BY <1>7 DEF Reread, Goto, OnlyPc
<1>8. CASE Place(o)
  BY <1>8 DEF Place, Goto
<1>9. CASE PlaceAcked(o)
  <2>1. \A r \in Reports(<<o, att[o]>>) : r = "FILLED" => venue[<<o, att[o]>>] = "FILLED"
    BY <1>9 DEF Reports
  <2> QED
    BY <1>9, <2>1 DEF PlaceAcked, Goto
<1>10. CASE PlaceRejected(o)
  BY <1>10 DEF PlaceRejected, Goto
<1>11. CASE PlaceThrottled(o)
  BY <1>11 DEF PlaceThrottled, Goto, Fault
<1>12. CASE PlaceAmbiguous(o)
  BY <1>12 DEF PlaceAmbiguous, Goto, Fault
<1>13. CASE QueryFound(o)
  BY <1>13 DEF QueryFound, Goto
<1>14. CASE QueryNotFound(o)
  BY <1>14 DEF QueryNotFound, Goto
<1>15. CASE QueryAmbiguous(o)
  BY <1>15 DEF QueryAmbiguous, Goto, Fault
<1>16. CASE Recheck(o)
  BY <1>16 DEF Recheck, Goto, OnlyPc
<1>17. CASE NextAttempt(o)
  BY <1>17 DEF NextAttempt, Goto
<1>18. CASE Reject(o)
  <2>1. \A p \in Orders : status'[p] = status[p] \/ status'[p] = "rejected"
    <3>1. "rejected" \in Statuses \cup {""} /\ status \in [Orders -> Statuses]
      OBVIOUS
    <3> HIDE DEF TypeOK
    <3> QED BY <1>18, <3>1, StatusWrite DEF Reject
  <2> QED
    BY <1>18, <2>1 DEF Reject, Goto
<1>19. CASE AdoptAck(o)
  BY <1>19 DEF AdoptAck, Goto
<1>20. CASE AdoptStatus(o)
  <2>1. got[o] \in Views
    OBVIOUS
  <2>. DEFINE s == LocalStatus(got[o])
  <2>5. status \in [Orders -> Statuses] /\ s \in Statuses \cup {""} /\ RecordOrderStatus(o, s)
    BY <1>20, <2>1, LocalStatusType DEF AdoptStatus
  <2>2. \A p \in Orders : status'[p] = status[p] \/ (p = o /\ status'[p] = s)
    <3> HIDE DEF s, TypeOK, SenderTruth, CarryInv
    <3> QED BY <2>5, StatusWrite
  <2>3. LocalStatus(got[o]) = "filled" => Covers(executed, o)
    <3>1. LocalStatus(got[o]) = "filled" => venue[<<o, att[o]>>] = "FILLED"
      BY <2>1, LocalStatusType
    <3>2. <<o, att[o]>> \in Ids
      OBVIOUS
    <3> QED BY <3>1, <3>2, FilledCovers
  <2> QED
    BY <1>20, <2>2, <2>3 DEF AdoptStatus, Goto
<1> QED BY <1>1, <1>2, <1>3, <1>4, <1>5, <1>6, <1>7, <1>8, <1>9, <1>10, <1>11,
    <1>12, <1>13, <1>14, <1>15, <1>16, <1>17, <1>18, <1>19, <1>20 DEF Sender

\* The same of the reconciler.
LEMMA ReconcileTruthStep ==
    ASSUME TypeOK, TypeOK', CarryInv, FillInv, resets = 0, RowsTrueOfVenue, ReconTruth,
           Steady,
           StartRun \/ AcceptReset \/ Reconcile
    PROVE  ReconTruth' /\ TrueWrites
<1> USE StatusesType DEF TypeOK, CarryInv, ReconTruth, TrueWrites, Steady,
        rows, intents, kills, trades, memory, sender, sweep, bounds
<1>1. CASE StartRun
  BY <1>1 DEF StartRun, Step
<1>2. CASE AcceptReset
  BY <1>2 DEF AcceptReset, Step
<1>3. CASE LoadFilters
  BY <1>3 DEF LoadFilters, Fault, Step
<1>4. CASE ListIntents
  BY <1>4 DEF ListIntents, Step
<1>5. CASE NextIntent
  BY <1>5 DEF NextIntent, Step
<1>6. CASE QueryIntent
  <2>1. CASE rpc' = "adopt"
    BY <1>6, <2>1 DEF QueryIntent, Fault, Step, Return
  <2>2. CASE rpc' # "adopt"
    BY <1>6, <2>2 DEF QueryIntent, Fault, Step, Return
  <2> QED BY <2>1, <2>2
<1>7. CASE ReconAck
  <2>1. PICK id \in rcur : ack' = [ack EXCEPT ![id[1]] = id[2]]
    BY <1>7 DEF ReconAck
  <2>2. venue[id] \in Present
    BY <1>7 DEF ReconAck
  <2>3. id[1] \in Orders /\ id[2] \in Attempts /\ id = <<id[1], id[2]>>
    BY DEF Ids
  <2> QED
    BY <1>7, <2>1, <2>2, <2>3 DEF ReconAck, Step
<1>8. CASE ReconStatus
  <2>1. PICK id \in rcur : RecordOrderStatus(id[1], LocalStatus(rgot))
    BY <1>8 DEF ReconStatus
  <2>2. id[1] \in Orders
    BY DEF Ids
  <2>3. LocalStatus(rgot) \in Statuses \cup {""} /\ status \in [Orders -> Statuses]
    BY LocalStatusType
  <2>. HIDE DEF TypeOK
  <2>. DEFINE s == LocalStatus(rgot)
  <2>7. \A p \in Orders : status'[p] = status[p] \/ (p = id[1] /\ status'[p] = s)
    <3> HIDE DEF s
    <3>1. RecordOrderStatus(id[1], s) /\ s \in Statuses \cup {""}
      BY <2>1, <2>3 DEF s
    <3> QED BY <2>2, <2>3, <3>1, StatusWrite
  <2>4. LocalStatus(rgot) = "filled" => venue[id] = "FILLED"
    BY LocalStatusType DEF TypeOK
  <2>5. LocalStatus(rgot) = "filled" => Covers(executed, id[1])
    BY <2>4, FilledCovers DEF TypeOK
  <2>6. TrueWrites
    BY <1>8, <2>2, <2>5, <2>7 DEF ReconStatus
  <2> QED
    BY <1>8, <2>6 DEF ReconStatus, Return, TypeOK
<1>9. CASE ResolveAbsent
  <2>1. PICK id \in rcur : RecordOrderStatus(id[1], "rejected")
    BY <1>9 DEF ResolveAbsent
  <2>2. id[1] \in Orders
    BY DEF Ids
  <2>3. \A p \in Orders : status'[p] = status[p] \/ status'[p] = "rejected"
    <3> DEFINE s == "rejected"
    <3>1. RecordOrderStatus(id[1], s) /\ s \in Statuses \cup {""}
      BY <2>1
    <3>2. status \in [Orders -> Statuses]
      OBVIOUS
    <3> HIDE DEF s, TypeOK
    <3>3. \A p \in Orders : status'[p] = status[p] \/ (p = id[1] /\ status'[p] = s)
      BY <2>2, <3>1, <3>2, StatusWrite
    <3> QED BY <3>3 DEF s
  <2> QED
    BY <1>9, <2>3 DEF ResolveAbsent, Return
<1>10. CASE SweepOpenOrders
  <2>1. \A id \in Ids : seen'[id] # "FILLED"
    BY <1>10 DEF SweepOpenOrders, VenueLive
  <2>2. \A w \in rtodo' : venue[w.id] \in Present
    BY <1>10 DEF SweepOpenOrders
  <2>3. \A w \in rtodo' : w.id \in Ids
    BY DEF Work
  <2> QED
    BY <1>10, <2>1, <2>2, <2>3 DEF SweepOpenOrders, Fault, Step
<1>11. CASE ClassifyVenueOpen
  <2>1. PICK w \in rtodo : rcur' = {w.id} /\ rgot' = seen[w.id] /\ rtodo' = rtodo \ {w}
    BY <1>11 DEF ClassifyVenueOpen
  <2>2. w.id \in Ids /\ venue[w.id] \in Present
    BY <1>11 DEF ClassifyVenueOpen, Work
  <2>3. rgot' # "FILLED"
    BY <2>1, <2>2
  <2>4. \A v \in rtodo' : v.id \in Ids
    BY DEF Work
  <2> QED
    BY <1>11, <2>1, <2>2, <2>3, <2>4 DEF ClassifyVenueOpen
<1>12. CASE CancelVenueOrphan
  <2>1. UNCHANGED <<status, ack, rtodo, seen, phase>> /\ rcur' = {} /\ rgot' = "none"
    BY <1>12 DEF CancelVenueOrphan, Return
  <2>2. \A w \in rtodo' : w.id \in Ids
    BY DEF Work
  <2> QED
    BY <2>1, <2>2
<1>13. CASE ListAbsences
  BY <1>13 DEF ListAbsences, Step
<1>14. CASE AbsenceCheck
  BY <1>14 DEF AbsenceCheck, Fault, Step
<1>15. CASE FlagVenueReset
  <2>1. PICK id \in rcur : RecordOrderStatus(id[1], "expired")
    BY <1>15 DEF FlagVenueReset
  <2>2. id[1] \in Orders
    BY DEF Ids
  <2>3. \A p \in Orders : status'[p] = status[p] \/ status'[p] = "expired"
    <3> DEFINE s == "expired"
    <3>1. RecordOrderStatus(id[1], s) /\ s \in Statuses \cup {""}
      BY <2>1
    <3>2. status \in [Orders -> Statuses]
      OBVIOUS
    <3> HIDE DEF s, TypeOK
    <3>3. \A p \in Orders : status'[p] = status[p] \/ (p = id[1] /\ status'[p] = s)
      BY <2>2, <3>1, <3>2, StatusWrite
    <3> QED BY <3>3 DEF s
  <2> QED
    BY <1>15, <2>3 DEF FlagVenueReset, Return
<1>16. CASE Backfill
  <2>1. ASSUME NEW o \in Orders, status'[o] # status[o], status'[o] = "filled"
        PROVE  Covers(executed, o)
    <3>1. PICK more \in [Orders -> 0..Lots] : BackfillOf(more)
      BY <1>16, <2>1, BackfillBooks
    <3> DEFINE s == IF Covers(BookedWith(more), o) THEN "filled" ELSE "partially_filled"
    <3>2. status'[o] = Advanced(status[o], s)
      BY <2>1, <3>1 DEF BackfillOf
    <3>3. s \in Statuses \cup {""} /\ (s = "filled" => Covers(BookedWith(more), o))
      BY FillStatusesType
    <3>4. status[o] \in Statuses
      OBVIOUS
    <3> HIDE DEF s, TypeOK
    <3>5. status'[o] = s
      BY <2>1, <3>2, <3>3, <3>4, AdvancedStatus
    <3>6. Covers(BookedWith(more), o)
      BY <2>1, <3>3, <3>5
    <3>7. \A id \in Ids : /\ BookedWith(more)[id] \in Nat /\ executed[id] \in Nat
                          /\ BookedWith(more)[id] <= executed[id]
      <4>1. \A id \in Ids : executed[id] \in Nat /\ booked[id] \in Nat
                            /\ booked[id] <= executed[id]
        BY BoundsAssumption DEF TypeOK, FillInv
      <4>2. \A id \in Ids :
              /\ BookedWith(more)[id] \in Nat
              /\ BookedWith(more)[id] <= booked[id] \/ BookedWith(more)[id] <= executed[id]
        BY <3>1, BookedWithBounds DEF BackfillOf
      <4> QED BY <4>1, <4>2
    <3> QED BY <3>6, <3>7, CoversGrows
  <2> QED
    BY <1>16, <2>1 DEF Backfill, Step
<1>17. CASE FinishRun
  BY <1>17 DEF FinishRun, Step
<1> QED BY <1>1, <1>2, <1>3, <1>4, <1>5, <1>6, <1>7, <1>8, <1>9, <1>10, <1>11,
    <1>12, <1>13, <1>14, <1>15, <1>16, <1>17 DEF Reconcile

\* Only the venue's own reset forgets orders.
LEMMA ResetsOnlyByReset ==
    ASSUME TypeOK, Next, ~VenueReset, resets' = 0
    PROVE  resets = 0
<1> USE DEF bounds
<1>1. ASSUME NEW o \in Orders, Submit(o) PROVE resets' = resets
  BY <1>1 DEF Submit, OnlyPc
<1>2. ASSUME NEW o \in Orders, Sender(o) PROVE resets' = resets
  BY <1>2, SenderFootprint
<1>3. CASE StartRun \/ AcceptReset \/ Reconcile
  BY <1>3, ReconcileFootprint
<1>4. CASE StartSweep \/ Sweep
  BY <1>4, SweepFootprint
<1>5. CASE \E o \in Orders : \E a \in Attempts : StreamReport(o, a)
  BY <1>5 DEF StreamReport
<1>6. CASE Environment
  BY <1>6 DEF Environment, VenueAccept, VenueLose, VenueWork, VenueFill, VenueExpire, Kill, ClearKill, Crash
<1> QED BY <1>1, <1>2, <1>3, <1>4, <1>5, <1>6 DEF Next

\* A sender goroutine touches no other sender's counter, answer or attempt.
LEMMA SenderOnlyItself ==
    ASSUME TypeOK, NEW o \in Orders, Sender(o), NEW p \in Orders \ {o}
    PROVE  pc'[p] = pc[p] /\ got'[p] = got[p] /\ att'[p] = att[p]
<1> USE DEF TypeOK, Sender, rows, Goto, OnlyPc
<1>1. CASE Stamp(o) \/ StandingKill(o) \/ Refuse(o) \/ Journal(o) \/ Claim(o)
  BY <1>1 DEF Stamp, StandingKill, Refuse, Journal, Claim
<1>2. CASE KillCheck(o) \/ Reread(o) \/ Place(o)
  BY <1>2 DEF KillCheck, Reread, Place
<1>3. CASE PlaceAcked(o) \/ PlaceRejected(o) \/ PlaceThrottled(o) \/ PlaceAmbiguous(o)
  BY <1>3 DEF PlaceAcked, PlaceRejected, PlaceThrottled, PlaceAmbiguous
<1>4. CASE QueryFound(o) \/ QueryNotFound(o) \/ QueryAmbiguous(o)
  BY <1>4 DEF QueryFound, QueryNotFound, QueryAmbiguous
<1>5. CASE Recheck(o) \/ NextAttempt(o) \/ Reject(o) \/ AdoptAck(o) \/ AdoptStatus(o)
  BY <1>5 DEF Recheck, NextAttempt, Reject, AdoptAck, AdoptStatus
<1> QED BY <1>1, <1>2, <1>3, <1>4, <1>5

\* A sweep writes canceled or nothing.
LEMMA SweepWrites ==
    ASSUME TypeOK, StartSweep \/ Sweep, NEW p \in Orders
    PROVE  status'[p] = status[p] \/ status'[p] = "canceled"
<1>1. CASE SweepStatus
  <2> DEFINE s == "canceled"
  <2>1. PICK id \in wcur : RecordOrderStatus(id[1], s)
    BY <1>1 DEF SweepStatus
  <2>2. id[1] \in Orders /\ s \in Statuses \cup {""} /\ status \in [Orders -> Statuses]
    BY StatusesType DEF TypeOK, Ids
  <2> HIDE DEF s
  <2>3. status'[p] = status[p] \/ (p = id[1] /\ status'[p] = s)
    BY <2>1, <2>2, StatusWrite
  <2> QED BY <2>3 DEF s
<1>2. CASE ~SweepStatus
  BY <1>2 DEF StartSweep, Sweep, SweepNext, SweepCancel, EndSweep, rows
<1> QED BY <1>1, <1>2

\* A report of the stream is as true as the attempt it is about.
LEMMA StreamWrites ==
    ASSUME TypeOK, FillInv, NEW o \in Orders, NEW a \in Attempts, StreamReport(o, a)
    PROVE  TrueWrites
<1>1. <<o, a>> \in Ids /\ venue[<<o, a>>] \in Present
  BY DEF StreamReport, Ids
<1>2. PICK s \in Statuses \cup {""} :
         RecordOrderStatus(o, s) /\ (s = "filled" => venue[<<o, a>>] = "FILLED")
  <2>1. CASE \E r \in Reports(<<o, a>>) : RecordOrderStatus(o, LocalStatus(r))
    <3>1. PICK r \in Reports(<<o, a>>) : RecordOrderStatus(o, LocalStatus(r))
      BY <2>1
    <3> QED BY <1>1, <3>1, ReportsType, StatusesType, LocalStatusType
  <2>2. CASE RecordOrderStatus(o, "partially_filled")
    <3>1. "partially_filled" \in Statuses \cup {""} /\ "partially_filled" # "filled"
      BY FillStatusesType
    <3> QED BY <2>2, <3>1
  <2>3. CASE venue[<<o, a>>] = "FILLED" /\ RecordOrderStatus(o, "filled")
    BY <2>3, FillStatusesType
  <2> QED BY <2>1, <2>2, <2>3 DEF StreamReport
<1>3. s = "filled" => Covers(executed, o)
  BY <1>1, <1>2, FilledCovers
<1>4. \A p \in Orders : status'[p] = status[p] \/ (p = o /\ status'[p] = s)
  BY <1>2, StatusWrite DEF TypeOK
<1>5. \A p \in Orders : ack'[p] = ack[p] \/ (p = o /\ ack'[p] = a)
  BY DEF StreamReport, TypeOK
<1> QED BY <1>1, <1>3, <1>4, <1>5 DEF TrueWrites

\* Every handler writes to orders only what the venue answered and still holds.
LEMMA TruthStep ==
    ASSUME TypeOK, TypeOK', CarryInv, FillInv, TruthInv, Next
    PROVE  TruthInv'
<1>1. CASE VenueReset
  <2>1. resets' # 0
    BY <1>1 DEF VenueReset, TypeOK
  <2> QED BY <2>1 DEF TruthInv
<1>2. CASE resets' # 0
  BY <1>2 DEF TruthInv
<1>3. CASE ~VenueReset /\ resets' = 0
  <2>1. Steady /\ FillKept
    BY <1>3, SteadyStep, FillStep
  <2>2. resets = 0
    BY <1>3, ResetsOnlyByReset
  <2>3. RowsTrueOfVenue /\ (\A o \in Orders : SenderTruth(o)) /\ ReconTruth
    BY <2>2, TruthParts
  <2>4. SUFFICES TrueWrites /\ (\A o \in Orders : SenderTruth(o)') /\ ReconTruth'
    <3>1. TruthInv' <=> (resets' = 0 => /\ RowsTrueOfVenue'
                                        /\ \A o \in Orders : SenderTruth(o)'
                                        /\ ReconTruth')
      BY DEF TruthInv, SenderTruth, ReconTruth
    <3> QED BY <1>3, <2>1, <2>2, <2>3, <2>4, <3>1, RowsStep
  <2>5. ASSUME NEW o \in Orders, Submit(o)
        PROVE  TrueWrites /\ (\A p \in Orders : SenderTruth(p)') /\ ReconTruth'
    <3>1. UNCHANGED <<rows, recon, venue, got>> /\ pc' = [pc EXCEPT ![o] = "stamp"] /\ pc[o] = "idle"
      BY <2>5 DEF Submit, OnlyPc, Goto
    <3>2. ReconTruth'
      BY <2>1, <2>3, <3>1, ReconTruthKept
    <3>3. \A p \in Orders : SenderTruth(p)'
      BY <2>1, <2>3, <3>1, AttemptsType DEF SenderTruth, Latest, Adopting, TypeOK, rows, Steady
    <3> QED BY <3>1, <3>2, <3>3 DEF TrueWrites, rows
  <2>6. ASSUME NEW o \in Orders, Sender(o)
        PROVE  TrueWrites /\ (\A p \in Orders : SenderTruth(p)') /\ ReconTruth'
    <3>1. TrueWrites /\ SenderTruth(o)'
      BY <2>1, <2>3, <2>6, SenderTruthStep
    <3>2. ReconTruth'
      BY <2>1, <2>3, <2>6, SenderFootprint, ReconTruthKept
    <3>3. \A p \in Orders \ {o} : pc'[p] = pc[p] /\ got'[p] = got[p] /\ att'[p] = att[p]
      BY <2>6, SenderOnlyItself
    <3>4. \A p \in Orders \ {o} : SenderTruth(p)'
      BY <2>1, <2>3, <3>3, SenderTruthKept
    <3> QED BY <3>1, <3>2, <3>4
  <2>7. CASE StartRun \/ AcceptReset \/ Reconcile
    <3>1. TrueWrites /\ ReconTruth'
      BY <2>1, <2>2, <2>3, <2>7, ReconcileTruthStep
    <3>2. UNCHANGED <<pc, got, att>>
      BY <2>7, ReconcileFootprint DEF sender
    <3>3. \A o \in Orders : SenderTruth(o)'
      BY <2>1, <2>3, <3>2, SenderTruthKept
    <3> QED BY <3>1, <3>3
  <2>8. CASE StartSweep \/ Sweep
    <3>1. UNCHANGED <<pc, got, att, ack, recon>>
      BY <2>8, SweepFootprint DEF sender
    <3>2. \A o \in Orders : status'[o] = status[o] \/ status'[o] = "canceled"
      BY <2>8, SweepWrites
    <3>3. TrueWrites
      BY <3>1, <3>2 DEF TrueWrites
    <3>4. (\A o \in Orders : SenderTruth(o)') /\ ReconTruth'
      BY <2>1, <2>3, <3>1, SenderTruthKept, ReconTruthKept
    <3> QED BY <3>3, <3>4
  <2>9. ASSUME NEW o \in Orders, NEW a \in Attempts, StreamReport(o, a)
        PROVE  TrueWrites /\ (\A p \in Orders : SenderTruth(p)') /\ ReconTruth'
    <3>1. UNCHANGED <<pc, got, att, recon>>
      BY <2>9 DEF StreamReport, sender
    <3>2. TrueWrites
      BY <2>9, StreamWrites
    <3>3. (\A p \in Orders : SenderTruth(p)') /\ ReconTruth'
      BY <2>1, <2>3, <3>1, SenderTruthKept, ReconTruthKept
    <3> QED BY <3>2, <3>3
  <2>10. CASE Crash
    <3>1. \A p \in Orders : SenderTruth(p)'
      BY <2>10 DEF Crash, SenderTruth, Adopting
    <3>2. ReconTruth'
      BY <2>10 DEF Crash, ReconTruth
    <3>3. TrueWrites
      BY <2>10 DEF Crash, TrueWrites, rows
    <3> QED BY <3>1, <3>2, <3>3
  <2>11. CASE Environment /\ ~Crash
    <3>1. UNCHANGED <<rows, pc, got, recon>>
      BY <2>11, EnvironmentFootprint DEF Kill, ClearKill, sender
    <3>2. (\A p \in Orders : SenderTruth(p)') /\ ReconTruth'
      BY <2>1, <2>3, <3>1, SenderTruthKept, ReconTruthKept DEF rows
    <3> QED BY <3>1, <3>2 DEF TrueWrites, rows
  <2> QED BY <2>5, <2>6, <2>7, <2>8, <2>9, <2>10, <2>11 DEF Next
<1> QED BY <1>1, <1>2, <1>3

\* Only transmit's kill re-check brings a sender to the claim re-read.
LEMMA RereadOnlyByKillCheck ==
    ASSUME TypeOK, [Next]_vars, NEW o \in Orders, pc[o] = "kill", pc'[o] = "reread"
    PROVE  KillCheck(o)
<1> USE DEF TypeOK
<1>1. CASE UNCHANGED vars
  BY <1>1 DEF vars, sender
<1>2. ASSUME NEW p \in Orders, Submit(p) PROVE FALSE
  BY <1>2 DEF Submit, Goto
<1>3. ASSUME NEW p \in Orders, Sender(p), p # o PROVE FALSE
  BY <1>3, SenderOnlyItself
<1>4. ASSUME Sender(o) PROVE KillCheck(o)
  BY <1>4 DEF Sender, Stamp, StandingKill, Refuse, Journal, Claim, Reread, Place,
     PlaceAcked, PlaceRejected, PlaceThrottled, PlaceAmbiguous, QueryFound, QueryNotFound,
     QueryAmbiguous, Recheck, NextAttempt, Reject, AdoptAck, AdoptStatus
<1>5. CASE StartRun \/ AcceptReset \/ Reconcile
  BY <1>5, ReconcileFootprint DEF sender
<1>6. CASE StartSweep \/ Sweep
  BY <1>6, SweepFootprint DEF sender
<1>7. ASSUME NEW p \in Orders, NEW a \in Attempts, StreamReport(p, a) PROVE FALSE
  BY <1>7 DEF StreamReport, sender
<1>8. CASE Environment
  BY <1>8 DEF Environment, VenueAccept, VenueLose, VenueWork, VenueFill, VenueExpire,
     VenueReset, Kill, ClearKill,
     Crash, sender
<1> QED BY <1>1, <1>2, <1>3, <1>4, <1>5, <1>6, <1>7, <1>8 DEF Next

-----------------------------------------------------------------------------
(* The theorems.                                                           *)

\* An empty database and a fresh process satisfy the inductive invariant.
LEMMA InitInv == Init => IInv
<1> SUFFICES ASSUME Init PROVE IInv
  OBVIOUS
<1> USE OrdersAssumption, BoundsAssumption DEF Init
<1>1. TypeOK
  <2>1. 0 \in Attempts /\ "none" \in Statuses /\ "none" \in Views
    BY DEF Attempts, Statuses, Views
  <2>2. /\ status \in [Orders -> Statuses] /\ att \in [Orders -> Attempts]
        /\ ack \in [Orders -> Attempts \cup {NoAck}]
    BY <2>1
  <2>3. /\ pc \in [Orders -> PcLabels] /\ stamp \in [Orders -> Nat]
        /\ tries \in [Orders -> Nat] /\ got \in [Orders -> Views]
    BY <2>1 DEF PcLabels
  <2>4. /\ rpc \in RpcLabels /\ phase \in {"r2", "r3", "r4"} /\ rgot \in Views
        /\ wpc \in {"idle", "list", "cancel", "status"}
    BY <2>1 DEF RpcLabels
  <2>5. /\ seen \in [Ids -> Views] /\ venue \in [Ids -> Views \cup {"wire"}]
        /\ executed \in [Ids -> 0..Lots] /\ booked \in [Ids -> 0..Lots]
    BY <2>1
  <2>6. /\ journaled = {} /\ claimed = {} /\ revoked = {} /\ poisoned = {}
        /\ rtodo = {} /\ rcur = {} /\ wtodo = {} /\ wcur = {}
    OBVIOUS
  <2>7. /\ alarmed = FALSE /\ reconciled = FALSE /\ resetPending = FALSE /\ started = FALSE
        /\ killEpoch = 0 /\ clearedEpoch = 0
        /\ faults = 0 /\ crashes = 0 /\ sweeps = 0 /\ resets = 0
    OBVIOUS
  <2> HIDE DEF Init
  <2> QED BY <2>2, <2>3, <2>4, <2>5, <2>6, <2>7 DEF TypeOK
<1>2. JournalInv /\ PoisonInv
  BY DEF JournalInv, PoisonInv, Unclaimed, Transmitting, Resolved, Adopting, Ids
<1>3. KillInv /\ GateInv
  BY DEF KillInv, GateInv, StartupReconcileFirst
<1>4. CarryInv /\ FillInv /\ TruthInv
  BY DEF CarryInv, FillInv, TruthInv, RowsTrueOfVenue, Adopting, NoAck
<1> QED BY <1>1, <1>2, <1>3, <1>4 DEF IInv

\* Every handler, venue event and crash preserves the inductive invariant.
LEMMA StepInv == IInv /\ [Next]_vars => IInv'
<1> SUFFICES ASSUME IInv, [Next]_vars PROVE IInv'
  OBVIOUS
<1>1. CASE UNCHANGED vars
  BY <1>1 DEF vars, rows, intents, kills, trades, memory, sender, recon, sweep, bounds, IInv, TypeOK,
     JournalInv, PoisonInv, KillInv, GateInv, CarryInv, FillInv, TruthInv, RowsTrueOfVenue,
     StartupReconcileFirst, Latest, Covers, Total
<1>2. CASE Next
  <2>1. TypeOK'
    BY <1>2, TypeStep DEF IInv
  <2>2. JournalInv' /\ PoisonInv'
    BY <1>2, JournalStep DEF IInv
  <2>3. KillInv' /\ GateInv' /\ CarryInv'
    BY <1>2, <2>1, KillStep, GateStep, CarryStep DEF IInv
  <2>4. FillInv' /\ TruthInv'
    BY <1>2, <2>1, FillStep, TruthStep DEF IInv, FillKept
  <2> QED BY <2>1, <2>2, <2>3, <2>4 DEF IInv
<1> QED BY <1>1, <1>2

\* IInv is an invariant of every instance: whatever the orders, the attempt
\* ceiling, the number of tries, faults, crashes, sweeps, kills and resets.
THEOREM Invariance == Spec => []IInv
BY InitInv, StepInv, PTL DEF Spec

\* Rows, journal, memory and goroutines stay within their types; the attempt
\* digit never passes MaxAttempt (clientorderid's single digit).
THEOREM TypeCorrectness == Spec => []TypeOK
<1>1. IInv => TypeOK
  BY DEF IInv
<1> QED BY <1>1, Invariance, PTL

\* Nothing is on the wire or at the venue that was not journaled and claimed.
THEOREM JournaledBeforeSent == Spec => []JournalBeforeSend
<1>1. IInv => JournalBeforeSend
  BY DEF IInv, JournalInv, JournalBeforeSend
<1> QED BY <1>1, Invariance, PTL

\* A second attempt of an order is sent only after all earlier ones were
\* resolved NotFound.
THEOREM DuplicateNeedsPoison == Spec => []DuplicateOnlyIfPoisoned
<1>1. IInv => DuplicateOnlyIfPoisoned
  <2> SUFFICES ASSUME IInv, NEW o \in Orders, NEW a \in Attempts, NEW b \in Attempts,
                      a < b, venue[<<o, b>>] # "none"
               PROVE  <<o, a>> \in poisoned
    BY DEF DuplicateOnlyIfPoisoned
  <2>1. <<o, b>> \in journaled
    BY DEF IInv, JournalInv, Ids
  <2> QED BY <2>1 DEF IInv, JournalInv
<1> QED BY <1>1, Invariance, PTL

\* No submission is under way before the process finished a startup run.
THEOREM ReconciledFirst == Spec => []StartupReconcileFirst
<1>1. IInv => StartupReconcileFirst
  BY DEF IInv, GateInv
<1> QED BY <1>1, Invariance, PTL

\* What orders.status and orders.exchange_order_id say is true of the venue.
THEOREM RowsAreTrue == Spec => []RowsTrueOfVenue
<1>1. IInv => RowsTrueOfVenue
  BY DEF IInv, TruthInv, RowsTrueOfVenue
<1> QED BY <1>1, Invariance, PTL

\* The venue learns of an attempt only when its sender places it.
LEMMA SentOnlyByPlace ==
    ASSUME IInv, [Next]_vars, NEW id \in Ids, venue[id] = "none", venue'[id] # "none"
    PROVE  \E o \in Orders : pc[o] = "send" /\ id = Latest(o)
<1> USE DEF IInv, TypeOK, bounds
<1>1. CASE UNCHANGED vars
  BY <1>1 DEF vars
<1>2. ASSUME NEW o \in Orders, Place(o) PROVE pc[o] = "send" /\ id = Latest(o)
  BY <1>2 DEF Place
<1>3. ASSUME NEW o \in Orders, Sender(o), ~Place(o) PROVE FALSE
  BY <1>3 DEF Sender, OnlyPc, Stamp, StandingKill, Refuse, Journal, Claim, KillCheck, Reread,
     PlaceAcked, PlaceRejected, PlaceThrottled, PlaceAmbiguous, QueryFound, QueryNotFound,
     QueryAmbiguous, Recheck, NextAttempt, Reject, AdoptAck, AdoptStatus
<1>4. ASSUME NEW o \in Orders, Submit(o) PROVE FALSE
  BY <1>4 DEF Submit, OnlyPc
<1>5. CASE StartRun \/ AcceptReset \/ Reconcile
  BY <1>5, ReconcileFootprint DEF OnlyCanceled, VenueLive
<1>6. CASE StartSweep \/ Sweep
  BY <1>6, SweepFootprint DEF OnlyCanceled, VenueLive
<1>7. ASSUME NEW o \in Orders, NEW a \in Attempts, StreamReport(o, a) PROVE FALSE
  BY <1>7 DEF StreamReport
<1>8. CASE Environment
  BY <1>8 DEF Environment, VenueAccept, VenueLose, VenueWork, VenueFill, VenueExpire,
     VenueReset, Kill, ClearKill,
     Crash, VenueLive
<1> QED BY <1>1, <1>2, <1>3, <1>4, <1>5, <1>6, <1>7, <1>8 DEF Next

\* An id that was resolved NotFound is never sent again.
THEOREM PoisonIsFinal == Spec => PoisonedNeverResent
<1>1. IInv /\ [Next]_vars =>
        [\A id \in poisoned : venue[id] = "none" => venue'[id] = "none"]_vars
  <2> SUFFICES ASSUME IInv, [Next]_vars, NEW id \in poisoned,
                      venue[id] = "none", venue'[id] # "none"
               PROVE  FALSE
    OBVIOUS
  <2>1. PICK o \in Orders : pc[o] = "send" /\ id = Latest(o)
    BY SentOnlyByPlace DEF IInv, TypeOK
  <2> QED BY <2>1 DEF IInv, PoisonInv, Transmitting
<1> QED BY <1>1, Invariance, PTL DEF Spec, PoisonedNeverResent

\* An entry passes its pre-send kill re-check only while no kill is active.
THEOREM KillsBind == Spec => KillBindsSend
<1>1. IInv /\ [Next]_vars =>
        [\A o \in Entries : pc[o] = "kill" /\ pc'[o] = "reread" => ~ActiveKill]_vars
  <2> SUFFICES ASSUME IInv, [Next]_vars, NEW o \in Entries, pc[o] = "kill", pc'[o] = "reread"
               PROVE  ~ActiveKill
    OBVIOUS
  <2>1. KillCheck(o)
    BY OrdersAssumption, RereadOnlyByKillCheck DEF IInv
  <2>2. ~(killEpoch > stamp[o])
    BY <2>1, OrdersAssumption DEF KillCheck, Goto, IInv, TypeOK
  <2>3. stamp[o] <= clearedEpoch
    BY DEF IInv, KillInv
  <2> QED BY <2>2, <2>3, OrdersAssumption DEF ActiveKill, IInv, TypeOK
<1> QED BY <1>1, Invariance, PTL DEF Spec, KillBindsSend

\* Only a sender whose claim re-read found no revocation comes to the send.
LEMMA SendOnlyByReread ==
    ASSUME TypeOK, [Next]_vars, NEW o \in Orders, pc[o] # "send", pc'[o] = "send"
    PROVE  Reread(o)
<1> USE DEF TypeOK
<1>1. CASE UNCHANGED vars
  BY <1>1 DEF vars, sender
<1>2. ASSUME NEW p \in Orders, Submit(p) PROVE FALSE
  BY <1>2 DEF Submit, Goto
<1>3. ASSUME NEW p \in Orders, Sender(p), p # o PROVE FALSE
  BY <1>3, SenderOnlyItself
<1>4. ASSUME Sender(o) PROVE Reread(o)
  BY <1>4 DEF Goto, Sender, Stamp, StandingKill, Refuse, Journal, Claim, KillCheck, Place,
     PlaceAcked, PlaceRejected, PlaceThrottled, PlaceAmbiguous, QueryFound, QueryNotFound,
     QueryAmbiguous, Recheck, NextAttempt, Reject, AdoptAck, AdoptStatus
<1>5. CASE StartRun \/ AcceptReset \/ Reconcile
  BY <1>5, ReconcileFootprint DEF sender
<1>6. CASE StartSweep \/ Sweep
  BY <1>6, SweepFootprint DEF sender
<1>7. ASSUME NEW p \in Orders, NEW a \in Attempts, StreamReport(p, a) PROVE FALSE
  BY <1>7 DEF StreamReport, sender
<1>8. CASE Environment
  BY <1>8 DEF Environment, VenueAccept, VenueLose, VenueWork, VenueFill, VenueExpire,
     VenueReset, Kill, ClearKill,
     Crash, sender
<1> QED BY <1>1, <1>2, <1>3, <1>4, <1>5, <1>6, <1>7, <1>8 DEF Next

\* The send counter never rests on an id that the step moved the order to.
LEMMA AttemptKeptAtSend ==
    ASSUME TypeOK, [Next]_vars, NEW o \in Orders, pc'[o] = "send"
    PROVE  att'[o] = att[o]
<1> USE DEF TypeOK
<1>1. CASE UNCHANGED vars
  BY <1>1 DEF vars, rows
<1>2. ASSUME NEW p \in Orders, Submit(p) PROVE att'[o] = att[o]
  BY <1>2 DEF Submit, OnlyPc, rows
<1>3. ASSUME NEW p \in Orders, Sender(p), p # o PROVE att'[o] = att[o]
  BY <1>3, SenderOnlyItself
<1>4. ASSUME Sender(o) PROVE att'[o] = att[o]
  BY <1>4 DEF rows, OnlyPc, Goto, Sender, Stamp, StandingKill, Refuse, Journal, Claim,
     KillCheck, Reread, Place, PlaceAcked, PlaceRejected, PlaceThrottled, PlaceAmbiguous,
     QueryFound, QueryNotFound, QueryAmbiguous, Recheck, NextAttempt, Reject, AdoptAck,
     AdoptStatus
<1>5. CASE StartRun \/ AcceptReset \/ Reconcile
  BY <1>5, ReconcileFootprint
<1>6. CASE StartSweep \/ Sweep
  BY <1>6, SweepFootprint
<1>7. ASSUME NEW p \in Orders, NEW a \in Attempts, StreamReport(p, a) PROVE att'[o] = att[o]
  BY <1>7 DEF StreamReport
<1>8. CASE Environment
  BY <1>8 DEF Environment, VenueAccept, VenueLose, VenueWork, VenueFill, VenueExpire,
     VenueReset, Kill, ClearKill,
     Crash, rows
<1> QED BY <1>1, <1>2, <1>3, <1>4, <1>5, <1>6, <1>7, <1>8 DEF Next

\* Once a claim is revoked and its sender is not past the re-read, no step
\* brings it to the send or to the venue.
THEOREM RevocationIsFinal == Spec => RevokedNeverSent
<1>1. IInv /\ [Next]_vars => [\A id \in revoked : Unsent(id) => Unsent(id)']_vars
  <2> SUFFICES ASSUME IInv, [Next]_vars, NEW id \in revoked, Unsent(id)
               PROVE  Unsent(id)'
    OBVIOUS
  <2>1. id \in Ids /\ id[1] \in Orders
    BY DEF IInv, TypeOK, Ids
  <2>2. venue'[id] = "none"
    <3> SUFFICES ASSUME venue'[id] # "none" PROVE FALSE
      OBVIOUS
    <3>1. PICK o \in Orders : pc[o] = "send" /\ id = Latest(o)
      BY <2>1, SentOnlyByPlace DEF Unsent
    <3>2. id[1] = o
      BY <3>1 DEF Latest
    <3> QED BY <3>1, <3>2 DEF Unsent
  <2>3. ~(id = Latest(id[1])' /\ pc'[id[1]] = "send")
    <3> SUFFICES ASSUME id = Latest(id[1])', pc'[id[1]] = "send" PROVE FALSE
      OBVIOUS
    <3>1. id = Latest(id[1])
      BY <2>1, AttemptKeptAtSend DEF Latest, IInv
    <3>2. pc[id[1]] # "send"
      BY <3>1 DEF Unsent
    <3>3. Reread(id[1])
      BY <2>1, <3>2, SendOnlyByReread DEF IInv
    <3> QED BY <2>1, <3>1, <3>3 DEF Reread, Goto, IInv, TypeOK
  <2> QED BY <2>2, <2>3 DEF Unsent
<1> QED BY <1>1, Invariance, PTL DEF Spec, RevokedNeverSent

-----------------------------------------------------------------------------
(* OrderJournal implements AttemptLedger for every value of the constants. *)
(* Every step of a sender is a step of the ledger or a stutter; the other  *)
(* parties can only bar attempts, make them vanish from the exchange, or   *)
(* stop a sender before it transmits.                                      *)

\* The ledger sees the attempts of OrderJournal.
LEMMA SameIds == Ledger!AttemptIds = Ids
BY DEF Ledger!AttemptIds, Ids, Attempts

\* A step that changes no row of the ledger, no counter of a sender and no
\* attempt that the exchange has is a stutter of the ledger.
LEMMA Stutters ==
    ASSUME UNCHANGED <<att, journaled, claimed, revoked, poisoned, pc>>,
           \A id \in Ids : (venue'[id] = "none") <=> (venue[id] = "none")
    PROVE  UNCHANGED Ledger!ledgerVars
BY DEF Ledger!ledgerVars, ArmedIds, OutIds, Latest

\* A step that only revokes a claim bars one attempt.
LEMMA Bars ==
    ASSUME UNCHANGED <<att, journaled, claimed, poisoned, pc>>,
           NEW id \in Ids, revoked' = revoked \cup {id},
           \A i \in Ids : (venue'[i] = "none") <=> (venue[i] = "none")
    PROVE  Ledger!LedgerNext
<1>1. Ledger!Bar(id)
  BY DEF Ledger!Bar, ArmedIds, OutIds, Latest
<1> QED BY <1>1, SameIds DEF Ledger!LedgerNext

\* A step after which the exchange has fewer attempts.
LEMMA Vanishes ==
    ASSUME UNCHANGED <<att, journaled, claimed, revoked, poisoned>>,
           \A id \in Ids : venue[id] = "none" => venue'[id] = "none",
           ArmedIds' = ArmedIds
    PROVE  Ledger!LedgerNext
<1> DEFINE gone == {id \in Ids : venue[id] # "none" /\ venue'[id] = "none"}
<1>1. Ledger!Vanish(gone)
  BY DEF Ledger!Vanish, OutIds
<1>2. gone \in SUBSET Ledger!AttemptIds
  BY SameIds
<1> HIDE DEF gone
<1> QED BY <1>1, <1>2 DEF Ledger!LedgerNext, Ledger!Vanish

\* A sender that moves its counter between two places that are not the send
\* leaves the armed attempts as they are.
LEMMA ArmedKept ==
    ASSUME TypeOK, NEW o \in Orders, NEW l, l # "send", pc[o] # "send", Goto(o, l),
           \A p \in Orders \ {o} : att'[p] = att[p]
    PROVE  ArmedIds' = ArmedIds
BY DEF TypeOK, Goto, ArmedIds, Latest, Ids

-----------------------------------------------------------------------------
(* The sender's steps.                                                     *)

\* Everything a sender does to the journal and the exchange is a step of the
\* ledger: journal, claim, arm, transmit, vanish, abandon (journalAndSend,
\* sendIntent, transmit, resolveAmbiguous).
LEMMA SenderImplements ==
    ASSUME IInv, NEW o \in Orders, Sender(o)
    PROVE  Ledger!LedgerNext \/ UNCHANGED Ledger!ledgerVars
<1> USE DEF IInv, TypeOK, rows, intents, OutIds
<1>0. TypeOK
  OBVIOUS
<1>1. CASE Journal(o)
  <2>1. ArmedIds' = ArmedIds
    BY <1>0, <1>1, ArmedKept DEF Journal
  <2>2. <<o, 0>> \in Ids /\ Ledger!Earlier(<<o, 0>>) = {}
    BY AttemptsType, SameIds, BoundsAssumption DEF Ledger!Earlier, Ids, Attempts
  <2>3. Ledger!Write(<<o, 0>>)
    BY <1>1, <2>1, <2>2 DEF Journal, Ledger!Write
  <2> QED BY <2>2, <2>3, SameIds DEF Ledger!LedgerNext
<1>2. CASE Claim(o)
  <2>1. ArmedIds' = ArmedIds
    BY <1>0, <1>2, ArmedKept DEF Claim
  <2>2. CASE Claimable(Latest(o)) /\ claimed' = claimed \cup {Latest(o)}
    <3>1. Ledger!Hold(Latest(o))
      BY <1>2, <2>1, <2>2 DEF Claim, Ledger!Hold, Claimable
    <3> QED BY <3>1, AttemptsType, SameIds DEF Ledger!LedgerNext
  <2>3. CASE UNCHANGED claimed
    BY <1>2, <2>1, <2>3 DEF Claim, Ledger!ledgerVars
  <2> QED BY <1>2, <2>2, <2>3 DEF Claim
<1>3. CASE Reread(o)
  <2>1. CASE Latest(o) \in revoked
    <3>1. ArmedIds' = ArmedIds
      BY <1>0, <1>3, <2>1, ArmedKept DEF Reread, OnlyPc
    <3> QED BY <1>3, <3>1 DEF Reread, OnlyPc, Ledger!ledgerVars
  <2>2. CASE Latest(o) \notin revoked
    <3>1. ArmedIds' = ArmedIds \cup {Latest(o)}
      BY <1>3, <2>2, AttemptsType DEF Reread, OnlyPc, Goto, ArmedIds, Latest, Ids
    <3>2. Latest(o) \in claimed \ poisoned
      BY <1>3 DEF Reread, JournalInv, PoisonInv, Transmitting
    <3>3. Ledger!Arm(Latest(o))
      BY <1>3, <2>2, <3>1, <3>2 DEF Reread, OnlyPc, Ledger!Arm
    <3> QED BY <3>3, AttemptsType, SameIds DEF Ledger!LedgerNext
  <2> QED BY <2>1, <2>2
<1>4. CASE Place(o)
  <2>1. Latest(o) \in ArmedIds
    BY <1>4, AttemptsType DEF Place, ArmedIds, Latest
  <2>2. ArmedIds' = ArmedIds \ {Latest(o)}
    BY <1>4, AttemptsType DEF Place, Goto, ArmedIds, Latest, Ids
  <2>3. OutIds' = OutIds \cup {Latest(o)}
    BY <1>4, AttemptsType DEF Place, OutIds
  <2>4. Ledger!Transmit(Latest(o))
    BY <1>4, <2>1, <2>2, <2>3 DEF Place, Ledger!Transmit
  <2>5. Latest(o) \in Ledger!AttemptIds
    BY <1>0, AttemptsType, SameIds
  <2> QED BY <2>4, <2>5 DEF Ledger!LedgerNext, Ledger!Transmit
<1>5. CASE PlaceRejected(o)
  <2>1. ArmedIds' = ArmedIds
    BY <1>0, <1>5, ArmedKept DEF PlaceRejected
  <2> QED BY <1>5, <2>1, Vanishes DEF PlaceRejected
<1>6. CASE PlaceThrottled(o)
  <2>1. ArmedIds' = ArmedIds
    BY <1>0, <1>6, ArmedKept DEF PlaceThrottled
  <2> QED BY <1>6, <2>1, Vanishes DEF PlaceThrottled
<1>7. CASE QueryNotFound(o)
  <2>1. ArmedIds' = ArmedIds
    BY <1>0, <1>7, ArmedKept DEF QueryNotFound
  <2>2. Latest(o) \in claimed \ ArmedIds
    BY <1>7 DEF QueryNotFound, JournalInv, Transmitting, ArmedIds, Latest
  <2>3. Ledger!Abandon(Latest(o))
    BY <1>7, <2>1, <2>2 DEF QueryNotFound, Ledger!Abandon
  <2> QED BY <2>3, AttemptsType, SameIds DEF Ledger!LedgerNext
<1>8. CASE NextAttempt(o)
  <2> DEFINE next == <<o, att[o] + 1>>
  <2>1. att[o] \in Nat /\ next \in Ids
    BY <1>8, AttemptsType DEF NextAttempt, PoisonInv, Ids
  <2>2. ArmedIds' = ArmedIds
    BY <1>0, <1>8, ArmedKept DEF NextAttempt
  <2>3. Latest(o) \in poisoned /\ Latest(o) \in journaled
    BY <1>8 DEF NextAttempt, PoisonInv, JournalInv, Resolved
  <2>4. ASSUME NEW e \in Ids, e[1] = o, e[2] < att[o] + 1 PROVE e \in poisoned
    <3>1. e[2] \in Attempts /\ e = <<o, e[2]>>
      BY <2>4 DEF Ids
    <3>2. CASE e[2] = att[o]
      BY <2>3, <3>1, <3>2 DEF Latest
    <3>3. CASE e[2] < att[o]
      BY <2>3, <3>1, <3>3 DEF Latest, JournalInv
    <3> QED BY <2>1, <2>4, <3>1, <3>2, <3>3, BelowNext
  <2>5. Ledger!Earlier(next) \subseteq poisoned
    BY <2>4, SameIds DEF Ledger!Earlier
  <2>6. Ledger!Write(next)
    BY <1>8, <2>2, <2>5 DEF NextAttempt, Ledger!Write
  <2> QED BY <2>1, <2>6, SameIds DEF Ledger!LedgerNext
<1>9. CASE Stamp(o) \/ StandingKill(o) \/ Refuse(o) \/ KillCheck(o)
  <2>1. ArmedIds' = ArmedIds
    BY <1>9 DEF Stamp, StandingKill, Refuse, KillCheck, OnlyPc, Goto, ArmedIds, Latest, Ids
  <2> QED
    BY <1>9, <2>1 DEF Stamp, StandingKill, Refuse, KillCheck, OnlyPc, Ledger!ledgerVars
<1>10. CASE PlaceAcked(o) \/ PlaceAmbiguous(o) \/ QueryFound(o) \/ QueryAmbiguous(o)
  <2>1. ArmedIds' = ArmedIds
    BY <1>10 DEF PlaceAcked, PlaceAmbiguous, QueryFound, QueryAmbiguous, Goto, ArmedIds,
       Latest, Ids
  <2> QED
    BY <1>10, <2>1 DEF PlaceAcked, PlaceAmbiguous, QueryFound, QueryAmbiguous,
       Ledger!ledgerVars
<1>11. CASE Recheck(o) \/ Reject(o) \/ AdoptAck(o) \/ AdoptStatus(o)
  <2>1. ArmedIds' = ArmedIds
    BY <1>11 DEF Recheck, Reject, AdoptAck, AdoptStatus, OnlyPc, Goto, ArmedIds, Latest, Ids
  <2> QED
    BY <1>11, <2>1 DEF Recheck, Reject, AdoptAck, AdoptStatus, OnlyPc, Ledger!ledgerVars
<1> QED
  BY <1>1, <1>2, <1>3, <1>4, <1>5, <1>6, <1>7, <1>8, <1>9, <1>10, <1>11 DEF Sender

-----------------------------------------------------------------------------
(* Everybody else's steps.                                                 *)

\* The reconciler and the sweeps bar attempts and cancel what rests.
LEMMA OthersImplement ==
    ASSUME IInv, StartRun \/ AcceptReset \/ Reconcile \/ StartSweep \/ Sweep
    PROVE  Ledger!LedgerNext \/ UNCHANGED Ledger!ledgerVars
<1> USE DEF IInv
<1>1. UNCHANGED <<att, journaled, claimed, poisoned, pc>> /\ OnlyCanceled
  BY ReconcileFootprint, SweepFootprint DEF sender
<1>2. \A id \in Ids : (venue'[id] = "none") <=> (venue[id] = "none")
  BY <1>1 DEF OnlyCanceled, VenueLive
<1>3. revoked' = revoked \/ \E id \in Ids : revoked' = revoked \cup {id}
  <2>1. CASE NextIntent
    BY <2>1 DEF NextIntent, TypeOK, Work
  <2>2. CASE SweepNext
    BY <2>2 DEF SweepNext, TypeOK, Work
  <2>3. CASE ~NextIntent /\ ~SweepNext
    BY <2>3 DEF intents, StartRun, AcceptReset, Reconcile, LoadFilters, ListIntents,
       QueryIntent, ReconAck, ReconStatus, ResolveAbsent, SweepOpenOrders,
       ClassifyVenueOpen, CancelVenueOrphan, ListAbsences, AbsenceCheck, FlagVenueReset,
       Backfill, FinishRun, StartSweep, Sweep, SweepCancel, SweepStatus, EndSweep
  <2> QED BY <2>1, <2>2, <2>3
<1> QED BY <1>1, <1>2, <1>3, Stutters, Bars

\* The exchange accepts, loses, works and forgets; the operator kills and
\* clears; the process dies before it transmits.
LEMMA EnvironmentImplements ==
    ASSUME IInv, Environment
    PROVE  Ledger!LedgerNext \/ UNCHANGED Ledger!ledgerVars
<1> USE DEF IInv, TypeOK, rows, intents, sender, OutIds
<1>1. CASE \E id \in Ids : VenueAccept(id) \/ VenueWork(id)
  <2>1. \A id \in Ids : (venue'[id] = "none") <=> (venue[id] = "none")
    BY <1>1 DEF VenueAccept, VenueWork, VenueFill, VenueExpire, VenueLive
  <2> QED BY <1>1, <2>1, Stutters DEF VenueAccept, VenueWork, VenueFill, VenueExpire
<1>2. CASE (\E id \in Ids : VenueLose(id)) \/ VenueReset
  <2>1. \A id \in Ids : venue[id] = "none" => venue'[id] = "none"
    BY <1>2 DEF VenueLose, VenueReset
  <2>2. UNCHANGED <<att, journaled, claimed, revoked, poisoned, pc>>
    BY <1>2 DEF VenueLose, VenueReset
  <2>3. ArmedIds' = ArmedIds
    BY <2>2 DEF ArmedIds, Latest
  <2> QED BY <2>1, <2>2, <2>3, Vanishes
<1>3. CASE Kill \/ ClearKill
  BY <1>3, Stutters DEF Kill, ClearKill
<1>4. CASE Crash
  <2>1. ArmedIds' = {}
    BY <1>4 DEF Crash, ArmedIds, Ids
  <2>2. CASE ArmedIds = {}
    BY <1>4, <2>1, <2>2 DEF Crash, Ledger!ledgerVars
  <2>3. CASE ArmedIds # {}
    BY <1>4, <2>1, <2>3 DEF Crash, Ledger!Disarm, Ledger!LedgerNext
  <2> QED BY <2>2, <2>3
<1> QED BY <1>1, <1>2, <1>3, <1>4 DEF Environment

\* The live OMS implements the ledger of attempts.
THEOREM LedgerImplemented == Spec => ImplementsLedger
<1>1. Init => Ledger!LedgerInit
  BY DEF Init, Ledger!LedgerInit, ArmedIds, OutIds, Ids
<1>2. IInv /\ [Next]_vars => [Ledger!LedgerNext]_Ledger!ledgerVars
  <2> SUFFICES ASSUME IInv, [Next]_vars
               PROVE  Ledger!LedgerNext \/ UNCHANGED Ledger!ledgerVars
    OBVIOUS
  <2>1. CASE UNCHANGED vars
    BY <2>1, Stutters DEF vars, rows, intents, sender
  <2>2. ASSUME NEW o \in Orders, Submit(o)
        PROVE  UNCHANGED Ledger!ledgerVars
    <3>1. ArmedIds' = ArmedIds
      BY <2>2, ArmedKept DEF IInv, Submit, OnlyPc, rows
    <3> QED BY <2>2, <3>1 DEF Submit, OnlyPc, rows, intents, OutIds, Ledger!ledgerVars
  <2>3. ASSUME NEW o \in Orders, NEW a \in Attempts, StreamReport(o, a)
        PROVE  UNCHANGED Ledger!ledgerVars
    BY <2>3, Stutters DEF StreamReport, intents, sender
  <2> QED
    BY <2>1, <2>2, <2>3, SenderImplements, OthersImplement, EnvironmentImplements DEF Next
<1> QED BY <1>1, <1>2, Invariance, PTL DEF Spec, ImplementsLedger, Ledger!LedgerSpec

-----------------------------------------------------------------------------
(* What the ledger guarantees, and so the live OMS.                        *)

\* The ledger's own invariant is inductive.
LEMMA LedgerInvariance == Ledger!LedgerSpec => []Ledger!LedgerInv
<1>1. Ledger!LedgerInit => Ledger!LedgerInv
  BY DEF Ledger!LedgerInit, Ledger!LedgerInv, Ledger!LedgerTypeOK
<1>2. Ledger!LedgerInv /\ [Ledger!LedgerNext]_Ledger!ledgerVars => Ledger!LedgerInv'
  <2> SUFFICES ASSUME Ledger!LedgerInv, [Ledger!LedgerNext]_Ledger!ledgerVars
               PROVE  Ledger!LedgerInv'
    OBVIOUS
  <2> USE DEF Ledger!LedgerInv, Ledger!LedgerTypeOK, Ledger!Earlier
  <2>1. CASE UNCHANGED Ledger!ledgerVars
    BY <2>1 DEF Ledger!ledgerVars
  <2>2. ASSUME NEW id \in Ledger!AttemptIds, Ledger!Write(id) PROVE Ledger!LedgerInv'
    BY <2>2 DEF Ledger!Write
  <2>3. ASSUME NEW id \in Ledger!AttemptIds, Ledger!Hold(id) PROVE Ledger!LedgerInv'
    BY <2>3 DEF Ledger!Hold
  <2>4. ASSUME NEW id \in Ledger!AttemptIds, Ledger!Bar(id) PROVE Ledger!LedgerInv'
    BY <2>4 DEF Ledger!Bar
  <2>5. ASSUME NEW id \in Ledger!AttemptIds, Ledger!Arm(id) PROVE Ledger!LedgerInv'
    BY <2>5 DEF Ledger!Arm
  <2>6. ASSUME NEW id \in Ledger!AttemptIds, Ledger!Transmit(id) PROVE Ledger!LedgerInv'
    BY <2>6 DEF Ledger!Transmit
  <2>7. ASSUME NEW id \in Ledger!AttemptIds, Ledger!Abandon(id) PROVE Ledger!LedgerInv'
    BY <2>7 DEF Ledger!Abandon
  <2>8. CASE Ledger!Disarm
    BY <2>8 DEF Ledger!Disarm
  <2>9. ASSUME NEW ids \in SUBSET Ledger!AttemptIds, Ledger!Vanish(ids)
        PROVE  Ledger!LedgerInv'
    BY <2>9 DEF Ledger!Vanish
  <2> QED
    BY <2>1, <2>2, <2>3, <2>4, <2>5, <2>6, <2>7, <2>8, <2>9 DEF Ledger!LedgerNext
<1> QED BY <1>1, <1>2, PTL DEF Ledger!LedgerSpec

\* Of the attempts of one order at most one stands at the exchange, or is on
\* its way, without having been resolved absent.
THEOREM OneAttemptStands == Spec => []Ledger!AtMostOneStands
<1>1. Ledger!LedgerInv => Ledger!AtMostOneStands
  <2> SUFFICES ASSUME Ledger!LedgerInv,
                      NEW i \in OutIds \ poisoned,
                      NEW j \in OutIds \ poisoned,
                      i[1] = j[1], i # j
               PROVE  FALSE
    BY DEF Ledger!AtMostOneStands
  <2>1. i \in journaled /\ j \in journaled
    BY DEF Ledger!LedgerInv
  <2>2. i[2] # j[2] /\ i[2] \in Nat /\ j[2] \in Nat
    BY BoundsAssumption DEF OutIds, Ids, Attempts
  <2>3. i[2] < j[2] => i \in Ledger!Earlier(j)
    BY SameIds DEF Ledger!Earlier, OutIds
  <2>4. j[2] < i[2] => j \in Ledger!Earlier(i)
    BY SameIds DEF Ledger!Earlier, OutIds
  <2> QED BY <2>1, <2>2, <2>3, <2>4 DEF Ledger!LedgerInv
<1> QED BY <1>1, LedgerImplemented, LedgerInvariance, PTL DEF ImplementsLedger

=============================================================================
