-------------------------- MODULE Lifecycle_proofs --------------------------
(***************************************************************************)
(* Proofs about Lifecycle for every set of strategies and tenants and      *)
(* every bound.  IInv (module Lifecycle) is inductive: it carries the      *)
(* locks of a kill.  RecordInv, inductive together with it, carries what   *)
(* the audit trail says of a strategy's paper life; the scan that reads    *)
(* the trail is shown to compute what LC-16 defines.                       *)
(***************************************************************************)
EXTENDS Lifecycle, WellFoundedInduction, TLAPS

-----------------------------------------------------------------------------
(* Operators.                                                              *)

\* ORDER BY ... DESC LIMIT 1 has a row whenever the selection is not empty.
LEMMA LastExists ==
    ASSUME NEW n \in Nat, NEW I \in SUBSET (1..n), I # {}
    PROVE  \E i \in I : IsLast(i, I)
<1> DEFINE T == {n - i : i \in I}
<1>1. T \subseteq Nat /\ T # {}
  <2>1. \A i \in I : n - i \in Nat
    OBVIOUS
  <2>2. PICK i \in I : TRUE
    OBVIOUS
  <2>3. n - i \in T
    OBVIOUS
  <2> QED
    BY <2>1, <2>3
<1>2. PICK x \in T : \A y \in T : ~(<<y, x>> \in OpToRel(<, Nat))
  BY <1>1, NatLessThanWellFounded, WFMin
<1>3. \A y \in T : ~(y < x)
  BY <1>1, <1>2 DEF OpToRel
<1>4. PICK i \in I : x = n - i
  BY <1>2
<1>5. \A j \in I : j <= i
  <2> TAKE j \in I
  <2>1. n - j \in T
    OBVIOUS
  <2>2. ~(n - j < n - i)
    BY <1>3, <1>4, <2>1
  <2> QED
    BY <2>2
<1> QED
  BY <1>4, <1>5 DEF IsLast

\* The provenance of a pause is a state that the audit trail names.
LEMMA ProvenanceType ==
    ASSUME TypeOK, NEW s \in Strategies
    PROVE  PausedProvenance(s) \in States \cup {None}
<1> DEFINE I == RowsTo(s, "paused")
<1>1. hist[s] \in Seq(Row) /\ DOMAIN hist[s] = 1..Len(hist[s]) /\ Len(hist[s]) \in Nat
  BY DEF TypeOK
<1>2. I \in SUBSET (1..Len(hist[s]))
  BY <1>1 DEF RowsTo
<1>3. CASE I = {}
  BY <1>3 DEF PausedProvenance
<1>4. CASE I # {}
  <2>1. \E i \in I : IsLast(i, I)
    BY <1>1, <1>2, <1>4, LastExists
  <2>2. (CHOOSE i \in I : IsLast(i, I)) \in I
    BY <2>1
  <2>3. \A i \in I : hist[s][i].from \in States
    <3> TAKE i \in I
    <3>1. i \in 1..Len(hist[s])
      BY <1>2
    <3>2. hist[s][i] \in Row
      BY <1>1, <3>1
    <3> QED
      BY <3>2 DEF Row
  <2> HIDE DEF I
  <2>4. hist[s][CHOOSE i \in I : IsLast(i, I)].from \in States
    BY <2>2, <2>3
  <2> USE DEF I
  <2> QED
    BY <1>4, <2>4 DEF PausedProvenance
<1> QED
  BY <1>3, <1>4

\* A transition appends one row and moves one strategy; the trail stays a chain
\* because the row starts where the strategy is.
LEMMA AdvanceStep ==
    ASSUME TypeOK, AuditTrailIsChain, NEW s \in Strategies, NEW to \in States,
           NEW at \in Times, Transition(s, life[s], to, at)
    PROVE  /\ life' \in [Strategies -> States]
           /\ hist' \in [Strategies -> Seq(Row)]
           /\ AuditTrailIsChain'
           /\ \A r \in Strategies : life'[r] = IF r = s THEN to ELSE life[r]
<1> DEFINE row == [from |-> life[s], to |-> to, at |-> at]
<1>1. row \in Row /\ hist[s] \in Seq(Row) /\ life[s] \in States
  BY DEF TypeOK, Row
<1>2. /\ life' = [life EXCEPT ![s] = to]
      /\ hist' = [hist EXCEPT ![s] = Append(hist[s], row)]
  BY DEF Transition
<1>3. /\ life' \in [Strategies -> States]
      /\ \A r \in Strategies : life'[r] = IF r = s THEN to ELSE life[r]
  BY <1>2 DEF TypeOK
<1>4. /\ Append(hist[s], row) \in Seq(Row)
      /\ Len(Append(hist[s], row)) = Len(hist[s]) + 1
      /\ \A i \in 1..Len(hist[s]) : Append(hist[s], row)[i] = hist[s][i]
      /\ Append(hist[s], row)[Len(hist[s]) + 1] = row
      /\ Len(hist[s]) \in Nat
  BY <1>1
<1> HIDE DEF row
<1>5. hist' \in [Strategies -> Seq(Row)]
  BY <1>2, <1>4 DEF TypeOK
<1>6. AuditTrailIsChain'
  <2> SUFFICES ASSUME NEW r \in Strategies
               PROVE  /\ \A i \in DOMAIN hist'[r] : i > 1 => hist'[r][i].from = hist'[r][i - 1].to
                      /\ hist'[r] # <<>> => life'[r] = hist'[r][Len(hist'[r])].to
    BY DEF AuditTrailIsChain
  <2>1. CASE r # s
    BY <1>2, <1>3, <2>1 DEF AuditTrailIsChain, TypeOK
  <2>2. CASE r = s
    <3> DEFINE h == hist[s]
               g == hist'[s]
    <3>1. g = Append(h, row) /\ life'[s] = to
      BY <1>2, <1>3 DEF TypeOK
    <3>2. DOMAIN g = 1..(Len(h) + 1) /\ Len(g) = Len(h) + 1 /\ Len(h) \in Nat
      BY <1>1, <1>4, <3>1
    <3>3. /\ \A i \in 1..Len(h) : g[i] = h[i]
          /\ g[Len(h) + 1] = row
      BY <1>4, <3>1
    <3>4. /\ \A i \in 1..Len(h) : i > 1 => h[i].from = h[i - 1].to
          /\ Len(h) > 0 => life[s] = h[Len(h)].to
      BY <1>1 DEF AuditTrailIsChain
    <3>5. row.from = life[s] /\ row.to = to
      BY DEF row
    <3> HIDE DEF h, g
    <3>6. ASSUME NEW i \in DOMAIN g, i > 1
          PROVE  g[i].from = g[i - 1].to
      <4>1. CASE i \in 1..Len(h)
        BY <3>2, <3>3, <3>4, <3>6, <4>1
      <4>2. CASE i = Len(h) + 1
        BY <3>2, <3>3, <3>4, <3>5, <3>6, <4>2
      <4> QED
        BY <3>2, <4>1, <4>2
    <3>7. life'[s] = g[Len(g)].to
      BY <3>1, <3>2, <3>3, <3>5
    <3> QED
      BY <2>2, <3>6, <3>7 DEF g
  <2> QED
    BY <2>1, <2>2
<1> QED
  BY <1>3, <1>5, <1>6

-----------------------------------------------------------------------------
(* The ledger.                                                             *)

\* Clearing never lowers what a scope has cleared: an uncleared event can become
\* cleared, never the reverse; a new event has a new epoch.
LEMMA LedgerStep ==
    ASSUME LedgerTypeOK, Tick \/ Operator
    PROVE  /\ LedgerTypeOK'
           /\ DOMAIN kills \subseteq DOMAIN kills'
           /\ \A e \in DOMAIN kills : kills'[e] = kills[e] /\ (Uncleared(e)' => Uncleared(e))
           /\ done \subseteq done' /\ done' \ superseded' = done \ superseded
<1>1. CASE Tick
  BY <1>1, LedgerBoundsAssumption DEF Tick, LedgerTypeOK, Times, ledger, Uncleared
<1>2. ASSUME NEW c \in Scopes, AppendKill(c, FALSE)
      PROVE  /\ LedgerTypeOK'
             /\ DOMAIN kills \subseteq DOMAIN kills'
             /\ \A e \in DOMAIN kills : kills'[e] = kills[e] /\ (Uncleared(e)' => Uncleared(e))
             /\ done \subseteq done' /\ done' \ superseded' = done \ superseded
  <2> DEFINE row == [scope |-> c, flatten |-> FALSE, at |-> now]
  <2>1. row \in KillRow /\ kills \in Seq(KillRow)
    BY DEF LedgerTypeOK, KillRow
  <2>2. kills' = Append(kills, row)
    BY <1>2 DEF AppendKill
  <2> HIDE DEF row
  <2>3. /\ kills' \in Seq(KillRow)
        /\ Len(kills') = Len(kills) + 1 /\ Len(kills) \in Nat
        /\ DOMAIN kills = 1..Len(kills) /\ DOMAIN kills' = 1..Len(kills')
        /\ \A e \in DOMAIN kills : kills'[e] = kills[e]
    BY <2>1, <2>2
  <2>4. UNCHANGED <<now, cleared, observed, done, superseded>> /\ Len(kills) < MaxKill
    BY <1>2 DEF AppendKill
  <2>5. DOMAIN kills \subseteq DOMAIN kills'
    BY <2>3
  <2>6. LedgerTypeOK'
    BY <2>3, <2>4, <2>5, LedgerBoundsAssumption DEF LedgerTypeOK
  <2> QED
    BY <2>3, <2>4, <2>5, <2>6 DEF Uncleared
<1>3. ASSUME NEW c \in Scopes, Observe(c)
      PROVE  /\ LedgerTypeOK'
             /\ DOMAIN kills \subseteq DOMAIN kills'
             /\ \A e \in DOMAIN kills : kills'[e] = kills[e] /\ (Uncleared(e)' => Uncleared(e))
             /\ done \subseteq done' /\ done' \ superseded' = done \ superseded
  <2>1. PICK m \in EpochsAt(c) : observed' = [observed EXCEPT ![c] = m]
    BY <1>3 DEF Observe
  <2>2. m \in Nat
    BY <2>1 DEF EpochsAt, LedgerTypeOK
  <2> QED
    BY <1>3, <2>1, <2>2 DEF Observe, LedgerTypeOK, Uncleared
<1>4. ASSUME NEW c \in Scopes, AppendKillClear(c)
      PROVE  /\ LedgerTypeOK'
             /\ DOMAIN kills \subseteq DOMAIN kills'
             /\ \A e \in DOMAIN kills : kills'[e] = kills[e] /\ (Uncleared(e)' => Uncleared(e))
             /\ done \subseteq done' /\ done' \ superseded' = done \ superseded
  <2>1. /\ cleared' = [cleared EXCEPT ![c] = observed[c]]
        /\ done' = done \cup Superseded(c, observed[c])
        /\ superseded' = superseded \cup Superseded(c, observed[c])
        /\ UNCHANGED <<now, kills, observed>>
    BY <1>4 DEF AppendKillClear
  <2>2. Superseded(c, observed[c]) \subseteq DOMAIN kills \ done
    BY DEF Superseded, EpochsAt
  <2>3. LedgerTypeOK'
    BY <2>1, <2>2 DEF LedgerTypeOK
  <2>4. PICK e \in EpochsAt(c) : e > cleared[c] /\ e <= observed[c]
    BY <1>4 DEF AppendKillClear, ActiveAt, IsScopeMax, Uncleared, EpochsAt
  <2>5. cleared[c] <= observed[c]
    BY <2>4 DEF LedgerTypeOK, EpochsAt
  <2>6. ASSUME NEW f \in DOMAIN kills, Uncleared(f)'
        PROVE  Uncleared(f)
    <3>1. f \in Nat /\ kills[f] \in KillRow /\ kills' = kills
      BY <2>1 DEF LedgerTypeOK
    <3>2. kills[f].scope \in Scopes
      BY <3>1 DEF KillRow
    <3> QED
      BY <2>1, <2>5, <2>6, <3>1, <3>2 DEF Uncleared, LedgerTypeOK
  <2>7. done' \ superseded' = done \ superseded
    BY <2>1, <2>2
  <2> QED
    BY <2>1, <2>3, <2>6, <2>7
<1> QED
  BY <1>1, <1>2, <1>3, <1>4 DEF Operator

-----------------------------------------------------------------------------
(* The inductive invariant.                                                *)

USE DEF entries

\* What a step keeps when it touches neither the ledger, the rows nor the pass.
LEMMA Frame ==
    ASSUME PassOnKills, PassLocks, ServedKillIsLocked, AuditTrailIsChain,
           UNCHANGED <<ledger, rows, drv>>
    PROVE  PassOnKills' /\ PassLocks' /\ ServedKillIsLocked' /\ AuditTrailIsChain'
BY DEF PassOnKills, PassLocks, ServedKillIsLocked, AuditTrailIsChain, ledger, rows,
       InEvent, Uncleared, Binds

\* Moving a strategy where no uncleared kill binds a live target keeps the locks.
LEMMA LocksKept ==
    ASSUME TypeOK, PassOnKills, PassLocks, ServedKillIsLocked, NEW s \in Strategies, NEW to,
           to \in LiveStates => ~ActiveKill(s),
           \A r \in Strategies : life'[r] = IF r = s THEN to ELSE life[r],
           UNCHANGED <<ledger, drv>>
    PROVE  PassLocks' /\ ServedKillIsLocked'
<1>1. ASSUME NEW e \in DOMAIN kills, NEW r \in Strategies, Uncleared(e), Binds(e, r),
             life[r] \notin LiveStates
      PROVE  life'[r] \notin LiveStates
  BY <1>1 DEF ActiveKill
<1>2. PassLocks'
  BY <1>1 DEF PassLocks, PassOnKills, InEvent, ledger, Uncleared, Binds
<1>3. ServedKillIsLocked'
  BY <1>1 DEF ServedKillIsLocked, ledger, Uncleared, Binds, TypeOK, LedgerTypeOK
<1> QED
  BY <1>2, <1>3

LEMMA InitIInv == Init => IInv
<1> SUFFICES ASSUME Init PROVE IInv
  OBVIOUS
<1>1. LedgerTypeOK
  BY LedgerBoundsAssumption DEF Init, LedgerInit, LedgerTypeOK, Times
<1>2. hist \in [Strategies -> Seq(Row)]
  <2>1. ASSUME NEW s \in Strategies
        PROVE  hist[s] \in Seq(Row)
    <3>1. [from |-> "draft", to |-> "paper", at |-> now] \in Row
      BY <1>1 DEF LedgerTypeOK, Row, States
    <3> QED
      BY <3>1 DEF Init
  <2> QED
    BY <2>1 DEF Init
<1>3. TypeOK
  BY <1>1, <1>2, LifecycleBoundsAssumption
     DEF Init, TypeOK, NoRequest, NoPass, Request, States, LiveStates, Scopes, None
<1>4. AuditTrailIsChain
  BY DEF Init, AuditTrailIsChain
<1>5. RequestsTimed /\ PassOnKills /\ PassLocks /\ ServedKillIsLocked
  BY DEF Init, LedgerInit, RequestsTimed, PassOnKills, PassLocks, ServedKillIsLocked, InEvent,
         NoPass, NoRequest
<1> QED
  BY <1>3, <1>4, <1>5 DEF IInv

\* Kills, clears and the clock.
LEMMA OperatorStep ==
    ASSUME IInv, Tick \/ Operator, UNCHANGED <<rows, book, req, drv, reconciledAt, entries, crashes>>
    PROVE  IInv'
<1>1. /\ LedgerTypeOK'
      /\ DOMAIN kills \subseteq DOMAIN kills'
      /\ \A e \in DOMAIN kills : kills'[e] = kills[e] /\ (Uncleared(e)' => Uncleared(e))
      /\ done \subseteq done' /\ done' \ superseded' = done \ superseded
  BY LedgerStep DEF IInv, TypeOK
<1>2. TypeOK'
  BY <1>1 DEF IInv, TypeOK, rows, book
<1>3. RequestsTimed' /\ AuditTrailIsChain' /\ PassOnKills'
  BY <1>1 DEF IInv, RequestsTimed, AuditTrailIsChain, PassOnKills, InEvent, rows
<1>4. \A e \in DOMAIN kills, s \in Strategies : Binds(e, s)' => Binds(e, s)
  BY <1>1 DEF Binds
<1>5. PassLocks'
  BY <1>1, <1>4 DEF IInv, PassLocks, PassOnKills, InEvent, rows
<1>6. ServedKillIsLocked'
  BY <1>1, <1>4 DEF IInv, ServedKillIsLocked, TypeOK, LedgerTypeOK, rows
<1> QED
  BY <1>2, <1>3, <1>5, <1>6 DEF IInv

\* One handler moves on.
LEMMA RequestUpdate ==
    ASSUME req \in [Strategies -> Request], RequestsTimed, NEW s \in Strategies,
           NEW r \in Request, r.pc # "idle" => r.at \in Times,
           req' = [req EXCEPT ![s] = r]
    PROVE  req' \in [Strategies -> Request] /\ RequestsTimed'
BY DEF RequestsTimed

\* The reads of a handler, a refusal and the effect of a pause.
LEMMA RequestStep ==
    ASSUME IInv, NEW s \in Strategies,
           Begin(s) \/ ReadContext(s) \/ ReadGate(s) \/ Refuse(s) \/ CancelEffect(s)
    PROVE  IInv'
<1>1. PassOnKills' /\ PassLocks' /\ ServedKillIsLocked' /\ AuditTrailIsChain'
  BY Frame DEF IInv, Begin, ReadContext, ReadGate, Refuse, CancelEffect, rows
<1>2. CASE Begin(s)
  <2>1. PICK to \in Requests, role \in Callers :
          req' = [req EXCEPT ![s] =
              [NoRequest EXCEPT !.pc = "read", !.to = to, !.role = role, !.at = now,
                 !.from = life[s],
                 !.prev = IF life[s] = "paused" THEN PausedProvenance(s) ELSE None]]
    BY <1>2 DEF Begin
  <2>2. PausedProvenance(s) \in States \cup {None} /\ life[s] \in States
    BY ProvenanceType DEF IInv, TypeOK
  <2>3. TypeOK'
    BY <1>2, <2>1, <2>2, RequestsAssumption
       DEF IInv, TypeOK, Request, LedgerTypeOK, Begin, NoRequest, ledger, rows, book
  <2>4. RequestsTimed'
    BY <2>1 DEF IInv, RequestsTimed, TypeOK, LedgerTypeOK, NoRequest
  <2> QED
    BY <1>1, <2>3, <2>4 DEF IInv
<1>3. CASE ReadContext(s)
  <2>1. PICK f \in BOOLEAN, k \in BOOLEAN, p \in {"gate", "commit"} :
          req' = [req EXCEPT ![s].flat = f, ![s].active = k, ![s].pc = p]
    <3>1. flat[s] \in BOOLEAN /\ ActiveKill(s) \in BOOLEAN
      BY DEF IInv, TypeOK, ActiveKill
    <3> QED
      BY <1>3, <3>1 DEF ReadContext
  <2>2. /\ req[s].pc = "read"
        /\ UNCHANGED <<now, ledger, rows, book, drv, reconciledAt, entries, crashes>>
    BY <1>3 DEF ReadContext
  <2> DEFINE r == [req[s] EXCEPT !.flat = f, !.active = k, !.pc = p]
  <2>3. r \in Request /\ (r.pc # "idle" => r.at \in Times) /\ req' = [req EXCEPT ![s] = r]
    BY <2>1, <2>2 DEF IInv, TypeOK, Request, RequestsTimed
  <2>4. req' \in [Strategies -> Request] /\ RequestsTimed'
    BY <2>3, RequestUpdate DEF IInv, TypeOK
  <2>5. TypeOK'
    BY <2>2, <2>4 DEF IInv, TypeOK, LedgerTypeOK, ledger, rows, book
  <2> QED
    BY <1>1, <2>4, <2>5 DEF IInv
<1>4. CASE ReadGate(s)
  <2>1. PICK g \in BOOLEAN : req' = [req EXCEPT ![s].pc = "commit", ![s].gate = g]
    BY <1>4 DEF ReadGate
  <2>2. /\ req[s].pc = "gate"
        /\ UNCHANGED <<now, ledger, rows, book, drv, reconciledAt, entries, crashes>>
    BY <1>4 DEF ReadGate
  <2> DEFINE r == [req[s] EXCEPT !.pc = "commit", !.gate = g]
  <2>3. r \in Request /\ (r.pc # "idle" => r.at \in Times) /\ req' = [req EXCEPT ![s] = r]
    BY <2>1, <2>2 DEF IInv, TypeOK, Request, RequestsTimed
  <2>4. req' \in [Strategies -> Request] /\ RequestsTimed'
    BY <2>3, RequestUpdate DEF IInv, TypeOK
  <2>5. TypeOK'
    BY <2>2, <2>4 DEF IInv, TypeOK, LedgerTypeOK, ledger, rows, book
  <2> QED
    BY <1>1, <2>4, <2>5 DEF IInv
<1>5. CASE Refuse(s)
  BY <1>1, <1>5 DEF IInv, Refuse, TypeOK, LedgerTypeOK, RequestsTimed, Request, ledger, rows, book,
                    NoRequest
<1>6. CASE CancelEffect(s)
  BY <1>1, <1>6 DEF IInv, CancelEffect, SweepOutcome, TypeOK, Request, LedgerTypeOK, RequestsTimed,
                    ledger, rows, book, NoRequest
<1> QED
  BY <1>2, <1>3, <1>4, <1>5, <1>6

\* The compare-and-set of a handler.
LEMMA CommitStep ==
    ASSUME IInv, NEW s \in Strategies, Commit(s)
    PROVE  IInv'
<1> DEFINE q == req[s]
<1>1. /\ q.pc = "commit" /\ life[s] = q.from
      /\ q.to \in LiveStates => ~ActiveKill(s)
      /\ Transition(s, life[s], q.to, q.at)
      /\ UNCHANGED <<now, ledger, flat, resting, drv, reconciledAt, entries, crashes>>
  BY DEF Commit, CommitCheck
<1>0. q \in Request
  BY DEF IInv, TypeOK
<1>2. q.at \in Times /\ q.from \in States
  BY <1>1 DEF IInv, RequestsTimed, TypeOK
<1>3. q.to \in States
  <2>1. q.to \in States \cup {None} /\ Allowed(q)
    BY <1>0 DEF Commit, Request
  <2>2. q.to # None
    BY <2>1 DEF Allowed, GuardPaper, GuardLive, GuardPaused, GuardKilled, LiveStates, None
  <2> QED
    BY <2>1, <2>2
<1>4. /\ life' \in [Strategies -> States]
      /\ hist' \in [Strategies -> Seq(Row)]
      /\ AuditTrailIsChain'
      /\ \A r \in Strategies : life'[r] = IF r = s THEN q.to ELSE life[r]
  BY <1>1, <1>2, <1>3, AdvanceStep DEF IInv
<1>5. \/ /\ req' = [req EXCEPT ![s].pc = "effect"]
         /\ cancelAlert' = [cancelAlert EXCEPT ![s] = FALSE]
      \/ /\ req' = [req EXCEPT ![s] = NoRequest]
         /\ UNCHANGED cancelAlert
  BY DEF Commit
<1>6. TypeOK' /\ RequestsTimed'
  <2>1. LedgerTypeOK'
    BY <1>1 DEF IInv, TypeOK, LedgerTypeOK, ledger
  <2>2. ASSUME req' = [req EXCEPT ![s].pc = "effect"]
        PROVE  req' \in [Strategies -> Request] /\ RequestsTimed'
    <3> DEFINE r == [q EXCEPT !.pc = "effect"]
    <3>1. r \in Request /\ r.at \in Times
      BY <1>0, <1>2 DEF Request
    <3>2. req' = [req EXCEPT ![s] = r]
      BY <2>2
    <3> QED
      BY <3>1, <3>2, RequestUpdate DEF IInv, TypeOK
  <2>3. ASSUME req' = [req EXCEPT ![s] = NoRequest]
        PROVE  req' \in [Strategies -> Request] /\ RequestsTimed'
    <3>1. NoRequest \in Request /\ NoRequest.pc = "idle"
      BY DEF NoRequest, Request
    <3> QED
      BY <2>3, <3>1, RequestUpdate DEF IInv, TypeOK
  <2>4. cancelAlert' \in [Strategies -> BOOLEAN]
    BY <1>5 DEF IInv, TypeOK
  <2>5. req' \in [Strategies -> Request] /\ RequestsTimed'
    BY <1>5, <2>2, <2>3
  <2>6. TypeOK'
    BY <1>1, <1>4, <2>1, <2>4, <2>5 DEF IInv, TypeOK
  <2> QED
    BY <2>5, <2>6
<1>7. PassLocks' /\ ServedKillIsLocked'
  BY <1>1, <1>4, LocksKept DEF IInv
<1>8. PassOnKills'
  BY <1>1 DEF IInv, PassOnKills, InEvent, ledger
<1> QED
  BY <1>4, <1>6, <1>7, <1>8 DEF IInv

\* AppendKillLifecycleLock: the strategy leaves the live tiers, and joins those
\* that the pass is through with.
LEMMA LockStep ==
    ASSUME IInv, NEW s \in Strategies, DriverLock(s)
    PROVE  IInv'
<1>1. /\ drv.pc = "lock" /\ s = drv.cur
      /\ drv' = [drv EXCEPT !.pc = "next", !.cur = Platform, !.left = @ \ {s},
                            !.residual = @ \/ resting[s]]
      /\ UNCHANGED <<now, ledger, book, req, reconciledAt, entries, crashes>>
  BY DEF DriverLock
<1>2. /\ life' \in [Strategies -> States]
      /\ hist' \in [Strategies -> Seq(Row)]
      /\ AuditTrailIsChain'
      /\ life'[s] \notin LiveStates
      /\ \A r \in Strategies : life[r] \notin LiveStates => life'[r] \notin LiveStates
  <2>1. CASE life[s] \in LiveStates
    <3>1. Transition(s, life[s], "killed", now)
      BY <2>1 DEF DriverLock
    <3>2. "killed" \in States \ LiveStates /\ now \in Times
      BY DEF IInv, TypeOK, LedgerTypeOK, States, LiveStates
    <3> QED
      BY <3>1, <3>2, AdvanceStep DEF IInv
  <2>2. CASE life[s] \notin LiveStates
    BY <2>2 DEF DriverLock, IInv, TypeOK, rows, AuditTrailIsChain
  <2> QED
    BY <2>1, <2>2
<1>3. TypeOK'
  <2>1. LedgerTypeOK'
    BY <1>1 DEF IInv, TypeOK, LedgerTypeOK, ledger
  <2>2. resting[s] \in BOOLEAN /\ drv.residual \in BOOLEAN
    BY DEF IInv, TypeOK
  <2> QED
    BY <1>1, <1>2, <2>1, <2>2 DEF IInv, TypeOK, book
<1>4. RequestsTimed' /\ PassOnKills'
  BY <1>1 DEF IInv, TypeOK, RequestsTimed, PassOnKills, InEvent, ledger
<1>5. PassLocks'
  <2>1. /\ ~drv'.residual => ~drv.residual
        /\ drv'.ev = drv.ev /\ drv'.left = drv.left \ {s}
        /\ InEvent
    BY <1>1 DEF IInv, TypeOK, InEvent
  <2> QED
    BY <1>1, <1>2, <2>1 DEF IInv, PassLocks, ledger, Uncleared, Binds
<1>6. ServedKillIsLocked'
  BY <1>1, <1>2 DEF IInv, ServedKillIsLocked, ledger, Uncleared, Binds
<1> QED
  BY <1>2, <1>3, <1>4, <1>5, <1>6 DEF IInv

\* The other steps of the pass.
LEMMA PassStep ==
    ASSUME IInv,
           \/ DriverList \/ DriverPick \/ DriverGlobalSweep \/ DriverEnd
           \/ \E s \in Strategies : DriverSweep(s) \/ DriverFail(s)
    PROVE  IInv'
<1>1. CASE DriverList
  <2>1. UNCHANGED <<now, ledger, rows, book, req, reconciledAt, entries, crashes>>
    BY <1>1 DEF DriverList
  <2>2. drv' = [NoPass EXCEPT !.pc = "pick", !.todo = Unserved, !.at = reconciledAt]
    BY <1>1 DEF DriverList
  <2>3. Unserved \subseteq DOMAIN kills /\ DOMAIN kills \subseteq Nat
    BY DEF Unserved, IInv, TypeOK, LedgerTypeOK
  <2>4. TypeOK'
    BY <2>1, <2>2, <2>3 DEF IInv, TypeOK, LedgerTypeOK, NoPass, ledger, rows, book
  <2>5. PassOnKills' /\ PassLocks'
    BY <2>1, <2>2, <2>3 DEF PassOnKills, PassLocks, InEvent, NoPass, ledger
  <2> QED
    BY <2>1, <2>4, <2>5
       DEF IInv, RequestsTimed, ServedKillIsLocked, AuditTrailIsChain, ledger, rows, Uncleared, Binds
<1>2. CASE DriverPick
  <2>1. UNCHANGED <<now, ledger, rows, book, req, reconciledAt, entries, crashes>>
    BY <1>2 DEF DriverPick
  <2>2. /\ TypeOK' /\ PassOnKills' /\ PassLocks'
    <3>1. CASE drv' = NoPass
      BY <2>1, <3>1 DEF IInv, TypeOK, LedgerTypeOK, PassOnKills, PassLocks, InEvent, NoPass,
                        ledger, rows, book, Scopes
    <3>2. ASSUME NEW e \in drv.todo, drv' = [drv EXCEPT !.todo = @ \ {e}], drv.pc = "pick"
          PROVE  TypeOK' /\ PassOnKills' /\ PassLocks'
      BY <2>1, <3>2 DEF IInv, TypeOK, LedgerTypeOK, PassOnKills, PassLocks, InEvent,
                        ledger, rows, book
    <3>3. ASSUME NEW e \in drv.todo, NEW p \in {"global", "next"},
                 drv' = [drv EXCEPT !.todo = @ \ {e}, !.ev = e, !.pc = p,
                              !.left = {s \in Strategies : Binds(e, s)}]
          PROVE  TypeOK' /\ PassOnKills' /\ PassLocks'
      <4>1. e \in DOMAIN kills /\ e \in Nat
        BY DEF IInv, TypeOK, PassOnKills
      <4>2. TypeOK' /\ PassOnKills'
        BY <2>1, <3>3, <4>1 DEF IInv, TypeOK, LedgerTypeOK, PassOnKills, InEvent,
                                ledger, rows, book
      <4>3. drv'.ev = e /\ drv'.left = {s \in Strategies : Binds(e, s)}
        BY <3>3 DEF IInv, TypeOK
      <4>4. PassLocks'
        BY <2>1, <4>3 DEF PassLocks, Binds, ledger
      <4> QED
        BY <4>2, <4>4
    <3> QED
      BY <1>2, <3>1, <3>2, <3>3 DEF DriverPick
  <2> QED
    BY <2>1, <2>2
       DEF IInv, RequestsTimed, ServedKillIsLocked, AuditTrailIsChain, ledger, rows, Uncleared, Binds
<1>3. CASE DriverGlobalSweep
  <2>1. /\ UNCHANGED <<now, ledger, rows, flat, cancelAlert, req, reconciledAt, entries, crashes>>
        /\ drv.pc = "global"
        /\ \E r \in BOOLEAN : drv' = [drv EXCEPT !.pc = "next", !.residual = r]
                              /\ (~r => ~drv.residual)
        /\ resting' \in [Strategies -> BOOLEAN]
    <3>1. /\ UNCHANGED <<now, ledger, rows, flat, cancelAlert, req, reconciledAt, entries, crashes>>
          /\ drv.pc = "global"
      BY <1>3 DEF DriverGlobalSweep
    <3>2. CASE drv' = [drv EXCEPT !.pc = "next"]
               /\ \E U \in SUBSET {s \in Strategies : resting[s]} :
                    resting' = [s \in Strategies |-> s \in U]
      <4>1. drv.residual \in BOOLEAN /\ drv' = [drv EXCEPT !.pc = "next", !.residual = drv.residual]
        BY <3>2 DEF IInv, TypeOK
      <4>2. resting' \in [Strategies -> BOOLEAN]
        BY <3>2
      <4> QED
        BY <3>1, <4>1, <4>2
    <3>3. CASE drv' = [drv EXCEPT !.pc = "next", !.residual = TRUE] /\ UNCHANGED resting
      BY <3>1, <3>3 DEF IInv, TypeOK
    <3> QED
      BY <1>3, <3>2, <3>3 DEF DriverGlobalSweep
  <2>2. TypeOK' /\ PassOnKills' /\ PassLocks'
    BY <2>1 DEF IInv, TypeOK, LedgerTypeOK, PassOnKills, PassLocks, InEvent,
                ledger, rows, Uncleared, Binds
  <2> QED
    BY <2>1, <2>2
       DEF IInv, RequestsTimed, ServedKillIsLocked, AuditTrailIsChain, ledger, rows, Uncleared, Binds
<1>4. CASE DriverEnd
  <2>1. /\ drv.pc = "next" /\ drv.left = {}
        /\ drv' = [NoPass EXCEPT !.pc = "pick", !.todo = drv.todo, !.at = drv.at]
        /\ done' = done \/ (MayMark /\ done' = done \cup {drv.ev})
        /\ UNCHANGED <<now, kills, cleared, observed, superseded, rows, book, req,
                       reconciledAt, entries, crashes>>
    BY <1>4 DEF DriverEnd, MarkDone
  <2>2. drv.ev \in DOMAIN kills
    BY <2>1 DEF IInv, PassOnKills, InEvent
  <2>3. TypeOK'
    BY <2>1, <2>2 DEF IInv, TypeOK, LedgerTypeOK, NoPass, rows, book, Scopes
  <2>4. PassOnKills' /\ PassLocks'
    BY <2>1 DEF IInv, PassOnKills, PassLocks, InEvent, NoPass
  <2>5. ServedKillIsLocked'
    <3>1. MayMark /\ Uncleared(drv.ev) =>
            \A s \in Strategies : Binds(drv.ev, s) => life[s] \notin LiveStates
      BY <2>1 DEF IInv, PassLocks, InEvent, MayMark
    <3> QED
      BY <2>1, <3>1 DEF IInv, ServedKillIsLocked, rows, Uncleared, Binds
  <2> QED
    BY <2>1, <2>3, <2>4, <2>5 DEF IInv, RequestsTimed, AuditTrailIsChain, rows
<1>5. ASSUME NEW s \in Strategies, DriverSweep(s)
      PROVE  IInv'
  <2>1. /\ drv.pc = "next" /\ s \in drv.left
        /\ drv' = [drv EXCEPT !.pc = "lock", !.cur = s]
        /\ resting' \in [Strategies -> BOOLEAN]
        /\ UNCHANGED <<now, ledger, rows, flat, cancelAlert, req, reconciledAt, entries, crashes>>
    BY <1>5 DEF DriverSweep, SweepOutcome, IInv, TypeOK
  <2>2. TypeOK' /\ PassOnKills' /\ PassLocks'
    BY <2>1 DEF IInv, TypeOK, LedgerTypeOK, PassOnKills, PassLocks, InEvent,
                ledger, rows, Uncleared, Binds
  <2> QED
    BY <2>1, <2>2
       DEF IInv, RequestsTimed, ServedKillIsLocked, AuditTrailIsChain, ledger, rows, Uncleared, Binds
<1>6. ASSUME NEW s \in Strategies, DriverFail(s)
      PROVE  IInv'
  <2>1. /\ InEvent
        /\ drv' = [drv EXCEPT !.pc = "next", !.cur = Platform, !.left = @ \ {s}, !.residual = TRUE]
        /\ UNCHANGED <<now, ledger, rows, book, req, reconciledAt, entries, crashes>>
    BY <1>6 DEF DriverFail, InEvent
  <2>2. TypeOK' /\ PassOnKills' /\ PassLocks'
    BY <2>1 DEF IInv, TypeOK, LedgerTypeOK, PassOnKills, PassLocks, InEvent,
                ledger, rows, book
  <2> QED
    BY <2>1, <2>2
       DEF IInv, RequestsTimed, ServedKillIsLocked, AuditTrailIsChain, ledger, rows, Uncleared, Binds
<1> QED
  BY <1>1, <1>2, <1>3, <1>4, <1>5, <1>6

\* Reconciles, fills, new entries and crashes.
LEMMA EnvironmentStep ==
    ASSUME IInv, ReconcileDone \/ Crash \/ \E s \in Strategies : Market(s)
    PROVE  IInv'
<1>1. CASE ReconcileDone
  <2>1. PassOnKills' /\ PassLocks' /\ ServedKillIsLocked' /\ AuditTrailIsChain'
    BY <1>1, Frame DEF IInv, ReconcileDone
  <2> QED
    BY <1>1, <2>1 DEF IInv, ReconcileDone, TypeOK, LedgerTypeOK, RequestsTimed, ledger, rows, book
<1>2. ASSUME NEW s \in Strategies, Market(s)
      PROVE  IInv'
  <2>1. PassOnKills' /\ PassLocks' /\ ServedKillIsLocked' /\ AuditTrailIsChain'
    BY <1>2, Frame DEF IInv, Market, SubmitVerdict, Preflight, SubmitApproved, FillEntry,
                       ClosePosition, book
  <2>2. /\ UNCHANGED <<now, ledger, rows, cancelAlert, req, drv, reconciledAt, crashes>>
        /\ placed' \in Nat
        /\ approved' \in [Strategies -> BOOLEAN]
        /\ flat' \in [Strategies -> BOOLEAN]
        /\ resting' \in [Strategies -> BOOLEAN]
    <3>1. CASE SubmitVerdict(s)
      BY <3>1 DEF SubmitVerdict, RestEntry, IInv, TypeOK
    <3>2. CASE Preflight(s)
      BY <3>2 DEF Preflight, IInv, TypeOK, book
    <3>3. CASE SubmitApproved(s)
      BY <3>3 DEF SubmitApproved, RestEntry, IInv, TypeOK
    <3>4. CASE FillEntry(s)
      BY <3>4 DEF FillEntry, IInv, TypeOK
    <3>5. CASE ClosePosition(s)
      BY <3>5 DEF ClosePosition, IInv, TypeOK
    <3> QED
      BY <1>2, <3>1, <3>2, <3>3, <3>4, <3>5 DEF Market
  <2>3. TypeOK' /\ RequestsTimed'
    BY <2>2 DEF IInv, TypeOK, LedgerTypeOK, RequestsTimed, ledger, rows
  <2> QED
    BY <2>1, <2>3 DEF IInv
<1>3. CASE Crash
  <2>1. /\ req' = [s \in Strategies |-> NoRequest] /\ drv' = NoPass /\ reconciledAt' = 0
        /\ crashes' = crashes + 1
        /\ approved' = [s \in Strategies |-> FALSE]
        /\ UNCHANGED <<now, ledger, rows, book, placed>>
    BY <1>3 DEF Crash
  <2>2. TypeOK' /\ RequestsTimed'
    BY <2>1 DEF IInv, TypeOK, LedgerTypeOK, RequestsTimed, NoRequest, Request, NoPass,
                ledger, rows, book, Scopes
  <2>3. PassOnKills' /\ PassLocks'
    BY <2>1 DEF PassOnKills, PassLocks, InEvent, NoPass
  <2> QED
    BY <2>1, <2>2, <2>3 DEF IInv, ServedKillIsLocked, AuditTrailIsChain, ledger, rows, Uncleared, Binds
<1> QED
  BY <1>1, <1>2, <1>3

LEMMA StepIInv == IInv /\ [Next]_vars => IInv'
<1> SUFFICES ASSUME IInv, [Next]_vars PROVE IInv'
  OBVIOUS
<1>1. CASE Next
  <2>1. ASSUME NEW s \in Strategies, Handler(s)
        PROVE  IInv'
    BY <2>1, RequestStep, CommitStep DEF Handler
  <2>2. CASE Driver
    BY <2>2, PassStep, LockStep, EnvironmentStep DEF Driver
  <2> QED
    BY <1>1, <2>1, <2>2, OperatorStep, EnvironmentStep DEF Next
<1>2. CASE UNCHANGED vars
  <2>1. PassOnKills' /\ PassLocks' /\ ServedKillIsLocked' /\ AuditTrailIsChain'
    BY <1>2, Frame DEF IInv, vars
  <2> QED
    BY <1>2, <2>1 DEF IInv, vars, TypeOK, LedgerTypeOK, RequestsTimed, ledger, rows, book
<1> QED
  BY <1>1, <1>2

-----------------------------------------------------------------------------
(* The paper window: what the one-pass scan computes.                      *)

\* The loop over the rows, step by step.
LEMMA ScanSteps ==
    ASSUME NEW s \in Strategies, Len(hist[s]) \in Nat
    PROVE  \E f : /\ f[0] = ScanStart
                  /\ \A i \in 1..Len(hist[s]) :
                        f[i] = ScanRow(f[i - 1], hist[s][i], NewestKillAt(s))
                  /\ WindowScan(s) = f[Len(hist[s])]
<1> DEFINE n == Len(hist[s])
           Fits(f, m) == f = [i \in 0..m |-> IF i = 0 THEN ScanStart
                                ELSE ScanRow(f[i - 1], hist[s][i], NewestKillAt(s))]
           T == {m \in 0..n : ~\E f : Fits(f, m)}
<1>1. ASSUME T # {} PROVE FALSE
  <2>1. T \subseteq Nat
    OBVIOUS
  <2>2. PICK x \in T : \A y \in T : ~(<<y, x>> \in OpToRel(<, Nat))
    BY <1>1, <2>1, NatLessThanWellFounded, WFMin
  <2>3. \A y \in T : ~(y < x)
    BY <2>1, <2>2 DEF OpToRel
  <2>4. CASE x = 0
    <3> DEFINE g == [i \in 0..0 |-> ScanStart]
    <3>1. Fits(g, 0)
      OBVIOUS
    <3>2. \E f : Fits(f, 0)
      BY <3>1
    <3> QED
      BY <2>4, <3>2
  <2>5. CASE x # 0
    <3>1. x - 1 \in 0..n /\ x - 1 < x /\ x \in 1..n
      BY <2>5
    <3>2. x - 1 \notin T
      BY <2>3, <3>1
    <3>3. PICK g : Fits(g, x - 1)
      BY <3>1, <3>2
    <3> DEFINE f == [i \in 0..x |-> IF i = x THEN ScanRow(g[x - 1], hist[s][x], NewestKillAt(s))
                                    ELSE g[i]]
    <3>4. \A i \in 0..(x - 1) : g[i] = IF i = 0 THEN ScanStart
                                   ELSE ScanRow(g[i - 1], hist[s][i], NewestKillAt(s))
      BY <3>1, <3>3
    <3>5. \A i \in 0..x : f[i] = IF i = 0 THEN ScanStart
                                 ELSE ScanRow(f[i - 1], hist[s][i], NewestKillAt(s))
      <4> TAKE i \in 0..x
      <4>1. CASE i = x
        BY <3>1, <4>1
      <4>2. CASE i # x
        BY <3>1, <3>4, <4>2
      <4> QED
        BY <4>1, <4>2
    <3>6. Fits(f, x)
      BY <3>5
    <3>7. \E h : Fits(h, x)
      BY <3>6
    <3> QED
      BY <3>7
  <2> QED
    BY <2>4, <2>5
<1>2. n \in 0..n
  OBVIOUS
<1>3. \E f : Fits(f, n)
  BY <1>1, <1>2
<1> DEFINE scan == CHOOSE f : Fits(f, n)
<1>4. Fits(scan, n)
  BY <1>3
<1>5. WindowScan(s) = scan[n]
  BY DEF WindowScan
<1> HIDE DEF scan
<1>6. /\ scan[0] = ScanStart
      /\ \A i \in 1..n : scan[i] = ScanRow(scan[i - 1], hist[s][i], NewestKillAt(s))
  BY <1>4
<1> QED
  BY <1>5, <1>6

ScanType == [start : Nat, sinceKill : BOOLEAN, lastPausedFrom : States \cup {None}]

\* One row of the loop, field by field.
LEMMA ScanRowFields ==
    ASSUME NEW a \in ScanType, NEW r \in Row, NEW K \in Nat
    PROVE  /\ ScanRow(a, r, K) \in ScanType
           /\ ScanRow(a, r, K).lastPausedFrom = IF r.to = "paused" THEN r.from ELSE a.lastPausedFrom
           /\ ScanRow(a, r, K).start =
                IF r.to = "paper" /\ Qualifies(a, r, K) THEN r.at ELSE a.start
           /\ ScanRow(a, r, K).sinceKill <=>
                a.sinceKill \/ (r.to = "paper" /\ Qualifies(a, r, K) /\ K # 0 /\ r.at >= K)
<1>1. r.at \in Nat /\ r.from \in States
  BY LedgerBoundsAssumption DEF Row, Times
<1>2. CASE r.to = "paused"
  <2>1. ScanRow(a, r, K) = [a EXCEPT !.lastPausedFrom = r.from]
    BY <1>2 DEF ScanRow
  <2> QED
    BY <1>1, <1>2, <2>1 DEF ScanType
<1>3. CASE r.to = "paper" /\ Qualifies(a, r, K)
  <2> DEFINE b == a.sinceKill \/ SinceKill(r.at, K)
  <2>1. ScanRow(a, r, K) = [a EXCEPT !.start = r.at, !.sinceKill = b]
    BY <1>3 DEF ScanRow
  <2>2. b \in BOOLEAN /\ (b <=> a.sinceKill \/ (K # 0 /\ r.at >= K))
    BY DEF SinceKill, ScanType
  <2> HIDE DEF b
  <2>3. /\ ScanRow(a, r, K) \in ScanType
        /\ ScanRow(a, r, K).lastPausedFrom = a.lastPausedFrom
        /\ ScanRow(a, r, K).start = r.at /\ ScanRow(a, r, K).sinceKill = b
    BY <1>1, <2>1, <2>2 DEF ScanType
  <2> QED
    BY <1>3, <2>2, <2>3
<1>4. CASE r.to # "paused" /\ ~(r.to = "paper" /\ Qualifies(a, r, K))
  <2>1. ScanRow(a, r, K) = a
    BY <1>4 DEF ScanRow
  <2> QED
    BY <1>4, <2>1
<1> QED
  BY <1>2, <1>3, <1>4

\* The rule of LC-16 for the set of the qualifying rows.
LC16Rule(s, Q) ==
    \A i \in RowsTo(s, "paper") :
      i \in Q <=>
        \/ hist[s][i].from # "paused"
        \/ \E p \in {q \in RowsTo(s, "paused") : q < i} :
             IsLast(p, {q \in RowsTo(s, "paused") : q < i}) /\ hist[s][p].from = "killed"
        \/ NewestKillAt(s) # 0 /\ ~\E j \in Q : j < i /\ hist[s][j].at >= NewestKillAt(s)

\* The rule decides row after row, so one set at most satisfies it.
LEMMA LC16Unique ==
    ASSUME NEW s \in Strategies, Len(hist[s]) \in Nat, DOMAIN hist[s] = 1..Len(hist[s]),
           NEW Q \in SUBSET RowsTo(s, "paper"), LC16Rule(s, Q)
    PROVE  LC16Qualifying(s) = Q
<1>1. ASSUME NEW R \in SUBSET RowsTo(s, "paper"), LC16Rule(s, R)
      PROVE  R = Q
  <2> DEFINE T == {i \in RowsTo(s, "paper") : ~(i \in R <=> i \in Q)}
  <2>1. T \subseteq Nat /\ \A i \in RowsTo(s, "paper") : i \in Nat
    BY DEF RowsTo
  <2>2. ASSUME T # {} PROVE FALSE
    <3> HIDE DEF T
    <3>1. PICK x \in T : \A y \in T : ~(<<y, x>> \in OpToRel(<, Nat))
      BY <2>1, <2>2, NatLessThanWellFounded, WFMin
    <3>2. \A y \in T : ~(y < x)
      BY <2>1, <3>1 DEF OpToRel
    <3> USE DEF T
    <3>3. \A j \in RowsTo(s, "paper") : j < x => (j \in R <=> j \in Q)
      BY <3>2
    <3>4. (\E j \in R : j < x /\ hist[s][j].at >= NewestKillAt(s))
            <=> (\E j \in Q : j < x /\ hist[s][j].at >= NewestKillAt(s))
      BY <3>3
    <3>5. x \in RowsTo(s, "paper") /\ ~(x \in R <=> x \in Q)
      BY <3>1
    <3> QED
      BY <1>1, <3>4, <3>5 DEF LC16Rule
  <2> QED
    BY <2>2
<1>2. LC16Qualifying(s) = CHOOSE R \in SUBSET RowsTo(s, "paper") : LC16Rule(s, R)
  BY DEF LC16Qualifying, LC16Rule
<1> QED
  BY <1>1, <1>2

\* The scan finds the qualifying rows of LC-16, whether one of them follows the newest
\* kill, and the time of the newest of them.
LEMMA ScanIsLC16 ==
    ASSUME NEW s \in Strategies, hist[s] \in Seq(Row), NewestKillAt(s) \in Nat
    PROVE  \E Q \in SUBSET RowsTo(s, "paper") :
              /\ LC16Rule(s, Q)
              /\ WindowScan(s).sinceKill <=>
                    NewestKillAt(s) # 0 /\ \E j \in Q : hist[s][j].at >= NewestKillAt(s)
              /\ \/ Q = {} /\ WindowScan(s).start = 0
                 \/ \E j \in Q : IsLast(j, Q) /\ WindowScan(s).start = hist[s][j].at
<1> DEFINE h == hist[s]
           n == Len(hist[s])
           K == NewestKillAt(s)
           P == RowsTo(s, "paused")
<1>1. /\ n \in Nat /\ DOMAIN h = 1..n /\ \A i \in 1..n : h[i] \in Row
      /\ K \in Nat
  OBVIOUS
<1>2. PICK f : /\ f[0] = ScanStart
               /\ \A i \in 1..n : f[i] = ScanRow(f[i - 1], h[i], K)
               /\ WindowScan(s) = f[n]
  BY <1>1, ScanSteps
<1> DEFINE Q == {i \in RowsTo(s, "paper") : Qualifies(f[i - 1], h[i], K)}
           Means(i) ==
             /\ f[i] \in ScanType
             /\ f[i].sinceKill <=> K # 0 /\ \E j \in Q : j <= i /\ h[j].at >= K
             /\ \/ (\A j \in Q : j > i) /\ f[i].start = 0
                \/ \E j \in Q : /\ j <= i /\ \A k \in Q : k <= i => k <= j
                                /\ f[i].start = h[j].at
             /\ \/ (\A p \in P : p > i) /\ f[i].lastPausedFrom = None
                \/ \E p \in P : /\ p <= i /\ \A k \in P : k <= i => k <= p
                                /\ f[i].lastPausedFrom = h[p].from
<1>3. /\ \A i \in P : i \in 1..n /\ h[i].to = "paused"
      /\ \A i \in 1..n : h[i].to = "paused" => i \in P
      /\ \A i \in Q : i \in 1..n /\ h[i].to = "paper"
      /\ \A i \in 1..n : i \in Q <=> h[i].to = "paper" /\ Qualifies(f[i - 1], h[i], K)
  BY <1>1 DEF RowsTo
<1>4. Means(0)
  <2>1. f[0] \in ScanType
    BY <1>2 DEF ScanStart, ScanType
  <2>2. \A i \in Q \cup P : i > 0
    BY <1>3
  <2>3. f[0].start = 0 /\ ~f[0].sinceKill /\ f[0].lastPausedFrom = None
    BY <1>2 DEF ScanStart
  <2> HIDE DEF Q, P
  <2> QED
    BY <2>1, <2>2, <2>3, <1>3
<1>5. ASSUME NEW i \in 1..n, Means(i - 1) PROVE Means(i)
  <2> DEFINE a == f[i - 1]
             r == h[i]
  <2>1. a \in ScanType /\ r \in Row /\ f[i] = ScanRow(a, r, K)
    BY <1>1, <1>2, <1>5
  <2>2. /\ f[i] \in ScanType
        /\ f[i].lastPausedFrom = IF r.to = "paused" THEN r.from ELSE a.lastPausedFrom
        /\ f[i].start = IF r.to = "paper" /\ Qualifies(a, r, K) THEN r.at ELSE a.start
        /\ f[i].sinceKill <=>
             a.sinceKill \/ (r.to = "paper" /\ Qualifies(a, r, K) /\ K # 0 /\ r.at >= K)
    <3> K \in Nat
      BY <1>1
    <3> HIDE DEF a, r, K
    <3> QED
      BY <2>1, ScanRowFields
  <2>3. /\ i \in Q <=> r.to = "paper" /\ Qualifies(a, r, K)
        /\ i \in P <=> r.to = "paused"
    BY <1>3
  <2>4. /\ i \in Nat /\ i - 1 \in Nat
        /\ \A j \in Q \cup P : j \in Nat
    BY <1>1, <1>3
  <2>5. /\ a.sinceKill <=> K # 0 /\ \E j \in Q : j <= i - 1 /\ h[j].at >= K
        /\ \/ (\A j \in Q : j > i - 1) /\ a.start = 0
           \/ \E j \in Q : /\ j <= i - 1 /\ \A k \in Q : k <= i - 1 => k <= j
                           /\ a.start = h[j].at
        /\ \/ (\A p \in P : p > i - 1) /\ a.lastPausedFrom = None
           \/ \E p \in P : /\ p <= i - 1 /\ \A k \in P : k <= i - 1 => k <= p
                           /\ a.lastPausedFrom = h[p].from
    BY <1>5
  <2> HIDE DEF Q, P, h, n, K, a
  <2>6. f[i].sinceKill <=> K # 0 /\ \E j \in Q : j <= i /\ h[j].at >= K
    BY <2>2, <2>3, <2>4, <2>5
  <2>7. \/ (\A j \in Q : j > i) /\ f[i].start = 0
        \/ \E j \in Q : j <= i /\ (\A k \in Q : k <= i => k <= j) /\ f[i].start = h[j].at
    <3>1. CASE i \in Q
      BY <2>2, <2>3, <2>4, <3>1
    <3>2. CASE i \notin Q
      <4>1. f[i].start = a.start /\ \A j \in Q : (j <= i - 1 <=> j <= i) /\ (j > i - 1 <=> j > i)
        BY <2>2, <2>3, <2>4, <3>2
      <4> QED
        BY <2>5, <4>1
    <3> QED
      BY <3>1, <3>2
  <2>8. \/ (\A p \in P : p > i) /\ f[i].lastPausedFrom = None
        \/ \E p \in P : /\ p <= i /\ \A k \in P : k <= i => k <= p
                        /\ f[i].lastPausedFrom = h[p].from
    <3>1. CASE i \in P
      BY <2>2, <2>3, <2>4, <3>1
    <3>2. CASE i \notin P
      <4>1. /\ f[i].lastPausedFrom = a.lastPausedFrom
            /\ \A j \in P : (j <= i - 1 <=> j <= i) /\ (j > i - 1 <=> j > i)
        BY <2>2, <2>3, <2>4, <3>2
      <4> QED
        BY <2>5, <4>1
    <3> QED
      BY <3>1, <3>2
  <2> QED
    BY <2>2, <2>6, <2>7, <2>8
<1>6. \A i \in 0..n : Means(i)
  <2> HIDE DEF Means
  <2> DEFINE T == {i \in 0..n : ~Means(i)}
  <2>1. T \subseteq Nat
    BY <1>1
  <2>2. ASSUME T # {} PROVE FALSE
    <3> HIDE DEF T
    <3>1. PICK x \in T : \A y \in T : ~(<<y, x>> \in OpToRel(<, Nat))
      BY <2>1, <2>2, NatLessThanWellFounded, WFMin
    <3>2. \A y \in T : ~(y < x)
      BY <2>1, <3>1 DEF OpToRel
    <3> USE DEF T
    <3>3. x # 0 /\ x \in 0..n /\ ~Means(x)
      BY <1>4, <3>1
    <3>4. x \in 1..n /\ x - 1 \in 0..n /\ x - 1 < x
      BY <1>1, <3>3
    <3>5. Means(x - 1)
      BY <3>2, <3>4
    <3> QED
      BY <1>5, <3>3, <3>4, <3>5
  <2> QED
    BY <2>2
<1>7. LC16Rule(s, Q)
  <2>1. SUFFICES ASSUME NEW i \in RowsTo(s, "paper")
                 PROVE  i \in Q <=>
                          \/ h[i].from # "paused"
                          \/ \E p \in {q \in P : q < i} :
                               IsLast(p, {q \in P : q < i}) /\ h[p].from = "killed"
                          \/ K # 0 /\ ~\E j \in Q : j < i /\ h[j].at >= K
    BY DEF LC16Rule
  <2>2. i \in 1..n /\ i - 1 \in 0..n /\ (\A j \in Q \cup P : j \in Nat)
    BY <1>1, <1>3 DEF RowsTo
  <2>3. Means(i - 1)
    BY <1>6, <2>2
  <2>4. i \in Q <=> \/ h[i].from # "paused"
                    \/ f[i - 1].lastPausedFrom = "killed"
                    \/ K # 0 /\ ~f[i - 1].sinceKill
    BY DEF Qualifies
  <2>5. /\ f[i - 1].sinceKill <=> K # 0 /\ \E j \in Q : j <= i - 1 /\ h[j].at >= K
        /\ \/ (\A p \in P : p > i - 1) /\ f[i - 1].lastPausedFrom = None
           \/ \E p \in P : /\ p <= i - 1 /\ \A k \in P : k <= i - 1 => k <= p
                           /\ f[i - 1].lastPausedFrom = h[p].from
    BY <2>3
  <2> HIDE DEF Q, P, h, n, K, Means
  <2>6. \A j \in Q \cup P : (j <= i - 1 <=> j < i) /\ (j > i - 1 <=> ~(j < i))
    BY <2>2
  <2>7. f[i - 1].lastPausedFrom = "killed" <=>
          \E p \in {q \in P : q < i} : IsLast(p, {q \in P : q < i}) /\ h[p].from = "killed"
    <3>1. CASE (\A p \in P : p > i - 1) /\ f[i - 1].lastPausedFrom = None
      BY <2>6, <3>1 DEF None
    <3>2. ASSUME NEW p \in P, p <= i - 1, \A k \in P : k <= i - 1 => k <= p,
                 f[i - 1].lastPausedFrom = h[p].from
          PROVE  f[i - 1].lastPausedFrom = "killed" <=>
                   \E q \in {k \in P : k < i} : IsLast(q, {k \in P : k < i}) /\ h[q].from = "killed"
      <4>1. p \in {k \in P : k < i} /\ IsLast(p, {k \in P : k < i})
        BY <2>6, <3>2 DEF IsLast
      <4>2. ASSUME NEW q \in {k \in P : k < i}, IsLast(q, {k \in P : k < i})
            PROVE  q = p
        <5>1. q <= p /\ p <= q /\ q \in Nat /\ p \in Nat
          BY <2>2, <4>1, <4>2 DEF IsLast
        <5> QED
          BY <5>1
      <4> QED
        BY <3>2, <4>1, <4>2
    <3> QED
      BY <2>5, <3>1, <3>2
  <2>8. f[i - 1].sinceKill <=> K # 0 /\ \E j \in Q : j < i /\ h[j].at >= K
    BY <2>5, <2>6
  <2> QED
    BY <2>4, <2>7, <2>8
<1>8. /\ WindowScan(s).sinceKill <=> K # 0 /\ \E j \in Q : h[j].at >= K
      /\ \/ Q = {} /\ WindowScan(s).start = 0
         \/ \E j \in Q : IsLast(j, Q) /\ WindowScan(s).start = h[j].at
  <2>1. n \in 0..n
    BY <1>1
  <2>2. Means(n)
    BY <1>6, <2>1
  <2>3. \A j \in Q : j <= n /\ ~(j > n)
    BY <1>1, <1>3
  <2>4. /\ f[n].sinceKill <=> K # 0 /\ \E j \in Q : j <= n /\ h[j].at >= K
        /\ \/ (\A j \in Q : j > n) /\ f[n].start = 0
           \/ \E j \in Q : /\ j <= n /\ \A k \in Q : k <= n => k <= j
                           /\ f[n].start = h[j].at
    BY <2>2
  <2> HIDE DEF Q, h, n, K, Means
  <2> QED
    BY <1>2, <2>3, <2>4 DEF IsLast
<1>9. Q \in SUBSET RowsTo(s, "paper")
  OBVIOUS
<1> QED
  BY <1>7, <1>8, <1>9

\* The newest kill that binds a strategy.
LEMMA NewestKillType ==
    ASSUME LedgerTypeOK, NEW s \in Strategies
    PROVE  /\ NewestKillAt(s) \in Nat
           /\ \/ NewestKillAt(s) = 0 /\ \A e \in DOMAIN kills : ~Binds(e, s)
              \/ \E f \in DOMAIN kills :
                    /\ Binds(f, s) /\ NewestKillAt(s) = kills[f].at /\ kills[f].at # 0
                    /\ \A e \in DOMAIN kills : Binds(e, s) => e <= f
<1> DEFINE E == {e \in DOMAIN kills : Binds(e, s)}
<1>1. /\ Len(kills) \in Nat /\ DOMAIN kills = 1..Len(kills)
      /\ \A e \in DOMAIN kills : kills[e].at \in Nat /\ kills[e].at # 0
  <2>1. kills \in Seq(KillRow)
    BY DEF LedgerTypeOK
  <2>2. \A e \in DOMAIN kills : kills[e] \in KillRow
    BY <2>1
  <2> QED
    BY <2>1, <2>2, LedgerBoundsAssumption DEF KillRow, Times
<1>2. CASE E = {}
  BY <1>2 DEF NewestKillAt
<1>3. CASE E # {}
  <2>1. E \in SUBSET (1..Len(kills))
    BY <1>1
  <2> DEFINE f == CHOOSE e \in E : IsLast(e, E)
  <2>2. NewestKillAt(s) = kills[f].at
    BY <1>3 DEF NewestKillAt
  <2> HIDE DEF E
  <2>3. \E e \in E : IsLast(e, E)
    BY <1>1, <1>3, <2>1, LastExists
  <2>4. f \in E /\ IsLast(f, E)
    BY <2>3
  <2> HIDE DEF f
  <2> USE DEF E
  <2> QED
    BY <1>1, <2>2, <2>4 DEF IsLast
<1> QED
  BY <1>2, <1>3

LEMMA WindowLC16 == ASSUME TypeOK PROVE WindowIsLC16
<1> SUFFICES ASSUME NEW s \in Strategies
             PROVE  PaperWindowStart(s) = LC16WindowStart(s)
  BY DEF WindowIsLC16
<1>1. hist[s] \in Seq(Row) /\ NewestKillAt(s) \in Nat
  BY NewestKillType DEF TypeOK
<1>2. PICK Q \in SUBSET RowsTo(s, "paper") :
         /\ LC16Rule(s, Q)
         /\ WindowScan(s).sinceKill <=>
               NewestKillAt(s) # 0 /\ \E j \in Q : hist[s][j].at >= NewestKillAt(s)
         /\ \/ Q = {} /\ WindowScan(s).start = 0
            \/ \E j \in Q : IsLast(j, Q) /\ WindowScan(s).start = hist[s][j].at
  BY <1>1, ScanIsLC16
<1>3. /\ Len(hist[s]) \in Nat /\ DOMAIN hist[s] = 1..Len(hist[s])
      /\ \A i \in DOMAIN hist[s] : hist[s][i].at \in Nat
  <2>1. \A i \in DOMAIN hist[s] : hist[s][i] \in Row
    BY <1>1
  <2> QED
    BY <1>1, <2>1, LedgerBoundsAssumption DEF Row, Times
<1>4. LC16Qualifying(s) = Q
  BY <1>2, <1>3, LC16Unique
<1> DEFINE K == NewestKillAt(s)
           closed == K # 0 /\ \A i \in Q : hist[s][i].at < K
<1>5. \A i \in Q : i \in Nat /\ hist[s][i].at \in Nat
  BY <1>3 DEF RowsTo
<1>6. closed <=> K # 0 /\ ~WindowScan(s).sinceKill
  BY <1>1, <1>2, <1>5
<1>7. LC16WindowStart(s) =
        IF Q = {} \/ closed THEN 0 ELSE hist[s][CHOOSE i \in Q : IsLast(i, Q)].at
  BY <1>4 DEF LC16WindowStart
<1>8. PaperWindowStart(s) = IF K # 0 /\ ~WindowScan(s).sinceKill THEN 0 ELSE WindowScan(s).start
  BY DEF PaperWindowStart
<1> HIDE DEF K, closed
<1>9. CASE Q = {}
  BY <1>2, <1>6, <1>7, <1>8, <1>9
<1>10. CASE Q # {}
  <2>1. PICK j \in Q : IsLast(j, Q) /\ WindowScan(s).start = hist[s][j].at
    BY <1>2, <1>10
  <2>2. \A i \in Q : IsLast(i, Q) => i = j
    <3> TAKE i \in Q
    <3> HAVE IsLast(i, Q)
    <3>1. i <= j /\ j <= i /\ i \in Nat /\ j \in Nat
      BY <1>5, <2>1 DEF IsLast
    <3> QED
      BY <3>1
  <2>3. (CHOOSE i \in Q : IsLast(i, Q)) = j
    BY <2>1, <2>2
  <2>4. CASE closed
    BY <1>6, <1>7, <1>8, <2>4
  <2>5. CASE ~closed
    <3>1. LC16WindowStart(s) = hist[s][j].at
      BY <1>7, <1>10, <2>3, <2>5
    <3>2. PaperWindowStart(s) = WindowScan(s).start
      BY <1>6, <1>8, <2>5
    <3> QED
      BY <2>1, <3>1, <3>2
  <2> QED
    BY <2>4, <2>5
<1> QED
  BY <1>9, <1>10

-----------------------------------------------------------------------------
(* The record of a strategy: what its rows say of the kills and of the     *)
(* paper life before a promotion.  The order of the times is what lets the *)
(* model keep the rows in rowid order where the code sorts by recorded_at. *)

InFlight(s) == req[s].pc \in {"read", "gate", "commit"}

\* Kills are recorded in the order of the clock.
KillsInOrder ==
    \A e, f \in DOMAIN kills : kills[e].at <= now /\ (e <= f => kills[e].at <= kills[f].at)

\* So are transitions, although a handler stamps its row with the time it began.
RowsInOrder ==
    \A s \in Strategies : \A i, j \in DOMAIN hist[s] :
        hist[s][i].at <= now /\ (i <= j => hist[s][i].at <= hist[s][j].at)

\* What a handler read still holds, or the driver has locked the strategy and the
\* compare-and-set will fail.
RequestsHold ==
    \A s \in Strategies : InFlight(s) =>
        /\ req[s].at <= now
        /\ \/ /\ req[s].from = life[s]
              /\ \A i \in DOMAIN hist[s] : hist[s][i].at <= req[s].at
              /\ life[s] = "paused" => req[s].prev = PausedProvenance(s)
           \/ req[s].from \in LiveStates /\ life[s] = "killed"

\* A paper row on which a promotion at a time may rest.
Fresh(row, events, s, at) ==
    /\ row.to = "paper" /\ row.at + GateDays <= at
    /\ \A e \in DOMAIN events :
          events[e].scope \in Binding(s) /\ events[e].at < at => row.at >= events[e].at

\* A gate that was read as passed has such a row.
GateRead ==
    \A s \in Strategies :
      InFlight(s) /\ req[s].gate =>
        \E j \in DOMAIN hist[s] : Fresh(hist[s][j], kills, s, req[s].at)

RecordInv ==
    /\ KillsInOrder /\ RowsInOrder /\ RequestsHold /\ GateRead
    /\ LiveAfterLockPassesPaper /\ PromotedOnFreshRecord

LEMMA PromotedFresh ==
    PromotedOnFreshRecord <=>
      \A s \in Strategies : \A i \in DOMAIN hist[s] :
        hist[s][i].from = "paper" /\ hist[s][i].to \in LiveStates =>
          \E j \in DOMAIN hist[s] : j < i /\ Fresh(hist[s][j], kills, s, hist[s][i].at)
BY DEF PromotedOnFreshRecord, Fresh, Binds

LEMMA HistType ==
    ASSUME TypeOK, NEW s \in Strategies
    PROVE  /\ hist[s] \in Seq(Row) /\ Len(hist[s]) \in Nat /\ DOMAIN hist[s] = 1..Len(hist[s])
           /\ \A i \in DOMAIN hist[s] :
                 hist[s][i] \in Row /\ hist[s][i].at \in Nat /\ hist[s][i].to \in States
                 /\ hist[s][i].at # 0
<1>1. hist[s] \in Seq(Row)
  BY DEF TypeOK
<1>2. Len(hist[s]) \in Nat /\ DOMAIN hist[s] = 1..Len(hist[s])
  BY <1>1
<1>3. \A i \in DOMAIN hist[s] : hist[s][i] \in Row
  BY <1>1, <1>2
<1> QED
  BY <1>1, <1>2, <1>3, LedgerBoundsAssumption DEF Row, Times

LEMMA KillsType ==
    ASSUME TypeOK
    PROVE  /\ now \in Nat /\ Len(kills) \in Nat /\ DOMAIN kills = 1..Len(kills)
           /\ \A e \in DOMAIN kills : kills[e].at \in Nat
           /\ GateDays \in Nat
<1>1. kills \in Seq(KillRow) /\ now \in Times
  BY DEF TypeOK, LedgerTypeOK
<1>2. Len(kills) \in Nat /\ DOMAIN kills = 1..Len(kills)
  BY <1>1
<1>3. \A e \in DOMAIN kills : kills[e] \in KillRow
  BY <1>1, <1>2
<1> QED
  BY <1>1, <1>2, <1>3, LedgerBoundsAssumption, LifecycleBoundsAssumption DEF KillRow, Times

LEMMA RequestType ==
    ASSUME TypeOK, NEW s \in Strategies
    PROVE  req[s] \in Request /\ req[s].at \in Nat
<1>1. req[s] \in Request
  BY DEF TypeOK
<1> QED
  BY <1>1, LedgerBoundsAssumption DEF Request, Times

LEMMA InitRecord == Init => RecordInv
<1> SUFFICES ASSUME Init PROVE RecordInv
  OBVIOUS
<1>1. kills = <<>> /\ DOMAIN kills = {} /\ now = 1
  BY DEF Init, LedgerInit
<1>2. ASSUME NEW s \in Strategies
      PROVE  \/ hist[s] = <<>>
             \/ hist[s] = <<[from |-> "draft", to |-> "paper", at |-> now]>>
  BY DEF Init
<1>3. \A s \in Strategies : \A i, j \in DOMAIN hist[s] :
         i = j /\ hist[s][i].at = 1 /\ hist[s][i].to = "paper" /\ hist[s][i].from = "draft"
  BY <1>1, <1>2
<1>4. KillsInOrder
  BY <1>1 DEF KillsInOrder
<1>5. RowsInOrder
  BY <1>1, <1>3 DEF RowsInOrder
<1>6. RequestsHold /\ GateRead
  BY DEF Init, RequestsHold, InFlight, GateRead, NoRequest
<1>7. LiveAfterLockPassesPaper
  BY <1>3 DEF LiveAfterLockPassesPaper, LiveStates
<1>8. PromotedOnFreshRecord
  BY <1>3 DEF PromotedOnFreshRecord, LiveStates
<1> QED
  BY <1>4, <1>5, <1>6, <1>7, <1>8 DEF RecordInv

\* Neither the record nor a handler in flight is touched.
LEMMA RecordFrame ==
    ASSUME RecordInv, UNCHANGED <<now, kills, life, hist>>,
           \A s \in Strategies : req'[s] = req[s] \/ req'[s].pc \notin {"read", "gate", "commit"}
    PROVE  RecordInv'
<1>1. KillsInOrder' /\ RowsInOrder' /\ LiveAfterLockPassesPaper' /\ PromotedOnFreshRecord'
  BY DEF RecordInv, KillsInOrder, RowsInOrder, LiveAfterLockPassesPaper, PromotedOnFreshRecord, Binds
<1>2. RequestsHold'
  BY DEF RecordInv, RequestsHold, InFlight, PausedProvenance, RowsTo, IsLast
<1>3. GateRead'
  BY DEF RecordInv, GateRead, InFlight, Fresh
<1> QED
  BY <1>1, <1>2, <1>3 DEF RecordInv

\* The provenance of a pause is read from the rows alone.
LEMMA ProvenanceKept ==
    ASSUME NEW s \in Strategies, hist'[s] = hist[s]
    PROVE  PausedProvenance(s)' = PausedProvenance(s)
BY DEF PausedProvenance, RowsTo, IsLast

\* Time passes.
LEMMA RecordTick ==
    ASSUME TypeOK, RecordInv, now' = now + 1, UNCHANGED <<kills, life, hist, req>>
    PROVE  RecordInv'
<1>1. now \in Nat /\ \A e \in DOMAIN kills : kills[e].at \in Nat
  BY KillsType
<1>2. KillsInOrder'
  BY <1>1 DEF RecordInv, KillsInOrder
<1>3. \A s \in Strategies : req[s].at \in Nat /\ \A i \in DOMAIN hist[s] : hist[s][i].at \in Nat
  BY HistType, RequestType
<1>4. RowsInOrder'
  BY <1>1, <1>3 DEF RecordInv, RowsInOrder
<1>5. RequestsHold'
  <2> SUFFICES ASSUME NEW s \in Strategies, InFlight(s)'
               PROVE  /\ req'[s].at <= now'
                      /\ \/ /\ req'[s].from = life'[s]
                            /\ \A i \in DOMAIN hist'[s] : hist'[s][i].at <= req'[s].at
                            /\ life'[s] = "paused" => req'[s].prev = PausedProvenance(s)'
                         \/ req'[s].from \in LiveStates /\ life'[s] = "killed"
    BY DEF RequestsHold
  <2>1. PausedProvenance(s)' = PausedProvenance(s)
    BY ProvenanceKept
  <2> QED
    BY <1>1, <1>3, <2>1 DEF RecordInv, RequestsHold, InFlight
<1>6. GateRead' /\ LiveAfterLockPassesPaper' /\ PromotedOnFreshRecord'
  BY DEF RecordInv, GateRead, InFlight, Fresh, LiveAfterLockPassesPaper, PromotedOnFreshRecord, Binds
<1> QED
  BY <1>2, <1>4, <1>5, <1>6 DEF RecordInv

\* A kill is appended: it is not older than anything recorded or requested.
LEMMA RecordKill ==
    ASSUME TypeOK, RecordInv, NEW c \in Scopes, AppendKill(c, FALSE), UNCHANGED <<life, hist, req>>
    PROVE  RecordInv'
<1> DEFINE row == [scope |-> c, flatten |-> FALSE, at |-> now]
<1>1. kills' = Append(kills, row) /\ now' = now /\ row.at = now
  BY DEF AppendKill
<1>2. kills \in Seq(KillRow) /\ row \in KillRow
  BY DEF TypeOK, LedgerTypeOK, KillRow
<1> HIDE DEF row
<1>3. /\ Len(kills) \in Nat /\ DOMAIN kills = 1..Len(kills) /\ DOMAIN kills' = 1..(Len(kills) + 1)
      /\ \A e \in DOMAIN kills : kills'[e] = kills[e]
      /\ kills'[Len(kills) + 1] = row
  BY <1>1, <1>2
<1>4. now \in Nat /\ \A e \in DOMAIN kills : kills[e].at \in Nat
  BY KillsType
<1>5. \A e \in DOMAIN kills' : e \in DOMAIN kills \/ (e = Len(kills) + 1 /\ kills'[e].at = now)
  BY <1>1, <1>3
<1>6. KillsInOrder'
  <2>1. \A e \in DOMAIN kills : kills[e].at <= now
    BY DEF RecordInv, KillsInOrder
  <2>2. ASSUME NEW e \in DOMAIN kills', NEW f \in DOMAIN kills'
        PROVE  kills'[e].at <= now' /\ (e <= f => kills'[e].at <= kills'[f].at)
    <3>1. CASE f \in DOMAIN kills /\ e \in DOMAIN kills
      BY <1>1, <1>3, <3>1 DEF RecordInv, KillsInOrder
    <3>2. CASE f = Len(kills) + 1
      BY <1>1, <1>3, <1>4, <1>5, <2>1, <3>2
    <3>3. CASE e = Len(kills) + 1 /\ f \in DOMAIN kills
      BY <1>1, <1>3, <1>4, <3>3
    <3> QED
      BY <1>5, <3>1, <3>2, <3>3
  <2> QED
    BY <2>2 DEF KillsInOrder
<1>7. ASSUME NEW s \in Strategies, NEW r \in Row, NEW at \in Nat, at <= now, Fresh(r, kills, s, at)
      PROVE  Fresh(r, kills', s, at)
  <2>1. ASSUME NEW e \in DOMAIN kills', kills'[e].scope \in Binding(s), kills'[e].at < at
        PROVE  r.at >= kills'[e].at
    <3>1. e \in DOMAIN kills
      BY <1>4, <1>5, <1>7, <2>1
    <3> QED
      BY <1>3, <1>7, <2>1, <3>1 DEF Fresh
  <2> QED
    BY <1>7, <2>1 DEF Fresh
<1>8. \A s \in Strategies : /\ req[s].at \in Nat
                            /\ \A i \in DOMAIN hist[s] : hist[s][i] \in Row /\ hist[s][i].at \in Nat
  BY HistType, RequestType
<1>9. RowsInOrder' /\ LiveAfterLockPassesPaper'
  BY <1>1 DEF RecordInv, RowsInOrder, LiveAfterLockPassesPaper
<1>12. RequestsHold'
  <2> SUFFICES ASSUME NEW s \in Strategies, InFlight(s)'
               PROVE  /\ req'[s].at <= now'
                      /\ \/ /\ req'[s].from = life'[s]
                            /\ \A i \in DOMAIN hist'[s] : hist'[s][i].at <= req'[s].at
                            /\ life'[s] = "paused" => req'[s].prev = PausedProvenance(s)'
                         \/ req'[s].from \in LiveStates /\ life'[s] = "killed"
    BY DEF RequestsHold
  <2>1. PausedProvenance(s)' = PausedProvenance(s)
    BY ProvenanceKept
  <2> QED
    BY <1>1, <2>1 DEF RecordInv, RequestsHold, InFlight
<1>10. GateRead'
  <2>1. ASSUME NEW s \in Strategies, InFlight(s), req[s].gate
        PROVE  \E j \in DOMAIN hist[s] : Fresh(hist[s][j], kills', s, req[s].at)
    <3>1. PICK j \in DOMAIN hist[s] : Fresh(hist[s][j], kills, s, req[s].at)
      BY <2>1 DEF RecordInv, GateRead
    <3>2. req[s].at <= now
      BY <2>1 DEF RecordInv, RequestsHold
    <3>3. Fresh(hist[s][j], kills', s, req[s].at)
      BY <1>7, <1>8, <3>1, <3>2
    <3> QED
      BY <3>3
  <2> QED
    BY <2>1 DEF GateRead, InFlight
<1>11. PromotedOnFreshRecord'
  <2>1. ASSUME NEW s \in Strategies, NEW i \in DOMAIN hist[s],
               hist[s][i].from = "paper", hist[s][i].to \in LiveStates
        PROVE  \E j \in DOMAIN hist[s] : j < i /\ Fresh(hist[s][j], kills', s, hist[s][i].at)
    <3>1. PICK j \in DOMAIN hist[s] : j < i /\ Fresh(hist[s][j], kills, s, hist[s][i].at)
      BY <2>1, PromotedFresh DEF RecordInv
    <3>2. hist[s][i].at <= now
      BY DEF RecordInv, RowsInOrder
    <3>3. Fresh(hist[s][j], kills', s, hist[s][i].at)
      BY <1>7, <1>8, <3>1, <3>2
    <3> QED
      BY <3>1, <3>3
  <2>2. hist' = hist
    OBVIOUS
  <2> QED
    BY <2>1, <2>2 DEF PromotedOnFreshRecord, Fresh, Binds
<1> QED
  BY <1>6, <1>9, <1>10, <1>11, <1>12 DEF RecordInv

\* A handler begins or reads on.
LEMMA RecordRequest ==
    ASSUME RecordInv, UNCHANGED <<now, kills, life, hist>>, NEW s \in Strategies,
           \A r \in Strategies \ {s} : req'[r] = req[r],
           /\ req'[s].at <= now
           /\ \/ /\ req'[s].from = life[s]
                 /\ \A i \in DOMAIN hist[s] : hist[s][i].at <= req'[s].at
                 /\ life[s] = "paused" => req'[s].prev = PausedProvenance(s)
              \/ req'[s].from \in LiveStates /\ life[s] = "killed",
           req'[s].gate =>
              \E j \in DOMAIN hist[s] : Fresh(hist[s][j], kills, s, req'[s].at)
    PROVE  RecordInv'
<1>1. KillsInOrder' /\ RowsInOrder' /\ LiveAfterLockPassesPaper' /\ PromotedOnFreshRecord'
  BY DEF RecordInv, KillsInOrder, RowsInOrder, LiveAfterLockPassesPaper, PromotedOnFreshRecord, Binds
<1>2. RequestsHold'
  <2> SUFFICES ASSUME NEW r \in Strategies, InFlight(r)'
               PROVE  /\ req'[r].at <= now'
                      /\ \/ /\ req'[r].from = life'[r]
                            /\ \A i \in DOMAIN hist'[r] : hist'[r][i].at <= req'[r].at
                            /\ life'[r] = "paused" => req'[r].prev = PausedProvenance(r)'
                         \/ req'[r].from \in LiveStates /\ life'[r] = "killed"
    BY DEF RequestsHold
  <2>1. PausedProvenance(r)' = PausedProvenance(r)
    BY ProvenanceKept
  <2>2. CASE r = s
    BY <2>1, <2>2
  <2>3. CASE r # s
    BY <2>1, <2>3 DEF RecordInv, RequestsHold, InFlight
  <2> QED
    BY <2>2, <2>3
<1>3. GateRead'
  BY DEF RecordInv, GateRead, InFlight, Fresh
<1> QED
  BY <1>1, <1>2, <1>3 DEF RecordInv

\* The window that a handler reads starts at a paper row that no older kill follows.
LEMMA WindowFresh ==
    ASSUME TypeOK, KillsInOrder, RowsInOrder, NEW s \in Strategies, NEW at \in Nat,
           PaperWindowStart(s) # 0, PaperWindowStart(s) + GateDays <= at
    PROVE  \E j \in DOMAIN hist[s] : Fresh(hist[s][j], kills, s, at)
<1> DEFINE K == NewestKillAt(s)
           h == hist[s]
<1>1. /\ h \in Seq(Row) /\ Len(h) \in Nat /\ DOMAIN h = 1..Len(h)
      /\ \A i \in DOMAIN h : h[i].at \in Nat
      /\ \A e \in DOMAIN kills : kills[e].at \in Nat
  BY HistType, KillsType
<1>2. K \in Nat /\ \/ K = 0 /\ \A e \in DOMAIN kills : ~Binds(e, s)
                   \/ \E f \in DOMAIN kills :
                        /\ Binds(f, s) /\ K = kills[f].at /\ kills[f].at # 0
                        /\ \A e \in DOMAIN kills : Binds(e, s) => e <= f
  BY NewestKillType DEF TypeOK
<1>3. \A e \in DOMAIN kills : Binds(e, s) => kills[e].at <= K /\ K # 0
  BY <1>2 DEF KillsInOrder
<1>4. PICK Q \in SUBSET RowsTo(s, "paper") :
         /\ WindowScan(s).sinceKill <=> K # 0 /\ \E j \in Q : h[j].at >= K
         /\ \/ Q = {} /\ WindowScan(s).start = 0
            \/ \E j \in Q : IsLast(j, Q) /\ WindowScan(s).start = h[j].at
  BY <1>1, <1>2, ScanIsLC16
<1>5. /\ PaperWindowStart(s) = WindowScan(s).start
      /\ K = 0 \/ WindowScan(s).sinceKill
  BY DEF PaperWindowStart
<1>6. PICK j \in Q : IsLast(j, Q) /\ PaperWindowStart(s) = h[j].at
  BY <1>4, <1>5
<1>7. j \in DOMAIN h /\ h[j].to = "paper" /\ \A i \in Q : i \in DOMAIN h
  BY DEF RowsTo
<1>8. ASSUME NEW e \in DOMAIN kills, Binds(e, s)
      PROVE  h[j].at >= kills[e].at
  <2>1. K # 0 /\ kills[e].at <= K
    BY <1>3, <1>8
  <2>2. PICK i \in Q : h[i].at >= K
    BY <1>4, <1>5, <2>1
  <2>3. i <= j
    BY <1>6, <2>2 DEF IsLast
  <2>4. h[i].at <= h[j].at
    BY <1>7, <2>2, <2>3 DEF RowsInOrder
  <2> QED
    BY <1>1, <1>2, <1>7, <2>1, <2>2, <2>4
<1>9. Fresh(h[j], kills, s, at)
  BY <1>6, <1>7, <1>8 DEF Fresh, Binds
<1> QED
  BY <1>7, <1>9

\* The newest pause of a paused strategy is its last row.
LEMMA PausedByLastRow ==
    ASSUME TypeOK, AuditTrailIsChain, NEW s \in Strategies, life[s] = "paused", hist[s] # <<>>
    PROVE  PausedProvenance(s) = hist[s][Len(hist[s])].from
<1> DEFINE h == hist[s]
           m == Len(h)
           I == RowsTo(s, "paused")
<1>1. m \in Nat /\ DOMAIN h = 1..m /\ m > 0
  BY HistType
<1>2. h[m].to = "paused"
  BY DEF AuditTrailIsChain
<1>3. m \in I /\ \A i \in I : i \in Nat /\ i <= m
  BY <1>1, <1>2 DEF RowsTo
<1>4. IsLast(m, I) /\ \A i \in I : IsLast(i, I) => i = m
  <2>1. IsLast(m, I)
    BY <1>3 DEF IsLast
  <2>2. ASSUME NEW i \in I, IsLast(i, I) PROVE i = m
    <3>1. m <= i /\ i <= m /\ i \in Nat
      BY <1>3, <2>2 DEF IsLast
    <3> QED
      BY <1>1, <3>1
  <2> QED
    BY <2>1, <2>2
<1>5. (CHOOSE i \in I : IsLast(i, I)) = m
  BY <1>3, <1>4
<1>6. PausedProvenance(s) = h[CHOOSE i \in I : IsLast(i, I)].from
  BY <1>3 DEF PausedProvenance
<1> QED
  BY <1>5, <1>6

\* A row is appended, by a handler or by the driver's lock.
LEMMA RecordRow ==
    ASSUME TypeOK, AuditTrailIsChain, RecordInv, NEW s \in Strategies, NEW to \in States,
           NEW at \in Times, Transition(s, life[s], to, at), UNCHANGED <<now, kills>>,
           at <= now, \A i \in DOMAIN hist[s] : hist[s][i].at <= at,
           to \in LiveStates => \/ life[s] \in LiveStates \cup {"paper"}
                                \/ life[s] = "paused" /\ PausedProvenance(s) = to,
           to \in LiveStates /\ life[s] = "paper" =>
              \E j \in DOMAIN hist[s] : Fresh(hist[s][j], kills, s, at)
    PROVE  /\ KillsInOrder' /\ RowsInOrder' /\ LiveAfterLockPassesPaper' /\ PromotedOnFreshRecord'
           /\ life'[s] = to
           /\ \A r \in Strategies \ {s} : hist'[r] = hist[r] /\ life'[r] = life[r]
           /\ \A i \in DOMAIN hist[s] : i \in DOMAIN hist'[s] /\ hist'[s][i] = hist[s][i]
<1> DEFINE h == hist[s]
           g == hist'[s]
           m == Len(hist[s])
           row == [from |-> life[s], to |-> to, at |-> at]
<1>1. /\ h \in Seq(Row) /\ m \in Nat /\ DOMAIN h = 1..m
      /\ \A i \in DOMAIN h : h[i].at \in Nat /\ h[i].to \in States
  BY HistType
<1>2. row \in Row /\ at \in Nat /\ row.from = life[s] /\ row.to = to /\ row.at = at
  BY LedgerBoundsAssumption DEF TypeOK, Row, Times
<1>3. g = Append(h, row) /\ life'[s] = to
  BY DEF Transition, TypeOK
<1>4. \A r \in Strategies \ {s} : hist'[r] = hist[r] /\ life'[r] = life[r]
  BY DEF Transition, TypeOK
<1> HIDE DEF row
<1>5. /\ DOMAIN g = 1..(m + 1) /\ g[m + 1] = row
      /\ \A i \in DOMAIN h : i \in DOMAIN g /\ g[i] = h[i]
  BY <1>1, <1>2, <1>3
<1>6. \A i \in DOMAIN g : i \in DOMAIN h \/ i = m + 1
  BY <1>1, <1>5
<1>7. h # <<>> => m > 0 /\ m \in DOMAIN h /\ life[s] = h[m].to
  BY <1>1 DEF AuditTrailIsChain
<1>8. KillsInOrder'
  BY DEF RecordInv, KillsInOrder
<1>9. RowsInOrder'
  <2>1. ASSUME NEW i \in DOMAIN g, NEW j \in DOMAIN g
        PROVE  g[i].at <= now /\ (i <= j => g[i].at <= g[j].at)
    <3>1. CASE i \in DOMAIN h /\ j \in DOMAIN h
      BY <1>5, <3>1 DEF RecordInv, RowsInOrder
    <3>2. CASE j = m + 1
      BY <1>1, <1>2, <1>5, <1>6, <3>2 DEF RecordInv, RowsInOrder
    <3>3. CASE i = m + 1 /\ j \in DOMAIN h
      BY <1>1, <1>2, <1>5, <3>3
    <3> QED
      BY <1>6, <3>1, <3>2, <3>3
  <2> HIDE DEF g
  <2>2. ASSUME NEW r \in Strategies, NEW i \in DOMAIN hist'[r], NEW j \in DOMAIN hist'[r]
        PROVE  hist'[r][i].at <= now' /\ (i <= j => hist'[r][i].at <= hist'[r][j].at)
    <3>1. CASE r = s
      BY <2>1, <2>2, <3>1 DEF g
    <3>2. CASE r # s
      BY <1>4, <2>2, <3>2 DEF RecordInv, RowsInOrder
    <3> QED
      BY <3>1, <3>2
  <2> QED
    BY <2>2 DEF RowsInOrder
<1>10. ASSUME NEW i \in DOMAIN g, NEW j \in DOMAIN g, i < j, g[i].to = "killed", g[j].to \in LiveStates
       PROVE  \E k \in DOMAIN g : i < k /\ k < j /\ g[k].to = "paper"
  <2>1. i \in DOMAIN h /\ h[i].to = "killed" /\ h # <<>>
    BY <1>1, <1>5, <1>6, <1>10
  <2>2. \A l \in DOMAIN h : i < l /\ h[l].to \in LiveStates =>
          \E k \in DOMAIN h : i < k /\ k < l /\ h[k].to = "paper"
    BY <2>1 DEF RecordInv, LiveAfterLockPassesPaper
  <2>3. CASE j \in DOMAIN h
    BY <1>5, <1>10, <2>2, <2>3
  <2>4. CASE j = m + 1
    <3>1. to \in LiveStates /\ i <= m /\ i \in Nat /\ m \in DOMAIN h /\ life[s] = h[m].to
      BY <1>1, <1>2, <1>5, <1>7, <1>10, <2>1, <2>4
    <3>2. i # m => i < m
      BY <1>1, <3>1
    <3>3. "killed" \notin LiveStates /\ "killed" # "paper" /\ "killed" # "paused"
      BY DEF LiveStates
    <3>4. m < j
      BY <1>1, <2>4
    <3>5. CASE life[s] = "paper"
      <4>1. i < m
        BY <2>1, <3>1, <3>2, <3>3, <3>5
      <4> QED
        BY <1>5, <3>1, <3>4, <3>5, <4>1
    <3>6. CASE life[s] \in LiveStates
      <4>1. i < m
        BY <2>1, <3>1, <3>2, <3>3, <3>6
      <4>2. PICK k \in DOMAIN h : i < k /\ k < m /\ h[k].to = "paper"
        BY <2>2, <3>1, <3>6, <4>1
      <4>3. k < j
        BY <1>1, <2>4, <4>2
      <4> QED
        BY <1>5, <4>2, <4>3
    <3>7. CASE life[s] = "paused" /\ PausedProvenance(s) = to
      <4>1. i < m
        BY <2>1, <3>1, <3>2, <3>3, <3>7
      <4>2. h[m].from = to
        BY <2>1, <3>7, PausedByLastRow
      <4>3. m > 1 /\ m - 1 \in DOMAIN h
        BY <1>1, <2>1, <4>1
      <4>4. h[m - 1].to = to
        BY <3>1, <4>2, <4>3 DEF AuditTrailIsChain
      <4>5. i < m - 1
        <5>1. i # m - 1
          BY <2>1, <3>1, <3>3, <4>4
        <5> QED
          BY <1>1, <3>1, <4>1, <5>1
      <4>6. PICK k \in DOMAIN h : i < k /\ k < m - 1 /\ h[k].to = "paper"
        BY <2>2, <3>1, <4>3, <4>4, <4>5
      <4>7. k < j
        BY <1>1, <2>4, <4>6
      <4> QED
        BY <1>5, <4>6, <4>7
    <3> QED
      BY <3>1, <3>5, <3>6, <3>7
  <2> QED
    BY <1>6, <2>3, <2>4
<1>11. LiveAfterLockPassesPaper'
  <2> HIDE DEF g
  <2> SUFFICES ASSUME NEW r \in Strategies, NEW i \in DOMAIN hist'[r], NEW j \in DOMAIN hist'[r],
                      i < j, hist'[r][i].to = "killed", hist'[r][j].to \in LiveStates
               PROVE  \E k \in DOMAIN hist'[r] : i < k /\ k < j /\ hist'[r][k].to = "paper"
    BY DEF LiveAfterLockPassesPaper
  <2>1. CASE r = s
    BY <1>10, <2>1 DEF g
  <2>2. CASE r # s
    BY <1>4, <2>2 DEF RecordInv, LiveAfterLockPassesPaper
  <2> QED
    BY <2>1, <2>2
<1>12. ASSUME NEW i \in DOMAIN g, g[i].from = "paper", g[i].to \in LiveStates
       PROVE  \E j \in DOMAIN g : j < i /\ Fresh(g[j], kills, s, g[i].at)
  <2>1. CASE i \in DOMAIN h
    <3>1. PICK j \in DOMAIN h : j < i /\ Fresh(h[j], kills, s, h[i].at)
      BY <1>5, <1>12, <2>1, PromotedFresh DEF RecordInv
    <3> QED
      BY <1>5, <2>1, <3>1
  <2>2. CASE i = m + 1
    <3>1. to \in LiveStates /\ life[s] = "paper" /\ g[i].at = at
      BY <1>2, <1>5, <1>12, <2>2
    <3>2. PICK j \in DOMAIN h : Fresh(h[j], kills, s, at)
      BY <3>1
    <3>3. j < i
      BY <1>1, <2>2
    <3> QED
      BY <1>5, <3>1, <3>2, <3>3
  <2> QED
    BY <1>6, <2>1, <2>2
<1>13. PromotedOnFreshRecord'
  <2> HIDE DEF g
  <2>1. ASSUME NEW r \in Strategies, NEW i \in DOMAIN hist'[r],
               hist'[r][i].from = "paper", hist'[r][i].to \in LiveStates
        PROVE  \E j \in DOMAIN hist'[r] : j < i /\ Fresh(hist'[r][j], kills, r, hist'[r][i].at)
    <3>1. CASE r = s
      BY <1>12, <2>1, <3>1 DEF g
    <3>2. CASE r # s
      BY <1>4, <2>1, <3>2, PromotedFresh DEF RecordInv
    <3> QED
      BY <3>1, <3>2
  <2>2. kills' = kills
    OBVIOUS
  <2> QED
    BY <2>1, <2>2 DEF PromotedOnFreshRecord, Fresh, Binds
<1> QED
  BY <1>3, <1>4, <1>5, <1>8, <1>9, <1>11, <1>13

\* The other handlers and gates after a row of s.
LEMMA OthersHold ==
    ASSUME RecordInv, NEW s \in Strategies, UNCHANGED <<now, kills>>,
           \A r \in Strategies \ {s} : req'[r] = req[r] /\ hist'[r] = hist[r] /\ life'[r] = life[r],
           InFlight(s)' => req'[s].from \in LiveStates /\ life'[s] = "killed" /\ req'[s].at <= now,
           InFlight(s)' /\ req'[s].gate =>
              \E j \in DOMAIN hist'[s] : Fresh(hist'[s][j], kills, s, req'[s].at)
    PROVE  RequestsHold' /\ GateRead'
<1>1. RequestsHold'
  <2> SUFFICES ASSUME NEW r \in Strategies, InFlight(r)'
               PROVE  /\ req'[r].at <= now'
                      /\ \/ /\ req'[r].from = life'[r]
                            /\ \A i \in DOMAIN hist'[r] : hist'[r][i].at <= req'[r].at
                            /\ life'[r] = "paused" => req'[r].prev = PausedProvenance(r)'
                         \/ req'[r].from \in LiveStates /\ life'[r] = "killed"
    BY DEF RequestsHold
  <2>1. CASE r = s
    BY <2>1
  <2>2. CASE r # s
    <3>1. PausedProvenance(r)' = PausedProvenance(r)
      BY <2>2, ProvenanceKept
    <3> QED
      BY <2>2, <3>1 DEF RecordInv, RequestsHold, InFlight
  <2> QED
    BY <2>1, <2>2
<1>2. GateRead'
  <2> SUFFICES ASSUME NEW r \in Strategies, InFlight(r)', req'[r].gate
               PROVE  \E j \in DOMAIN hist'[r] : Fresh(hist'[r][j], kills', r, req'[r].at)
    BY DEF GateRead, Fresh
  <2>1. CASE r = s
    BY <2>1
  <2>2. CASE r # s
    BY <2>2 DEF RecordInv, GateRead, InFlight
  <2> QED
    BY <2>1, <2>2
<1> QED
  BY <1>1, <1>2

LEMMA RecordCommit ==
    ASSUME IInv, RecordInv, NEW s \in Strategies, Commit(s)
    PROVE  RecordInv'
<1> DEFINE q == req[s]
<1>1. /\ q.pc = "commit" /\ life[s] = q.from /\ Allowed(q)
      /\ Transition(s, life[s], q.to, q.at)
      /\ UNCHANGED <<now, kills>>
      /\ \A r \in Strategies \ {s} : req'[r] = req[r]
      /\ req'[s].pc \in {"idle", "effect"}
  <2>1. /\ q.pc = "commit" /\ life[s] = q.from /\ Allowed(q)
        /\ Transition(s, life[s], q.to, q.at)
        /\ UNCHANGED <<now, kills>>
    BY DEF Commit, CommitCheck, ledger
  <2>2. req \in [Strategies -> Request]
    BY DEF IInv, TypeOK
  <2>3. req' = [req EXCEPT ![s].pc = "effect"] \/ req' = [req EXCEPT ![s] = NoRequest]
    BY DEF Commit
  <2>4. \A r \in Strategies \ {s} : req'[r] = req[r]
    BY <2>2, <2>3
  <2>5. req'[s].pc \in {"idle", "effect"}
    <3>1. CASE req' = [req EXCEPT ![s] = NoRequest]
      BY <2>2, <3>1 DEF NoRequest
    <3>2. CASE req' = [req EXCEPT ![s].pc = "effect"]
      BY <2>2, <3>2 DEF Request
    <3> QED
      BY <2>3, <3>1, <3>2
  <2> QED
    BY <2>1, <2>4, <2>5
<1>2. q \in Request /\ q.at \in Times
  BY <1>1 DEF IInv, TypeOK, RequestsTimed
<1>3. q.to \in States
  <2>1. q.to \in States \cup {None}
    BY <1>2 DEF Request
  <2>2. q.to # None
    BY <1>1 DEF Allowed, GuardPaper, GuardLive, GuardPaused, GuardKilled, LiveStates, None
  <2> QED
    BY <2>1, <2>2
<1>4. /\ q.at <= now /\ \A i \in DOMAIN hist[s] : hist[s][i].at <= q.at
      /\ life[s] = "paused" => q.prev = PausedProvenance(s)
  BY <1>1 DEF RecordInv, RequestsHold, InFlight, LiveStates
<1>5. ASSUME q.to \in LiveStates
      PROVE  /\ \/ life[s] \in LiveStates \cup {"paper"}
                \/ life[s] = "paused" /\ PausedProvenance(s) = q.to
             /\ life[s] = "paper" => q.gate
  <2>1. q.to \notin {"paper", "paused"}
    BY <1>5 DEF LiveStates
  <2>2. \/ q.from = "paper" /\ q.gate
        \/ q.from \in LiveStates
        \/ q.from = "paused" /\ q.to = q.prev
    BY <1>1, <2>1 DEF Allowed, GuardPaper, GuardPaused, GuardKilled
  <2>3. "paper" \notin LiveStates
    BY DEF LiveStates
  <2> QED
    BY <1>1, <1>4, <2>2, <2>3
<1>6. q.to \in LiveStates /\ life[s] = "paper" =>
        \E j \in DOMAIN hist[s] : Fresh(hist[s][j], kills, s, q.at)
  BY <1>1, <1>5 DEF RecordInv, GateRead, InFlight
<1> HIDE DEF q
<1>7. /\ KillsInOrder' /\ RowsInOrder' /\ LiveAfterLockPassesPaper' /\ PromotedOnFreshRecord'
      /\ \A r \in Strategies \ {s} : hist'[r] = hist[r] /\ life'[r] = life[r]
  BY <1>1, <1>2, <1>3, <1>4, <1>5, <1>6, RecordRow DEF IInv
<1>8. ~InFlight(s)'
  BY <1>1 DEF InFlight
<1>9. RequestsHold' /\ GateRead'
  BY <1>1, <1>7, <1>8, OthersHold
<1> QED
  BY <1>7, <1>9 DEF RecordInv

LEMMA RecordLock ==
    ASSUME IInv, RecordInv, NEW s \in Strategies, DriverLock(s)
    PROVE  RecordInv'
<1>1. UNCHANGED <<now, kills, req>>
  BY DEF DriverLock, ledger
<1>2. CASE life[s] \in LiveStates
  <2>1. Transition(s, life[s], "killed", now)
    BY <1>2 DEF DriverLock
  <2>2. /\ "killed" \in States /\ "killed" \notin LiveStates /\ now \in Times /\ now <= now
        /\ \A i \in DOMAIN hist[s] : hist[s][i].at <= now
    BY KillsType DEF IInv, TypeOK, LedgerTypeOK, States, LiveStates, RecordInv, RowsInOrder
  <2>3. /\ KillsInOrder' /\ RowsInOrder' /\ LiveAfterLockPassesPaper' /\ PromotedOnFreshRecord'
        /\ life'[s] = "killed"
        /\ \A r \in Strategies \ {s} : hist'[r] = hist[r] /\ life'[r] = life[r]
        /\ \A i \in DOMAIN hist[s] : i \in DOMAIN hist'[s] /\ hist'[s][i] = hist[s][i]
    BY <1>1, <2>1, <2>2, RecordRow DEF IInv
  <2>4. InFlight(s) => req[s].from \in LiveStates /\ req[s].at <= now
    BY <1>2 DEF RecordInv, RequestsHold
  <2>5. InFlight(s) /\ req[s].gate =>
          \E j \in DOMAIN hist'[s] : Fresh(hist'[s][j], kills, s, req[s].at)
    <3> HAVE InFlight(s) /\ req[s].gate
    <3>1. PICK j \in DOMAIN hist[s] : Fresh(hist[s][j], kills, s, req[s].at)
      BY DEF RecordInv, GateRead
    <3> QED
      BY <2>3, <3>1
  <2>6. InFlight(s)' => InFlight(s)
    BY <1>1 DEF InFlight
  <2>7. RequestsHold' /\ GateRead'
    BY <1>1, <2>3, <2>4, <2>5, <2>6, OthersHold
  <2> QED
    BY <2>3, <2>7 DEF RecordInv
<1>3. CASE life[s] \notin LiveStates
  BY <1>1, <1>3, RecordFrame DEF DriverLock, rows
<1> QED
  BY <1>2, <1>3

\* A handler reads under strategyLock what its commit will rest on.
LEMMA RecordReads ==
    ASSUME IInv, RecordInv, NEW s \in Strategies, Begin(s) \/ ReadContext(s) \/ ReadGate(s)
    PROVE  RecordInv'
<1>1. /\ UNCHANGED <<now, kills, life, hist>> /\ req \in [Strategies -> Request]
      /\ TypeOK /\ GateDays \in Nat
  BY KillsType DEF IInv, TypeOK, Begin, ReadContext, ReadGate, ledger, rows
<1>2. now <= now /\ now \in Nat
  BY KillsType DEF IInv
<1>3. CASE Begin(s)
  <2>1. PICK to \in Requests, role \in Callers :
          req' = [req EXCEPT ![s] =
              [NoRequest EXCEPT !.pc = "read", !.to = to, !.role = role, !.at = now,
                 !.from = life[s],
                 !.prev = IF life[s] = "paused" THEN PausedProvenance(s) ELSE None]]
    BY <1>3 DEF Begin
  <2>2. /\ req'[s].at = now /\ req'[s].from = life[s] /\ ~req'[s].gate
        /\ life[s] = "paused" => req'[s].prev = PausedProvenance(s)
        /\ \A r \in Strategies \ {s} : req'[r] = req[r]
    BY <1>1, <2>1 DEF NoRequest
  <2>3. \A i \in DOMAIN hist[s] : hist[s][i].at <= now
    BY DEF RecordInv, RowsInOrder
  <2> QED
    BY <1>1, <1>2, <2>2, <2>3, RecordRequest
<1>4. ASSUME ReadContext(s) \/ ReadGate(s)
      PROVE  /\ UNCHANGED <<req[s].at, req[s].from, req[s].prev>>
             /\ \A r \in Strategies \ {s} : req'[r] = req[r]
             /\ InFlight(s)
  BY <1>1, <1>4 DEF ReadContext, ReadGate, InFlight, Request
<1>5. ASSUME InFlight(s)
      PROVE  /\ req[s].at <= now
             /\ \/ /\ req[s].from = life[s]
                   /\ \A i \in DOMAIN hist[s] : hist[s][i].at <= req[s].at
                   /\ life[s] = "paused" => req[s].prev = PausedProvenance(s)
                \/ req[s].from \in LiveStates /\ life[s] = "killed"
  BY <1>5 DEF RecordInv, RequestsHold
<1>6. CASE ReadContext(s)
  <2>1. req'[s].gate = req[s].gate
    BY <1>1, <1>6 DEF ReadContext, Request
  <2>2. req'[s].gate => \E j \in DOMAIN hist[s] : Fresh(hist[s][j], kills, s, req[s].at)
    BY <1>4, <1>6, <2>1 DEF RecordInv, GateRead
  <2> QED
    BY <1>1, <1>4, <1>5, <1>6, <2>2, RecordRequest
<1>7. CASE ReadGate(s)
  <2>1. req'[s].gate => PaperWindowStart(s) # 0 /\ PaperWindowStart(s) + GateDays <= req[s].at
    BY <1>1, <1>7 DEF ReadGate, Request
  <2>2. req[s].at \in Nat
    BY <1>1, RequestType
  <2>3. req'[s].gate => \E j \in DOMAIN hist[s] : Fresh(hist[s][j], kills, s, req[s].at)
    BY <1>1, <2>1, <2>2, WindowFresh DEF RecordInv
  <2> QED
    BY <1>1, <1>4, <1>5, <1>7, <2>3, RecordRequest
<1> QED
  BY <1>3, <1>6, <1>7

LEMMA StepRecord == IInv /\ RecordInv /\ [Next]_vars => RecordInv'
<1> SUFFICES ASSUME IInv, RecordInv, [Next]_vars PROVE RecordInv'
  OBVIOUS
<1>0. TypeOK /\ req \in [Strategies -> Request]
  BY DEF IInv, TypeOK
<1>1. CASE (Tick \/ Operator) /\ UNCHANGED <<rows, book, req, drv, reconciledAt, entries, crashes>>
  <2>1. UNCHANGED <<life, hist, req>>
    BY <1>1 DEF rows
  <2>2. CASE Tick
    BY <1>0, <2>1, <2>2, RecordTick DEF Tick, ledger
  <2>3. ASSUME NEW c \in Scopes, AppendKill(c, FALSE) \/ Observe(c) \/ AppendKillClear(c)
        PROVE  RecordInv'
    <3>1. CASE AppendKill(c, FALSE)
      BY <1>0, <2>1, <3>1, RecordKill
    <3>2. CASE Observe(c) \/ AppendKillClear(c)
      BY <2>1, <3>2, RecordFrame DEF Observe, AppendKillClear
    <3> QED
      BY <2>3, <3>1, <3>2
  <2> QED
    BY <1>1, <2>2, <2>3 DEF Operator
<1>2. ASSUME NEW s \in Strategies, Handler(s) PROVE RecordInv'
  <2>1. CASE Refuse(s) \/ CancelEffect(s)
    <3>1. /\ UNCHANGED <<now, kills, life, hist>>
          /\ \A r \in Strategies : req'[r] = req[r] \/ req'[r].pc \notin {"read", "gate", "commit"}
      BY <1>0, <2>1 DEF Refuse, CancelEffect, NoRequest, rows, ledger
    <3> QED
      BY <3>1, RecordFrame
  <2> QED
    BY <1>2, <2>1, RecordReads, RecordCommit DEF Handler
<1>3. ASSUME NEW s \in Strategies, Market(s) PROVE RecordInv'
  <2>1. UNCHANGED <<now, kills, life, hist, req>>
    BY <1>3 DEF Market, SubmitVerdict, Preflight, SubmitApproved, FillEntry, ClosePosition, rows, ledger
  <2> QED
    BY <2>1, RecordFrame
<1>4. CASE Driver
  <2>1. ASSUME NEW s \in Strategies, DriverSweep(s) \/ DriverLock(s) \/ DriverFail(s)
        PROVE  RecordInv'
    <3>1. CASE DriverSweep(s) \/ DriverFail(s)
      BY <3>1, RecordFrame DEF DriverSweep, DriverFail, rows, ledger
    <3> QED
      BY <2>1, <3>1, RecordLock
  <2>2. CASE ReconcileDone \/ DriverList \/ DriverPick
    BY <2>2, RecordFrame DEF ReconcileDone, DriverList, DriverPick, rows, ledger
  <2>3. CASE DriverGlobalSweep \/ DriverEnd
    BY <2>3, RecordFrame DEF DriverGlobalSweep, DriverEnd, rows, ledger
  <2> QED
    BY <1>4, <2>1, <2>2, <2>3 DEF Driver
<1>5. CASE Crash
  BY <1>5, RecordFrame DEF Crash, NoRequest, rows, ledger
<1>6. CASE UNCHANGED vars
  BY <1>6, RecordFrame DEF vars, rows, ledger
<1> QED
  BY <1>1, <1>2, <1>3, <1>4, <1>5, <1>6 DEF Next

-----------------------------------------------------------------------------
(* Theorems.                                                               *)

\* The inductive invariant holds in every reachable state.
THEOREM Invariance == Spec => []IInv
BY InitIInv, StepIInv, PTL DEF Spec

\* Rows, handlers and passes keep their types (module Lifecycle, TypeOK).
THEOREM TypeCorrectness == Spec => []TypeOK
<1>1. IInv => TypeOK
  BY DEF IInv
<1> QED
  BY <1>1, Invariance, PTL

\* A kill that the driver marked served and nobody cleared keeps every strategy
\* that it binds out of the live tiers (AppendLifecycleTransitionCAS against
\* AppendKillLifecycleLock and AppendSafetyEffectDone).
THEOREM ServedKillsBind == Spec => []ServedKillIsLocked
<1>1. IInv => ServedKillIsLocked
  BY DEF IInv
<1> QED
  BY <1>1, Invariance, PTL

\* The lifecycle_transitions rows of a strategy form a chain that ends in its
\* current state: no transition overwrites one that its writer had not read.
THEOREM NoLostTransition == Spec => []AuditTrailIsChain
<1>1. IInv => AuditTrailIsChain
  BY DEF IInv
<1> QED
  BY <1>1, Invariance, PTL

\* The invariant of the record holds in every reachable state.
THEOREM RecordInvariance == Spec => []RecordInv
<1>1. IInv /\ IInv' /\ RecordInv /\ [Next]_vars => RecordInv'
  BY StepRecord
<1> QED
  BY <1>1, InitRecord, Invariance, PTL DEF Spec

\* No strategy that a kill has locked is live again without a paper life in between: a
\* handler that read the pause before the lock fails its compare-and-set, and a resume
\* returns only to where the trail says the pause came from (guardPaused,
\* PausedProvenance, AppendLifecycleTransitionCAS).
THEOREM LockLeadsThroughPaper == Spec => []LiveAfterLockPassesPaper
<1>1. RecordInv => LiveAfterLockPassesPaper
  BY DEF RecordInv
<1> QED
  BY <1>1, RecordInvariance, PTL

\* The one-pass scan of PaperWindowStart computes the window of LC-16, for audit trails
\* of every length.
THEOREM WindowOfLC16 == Spec => []WindowIsLC16
<1>1. TypeOK => WindowIsLC16
  BY WindowLC16
<1> QED
  BY <1>1, TypeCorrectness, PTL

\* A promotion from paper rests on a paper row that is GateDays old and not older than any
\* binding kill from before the request, although the gate is read outside the
\* transaction that commits (paperGateReport, runLifecycleTransition).
THEOREM PromotionOnFreshRecord == Spec => []PromotedOnFreshRecord
<1>1. RecordInv => PromotedOnFreshRecord
  BY DEF RecordInv
<1> QED
  BY <1>1, RecordInvariance, PTL

=============================================================================
