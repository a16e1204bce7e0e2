---------------------------- MODULE Books_proofs ----------------------------
(***************************************************************************)
(* Proofs about the two books, of the live fills (FillBooking) and of the  *)
(* paper account (PaperOMS), for any orders, prices, runs, crashes and     *)
(* restarts.                                                               *)
(*                                                                         *)
(* Live: every fill row counts once, and what the watermark hides was      *)
(* late.  The second rests on where an execution can be that is not in     *)
(* the books: on the page of a run, in the session, in the stream's hand,  *)
(* or adrift, and then a page comes before the next session (Placed).      *)
(* Whatever is on no page has a higher id than all that may be booked      *)
(* before it (Ahead).  What the stream delivers of an earlier epoch was    *)
(* given up with it (FormerEpochs), so only the late raises the alarm.     *)
(*                                                                         *)
(* Paper: memory, rows and cash agree and no position is without stops.    *)
(* That rests on a memory that is sound by itself (Sound: typed, true to   *)
(* its cash, covered, mirrored, with room for the stops of what rests)     *)
(* and on rows from which a restart would get such a memory (RowsSound):   *)
(* a transaction may fail at any time and the memory stays ahead.          *)
(*                                                                         *)
(* The gate: its walk over the rows ends in the books of the rows.  One    *)
(* fill takes the walk and a book alike (StepIsBooked); what one           *)
(* transaction adds is what the memory has filled beyond its mirrors       *)
(* (Pending); and while none is overtaken the rows lie in the order of     *)
(* their dates (DatesAscend), which is the order they are read in.         *)
(***************************************************************************)
EXTENDS FillBooking, PaperOMS, Sums, FiniteSetTheorems, SequenceTheorems, TLAPS

-----------------------------------------------------------------------------
(* Live fills: the invariant.                                              *)

\* Executed, not booked, and not given up for lost.
Awaited == {id \in Executed : ~InBooks(id)} \ (tooLate \cup skipped)

Page    == ToSet(run.page)
Session == ToSet(feed)
Hand    == {hand.id} \ {0}
Adrift  == Awaited \ (Page \cup Session \cup Hand)

Ascending(s) == \A i, j \in DOMAIN s : i < j => s[i] < s[j]

IsWatermark(e, w) ==
    /\ w = 0 \/ <<e, w>> \in fills
    /\ \A f \in fills : f[1] = e => f[2] <= w

\* FromId does not exceed it.
Beyond(id) ==
    /\ \A f \in fills : f[1] = epoch => f[2] < id
    /\ (\E f \in fills : f[1] = epoch) \/ epochStart < id

FillsTyped ==
    /\ trades \in Seq(VenueOrders) /\ Len(trades) <= MaxTrade
    /\ acked \subseteq VenueOrders \ Strays
    /\ outages \in 0..MaxOutage /\ epoch \in 0..MaxEpoch /\ epochStart \in 0..Len(trades)
    /\ opened \in [reconciled : BOOLEAN, reset : BOOLEAN]
    /\ loop \in {"starting", "connecting", "streaming", "reconnecting"}
    /\ feed \in Seq(Executed)
    /\ hand = NoHand \/ hand \in [id : Executed, mark : 0..MaxTrade]
    /\ run \in [pc : {"idle", "adopt", "page", "book", "fees", "finish"}, own : BOOLEAN,
                page : Seq(Executed)]
    /\ unseen \cup tooLate \cup skipped \subseteq Executed

BooksTyped ==
    /\ IsFiniteSet(fills) /\ fills \subseteq (0..epoch) \X Executed
    /\ \E w \in 0..MaxTrade : IsWatermark(epoch, w)

\* Pages and sessions deliver in the order of execution.
Ordered ==
    /\ Ascending(run.page) /\ Ascending(feed)
    /\ \A h \in Hand : \A x \in Session : h < x

\* Session and hand are the stream's, a page that of the run which books it.
Placed ==
    /\ loop # "streaming" => feed = <<>> /\ hand = NoHand
    /\ run.pc # "book" => run.page = <<>>
    /\ Adrift \subseteq unseen
    /\ Adrift # {} => loop # "streaming" /\ PageBeforeSession

\* Nothing that is still to come is behind the watermark, or behind what may be
\* booked next.
Ahead ==
    /\ \A id \in Awaited : id \notin Page \/ id \in Session \cup Hand => Beyond(id)
    /\ \A id \in Awaited \ Page : \A x \in Page \cup Hand : x <= id
    /\ hand.id \in Awaited => hand.mark < hand.id

\* What the stream still has to deliver and an earlier epoch has booked was given up
\* when the reset was accepted.
FormerEpochs ==
    \A f \in fills : f[1] # epoch /\ f[2] \in Session \cup Hand => f[2] \in tooLate

FillsInv ==
    /\ FillsTyped /\ BooksTyped /\ EachFillCountsOnce
    /\ Ordered /\ Placed /\ Ahead /\ FormerEpochs

-----------------------------------------------------------------------------
(* Sequences of ids.                                                       *)

LEMMA AscendingTail ==
    ASSUME NEW S \in SUBSET Nat, NEW s \in Seq(S), Ascending(s), s # <<>>
    PROVE  /\ Head(s) \in S /\ Head(s) \in ToSet(s) /\ Tail(s) \in Seq(S) /\ Ascending(Tail(s))
           /\ ToSet(Tail(s)) = ToSet(s) \ {Head(s)}
           /\ \A x \in ToSet(Tail(s)) : Head(s) < x
<1>1. /\ Len(s) \in Nat \ {0} /\ DOMAIN s = 1..Len(s) /\ \A i \in 1..Len(s) : s[i] \in S
      /\ Head(s) = s[1] /\ Tail(s) \in Seq(S) /\ Len(Tail(s)) = Len(s) - 1
      /\ \A i \in 1..Len(Tail(s)) : Tail(s)[i] = s[i + 1]
  BY HeadTailProperties, LenProperties, EmptySeq, ElementOfSeq
<1>2. DOMAIN Tail(s) = 1..(Len(s) - 1)
  BY <1>1, LenProperties
<1>3. \A i \in 1..Len(s) : i = 1 \/ (i - 1 \in DOMAIN Tail(s) /\ Tail(s)[i - 1] = s[i])
  BY <1>1, <1>2
<1>4. \A i \in DOMAIN Tail(s) : i + 1 \in 2..Len(s) /\ Tail(s)[i] = s[i + 1]
  BY <1>1, <1>2
<1>5. \A i \in 2..Len(s) : s[1] < s[i]
  BY <1>1 DEF Ascending
<1>6. ToSet(Tail(s)) = ToSet(s) \ {Head(s)}
  <2>1. ASSUME NEW x \in ToSet(Tail(s)) PROVE x \in ToSet(s) \ {Head(s)}
    <3>1. PICK i \in DOMAIN Tail(s) : x = Tail(s)[i]
      BY <2>1 DEF ToSet
    <3>2. i + 1 \in 2..Len(s) /\ x = s[i + 1] /\ i + 1 \in DOMAIN s /\ 1 \in DOMAIN s
      BY <1>1, <1>4, <3>1
    <3>3. s[1] < x /\ s[1] \in Nat /\ x \in Nat
      BY <1>1, <1>5, <3>2
    <3>4. s[1] # x
      BY <3>3
    <3>5. QED
      BY <1>1, <3>2, <3>4 DEF ToSet
  <2>2. ASSUME NEW x \in ToSet(s), x # Head(s) PROVE x \in ToSet(Tail(s))
    <3>1. PICK i \in 1..Len(s) : x = s[i]
      BY <1>1, <2>2 DEF ToSet
    <3>2. QED
      BY <1>1, <1>3, <2>2, <3>1 DEF ToSet
  <2>3. QED
    BY <2>1, <2>2
<1>7. \A x \in ToSet(Tail(s)) : Head(s) < x
  BY <1>1, <1>4, <1>5 DEF ToSet
<1>8. Ascending(Tail(s))
  BY <1>1, <1>2 DEF Ascending
<1>9. QED
  BY <1>1, <1>6, <1>7, <1>8 DEF ToSet

LEMMA AscendingAppend ==
    ASSUME NEW S \in SUBSET Nat, NEW s \in Seq(S), Ascending(s), NEW x \in S,
           \A y \in ToSet(s) : y < x
    PROVE  /\ Append(s, x) \in Seq(S) /\ Ascending(Append(s, x))
           /\ ToSet(Append(s, x)) = ToSet(s) \cup {x}
<1> DEFINE a == Append(s, x)
<1>1. /\ Len(s) \in Nat /\ DOMAIN s = 1..Len(s) /\ \A i \in 1..Len(s) : s[i] \in S
      /\ a \in Seq(S) /\ Len(a) = Len(s) + 1
      /\ \A i \in 1..Len(s) : a[i] = s[i]
      /\ a[Len(s) + 1] = x
  BY AppendProperties, LenProperties, ElementOfSeq
<1>2. DOMAIN a = 1..(Len(s) + 1)
  BY <1>1, LenProperties
<1> HIDE DEF a
<1>3. \A i \in 1..(Len(s) + 1) : i \in 1..Len(s) \/ i = Len(s) + 1
  BY <1>1
<1>4. ToSet(a) = ToSet(s) \cup {x}
  BY <1>1, <1>2, <1>3 DEF ToSet
<1>5. Ascending(a)
  BY <1>1, <1>2, <1>3 DEF Ascending, ToSet
<1>6. QED
  BY <1>1, <1>4, <1>5 DEF a

LEMMA NothingIn == ToSet(<<>>) = {} /\ Ascending(<<>>) /\ \A S : <<>> \in Seq(S)
BY EmptySeq DEF ToSet, Ascending

LEMMA ElementsOf == \A S : \A s \in Seq(S) : ToSet(s) \subseteq S
BY LenProperties, ElementOfSeq DEF ToSet

LEMMA MyTradesPage ==
    ASSUME FillsTyped, NEW from \in 1..(Len(trades) + 1)
    PROVE  /\ MyTrades(from) \in Seq(Executed) /\ Ascending(MyTrades(from))
           /\ ToSet(MyTrades(from)) = from..Len(trades)
<1> DEFINE n == Len(trades) - from + 1
<1>1. Len(trades) \in Nat /\ n \in Nat
  BY LenProperties DEF FillsTyped
<1>2. MyTrades(from) \in [1..n -> Executed] /\ \A i \in 1..n : MyTrades(from)[i] = from + i - 1
  BY <1>1 DEF MyTrades, Executed
<1>3. MyTrades(from) \in Seq(Executed) /\ DOMAIN MyTrades(from) = 1..n
  BY <1>1, <1>2, SeqDef
<1>4. Ascending(MyTrades(from))
  BY <1>1, <1>2, <1>3 DEF Ascending
<1>5. \A x \in from..Len(trades) : x - from + 1 \in 1..n /\ MyTrades(from)[x - from + 1] = x
  BY <1>1, <1>2
<1> HIDE DEF n
<1>6. ToSet(MyTrades(from)) = from..Len(trades)
  <2>1. \A x \in ToSet(MyTrades(from)) : \E i \in 1..n : x = from + i - 1
    BY <1>2, <1>3 DEF ToSet
  <2>2. \A x \in ToSet(MyTrades(from)) : x \in from..Len(trades)
    BY <1>1, <2>1 DEF n
  <2>3. \A x \in from..Len(trades) : x \in ToSet(MyTrades(from))
    BY <1>3, <1>5 DEF ToSet
  <2>4. QED
    BY <2>2, <2>3
<1>7. QED
  BY <1>3, <1>4, <1>6
-----------------------------------------------------------------------------
(* Watermarks and pages.                                                   *)

LEMMA Numbers ==
    ASSUME FillsTyped
    PROVE  /\ Len(trades) \in Nat /\ Len(trades) <= MaxTrade /\ Executed = 1..Len(trades)
           /\ Page \subseteq Executed /\ Session \subseteq Executed /\ Hand \subseteq Executed
           /\ Hand = IF hand = NoHand THEN {} ELSE {hand.id}
           /\ epoch \in Nat /\ epochStart \in Nat /\ Awaited \subseteq Executed
<1>1. Len(trades) \in Nat /\ Len(trades) <= MaxTrade /\ Executed = 1..Len(trades)
  BY LenProperties DEF FillsTyped, Executed
<1>2. Page \subseteq Executed /\ Session \subseteq Executed
  BY ElementsOf DEF FillsTyped, Page, Session
<1>3. Hand \subseteq Executed /\ Hand = IF hand = NoHand THEN {} ELSE {hand.id}
  BY <1>1 DEF FillsTyped, Hand, NoHand
<1>4. QED
  BY <1>1, <1>2, <1>3, FillsBoundsAssumption DEF FillsTyped, Awaited

LEMMA WatermarkIs ==
    ASSUME BooksTyped
    PROVE  Watermark(epoch) \in 0..MaxTrade /\ IsWatermark(epoch, Watermark(epoch))
BY DEF BooksTyped, Watermark, IsWatermark

LEMMA FromIdIsBeyond ==
    ASSUME FillsTyped, BooksTyped
    PROVE  /\ FromId \in 1..(Len(trades) + 1)
           /\ \A id \in Executed : Beyond(id) <=> FromId <= id
           /\ \A id \in Executed : Beyond(id) => Watermark(epoch) < id
<1> DEFINE w == Watermark(epoch)
<1>1. w \in 0..MaxTrade /\ IsWatermark(epoch, w) /\ MaxTrade \in Nat
  BY WatermarkIs, FillsBoundsAssumption
<1>2. /\ Len(trades) \in Nat /\ Executed = 1..Len(trades) /\ epochStart \in 0..Len(trades)
      /\ \A f \in fills : f[2] \in Executed /\ f = <<f[1], f[2]>>
  BY Numbers DEF FillsTyped, BooksTyped
<1>3. CASE w = 0
  <2>1. \A f \in fills : f[1] # epoch
    BY <1>1, <1>2, <1>3 DEF IsWatermark
  <2>2. FromId = epochStart + 1
    BY <1>3 DEF FromId
  <2>3. QED
    BY <1>2, <1>3, <2>1, <2>2 DEF Beyond
<1>4. CASE w > 0
  <2>1. <<epoch, w>> \in fills /\ FromId = w + 1
    BY <1>1, <1>4 DEF IsWatermark, FromId
  <2>2. <<epoch, w>>[1] = epoch /\ <<epoch, w>>[2] = w
    OBVIOUS
  <2>3. w \in Executed
    BY <1>2, <2>1, <2>2
  <2>4. \A id \in Executed : Beyond(id) <=> w < id
    BY <1>1, <1>2, <2>1, <2>2 DEF Beyond, IsWatermark
  <2>5. QED
    BY <1>1, <1>2, <2>1, <2>3, <2>4
<1>5. QED
  BY <1>1, <1>3, <1>4

\* What a lost execution is taken for: later pages show it, or it is too late.
LEMMA LostIsLate ==
    ASSUME FillsTyped, BooksTyped, NEW ids \in SUBSET Executed, Unreported(ids, FALSE)
    PROVE  \A id \in ids : id \in unseen' /\ (Beyond(id) \/ id \in tooLate')
BY FromIdIsBeyond, Numbers DEF Unreported

-----------------------------------------------------------------------------
(* Booking.                                                                *)

LEMMA CountOfBook ==
    ASSUME FillsTyped, BooksTyped, EachFillCountsOnce, NEW id \in Executed, Book(id)
    PROVE  /\ fills' = fills \cup {<<epoch, id>>} /\ IsFiniteSet(fills')
           /\ EachFillCountsOnce'
<1> DEFINE f == <<epoch, id>>
<1>1. CASE f \in fills /\ UNCHANGED books
  BY <1>1 DEF books, BooksTyped, EachFillCountsOnce
<1>2. CASE f \notin fills /\ fills' = fills \cup {f} /\ ApplyFill(f)
  <2>1. IsFiniteSet(fills') /\ Cardinality(fills') = Cardinality(fills) + 1
    BY <1>2, FS_AddElement DEF BooksTyped
  <2>2. held' = Cardinality(fills')
    BY <1>2, <2>1 DEF ApplyFill, EachFillCountsOnce
  <2>3. CASE owed' = owed \cup {f} /\ charged' = charged
    <3>1. fills' \ owed' = fills \ owed /\ owed' \subseteq fills'
      BY <1>2, <2>3 DEF EachFillCountsOnce
    <3>2. QED
      BY <1>2, <2>1, <2>2, <2>3, <3>1 DEF EachFillCountsOnce
  <2>4. CASE owed' = owed /\ charged' = charged + 1
    <3>1. fills' \ owed' = (fills \ owed) \cup {f} /\ f \notin fills \ owed /\ owed' \subseteq fills'
      BY <1>2, <2>4 DEF EachFillCountsOnce
    <3>2. IsFiniteSet(fills \ owed)
      BY FS_Subset DEF BooksTyped
    <3>3. Cardinality(fills' \ owed') = Cardinality(fills \ owed) + 1
      BY <3>1, <3>2, FS_AddElement
    <3>4. QED
      BY <1>2, <2>1, <2>2, <2>4, <3>1, <3>3 DEF EachFillCountsOnce
  <2>5. QED
    BY <1>2, <2>3, <2>4 DEF ApplyFill, ChargeFee
<1>3. QED
  BY <1>1, <1>2 DEF Book, RecordVenueFill

\* A booking keeps the books in order, and takes what it books off the list.
LEMMA BookedIs ==
    ASSUME FillsTyped, BooksTyped, EachFillCountsOnce, NEW id \in Executed, Book(id),
           UNCHANGED <<trades, epoch, epochStart>>
    PROVE  /\ BooksTyped'
           /\ \A x \in Executed : InBooks(x)' <=> InBooks(x) \/ x = id
           /\ \A x \in Executed : Beyond(x) /\ id < x => Beyond(x)'
<1>1. /\ fills' = fills \cup {<<epoch, id>>} /\ IsFiniteSet(fills')
      /\ epoch \in Nat /\ Executed' = Executed /\ Executed \subseteq 1..MaxTrade /\ MaxTrade \in Nat
  BY CountOfBook, Numbers, FillsBoundsAssumption DEF Executed
<1>2. <<epoch, id>>[1] = epoch /\ <<epoch, id>>[2] = id
  OBVIOUS
<1>3. fills' \subseteq (0..epoch) \X Executed
  BY <1>1 DEF BooksTyped
<1>4. \E w \in 0..MaxTrade : IsWatermark(epoch, w)'
  <2>1. PICK w \in 0..MaxTrade : IsWatermark(epoch, w)
    BY DEF BooksTyped
  <2>2. CASE w <= id
    <3>1. /\ \A f \in fills : f[2] \in Executed
          /\ \A f \in fills : f[1] = epoch => f[2] <= w
      BY <2>1 DEF BooksTyped, IsWatermark
    <3>2. ASSUME NEW f \in fills', f[1] = epoch PROVE f[2] <= id
      <4>1. CASE f = <<epoch, id>>
        BY <1>1, <1>2, <4>1
      <4>2. CASE f \in fills
        <5>1. f[2] \in Executed /\ f[2] <= w
          BY <3>1, <3>2, <4>2
        <5>2. f[2] \in Nat /\ id \in Nat /\ w \in Nat
          <6>1. \A i \in Executed : i \in Nat
            BY <1>1
          <6>2. QED
            BY <5>1, <6>1
        <5>3. QED
          BY <2>2, <5>1, <5>2
      <4>3. QED
        BY <1>1, <3>2, <4>1, <4>2
    <3>3. IsWatermark(epoch, id)'
      BY <1>1, <3>2 DEF IsWatermark
    <3>4. QED
      BY <1>1, <3>3
  <2>3. CASE id < w
    <3>1. IsWatermark(epoch, w)'
      BY <1>1, <1>2, <2>1, <2>3, <1>3 DEF IsWatermark
    <3>2. QED
      BY <1>1, <3>1
  <2>4. QED
    BY <1>1, <2>1, <2>2, <2>3
<1>5. \A x \in Executed : InBooks(x)' <=> InBooks(x) \/ x = id
  BY <1>1 DEF InBooks
<1>6. \A x \in Executed : Beyond(x) /\ id < x => Beyond(x)'
  BY <1>1, <1>2 DEF Beyond
<1>7. QED
  BY <1>1, <1>3, <1>4, <1>5, <1>6 DEF BooksTyped

-----------------------------------------------------------------------------
(* Steps that move no execution.                                           *)

LEMMA SameBooks ==
    ASSUME FillsInv, UNCHANGED <<trades, fills, epoch, epochStart>>
    PROVE  /\ Executed' = Executed /\ BooksTyped'
           /\ \A x : InBooks(x)' <=> InBooks(x)
           /\ \A x : Beyond(x)' <=> Beyond(x)
BY DEF FillsInv, Executed, BooksTyped, IsWatermark, InBooks, Beyond

\* A run that starts, ends or fails, an ack, a fee, a session that opens: what is
\* adrift either waits for the page it waited for or is given up.
LEMMA QuietStep ==
    ASSUME FillsInv, FillsTyped', EachFillCountsOnce',
           UNCHANGED <<trades, fills, epoch, epochStart, feed, hand, unseen>>,
           run'.page = run.page, run'.pc # "book" => run.page = <<>>,
           tooLate \subseteq tooLate', skipped \subseteq skipped',
           loop' # "streaming" => feed = <<>> /\ hand = NoHand,
           Adrift \ tooLate' # {} => loop' # "streaming" /\ PageBeforeSession'
    PROVE  FillsInv'
<1>1. /\ Executed' = Executed /\ BooksTyped'
      /\ \A x : InBooks(x)' <=> InBooks(x)
      /\ \A x : Beyond(x)' <=> Beyond(x)
  BY SameBooks
<1>2. Page' = Page /\ Session' = Session /\ Hand' = Hand
  BY DEF Page, Session, Hand
<1>3. Awaited' \subseteq Awaited
  BY <1>1 DEF Awaited
<1>4. Adrift' \subseteq Adrift \ tooLate'
  BY <1>1, <1>2, <1>3 DEF Adrift, Awaited
<1>5. Ordered'
  BY <1>2 DEF FillsInv, Ordered, Ascending
<1>6. Placed'
  BY <1>4 DEF FillsInv, Placed
<1>7. Ahead'
  BY <1>1, <1>2, <1>3 DEF FillsInv, Ahead
<1>8. FormerEpochs'
  BY <1>2 DEF FillsInv, FormerEpochs
<1>9. QED
  BY <1>1, <1>5, <1>6, <1>7, <1>8 DEF FillsInv

\* Types and counts, action by action.
LEMMA TypedStep ==
    ASSUME FillsInv, FillsNext
    PROVE  FillsTyped'
<1> DEFINE Runs == [pc : {"idle", "adopt", "page", "book", "fees", "finish"}, own : BOOLEAN,
                    page : Seq(Executed)]
<1> USE FillsBoundsAssumption DEF IdleRun, NoHand, Closed, ghosts, books, epochs, loops
<1>1. /\ FillsTyped /\ Len(trades) \in Nat /\ Executed = 1..Len(trades)
      /\ Page \subseteq Executed /\ Session \subseteq Executed /\ Hand \subseteq Executed
      /\ epoch \in Nat
  BY Numbers DEF FillsInv
<1>2. /\ \A S : <<>> \in Seq(S)
      /\ IdleRun \in Runs /\ \A own \in BOOLEAN : [IdleRun EXCEPT !.pc = "adopt", !.own = own] \in Runs
      /\ \A pc \in {"idle", "adopt", "page", "book", "fees", "finish"} :
            [run EXCEPT !.pc = pc] \in Runs
  <2>1. <<>> \in Seq(Executed)
    BY NothingIn
  <2>2. run \in Runs
    BY <1>1 DEF FillsTyped
  <2>3. QED
    BY <2>1, <2>2, NothingIn
<1>3. ASSUME NEW o \in VenueOrders, Execute(o) PROVE FillsTyped'
  <2> DEFINE n == Len(trades) + 1
  <2>1. /\ trades' \in Seq(VenueOrders) /\ Len(trades') = n /\ n <= MaxTrade
        /\ DOMAIN trades' = 1..n
    BY <1>1, <1>3, AppendProperties, LenProperties DEF Execute, FillsTyped
  <2>2. Executed' = Executed \cup {n} /\ n \in Executed'
    BY <1>1, <2>1 DEF Executed
  <2>3. feed \in Seq(Executed') /\ run.page \in Seq(Executed')
    <3>1. \A s \in Seq(Executed) : s \in Seq(Executed')
      BY <2>2, SeqDef
    <3>2. QED
      BY <1>1, <3>1 DEF FillsTyped
  <2>4. feed' \in Seq(Executed')
    <3>1. feed' = Append(feed, n) \/ feed' = feed
      BY <1>3 DEF Execute
    <3>2. QED
      BY <2>2, <2>3, <3>1, AppendProperties
  <2>5. unseen' \cup tooLate' \cup skipped' \subseteq Executed'
    BY <1>1, <1>3, <2>2 DEF Execute, Unreported, FillsTyped
  <2>6. run' \in [pc : {"idle", "adopt", "page", "book", "fees", "finish"}, own : BOOLEAN,
                  page : Seq(Executed')]
    BY <1>1, <1>3, <2>3 DEF Execute, FillsTyped
  <2>7. hand' = NoHand \/ hand' \in [id : Executed', mark : 0..MaxTrade]
    BY <1>1, <1>3, <2>2 DEF Execute, FillsTyped
  <2>8. epochStart' \in 0..Len(trades')
    BY <1>1, <1>3, <2>1 DEF Execute, FillsTyped
  <2>9. QED
    BY <1>1, <1>3, <2>1, <2>4, <2>5, <2>6, <2>7, <2>8 DEF Execute, FillsTyped
<1>4. CASE ReceiveTrade
  <2>1. /\ Ascending(feed) /\ feed \in Seq(Executed) /\ feed # <<>> /\ Executed \in SUBSET Nat
    BY <1>1, <1>4 DEF FillsInv, Ordered, FillsTyped, ReceiveTrade
  <2>2. Head(feed) \in Executed /\ Tail(feed) \in Seq(Executed)
    BY <2>1, AscendingTail
  <2>3. Watermark(epoch) \in 0..MaxTrade
    BY WatermarkIs DEF FillsInv
  <2>4. trades[Head(feed)] \in VenueOrders
    BY <1>1, <2>2, ElementOfSeq DEF FillsTyped
  <2>5. QED
    BY <1>1, <1>4, <2>2, <2>3, <2>4 DEF ReceiveTrade, FillsTyped, Executed
<1>5. CASE RunAdopt
  <2>1. ToSet(trades) \subseteq VenueOrders
    BY <1>1, ElementsOf DEF FillsTyped
  <2>2. outages' \in 0..MaxOutage
    BY <1>1, <1>5 DEF RunAdopt, FillsTyped
  <2>3. tooLate' \subseteq Executed /\ UNCHANGED <<unseen, skipped>>
    BY <1>1, <1>5 DEF RunAdopt, GivenUp, FillsTyped
  <2>4. acked' \subseteq VenueOrders \ Strays
    BY <1>1, <1>5, <2>1 DEF RunAdopt, FillsTyped
  <2>5. run' \in Runs
    BY <1>1, <1>2, <1>5 DEF RunAdopt, FillsTyped
  <2>6. QED
    BY <1>1, <1>5, <2>2, <2>3, <2>4, <2>5 DEF RunAdopt, FillsTyped, Executed
<1>6. CASE RunPage
  <2>1. MyTrades(FromId) \in Seq(Executed)
    BY FromIdIsBeyond, MyTradesPage DEF FillsInv
  <2>2. run' \in Runs
    <3>1. [run EXCEPT !.pc = "book", !.page = MyTrades(FromId)] \in Runs
      BY <1>1, <2>1 DEF FillsTyped
    <3>2. QED
      BY <1>2, <1>6, <3>1 DEF RunPage
  <2>3. outages' \in 0..MaxOutage /\ unseen' \cup tooLate' \cup skipped' \subseteq Executed
    BY <1>1, <1>6 DEF RunPage, Outage, GivenUp, FillsTyped
  <2>4. QED
    BY <1>1, <1>6, <2>2, <2>3 DEF RunPage, FillsTyped, Executed
<1>7. CASE RunBook
  <2>1. /\ Ascending(run.page) /\ run.page \in Seq(Executed) /\ run.page # <<>>
        /\ Executed \in SUBSET Nat
    BY <1>1, <1>7 DEF FillsInv, Ordered, FillsTyped, RunBook
  <2>2. Head(run.page) \in Executed /\ Tail(run.page) \in Seq(Executed)
    BY <2>1, AscendingTail
  <2>3. QED
    BY <1>1, <1>7, <2>2 DEF RunBook, FillsTyped, Executed
<1>8. CASE CrashBooking
  <2>1. unseen' \cup tooLate' \cup skipped' \subseteq Executed
    BY <1>1, <1>8 DEF CrashBooking, Unreported, FillsTyped, Page, Session, Hand
  <2>2. outages' \in 0..MaxOutage
    BY <1>1, <1>8 DEF CrashBooking, Outage, FillsTyped
  <2>3. run' \in Runs /\ feed' \in Seq(Executed)
    BY <1>2, <1>8 DEF CrashBooking
  <2>4. QED
    BY <1>1, <1>8, <2>1, <2>2, <2>3 DEF CrashBooking, FillsTyped, Executed
<1>9. CASE LoseSession
  <2>1. unseen' \cup tooLate' \cup skipped' \subseteq Executed
    BY <1>1, <1>9 DEF LoseSession, Unreported, FillsTyped, Session
  <2>2. outages' \in 0..MaxOutage
    BY <1>1, <1>9 DEF LoseSession, Outage, FillsTyped
  <2>3. feed' \in Seq(Executed)
    BY <1>2, <1>9 DEF LoseSession
  <2>4. QED
    BY <1>1, <1>9, <2>1, <2>2, <2>3 DEF LoseSession, FillsTyped, Executed
<1>10. CASE AcceptReset
  <2>1. epoch' \in 0..MaxEpoch /\ epochStart' \in 0..Len(trades)
    BY <1>1, <1>10 DEF AcceptReset, FillsTyped
  <2>2. run' \in Runs
    BY <1>2, <1>10 DEF AcceptReset, StartRun
  <2>3. tooLate' \subseteq Executed /\ UNCHANGED <<unseen, skipped>>
    BY <1>1, <1>10 DEF AcceptReset, FillsTyped, Session, Hand
  <2>4. QED
    BY <1>1, <1>10, <2>1, <2>2, <2>3 DEF AcceptReset, FillsTyped, Executed
<1>11. ASSUME NEW o \in VenueOrders, Acknowledged(o) PROVE FillsTyped'
  BY <1>1, <1>11 DEF Acknowledged, FillsTyped, Executed
<1>12. CASE StartupRun \/ PeriodicRun \/ TriggerRun
  <2>1. run' \in Runs
    BY <1>2, <1>12 DEF StartupRun, PeriodicRun, TriggerRun, StartRun
  <2>2. QED
    BY <1>1, <1>12, <2>1 DEF StartupRun, PeriodicRun, TriggerRun, FillsTyped, Executed
<1>13. CASE StartupDone \/ Connect
  BY <1>1, <1>13 DEF StartupDone, Connect, Outage, FillsTyped, Executed
<1>14. CASE Reconnect
  <2>1. run' \in Runs
    <3>1. CASE Running
      <4>1. run' = run
        BY <1>14, <3>1 DEF Reconnect
      <4> QED
        BY <1>1, <4>1 DEF FillsTyped
    <3>2. CASE ~Running
      <4>1. StartRun(TRUE)
        BY <1>14, <3>2 DEF Reconnect
      <4> QED
        BY <1>2, <4>1 DEF StartRun
    <3> QED
      BY <3>1, <3>2
  <2>2. QED
    BY <1>1, <1>14, <2>1 DEF Reconnect, GivenUp, FillsTyped, Executed
<1>15. CASE BookStreamFill
  BY <1>1, <1>15 DEF BookStreamFill, FillsTyped, Executed
<1>16. CASE RunBooked
  BY <1>1, <1>16 DEF RunBooked, FillsTyped, Executed
<1>17. ASSUME NEW f \in owed, ConvertFee(f) PROVE FillsTyped'
  BY <1>1, <1>17 DEF ConvertFee, FillsTyped, Executed
<1>18. CASE FinishRun
  BY <1>1, <1>2, <1>18 DEF FinishRun, FillsTyped, Executed
<1>19. CASE DropEvent
  <2>1. hand' = NoHand \/ hand' = hand
    BY <1>19 DEF DropEvent
  <2>2. feed' \in Seq(Executed) /\ unseen' \cup tooLate' \cup skipped' \subseteq Executed
    <3>1. CASE feed # <<>> /\ feed' = Tail(feed) /\ Unreported({Head(feed)} \ ToSet(run.page), TRUE)
      <4>1. feed \in Seq(Executed) /\ Ascending(feed) /\ Executed \in SUBSET Nat
        BY <1>1 DEF FillsInv, Ordered, FillsTyped
      <4>2. Head(feed) \in Executed /\ Tail(feed) \in Seq(Executed)
        BY <3>1, <4>1, AscendingTail
      <4>3. QED
        BY <1>1, <3>1, <4>2 DEF Unreported, FillsTyped
    <3>2. CASE hand # NoHand /\ feed' = feed
               /\ (Unreported({hand.id} \ ToSet(run.page), TRUE) \/ UNCHANGED ghosts)
      BY <1>1, <3>2 DEF Unreported, FillsTyped
    <3>3. QED
      BY <1>19, <3>1, <3>2 DEF DropEvent
  <2>3. outages' \in 0..MaxOutage
    BY <1>1, <1>19 DEF DropEvent, Outage, FillsTyped
  <2>4. UNCHANGED <<trades, acked, epoch, epochStart, opened, loop, run>>
    BY <1>19 DEF DropEvent
  <2>5. QED
    BY <1>1, <2>1, <2>2, <2>3, <2>4 DEF FillsTyped, Executed
<1>20. CASE FailRun
  <2>1. unseen' \cup tooLate' \cup skipped' \subseteq Executed
    BY <1>1, <1>20 DEF FailRun, Unreported, FillsTyped, Page
  <2>2. outages' \in 0..MaxOutage
    BY <1>1, <1>20 DEF FailRun, Outage, FillsTyped
  <2>3. run' \in Runs
    BY <1>2, <1>20 DEF FailRun
  <2>4. QED
    BY <1>1, <1>20, <2>1, <2>2, <2>3 DEF FailRun, FillsTyped, Executed
<1>21. QED
  BY <1>3, <1>4, <1>5, <1>6, <1>7, <1>8, <1>9, <1>10, <1>11, <1>12, <1>13, <1>14, <1>15,
     <1>16, <1>17, <1>18, <1>19, <1>20 DEF FillsNext, LoopStep, RunStep

LEMMA QuietSteps ==
    ASSUME FillsInv, FillsTyped',
           \/ \E o \in VenueOrders : Acknowledged(o)
           \/ StartupRun \/ StartupDone \/ Connect \/ Reconnect \/ PeriodicRun \/ TriggerRun
           \/ RunAdopt \/ (RunPage /\ run'.pc = "fees") \/ RunBooked \/ FinishRun
           \/ \E f \in owed : ConvertFee(f)
    PROVE  FillsInv'
<1> USE DEF IdleRun, NoHand, ghosts, books, epochs, loops, StartRun, Running, OwnRun
<1>1. /\ FillsTyped /\ Placed /\ EachFillCountsOnce /\ BooksTyped
      /\ Adrift # {} => loop # "streaming" /\ PageBeforeSession
      /\ Adrift \subseteq unseen
  BY DEF FillsInv, Placed
<1>2. ASSUME NEW o \in VenueOrders, Acknowledged(o) PROVE FillsInv'
  BY <1>1, <1>2, QuietStep DEF Acknowledged, Placed, EachFillCountsOnce, PageBeforeSession
<1>3. CASE StartupRun
  <2>1. PageBeforeSession' /\ loop' # "streaming"
    BY <1>1, <1>3 DEF StartupRun, PageBeforeSession, FillsTyped
  <2>2. QED
    BY <1>1, <1>3, <2>1, QuietStep DEF StartupRun, Placed, EachFillCountsOnce, FillsTyped
<1>4. CASE StartupDone \/ Connect
  <2>1. Adrift = {}
    BY <1>1, <1>4 DEF StartupDone, Connect, PageBeforeSession
  <2>2. QED
    BY <1>1, <1>4, <2>1, QuietStep DEF StartupDone, Connect, Placed, EachFillCountsOnce
<1>5. CASE Reconnect
  <2>1. Adrift \ tooLate' # {} => PageBeforeSession'
    <3>1. CASE Running
      BY <1>1, <1>5, <3>1 DEF Reconnect, GivenUp
    <3>2. CASE ~Running
      <4>1. run' = [IdleRun EXCEPT !.pc = "adopt", !.own = TRUE]
        BY <1>5, <3>2 DEF Reconnect
      <4>2. run'.pc = "adopt" /\ run'.own
        BY <4>1
      <4>3. QED
        BY <4>2 DEF PageBeforeSession
    <3>3. QED
      BY <3>1, <3>2
  <2>2. run'.page = run.page /\ (run'.pc # "book" => run.page = <<>>)
    BY <1>1, <1>5 DEF Reconnect, Placed, FillsTyped
  <2>3. tooLate \subseteq tooLate' /\ UNCHANGED <<unseen, skipped>> /\ loop' # "streaming"
    BY <1>5 DEF Reconnect, GivenUp
  <2>4. loop # "streaming"
    BY <1>5 DEF Reconnect
  <2>5. QED
    BY <1>1, <1>5, <2>1, <2>2, <2>3, <2>4, QuietStep DEF Reconnect, Placed, EachFillCountsOnce
<1>6. CASE PeriodicRun
  <2>1. Adrift = {}
    BY <1>1, <1>6 DEF PeriodicRun
  <2>2. QED
    BY <1>1, <1>6, <2>1, QuietStep DEF PeriodicRun, Placed, EachFillCountsOnce, FillsTyped
<1>7. CASE TriggerRun
  <2>1. Adrift # {} => PageBeforeSession' /\ loop' # "streaming"
    BY <1>1, <1>7 DEF TriggerRun, PageBeforeSession, FillsTyped
  <2>2. QED
    BY <1>1, <1>7, <2>1, QuietStep DEF TriggerRun, Placed, EachFillCountsOnce, FillsTyped
<1>8. CASE RunAdopt
  <2>1. Adrift \ tooLate' # {} => PageBeforeSession' /\ loop' # "streaming"
    BY <1>1, <1>8 DEF RunAdopt, GivenUp, PageBeforeSession, FillsTyped
  <2>2. run'.page = run.page /\ run.page = <<>>
    BY <1>1, <1>8 DEF RunAdopt, Placed, FillsTyped
  <2>3. tooLate \subseteq tooLate' /\ UNCHANGED <<unseen, skipped>>
    BY <1>8 DEF RunAdopt, GivenUp
  <2>4. QED
    BY <1>1, <1>8, <2>1, <2>2, <2>3, QuietStep DEF RunAdopt, Placed, EachFillCountsOnce
<1>9. CASE RunPage /\ run'.pc = "fees"
  <2>1. GivenUp /\ run' = [run EXCEPT !.pc = "fees"]
    BY <1>1, <1>9 DEF RunPage, FillsTyped
  <2>2. Adrift \ tooLate' = {} /\ tooLate \subseteq tooLate' /\ UNCHANGED <<unseen, skipped>>
    BY <1>1, <2>1 DEF GivenUp
  <2>3. run'.page = run.page /\ run.page = <<>>
    BY <1>1, <1>9, <2>1 DEF RunPage, Placed, FillsTyped
  <2>4. QED
    BY <1>1, <1>9, <2>2, <2>3, QuietStep DEF RunPage, Placed, EachFillCountsOnce
<1>10. CASE RunBooked
  <2>1. Adrift # {} => PageBeforeSession' /\ loop' # "streaming"
    BY <1>1, <1>10 DEF RunBooked, PageBeforeSession, FillsTyped
  <2>2. QED
    BY <1>1, <1>10, <2>1, QuietStep DEF RunBooked, Placed, EachFillCountsOnce, FillsTyped
<1>11. CASE FinishRun
  <2>1. Adrift # {} => PageBeforeSession' /\ loop' # "streaming"
    BY <1>1, <1>11 DEF FinishRun, PageBeforeSession, FillsTyped
  <2>2. run'.page = run.page /\ run.page = <<>>
    BY <1>1, <1>11 DEF FinishRun, Placed, FillsTyped
  <2>3. QED
    BY <1>1, <1>11, <2>1, <2>2, QuietStep DEF FinishRun, Placed, EachFillCountsOnce
<1>12. ASSUME NEW f \in owed, ConvertFee(f) PROVE FillsInv'
  <2>1. owed' \subseteq fills /\ charged' = Cardinality(fills' \ owed') /\ UNCHANGED <<fills, held>>
    <3>1. fills \ owed' = (fills \ owed) \cup {f} /\ f \notin fills \ owed /\ owed' \subseteq fills
      BY <1>1, <1>12 DEF ConvertFee, EachFillCountsOnce
    <3>2. IsFiniteSet(fills \ owed)
      BY <1>1, FS_Subset DEF BooksTyped
    <3>3. Cardinality(fills \ owed') = Cardinality(fills \ owed) + 1
      BY <3>1, <3>2, FS_AddElement
    <3>4. QED
      BY <1>1, <1>12, <3>1, <3>3 DEF ConvertFee, EachFillCountsOnce
  <2>2. EachFillCountsOnce'
    BY <1>1, <2>1 DEF EachFillCountsOnce
  <2>3. QED
    BY <1>1, <1>12, <2>2, QuietStep DEF ConvertFee, Placed, PageBeforeSession
<1>13. QED
  BY <1>2, <1>3, <1>4, <1>5, <1>6, <1>7, <1>8, <1>9, <1>10, <1>11, <1>12

-----------------------------------------------------------------------------
(* Steps that move executions.                                             *)

LEMMA ExecuteStep ==
    ASSUME FillsInv, FillsTyped', NEW o \in VenueOrders, Execute(o)
    PROVE  FillsInv'
<1> DEFINE n == Len(trades) + 1
<1>1. /\ FillsTyped /\ BooksTyped /\ Len(trades) \in Nat /\ Executed = 1..Len(trades)
      /\ Page \subseteq Executed /\ Session \subseteq Executed /\ Hand \subseteq Executed
      /\ Awaited \subseteq Executed /\ n \notin Executed /\ \A x \in Executed : x < n
  BY Numbers DEF FillsInv
<1>2. /\ Len(trades') = n /\ Executed' = Executed \cup {n}
      /\ UNCHANGED <<fills, held, owed, charged, epoch, epochStart, opened, loop, hand, run>>
  BY <1>1, AppendProperties DEF Execute, FillsTyped, Executed, books, epochs
<1>3. /\ tooLate \subseteq tooLate' /\ skipped' = skipped /\ unseen \subseteq unseen'
      /\ tooLate' \cup skipped' \subseteq Executed'
  BY <1>2 DEF Execute, Unreported, ghosts, FillsTyped
<1>4. Page' = Page /\ Hand' = Hand
  BY <1>2 DEF Page, Hand
<1>5. /\ \A f \in fills : f[2] \in Executed
      /\ \A x : InBooks(x)' <=> InBooks(x)
      /\ \A x : Beyond(x)' <=> Beyond(x)
  BY <1>1, <1>2 DEF BooksTyped, InBooks, Beyond
<1>6. Beyond(n)
  <2>1. epochStart < n
    BY <1>1 DEF FillsTyped
  <2>2. QED
    BY <1>1, <1>5, <2>1 DEF Beyond
<1>7. Awaited' \subseteq Awaited \cup {n}
  BY <1>1, <1>2, <1>3, <1>5 DEF Awaited
<1>8. /\ Session' = (IF loop = "streaming" THEN Session \cup {n} ELSE Session)
      /\ Ascending(feed')
  <2>1. CASE loop = "streaming"
    <3>1. /\ Executed' \in SUBSET Nat /\ n \in Executed' /\ Ascending(feed)
          /\ feed \in Seq(Executed') /\ \A y \in ToSet(feed) : y < n
      <4>1. feed \in Seq(Executed')
        <5>1. feed' = Append(feed, n) /\ feed \in Seq(Executed)
          BY <1>1, <2>1 DEF Execute, FillsTyped
        <5>2. \A s \in Seq(Executed) : s \in Seq(Executed')
          BY <1>2, SeqDef
        <5>3. QED
          BY <5>1, <5>2
      <4>2. QED
        BY <1>1, <1>2, <4>1 DEF FillsInv, Ordered, Session
    <3>2. feed' = Append(feed, n)
      BY <2>1 DEF Execute
    <3>3. Ascending(feed') /\ ToSet(feed') = ToSet(feed) \cup {n}
      BY <3>1, <3>2, AscendingAppend
    <3>4. QED
      BY <2>1, <3>3 DEF Session
  <2>2. CASE loop # "streaming"
    BY <2>2 DEF Execute, FillsInv, Ordered, Session
  <2>3. QED
    BY <2>1, <2>2
<1>9. BooksTyped'
  BY <1>1, <1>2 DEF BooksTyped, IsWatermark
<1>10. EachFillCountsOnce'
  BY <1>2 DEF FillsInv, EachFillCountsOnce
<1>11. Ordered'
  BY <1>1, <1>2, <1>4, <1>8 DEF FillsInv, Ordered, Ascending
<1>12. Placed'
  <2>1. PageBeforeSession' <=> PageBeforeSession
    BY <1>2 DEF PageBeforeSession, OwnRun, Running
  <2>2. loop' # "streaming" => feed' = <<>> /\ hand' = NoHand
    BY <1>2 DEF Execute, FillsInv, Placed
  <2>3. CASE loop = "streaming"
    <3>1. Adrift' \subseteq Adrift
      BY <1>3, <1>4, <1>7, <1>8, <2>3 DEF Adrift, Awaited
    <3>2. QED
      BY <1>2, <1>3, <2>2, <2>3, <3>1 DEF FillsInv, Placed
  <2>4. CASE loop # "streaming"
    <3>1. Adrift' \subseteq Adrift \cup {n}
      BY <1>3, <1>4, <1>7, <1>8, <2>4 DEF Adrift, Awaited
    <3>2. n \in unseen' /\ (PageBeforeSession \/ n \in tooLate')
      BY <2>4 DEF Execute, Unreported
    <3>3. n \in Adrift' => PageBeforeSession
      BY <3>2 DEF Adrift, Awaited
    <3>4. QED
      BY <1>2, <1>3, <2>1, <2>2, <2>4, <3>1, <3>2, <3>3 DEF FillsInv, Placed
  <2>5. QED
    BY <2>3, <2>4
<1>13. Ahead'
  <2>1. ASSUME NEW id \in Awaited', id \notin Page' \/ id \in Session' \cup Hand'
        PROVE  Beyond(id)'
    <3>1. CASE id = n
      BY <1>5, <1>6, <3>1
    <3>2. CASE id # n
      <4>1. id \in Awaited /\ (id \notin Page \/ id \in Session \cup Hand)
        BY <1>4, <1>7, <1>8, <2>1, <3>2
      <4>2. QED
        BY <1>5, <4>1 DEF FillsInv, Ahead
    <3>3. QED
      BY <3>1, <3>2
  <2>2. ASSUME NEW id \in Awaited' \ Page', NEW x \in Page' \cup Hand'
        PROVE  x <= id
    <3>1. CASE id = n
      <4>1. x \in Executed /\ x < n
        BY <1>1, <1>4, <2>2
      <4>2. QED
        BY <1>1, <3>1, <4>1
    <3>2. CASE id # n
      BY <1>4, <1>7, <2>2, <3>2 DEF FillsInv, Ahead
    <3>3. QED
      BY <3>1, <3>2
  <2>3. hand'.id \in Awaited' => hand'.mark < hand'.id
    <3>1. hand.id # n
      BY <1>1 DEF FillsTyped, NoHand
    <3>2. QED
      BY <1>2, <1>7, <3>1 DEF FillsInv, Ahead
  <2>4. QED
    BY <2>1, <2>2, <2>3 DEF Ahead
<1>14. FormerEpochs'
  <2>1. \A f \in fills : f[2] # n
    BY <1>1, <1>5
  <2>2. Session' \cup Hand' \subseteq Session \cup Hand \cup {n}
    BY <1>4, <1>8
  <2>3. QED
    BY <1>2, <1>3, <2>1, <2>2 DEF FillsInv, FormerEpochs
<1>15. QED
  BY <1>9, <1>10, <1>11, <1>12, <1>13, <1>14 DEF FillsInv

LEMMA LoseSessionStep ==
    ASSUME FillsInv, FillsTyped', LoseSession
    PROVE  FillsInv'
<1>1. /\ UNCHANGED <<trades, fills, held, owed, charged, epoch, epochStart, opened, hand, run>>
      /\ loop = "streaming" /\ loop' = "reconnecting" /\ hand = NoHand /\ feed' = <<>>
      /\ unseen' = unseen \cup Session /\ tooLate \subseteq tooLate' /\ skipped' = skipped
  BY DEF LoseSession, Unreported, Session, books, epochs
<1>2. /\ Executed' = Executed /\ BooksTyped'
      /\ \A x : InBooks(x)' <=> InBooks(x)
      /\ \A x : Beyond(x)' <=> Beyond(x)
  BY <1>1, SameBooks
<1>3. Page' = Page /\ Session' = {} /\ Hand' = {} /\ Hand = {} /\ Ascending(feed')
  BY <1>1, NothingIn DEF Page, Session, Hand, NoHand
<1>4. Awaited' \subseteq Awaited
  BY <1>1, <1>2 DEF Awaited
<1>5. Adrift = {}
  BY <1>1 DEF FillsInv, Placed
<1>6. Adrift' \subseteq unseen' /\ PageBeforeSession'
  BY <1>1, <1>3, <1>4, <1>5 DEF Adrift, PageBeforeSession
<1>7. Placed'
  BY <1>1, <1>6 DEF FillsInv, Placed
<1>8. Ordered'
  BY <1>1, <1>3 DEF FillsInv, Ordered, Ascending
<1>9. Ahead'
  BY <1>1, <1>2, <1>3, <1>4 DEF FillsInv, Ahead
<1>10. EachFillCountsOnce' /\ FormerEpochs'
  BY <1>1, <1>3 DEF FillsInv, EachFillCountsOnce, FormerEpochs
<1>11. QED
  BY <1>2, <1>7, <1>8, <1>9, <1>10 DEF FillsInv

LEMMA ReceiveTradeStep ==
    ASSUME FillsInv, FillsTyped', ReceiveTrade
    PROVE  FillsInv'
<1> DEFINE h == Head(feed)
           w == Watermark(epoch)
<1>1. /\ UNCHANGED <<trades, fills, held, owed, charged, epoch, epochStart, opened, loop, run,
                     unseen, tooLate, skipped>>
      /\ loop = "streaming" /\ hand = NoHand /\ feed # <<>>
      /\ hand' = [id |-> h, mark |-> w] /\ feed' = Tail(feed)
  BY DEF ReceiveTrade, books, epochs, ghosts
<1>2. /\ Executed' = Executed /\ BooksTyped'
      /\ \A x : InBooks(x)' <=> InBooks(x)
      /\ \A x : Beyond(x)' <=> Beyond(x)
  BY <1>1, SameBooks
<1>3. /\ feed \in Seq(Executed) /\ Ascending(feed) /\ Executed = 1..Len(trades)
      /\ Len(trades) \in Nat /\ Executed \in SUBSET Nat
  BY Numbers DEF FillsInv, FillsTyped, Ordered
<1>4. /\ h \in Executed /\ h \in Session /\ Ascending(Tail(feed))
      /\ ToSet(Tail(feed)) = Session \ {h} /\ \A x \in ToSet(Tail(feed)) : h < x
  BY <1>1, <1>3, AscendingTail DEF Session
<1> HIDE DEF h, w
<1>5. h # 0 /\ h \in Nat
  BY <1>3, <1>4
<1>6. Page' = Page /\ Session' = Session \ {h} /\ Hand' = {h} /\ Hand = {}
  BY <1>1, <1>4, <1>5 DEF Page, Session, Hand, NoHand
<1>7. Awaited' = Awaited
  BY <1>1, <1>2 DEF Awaited
<1>8. Adrift' = Adrift /\ Adrift = {}
  <2>1. Adrift' = Adrift
    BY <1>4, <1>6, <1>7 DEF Adrift
  <2>2. Adrift = {}
    BY <1>1 DEF FillsInv, Placed
  <2>3. QED
    BY <2>1, <2>2
<1>9. Placed'
  BY <1>1, <1>8 DEF FillsInv, Placed
<1>10. Ordered'
  <2>1. Ascending(run'.page) /\ Ascending(feed')
    BY <1>1, <1>4 DEF FillsInv, Ordered
  <2>2. QED
    BY <1>1, <1>4, <1>6, <2>1 DEF Ordered, Session
<1>11. Ahead'
  <2>1. \A id \in Awaited' : id \notin Page' \/ id \in Session' \cup Hand' => Beyond(id)'
    BY <1>2, <1>4, <1>6, <1>7 DEF FillsInv, Ahead
  <2>2. ASSUME NEW id \in Awaited \ Page, NEW x \in Page \cup {h} PROVE x <= id
    <3>1. CASE x \in Page
      BY <2>2, <3>1 DEF FillsInv, Ahead
    <3>2. CASE x = h
      <4>1. id \in Session
        BY <1>6, <1>8, <2>2 DEF Adrift
      <4>2. id = h \/ h < id
        BY <1>4, <4>1
      <4>3. id \in Nat
        BY <1>3, <2>2 DEF Awaited
      <4>4. QED
        BY <1>5, <3>2, <4>2, <4>3
    <3>3. QED
      BY <2>2, <3>1, <3>2
  <2>3. h \in Awaited => w < h
    <3>1. h \in Awaited => Beyond(h)
      BY <1>4 DEF FillsInv, Ahead
    <3>2. QED
      BY <1>4, <3>1, FromIdIsBeyond DEF FillsInv, w
  <2>4. QED
    BY <1>1, <1>6, <1>7, <2>1, <2>2, <2>3 DEF Ahead
<1>12. EachFillCountsOnce' /\ FormerEpochs'
  <2>1. Session' \cup Hand' = Session \cup Hand
    BY <1>4, <1>6
  <2>2. QED
    BY <1>1, <2>1 DEF FillsInv, EachFillCountsOnce, FormerEpochs
<1>13. QED
  BY <1>2, <1>9, <1>10, <1>11, <1>12 DEF FillsInv

\* The event in hand is booked, whatever else comes of it.
LEMMA BookHandStep ==
    ASSUME FillsInv, FillsTyped', hand # NoHand, hand' = NoHand, Book(hand.id),
           UNCHANGED <<trades, epoch, epochStart, loop, feed, run, unseen, tooLate, skipped>>,
           opened'.reconciled = opened.reconciled
    PROVE  FillsInv'
<1> DEFINE h == hand.id
<1>1. /\ UNCHANGED <<trades, epoch, epochStart, loop, feed, run, unseen, tooLate, skipped>>
      /\ hand # NoHand /\ hand' = NoHand /\ Book(h)
      /\ opened'.reconciled = opened.reconciled
  OBVIOUS
<1>2. /\ h \in Executed /\ Hand = {h} /\ Executed = 1..Len(trades) /\ Len(trades) \in Nat
      /\ hand.mark \in Nat /\ epoch \in Nat
  BY <1>1, Numbers, FillsBoundsAssumption DEF FillsInv, FillsTyped
<1>3. /\ BooksTyped' /\ EachFillCountsOnce'
      /\ \A x \in Executed : InBooks(x)' <=> InBooks(x) \/ x = h
      /\ \A x \in Executed : Beyond(x) /\ h < x => Beyond(x)'
  BY <1>1, <1>2, BookedIs, CountOfBook DEF FillsInv
<1>4. Executed' = Executed /\ Page' = Page /\ Session' = Session /\ Hand' = {}
  BY <1>1 DEF Executed, Page, Session, Hand, NoHand
<1>5. Awaited' = Awaited \ {h}
  BY <1>1, <1>3, <1>4 DEF Awaited
<1>6. Adrift' \subseteq Adrift
  BY <1>2, <1>4, <1>5 DEF Adrift
<1>7. Placed'
  <2>1. PageBeforeSession' <=> PageBeforeSession
    BY <1>1 DEF PageBeforeSession, OwnRun, Running
  <2>2. QED
    BY <1>1, <1>6, <2>1 DEF FillsInv, Placed
<1>8. Ordered'
  BY <1>1, <1>4 DEF FillsInv, Ordered, Ascending
<1>9. Ahead'
  <2>1. ASSUME NEW id \in Awaited \ {h}, id \notin Page \/ id \in Session
        PROVE  Beyond(id)'
    <3>1. Beyond(id)
      BY <2>1 DEF FillsInv, Ahead
    <3>2. h < id
      <4>1. CASE id \in Session
        BY <1>2, <4>1 DEF FillsInv, Ordered
      <4>2. CASE id \notin Page
        <5>1. h <= id
          BY <1>2, <2>1, <4>2 DEF FillsInv, Ahead
        <5>2. h \in Nat /\ id \in Nat
          BY <1>2, <2>1 DEF Awaited
        <5>3. QED
          BY <2>1, <5>1, <5>2
      <4>3. QED
        BY <2>1, <4>1, <4>2
    <3>3. QED
      BY <1>3, <2>1, <3>1, <3>2 DEF Awaited
  <2>2. \A id \in Awaited' \ Page' : \A x \in Page' \cup Hand' : x <= id
    BY <1>4, <1>5 DEF FillsInv, Ahead
  <2>3. hand'.id \notin Awaited'
    BY <1>1, <1>2, <1>4 DEF Awaited, NoHand
  <2>4. QED
    BY <1>4, <1>5, <2>1, <2>2, <2>3 DEF Ahead
<1>10. FormerEpochs'
  <2>1. fills' = fills \cup {<<epoch, h>>} /\ <<epoch, h>>[1] = epoch
    BY <1>1, <1>2, CountOfBook DEF FillsInv
  <2>2. QED
    BY <1>1, <1>4, <2>1 DEF FillsInv, FormerEpochs
<1>11. QED
  BY <1>3, <1>7, <1>8, <1>9, <1>10 DEF FillsInv

LEMMA BookStreamFillStep ==
    ASSUME FillsInv, FillsTyped', BookStreamFill
    PROVE  FillsInv'
<1>1. /\ hand # NoHand /\ hand' = NoHand /\ Book(hand.id)
      /\ UNCHANGED <<trades, epoch, epochStart, loop, feed, run, unseen, tooLate, skipped>>
      /\ opened'.reconciled = opened.reconciled
  BY DEF BookStreamFill, epochs, ghosts, FillsInv, FillsTyped
<1>2. QED
  BY <1>1, BookHandStep

\* Events and pages that are gone: what is adrift thereafter has a page to come, and
\* what falls off a page is beyond the watermark.
LEMMA GoneStep ==
    ASSUME FillsInv, FillsTyped',
           UNCHANGED <<trades, fills, held, owed, charged, epoch, epochStart>>,
           Page' = Page \/ Page' = {}, Session' \subseteq Session,
           hand' = hand \/ hand' = NoHand,
           Ascending(run'.page), Ascending(feed'),
           tooLate \subseteq tooLate', skipped \subseteq skipped',
           loop' # "streaming" => feed' = <<>> /\ hand' = NoHand,
           run'.pc # "book" => run'.page = <<>>,
           Adrift' \subseteq unseen',
           Adrift' # {} => loop' # "streaming" /\ PageBeforeSession',
           \A id \in Awaited' \cap (Page \ (Session \cup Hand)) :
                id \in Page' \/ (Hand' = {} /\ Beyond(id))
    PROVE  FillsInv'
<1>1. /\ Executed' = Executed /\ BooksTyped'
      /\ \A x : InBooks(x)' <=> InBooks(x)
      /\ \A x : Beyond(x)' <=> Beyond(x)
  BY SameBooks
<1>2. Awaited' \subseteq Awaited /\ Awaited \subseteq Executed
  BY <1>1 DEF Awaited
<1>3. Hand' = Hand \/ Hand' = {}
  BY DEF Hand, NoHand
<1>4. Ordered'
  BY <1>3 DEF FillsInv, Ordered
<1>5. Placed'
  BY DEF Placed
<1>6. Ahead'
  <2>1. ASSUME NEW id \in Awaited', id \notin Page' \/ id \in Session' \cup Hand'
        PROVE  Beyond(id)
    <3>1. CASE id \notin Page \/ id \in Session \cup Hand
      BY <1>2, <2>1, <3>1 DEF FillsInv, Ahead
    <3>2. CASE id \in Page \ (Session \cup Hand)
      BY <1>3, <2>1, <3>2
    <3>3. QED
      BY <3>1, <3>2
  <2>2. ASSUME NEW id \in Awaited' \ Page', NEW x \in Page' \cup Hand'
        PROVE  x <= id
    <3>1. CASE id \notin Page
      BY <1>2, <1>3, <2>2, <3>1 DEF FillsInv, Ahead
    <3>2. CASE id \in Page
      <4>1. x \in Hand /\ Hand' # {}
        BY <1>3, <2>2, <3>2
      <4>2. id \in Session \cup Hand
        BY <2>2, <3>2, <4>1
      <4>3. x = hand.id /\ x \in Nat /\ id \in Nat
        BY <1>2, <2>2, <4>1, Numbers DEF FillsInv, Hand
      <4>4. CASE id \in Session
        BY <4>1, <4>3, <4>4 DEF FillsInv, Ordered
      <4>5. CASE id \in Hand
        BY <4>3, <4>5 DEF Hand
      <4>6. QED
        BY <4>2, <4>4, <4>5
    <3>3. QED
      BY <3>1, <3>2
  <2>3. hand'.id \in Awaited' => hand'.mark < hand'.id
    <3>1. 0 \notin Executed
      BY Numbers DEF FillsInv
    <3>2. QED
      BY <1>2, <3>1 DEF FillsInv, Ahead, NoHand
  <2>4. QED
    BY <1>1, <2>1, <2>2, <2>3 DEF Ahead
<1>7. EachFillCountsOnce' /\ FormerEpochs'
  BY <1>3 DEF FillsInv, EachFillCountsOnce, FormerEpochs
<1>8. QED
  BY <1>1, <1>4, <1>5, <1>6, <1>7 DEF FillsInv

LEMMA AcceptResetStep ==
    ASSUME FillsInv, FillsTyped', AcceptReset
    PROVE  FillsInv'
<1> USE DEF Closed, IdleRun
<1>1. /\ UNCHANGED <<trades, fills, held, owed, charged, loop, feed, hand, unseen, skipped>>
      /\ run.pc = "idle" /\ run' = [IdleRun EXCEPT !.pc = "adopt", !.own = FALSE]
      /\ epoch' = epoch + 1 /\ opened' = Closed
      /\ tooLate' = tooLate \cup unseen \cup Session \cup Hand
  BY DEF AcceptReset, books, loops, StartRun, Running, Session, Hand
<1>2. /\ run.page = <<>> /\ Page = {} /\ Adrift \subseteq unseen
      /\ run'.page = <<>> /\ run'.pc # "book"
  BY <1>1, NothingIn DEF FillsInv, Placed, Page
<1>3. /\ fills \subseteq (0..epoch) \X Executed /\ IsFiniteSet(fills) /\ epoch \in Nat
      /\ Executed' = Executed /\ MaxTrade \in Nat
  BY <1>1, Numbers, FillsBoundsAssumption DEF FillsInv, BooksTyped, Executed
<1>4. BooksTyped'
  <2>1. \A f \in fills : f[1] # epoch'
    BY <1>1, <1>3
  <2>2. IsWatermark(epoch, 0)'
    BY <1>1, <2>1 DEF IsWatermark
  <2>3. fills' \subseteq (0..epoch') \X Executed'
    BY <1>1, <1>3
  <2>4. QED
    BY <1>1, <1>3, <2>2, <2>3 DEF BooksTyped
<1>5. Awaited' = {}
  <2>1. ASSUME NEW id \in Awaited' PROVE FALSE
    <3>1. id \in Executed /\ id \notin tooLate' /\ id \notin skipped /\ ~InBooks(id)'
      BY <1>1, <1>3, <2>1 DEF Awaited
    <3>2. ~InBooks(id)
      BY <1>1, <1>3, <3>1 DEF InBooks
    <3>3. id \in Awaited
      BY <1>1, <3>1, <3>2 DEF Awaited
    <3>4. id \in Adrift \cup Session \cup Hand
      BY <1>2, <3>3 DEF Adrift
    <3>5. QED
      BY <1>1, <1>2, <3>1, <3>4
  <2>2. QED
    BY <2>1
<1>6. Placed' /\ Ahead'
  BY <1>1, <1>2, <1>5 DEF FillsInv, Placed, Ahead, Adrift
<1>7. Ordered'
  <2>1. Session' = Session /\ Hand' = Hand /\ Ascending(run'.page)
    BY <1>1, <1>2, NothingIn DEF Session, Hand
  <2>2. QED
    BY <1>1, <2>1 DEF FillsInv, Ordered, Ascending
<1>8. EachFillCountsOnce' /\ FormerEpochs'
  <2>1. Session' = Session /\ Hand' = Hand
    BY <1>1 DEF Session, Hand
  <2>2. QED
    BY <1>1, <2>1 DEF FillsInv, EachFillCountsOnce, FormerEpochs
<1>9. QED
  BY <1>4, <1>6, <1>7, <1>8 DEF FillsInv

LEMMA RunPageStep ==
    ASSUME FillsInv, FillsTyped', RunPage, run'.pc # "fees"
    PROVE  FillsInv'
<1>1. /\ UNCHANGED <<trades, fills, held, owed, charged, epoch, epochStart, opened, loop, feed,
                     hand, tooLate, skipped>>
      /\ run.pc = "page" /\ run'.pc = "book" /\ run'.page = MyTrades(FromId) /\ unseen' = {}
  BY DEF RunPage, books, epochs, loops, FillsInv, FillsTyped
<1>2. /\ Executed' = Executed /\ BooksTyped'
      /\ \A x : InBooks(x)' <=> InBooks(x)
      /\ \A x : Beyond(x)' <=> Beyond(x)
  BY <1>1, SameBooks
<1>3. /\ Ascending(MyTrades(FromId)) /\ ToSet(MyTrades(FromId)) = FromId..Len(trades)
      /\ FromId \in Nat /\ Executed = 1..Len(trades)
      /\ \A id \in Executed : Beyond(id) <=> FromId <= id
  BY FromIdIsBeyond, MyTradesPage, Numbers DEF FillsInv
<1>4. Page = {}
  BY <1>1, NothingIn DEF FillsInv, Placed, Page
<1>5. Page' = FromId..Len(trades) /\ Session' = Session /\ Hand' = Hand /\ Awaited' = Awaited
  BY <1>1, <1>2, <1>3 DEF Page, Session, Hand, Awaited
<1>6. \A id \in Awaited : Beyond(id) /\ id \in Page'
  <2>1. ASSUME NEW id \in Awaited PROVE Beyond(id) /\ id \in Page'
    <3>1. Beyond(id) /\ id \in Executed
      BY <1>4, <2>1 DEF FillsInv, Ahead, Awaited
    <3>2. QED
      BY <1>3, <1>5, <3>1
  <2>2. QED
    BY <2>1
<1>7. Adrift' = {}
  BY <1>5, <1>6 DEF Adrift
<1>8. Placed'
  BY <1>1, <1>7 DEF FillsInv, Placed
<1>9. Ordered'
  BY <1>1, <1>3, <1>5 DEF FillsInv, Ordered, Ascending
<1>10. Ahead'
  BY <1>1, <1>2, <1>5, <1>6 DEF FillsInv, Ahead
<1>11. EachFillCountsOnce' /\ FormerEpochs'
  BY <1>1, <1>5 DEF FillsInv, EachFillCountsOnce, FormerEpochs
<1>12. QED
  BY <1>2, <1>8, <1>9, <1>10, <1>11 DEF FillsInv

LEMMA RunBookStep ==
    ASSUME FillsInv, FillsTyped', RunBook
    PROVE  FillsInv'
<1> DEFINE p == Head(run.page)
<1>1. /\ UNCHANGED <<trades, epoch, epochStart, opened, loop, feed, hand, unseen, tooLate>>
      /\ run.pc = "book" /\ run.page # <<>>
      /\ run'.page = Tail(run.page) /\ run'.pc = "book" /\ run'.own = run.own
      /\ \/ Book(p) /\ skipped' = skipped
         \/ skipped' = skipped \cup {p} /\ UNCHANGED <<fills, held, owed, charged>>
  BY DEF RunBook, epochs, loops, books, FillsInv, FillsTyped
<1>2. /\ run.page \in Seq(Executed) /\ Ascending(run.page) /\ Executed = 1..Len(trades)
      /\ Len(trades) \in Nat /\ Executed \in SUBSET Nat
  BY Numbers DEF FillsInv, FillsTyped, Ordered
<1>3. /\ p \in Executed /\ p \in Page /\ Ascending(Tail(run.page))
      /\ ToSet(Tail(run.page)) = Page \ {p} /\ \A x \in ToSet(Tail(run.page)) : p < x
  BY <1>1, <1>2, AscendingTail DEF Page
<1> HIDE DEF p
<1>4. /\ Executed' = Executed /\ Page' = Page \ {p} /\ Session' = Session /\ Hand' = Hand
  BY <1>1, <1>3 DEF Executed, Page, Session, Hand
<1>5. /\ BooksTyped' /\ EachFillCountsOnce' /\ skipped \subseteq skipped'
      /\ Awaited' \subseteq Awaited \ {p}
      /\ \A x \in Executed : Beyond(x) /\ p < x => Beyond(x)'
  <2>1. CASE Book(p) /\ skipped' = skipped
    <3>1. /\ BooksTyped' /\ EachFillCountsOnce'
          /\ \A x \in Executed : InBooks(x)' <=> InBooks(x) \/ x = p
          /\ \A x \in Executed : Beyond(x) /\ p < x => Beyond(x)'
      BY <1>1, <1>3, <2>1, BookedIs, CountOfBook DEF FillsInv
    <3>2. Awaited' \subseteq Awaited \ {p}
      BY <1>1, <1>4, <2>1, <3>1 DEF Awaited
    <3>3. QED
      BY <2>1, <3>1, <3>2
  <2>2. CASE skipped' = skipped \cup {p} /\ UNCHANGED <<fills, held, owed, charged>>
    <3>1. /\ BooksTyped'
          /\ \A x : InBooks(x)' <=> InBooks(x)
          /\ \A x : Beyond(x)' <=> Beyond(x)
      BY <1>1, <2>2, SameBooks
    <3>2. Awaited' \subseteq Awaited \ {p}
      BY <1>1, <1>4, <2>2, <3>1 DEF Awaited
    <3>3. EachFillCountsOnce'
      BY <2>2 DEF FillsInv, EachFillCountsOnce
    <3>4. QED
      BY <2>2, <3>1, <3>2, <3>3
  <2>3. QED
    BY <1>1, <2>1, <2>2
<1>6. Adrift' \subseteq Adrift
  BY <1>4, <1>5 DEF Adrift
<1>7. Placed'
  <2>1. PageBeforeSession' <=> PageBeforeSession
    BY <1>1 DEF PageBeforeSession, OwnRun, Running
  <2>2. QED
    BY <1>1, <1>6, <2>1 DEF FillsInv, Placed
<1>8. Ordered'
  BY <1>1, <1>3, <1>4 DEF FillsInv, Ordered, Ascending
<1>9. Ahead'
  <2>1. ASSUME NEW id \in Awaited', id \notin Page' \/ id \in Session' \cup Hand'
        PROVE  Beyond(id)'
    <3>1. id \in Awaited /\ id # p /\ id \in Executed
      BY <1>5 DEF Awaited
    <3>2. Beyond(id)
      BY <1>4, <2>1, <3>1 DEF FillsInv, Ahead
    <3>3. p < id
      <4>1. CASE id \in Page
        BY <1>3, <3>1, <4>1
      <4>2. CASE id \notin Page
        <5>1. p <= id
          BY <1>3, <3>1, <4>2 DEF FillsInv, Ahead
        <5>2. p \in Nat /\ id \in Nat
          BY <1>2, <1>3, <3>1
        <5>3. QED
          BY <3>1, <5>1, <5>2
      <4>3. QED
        BY <4>1, <4>2
    <3>4. QED
      BY <1>5, <3>1, <3>2, <3>3
  <2>2. \A id \in Awaited' \ Page' : \A x \in Page' \cup Hand' : x <= id
    BY <1>4, <1>5 DEF FillsInv, Ahead
  <2>3. hand'.id \in Awaited' => hand'.mark < hand'.id
    BY <1>1, <1>5 DEF FillsInv, Ahead
  <2>4. QED
    BY <2>1, <2>2, <2>3 DEF Ahead
<1>10. FormerEpochs'
  <2>1. fills' \subseteq fills \cup {<<epoch, p>>} /\ <<epoch, p>>[1] = epoch
    BY <1>1, <1>3, CountOfBook DEF FillsInv
  <2>2. QED
    BY <1>1, <1>4, <2>1 DEF FillsInv, FormerEpochs
<1>11. QED
  BY <1>5, <1>7, <1>8, <1>9, <1>10 DEF FillsInv

LEMMA CrashStep ==
    ASSUME FillsInv, FillsTyped', CrashBooking
    PROVE  FillsInv'
<1> USE DEF Closed, IdleRun, NoHand
<1> DEFINE lost == Session \cup Page \cup Hand
<1>1. /\ UNCHANGED <<trades, fills, held, owed, charged, epoch, epochStart>>
      /\ loop' = "starting" /\ feed' = <<>> /\ hand' = NoHand /\ run' = IdleRun
      /\ opened' = Closed /\ Unreported(lost, FALSE)
  BY DEF CrashBooking, books, epochs, Session, Page, Hand
<1>2. lost \in SUBSET Executed
  BY Numbers DEF FillsInv
<1>3. /\ \A id \in lost : id \in unseen' /\ (Beyond(id) \/ id \in tooLate')
      /\ unseen \subseteq unseen' /\ tooLate \subseteq tooLate' /\ skipped' = skipped
  BY <1>1, <1>2, LostIsLate DEF FillsInv, Unreported
<1>4. /\ Executed' = Executed /\ BooksTyped'
      /\ \A x : InBooks(x)' <=> InBooks(x)
      /\ \A x : Beyond(x)' <=> Beyond(x)
  BY <1>1, SameBooks
<1>5. Page' = {} /\ Session' = {} /\ Hand' = {} /\ Ascending(run'.page) /\ Ascending(feed')
  BY <1>1, NothingIn DEF Page, Session, Hand
<1>6. Awaited' \subseteq Awaited \ tooLate'
  BY <1>3, <1>4 DEF Awaited
<1>7. Awaited \subseteq unseen'
  BY <1>3 DEF FillsInv, Placed, Adrift
<1>8. \A id \in Awaited' : Beyond(id)'
  <2>1. ASSUME NEW id \in Awaited' PROVE Beyond(id)
    <3>1. CASE id \in lost
      BY <1>3, <1>6, <2>1, <3>1
    <3>2. CASE id \notin lost
      BY <1>6, <2>1, <3>2 DEF FillsInv, Ahead
    <3>3. QED
      BY <3>1, <3>2
  <2>2. QED
    BY <1>4, <2>1
<1>9. Placed'
  BY <1>1, <1>5, <1>6, <1>7 DEF Placed, Adrift, PageBeforeSession
<1>10. Ordered'
  BY <1>5 DEF Ordered
<1>11. Ahead'
  <2>1. hand'.id \notin Awaited'
    <3>1. 0 \notin Executed
      BY Numbers DEF FillsInv
    <3>2. QED
      BY <1>1, <1>4, <3>1 DEF Awaited
  <2>2. QED
    BY <1>5, <1>8, <2>1 DEF Ahead
<1>12. EachFillCountsOnce' /\ FormerEpochs'
  BY <1>1, <1>5 DEF FillsInv, EachFillCountsOnce, FormerEpochs
<1>13. QED
  BY <1>4, <1>9, <1>10, <1>11, <1>12 DEF FillsInv

\* An event that is dropped unbooked stays on the page it is on, or is given up.
LEMMA DropEventStep ==
    ASSUME FillsInv, FillsTyped', DropEvent
    PROVE  FillsInv'
<1>1. /\ UNCHANGED <<trades, epoch, epochStart, opened, loop, run>>
      /\ loop = "streaming" \/ hand # NoHand
      /\ Page' = Page /\ Ascending(run'.page)
  BY DEF DropEvent, epochs, Page, FillsInv, Ordered
<1>2. loop = "streaming" /\ Adrift = {}
  BY <1>1 DEF FillsInv, Placed
<1>3. CASE hand # NoHand /\ hand' = NoHand /\ feed' = feed /\ Book(hand.id) /\ UNCHANGED ghosts
  BY <1>1, <1>3, BookHandStep DEF ghosts
<1>4. ASSUME NEW h, Unreported({h} \ ToSet(run.page), TRUE), UNCHANGED books,
             hand' = hand \/ hand' = NoHand,
             Ascending(feed'), Session' \subseteq Session,
             Session \cup Hand \subseteq Session' \cup Hand' \cup {h}
      PROVE  FillsInv'
  <2>1. /\ UNCHANGED <<fills, held, owed, charged>> /\ skipped' = skipped
        /\ tooLate \subseteq tooLate' /\ {h} \ Page \subseteq tooLate'
    BY <1>4 DEF books, Unreported, Page
  <2>2. Awaited' \subseteq Awaited \ tooLate'
    BY <1>1, <2>1, SameBooks DEF Awaited
  <2>3. Adrift' = {}
    BY <1>1, <1>2, <1>4, <2>1, <2>2 DEF Adrift
  <2>4. run'.pc # "book" => run'.page = <<>>
    BY <1>1 DEF FillsInv, Placed
  <2>5. QED
    BY <1>1, <1>2, <1>4, <2>1, <2>2, <2>3, <2>4, GoneStep
<1>5. CASE hand # NoHand /\ hand' = NoHand /\ feed' = feed /\ UNCHANGED books
           /\ Unreported({hand.id} \ ToSet(run.page), TRUE)
  <2>1. Session' = Session /\ Session \cup Hand \subseteq Session' \cup Hand' \cup {hand.id}
    BY <1>5 DEF Session, Hand
  <2>2. Ascending(feed')
    BY <1>5 DEF FillsInv, Ordered
  <2>3. QED
    BY <1>4, <1>5, <2>1, <2>2
<1>6. CASE feed # <<>> /\ feed' = Tail(feed) /\ UNCHANGED <<hand, books>>
           /\ Unreported({Head(feed)} \ ToSet(run.page), TRUE)
  <2>1. feed \in Seq(Executed) /\ Ascending(feed) /\ Executed \in SUBSET Nat
    BY Numbers DEF FillsInv, FillsTyped, Ordered
  <2>2. Ascending(Tail(feed)) /\ ToSet(Tail(feed)) = ToSet(feed) \ {Head(feed)}
    BY <1>6, <2>1, AscendingTail
  <2>3. /\ Session' \subseteq Session /\ Ascending(feed')
        /\ Session \cup Hand \subseteq Session' \cup Hand' \cup {Head(feed)}
    BY <1>6, <2>2 DEF Session, Hand
  <2>4. QED
    BY <1>4, <1>6, <2>3
<1>7. QED
  BY <1>3, <1>5, <1>6 DEF DropEvent

\* A run that breaks off: its page stays with the stream, waits for the run that is
\* still due, or is given up.
LEMMA FailRunStep ==
    ASSUME FillsInv, FillsTyped', FailRun
    PROVE  FillsInv'
<1> USE DEF IdleRun
<1> DEFINE lost == unseen \cup (Page \ (Session \cup {hand.id}))
<1>1. /\ UNCHANGED <<trades, fills, held, owed, charged, epoch, epochStart, opened, loop, feed,
                     hand>>
      /\ run' = IdleRun /\ Unreported(lost, ~RunStillDue)
  <2>1. lost = unseen \cup (ToSet(run.page) \ (ToSet(feed) \cup {hand.id}))
    BY DEF Session, Page
  <2>2. Unreported(lost, ~RunStillDue)
    BY <2>1 DEF FailRun
  <2>3. QED
    BY <2>2 DEF FailRun, books, epochs, loops
<1>2. /\ lost \subseteq unseen' /\ tooLate \subseteq tooLate' /\ skipped' = skipped
      /\ RunStillDue \/ lost \subseteq tooLate'
      /\ \A id \in lost : id < FromId => id \in tooLate'
  BY <1>1 DEF Unreported
<1>3. /\ Page' = {} /\ Session' = Session /\ Hand' = Hand
      /\ Ascending(run'.page) /\ Ascending(feed') /\ run'.page = <<>>
  BY <1>1, NothingIn DEF Page, Session, Hand, FillsInv, Ordered
<1>4. Awaited' \subseteq Awaited \ tooLate' /\ Awaited \subseteq Executed /\ Hand \subseteq {hand.id}
  BY <1>1, <1>2, SameBooks DEF Awaited, Hand
<1>5. Adrift' \subseteq lost /\ 0 \notin Executed /\ Page \subseteq Executed
  <2>1. Adrift \subseteq unseen /\ 0 \notin Executed /\ Page \subseteq Executed
    BY Numbers DEF FillsInv, Placed
  <2>2. QED
    BY <1>3, <1>4, <2>1 DEF Adrift, Hand
<1>6. Adrift' # {} => RunStillDue
  BY <1>2, <1>4, <1>5 DEF Adrift
<1>7. RunStillDue => PageBeforeSession' /\ loop' # "streaming" /\ Hand' = {}
  BY <1>1, <1>3 DEF RunStillDue, PageBeforeSession, FillsInv, Placed, Hand, NoHand
<1>8. ASSUME NEW id \in Awaited' \cap (Page \ (Session \cup Hand))
      PROVE  Hand' = {} /\ Beyond(id)
  <2>1. id \in lost /\ id \notin tooLate' /\ id \in Executed
    BY <1>4, <1>5, <1>8 DEF Hand
  <2>2. FromId \in Nat /\ id \in Nat /\ (Beyond(id) <=> FromId <= id)
    BY <2>1, FromIdIsBeyond, Numbers DEF FillsInv
  <2>3. QED
    BY <1>2, <1>7, <2>1, <2>2
<1> HIDE DEF lost
<1>9. loop' # "streaming" => feed' = <<>> /\ hand' = NoHand
  BY <1>1 DEF FillsInv, Placed
<1>10. QED
  BY <1>1, <1>2, <1>3, <1>5, <1>6, <1>7, <1>8, <1>9, GoneStep

-----------------------------------------------------------------------------
(* Live fills: the theorems.                                               *)

LEMMA FillsInvInit == FillsInit => FillsInv
<1> SUFFICES ASSUME FillsInit PROVE FillsInv
  OBVIOUS
<1> USE FillsBoundsAssumption DEF FillsInit, NoHand, IdleRun, Closed
<1>1. Len(trades) = 0 /\ Executed = {} /\ Page = {} /\ Session = {} /\ Hand = {} /\ Awaited = {}
  BY NothingIn, EmptySeq DEF Executed, Page, Session, Hand, Awaited
<1>2. FillsTyped
  BY <1>1, NothingIn DEF FillsTyped
<1>3. IsFiniteSet(fills) /\ Cardinality(fills) = 0
  BY FS_EmptySet
<1>4. BooksTyped
  BY <1>3 DEF BooksTyped, IsWatermark
<1>5. EachFillCountsOnce
  <2>1. fills \ owed = {}
    OBVIOUS
  <2>2. QED
    BY <1>3, <2>1 DEF EachFillCountsOnce
<1>6. Ordered
  BY <1>1, NothingIn DEF Ordered
<1>7. Placed /\ Ahead /\ FormerEpochs
  BY <1>1 DEF Placed, Ahead, FormerEpochs, Adrift
<1>8. QED
  BY <1>2, <1>4, <1>5, <1>6, <1>7 DEF FillsInv

LEMMA FillsInvNext == FillsInv /\ [FillsNext]_fillVars => FillsInv'
<1> SUFFICES ASSUME FillsInv, [FillsNext]_fillVars PROVE FillsInv'
  OBVIOUS
<1>1. CASE FillsNext
  <2>1. FillsTyped'
    BY <1>1, TypedStep
  <2>2. ASSUME NEW o \in VenueOrders, Execute(o) PROVE FillsInv'
    BY <2>1, <2>2, ExecuteStep
  <2>3. CASE \/ \E o \in VenueOrders : Acknowledged(o)
             \/ StartupRun \/ StartupDone \/ Connect \/ Reconnect \/ PeriodicRun \/ TriggerRun
             \/ RunAdopt \/ (RunPage /\ run'.pc = "fees") \/ RunBooked \/ FinishRun
             \/ \E f \in owed : ConvertFee(f)
    BY <2>1, <2>3, QuietSteps
  <2>4. CASE LoseSession \/ ReceiveTrade \/ BookStreamFill \/ AcceptReset
    BY <2>1, <2>4, LoseSessionStep, ReceiveTradeStep, BookStreamFillStep, AcceptResetStep
  <2>5. CASE (RunPage /\ run'.pc # "fees") \/ RunBook \/ CrashBooking
    BY <2>1, <2>5, RunPageStep, RunBookStep, CrashStep
  <2>6. CASE RunPage
    BY <2>3, <2>5, <2>6
  <2>7. CASE LoopStep \/ LoseSession \/ DropEvent \/ PeriodicRun
    BY <2>1, <2>3, <2>4, <2>7, DropEventStep DEF LoopStep
  <2>8. CASE TriggerRun \/ AcceptReset \/ RunStep \/ FailRun \/ CrashBooking
    <3>1. CASE TriggerRun \/ AcceptReset
      BY <2>3, <2>4, <3>1
    <3>2. CASE RunBook \/ FailRun \/ CrashBooking
      BY <2>1, <2>5, <3>2, FailRunStep
    <3>3. CASE RunAdopt \/ RunBooked \/ FinishRun
      BY <2>3, <3>3
    <3>4. QED
      BY <2>6, <2>8, <3>1, <3>2, <3>3 DEF RunStep
  <2>9. CASE \E f \in owed : ConvertFee(f)
    BY <2>3, <2>9
  <2>10. CASE \E o \in VenueOrders : Execute(o) \/ Acknowledged(o)
    BY <2>2, <2>3, <2>10
  <2>11. QED
    BY <1>1, <2>7, <2>8, <2>9, <2>10 DEF FillsNext
<1>2. CASE UNCHANGED fillVars
  <2>1. UNCHANGED <<trades, acked, fills, held, owed, charged, epoch, epochStart, opened, loop,
                    feed, hand, run, outages, unseen, tooLate, skipped>>
    BY <1>2 DEF fillVars, books, epochs, loops, ghosts
  <2>2. FillsTyped' /\ EachFillCountsOnce'
    BY <2>1 DEF FillsInv, FillsTyped, EachFillCountsOnce, Executed
  <2>3. PageBeforeSession' <=> PageBeforeSession
    BY <2>1 DEF PageBeforeSession, OwnRun, Running
  <2>4. QED
    BY <2>1, <2>2, <2>3, QuietStep DEF FillsInv, Placed
<1>3. QED
  BY <1>1, <1>2

\* What is not in the books and not given up is beyond the watermark or underway.
LEMMA InvHidesOnlyLate == FillsInv => HiddenOnlyIfLate
<1> SUFFICES ASSUME FillsInv, NEW id \in Executed, Hidden(id), id \notin tooLate \cup skipped
             PROVE  FALSE
  BY DEF HiddenOnlyIfLate
<1>1. id \in Awaited \ Page
  BY DEF Hidden, Underway, Awaited, Page
<1>2. Beyond(id)
  BY <1>1 DEF FillsInv, Ahead
<1>3. FromId <= id /\ id < FromId /\ FromId \in Nat /\ id \in Nat
  BY <1>2, FromIdIsBeyond, Numbers DEF FillsInv, Hidden
<1>4. QED
  BY <1>3

\* The watermark it read has passed what is taken for a reset, or an earlier epoch has
\* booked it.
LEMMA InvAlarmsOnlyIfLate == FillsInv => AlarmOnlyIfLate
<1> SUFFICES ASSUME FillsInv, hand # NoHand, LooksReset, hand.id \notin tooLate \cup skipped
             PROVE  FALSE
  BY DEF AlarmOnlyIfLate
<1>1. /\ <<epoch, hand.id>> \notin fills /\ hand.id <= hand.mark
      /\ hand.id \in Executed /\ hand.id \in Nat /\ hand.mark \in Nat /\ hand.id \in Hand
  BY Numbers, FillsBoundsAssumption DEF LooksReset, FillsInv, FillsTyped
<1>2. hand.id \notin Awaited
  BY <1>1 DEF FillsInv, Ahead
<1>3. PICK e \in 0..epoch : <<e, hand.id>> \in fills
  BY <1>1, <1>2 DEF Awaited, InBooks
<1>4. <<e, hand.id>>[1] # epoch /\ <<e, hand.id>>[2] = hand.id
  BY <1>1, <1>3
<1>5. QED
  BY <1>1, <1>3, <1>4 DEF FillsInv, FormerEpochs

\* The invariant holds in every reachable state, for every set of orders and every
\* bound: it says where an execution can be that is not in the books yet (oms/live
\* stream.go, fills.go and R5 of reconcile.go).
THEOREM FillsInvariant == FillsSpec => []FillsInv
<1>1. FillsInit => FillsInv
  BY FillsInvInit
<1>2. FillsInv /\ [FillsNext]_fillVars => FillsInv'
  BY FillsInvNext
<1>3. QED
  BY <1>1, <1>2, PTL DEF FillsSpec

\* Stream, periodic run, operator's run, dropped event, broken run, crash and accepted
\* reset never make a fill count twice, hide an execution that was not late, or let an
\* event raise the reset alarm whose own execution was not.
THEOREM FillsAreAccounted == FillsSpec => []FillsAccounted
<1>1. FillsInv => FillsAccounted
  BY InvHidesOnlyLate, InvAlarmsOnlyIfLate DEF FillsInv, FillsAccounted
<1>2. QED
  BY <1>1, FillsInvariant, PTL

-----------------------------------------------------------------------------
(* The paper account: one fill.                                            *)

Held == [qty : Int, cost : Int, realized : Int, cash : Int]
FillRecord == [order : Ids, qty : Int, price : Int, ts : Nat]

TrueBook(b) ==
    /\ b.qty = 0 => b.cost = 0
    /\ b.realized = b.cash + (IF b.qty < 0 THEN -b.cost ELSE b.cost)

\* What a whole position cost is taken off without a remainder.
LEMMA DivExact == ASSUME NEW c \in Int, NEW n \in Nat \ {0} PROVE (c * n) \div n = c
OBVIOUS

\* An average is a whole number.
LEMMA DivType == ASSUME NEW c \in Int, NEW n \in Nat \ {0} PROVE c \div n \in Int
OBVIOUS
\* A position without a quantity has no size.
LEMMA SizeIs == ASSUME NEW b \in Held PROVE Size(b) \in Nat /\ (Size(b) = 0 <=> b.qty = 0)
BY DEF Held, Size

\* applyFill yields a position.
LEMMA BookedTyped ==
    ASSUME NEW b \in Held, NEW buy \in BOOLEAN, NEW qty \in Nat \ {0}, NEW price \in Int
    PROVE  /\ Booked(b, buy, qty, price) \in Held
           /\ Booked(b, buy, qty, price).qty = b.qty + Sign(buy) * qty
<1>1. Fee \in Int /\ Sign(buy) \in {1, -1}
  BY PaperAssumption DEF Sign
<1>2. b.qty \in Int /\ b.cost \in Int /\ b.realized \in Int /\ b.cash \in Int
  BY DEF Held
<1>3. Closes(b, buy) => Size(b) \in Nat \ {0}
  BY <1>2 DEF Closes, Size
<1>4. Closes(b, buy) => /\ Least(qty, Size(b)) \in Nat
                        /\ (b.cost * Least(qty, Size(b))) \div Size(b) \in Int
  <2>1. Closes(b, buy) => Least(qty, Size(b)) \in Nat
    BY <1>3 DEF Least
  <2>2. Closes(b, buy) => b.cost * Least(qty, Size(b)) \in Int
    BY <1>2, <2>1
  <2> QED
    BY <1>3, <2>1, <2>2, DivType
<1>5. CostAfter(b, buy, qty, price) \in Int
  BY <1>2, <1>3, <1>4 DEF CostAfter
<1>6. Gross(b, buy, qty, price) \in Int
  <2>1. Closes(b, buy) => price * Least(qty, Size(b)) \in Int
    BY <1>4
  <2>2. CASE Closes(b, buy)
    BY <1>1, <1>4, <2>1, <2>2 DEF Gross
  <2>3. CASE ~Closes(b, buy)
    BY <2>3 DEF Gross
  <2> QED
    BY <2>2, <2>3
<1>7. Sign(buy) * qty \in Int /\ Sign(buy) * price * qty \in Int
  BY <1>1
<1> QED
  BY <1>1, <1>2, <1>5, <1>6, <1>7 DEF Booked, Held

\* applyFill, opening, adding, reducing or flipping: what is realized and what is open
\* account for every payment.
LEMMA BookedTrue ==
    ASSUME NEW b \in Held, NEW buy \in BOOLEAN, NEW qty \in Nat \ {0}, NEW price \in Int, TrueBook(b)
    PROVE  TrueBook(Booked(b, buy, qty, price))
<1> DEFINE after == Booked(b, buy, qty, price)
           s == Sign(buy)
           n == Size(b)
           v == price * qty
<1>1. Fee \in Int /\ s \in {1, -1} /\ s = (IF buy THEN 1 ELSE -1) /\ v \in Int
  BY PaperAssumption DEF Sign
<1>2. /\ b.qty \in Int /\ b.cost \in Int /\ b.realized \in Int /\ b.cash \in Int
      /\ b.qty = 0 => b.cost = 0
      /\ b.realized = b.cash + (IF b.qty < 0 THEN -b.cost ELSE b.cost)
  BY DEF Held, TrueBook
<1>3. /\ after.qty = b.qty + s * qty
      /\ after.cost = CostAfter(b, buy, qty, price)
      /\ after.realized = b.realized + Gross(b, buy, qty, price) - Fee
      /\ after.cash = b.cash - s * price * qty - Fee
  BY DEF Booked
<1>4. /\ s * price * qty = s * v
      /\ s * v = IF buy THEN v ELSE -v
  BY <1>1
<1>7. after.qty \in Int /\ after.cost \in Int /\ after.realized \in Int /\ after.cash \in Int
  BY BookedTyped DEF Held
<1> SUFFICES TrueBook(after)
  OBVIOUS
<1> HIDE DEF after, s, v
<1>5. CASE ~Closes(b, buy)
  <2>1. after.cost = b.cost + v /\ after.realized = b.realized - Fee
    BY <1>2, <1>3, <1>1, <1>5 DEF CostAfter, Gross, v
  <2>2. buy => b.qty >= 0 /\ after.qty > 0
    BY <1>1, <1>2, <1>3, <1>5 DEF Closes
  <2>3. ~buy => b.qty <= 0 /\ after.qty < 0
    BY <1>1, <1>2, <1>3, <1>5 DEF Closes
  <2>4. after.cash = b.cash - s * v - Fee
    BY <1>3, <1>4
  <2> QED
    BY <1>1, <1>2, <2>1, <2>2, <2>3, <2>4, <1>4, <1>7 DEF TrueBook
<1>6. CASE Closes(b, buy)
  <2>1. n \in Nat \ {0} /\ (buy => b.qty = -n) /\ (~buy => b.qty = n)
    BY <1>2, <1>6 DEF Closes, Size
  <2>2. after.cash = b.cash - s * v - Fee
    BY <1>3, <1>4
  <2>3. CASE qty >= n
    <3> DEFINE u == price * n
    <3>1. Least(qty, n) = n
      BY <2>1, <2>3 DEF Least
    <3>2. (b.cost * n) \div n = b.cost
      BY <1>2, <2>1, DivExact
    <3>3. u \in Int
      BY <2>1
    <3>4. Gross(b, buy, qty, price) = -s * (u - b.cost)
      BY <1>6, <3>1, <3>2 DEF Gross, s
    <3>5. after.cost = v - u
      <4>1. CASE qty > n
        <5>1. price * (qty - n) = price * qty - price * n
          BY <2>1
        <5> QED
          BY <1>3, <1>6, <4>1, <5>1 DEF CostAfter, v
      <4>2. CASE qty = n
        <5>1. after.cost = b.cost - (b.cost * n) \div n
          BY <1>3, <1>6, <2>1, <3>1, <4>2 DEF CostAfter
        <5> QED
          BY <1>2, <3>2, <4>2, <5>1, <3>3 DEF v
      <4> QED
        BY <2>1, <2>3, <4>1, <4>2
    <3> HIDE DEF u, n
    <3>6. buy => after.qty = qty - n
      BY <1>1, <1>2, <1>3, <2>1
    <3>7. ~buy => after.qty = n - qty
      <4>1. ~buy => s * qty = -qty
        BY <1>1
      <4> QED
        BY <1>2, <1>3, <2>1, <4>1
    <3>8. after.qty = 0 => v = u
      BY <2>1, <2>3, <3>6, <3>7 DEF v, u
    <3>9. CASE buy
      <4>1. after.realized = b.realized - (u - b.cost) - Fee /\ after.cash = b.cash - v - Fee /\ b.realized = b.cash - b.cost
        BY <1>1, <1>2, <1>3, <2>1, <2>2, <3>3, <3>4, <3>9
      <4>2. after.qty >= 0
        BY <2>1, <2>3, <3>6, <3>9
      <4> QED
        BY <1>1, <1>2, <3>3, <3>5, <3>8, <4>1, <4>2, <1>7 DEF TrueBook
    <3>10. CASE ~buy
      <4>1. after.realized = b.realized + (u - b.cost) - Fee /\ after.cash = b.cash + v - Fee /\ b.realized = b.cash + b.cost
        BY <1>1, <1>2, <1>3, <2>1, <2>2, <3>3, <3>4, <3>10
      <4>2. after.qty <= 0
        BY <2>1, <2>3, <3>7, <3>10
      <4> QED
        BY <1>1, <1>2, <3>3, <3>5, <3>8, <4>1, <4>2, <1>7 DEF TrueBook
    <3> QED
      BY <3>9, <3>10
  <2>4. CASE qty < n
    <3> DEFINE d == (b.cost * qty) \div n
    <3>1. Least(qty, n) = qty
      BY <2>1, <2>4 DEF Least
    <3>2. d \in Int
      BY <1>2, <2>1, DivType
    <3>3. Gross(b, buy, qty, price) = -s * (v - d)
      BY <1>6, <3>1 DEF Gross, s, v
    <3>4. after.cost = b.cost - d
      BY <1>3, <1>6, <2>1, <2>4, <3>1 DEF CostAfter
    <3> HIDE DEF d, n
    <3>5. CASE buy
      <4>1. after.realized = b.realized - (v - d) - Fee /\ after.cash = b.cash - v - Fee /\ b.realized = b.cash - b.cost
        BY <1>1, <1>2, <1>3, <2>1, <2>2, <3>2, <3>3, <3>5
      <4>2. after.qty < 0
        BY <1>1, <1>3, <2>1, <2>4, <3>5
      <4> QED
        BY <1>1, <1>2, <3>2, <3>4, <4>1, <4>2, <1>7 DEF TrueBook
    <3>6. CASE ~buy
      <4>1. after.realized = b.realized + (v - d) - Fee /\ after.cash = b.cash + v - Fee /\ b.realized = b.cash + b.cost
        BY <1>1, <1>2, <1>3, <2>1, <2>2, <3>2, <3>3, <3>6
      <4>2. after.qty > 0
        BY <1>1, <1>3, <2>1, <2>4, <3>6
      <4> QED
        BY <1>1, <1>2, <3>2, <3>4, <4>1, <4>2, <1>7 DEF TrueBook
    <3> QED
      BY <3>5, <3>6
  <2> QED
    BY <2>1, <2>3, <2>4
<1> QED
  BY <1>5, <1>6

-----------------------------------------------------------------------------
(* What the open stops cover.                                              *)

Memories == [Ids -> PaperOrders \cup {NoOrder}]

Cover(side, o) == IF OpenStop(o) /\ Sign(o.buy) = side THEN o.qty ELSE 0
Units(side, os) == SumFunctionOnSet([i \in Ids |-> Cover(side, os[i])], Ids)
Covered(b, os) == /\ b.qty > 0 => Units(-1, os) >= b.qty
                  /\ b.qty < 0 => Units(1, os) >= -b.qty

\* There are finitely many ids.
LEMMA IdsFinite == IsFiniteSet(Ids) /\ Ids \subseteq Nat
<1>1. 1 \in Int /\ MaxOrder \in Int
  BY PaperAssumption
<1> QED
  BY <1>1, FS_Interval DEF Ids

\* The units of one order are a number.
LEMMA CoverTyped ==
    ASSUME NEW o \in PaperOrders \cup {NoOrder}, NEW side PROVE Cover(side, o) \in Nat
BY DEF Cover, OpenStop, PaperOrders

\* The units of all orders are a number.
LEMMA UnitsTyped == ASSUME NEW os \in Memories, NEW side PROVE Units(side, os) \in Nat
<1> DEFINE c == [i \in Ids |-> Cover(side, os[i])]
<1>1. \A i \in Ids : c[i] \in Nat
  BY CoverTyped DEF Memories
<1>2. IsFiniteSet(Ids)
  BY IdsFinite
<1> HIDE DEF c
<1>3. SumFunctionOnSet(c, Ids) \in Nat
  BY <1>1, <1>2, SumType
<1> QED
  BY <1>3 DEF Units, c

\* One order changes.
LEMMA UnitsChanged ==
    ASSUME NEW os \in Memories, NEW new \in Memories, NEW side, NEW s \in Ids,
           \A i \in Ids \ {s} : Cover(side, new[i]) = Cover(side, os[i])
    PROVE  Units(side, new) = Units(side, os) - Cover(side, os[s]) + Cover(side, new[s])
<1> DEFINE c == [i \in Ids |-> Cover(side, os[i])]
           d == [i \in Ids |-> Cover(side, new[i])]
<1>1. \A i \in Ids : c[i] \in Int /\ d[i] \in Int
  <2>1. \A i \in Ids : c[i] \in Nat /\ d[i] \in Nat
    BY CoverTyped DEF Memories
  <2> QED
    BY <2>1
<1>2. \A i \in Ids \ {s} : d[i] = c[i]
  OBVIOUS
<1>3. IsFiniteSet(Ids)
  BY IdsFinite
<1>4. c[s] = Cover(side, os[s]) /\ d[s] = Cover(side, new[s])
  OBVIOUS
<1> HIDE DEF c, d
<1>5. SumFunctionOnSet(d, Ids) = SumFunctionOnSet(c, Ids) - c[s] + d[s]
  BY <1>1, <1>2, <1>3, SumChanged
<1> QED
  BY <1>4, <1>5 DEF Units, c, d

\* No order changes what it covers.
LEMMA UnitsSame ==
    ASSUME NEW os, NEW new, NEW side, \A i \in Ids : Cover(side, new[i]) = Cover(side, os[i])
    PROVE  Units(side, new) = Units(side, os)
BY DEF Units

\* A position stays covered as long as the open stops stay.
LEMMA CoveredSame ==
    ASSUME NEW os, NEW new, NEW b, \A side \in {1, -1}, i \in Ids : Cover(side, new[i]) = Cover(side, os[i]),
           Covered(b, os)
    PROVE  Covered(b, new)
<1>1. Units(1, new) = Units(1, os) /\ Units(-1, new) = Units(-1, os)
  BY DEF Units
<1> QED
  BY <1>1 DEF Covered

\* StopUnits of the closing side, by the side of the position.
LEMMA CoveredIs ==
    ASSUME NEW b \in Held, NEW os \in Memories
    PROVE  StopUnits(b, os) >= Size(b) <=> Covered(b, os)
<1> DEFINE c == [i \in Ids |-> IF OpenStop(os[i]) /\ Closes(b, os[i].buy) THEN os[i].qty ELSE 0]
<1>1. b.qty \in Int
  BY DEF Held
<1>2. IsFiniteSet(Ids)
  BY IdsFinite
<1>3. \A i \in Ids : OpenStop(os[i]) => os[i].buy \in BOOLEAN /\ os[i].qty \in Nat
  BY DEF Memories, OpenStop, PaperOrders
<1>4. StopUnits(b, os) = SumFunctionOnSet(c, Ids)
  BY DEF StopUnits
<1>8. Units(1, os) \in Nat /\ Units(-1, os) \in Nat
  BY UnitsTyped
<1>5. CASE b.qty > 0
  <2> DEFINE d == [i \in Ids |-> Cover(-1, os[i])]
  <2>1. \A i \in Ids : c[i] = d[i]
    BY <1>1, <1>3, <1>5 DEF Cover, Closes, Sign
  <2> HIDE DEF c, d
  <2>2. SumFunctionOnSet(c, Ids) = SumFunctionOnSet(d, Ids)
    BY <1>2, <2>1, SumSame
  <2>3. Units(-1, os) = SumFunctionOnSet(d, Ids)
    BY DEF Units, d
  <2> QED
    BY <1>1, <1>4, <1>5, <1>8, <2>2, <2>3 DEF Covered, Size
<1>6. CASE b.qty < 0
  <2> DEFINE d == [i \in Ids |-> Cover(1, os[i])]
  <2>1. \A i \in Ids : c[i] = d[i]
    BY <1>1, <1>3, <1>6 DEF Cover, Closes, Sign
  <2> HIDE DEF c, d
  <2>2. SumFunctionOnSet(c, Ids) = SumFunctionOnSet(d, Ids)
    BY <1>2, <2>1, SumSame
  <2>3. Units(1, os) = SumFunctionOnSet(d, Ids)
    BY DEF Units, d
  <2> QED
    BY <1>1, <1>4, <1>6, <1>8, <2>2, <2>3 DEF Covered, Size
<1>7. CASE b.qty = 0
  <2>1. \A i \in Ids : c[i] \in Nat
    BY <1>3
  <2> HIDE DEF c
  <2>2. SumFunctionOnSet(c, Ids) \in Nat
    BY <1>2, <2>1, SumType
  <2> QED
    BY <1>4, <1>7, <2>2 DEF Covered, Size
<1> QED
  BY <1>1, <1>5, <1>6, <1>7

\* A stop for what an entry adds covers the position it leads to.
LEMMA EntryCovered ==
    ASSUME NEW b \in Held, NEW after \in Held, NEW os \in Memories, NEW new \in Memories,
           NEW buy \in BOOLEAN, NEW qty \in Nat \ {0}, NEW s \in Ids,
           Covered(b, os), after.qty = b.qty + Sign(buy) * qty,
           Cover(1, os[s]) = 0, Cover(-1, os[s]) = 0,
           OpenStop(new[s]), new[s].buy = ~buy, new[s].qty = qty,
           \A side \in {1, -1}, i \in Ids \ {s} : Cover(side, new[i]) = Cover(side, os[i])
    PROVE  Covered(after, new)
<1>1. after.qty = IF buy THEN b.qty + qty ELSE b.qty - qty
  BY DEF Sign, Held
<1>2. Units(1, os) \in Nat /\ Units(-1, os) \in Nat
  BY UnitsTyped
<1>3. /\ Units(1, new) = Units(1, os) - Cover(1, os[s]) + Cover(1, new[s])
      /\ Units(-1, new) = Units(-1, os) - Cover(-1, os[s]) + Cover(-1, new[s])
  BY UnitsChanged
<1>6. Sign(new[s].buy) = (IF buy THEN -1 ELSE 1)
  BY DEF Sign
<1>7. b.qty \in Int /\ after.qty \in Int /\ new[s].qty = qty /\ OpenStop(new[s])
  BY DEF Held
<1>4. CASE buy
  <2>1. Cover(-1, new[s]) = qty /\ Cover(1, new[s]) = 0
    BY <1>4, <1>6, <1>7 DEF Cover
  <2>2. Units(-1, new) = Units(-1, os) + qty /\ Units(1, new) = Units(1, os)
    BY <1>2, <1>3, <2>1
  <2>3. after.qty = b.qty + qty /\ (b.qty > 0 => Units(-1, os) >= b.qty) /\ (b.qty < 0 => Units(1, os) >= -b.qty)
    BY <1>1, <1>4 DEF Covered
  <2>4. after.qty > 0 => Units(-1, new) >= after.qty
    BY <1>2, <1>7, <2>2, <2>3
  <2>5. after.qty < 0 => Units(1, new) >= -after.qty
    BY <1>2, <1>7, <2>2, <2>3
  <2> QED
    BY <2>4, <2>5 DEF Covered
<1>5. CASE ~buy
  <2>1. Cover(1, new[s]) = qty /\ Cover(-1, new[s]) = 0
    BY <1>5, <1>6, <1>7 DEF Cover
  <2>2. Units(1, new) = Units(1, os) + qty /\ Units(-1, new) = Units(-1, os)
    BY <1>2, <1>3, <2>1
  <2> QED
    BY <1>1, <1>2, <1>5, <2>2, <1>7 DEF Covered
<1> QED
  BY <1>4, <1>5

-----------------------------------------------------------------------------
(* Ids.                                                                    *)

UsedBy(os)    == {i \in Ids : os[i] # NoOrder \/ orderRows[i] # NoOrder}
Free(os)      == Ids \ UsedBy(os)
RestingIn(os) == {i \in Ids : os[i] # NoOrder /\ os[i].status = "open" /\ os[i].kind = "entry"}

\* The least free id is free.
LEMMA FreeIdFree ==
    ASSUME NEW used, Ids \ used # {}
    PROVE  FreeId(used) \in Ids \ used
<1> DEFINE F == Ids \ used
<1>1. F \subseteq Nat /\ F # {}
  BY IdsFinite
<1> HIDE DEF F
<1>2. PICK i \in F : \A j \in F : ~(<<j, i>> \in OpToRel(<, Nat))
  BY <1>1, NatLessThanWellFounded, WFMin
<1>3. \A j \in F : i <= j
  <2> SUFFICES ASSUME NEW j \in F, j < i PROVE FALSE
    BY <1>1
  <2>1. <<j, i>> \in Nat \X Nat
    BY <1>1
  <2>2. <<j, i>> \in OpToRel(<, Nat)
    BY <2>1 DEF OpToRel
  <2> QED
    BY <1>2, <2>2
<1>4. \E k \in Ids : k \notin used /\ \A j \in Ids \ used : k <= j
  BY <1>2, <1>3 DEF F
<1>5. FreeId(used) \in Ids /\ FreeId(used) \notin used
  BY <1>4 DEF FreeId
<1> QED
  BY <1>5

\* The free ids and the resting entries can be counted.
LEMMA FreeFinite ==
    ASSUME NEW os
    PROVE  /\ IsFiniteSet(Free(os)) /\ IsFiniteSet(RestingIn(os))
           /\ Cardinality(Free(os)) \in Nat /\ Cardinality(RestingIn(os)) \in Nat
           /\ Free(os) \subseteq Ids
<1>1. Free(os) \subseteq Ids /\ RestingIn(os) \subseteq Ids
  BY DEF Free, RestingIn
<1>2. IsFiniteSet(Free(os)) /\ IsFiniteSet(RestingIn(os))
  BY <1>1, IdsFinite, FS_Subset
<1> QED
  BY <1>1, <1>2, FS_CardinalityType

\* An order is placed under a free id.
LEMMA FreeIdOf ==
    ASSUME NEW os, Cardinality(Free(os)) >= 1
    PROVE  FreeId(UsedBy(os)) \in Free(os)
<1>1. Free(os) # {}
  BY FreeFinite, FS_EmptySet
<1> QED
  BY <1>1, FreeIdFree DEF Free

\* Two ids in turn, as placeProtectivesLocked takes them.
LEMMA TwoFreeIds ==
    ASSUME NEW os, Cardinality(Free(os)) >= 2
    PROVE  /\ FreeId(UsedBy(os)) \in Free(os)
           /\ FreeId(UsedBy(os) \cup {FreeId(UsedBy(os))}) \in Free(os) \ {FreeId(UsedBy(os))}
<1> DEFINE s == FreeId(UsedBy(os))
           F == Free(os)
<1>1. IsFiniteSet(F) /\ Cardinality(F) \in Nat /\ Cardinality(F) >= 2
  BY FreeFinite
<1>2. s \in F
  BY <1>1, FreeIdOf
<1> HIDE DEF s, F
<1>3. Cardinality(F \ {s}) >= 1 /\ IsFiniteSet(F \ {s})
  <2>1. IsFiniteSet(F \ {s}) /\ Cardinality(F \ {s}) = Cardinality(F) - 1
    BY <1>1, <1>2, FS_RemoveElement
  <2> QED
    BY <1>1, <2>1
<1>4. F \ {s} # {}
  BY <1>3, FS_EmptySet
<1>5. F \ {s} = Ids \ (UsedBy(os) \cup {s})
  BY DEF F, Free
<1>6. FreeId(UsedBy(os) \cup {s}) \in F \ {s}
  BY <1>4, <1>5, FreeIdFree
<1> QED
  BY <1>2, <1>6 DEF s, F

-----------------------------------------------------------------------------
(* A memory that agrees with the rows.                                     *)

MirrorOf(o, k, r) ==
    /\ k # NoOrder => o # NoOrder /\ r # NoOrder /\ r.o.status = k
    /\ o # NoOrder /\ r # NoOrder => k # NoOrder
    /\ o = NoOrder /\ r # NoOrder => r.o.status # "open"
    /\ k # NoOrder /\ (k # "open" \/ o.status = "open") => r.o = o

Sound(os, b) ==
    /\ os \in Memories /\ b \in Held /\ TrueBook(b) /\ Covered(b, os)
    /\ Cardinality(Free(os)) >= 2 * Cardinality(RestingIn(os))
    /\ \A i \in Ids : MirrorOf(os[i], known[i], orderRows[i])

\* An order is placed under a free id, or settled while it is open.
PlacedAt(os, new, i)  == i \in Free(os) /\ new[i] # NoOrder
SettledAt(os, new, i) == /\ os[i] # NoOrder /\ os[i].status = "open"
                       /\ new[i] # NoOrder /\ new[i].status # "open"

\* The mirror of an order holds until the next transaction.
LEMMA MirrorKept ==
    ASSUME NEW os, NEW new, NEW i \in Ids, MirrorOf(os[i], known[i], orderRows[i]),
           \/ new[i] = os[i]
           \/ PlacedAt(os, new, i)
           \/ SettledAt(os, new, i)
    PROVE  MirrorOf(new[i], known[i], orderRows[i])
BY DEF MirrorOf, PlacedAt, SettledAt, Free, UsedBy

\* The types in a sound memory.
LEMMA SoundTyped ==
    ASSUME NEW os, NEW b, Sound(os, b)
    PROVE  /\ os \in Memories /\ DOMAIN os = Ids /\ b \in Held
           /\ \A i \in Ids : os[i] # NoOrder => os[i] \in PaperOrders
           /\ \A i \in Free(os) : i \in Ids /\ os[i] = NoOrder /\ orderRows[i] = NoOrder
BY DEF Sound, Memories, Free, UsedBy

\* An order that is no stop is put under a free id.
LEMMA PlaceSound ==
    ASSUME NEW os, NEW b, Sound(os, b), NEW o \in PaperOrders, o.kind # "stop", NEW i \in Free(os),
           NEW n \in Nat, Cardinality(Free(os)) >= n + 2 * Cardinality(RestingIn(os)),
           n >= 1, o.kind = "entry" /\ o.status = "open" => n >= 3
    PROVE  /\ Sound([os EXCEPT ![i] = o], b)
           /\ ~(o.kind = "entry" /\ o.status = "open") =>
                 Cardinality(Free([os EXCEPT ![i] = o])) >= n - 1 + 2 * Cardinality(RestingIn([os EXCEPT ![i] = o]))
<1> DEFINE new == [os EXCEPT ![i] = o]
           F == Free(os)
           R == RestingIn(os)
           G == Free(new)
           Q == RestingIn(new)
<1>1. /\ os \in Memories /\ DOMAIN os = Ids /\ i \in Ids /\ os[i] = NoOrder /\ orderRows[i] = NoOrder
      /\ o # NoOrder
  BY SoundTyped, PaperAssumption
<1>2. new \in Memories /\ new[i] = o /\ \A j \in Ids \ {i} : new[j] = os[j]
  BY <1>1 DEF Memories
<1> HIDE DEF new
<1>3. G = F \ {i}
  BY <1>1, <1>2 DEF Free, UsedBy
<1>4. IF o.kind = "entry" /\ o.status = "open" THEN Q = R \cup {i} ELSE Q = R
  BY <1>1, <1>2 DEF RestingIn
<1>5. i \notin R
  BY <1>1 DEF RestingIn
<1>6. /\ IsFiniteSet(F) /\ IsFiniteSet(R) /\ Cardinality(F) \in Nat /\ Cardinality(R) \in Nat
  BY FreeFinite
<1>7. Cardinality(F) >= n + 2 * Cardinality(R)
  OBVIOUS
<1> HIDE DEF F, R, G, Q
<1>8. Cardinality(G) = Cardinality(F) - 1
  BY <1>3, <1>6, FS_RemoveElement DEF F
<1>9. Cardinality(Q) = IF o.kind = "entry" /\ o.status = "open" THEN Cardinality(R) + 1 ELSE Cardinality(R)
  <2>1. Cardinality(R \cup {i}) = Cardinality(R) + 1
    BY <1>5, <1>6, FS_AddElement
  <2> QED
    BY <1>4, <2>1
<1>10. Cardinality(G) >= 2 * Cardinality(Q)
  BY <1>6, <1>7, <1>8, <1>9
<1>11. ~(o.kind = "entry" /\ o.status = "open") => Cardinality(G) >= n - 1 + 2 * Cardinality(Q)
  BY <1>6, <1>7, <1>8, <1>9
<1>12. \A j \in Ids : MirrorOf(new[j], known[j], orderRows[j])
  <2> SUFFICES ASSUME NEW j \in Ids PROVE MirrorOf(new[j], known[j], orderRows[j])
    OBVIOUS
  <2>1. MirrorOf(os[j], known[j], orderRows[j])
    BY DEF Sound
  <2>2. new[j] = os[j] \/ PlacedAt(os, new, j)
    BY <1>1, <1>2 DEF PlacedAt
  <2> QED
    BY <2>1, <2>2, MirrorKept
<1>13. Covered(b, new)
  <2>1. Covered(b, os)
    BY DEF Sound
  <2>2. \A side \in {1, -1}, j \in Ids : Cover(side, new[j]) = Cover(side, os[j])
    BY <1>1, <1>2 DEF Cover, OpenStop
  <2> QED
    BY <2>1, <2>2, CoveredSame
<1>14. Sound(new, b)
  BY <1>2, <1>10, <1>12, <1>13 DEF Sound, G, Q
<1> QED
  BY <1>11, <1>14 DEF new, G, Q

\* A resting entry is settled: what it might have placed stays free.
LEMMA SettleEntrySound ==
    ASSUME NEW os, NEW b, Sound(os, b), NEW i \in RestingIn(os),
           NEW o \in PaperOrders, o.kind = "entry", o.status # "open"
    PROVE  /\ Sound([os EXCEPT ![i] = o], b)
           /\ Cardinality(Free([os EXCEPT ![i] = o])) >= 2 + 2 * Cardinality(RestingIn([os EXCEPT ![i] = o]))
<1> DEFINE new == [os EXCEPT ![i] = o]
           F == Free(os)
           R == RestingIn(os)
           G == Free(new)
           Q == RestingIn(new)
<1>1. /\ os \in Memories /\ DOMAIN os = Ids /\ i \in Ids /\ os[i] # NoOrder
      /\ os[i].status = "open" /\ os[i].kind = "entry" /\ o # NoOrder
  BY SoundTyped, PaperAssumption DEF RestingIn
<1>2. new \in Memories /\ new[i] = o /\ \A j \in Ids \ {i} : new[j] = os[j]
  BY <1>1 DEF Memories
<1> HIDE DEF new
<1>3. G = F /\ Q = R \ {i} /\ i \in R
  BY <1>1, <1>2 DEF Free, UsedBy, RestingIn
<1>4. /\ IsFiniteSet(F) /\ IsFiniteSet(R) /\ Cardinality(F) \in Nat /\ Cardinality(R) \in Nat
  BY FreeFinite
<1>5. Cardinality(F) >= 2 * Cardinality(R)
  BY DEF Sound
<1> HIDE DEF F, R, G, Q
<1>6. Cardinality(Q) = Cardinality(R) - 1
  BY <1>3, <1>4, FS_RemoveElement
<1>7. Cardinality(G) >= 2 + 2 * Cardinality(Q)
  BY <1>3, <1>4, <1>5, <1>6
<1>8. Cardinality(G) >= 2 * Cardinality(Q)
  BY <1>3, <1>4, <1>5, <1>6
<1>9. \A j \in Ids : MirrorOf(new[j], known[j], orderRows[j])
  <2> SUFFICES ASSUME NEW j \in Ids PROVE MirrorOf(new[j], known[j], orderRows[j])
    OBVIOUS
  <2>1. MirrorOf(os[j], known[j], orderRows[j])
    BY DEF Sound
  <2>2. new[j] = os[j] \/ SettledAt(os, new, j)
    BY <1>1, <1>2 DEF SettledAt
  <2> QED
    BY <2>1, <2>2, MirrorKept
<1>10. Covered(b, new)
  <2>1. Covered(b, os)
    BY DEF Sound
  <2>2. \A side \in {1, -1}, j \in Ids : Cover(side, new[j]) = Cover(side, os[j])
    BY <1>1, <1>2 DEF Cover, OpenStop
  <2> QED
    BY <2>1, <2>2, CoveredSame
<1>11. Sound(new, b)
  BY <1>2, <1>8, <1>9, <1>10 DEF Sound, G, Q
<1> QED
  BY <1>7, <1>11 DEF new, G, Q

\* The stop and the take-profit of a filled entry.
LEMMA ProtectSound ==
    ASSUME NEW os, NEW b, Sound(os, b), Cardinality(Free(os)) >= 2 + 2 * Cardinality(RestingIn(os)),
           NEW e, e.buy \in BOOLEAN, e.qty \in Nat \ {0}, e.stop \in Nat, e.take \in Nat, NEW price \in Int
    PROVE  Sound(WithProtectives(os, e), Booked(b, e.buy, e.qty, price))
<1> DEFINE s == FreeId(UsedBy(os))
           t == FreeId(UsedBy(os) \cup {s})
           stop == NewOrder("stop", ~e.buy, e.qty, e.stop)
           take == NewOrder("profit", ~e.buy, e.qty, e.take)
           new == [i \in Ids |-> IF i = s THEN stop ELSE IF i = t /\ e.take # 0 THEN take ELSE os[i]]
           after == Booked(b, e.buy, e.qty, price)
           F == Free(os)
           R == RestingIn(os)
           G == Free(new)
           Q == RestingIn(new)
<1>1. WithProtectives(os, e) = new
  BY DEF WithProtectives, UsedBy
<1>2. /\ stop \in PaperOrders /\ stop.kind = "stop" /\ stop.status = "open"
      /\ stop.buy = ~e.buy /\ stop.qty = e.qty
      /\ take \in PaperOrders /\ take.kind = "profit"
      /\ stop # NoOrder /\ take # NoOrder
  <2>1. stop \in PaperOrders /\ take \in PaperOrders
    BY DEF NewOrder, PaperOrders, OrderKinds, OrderStatuses
  <2> QED
    BY <2>1, PaperAssumption DEF NewOrder
<1>3. /\ IsFiniteSet(F) /\ IsFiniteSet(R) /\ Cardinality(F) \in Nat /\ Cardinality(R) \in Nat
  BY FreeFinite
<1>4. s \in F /\ t \in F \ {s}
  <2>1. Cardinality(Free(os)) >= 2
    BY <1>3
  <2> QED
    BY <2>1, TwoFreeIds
<1>5. os \in Memories /\ b \in Held /\ TrueBook(b) /\ Covered(b, os) /\ F \subseteq Ids
      /\ \A i \in F : os[i] = NoOrder /\ orderRows[i] = NoOrder
  BY SoundTyped DEF Sound, Free
<1>6. Cardinality(F) >= 2 + 2 * Cardinality(R)
  OBVIOUS
<1>7. after \in Held /\ TrueBook(after) /\ after.qty = b.qty + Sign(e.buy) * e.qty
  BY <1>5, BookedTyped, BookedTrue
<1> HIDE DEF s, t, stop, take, after, F, R
<1>8. /\ new[s] = stop /\ \A i \in Ids \ {s, t} : new[i] = os[i]
      /\ t \in Ids /\ s \in Ids /\ s # t
      /\ new[t] = IF e.take # 0 THEN take ELSE NoOrder
  BY <1>4, <1>5
<1>9. new \in Memories
  BY <1>2, <1>5 DEF Memories
<1> HIDE DEF new
<1>10. F \ {s, t} \subseteq G
  BY <1>8 DEF F, G, Free, UsedBy
<1>11. Q = R
  <2>1. os[s] = NoOrder /\ os[t] = NoOrder
    BY <1>4, <1>5
  <2>2. \A i \in Ids : i \in R <=> i \in Q
    BY <1>2, <1>8, <2>1 DEF R, Q, RestingIn
  <2> QED
    BY <2>2 DEF R, Q, RestingIn
<1>12. IsFiniteSet(G) /\ Cardinality(G) \in Nat
  BY FreeFinite
<1> HIDE DEF G, Q
<1>13. Cardinality(G) >= 2 * Cardinality(Q)
  <2>1. IsFiniteSet(F \ {s}) /\ Cardinality(F \ {s}) = Cardinality(F) - 1
    BY <1>3, <1>4, FS_RemoveElement
  <2> DEFINE H == F \ {s}
  <2>2. IsFiniteSet(H) /\ t \in H /\ Cardinality(H) = Cardinality(F) - 1
    BY <1>4, <2>1
  <2> HIDE DEF H
  <2>3. IsFiniteSet(H \ {t}) /\ Cardinality(H \ {t}) = Cardinality(H) - 1
    BY <2>2, FS_RemoveElement
  <2>4. H \ {t} \subseteq G
    BY <1>10 DEF H
  <2>5. Cardinality(H \ {t}) <= Cardinality(G)
    BY <2>4, <1>12, FS_Subset
  <2> QED
    BY <1>3, <1>6, <1>11, <1>12, <2>2, <2>3, <2>5
<1>14. \A j \in Ids : MirrorOf(new[j], known[j], orderRows[j])
  <2> SUFFICES ASSUME NEW j \in Ids PROVE MirrorOf(new[j], known[j], orderRows[j])
    OBVIOUS
  <2>1. MirrorOf(os[j], known[j], orderRows[j])
    BY DEF Sound
  <2>2. new[j] = os[j] \/ PlacedAt(os, new, j)
    BY <1>2, <1>4, <1>5, <1>8 DEF PlacedAt, F
  <2> QED
    BY <2>1, <2>2, MirrorKept
<1>15. Covered(after, new)
  <2>1. os[s] = NoOrder /\ os[t] = NoOrder /\ OpenStop(new[s]) /\ ~OpenStop(new[t])
    BY <1>2, <1>4, <1>5, <1>8 DEF OpenStop
  <2>2. new[s].buy = ~e.buy /\ new[s].qty = e.qty
    BY <1>2, <1>8
  <2>3. \A side \in {1, -1}, i \in Ids \ {s} : Cover(side, new[i]) = Cover(side, os[i])
    BY <1>8, <2>1 DEF Cover, OpenStop
  <2>4. Cover(1, os[s]) = 0 /\ Cover(-1, os[s]) = 0
    BY <2>1 DEF Cover, OpenStop
  <2> QED
    BY <1>5, <1>7, <1>8, <1>9, <2>1, <2>2, <2>3, <2>4, EntryCovered
<1>16. Sound(new, after)
  BY <1>7, <1>9, <1>13, <1>14, <1>15 DEF Sound, G, Q
<1> QED
  BY <1>1, <1>16 DEF after

\* An order that is no entry is settled.
LEMMA SettleSound ==
    ASSUME NEW os, NEW b, Sound(os, b), NEW i \in Ids, os[i] # NoOrder, os[i].status = "open", os[i].kind # "entry",
           NEW o \in PaperOrders, o.kind # "entry", o.status # "open",
           NEW after \in Held, TrueBook(after), Covered(after, [os EXCEPT ![i] = o])
    PROVE  Sound([os EXCEPT ![i] = o], after)
<1> DEFINE new == [os EXCEPT ![i] = o]
<1>1. os \in Memories /\ DOMAIN os = Ids /\ o # NoOrder
  BY SoundTyped, PaperAssumption
<1>2. new \in Memories /\ new[i] = o /\ \A j \in Ids \ {i} : new[j] = os[j]
  BY <1>1 DEF Memories
<1>3. Covered(after, new)
  OBVIOUS
<1> HIDE DEF new
<1>4. Free(new) = Free(os) /\ RestingIn(new) = RestingIn(os)
  BY <1>1, <1>2 DEF Free, UsedBy, RestingIn
<1>5. \A j \in Ids : MirrorOf(new[j], known[j], orderRows[j])
  <2> SUFFICES ASSUME NEW j \in Ids PROVE MirrorOf(new[j], known[j], orderRows[j])
    OBVIOUS
  <2>1. MirrorOf(os[j], known[j], orderRows[j])
    BY DEF Sound
  <2>2. new[j] = os[j] \/ SettledAt(os, new, j)
    BY <1>1, <1>2 DEF SettledAt
  <2> QED
    BY <2>1, <2>2, MirrorKept
<1>6. Cardinality(Free(os)) >= 2 * Cardinality(RestingIn(os))
  BY DEF Sound
<1>7. Sound(new, after)
  BY <1>2, <1>3, <1>4, <1>5, <1>6 DEF Sound
<1> QED
  BY <1>7 DEF new

\* Nothing is to be covered.
LEMMA FlatCovered == ASSUME NEW b \in Held, b.qty = 0, NEW os PROVE Covered(b, os)
BY DEF Covered, Held

\* The open orders that are no entries are canceled once the position is flat.
LEMMA CancelSound ==
    ASSUME NEW os, NEW b, Sound(os, b), b.qty = 0
    PROVE  Sound(AllCanceled(os), b)
<1> DEFINE new == AllCanceled(os)
<1>1. /\ os \in Memories /\ DOMAIN os = Ids /\ b \in Held /\ TrueBook(b)
      /\ \A i \in Ids : os[i] # NoOrder => os[i] \in PaperOrders
  BY SoundTyped DEF Sound
<1>2. \A i \in Ids : \/ new[i] = os[i]
                     \/ /\ os[i] # NoOrder /\ os[i].kind # "entry" /\ os[i].status = "open"
                        /\ new[i] = [os[i] EXCEPT !.status = "canceled"]
  BY DEF AllCanceled
<1>3. \A o \in PaperOrders : LET c == [o EXCEPT !.status = "canceled"]
                             IN c \in PaperOrders /\ c.status = "canceled" /\ c.kind = o.kind /\ c # NoOrder
  <2> SUFFICES ASSUME NEW o \in PaperOrders
               PROVE  LET c == [o EXCEPT !.status = "canceled"]
                      IN c \in PaperOrders /\ c.status = "canceled" /\ c.kind = o.kind /\ c # NoOrder
    OBVIOUS
  <2>1. [o EXCEPT !.status = "canceled"] \in PaperOrders
    BY DEF PaperOrders, OrderStatuses
  <2> QED
    BY <2>1, PaperAssumption DEF PaperOrders
<1>4. \A i \in Ids : \/ new[i] = os[i]
                     \/ /\ SettledAt(os, new, i) /\ new[i] \in PaperOrders
                        /\ os[i].kind # "entry" /\ new[i].kind = os[i].kind
  <2> HIDE DEF new
  <2> SUFFICES ASSUME NEW i \in Ids, new[i] # os[i]
               PROVE  /\ SettledAt(os, new, i) /\ new[i] \in PaperOrders
                      /\ os[i].kind # "entry" /\ new[i].kind = os[i].kind
    OBVIOUS
  <2>1. /\ os[i] # NoOrder /\ os[i].kind # "entry" /\ os[i].status = "open" /\ os[i] \in PaperOrders
        /\ new[i] = [os[i] EXCEPT !.status = "canceled"]
    BY <1>1, <1>2
  <2>2. new[i] \in PaperOrders /\ new[i].status = "canceled" /\ new[i].kind = os[i].kind /\ new[i] # NoOrder
    BY <1>3, <2>1
  <2> QED
    BY <2>1, <2>2 DEF SettledAt
<1>5. new = [i \in Ids |-> new[i]]
  BY DEF AllCanceled
<1> HIDE DEF new
<1>6. new \in Memories
  <2>1. \A i \in Ids : new[i] \in PaperOrders \cup {NoOrder}
    BY <1>1, <1>4 DEF Memories
  <2> QED
    BY <1>5, <2>1 DEF Memories
<1>7. Free(new) = Free(os) /\ RestingIn(new) = RestingIn(os)
  BY <1>4 DEF Free, UsedBy, RestingIn, SettledAt
<1>8. \A j \in Ids : MirrorOf(new[j], known[j], orderRows[j])
  <2> SUFFICES ASSUME NEW j \in Ids PROVE MirrorOf(new[j], known[j], orderRows[j])
    OBVIOUS
  <2>1. MirrorOf(os[j], known[j], orderRows[j])
    BY DEF Sound
  <2> QED
    BY <1>4, <2>1, MirrorKept
<1>9. Cardinality(Free(os)) >= 2 * Cardinality(RestingIn(os))
  BY DEF Sound
<1>10. Sound(new, b)
  BY <1>1, <1>6, <1>7, <1>8, <1>9, FlatCovered DEF Sound
<1> QED
  BY <1>10 DEF new

\* A reduce-only fill: less of the position, never more and never beyond zero.
LEMMA Reduced ==
    ASSUME NEW b \in Held, NEW buy \in BOOLEAN, Closes(b, buy), NEW qty \in Nat \ {0}, qty <= Size(b),
           NEW price \in Int
    PROVE  /\ Booked(b, buy, qty, price).qty = (IF b.qty > 0 THEN b.qty - qty ELSE b.qty + qty)
           /\ b.qty > 0 => ~buy /\ Booked(b, buy, qty, price).qty \in 0..b.qty
           /\ b.qty < 0 => buy /\ Booked(b, buy, qty, price).qty \in b.qty..0
           /\ b.qty # 0
<1>1. b.qty \in Int
  BY DEF Held
<1>2. Booked(b, buy, qty, price).qty = b.qty + Sign(buy) * qty
  BY BookedTyped
<1>3. Sign(buy) * qty = IF buy THEN qty ELSE -qty
  BY DEF Sign
<1>4. /\ b.qty > 0 => ~buy /\ qty <= b.qty
      /\ b.qty < 0 => buy /\ qty <= -b.qty
      /\ b.qty # 0
  BY <1>1 DEF Closes, Size
<1> HIDE DEF Booked
<1> QED
  BY <1>1, <1>2, <1>3, <1>4

\* The stops that are left cover what is left.
LEMMA ReducedCovered ==
    ASSUME NEW os \in Memories, NEW new \in Memories, NEW b \in Held, NEW after \in Held, Covered(b, os),
           NEW i \in Ids, os[i] \in PaperOrders, os[i].status = "open", os[i].kind # "entry",
           new[i].status # "open", \A j \in Ids \ {i} : new[j] = os[j],
           Closes(b, os[i].buy), NEW qty \in Nat \ {0}, qty <= Size(b),
           after.qty = (IF b.qty > 0 THEN b.qty - qty ELSE b.qty + qty),
           os[i].kind = "stop" => qty = os[i].qty \/ qty = Size(b)
    PROVE  Covered(after, new)
<1>1. b.qty \in Int /\ after.qty \in Int /\ os[i] # NoOrder
  BY PaperAssumption DEF Held
<1>2. Units(1, os) \in Nat /\ Units(-1, os) \in Nat
  BY UnitsTyped
<1>3. \A side \in {1, -1}, j \in Ids \ {i} : Cover(side, new[j]) = Cover(side, os[j])
  OBVIOUS
<1>4. Cover(1, new[i]) = 0 /\ Cover(-1, new[i]) = 0
  BY DEF Cover, OpenStop
<1>5. /\ Units(1, new) = Units(1, os) - Cover(1, os[i]) + Cover(1, new[i])
      /\ Units(-1, new) = Units(-1, os) - Cover(-1, os[i]) + Cover(-1, new[i])
  BY <1>3, UnitsChanged
<1>6. os[i].buy \in BOOLEAN /\ os[i].qty \in Nat
  BY DEF PaperOrders
<1>7. CASE after.qty = 0
  BY <1>7, FlatCovered
<1>8. CASE after.qty # 0 /\ b.qty > 0
  <2>1. ~os[i].buy /\ Size(b) = b.qty /\ after.qty = b.qty - qty /\ after.qty > 0 /\ b.qty <= Units(-1, os)
    BY <1>1, <1>8 DEF Closes, Size, Covered
  <2>2. Cover(-1, os[i]) \in Nat /\ Cover(-1, os[i]) <= qty
    <3>1. Sign(os[i].buy) = -1
      BY <2>1 DEF Sign
    <3>2. CASE os[i].kind = "stop"
      <4>1. os[i].qty = qty
        BY <1>1, <1>8, <2>1, <3>2
      <4> QED
        BY <1>1, <1>6, <3>1, <4>1 DEF Cover
    <3>3. CASE os[i].kind # "stop"
      BY <3>3 DEF Cover, OpenStop
    <3> QED
      BY <3>2, <3>3
  <2>3. Units(-1, new) >= after.qty
    BY <1>1, <1>2, <1>4, <1>5, <2>1, <2>2
  <2> QED
    BY <1>1, <2>1, <2>3 DEF Covered
<1>9. CASE after.qty # 0 /\ b.qty < 0
  <2>1. os[i].buy /\ Size(b) = -b.qty /\ after.qty = b.qty + qty /\ after.qty < 0 /\ -b.qty <= Units(1, os)
    BY <1>1, <1>9 DEF Closes, Size, Covered
  <2>2. Cover(1, os[i]) \in Nat /\ Cover(1, os[i]) <= qty
    <3>1. Sign(os[i].buy) = 1
      BY <2>1 DEF Sign
    <3>2. CASE os[i].kind = "stop"
      <4>1. os[i].qty = qty
        BY <1>1, <1>9, <2>1, <3>2
      <4> QED
        BY <1>1, <1>6, <3>1, <4>1 DEF Cover
    <3>3. CASE os[i].kind # "stop"
      BY <3>3 DEF Cover, OpenStop
    <3> QED
      BY <3>2, <3>3
  <2>3. Units(1, new) >= -after.qty
    BY <1>1, <1>2, <1>4, <1>5, <2>1, <2>2
  <2> QED
    BY <1>1, <2>1, <2>3 DEF Covered
<1>10. b.qty # 0
  BY <1>1 DEF Closes
<1> QED
  BY <1>1, <1>7, <1>8, <1>9, <1>10

\* A reduce-only order that closes nothing is canceled: no stop of the position goes.
LEMMA DroppedCovered ==
    ASSUME NEW os \in Memories, NEW new \in Memories, NEW b \in Held, Covered(b, os),
           NEW i \in Ids, os[i] \in PaperOrders, new[i].status # "open",
           \A j \in Ids \ {i} : new[j] = os[j], ~Closes(b, os[i].buy)
    PROVE  Covered(b, new)
<1>1. b.qty \in Int /\ os[i].buy \in BOOLEAN
  BY DEF Held, PaperOrders
<1>2. Units(1, os) \in Nat /\ Units(-1, os) \in Nat
  BY UnitsTyped
<1>3. \A side \in {1, -1}, j \in Ids \ {i} : Cover(side, new[j]) = Cover(side, os[j])
  OBVIOUS
<1>4. Cover(1, new[i]) = 0 /\ Cover(-1, new[i]) = 0
  BY DEF Cover, OpenStop
<1>5. /\ Units(1, new) = Units(1, os) - Cover(1, os[i]) + Cover(1, new[i])
      /\ Units(-1, new) = Units(-1, os) - Cover(-1, os[i]) + Cover(-1, new[i])
  BY <1>3, UnitsChanged
<1>6. CASE b.qty > 0
  <2>1. os[i].buy
    BY <1>1, <1>6 DEF Closes
  <2>2. Cover(-1, os[i]) = 0
    BY <2>1 DEF Cover, Sign
  <2>3. Units(-1, new) = Units(-1, os)
    BY <1>2, <1>4, <1>5, <2>2
  <2> QED
    BY <1>1, <1>6, <2>3 DEF Covered
<1>7. CASE b.qty < 0
  <2>1. ~os[i].buy
    BY <1>1, <1>7 DEF Closes
  <2>2. Cover(1, os[i]) = 0
    BY <2>1 DEF Cover, Sign
  <2>3. Units(1, new) = Units(1, os)
    BY <1>2, <1>4, <1>5, <2>2
  <2> QED
    BY <1>1, <1>7, <2>3 DEF Covered
<1> QED
  BY <1>1, <1>6, <1>7, FlatCovered

-----------------------------------------------------------------------------
(* The invariant.                                                          *)

BridgeOK ==
    \/ bridge = Resting
    \/ \E pid \in Submissions \cup {0}, date \in 1..day : bridge = Persisting(pid, date)
    \/ \E mark \in Marks, todo \in SUBSET Ids, date \in 1..day :
          bridge = [pc |-> "tick", mark |-> mark, todo |-> todo, date |-> date]

MirrorsTyped ==
    /\ known \in [Ids -> OrderStatuses \cup {NoOrder}]
    /\ author \in [Ids -> Submissions \cup {0}]
    /\ kept = posRow

TablesTyped ==
    /\ orderRows \in [Ids -> PaperRows \cup {NoOrder}]
    /\ fillTable \in Seq(FillRecord)
    /\ posRow \in Held
    /\ stateRow \in [equity : Int, peak : Int, daily : Int, date : Nat]

DatesTyped == day \in Nat /\ late \in 0..day /\ dayPnl \in Int /\ overtaken \in BOOLEAN

\* What a restart would start from.
RowsSound ==
    /\ TrueBook(posRow) /\ Covered(posRow, RowOrders)
    /\ Cardinality(Free(RowOrders)) >= 2 * Cardinality(RestingIn(RowOrders))

FilledRow(i) == orderRows[i] # NoOrder /\ orderRows[i].o.status = "filled"

OrdersOf(rows) == {rows[n].order : n \in DOMAIN rows}
RowsOnce(rows) == \A m, n \in DOMAIN rows : rows[m].order = rows[n].order => m = n
FillsMatch     == RowsOnce(fillTable) /\ OrdersOf(fillTable) = {i \in Ids : FilledRow(i)}

DayKept ==
    /\ stateRow.date <= day
    /\ ~overtaken => /\ stateRow.date = day => stateRow.daily = dayPnl
                     /\ stateRow.date < day => dayPnl = 0

PaperInv ==
    /\ BridgeOK /\ MirrorsTyped /\ TablesTyped /\ DatesTyped
    /\ Sound(oms, position) /\ RowsSound
    /\ FillsMatch /\ EquityIsRealized /\ DayKept

\* Tables and mirrors stay: what is sound in memory is all there is to show.
LEMMA MemoryStep ==
    ASSUME PaperInv, UNCHANGED <<known, author, kept, paperTables, day, overtaken, dayPnl>>,
           late' \in 0..day, BridgeOK', Sound(oms', position')
    PROVE  PaperInv'
<1>1. UNCHANGED <<known, author, kept, orderRows, fillTable, posRow, stateRow, day, overtaken, dayPnl>>
  BY DEF paperTables
<1>2. Sound(oms, position)'
  BY <1>1 DEF Sound, Memories, Held, TrueBook, Covered, Units, Cover, Free, UsedBy, RestingIn, MirrorOf
<1>3. RowsSound'
  BY <1>1 DEF PaperInv, RowsSound, RowOrders, TrueBook, Covered, Units, Cover, Free, UsedBy, RestingIn
<1>4. MirrorsTyped' /\ TablesTyped' /\ DatesTyped'
  BY <1>1 DEF PaperInv, MirrorsTyped, TablesTyped, DatesTyped
<1>5. FillsMatch' /\ EquityIsRealized' /\ DayKept'
  BY <1>1 DEF PaperInv, FillsMatch, FilledRow, EquityIsRealized, DayKept
<1> QED
  BY <1>2, <1>3, <1>4, <1>5 DEF PaperInv

\* The room that a submission asks for.
LEMMA Rooms == ASSUME NEW n, Room(n)
               PROVE Cardinality(Free(oms)) >= n + 2 * Cardinality(RestingIn(oms)) /\ UsedIds = UsedBy(oms)
<1>1. UsedIds = UsedBy(oms)
  BY DEF UsedIds, UsedBy
<1>2. OpenOf("entry") = RestingIn(oms)
  BY DEF OpenOf, IsOpen, RestingIn
<1> QED
  BY <1>1, <1>2 DEF Room, Free

\* An operation takes its date and leaves the others.
LEMMA StampedIs == ASSUME PaperInv, NEW date, Stamped(date)
                   PROVE  late' \in 0..day /\ UNCHANGED <<day, overtaken, dayPnl>>
BY DEF PaperInv, DatesTyped, Stamped

\* What a submission leaves alone.
LEMMA StartsIs ==
    ASSUME PaperInv, NEW pid \in Submissions, NEW n, Starts(pid, n)
    PROVE  /\ UNCHANGED <<known, author, kept, paperTables, day, overtaken, dayPnl>>
           /\ late' \in 0..day /\ BridgeOK'
           /\ Cardinality(Free(oms)) >= n + 2 * Cardinality(RestingIn(oms)) /\ UsedIds = UsedBy(oms)
<1>1. PICK date \in 1..day : Stamped(date) /\ bridge' = Persisting(pid, date)
  BY DEF Starts
<1>2. late' \in 0..day /\ UNCHANGED <<day, overtaken, dayPnl>>
  BY <1>1, StampedIs
<1>3. BridgeOK'
  BY <1>1, <1>2 DEF BridgeOK
<1> QED
  BY <1>2, <1>3, Rooms DEF Starts

-----------------------------------------------------------------------------
(* The steps in memory.                                                    *)

\* The order of a proposal.
LEMMA EntryOrder ==
    ASSUME NEW e \in Entries
    PROVE  LET entry == [kind |-> "entry", buy |-> e.buy, qty |-> e.qty, at |-> e.at,
                         stop |-> e.stop, take |-> e.take, status |-> "open", price |-> 0]
           IN /\ entry \in PaperOrders /\ entry.kind = "entry"
              /\ e.buy \in BOOLEAN /\ e.qty \in Nat \ {0} /\ e.stop \in Nat /\ e.take \in Nat /\ e.at \in Nat
<1>1. e.buy \in BOOLEAN /\ e.qty \in Nat \ {0} /\ e.stop \in Nat /\ e.take \in Nat /\ e.at \in Nat
  BY PaperAssumption DEF IsEntry
<1> QED
  BY <1>1 DEF PaperOrders, OrderKinds, OrderStatuses

\* bookFill keeps an order an order.
LEMMA FilledOrder ==
    ASSUME NEW o \in PaperOrders, NEW price \in Int
    PROVE  /\ FilledAt(o, price) \in PaperOrders
           /\ FilledAt(o, price).status = "filled" /\ FilledAt(o, price).kind = o.kind
BY DEF FilledAt, PaperOrders, OrderStatuses

\* The price of a market fill.
LEMMA SlippedTyped == ASSUME NEW buy \in BOOLEAN, NEW mark \in Marks \cup {0} PROVE Slipped(buy, mark) \in Int
<1>1. mark \in Int /\ Slip \in Int
  BY PaperAssumption
<1>2. Sign(buy) * Slip \in Int
  BY <1>1 DEF Sign
<1> QED
  BY <1>1, <1>2 DEF Slipped

\* SubmitApproved: an entry fills with its stops, rests, or leaves the memory alone.
LEMMA SubmitEntryStep ==
    ASSUME PaperInv, NEW e \in Entries, NEW pid \in Submissions, NEW mark \in Marks \cup {0},
           SubmitEntry(e, pid, mark)
    PROVE  PaperInv'
<1> DEFINE id     == FreeId(UsedIds)
           entry  == [kind |-> "entry", buy |-> e.buy, qty |-> e.qty, at |-> e.at,
                      stop |-> e.stop, take |-> e.take, status |-> "open", price |-> 0]
           price  == IF e.at = 0 THEN Slipped(e.buy, mark) ELSE e.at
           filled == [oms EXCEPT ![id] = FilledAt(entry, price)]
<1>1. Starts(pid, 3)
  BY DEF SubmitEntry
<1>2. /\ UNCHANGED <<known, author, kept, paperTables, day, overtaken, dayPnl>>
      /\ late' \in 0..day /\ BridgeOK'
      /\ Cardinality(Free(oms)) >= 3 + 2 * Cardinality(RestingIn(oms)) /\ UsedIds = UsedBy(oms)
  BY <1>1, StartsIs
<1>3. Sound(oms, position)
  BY DEF PaperInv
<1>4. id \in Free(oms)
  <2>1. Cardinality(Free(oms)) >= 1
    BY <1>2, FreeFinite
  <2> QED
    BY <1>2, <2>1, FreeIdOf
<1>5. /\ entry \in PaperOrders /\ entry.kind = "entry"
      /\ e.buy \in BOOLEAN /\ e.qty \in Nat \ {0} /\ e.stop \in Nat /\ e.take \in Nat /\ e.at \in Nat
  BY EntryOrder
<1>6. price \in Int
  BY <1>5, SlippedTyped
<1>7. \/ /\ position' = Booked(position, e.buy, e.qty, price)
         /\ oms' = WithProtectives(filled, e)
      \/ oms' = [oms EXCEPT ![id] = entry] /\ position' = position
      \/ oms' = oms /\ position' = position
  BY DEF SubmitEntry
<1> HIDE DEF id, entry, price
<1>8. CASE oms' = [oms EXCEPT ![id] = entry] /\ position' = position
  <2>1. Sound([oms EXCEPT ![id] = entry], position)
    BY <1>2, <1>3, <1>4, <1>5, PlaceSound
  <2>2. Sound(oms', position')
    BY <1>8, <2>1
  <2> QED
    BY <1>2, <2>2, MemoryStep
<1>9. CASE oms' = oms /\ position' = position
  BY <1>2, <1>3, <1>9, MemoryStep
<1>10. CASE position' = Booked(position, e.buy, e.qty, price) /\ oms' = WithProtectives(filled, e)
  <2>1. /\ FilledAt(entry, price) \in PaperOrders
        /\ FilledAt(entry, price).status = "filled" /\ FilledAt(entry, price).kind = "entry"
    BY <1>5, <1>6, FilledOrder
  <2> DEFINE o == FilledAt(entry, price)
  <2> HIDE DEF o
  <2>2. Sound([oms EXCEPT ![id] = o], position)
        /\ Cardinality(Free([oms EXCEPT ![id] = o])) >= 3 - 1 + 2 * Cardinality(RestingIn([oms EXCEPT ![id] = o]))
    <3>1. o \in PaperOrders /\ o.kind = "entry" /\ o.status = "filled"
      BY <2>1 DEF o
    <3>2. 3 \in Nat /\ 3 >= 1 /\ o.kind # "stop" /\ ~(o.kind = "entry" /\ o.status = "open")
      BY <3>1
    <3> QED
      BY <1>2, <1>3, <1>4, <3>1, <3>2, PlaceSound
  <2> DEFINE os == [oms EXCEPT ![id] = o]
  <2>3. Sound(os, position) /\ Cardinality(Free(os)) >= 2 + 2 * Cardinality(RestingIn(os)) /\ os = filled
    BY <2>2 DEF o
  <2> HIDE DEF os
  <2>4. Sound(WithProtectives(os, e), Booked(position, e.buy, e.qty, price))
    BY <1>5, <1>6, <2>3, ProtectSound
  <2>5. Sound(oms', position')
    BY <1>10, <2>3, <2>4
  <2> QED
    BY <1>2, <2>5, MemoryStep
<1> QED
  BY <1>7, <1>8, <1>9, <1>10

\* Another position, covered by the same orders.
LEMMA Rebooked ==
    ASSUME NEW os, NEW b, Sound(os, b), NEW after \in Held, TrueBook(after), Covered(after, os)
    PROVE  Sound(os, after)
BY DEF Sound

\* flattenLocked: a queued exit leaves the stops, a fill leaves no position.
LEMMA FlattenStep ==
    ASSUME PaperInv, NEW pid \in Submissions, NEW mark \in Marks \cup {0}, Flatten(pid, mark)
    PROVE  PaperInv'
<1> DEFINE buy   == position.qty < 0
           size  == Size(position)
           exit  == NewOrder("exit", buy, size, 0)
           id    == FreeId(UsedIds)
           price == Slipped(buy, mark)
<1>1. position.qty # 0 /\ Starts(pid, 1)
  BY DEF Flatten
<1>2. /\ UNCHANGED <<known, author, kept, paperTables, day, overtaken, dayPnl>>
      /\ late' \in 0..day /\ BridgeOK'
      /\ Cardinality(Free(oms)) >= 1 + 2 * Cardinality(RestingIn(oms)) /\ UsedIds = UsedBy(oms)
  BY <1>1, StartsIs
<1>3. Sound(oms, position) /\ position \in Held /\ TrueBook(position) /\ position.qty \in Int
  BY DEF PaperInv, Sound, Held
<1>4. id \in Free(oms)
  <2>1. Cardinality(Free(oms)) >= 1
    BY <1>2, FreeFinite
  <2> QED
    BY <1>2, <2>1, FreeIdOf
<1>5. buy \in BOOLEAN /\ size \in Nat \ {0}
  BY <1>1, <1>3, SizeIs
<1>6. Closes(position, buy)
  BY <1>1, <1>3 DEF Closes
<1>7. exit \in PaperOrders /\ exit.kind = "exit"
  BY <1>5 DEF NewOrder, PaperOrders, OrderKinds, OrderStatuses
<1>8. price \in Int
  BY <1>5, SlippedTyped
<1>9. \/ oms' = [oms EXCEPT ![id] = exit] /\ position' = position
      \/ /\ position' = Booked(position, buy, size, price)
         /\ oms' = AllCanceled([oms EXCEPT ![id] = FilledAt(exit, price)])
  BY DEF Flatten
<1> HIDE DEF id, exit, price, buy, size
<1>10. CASE oms' = [oms EXCEPT ![id] = exit] /\ position' = position
  <2>1. 1 \in Nat /\ 1 >= 1 /\ exit.kind # "stop" /\ ~(exit.kind = "entry" /\ exit.status = "open")
    BY <1>7
  <2>2. Sound([oms EXCEPT ![id] = exit], position)
    BY <1>2, <1>3, <1>4, <1>7, <2>1, PlaceSound
  <2>3. Sound(oms', position')
    BY <1>10, <2>2
  <2> QED
    BY <1>2, <2>3, MemoryStep
<1>11. CASE /\ position' = Booked(position, buy, size, price)
            /\ oms' = AllCanceled([oms EXCEPT ![id] = FilledAt(exit, price)])
  <2> DEFINE o == FilledAt(exit, price)
             os == [oms EXCEPT ![id] = o]
             after == Booked(position, buy, size, price)
  <2>1. o \in PaperOrders /\ o.kind = "exit"
    BY <1>7, <1>8, FilledOrder
  <2>2. after \in Held /\ TrueBook(after)
    BY <1>3, <1>5, <1>8, BookedTyped, BookedTrue
  <2>3. after.qty = 0
    <3>1. size <= Size(position) /\ size = Size(position) /\ size \in Nat
      BY <1>5 DEF size
    <3>2. after.qty = (IF position.qty > 0 THEN position.qty - size ELSE position.qty + size)
      BY <1>3, <1>5, <1>6, <1>8, <3>1, Reduced
    <3> HIDE DEF after
    <3> QED
      BY <1>3, <3>1, <3>2 DEF Size
  <2> HIDE DEF o, after
  <2>4. 1 \in Nat /\ 1 >= 1 /\ o.kind # "stop" /\ ~(o.kind = "entry" /\ o.status = "open")
    BY <2>1
  <2>5. Sound(os, position)
    BY <1>2, <1>3, <1>4, <2>1, <2>4, PlaceSound
  <2> HIDE DEF os
  <2>6. Sound(os, after)
    BY <2>2, <2>3, <2>5, FlatCovered, Rebooked
  <2>7. Sound(AllCanceled(os), after)
    BY <2>3, <2>6, CancelSound
  <2>8. Sound(oms', position')
    BY <1>11, <2>7 DEF os, o, after
  <2> QED
    BY <1>2, <2>8, MemoryStep
<1> QED
  BY <1>9, <1>10, <1>11

\* CancelOpenEntries: a resting entry covers nothing.
LEMMA CancelOpenEntriesStep ==
    ASSUME PaperInv, CancelOpenEntries
    PROVE  PaperInv'
<1> DEFINE new == [i \in Ids |-> IF i \in OpenOf("entry") THEN [oms[i] EXCEPT !.status = "canceled"] ELSE oms[i]]
<1>1. /\ oms' = new /\ position' = position
      /\ UNCHANGED <<known, author, kept, paperTables>>
  BY DEF CancelOpenEntries
<1>2. PICK date \in 1..day : Stamped(date) /\ bridge' = Persisting(0, date)
  BY DEF CancelOpenEntries
<1>3. late' \in 0..day /\ UNCHANGED <<day, overtaken, dayPnl>>
  BY <1>2, StampedIs
<1>4. BridgeOK'
  BY <1>2, <1>3 DEF BridgeOK
<1>5. /\ Sound(oms, position) /\ oms \in Memories
      /\ \A i \in Ids : oms[i] # NoOrder => oms[i] \in PaperOrders
  BY SoundTyped DEF PaperInv
<1>6. \A i \in Ids : \/ i \notin RestingIn(oms) /\ new[i] = oms[i]
                     \/ /\ i \in RestingIn(oms) /\ oms[i] \in PaperOrders /\ new[i] = [oms[i] EXCEPT !.status = "canceled"]
                        /\ oms[i] # NoOrder /\ oms[i].status = "open" /\ oms[i].kind = "entry"
  BY <1>5 DEF OpenOf, IsOpen, RestingIn
<1>7. \A i \in Ids : \/ i \notin RestingIn(oms) /\ new[i] = oms[i]
                     \/ /\ new[i] \in PaperOrders /\ new[i] # NoOrder /\ new[i].status = "canceled" /\ new[i].kind = "entry"
                        /\ oms[i] # NoOrder /\ oms[i].status = "open" /\ oms[i].kind = "entry"
  <2> HIDE DEF new
  <2> SUFFICES ASSUME NEW i \in Ids, ~(i \notin RestingIn(oms) /\ new[i] = oms[i])
               PROVE  /\ new[i] \in PaperOrders /\ new[i] # NoOrder /\ new[i].status = "canceled" /\ new[i].kind = "entry"
                      /\ oms[i] # NoOrder /\ oms[i].status = "open" /\ oms[i].kind = "entry"
    OBVIOUS
  <2>1. /\ oms[i] \in PaperOrders /\ new[i] = [oms[i] EXCEPT !.status = "canceled"]
        /\ oms[i] # NoOrder /\ oms[i].status = "open" /\ oms[i].kind = "entry"
    BY <1>6
  <2>2. new[i] \in PaperOrders /\ new[i].status = "canceled" /\ new[i].kind = "entry"
    BY <2>1 DEF PaperOrders, OrderStatuses
  <2> QED
    BY <2>1, <2>2, PaperAssumption
<1>8. new = [i \in Ids |-> new[i]]
  OBVIOUS
<1> HIDE DEF new
<1>9. new \in Memories
  <2>1. \A i \in Ids : new[i] \in PaperOrders \cup {NoOrder}
    BY <1>5, <1>7 DEF Memories
  <2> QED
    BY <1>8, <2>1 DEF Memories
<1>10. RestingIn(new) = {}
  BY <1>7 DEF RestingIn
<1>11. Cardinality(Free(new)) >= 2 * Cardinality(RestingIn(new))
  BY <1>10, FreeFinite, FS_EmptySet
<1>12. \A j \in Ids : MirrorOf(new[j], known[j], orderRows[j])
  <2> SUFFICES ASSUME NEW j \in Ids PROVE MirrorOf(new[j], known[j], orderRows[j])
    OBVIOUS
  <2>1. MirrorOf(oms[j], known[j], orderRows[j])
    BY <1>5 DEF Sound
  <2>2. new[j] = oms[j] \/ SettledAt(oms, new, j)
    BY <1>7 DEF SettledAt
  <2> QED
    BY <2>1, <2>2, MirrorKept
<1>13. Covered(position, new)
  <2>1. Covered(position, oms)
    BY <1>5 DEF Sound
  <2>2. \A side \in {1, -1}, j \in Ids : Cover(side, new[j]) = Cover(side, oms[j])
    BY <1>7 DEF Cover, OpenStop
  <2> QED
    BY <2>1, <2>2, CoveredSame
<1>14. Sound(new, position)
  BY <1>5, <1>9, <1>11, <1>12, <1>13 DEF Sound
<1>15. Sound(oms', position')
  BY <1>1, <1>14
<1> QED
  BY <1>1, <1>3, <1>4, <1>15, MemoryStep

\* A sweep goes on with what is left of it.
LEMMA AfterTickOK ==
    ASSUME NEW todo \in SUBSET Ids, NEW mark \in Marks, NEW date \in 1..day,
           bridge' = AfterTick(todo, mark, date), day' = day
    PROVE  BridgeOK'
<1>1. CASE todo = {}
  BY <1>1 DEF AfterTick, BridgeOK
<1>2. CASE todo # {}
  BY <1>2 DEF AfterTick, BridgeOK
<1> QED
  BY <1>1, <1>2

\* ProcessTick takes its orders.
LEMMA StartSweepStep ==
    ASSUME PaperInv, NEW mark \in Marks, StartSweep(mark)
    PROVE  PaperInv'
<1> DEFINE todo == {i \in Ids : IsOpen(i) /\ Triggered(oms[i], mark)}
<1>1. PICK date \in 1..day : Stamped(date) /\ bridge' = AfterTick(todo, mark, date)
  BY DEF StartSweep
<1>2. late' \in 0..day /\ UNCHANGED <<day, overtaken, dayPnl>>
  BY <1>1, StampedIs
<1>3. todo \in SUBSET Ids
  OBVIOUS
<1> HIDE DEF todo
<1>4. BridgeOK'
  BY <1>1, <1>2, <1>3, AfterTickOK
<1>5. UNCHANGED <<known, author, kept, paperTables>> /\ oms' = oms /\ position' = position
  BY DEF StartSweep, bridgeMemory
<1>6. Sound(oms', position')
  BY <1>5 DEF PaperInv
<1> QED
  BY <1>2, <1>4, <1>5, <1>6, MemoryStep

\* fillProtectiveLocked: sound, and the position shrinks or goes.
LEMMA FillProtectiveIs ==
    ASSUME NEW i \in Ids, IsOpen(i), oms[i].kind # "entry", Sound(oms, position), NEW mark \in Marks,
           FillProtective(i, mark)
    PROVE  /\ Sound(oms', position')
           /\ IF position.qty >= 0 THEN position'.qty \in 0..position.qty ELSE position'.qty \in position.qty..0
<1> DEFINE o     == oms[i]
           qty   == Reducing(o)
           price == FillPrice(o, mark)
           after == Booked(position, o.buy, qty, price)
           sold  == FilledAt([o EXCEPT !.qty = qty], price)
           done1 == [oms EXCEPT ![i] = sold]
<1>1. /\ oms \in Memories /\ DOMAIN oms = Ids /\ position \in Held /\ TrueBook(position) /\ Covered(position, oms)
      /\ o \in PaperOrders /\ o # NoOrder /\ o.status = "open" /\ o.kind # "entry"
      /\ o.buy \in BOOLEAN /\ o.qty \in Nat \ {0} /\ position.qty \in Int
  <2>1. /\ oms \in Memories /\ DOMAIN oms = Ids /\ position \in Held /\ TrueBook(position) /\ Covered(position, oms)
        /\ o \in PaperOrders /\ o # NoOrder /\ o.status = "open" /\ o.kind # "entry"
    BY SoundTyped DEF Sound, IsOpen
  <2> QED
    BY <2>1 DEF PaperOrders, Held
<1>2. CASE ~Closes(position, o.buy)
  <2> DEFINE c == [o EXCEPT !.status = "canceled"]
             new == [oms EXCEPT ![i] = c]
  <2>1. oms' = [oms EXCEPT ![i].status = "canceled"] /\ position' = position
    BY <1>2 DEF FillProtective
  <2>2. c \in PaperOrders /\ c.kind # "entry" /\ c.status = "canceled"
    <3> HIDE DEF o
    <3> QED
      BY <1>1 DEF PaperOrders, OrderStatuses
  <2>3. oms' = new
    BY <2>1
  <2> HIDE DEF c
  <2>4. new \in Memories /\ new[i] = c /\ \A j \in Ids \ {i} : new[j] = oms[j]
    BY <1>1, <2>2 DEF Memories
  <2>5. Covered(position, new)
    <3> HIDE DEF new
    <3> QED
      BY <1>1, <1>2, <2>2, <2>4, DroppedCovered
  <2>6. Sound(new, position)
    BY <1>1, <2>2, <2>5, SettleSound
  <2>7. position.qty \in Int /\ position'.qty = position.qty
    BY <1>1, <2>1
  <2>8. IF position.qty >= 0 THEN position'.qty \in 0..position.qty ELSE position'.qty \in position.qty..0
    BY <2>7
  <2> HIDE DEF new
  <2>9. Sound(oms', position')
    BY <2>1, <2>3, <2>6
  <2> QED
    BY <2>8, <2>9
<1>3. CASE Closes(position, o.buy)
  <2>1. /\ position' = after
        /\ oms' = IF after.qty = 0 THEN AllCanceled(done1) ELSE done1
    BY <1>3 DEF FillProtective
  <2>2. /\ qty \in Nat \ {0} /\ qty <= Size(position)
        /\ o.kind = "stop" => qty = o.qty \/ qty = Size(position)
    <3>1. Size(position) \in Nat \ {0}
      BY <1>1, <1>3 DEF Closes, Size
    <3> QED
      BY <1>1, <3>1 DEF Reducing, Least
  <2>3. price \in Int
    <3>1. mark \in Marks \cup {0}
      OBVIOUS
    <3>2. Slipped(o.buy, mark) \in Int
      BY <1>1, <3>1, SlippedTyped
    <3>3. o.at \in Int
      BY <1>1 DEF PaperOrders
    <3> QED
      BY <3>2, <3>3 DEF FillPrice
  <2> HIDE DEF price, qty, o
  <2>4. sold \in PaperOrders /\ sold.status = "filled" /\ sold.kind # "entry"
    <3>1. [o EXCEPT !.qty = qty] \in PaperOrders /\ [o EXCEPT !.qty = qty].kind # "entry"
      BY <1>1, <2>2 DEF PaperOrders
    <3> QED
      BY <2>3, <3>1, FilledOrder
  <2>5. after \in Held /\ TrueBook(after)
    BY <1>1, <2>2, <2>3, BookedTyped, BookedTrue
  <2>6. /\ after.qty = (IF position.qty > 0 THEN position.qty - qty ELSE position.qty + qty)
        /\ position.qty > 0 => after.qty \in 0..position.qty
        /\ position.qty < 0 => after.qty \in position.qty..0
        /\ position.qty # 0
    BY <1>1, <1>3, <2>2, <2>3, Reduced
  <2> HIDE DEF sold, after
  <2>7. done1 \in Memories /\ done1[i] = sold /\ \A j \in Ids \ {i} : done1[j] = oms[j]
    BY <1>1, <2>4 DEF Memories
  <2>8. Covered(after, done1)
    <3> HIDE DEF done1
    <3>1. oms[i] = o
      BY DEF o
    <3>2. done1[i].status # "open"
      BY <2>4, <2>7
    <3> QED
      BY <1>1, <1>3, <2>2, <2>5, <2>6, <2>7, <3>1, <3>2, ReducedCovered
  <2>9. Sound(done1, after)
    BY <1>1, <2>4, <2>5, <2>8, SettleSound DEF o
  <2> HIDE DEF done1
  <2>10. Sound(oms', position')
    <3>1. CASE after.qty = 0
      BY <2>1, <2>9, <3>1, CancelSound
    <3>2. CASE after.qty # 0
      BY <2>1, <2>9, <3>2
    <3> QED
      BY <3>1, <3>2
  <2> QED
    BY <1>1, <2>1, <2>6, <2>10
<1> QED
  BY <1>2, <1>3

\* A resting limit fills with its stops.
LEMMA FillRestingIs ==
    ASSUME NEW i \in Ids, IsOpen(i), oms[i].kind = "entry", Sound(oms, position), FillResting(i)
    PROVE  Sound(oms', position')
<1> DEFINE o  == oms[i]
           f  == FilledAt(o, o.at)
           os == [oms EXCEPT ![i] = f]
<1>1. o \in PaperOrders /\ i \in RestingIn(oms)
  BY SoundTyped DEF IsOpen, RestingIn
<1>2. /\ o.kind = "entry" /\ o.buy \in BOOLEAN /\ o.qty \in Nat \ {0} /\ o.at \in Int
      /\ o.stop \in Nat /\ o.take \in Nat
  BY <1>1 DEF PaperOrders
<1>3. position' = Booked(position, o.buy, o.qty, o.at) /\ oms' = WithProtectives(os, o)
  BY DEF FillResting
<1> HIDE DEF o
<1>4. f \in PaperOrders /\ f.kind = "entry" /\ f.status # "open"
  BY <1>1, <1>2, FilledOrder
<1> HIDE DEF f
<1>5. Sound(os, position) /\ Cardinality(Free(os)) >= 2 + 2 * Cardinality(RestingIn(os))
  BY <1>1, <1>4, SettleEntrySound
<1> HIDE DEF os
<1>6. Sound(WithProtectives(os, o), Booked(position, o.buy, o.qty, o.at))
  BY <1>2, <1>5, ProtectSound
<1> QED
  BY <1>3, <1>6

\* One order of a sweep.
LEMMA SweepOrderIs ==
    ASSUME PaperInv, NEW i \in Ids, SweepOrder(i)
    PROVE  /\ PaperInv'
           /\ oms[i].kind # "entry" =>
                 IF position.qty >= 0 THEN position'.qty \in 0..position.qty ELSE position'.qty \in position.qty..0
<1>1. /\ bridge.pc = "tick" /\ i \in bridge.todo
      /\ bridge' = AfterTick(bridge.todo \ {i}, bridge.mark, bridge.date)
      /\ UNCHANGED <<known, author, kept, paperTables, dates, paperFaults, reloads, given>>
      /\ IF ~IsOpen(i) THEN UNCHANGED <<oms, position>>
         ELSE IF oms[i].kind = "entry" THEN FillResting(i) ELSE FillProtective(i, bridge.mark)
  BY DEF SweepOrder
<1>2. bridge.mark \in Marks /\ bridge.todo \in SUBSET Ids /\ bridge.date \in 1..day
  <2>1. BridgeOK
    BY DEF PaperInv
  <2>2. bridge # Resting /\ \A pid, date : bridge # Persisting(pid, date)
    BY <1>1 DEF Resting, Persisting
  <2> QED
    BY <2>1, <2>2 DEF BridgeOK
<1>3. UNCHANGED <<day, late, overtaken, dayPnl>>
  BY <1>1 DEF dates
<1>4. BridgeOK'
  <2>1. bridge.todo \ {i} \in SUBSET Ids
    BY <1>2
  <2> QED
    BY <1>1, <1>2, <1>3, <2>1, AfterTickOK
<1>5. Sound(oms, position) /\ late \in 0..day /\ position.qty \in Int
  BY DEF PaperInv, DatesTyped, Sound, Held
<1>6. /\ Sound(oms', position')
      /\ oms[i].kind # "entry" =>
            IF position.qty >= 0 THEN position'.qty \in 0..position.qty ELSE position'.qty \in position.qty..0
  <2>1. CASE ~IsOpen(i)
    <3>1. oms' = oms /\ position' = position
      BY <1>1, <2>1
    <3> QED
      BY <1>5, <3>1
  <2>2. CASE IsOpen(i) /\ oms[i].kind = "entry"
    BY <1>1, <1>5, <2>2, FillRestingIs
  <2>3. CASE IsOpen(i) /\ oms[i].kind # "entry"
    BY <1>1, <1>2, <1>5, <2>3, FillProtectiveIs
  <2> QED
    BY <2>1, <2>2, <2>3
<1>7. PaperInv'
  BY <1>1, <1>3, <1>4, <1>5, <1>6, MemoryStep
<1> QED
  BY <1>6, <1>7

-----------------------------------------------------------------------------
(* The transaction.                                                        *)

\* SetToSeqs: every element once.
LEMMA Listing ==
    ASSUME NEW S, IsFiniteSet(S), NEW s \in SetToSeqs(S)
    PROVE  /\ s \in Seq(S)
           /\ \A m, n \in DOMAIN s : s[m] = s[n] => m = n
           /\ \A x \in S : \E n \in DOMAIN s : s[n] = x
<1> DEFINE D == 1..Cardinality(S)
<1>1. Cardinality(S) \in Nat
  BY FS_CardinalityType
<1>2. s \in [D -> S] /\ \A m, n \in D : m # n => s[m] # s[n]
  BY DEF SetToSeqs
<1>3. s \in Seq(S) /\ DOMAIN s = D
  BY <1>1, <1>2
<1>4. IsFiniteSet(D) /\ Cardinality(D) = Cardinality(S)
  BY <1>1, FS_Interval
<1>5. ASSUME NEW x \in S, \A n \in D : s[n] # x PROVE FALSE
  <2>1. IsFiniteSet(S \ {x}) /\ Cardinality(S \ {x}) = Cardinality(S) - 1
    BY FS_RemoveElement
  <2>2. s \in [D -> S \ {x}]
    BY <1>2, <1>5
  <2>3. Cardinality(S \ {x}) < Cardinality(D)
    BY <1>1, <1>4, <2>1
  <2> HIDE DEF D
  <2>4. \E m, n \in D : m # n /\ s[m] = s[n]
    BY <1>4, <2>1, <2>2, <2>3, FS_PigeonHole
  <2> QED
    BY <1>2, <2>4
<1> QED
  BY <1>2, <1>3, <1>5

\* Rows are added for orders that have none.
LEMMA FillsAppended ==
    ASSUME NEW t \in Seq(FillRecord), NEW u \in Seq(FillRecord), NEW w, w = t \o u,
           RowsOnce(t), RowsOnce(u), OrdersOf(t) \cap OrdersOf(u) = {}
    PROVE  /\ w \in Seq(FillRecord) /\ RowsOnce(w)
           /\ OrdersOf(w) = OrdersOf(t) \cup OrdersOf(u)
<1>1. /\ w \in Seq(FillRecord) /\ Len(w) = Len(t) + Len(u)
      /\ Len(t) \in Nat /\ Len(u) \in Nat
      /\ DOMAIN t = 1..Len(t) /\ DOMAIN u = 1..Len(u) /\ DOMAIN w = 1..Len(w)
  OBVIOUS
<1>2. \A n \in 1..Len(t) : n \in DOMAIN w /\ w[n] = t[n]
  BY <1>1
<1>3. \A n \in 1..Len(u) : Len(t) + n \in DOMAIN w /\ w[Len(t) + n] = u[n]
  BY <1>1
<1>4. \A n \in DOMAIN w : \/ n \in DOMAIN t /\ w[n] = t[n]
                          \/ n - Len(t) \in DOMAIN u /\ w[n] = u[n - Len(t)]
  <2> SUFFICES ASSUME NEW n \in DOMAIN w
               PROVE  \/ n \in DOMAIN t /\ w[n] = t[n]
                      \/ n - Len(t) \in DOMAIN u /\ w[n] = u[n - Len(t)]
    OBVIOUS
  <2>1. CASE n <= Len(t)
    BY <1>1, <1>2, <2>1
  <2>2. CASE n > Len(t)
    <3>1. n - Len(t) \in 1..Len(u) /\ Len(t) + (n - Len(t)) = n
      BY <1>1, <2>2
    <3> QED
      BY <1>1, <1>3, <3>1
  <2> QED
    BY <1>1, <2>1, <2>2
<1>5. ASSUME NEW m \in DOMAIN w, NEW n \in DOMAIN w, w[m].order = w[n].order PROVE m = n
  <2>1. m \in Int /\ n \in Int /\ Len(t) \in Int
    BY <1>1
  <2>2. CASE m \in DOMAIN t /\ w[m] = t[m]
    <3>0. w[m].order \in OrdersOf(t)
      BY <2>2 DEF OrdersOf
    <3>1. n \in DOMAIN t /\ w[n] = t[n]
      <4>1. CASE n - Len(t) \in DOMAIN u /\ w[n] = u[n - Len(t)]
        <5>1. w[n].order \in OrdersOf(u)
          BY <4>1 DEF OrdersOf
        <5> QED
          BY <1>5, <3>0, <5>1
      <4> QED
        BY <1>4, <4>1
    <3> QED
      BY <1>5, <2>2, <3>1 DEF RowsOnce
  <2>3. CASE m - Len(t) \in DOMAIN u /\ w[m] = u[m - Len(t)]
    <3>0. w[m].order \in OrdersOf(u)
      BY <2>3 DEF OrdersOf
    <3>1. n - Len(t) \in DOMAIN u /\ w[n] = u[n - Len(t)]
      BY <1>4, <1>5, <3>0 DEF OrdersOf
    <3>2. m - Len(t) = n - Len(t)
      BY <1>5, <2>3, <3>1 DEF RowsOnce
    <3> QED
      BY <2>1, <3>2
  <2> QED
    BY <1>4, <2>2, <2>3
<1>6. OrdersOf(w) = OrdersOf(t) \cup OrdersOf(u)
  <2>1. OrdersOf(w) \subseteq OrdersOf(t) \cup OrdersOf(u)
    BY <1>4 DEF OrdersOf
  <2>2. OrdersOf(t) \subseteq OrdersOf(w)
    BY <1>1, <1>2 DEF OrdersOf
  <2>3. OrdersOf(u) \subseteq OrdersOf(w)
    BY <1>1, <1>3 DEF OrdersOf
  <2> QED
    BY <2>1, <2>2, <2>3
<1> QED
  BY <1>1, <1>5, <1>6 DEF RowsOnce

\* insertFill: one row for each order that the diff finds filled.
LEMMA FillRowsIs ==
    ASSUME NEW A \in SUBSET Ids, NEW C \in SUBSET Ids, A \cap C = {},
           NEW a \in SetToSeqs(A), NEW c \in SetToSeqs(C),
           \A i \in A \cup C : oms[i] \in PaperOrders, bridge.date \in Nat
    PROVE  LET u == FillRows(a \o c)
           IN u \in Seq(FillRecord) /\ RowsOnce(u) /\ OrdersOf(u) = A \cup C
<1>1. IsFiniteSet(A) /\ IsFiniteSet(C)
  BY IdsFinite, FS_Subset
<1>2. /\ a \in Seq(A) /\ \A m, n \in DOMAIN a : a[m] = a[n] => m = n
      /\ \A x \in A : \E n \in DOMAIN a : a[n] = x
  BY <1>1, Listing
<1>3. /\ c \in Seq(C) /\ \A m, n \in DOMAIN c : c[m] = c[n] => m = n
      /\ \A x \in C : \E n \in DOMAIN c : c[n] = x
  BY <1>1, Listing
<1> DEFINE w == a \o c
           u == FillRows(w)
<1>4. /\ Len(a) \in Nat /\ Len(c) \in Nat /\ DOMAIN a = 1..Len(a) /\ DOMAIN c = 1..Len(c)
      /\ a \in Seq(Ids) /\ c \in Seq(Ids)
      /\ \A n \in DOMAIN a : a[n] \in A
      /\ \A n \in DOMAIN c : c[n] \in C
  BY <1>2, <1>3
<1>5. w \in Seq(Ids) /\ Len(w) = Len(a) + Len(c) /\ DOMAIN w = 1..Len(w)
  BY <1>4
<1>6. /\ \A n \in 1..Len(a) : n \in DOMAIN w /\ w[n] = a[n]
      /\ \A n \in 1..Len(c) : Len(a) + n \in DOMAIN w /\ w[Len(a) + n] = c[n]
  BY <1>4, <1>5
<1> HIDE DEF w
<1>7. \A n \in DOMAIN w : \/ n \in DOMAIN a /\ w[n] = a[n] /\ w[n] \in A
                          \/ n - Len(a) \in DOMAIN c /\ w[n] = c[n - Len(a)] /\ w[n] \in C
  <2> SUFFICES ASSUME NEW n \in DOMAIN w
               PROVE  \/ n \in DOMAIN a /\ w[n] = a[n] /\ w[n] \in A
                      \/ n - Len(a) \in DOMAIN c /\ w[n] = c[n - Len(a)] /\ w[n] \in C
    OBVIOUS
  <2>1. CASE n <= Len(a)
    BY <1>4, <1>5, <1>6, <2>1
  <2>2. CASE n > Len(a)
    <3>1. n - Len(a) \in 1..Len(c) /\ Len(a) + (n - Len(a)) = n
      BY <1>4, <1>5, <2>2
    <3> QED
      BY <1>4, <1>6, <3>1
  <2> QED
    BY <1>4, <1>5, <2>1, <2>2
<1>8. ASSUME NEW m \in DOMAIN w, NEW n \in DOMAIN w, w[m] = w[n] PROVE m = n
  <2>1. m \in Int /\ n \in Int /\ Len(a) \in Int
    BY <1>4, <1>5
  <2>2. CASE m \in DOMAIN a /\ w[m] = a[m] /\ w[m] \in A
    <3>1. n \in DOMAIN a /\ w[n] = a[n]
      BY <1>7, <1>8, <2>2
    <3> QED
      BY <1>2, <1>8, <2>2, <3>1
  <2>3. CASE m - Len(a) \in DOMAIN c /\ w[m] = c[m - Len(a)] /\ w[m] \in C
    <3>1. n - Len(a) \in DOMAIN c /\ w[n] = c[n - Len(a)]
      BY <1>7, <1>8, <2>3
    <3>2. m - Len(a) = n - Len(a)
      BY <1>3, <1>8, <2>3, <3>1
    <3> QED
      BY <2>1, <3>2
  <2> QED
    BY <1>7, <2>2, <2>3
<1>9. \A i \in A \cup C : \E n \in DOMAIN w : w[n] = i
  BY <1>2, <1>3, <1>4, <1>6
<1>10. DOMAIN u = DOMAIN w /\ \A n \in DOMAIN w : u[n].order = w[n] /\ u[n] \in FillRecord
  <2>1. DOMAIN u = DOMAIN w
    BY DEF FillRows
  <2>2. ASSUME NEW n \in DOMAIN w PROVE u[n].order = w[n] /\ u[n] \in FillRecord
    <3>1. u[n] = [order |-> w[n], qty |-> oms[w[n]].qty, price |-> oms[w[n]].price, ts |-> bridge.date]
      BY <2>2 DEF FillRows
    <3>2. w[n] \in Ids /\ oms[w[n]] \in PaperOrders
      BY <1>7
    <3>3. oms[w[n]].qty \in Int /\ oms[w[n]].price \in Int
      BY <3>2 DEF PaperOrders
    <3> QED
      BY <3>1, <3>2, <3>3 DEF FillRecord
  <2> QED
    BY <2>1, <2>2
<1>11. u = [n \in 1..Len(w) |-> u[n]] /\ Len(w) \in Nat
  BY <1>5 DEF FillRows
<1> HIDE DEF u
<1>12. u \in Seq(FillRecord)
  BY <1>5, <1>10, <1>11
<1>13. RowsOnce(u)
  BY <1>8, <1>10 DEF RowsOnce
<1>14. OrdersOf(u) = A \cup C
  <2>1. OrdersOf(u) \subseteq A \cup C
    BY <1>7, <1>10 DEF OrdersOf
  <2>2. A \cup C \subseteq OrdersOf(u)
    BY <1>9, <1>10 DEF OrdersOf
  <2> QED
    BY <2>1, <2>2
<1> QED
  BY <1>12, <1>13, <1>14 DEF u, w

\* What the diff finds, by the mirror.
LEMMA DiffIs ==
    ASSUME PaperInv
    PROVE  /\ Created \in SUBSET Ids /\ Changed \in SUBSET Ids /\ Created \cap Changed = {}
           /\ \A i \in Created : oms[i] \in PaperOrders /\ orderRows[i] = NoOrder
           /\ \A i \in Changed : /\ oms[i] \in PaperOrders /\ orderRows[i] \in PaperRows
                                 /\ orderRows[i].o.status # oms[i].status
           /\ \A i \in Ids : /\ oms[i] = NoOrder => i \notin Created \cup Changed
                             /\ oms[i] # NoOrder /\ i \notin Created \cup Changed =>
                                   orderRows[i] # NoOrder /\ orderRows[i].o = oms[i]
<1>1. /\ \A i \in Ids : MirrorOf(oms[i], known[i], orderRows[i])
      /\ \A i \in Ids : oms[i] # NoOrder => oms[i] \in PaperOrders
      /\ \A i \in Ids : orderRows[i] # NoOrder => orderRows[i] \in PaperRows
  BY SoundTyped DEF PaperInv, Sound, TablesTyped
<1>2. Created \in SUBSET Ids /\ Changed \in SUBSET Ids /\ Created \cap Changed = {}
  BY DEF Created, Changed
<1>3. \A i \in Created : oms[i] \in PaperOrders /\ orderRows[i] = NoOrder
  BY <1>1 DEF Created, MirrorOf
<1>4. \A i \in Changed : /\ oms[i] \in PaperOrders /\ orderRows[i] \in PaperRows
                         /\ orderRows[i].o.status # oms[i].status
  BY <1>1 DEF Changed, MirrorOf
<1>5. \A i \in Ids : oms[i] = NoOrder => i \notin Created \cup Changed
  BY DEF Created, Changed
<1>6. ASSUME NEW i \in Ids, oms[i] # NoOrder, i \notin Created \cup Changed
      PROVE  orderRows[i] # NoOrder /\ orderRows[i].o = oms[i]
  <2>1. known[i] # NoOrder /\ known[i] = oms[i].status
    BY <1>6 DEF Created, Changed
  <2> QED
    BY <1>1, <1>6, <2>1 DEF MirrorOf
<1> QED
  BY <1>2, <1>3, <1>4, <1>5, <1>6

\* The rows afterwards: those of the memory, and the settled ones it has forgotten.
LEMMA RowsAfter ==
    ASSUME PaperInv, NEW pid, pid \in Submissions \/ Created = {},
           orderRows' = [i \in Ids |-> IF i \in Created THEN [o |-> oms[i], pid |-> pid]
                                       ELSE IF i \in Changed THEN [orderRows[i] EXCEPT !.o = oms[i]]
                                       ELSE orderRows[i]]
    PROVE  /\ orderRows' \in [Ids -> PaperRows \cup {NoOrder}]
           /\ \A i \in Ids : /\ oms[i] # NoOrder => orderRows'[i] # NoOrder /\ orderRows'[i].o = oms[i]
                             /\ oms[i] = NoOrder => orderRows'[i] = orderRows[i]
<1>1. orderRows \in [Ids -> PaperRows \cup {NoOrder}] /\ NoOrder \notin PaperRows
  BY PaperAssumption DEF PaperInv, TablesTyped
<1>2. \A i \in Created : orderRows'[i] \in PaperRows /\ orderRows'[i].o = oms[i]
  BY DiffIs DEF PaperRows
<1>3. ASSUME NEW i \in Changed PROVE orderRows'[i] \in PaperRows /\ orderRows'[i].o = oms[i]
  <2>1. i \in Ids /\ i \notin Created /\ oms[i] \in PaperOrders /\ orderRows[i] \in PaperRows
    BY DiffIs
  <2>2. orderRows'[i] = [orderRows[i] EXCEPT !.o = oms[i]]
    BY <2>1
  <2> QED
    BY <2>1, <2>2 DEF PaperRows
<1>4. \A i \in Ids : i \notin Created \cup Changed => orderRows'[i] = orderRows[i]
  OBVIOUS
<1>5. \A i \in Ids : orderRows'[i] \in PaperRows \cup {NoOrder}
  BY <1>1, <1>2, <1>3, <1>4
<1>6. orderRows' = [i \in Ids |-> orderRows'[i]]
  OBVIOUS
<1>7. orderRows' \in [Ids -> PaperRows \cup {NoOrder}]
  BY <1>5, <1>6
<1>8. ASSUME NEW i \in Ids
      PROVE  /\ oms[i] # NoOrder => orderRows'[i] # NoOrder /\ orderRows'[i].o = oms[i]
             /\ oms[i] = NoOrder => orderRows'[i] = orderRows[i]
  BY <1>1, <1>2, <1>3, <1>4, DiffIs
<1> QED
  BY <1>7, <1>8

\* With the rows written, a restart would start from what is in memory.
LEMMA PersistRowsSound ==
    ASSUME PaperInv, oms' = oms, position' = position, posRow' = position,
           known' = [i \in Ids |-> StatusOf(i)],
           orderRows' \in [Ids -> PaperRows \cup {NoOrder}],
           \A i \in Ids : /\ oms[i] # NoOrder => orderRows'[i] # NoOrder /\ orderRows'[i].o = oms[i]
                          /\ oms[i] = NoOrder => orderRows'[i] = orderRows[i]
    PROVE  Sound(oms, position)' /\ RowsSound'
<1>1. /\ Sound(oms, position)
      /\ \A i \in Ids : MirrorOf(oms[i], known[i], orderRows[i])
      /\ \A i \in Ids : oms[i] # NoOrder => oms[i] \in PaperOrders
      /\ NoOrder \notin OrderStatuses
  BY SoundTyped, PaperAssumption DEF PaperInv, Sound
<1>2. \A i \in Ids : /\ (oms[i] # NoOrder \/ orderRows[i] # NoOrder) <=> orderRows'[i] # NoOrder
                     /\ oms[i] = NoOrder /\ orderRows'[i] # NoOrder => orderRows'[i].o.status # "open"
  BY <1>1 DEF MirrorOf
<1>3. Free(oms)' = Free(oms) /\ RestingIn(oms)' = RestingIn(oms)
  BY <1>2 DEF Free, UsedBy, RestingIn
<1>4. \A i \in Ids : MirrorOf(oms[i], known'[i], orderRows'[i])
  <2> SUFFICES ASSUME NEW i \in Ids PROVE MirrorOf(oms[i], known'[i], orderRows'[i])
    OBVIOUS
  <2>1. known'[i] = IF oms[i] = NoOrder THEN NoOrder ELSE oms[i].status
    BY DEF StatusOf
  <2>2. oms[i] # NoOrder => known'[i] # NoOrder
    BY <1>1, <2>1 DEF PaperOrders
  <2> QED
    BY <1>2, <2>1, <2>2 DEF MirrorOf
<1>5. Sound(oms, position)'
  <2>1. (\A i \in Ids : MirrorOf(oms[i], known[i], orderRows[i]))'
    BY <1>4 DEF MirrorOf
  <2>2. /\ (oms \in Memories)' /\ (position \in Held)' /\ TrueBook(position)' /\ Covered(position, oms)'
    BY <1>1 DEF Sound, Memories, Held, TrueBook, Covered, Units, Cover
  <2>3. (Cardinality(Free(oms)) >= 2 * Cardinality(RestingIn(oms)))'
    BY <1>1, <1>3 DEF Sound
  <2> QED
    BY <2>1, <2>2, <2>3 DEF Sound
<1>6. /\ \A i \in Ids : RowOrders'[i] = IF orderRows'[i] = NoOrder THEN NoOrder ELSE orderRows'[i].o
  BY DEF RowOrders
<1>7. \A i \in Ids : /\ oms[i] # NoOrder => RowOrders'[i] = oms[i]
                     /\ oms[i] = NoOrder => RowOrders'[i] = NoOrder \/ RowOrders'[i].status # "open"
                     /\ RowOrders'[i] # NoOrder => orderRows'[i] # NoOrder
  BY <1>2, <1>6
<1>8. Covered(posRow, RowOrders)'
  <2> DEFINE new == RowOrders'
  <2>1. \A side \in {1, -1}, i \in Ids : Cover(side, new[i]) = Cover(side, oms[i])
    BY <1>7 DEF Cover, OpenStop
  <2>2. Covered(position, oms)
    BY <1>1 DEF Sound
  <2> HIDE DEF new
  <2>3. Covered(position, new)
    BY <2>1, <2>2, CoveredSame
  <2> QED
    BY <2>3 DEF new, Covered, Units, Cover
<1>9. Free(RowOrders)' = Free(oms) /\ RestingIn(RowOrders)' = RestingIn(oms)
  <2>1. Free(RowOrders)' = {i \in Ids : ~(RowOrders'[i] # NoOrder \/ orderRows'[i] # NoOrder)}
    BY DEF Free, UsedBy
  <2>2. Free(oms) = {i \in Ids : ~(oms[i] # NoOrder \/ orderRows[i] # NoOrder)}
    BY DEF Free, UsedBy
  <2>3. Free(RowOrders)' = Free(oms)
    BY <1>2, <1>7, <2>1, <2>2
  <2>4. RestingIn(RowOrders)' = {i \in Ids : RowOrders'[i] # NoOrder /\ RowOrders'[i].status = "open" /\ RowOrders'[i].kind = "entry"}
    BY DEF RestingIn
  <2>5. RestingIn(RowOrders)' = RestingIn(oms)
    BY <1>7, <2>4 DEF RestingIn
  <2> QED
    BY <2>3, <2>5
<1>10. TrueBook(posRow)'
  BY <1>1 DEF Sound, TrueBook
<1>11. RowsSound'
  <2>1. (Cardinality(Free(RowOrders)) >= 2 * Cardinality(RestingIn(RowOrders)))'
    BY <1>1, <1>9 DEF Sound
  <2> QED
    BY <1>8, <1>10, <2>1 DEF RowsSound
<1> QED
  BY <1>5, <1>11

\* The fills table gains the orders whose rows become filled.
LEMMA PersistFills ==
    ASSUME PaperInv, bridge.date \in Nat, oms' = oms,
           \A i \in Ids : /\ oms[i] # NoOrder => orderRows'[i] # NoOrder /\ orderRows'[i].o = oms[i]
                          /\ oms[i] = NoOrder => orderRows'[i] = orderRows[i],
           NEW a \in SetToSeqs(Changed \cap NewlyFilled), NEW c \in SetToSeqs(Created \cap NewlyFilled),
           fillTable' = fillTable \o FillRows(a \o c)
    PROVE  FillsMatch' /\ fillTable' \in Seq(FillRecord)
<1> DEFINE A == Changed \cap NewlyFilled
           C == Created \cap NewlyFilled
           S == A \cup C
           u == FillRows(a \o c)
<1>1. /\ FillsMatch /\ fillTable \in Seq(FillRecord)
      /\ \A i \in Ids : MirrorOf(oms[i], known[i], orderRows[i])
  BY DEF PaperInv, TablesTyped, Sound
<1>2. /\ A \in SUBSET Ids /\ C \in SUBSET Ids /\ A \cap C = {}
      /\ \A i \in S : oms[i] \in PaperOrders /\ oms[i].status = "filled" /\ ~FilledRow(i)
  BY DiffIs DEF NewlyFilled, FilledRow
<1>3. \A i \in Ids : oms[i] # NoOrder /\ oms[i].status = "filled" /\ ~FilledRow(i) => i \in S
  BY DiffIs DEF NewlyFilled, FilledRow
<1>4. \A i \in Ids : FilledRow(i)' <=> FilledRow(i) \/ i \in S
  <2> SUFFICES ASSUME NEW i \in Ids PROVE FilledRow(i)' <=> FilledRow(i) \/ i \in S
    OBVIOUS
  <2>1. FilledRow(i)' <=> orderRows'[i] # NoOrder /\ orderRows'[i].o.status = "filled"
    BY DEF FilledRow
  <2>2. CASE oms[i] = NoOrder
    <3>1. i \notin S
      BY <2>2, DiffIs
    <3> QED
      BY <2>1, <2>2, <3>1 DEF FilledRow
  <2>3. CASE oms[i] # NoOrder
    <3>1. FilledRow(i)' <=> oms[i].status = "filled"
      BY <2>1, <2>3
    <3>2. FilledRow(i) => oms[i].status = "filled"
      BY <1>1, <2>3 DEF FilledRow, MirrorOf
    <3>3. i \in S => oms[i].status = "filled"
      BY <1>2
    <3> QED
      BY <1>3, <2>3, <3>1, <3>2, <3>3
  <2> QED
    BY <2>2, <2>3
<1>5. u \in Seq(FillRecord) /\ RowsOnce(u) /\ OrdersOf(u) = S
  <2> HIDE DEF A, C
  <2>1. a \in SetToSeqs(A) /\ c \in SetToSeqs(C)
    BY DEF A, C
  <2> QED
    BY <1>2, <2>1, FillRowsIs
<1>6. RowsOnce(fillTable) /\ OrdersOf(fillTable) = {i \in Ids : FilledRow(i)}
  BY <1>1 DEF FillsMatch
<1>7. OrdersOf(fillTable) \cap OrdersOf(u) = {}
  BY <1>2, <1>5, <1>6
<1> DEFINE w == fillTable'
<1>8. w = fillTable \o u
  OBVIOUS
<1>9. S \subseteq Ids
  BY <1>2
<1> HIDE DEF A, C, S, u, w
<1>10. w \in Seq(FillRecord) /\ RowsOnce(w) /\ OrdersOf(w) = OrdersOf(fillTable) \cup OrdersOf(u)
  BY <1>1, <1>5, <1>6, <1>7, <1>8, FillsAppended
<1>11. OrdersOf(w) = {i \in Ids : FilledRow(i)'}
  <2> DEFINE now(i) == FilledRow(i)'
  <2>1. \A i \in Ids : now(i) <=> FilledRow(i) \/ i \in S
    BY <1>4
  <2> HIDE DEF now
  <2>2. OrdersOf(w) = {i \in Ids : now(i)}
    BY <1>5, <1>6, <1>9, <1>10, <2>1
  <2> QED
    BY <2>2 DEF now
<1>12. FillsMatch'
  <2>1. FillsMatch' <=> RowsOnce(w) /\ OrdersOf(w) = {i \in Ids : FilledRow(i)'}
    BY DEF FillsMatch, RowsOnce, OrdersOf, w
  <2> QED
    BY <1>10, <1>11, <2>1
<1> QED
  BY <1>10, <1>12 DEF w

\* What a transaction is stamped with.
LEMMA PersistingIs ==
    ASSUME PaperInv, bridge.pc = "persist"
    PROVE  bridge.pid \in Submissions \cup {0} /\ bridge.date \in 1..day
<1>1. bridge # Resting
  BY DEF Resting
<1>2. CASE \E pid \in Submissions \cup {0}, date \in 1..day : bridge = Persisting(pid, date)
  BY <1>2 DEF Persisting
<1> QED
  BY <1>1, <1>2 DEF PaperInv, BridgeOK

\* writeStrategyState: equity, peak and the daily figure of its date.
LEMMA StateAfterIs ==
    ASSUME PaperInv, bridge.date \in 1..day, position \in Held,
           posRow' = position, stateRow' = StateAfter, day' = day,
           overtaken' = (overtaken \/ bridge.date < stateRow.date),
           dayPnl' = IF bridge.date = day THEN dayPnl + position.realized - kept.realized ELSE dayPnl
    PROVE  /\ stateRow' \in [equity : Int, peak : Int, daily : Int, date : Nat]
           /\ dayPnl' \in Int /\ EquityIsRealized' /\ DayKept'
<1> DEFINE delta == position.realized - kept.realized
           total == stateRow.equity + delta
           next  == [equity |-> total,
                     peak   |-> IF total > stateRow.peak THEN total ELSE stateRow.peak,
                     daily  |-> DailySoFar + delta,
                     date   |-> bridge.date]
<1>1. /\ stateRow \in [equity : Int, peak : Int, daily : Int, date : Nat]
      /\ day \in Nat /\ bridge.date \in Nat /\ bridge.date <= day /\ dayPnl \in Int
      /\ overtaken \in BOOLEAN /\ EquityIsRealized /\ DayKept
      /\ Allocated \in Int /\ kept.realized = posRow.realized
      /\ position.realized \in Int /\ posRow.realized \in Int
  BY PaperAssumption DEF PaperInv, TablesTyped, DatesTyped, MirrorsTyped, Held
<1>2. delta \in Int /\ total \in Int /\ position.realized = kept.realized + delta
  BY <1>1
<1>3. stateRow.date \in Nat /\ stateRow.daily \in Int /\ stateRow.peak \in Int /\ stateRow.equity \in Int
  BY <1>1
<1>4. DailySoFar \in Int
  BY <1>3 DEF DailySoFar
<1>5. stateRow' = IF delta = 0 /\ NewlyFilled = {} THEN stateRow ELSE next
  BY DEF StateAfter
<1>6. dayPnl' = IF bridge.date = day THEN dayPnl + delta ELSE dayPnl
  BY <1>1, <1>2
<1>7. total = Allocated + position.realized
  BY <1>1, <1>2, <1>3 DEF EquityIsRealized
<1>8. CASE delta = 0 /\ NewlyFilled = {}
  <2>1. stateRow' = stateRow /\ dayPnl' = dayPnl
    BY <1>1, <1>5, <1>6, <1>8
  <2>2. EquityIsRealized'
    BY <1>1, <1>2, <1>3, <1>7, <1>8, <2>1 DEF EquityIsRealized
  <2>3. DayKept'
    BY <1>1, <2>1 DEF DayKept
  <2> QED
    BY <1>1, <2>1, <2>2, <2>3
<1>9. CASE ~(delta = 0 /\ NewlyFilled = {})
  <2> DEFINE top == IF total > stateRow.peak THEN total ELSE stateRow.peak
  <2>1. stateRow' = next
    BY <1>5, <1>9
  <2>2. top \in Int /\ top >= total
    BY <1>2, <1>3
  <2>3. /\ stateRow'.equity = total /\ stateRow'.peak = top
        /\ stateRow'.daily = DailySoFar + delta /\ stateRow'.date = bridge.date
    BY <2>1
  <2>4. next \in [equity : Int, peak : Int, daily : Int, date : Nat]
    <3>1. DailySoFar + delta \in Int
      BY <1>2, <1>4
    <3> HIDE DEF total, delta, top
    <3> QED
      BY <1>1, <1>2, <2>2, <3>1
  <2>5. EquityIsRealized'
    BY <1>7, <2>2, <2>3 DEF EquityIsRealized
  <2> HIDE DEF delta, total, next, top
  <2>6. ASSUME ~overtaken, ~(bridge.date < stateRow.date), bridge.date = day
        PROVE  stateRow'.daily = dayPnl'
    <3>1. CASE stateRow.date = day
      <4>1. DailySoFar = dayPnl
        BY <1>1, <2>6, <3>1 DEF DailySoFar, DayKept
      <4> QED
        BY <1>6, <2>3, <2>6, <4>1
    <3>2. CASE stateRow.date # day
      <4>1. stateRow.date < day /\ DailySoFar = 0
        BY <1>1, <1>3, <2>6, <3>2 DEF DailySoFar, DayKept
      <4>2. dayPnl = 0
        BY <1>1, <2>6, <4>1 DEF DayKept
      <4> QED
        BY <1>6, <2>3, <2>6, <4>1, <4>2
    <3> QED
      BY <3>1, <3>2
  <2>7. ASSUME ~overtaken, ~(bridge.date < stateRow.date), bridge.date < day
        PROVE  dayPnl' = 0
    <3>1. stateRow.date < day
      BY <1>1, <1>3, <2>7
    <3> QED
      BY <1>1, <1>6, <2>7, <3>1 DEF DayKept
  <2>8. DayKept'
    BY <1>1, <2>3, <2>6, <2>7 DEF DayKept
  <2>9. dayPnl' \in Int
    BY <1>1, <1>2, <1>6
  <2> QED
    BY <2>1, <2>4, <2>5, <2>8, <2>9
<1> QED
  BY <1>8, <1>9

\* persistLocked: rows, fills, position, snapshot and mirrors in one step.
LEMMA PersistStep == ASSUME PaperInv, Persist PROVE PaperInv'
<1>1. bridge.pid \in Submissions \cup {0} /\ bridge.date \in 1..day
  BY PersistingIs DEF Persist
<1>2. /\ oms' = oms /\ position' = position /\ posRow' = position /\ kept' = position
      /\ known' = [i \in Ids |-> StatusOf(i)] /\ bridge' = Resting /\ day' = day /\ late' = late
      /\ stateRow' = StateAfter /\ overtaken' = (overtaken \/ bridge.date < stateRow.date)
      /\ dayPnl' = IF bridge.date = day THEN dayPnl + position.realized - kept.realized ELSE dayPnl
  BY DEF Persist
<1>3. position \in Held /\ oms \in Memories /\ author \in [Ids -> Submissions \cup {0}]
  BY DEF PaperInv, Sound, MirrorsTyped
<1>4. PICK pid \in PidsFor(bridge.pid) :
          /\ pid # 0 \/ Created = {}
          /\ orderRows' = [i \in Ids |-> IF i \in Created THEN [o |-> oms[i], pid |-> pid]
                                         ELSE IF i \in Changed THEN [orderRows[i] EXCEPT !.o = oms[i]]
                                         ELSE orderRows[i]]
          /\ author' = [i \in Ids |-> IF i \in Created THEN pid ELSE author[i]]
  BY DEF Persist
<1>5. pid \in Submissions \cup {0}
  <2>1. \A j \in Changed : j \in Ids
    BY DEF Changed
  <2>2. Originators \subseteq Submissions \cup {0}
    BY <1>3, <2>1 DEF Originators
  <2> QED
    BY <1>1, <1>4, <2>2 DEF PidsFor
<1>6. pid \in Submissions \/ Created = {}
  BY <1>4, <1>5
<1>7. /\ orderRows' \in [Ids -> PaperRows \cup {NoOrder}]
      /\ \A i \in Ids : /\ oms[i] # NoOrder => orderRows'[i] # NoOrder /\ orderRows'[i].o = oms[i]
                        /\ oms[i] = NoOrder => orderRows'[i] = orderRows[i]
  BY <1>4, <1>6, RowsAfter
<1>8. Sound(oms, position)' /\ RowsSound'
  BY <1>2, <1>7, PersistRowsSound
<1>9. FillsMatch' /\ fillTable' \in Seq(FillRecord)
  <2>1. PICK a \in SetToSeqs(Changed \cap NewlyFilled), c \in SetToSeqs(Created \cap NewlyFilled) :
           fillTable' = fillTable \o FillRows(a \o c)
    BY DEF Persist
  <2>2. bridge.date \in Nat
    BY <1>1 DEF PaperInv, DatesTyped
  <2> QED
    BY <1>2, <1>7, <2>1, <2>2, PersistFills
<1>10. /\ stateRow' \in [equity : Int, peak : Int, daily : Int, date : Nat]
       /\ dayPnl' \in Int /\ EquityIsRealized' /\ DayKept'
  BY <1>1, <1>2, <1>3, StateAfterIs
<1>11. MirrorsTyped'
  <2>1. \A i \in Ids : StatusOf(i) \in OrderStatuses \cup {NoOrder}
    BY <1>3 DEF StatusOf, Memories, PaperOrders
  <2>2. known' \in [Ids -> OrderStatuses \cup {NoOrder}]
    BY <1>2, <2>1
  <2>3. author' \in [Ids -> Submissions \cup {0}]
    BY <1>3, <1>4, <1>5
  <2> QED
    BY <1>2, <2>2, <2>3 DEF MirrorsTyped
<1>12. TablesTyped'
  BY <1>2, <1>3, <1>7, <1>9, <1>10 DEF TablesTyped
<1>13. DatesTyped'
  <2>1. overtaken' \in BOOLEAN
    BY <1>2
  <2> QED
    BY <1>2, <1>10, <2>1 DEF PaperInv, DatesTyped
<1>14. BridgeOK'
  BY <1>2 DEF BridgeOK, Resting
<1> QED
  BY <1>8, <1>9, <1>10, <1>11, <1>12, <1>13, <1>14 DEF PaperInv

\* hydrate: the open orders of the rows cover the position of the rows.
LEMMA ReloadStep == ASSUME PaperInv, Reload PROVE PaperInv'
<1> DEFINE resting == {i \in Ids : orderRows[i] # NoOrder /\ orderRows[i].o.status = "open"}
           new     == [i \in Ids |-> IF i \in resting THEN orderRows[i].o ELSE NoOrder]
<1>1. /\ oms' = new /\ position' = posRow /\ kept' = posRow /\ bridge' = Resting
      /\ known' = [i \in Ids |-> IF i \in resting THEN "open" ELSE NoOrder]
      /\ author' = [i \in Ids |-> IF i \in resting THEN orderRows[i].pid ELSE 0]
      /\ UNCHANGED <<orderRows, fillTable, posRow, stateRow, day, late, overtaken, dayPnl>>
  BY DEF Reload, paperTables, dates
<1>2. /\ orderRows \in [Ids -> PaperRows \cup {NoOrder}] /\ posRow \in Held /\ RowsSound
      /\ NoOrder \notin PaperOrders /\ NoOrder # "open"
  BY PaperAssumption DEF PaperInv, TablesTyped, OrderStatuses
<1>3. \A i \in Ids : orderRows[i] # NoOrder => /\ orderRows[i].o \in PaperOrders
                                              /\ orderRows[i].pid \in Submissions
  BY <1>2 DEF PaperRows
<1>4. new \in Memories
  BY <1>3 DEF Memories
<1>5. \A i \in Ids : RowOrders[i] = IF orderRows[i] = NoOrder THEN NoOrder ELSE orderRows[i].o
  BY DEF RowOrders
<1>6. \A i \in Ids : /\ i \in resting => new[i] = RowOrders[i] /\ new[i] # NoOrder
                     /\ i \notin resting => /\ new[i] = NoOrder
                                            /\ RowOrders[i] = NoOrder \/ RowOrders[i].status # "open"
                     /\ new[i] # NoOrder => orderRows[i] # NoOrder
                     /\ RowOrders[i] # NoOrder => orderRows[i] # NoOrder
  BY <1>2, <1>3, <1>5
<1>7. \A i \in Ids : MirrorOf(oms'[i], known'[i], orderRows[i])
  <2> SUFFICES ASSUME NEW i \in Ids PROVE MirrorOf(oms'[i], known'[i], orderRows[i])
    OBVIOUS
  <2>1. CASE i \in resting
    <3>1. oms'[i] = orderRows[i].o /\ known'[i] = "open" /\ oms'[i] # NoOrder
      BY <1>1, <1>6, <2>1
    <3> QED
      BY <1>2, <2>1, <3>1 DEF MirrorOf
  <2>2. CASE i \notin resting
    <3>1. oms'[i] = NoOrder /\ known'[i] = NoOrder
      BY <1>1, <2>2
    <3> QED
      BY <2>2, <3>1 DEF MirrorOf
  <2> QED
    BY <2>1, <2>2
<1> HIDE DEF new
<1>8. Covered(posRow, new)
  <2> DEFINE rows == RowOrders
  <2>1. Covered(posRow, rows)
    BY <1>2 DEF RowsSound
  <2>2. \A side \in {1, -1}, i \in Ids : Cover(side, new[i]) = Cover(side, rows[i])
    BY <1>6 DEF Cover, OpenStop
  <2> HIDE DEF rows
  <2> QED
    BY <2>1, <2>2, CoveredSame
<1>9. Free(new) = Free(RowOrders) /\ RestingIn(new) = RestingIn(RowOrders)
  <2>1. Free(new) = Free(RowOrders)
    BY <1>6 DEF Free, UsedBy
  <2>2. RestingIn(new) = RestingIn(RowOrders)
    BY <1>6 DEF RestingIn
  <2> QED
    BY <2>1, <2>2
<1>10. Sound(oms, position)'
  <2>1. (\A i \in Ids : MirrorOf(oms[i], known[i], orderRows[i]))'
    BY <1>1, <1>7
  <2>2. (oms \in Memories)' /\ (position \in Held)'
    BY <1>1, <1>2, <1>4 DEF Memories, Held
  <2>3. TrueBook(position)'
    BY <1>1, <1>2 DEF RowsSound, TrueBook
  <2>4. Covered(position, oms)'
    BY <1>1, <1>8 DEF Covered, Units, Cover
  <2>5. (Cardinality(Free(oms)) >= 2 * Cardinality(RestingIn(oms)))'
    <3>1. Free(oms)' = Free(new) /\ RestingIn(oms)' = RestingIn(new)
      BY <1>1 DEF Free, UsedBy, RestingIn
    <3> QED
      BY <1>2, <1>9, <3>1 DEF RowsSound
  <2> QED
    BY <2>1, <2>2, <2>3, <2>4, <2>5 DEF Sound
<1>11. RowsSound'
  BY <1>1, <1>2 DEF RowsSound, RowOrders, TrueBook, Covered, Units, Cover, Free, UsedBy, RestingIn
<1>12. MirrorsTyped'
  <2>1. known' \in [Ids -> OrderStatuses \cup {NoOrder}]
    BY <1>1 DEF OrderStatuses
  <2>2. author' \in [Ids -> Submissions \cup {0}]
    BY <1>1, <1>3
  <2> QED
    BY <1>1, <2>1, <2>2 DEF MirrorsTyped
<1>13. TablesTyped' /\ DatesTyped'
  BY <1>1 DEF PaperInv, TablesTyped, DatesTyped
<1>14. FillsMatch' /\ EquityIsRealized' /\ DayKept'
  BY <1>1 DEF PaperInv, FillsMatch, FilledRow, EquityIsRealized, DayKept
<1>15. BridgeOK'
  BY <1>1 DEF BridgeOK
<1> QED
  BY <1>10, <1>11, <1>12, <1>13, <1>14, <1>15 DEF PaperInv

\* A new date has realized nothing.
LEMMA MidnightStep == ASSUME PaperInv, Midnight PROVE PaperInv'
<1>1. /\ day' = day + 1 /\ dayPnl' = 0 /\ late' \in {0, day}
      /\ UNCHANGED <<bridge, oms, position, known, author, kept, orderRows, fillTable, posRow, stateRow, overtaken>>
  BY DEF Midnight, bridgeMemory, paperTables
<1>2. /\ day \in Nat /\ stateRow.date \in Nat /\ stateRow.date <= day /\ late \in 0..day
  BY DEF PaperInv, DatesTyped, TablesTyped, DayKept
<1>3. DatesTyped'
  BY <1>1, <1>2 DEF PaperInv, DatesTyped
<1>4. BridgeOK'
  <2>1. 1..day \subseteq 1..day'
    BY <1>1, <1>2
  <2> QED
    BY <1>1, <2>1 DEF PaperInv, BridgeOK
<1>5. DayKept'
  BY <1>1, <1>2 DEF DayKept
<1>6. Sound(oms, position)'
  BY <1>1 DEF PaperInv, Sound, Memories, Held, TrueBook, Covered, Units, Cover, Free, UsedBy, RestingIn, MirrorOf
<1>7. RowsSound'
  BY <1>1 DEF PaperInv, RowsSound, RowOrders, TrueBook, Covered, Units, Cover, Free, UsedBy, RestingIn
<1>8. MirrorsTyped' /\ TablesTyped' /\ FillsMatch' /\ EquityIsRealized'
  BY <1>1 DEF PaperInv, MirrorsTyped, TablesTyped, FillsMatch, FilledRow, EquityIsRealized
<1> QED
  BY <1>3, <1>4, <1>5, <1>6, <1>7, <1>8 DEF PaperInv

\* A transaction that fails or is refused leaves the memory and the rows to the next one.
LEMMA NotPersisted ==
    ASSUME PaperInv, bridge' = Resting, UNCHANGED <<bridgeMemory, paperTables, dates>>
    PROVE  PaperInv'
<1>1. /\ UNCHANGED <<known, author, kept, paperTables, day, overtaken, dayPnl>>
      /\ oms' = oms /\ position' = position /\ late' = late
  BY DEF bridgeMemory, dates
<1>2. BridgeOK' /\ late' \in 0..day
  BY <1>1 DEF BridgeOK, PaperInv, DatesTyped
<1>3. Sound(oms', position')
  BY <1>1 DEF PaperInv
<1> QED
  BY <1>1, <1>2, <1>3, MemoryStep

\* The empty account.
LEMMA PaperInvInit == ASSUME PaperInit PROVE PaperInv
<1>1. /\ bridge = Resting /\ position = Flat /\ kept = Flat /\ posRow = Flat /\ fillTable = <<>>
      /\ \A i \in Ids : /\ oms[i] = NoOrder /\ known[i] = NoOrder /\ author[i] = 0
                        /\ orderRows[i] = NoOrder /\ RowOrders[i] = NoOrder
      /\ stateRow = [equity |-> Allocated, peak |-> Allocated, daily |-> 0, date |-> 0]
      /\ day = 1 /\ late = 0 /\ overtaken = FALSE /\ dayPnl = 0
  BY DEF PaperInit, RowOrders
<1>2. oms \in Memories /\ known \in [Ids -> OrderStatuses \cup {NoOrder}]
      /\ author \in [Ids -> Submissions \cup {0}] /\ orderRows \in [Ids -> PaperRows \cup {NoOrder}]
  BY DEF PaperInit, Memories
<1>3. Flat \in Held /\ TrueBook(Flat) /\ Flat.qty = 0 /\ Flat.realized = 0
  BY DEF Flat, Held, TrueBook
<1>4. Allocated \in Int
  BY PaperAssumption
<1>5. ASSUME NEW os, \A i \in Ids : os[i] = NoOrder
      PROVE  Cardinality(Free(os)) >= 2 * Cardinality(RestingIn(os)) /\ Covered(Flat, os)
  <2>1. RestingIn(os) = {}
    BY <1>5 DEF RestingIn
  <2>2. Cardinality(RestingIn(os)) = 0
    BY <2>1, FS_EmptySet
  <2>3. Free(os) \subseteq Ids
    BY DEF Free
  <2>4. Cardinality(Free(os)) \in Nat
    BY <2>3, IdsFinite, FS_Subset, FS_CardinalityType
  <2> QED
    BY <1>3, <2>2, <2>4, FlatCovered
<1>6. Sound(oms, position)
  <2>1. \A i \in Ids : MirrorOf(oms[i], known[i], orderRows[i])
    BY <1>1 DEF MirrorOf
  <2> QED
    BY <1>1, <1>2, <1>3, <1>5, <2>1 DEF Sound
<1>7. RowsSound
  BY <1>1, <1>3, <1>5 DEF RowsSound
<1>8. MirrorsTyped
  BY <1>1, <1>2 DEF MirrorsTyped
<1>9. TablesTyped
  BY <1>1, <1>2, <1>3, <1>4 DEF TablesTyped
<1>10. BridgeOK /\ DatesTyped /\ DayKept
  <2>1. BridgeOK
    BY <1>1 DEF BridgeOK
  <2>2. DatesTyped
    <3>1. day \in Nat /\ late \in 0..day /\ dayPnl \in Int
      BY <1>1
    <3>2. overtaken \in BOOLEAN
      BY <1>1
    <3> QED
      BY <3>1, <3>2 DEF DatesTyped
  <2>3. stateRow.date = 0 /\ day = 1 /\ dayPnl = 0
    BY <1>1
  <2>4. DayKept
    BY <2>3 DEF DayKept
  <2> QED
    BY <2>1, <2>2, <2>4
<1>11. FillsMatch
  BY <1>1 DEF FillsMatch, RowsOnce, OrdersOf, FilledRow
<1>12. EquityIsRealized
  BY <1>1, <1>3, <1>4 DEF EquityIsRealized
<1> QED
  BY <1>6, <1>7, <1>8, <1>9, <1>10, <1>11, <1>12 DEF PaperInv

\* Every step.
LEMMA PaperInvNext == ASSUME PaperInv, [PaperNext]_paperVars PROVE PaperInv'
<1>1. ASSUME NEW e \in Entries, NEW pid \in Submissions, NEW mark \in Marks \cup {0}, SubmitEntry(e, pid, mark)
      PROVE  PaperInv'
  BY <1>1, SubmitEntryStep
<1>2. ASSUME NEW pid \in Submissions, NEW mark \in Marks \cup {0}, Flatten(pid, mark)
      PROVE  PaperInv'
  BY <1>2, FlattenStep
<1>3. CASE CancelOpenEntries
  BY <1>3, CancelOpenEntriesStep
<1>4. ASSUME NEW mark \in Marks, StartSweep(mark)
      PROVE  PaperInv'
  BY <1>4, StartSweepStep
<1>5. ASSUME NEW i \in Ids, SweepOrder(i)
      PROVE  PaperInv'
  BY <1>5, SweepOrderIs
<1>6. CASE Persist
  BY <1>6, PersistStep
<1>7. CASE PersistRefused
  BY <1>7, NotPersisted DEF PersistRefused
<1>8. CASE TransactionFails
  BY <1>8, NotPersisted DEF TransactionFails
<1>9. CASE Reload
  BY <1>9, ReloadStep
<1>10. CASE Midnight
  BY <1>10, MidnightStep
<1>11. CASE UNCHANGED paperVars
  <2>1. /\ UNCHANGED <<bridge, known, author, kept, paperTables, day, overtaken, dayPnl>>
        /\ oms' = oms /\ position' = position /\ late' = late
    BY <1>11 DEF paperVars, bridgeMemory, dates
  <2>2. BridgeOK' /\ late' \in 0..day /\ Sound(oms', position')
    BY <2>1 DEF PaperInv, BridgeOK, DatesTyped
  <2> QED
    BY <2>1, <2>2, MemoryStep
<1> QED
  BY <1>1, <1>2, <1>3, <1>4, <1>5, <1>6, <1>7, <1>8, <1>9, <1>10, <1>11 DEF PaperNext, BridgeStep

-----------------------------------------------------------------------------
(* What the invariant says of the books.                                   *)

\* A filled order has one row.
LEMMA OneRow ==
    ASSUME FillsMatch, orderRows \in [Ids -> PaperRows \cup {NoOrder}]
    PROVE  OneFillRow
<1> SUFFICES ASSUME NEW i \in Ids
             PROVE  Cardinality({n \in DOMAIN fillTable : fillTable[n].order = i})
                        = IF RowOrders[i] # NoOrder /\ RowOrders[i].status = "filled" THEN 1 ELSE 0
  BY DEF OneFillRow
<1> DEFINE rows == {n \in DOMAIN fillTable : fillTable[n].order = i}
<1>1. RowOrders[i] # NoOrder /\ RowOrders[i].status = "filled" => FilledRow(i)
  BY DEF RowOrders, FilledRow
<1>2. CASE i \in OrdersOf(fillTable)
  <2>1. PICK n \in DOMAIN fillTable : fillTable[n].order = i
    BY <1>2 DEF OrdersOf
  <2>2. \A m \in DOMAIN fillTable : fillTable[m].order = i => m = n
    BY <2>1 DEF FillsMatch, RowsOnce
  <2>3. rows = {n}
    BY <2>1, <2>2
  <2>4. Cardinality(rows) = 1
    BY <2>3, FS_Singleton
  <2>5. FilledRow(i)
    BY <1>2 DEF FillsMatch
  <2>6. RowOrders[i] = orderRows[i].o /\ orderRows[i].o \in PaperOrders
    BY <2>5 DEF FilledRow, RowOrders, PaperRows
  <2>7. RowOrders[i] # NoOrder /\ RowOrders[i].status = "filled"
    BY <2>5, <2>6, PaperAssumption DEF FilledRow
  <2> QED
    BY <2>4, <2>7
<1>3. CASE i \notin OrdersOf(fillTable)
  <2>1. rows = {}
    BY <1>3 DEF OrdersOf
  <2>2. Cardinality(rows) = 0
    BY <2>1, FS_EmptySet
  <2>3. ~FilledRow(i)
    BY <1>3 DEF FillsMatch
  <2> QED
    BY <1>1, <2>2, <2>3
<1> QED
  BY <1>2, <1>3

\* BooksAgree.
LEMMA BooksFollow == ASSUME PaperInv PROVE BooksAgree
<1>1. MirrorIsDatabase
  BY DEF PaperInv, MirrorsTyped, Sound, MirrorOf, MirrorIsDatabase
<1>2. OneFillRow
  BY OneRow DEF PaperInv, TablesTyped
<1>3. DailyIsToday /\ EquityIsRealized
  BY DEF PaperInv, DayKept, DailyIsToday
<1>4. RealizedIsCash
  BY DEF PaperInv, Sound, TrueBook, RealizedIsCash
<1> QED
  BY <1>1, <1>2, <1>3, <1>4 DEF BooksAgree

\* StopsCoverPosition.
LEMMA StopsFollow == ASSUME PaperInv PROVE StopsCoverPosition
<1>1. StopUnits(position, oms) >= Size(position)
  BY CoveredIs DEF PaperInv, Sound
<1>2. RowOrders \in Memories
  BY DEF PaperInv, TablesTyped, PaperRows, RowOrders, Memories
<1>3. posRow \in Held /\ Covered(posRow, RowOrders)
  BY DEF PaperInv, TablesTyped, RowsSound
<1>4. StopUnits(posRow, RowOrders) >= Size(posRow)
  BY <1>2, <1>3, CoveredIs
<1> QED
  BY <1>1, <1>4 DEF StopsCoverPosition

\* Whatever transactions fail and whenever the process restarts, the memory agrees with
\* the rows, the mirrors are the rows, and both books are covered by their open stops
\* (persistLocked, hydrate, placeProtectivesLocked, flattenLocked).
THEOREM PaperInvariant == PaperSpec => []PaperInv
<1>1. PaperInit => PaperInv
  BY PaperInvInit
<1>2. PaperInv /\ [PaperNext]_paperVars => PaperInv'
  BY PaperInvNext
<1> QED
  BY <1>1, <1>2, PTL DEF PaperSpec

\* The books agree, no position is ever without its stops, in memory or in the rows, and
\* no fill of a reduce-only order turns one over (applyFill, fillProtectiveLocked,
\* writeStrategyState).
THEOREM PaperBooksHold == PaperSpec => PaperBooks
<1>1. PaperInv => BooksAgree /\ StopsCoverPosition
  BY BooksFollow, StopsFollow
<1> DEFINE NeverFlips ==
             \A i \in Ids : SweepOrder(i) /\ oms[i].kind # "entry" =>
                 IF position.qty >= 0 THEN position'.qty \in 0..position.qty ELSE position'.qty \in position.qty..0
<1>2. PaperInv /\ [PaperNext]_paperVars => [NeverFlips]_paperVars
  BY SweepOrderIs
<1> HIDE DEF NeverFlips
<1>3. PaperSpec => [](BooksAgree /\ StopsCoverPosition)
  BY <1>1, PaperInvariant, PTL
<1>4. PaperSpec => [][NeverFlips]_paperVars
  BY <1>2, PaperInvariant, PTL DEF PaperSpec
<1> QED
  BY <1>3, <1>4 DEF PaperBooks, ReduceOnlyNeverFlips, NeverFlips

-----------------------------------------------------------------------------
(* The replay of the gate, fill by fill.                                   *)

\* A function on the sets of places in a list that is the walk over them.
IsWalk(it, s, seed, D) ==
    it = [T \in SUBSET D |-> IF T = {} THEN WalkFrom(seed)
                             ELSE WalkStep(it[T \ {Max(T)}], s[Max(T)])]

SameAt(s, t, D) == \A n \in D : s[n] = t[n]

\* There is a last place.
LEMMA LastPlace ==
    ASSUME NEW S, IsFiniteSet(S), S \subseteq Int, S # {}
    PROVE  Max(S) \in S /\ S \ {Max(S)} # S /\ \A y \in S : Max(S) >= y
<1> DEFINE HasLast(T) == T # {} => \E m \in T : \A y \in T : m >= y
           P == {T \in SUBSET S : HasLast(T)}
<1>1. ASSUME NEW T \in SUBSET S, \A U \in SUBSET T : U # T => U \in P
      PROVE  T \in P
  <2> SUFFICES ASSUME T # {} PROVE \E m \in T : \A y \in T : m >= y
    OBVIOUS
  <2>1. PICK x \in T : TRUE
    OBVIOUS
  <2> DEFINE V == T \ {x}
  <2>2. CASE V = {}
    BY <2>1, <2>2
  <2>3. CASE V # {}
    <3>1. V \in SUBSET T /\ V # T
      BY <2>1
    <3>2. V \in P
      BY <1>1, <3>1
    <3>3. PICK m \in V : \A y \in V : m >= y
      BY <2>3, <3>2
    <3> QED
      BY <2>1, <3>3
  <2> QED
    BY <2>2, <2>3
<1> HIDE DEF P
<1>2. S \in P
  BY <1>1, SetInduction
<1>3. \E m \in S : \A y \in S : m >= y
  BY <1>2 DEF P
<1> QED
  BY <1>3 DEF Max

\* Walks over the same fills agree wherever both are defined.
LEMMA WalksAgree ==
    ASSUME NEW s, NEW t, NEW seed, NEW D \in SUBSET Int, IsFiniteSet(D), SameAt(s, t, D),
           NEW A, NEW B, D \subseteq A, D \subseteq B,
           NEW i, NEW j, IsWalk(i, s, seed, A), IsWalk(j, t, seed, B)
    PROVE  i[D] = j[D]
<1> DEFINE P == {T \in SUBSET D : i[T] = j[T]}
<1>1. ASSUME NEW T \in SUBSET D, \A U \in SUBSET T : U # T => U \in P
      PROVE  T \in P
  <2>1. T \in SUBSET A /\ T \in SUBSET B
    OBVIOUS
  <2>2. /\ i[T] = IF T = {} THEN WalkFrom(seed) ELSE WalkStep(i[T \ {Max(T)}], s[Max(T)])
        /\ j[T] = IF T = {} THEN WalkFrom(seed) ELSE WalkStep(j[T \ {Max(T)}], t[Max(T)])
    BY <2>1 DEF IsWalk
  <2>3. CASE T = {}
    BY <2>2, <2>3
  <2>4. CASE T # {}
    <3>1. Max(T) \in T /\ T \ {Max(T)} # T
      BY <2>4, FS_Subset, LastPlace
    <3>2. T \ {Max(T)} \in P
      BY <1>1, <3>1
    <3> QED
      BY <2>2, <2>4, <3>1, <3>2 DEF SameAt
  <2> QED
    BY <2>3, <2>4
<1> HIDE DEF P
<1>2. D \in P
  BY <1>1, SetInduction
<1> QED
  BY <1>2 DEF P

\* Every finite set of places has a walk.
LEMMA WalkExists ==
    ASSUME NEW s, NEW seed, NEW D \in SUBSET Int, IsFiniteSet(D)
    PROVE  \E it : IsWalk(it, s, seed, D)
<1> DEFINE P == {T \in SUBSET D : \E it : IsWalk(it, s, seed, T)}
<1>1. ASSUME NEW T \in SUBSET D, \A U \in SUBSET T : U # T => U \in P
      PROVE  T \in P
  <2> DEFINE Of(U) == CHOOSE it : IsWalk(it, s, seed, U)
             it == [U \in SUBSET T |-> IF U = {} THEN WalkFrom(seed)
                                       ELSE WalkStep(Of(U \ {Max(U)})[U \ {Max(U)}], s[Max(U)])]
  <2>1. \A U \in SUBSET T : U # T => IsWalk(Of(U), s, seed, U)
    BY <1>1
  <2>2. ASSUME NEW U \in SUBSET T, U # {}
        PROVE  it[U \ {Max(U)}] = Of(U \ {Max(U)})[U \ {Max(U)}]
    <3> DEFINE V == U \ {Max(U)}
               W == V \ {Max(V)}
    <3>1. V \in SUBSET T /\ V # T /\ IsFiniteSet(V) /\ V \subseteq Int
      <4>1. IsFiniteSet(U) /\ U \subseteq Int
        BY FS_Subset
      <4>2. Max(U) \in U
        BY <2>2, <4>1, LastPlace
      <4>3. IsFiniteSet(V)
        BY <4>1, FS_Subset
      <4> QED
        BY <4>1, <4>2, <4>3
    <3>2. IsWalk(Of(V), s, seed, V)
      BY <2>1, <3>1
    <3>3. Of(V)[V] = IF V = {} THEN WalkFrom(seed) ELSE WalkStep(Of(V)[W], s[Max(V)])
      BY <3>2 DEF IsWalk
    <3>4. CASE V = {}
      BY <3>1, <3>3, <3>4
    <3>5. CASE V # {}
      <4>1. W \in SUBSET T /\ W # T /\ IsFiniteSet(W) /\ W \subseteq V /\ W \subseteq Int
        BY <3>1, <3>5, LastPlace, FS_Subset
      <4>2. IsWalk(Of(W), s, seed, W)
        BY <2>1, <4>1
      <4>3. Of(W)[W] = Of(V)[W]
        <5> DEFINE i == Of(W)
                   j == Of(V)
        <5>1. /\ IsWalk(i, s, seed, W) /\ IsWalk(j, s, seed, V) /\ SameAt(s, s, W)
              /\ IsFiniteSet(W) /\ W \subseteq Int /\ W \subseteq W /\ W \subseteq V
          BY <3>2, <4>1, <4>2 DEF SameAt
        <5> HIDE DEF i, j, W, V
        <5>2. i[W] = j[W]
          BY <5>1, WalksAgree
        <5> QED
          BY <5>2 DEF i, j
      <4>4. it[V] = WalkStep(Of(W)[W], s[Max(V)])
        BY <3>1, <3>5
      <4> QED
        BY <3>3, <3>5, <4>3, <4>4
    <3> QED
      BY <3>4, <3>5
  <2> HIDE DEF Of
  <2>3. \A U \in SUBSET T : it[U] = IF U = {} THEN WalkFrom(seed) ELSE WalkStep(it[U \ {Max(U)}], s[Max(U)])
    BY <2>2
  <2>4. it = [U \in SUBSET T |-> it[U]]
    OBVIOUS
  <2> HIDE DEF it
  <2>5. IsWalk(it, s, seed, T)
    BY <2>3, <2>4 DEF IsWalk
  <2> QED
    BY <2>5
<1> HIDE DEF P
<1>2. D \in P
  BY <1>1, SetInduction
<1> QED
  BY <1>2 DEF P

\* The places of a list.
LEMMA Places ==
    ASSUME NEW F, NEW s \in Seq(F)
    PROVE  IsFiniteSet(DOMAIN s) /\ DOMAIN s \subseteq Int /\ DOMAIN s = 1..Len(s) /\ Len(s) \in Nat
<1>1. DOMAIN s = 1..Len(s) /\ Len(s) \in Nat
  OBVIOUS
<1>2. IsFiniteSet(1..Len(s))
  BY <1>1, FS_Interval
<1> QED
  BY <1>1, <1>2

LEMMA WalkIs ==
    ASSUME NEW F, NEW s \in Seq(F), NEW seed
    PROVE  \E it : IsWalk(it, s, seed, DOMAIN s) /\ Walk(s, seed) = it[DOMAIN s]
<1>1. \E it : IsWalk(it, s, seed, DOMAIN s)
  BY Places, WalkExists
<1> DEFINE it == CHOOSE i : IsWalk(i, s, seed, DOMAIN s)
<1>2. IsWalk(it, s, seed, DOMAIN s)
  BY <1>1
<1>3. Walk(s, seed) = it[DOMAIN s]
  BY DEF Walk, FoldLeft, MapThenFoldSet, IsWalk
<1> QED
  BY <1>2, <1>3

\* What one step keeps, the walk keeps; W is a set in the place of a predicate.
LEMMA WalkKeeps ==
    ASSUME NEW F, NEW s \in Seq(F), NEW seed, NEW W, WalkFrom(seed) \in W,
           \A w \in W, f \in F : WalkStep(w, f) \in W
    PROVE  Walk(s, seed) \in W
<1>1. PICK it : IsWalk(it, s, seed, DOMAIN s) /\ Walk(s, seed) = it[DOMAIN s]
  BY WalkIs
<1>2. IsFiniteSet(DOMAIN s) /\ DOMAIN s \subseteq Int
  BY Places
<1> DEFINE D == DOMAIN s
           P == {T \in SUBSET D : it[T] \in W}
<1>3. ASSUME NEW T \in SUBSET D, \A U \in SUBSET T : U # T => U \in P
      PROVE  T \in P
  <2>1. it[T] = IF T = {} THEN WalkFrom(seed) ELSE WalkStep(it[T \ {Max(T)}], s[Max(T)])
    BY <1>1 DEF IsWalk
  <2>2. CASE T = {}
    BY <2>1, <2>2
  <2>3. CASE T # {}
    <3>1. Max(T) \in T /\ T \ {Max(T)} # T
      BY <1>2, <2>3, FS_Subset, LastPlace
    <3>2. it[T \ {Max(T)}] \in W /\ s[Max(T)] \in F
      BY <1>3, <3>1
    <3> QED
      BY <2>1, <2>3, <3>2
  <2> QED
    BY <2>2, <2>3
<1> HIDE DEF P, D
<1>4. D \in P
  BY <1>2, <1>3, SetInduction DEF D
<1> QED
  BY <1>1, <1>4 DEF P, D

\* The walk over no fills, and over one more.
LEMMA WalkEmpty == ASSUME NEW seed PROVE Walk(<<>>, seed) = WalkFrom(seed)
<1>1. <<>> \in Seq({}) /\ DOMAIN <<>> = {}
  OBVIOUS
<1>2. PICK it : IsWalk(it, <<>>, seed, DOMAIN <<>>) /\ Walk(<<>>, seed) = it[DOMAIN <<>>]
  BY <1>1, WalkIs
<1> QED
  BY <1>1, <1>2 DEF IsWalk

\* One more fill is one more step.
LEMMA WalkAppend ==
    ASSUME NEW F, NEW s \in Seq(F), NEW x \in F, NEW seed
    PROVE  Walk(Append(s, x), seed) = WalkStep(Walk(s, seed), x)
<1> DEFINE t == Append(s, x)
           n == Len(s)
<1>1. /\ t \in Seq(F) /\ n \in Nat /\ DOMAIN s = 1..n /\ DOMAIN t = 1..(n + 1)
      /\ t[n + 1] = x /\ \A m \in 1..n : t[m] = s[m]
  OBVIOUS
<1> HIDE DEF t, n
<1>2. IsFiniteSet(1..n) /\ IsFiniteSet(1..(n + 1))
  BY <1>1, Places
<1>3. PICK i : IsWalk(i, s, seed, 1..n) /\ Walk(s, seed) = i[1..n]
  BY <1>1, WalkIs
<1>4. PICK j : IsWalk(j, t, seed, 1..(n + 1)) /\ Walk(t, seed) = j[1..(n + 1)]
  BY <1>1, WalkIs
<1>5. j[1..n] = i[1..n]
  <2>1. 1..n \subseteq 1..(n + 1) /\ 1..n \subseteq Int /\ SameAt(t, s, 1..n)
    BY <1>1 DEF SameAt
  <2> QED
    BY <1>1, <1>2, <1>3, <1>4, <2>1, WalksAgree
<1>6. Max(1..(n + 1)) = n + 1 /\ (1..(n + 1)) \ {n + 1} = 1..n /\ 1..(n + 1) # {}
  <2>1. n + 1 \in 1..(n + 1) /\ 1..(n + 1) \subseteq Int
    BY <1>1
  <2>2. Max(1..(n + 1)) \in 1..(n + 1) /\ Max(1..(n + 1)) >= n + 1
    BY <1>2, <2>1, LastPlace
  <2> QED
    BY <1>1, <2>1, <2>2
<1>7. j[1..(n + 1)] = WalkStep(j[1..n], t[n + 1])
  BY <1>4, <1>6 DEF IsWalk
<1> QED
  BY <1>1, <1>3, <1>4, <1>5, <1>7 DEF t

-----------------------------------------------------------------------------
(* Closed trades and the open span account for the equity.                 *)

GateFill   == [buy : BOOLEAN, reduce : BOOLEAN, qty : Int, price : Int, fee : Int, ts : Int]
GateTrade  == [pnl : Int, notional : Int]
GateSample == [equity : Int, peak : Int]
GateWalk   == [qty : Int, cost : Int, pnl : Int, notional : Int, trades : Seq(GateTrade),
               equity : Int, peak : Int, curve : Seq(GateSample)]

\* What one fill realizes is a number, and the book goes on as one.
LEMMA StepTyped ==
    ASSUME NEW w \in GateWalk, NEW f \in GateFill
    PROVE  /\ WalkStep(w, f) \in GateWalk
           /\ \E gross \in Int :
                 /\ WalkStep(w, f).equity = w.equity + gross - f.fee
                 /\ \/ /\ WalkStep(w, f).trades = w.trades
                       /\ WalkStep(w, f).pnl = w.pnl + gross - f.fee
                    \/ \E n \in Int :
                          /\ WalkStep(w, f).trades = Append(w.trades, [pnl |-> w.pnl + gross - f.fee, notional |-> n])
                          /\ WalkStep(w, f).pnl = 0
<1> DEFINE qty    == Clamped(w, f)
           whole  == Magnitude(w.qty)
           closed == IF Opposes(w, f) THEN Smaller(qty, whole) ELSE 0
           gross  == RealizedBy(w, f, closed)
           span   == [pnl |-> w.pnl + gross - f.fee, notional |-> w.notional + closed * f.price]
           ends   == closed > 0 /\ closed = whole
           equity == w.equity + gross - f.fee
           peak   == Bigger(w.peak, equity)
           cost   == CostAfterFill(w, f, qty)
           sample == [equity |-> equity, peak |-> peak]
<1>1. /\ w.qty \in Int /\ w.cost \in Int /\ w.pnl \in Int /\ w.notional \in Int /\ w.equity \in Int
      /\ w.peak \in Int /\ w.trades \in Seq(GateTrade) /\ w.curve \in Seq(GateSample)
  BY DEF GateWalk
<1>2. f.buy \in BOOLEAN /\ f.reduce \in BOOLEAN /\ f.qty \in Int /\ f.price \in Int /\ f.fee \in Int
  BY DEF GateFill
<1>3. whole \in Nat /\ (Opposes(w, f) => whole \in Nat \ {0})
  BY <1>1 DEF Magnitude, Opposes
<1>4. qty \in Int
  BY <1>2, <1>3 DEF Clamped, Smaller
<1>5. closed \in Int /\ (closed # 0 => whole \in Nat \ {0})
  BY <1>3, <1>4 DEF Smaller
<1>6. cost \in Int
  <2>1. CASE ~Opposes(w, f)
    <3>1. f.price * qty \in Int
      BY <1>2, <1>4
    <3> HIDE DEF qty
    <3> QED
      BY <1>1, <2>1, <3>1 DEF CostAfterFill
  <2>2. CASE Opposes(w, f) /\ qty > whole
    <3>1. f.price * (qty - whole) \in Int
      BY <1>2, <1>3, <1>4
    <3> HIDE DEF qty
    <3> QED
      BY <2>2, <3>1 DEF CostAfterFill
  <2>3. CASE Opposes(w, f) /\ ~(qty > whole)
    <3>1. w.cost * qty \in Int
      BY <1>1, <1>4
    <3>2. (w.cost * qty) \div whole \in Int
      BY <1>3, <2>3, <3>1, DivType
    <3> HIDE DEF qty
    <3> QED
      BY <1>1, <2>3, <3>2 DEF CostAfterFill
  <2> QED
    BY <2>1, <2>2, <2>3
<1>7. gross \in Int
  <2>1. CASE closed = 0
    BY <2>1 DEF RealizedBy
  <2>2. CASE closed # 0
    <3>1. f.price * closed \in Int /\ w.cost * closed \in Int
      BY <1>1, <1>2, <1>5
    <3>2. (w.cost * closed) \div whole \in Int
      BY <1>5, <2>2, <3>1, DivType
    <3> HIDE DEF closed
    <3>3. gross = (IF f.buy THEN -1 ELSE 1) * (f.price * closed - (w.cost * closed) \div whole)
      BY <2>2 DEF RealizedBy
    <3>4. f.price * closed - (w.cost * closed) \div whole \in Int
      BY <3>1, <3>2
    <3> QED
      BY <3>3, <3>4
  <2> QED
    BY <2>1, <2>2
<1>8. w.notional + closed * f.price \in Int
  BY <1>1, <1>2, <1>5
<1>9. WalkStep(w, f) =
        [qty      |-> w.qty + (IF f.buy THEN qty ELSE -qty),
         cost     |-> cost,
         pnl      |-> IF ends THEN 0 ELSE span.pnl,
         notional |-> IF ends THEN 0 ELSE span.notional,
         trades   |-> IF ends THEN Append(w.trades, span) ELSE w.trades,
         equity   |-> equity,
         peak     |-> peak,
         curve    |-> Append(w.curve, sample)]
  BY DEF WalkStep
<1>10. w.qty + (IF f.buy THEN qty ELSE -qty) \in Int
  BY <1>1, <1>2, <1>4
<1>11. equity \in Int /\ peak \in Int
  BY <1>1, <1>2, <1>7 DEF Bigger
<1>12. span \in GateTrade
  <2>1. w.pnl + gross - f.fee \in Int
    BY <1>1, <1>2, <1>7
  <2> HIDE DEF gross, closed
  <2> QED
    BY <1>8, <2>1 DEF GateTrade
<1>13. sample \in GateSample
  <2> HIDE DEF equity, peak
  <2> QED
    BY <1>11 DEF GateSample
<1>14. span.pnl = w.pnl + gross - f.fee /\ span = [pnl |-> w.pnl + gross - f.fee, notional |-> span.notional]
       /\ span.notional \in Int /\ span.pnl \in Int
  BY <1>12 DEF GateTrade
<1>15. equity = w.equity + gross - f.fee
  OBVIOUS
<1> HIDE DEF qty, whole, closed, gross, span, ends, equity, peak, cost, sample
<1>16. Append(w.trades, span) \in Seq(GateTrade) /\ Append(w.curve, sample) \in Seq(GateSample)
  BY <1>1, <1>12, <1>13
<1>17. WalkStep(w, f) \in GateWalk
  BY <1>1, <1>6, <1>9, <1>10, <1>11, <1>14, <1>16 DEF GateWalk
<1>18. /\ WalkStep(w, f).equity = w.equity + gross - f.fee
       /\ \/ /\ WalkStep(w, f).trades = w.trades
             /\ WalkStep(w, f).pnl = w.pnl + gross - f.fee
          \/ /\ WalkStep(w, f).trades = Append(w.trades, [pnl |-> w.pnl + gross - f.fee, notional |-> span.notional])
             /\ WalkStep(w, f).pnl = 0
  BY <1>9, <1>14, <1>15
<1> QED
  BY <1>7, <1>14, <1>17, <1>18

\* The sum of the closed trades grows by the new one.
LEMMA PnlsAppended ==
    ASSUME NEW s \in Seq(GateTrade), NEW x \in GateTrade
    PROVE  SumOf(Pnls(s)) \in Int /\ SumOf(Pnls(Append(s, x))) = SumOf(Pnls(s)) + x.pnl
<1> DEFINE n == Len(s)
           t == Append(s, x)
           f == Pnls(s)
           g == Pnls(t)
<1>1. /\ n \in Nat /\ DOMAIN s = 1..n /\ t \in Seq(GateTrade) /\ DOMAIN t = 1..(n + 1) /\ t[n + 1] = x
      /\ \A m \in 1..n : t[m] = s[m] /\ s[m] \in GateTrade
  OBVIOUS
<1> HIDE DEF t, n
<1>2. DOMAIN f = 1..n /\ DOMAIN g = 1..(n + 1) /\ g[n + 1] = x.pnl
      /\ \A m \in 1..n : g[m] = f[m] /\ f[m] \in Int
  BY <1>1 DEF Pnls, GateTrade
<1>3. IsFiniteSet(1..n) /\ x.pnl \in Int
  BY <1>1, Places DEF GateTrade
<1>4. SumOf(f) = SumFunctionOnSet(f, 1..n) /\ SumOf(g) = SumFunctionOnSet(g, 1..(n + 1))
  BY <1>2 DEF SumOf, SumFunction
<1> HIDE DEF f, g
<1> DEFINE D == 1..n
<1>5. /\ IsFiniteSet(D) /\ \A m \in D : g[m] = f[m] /\ f[m] \in Int
      /\ n + 1 \notin D /\ D \cup {n + 1} = 1..(n + 1)
  <2>1. D \cup {n + 1} = 1..(n + 1) /\ n + 1 \notin D
    BY <1>1
  <2> QED
    BY <1>2, <1>3, <2>1
<1> HIDE DEF D
<1>6. SumFunctionOnSet(g, D) = SumFunctionOnSet(f, D)
  BY <1>5, SumSame
<1>7. SumFunctionOnSet(f, D) \in Int
  BY <1>5, SumType
<1>8. \A m \in D \cup {n + 1} : g[m] \in Int
  BY <1>2, <1>3, <1>5
<1>9. SumFunctionOnSet(g, D \cup {n + 1}) = SumFunctionOnSet(g, D) + g[n + 1]
  BY <1>5, <1>8, SumAdd
<1> QED
  BY <1>2, <1>4, <1>5, <1>6, <1>7, <1>9 DEF f, g, t, D

\* walk: the equity is the seed, the closed trades and the open span.
LEMMA WalkAccounts ==
    ASSUME NEW s \in Seq(GateFill), NEW seed \in Int
    PROVE  LET w == Walk(s, seed)
           IN w \in GateWalk /\ w.equity = seed + SumOf(Pnls(w.trades)) + w.pnl
<1> DEFINE Accounted(w) == w.equity = seed + SumOf(Pnls(w.trades)) + w.pnl
           W == {w \in GateWalk : Accounted(w)}
<1>1. WalkFrom(seed) \in W
  <2>1. WalkFrom(seed) \in GateWalk
    BY DEF WalkFrom, GateWalk
  <2>2. SumOf(Pnls(<<>>)) = 0
    <3>1. DOMAIN Pnls(<<>>) = {}
      BY DEF Pnls
    <3> QED
      BY <3>1, SumEmpty DEF SumOf, SumFunction
  <2>3. Accounted(WalkFrom(seed))
    BY <2>2 DEF WalkFrom
  <2> QED
    BY <2>1, <2>3
<1>2. ASSUME NEW w \in W, NEW f \in GateFill PROVE WalkStep(w, f) \in W
  <2> DEFINE v == WalkStep(w, f)
  <2>1. v \in GateWalk
    BY StepTyped
  <2>2. PICK gross \in Int :
           /\ v.equity = w.equity + gross - f.fee
           /\ \/ v.trades = w.trades /\ v.pnl = w.pnl + gross - f.fee
              \/ \E n \in Int :
                    /\ v.trades = Append(w.trades, [pnl |-> w.pnl + gross - f.fee, notional |-> n])
                    /\ v.pnl = 0
    BY StepTyped
  <2>3. w.equity \in Int /\ w.pnl \in Int /\ f.fee \in Int /\ w.trades \in Seq(GateTrade) /\ Accounted(w)
    BY DEF GateWalk, GateFill
  <2> HIDE DEF v
  <2>4. CASE v.trades = w.trades /\ v.pnl = w.pnl + gross - f.fee
    <3>1. \A x \in GateTrade : SumOf(Pnls(w.trades)) \in Int
      BY <2>3, PnlsAppended
    <3>2. SumOf(Pnls(w.trades)) \in Int
      <4>1. [pnl |-> 0, notional |-> 0] \in GateTrade
        BY DEF GateTrade
      <4> QED
        BY <3>1, <4>1
    <3>3. Accounted(v)
      BY <2>2, <2>3, <2>4, <3>2
    <3> QED
      BY <2>1, <3>3 DEF v
  <2>5. ASSUME NEW n \in Int,
               v.trades = Append(w.trades, [pnl |-> w.pnl + gross - f.fee, notional |-> n]), v.pnl = 0
        PROVE  v \in W
    <3> DEFINE x == [pnl |-> w.pnl + gross - f.fee, notional |-> n]
    <3>1. w.pnl + gross - f.fee \in Int
      BY <2>2, <2>3
    <3>2. x \in GateTrade /\ x.pnl = w.pnl + gross - f.fee
      BY <2>5, <3>1 DEF GateTrade
    <3>3. v.trades = Append(w.trades, x)
      BY <2>5
    <3> HIDE DEF x
    <3>4. SumOf(Pnls(w.trades)) \in Int /\ SumOf(Pnls(v.trades)) = SumOf(Pnls(w.trades)) + x.pnl
      BY <2>3, <3>2, <3>3, PnlsAppended
    <3>5. Accounted(v)
      BY <2>2, <2>3, <2>5, <3>2, <3>4
    <3> QED
      BY <2>1, <3>5 DEF v
  <2> QED
    BY <2>2, <2>4, <2>5 DEF v
<1> HIDE DEF W
<1>3. Walk(s, seed) \in W
  BY <1>1, <1>2, WalkKeeps
<1> QED
  BY <1>3 DEF W

\* condProfitFactor: what is won outweighs what is lost.
LEMMA ProfitableIs ==
    ASSUME NEW s \in Seq(GateTrade), Profitable(s)
    PROVE  SumOf(Pnls(s)) >= 0 /\ SumOf(Pnls(s)) \in Int
<1> DEFINE D == DOMAIN s
           f == Pnls(s)
           g == [i \in D |-> Bigger(s[i].pnl, 0)]
           h == [i \in D |-> Smaller(s[i].pnl, 0)]
<1>1. IsFiniteSet(D)
  BY Places
<1>2. \A i \in D : f[i] \in Int /\ g[i] \in Int /\ h[i] \in Int /\ f[i] = g[i] + h[i]
  <2>1. ASSUME NEW i \in D PROVE f[i] = s[i].pnl /\ s[i].pnl \in Int
    <3>1. s[i] \in GateTrade
      OBVIOUS
    <3> QED
      BY <3>1 DEF Pnls, GateTrade
  <2> QED
    BY <2>1 DEF Bigger, Smaller
<1>3. DOMAIN f = D /\ DOMAIN g = D /\ DOMAIN h = D
  BY DEF Pnls
<1>4. SumOf(f) = SumFunctionOnSet(f, D) /\ SumOf(g) = SumFunctionOnSet(g, D) /\ SumOf(h) = SumFunctionOnSet(h, D)
  BY <1>3 DEF SumOf, SumFunction
<1>5. GrossProfit(s) = SumOf(g) /\ GrossLoss(s) = -SumOf(h)
  BY DEF GrossProfit, GrossLoss
<1> HIDE DEF f, g, h, D
<1>6. SumFunctionOnSet(f, D) = SumFunctionOnSet(g, D) + SumFunctionOnSet(h, D)
  BY <1>1, <1>2, SumPlus
<1>7. SumFunctionOnSet(g, D) \in Int /\ SumFunctionOnSet(h, D) \in Int
  <2>1. SumFunctionOnSet(g, D) \in Int
    BY <1>1, <1>2, SumType
  <2>2. SumFunctionOnSet(h, D) \in Int
    BY <1>1, <1>2, SumType
  <2> QED
    BY <2>1, <2>2
<1>8. SumOf(f) = SumOf(g) + SumOf(h) /\ SumOf(g) \in Int /\ SumOf(h) \in Int
  BY <1>4, <1>6, <1>7
<1>9. SumOf(g) >= -SumOf(h)
  BY <1>5 DEF Profitable
<1> QED
  BY <1>8, <1>9 DEF f

-----------------------------------------------------------------------------
(* What the gate reads: the rows in the order of their dates.              *)

\* A row comes before itself never, and one of two before the other.
LEMMA BeforeIs ==
    ASSUME fillTable \in Seq(FillRecord), NEW rows \in SUBSET (DOMAIN fillTable)
    PROVE  /\ IsFiniteSet(rows)
           /\ \A n \in rows : /\ RowsBefore(n, rows) \subseteq rows \ {n}
                              /\ IsFiniteSet(RowsBefore(n, rows)) /\ Cardinality(RowsBefore(n, rows)) \in Nat
           /\ \A m, n \in rows : m # n => m \in RowsBefore(n, rows) \/ n \in RowsBefore(m, rows)
           /\ \A m, n \in rows : m \in RowsBefore(n, rows) => RowsBefore(m, rows) \subseteq RowsBefore(n, rows)
<1>1. /\ DOMAIN fillTable \subseteq Int /\ IsFiniteSet(rows)
      /\ \A n \in rows : n \in Int /\ fillTable[n].ts \in Int
  <2>1. DOMAIN fillTable \subseteq Int /\ IsFiniteSet(rows)
    BY Places, FS_Subset
  <2>2. \A n \in rows : fillTable[n] \in FillRecord
    OBVIOUS
  <2> QED
    BY <2>1, <2>2 DEF FillRecord
<1>2. ASSUME NEW n \in rows PROVE RowsBefore(n, rows) \subseteq rows \ {n}
  BY <1>1 DEF RowsBefore
<1>3. \A n \in rows : IsFiniteSet(RowsBefore(n, rows)) /\ Cardinality(RowsBefore(n, rows)) \in Nat
  <2> SUFFICES ASSUME NEW n \in rows
               PROVE  IsFiniteSet(RowsBefore(n, rows)) /\ Cardinality(RowsBefore(n, rows)) \in Nat
    OBVIOUS
  <2>1. RowsBefore(n, rows) \subseteq rows
    BY <1>2
  <2>2. IsFiniteSet(RowsBefore(n, rows))
    BY <1>1, <2>1, FS_Subset
  <2> QED
    BY <2>2, FS_CardinalityType
<1>4. \A m, n \in rows : m # n => m \in RowsBefore(n, rows) \/ n \in RowsBefore(m, rows)
  BY <1>1 DEF RowsBefore
<1>5. ASSUME NEW m \in rows, NEW n \in rows, m \in RowsBefore(n, rows)
      PROVE  RowsBefore(m, rows) \subseteq RowsBefore(n, rows)
  BY <1>1, <1>5 DEF RowsBefore
<1> QED
  BY <1>1, <1>2, <1>3, <1>4, <1>5

\* Every place in the answer is a row's.
LEMMA RankTaken ==
    ASSUME fillTable \in Seq(FillRecord), NEW rows \in SUBSET (DOMAIN fillTable),
           NEW k \in 1..Cardinality(rows)
    PROVE  \E n \in rows : Cardinality(RowsBefore(n, rows)) = k - 1
<1> DEFINE c == Cardinality(rows)
           D == 1..c
           Card(n) == Cardinality(RowsBefore(n, rows))
<1>1. /\ IsFiniteSet(rows) /\ c \in Nat
      /\ \A n \in rows : Card(n) \in Nat
  BY BeforeIs, FS_CardinalityType
<1>2. ASSUME NEW n \in rows PROVE Card(n) < c
  <2>1. IsFiniteSet(rows \ {n}) /\ Cardinality(rows \ {n}) = c - 1
    BY <1>1, FS_RemoveElement
  <2>2. Card(n) <= c - 1
    BY <1>1, <2>1, BeforeIs, FS_Subset
  <2> QED
    BY <1>1, <2>2
<1>3. ASSUME NEW m \in rows, NEW n \in rows, m \in RowsBefore(n, rows) PROVE Card(m) < Card(n)
  <2> DEFINE B == RowsBefore(n, rows)
             A == RowsBefore(m, rows)
  <2>1. IsFiniteSet(B) /\ A \subseteq B \ {m} /\ m \in B
    BY <1>3, BeforeIs
  <2> HIDE DEF A, B
  <2>2. IsFiniteSet(B \ {m}) /\ Cardinality(B \ {m}) = Cardinality(B) - 1
    BY <2>1, FS_RemoveElement
  <2>3. Cardinality(A) <= Cardinality(B) - 1
    BY <2>1, <2>2, FS_Subset
  <2>4. Cardinality(A) \in Nat /\ Cardinality(B) \in Nat
    BY <1>1 DEF A, B
  <2> QED
    BY <2>3, <2>4 DEF A, B
<1>4. \A m, n \in rows : m # n => Card(m) # Card(n)
  BY <1>1, <1>3, BeforeIs
<1>5. ASSUME \A n \in rows : Card(n) # k - 1 PROVE FALSE
  <2> DEFINE rank == [n \in rows |-> Card(n) + 1]
  <2>1. k \in D /\ IsFiniteSet(D) /\ Cardinality(D) = c
    BY <1>1, FS_Interval
  <2>2. IsFiniteSet(D \ {k}) /\ Cardinality(D \ {k}) = c - 1
    BY <2>1, FS_RemoveElement
  <2>3. rank \in [rows -> D \ {k}]
    <3>1. ASSUME NEW n \in rows PROVE Card(n) + 1 \in D \ {k}
      BY <1>1, <1>2, <1>5
    <3> QED
      BY <3>1
  <2>4. Cardinality(D \ {k}) < Cardinality(rows)
    BY <1>1, <2>2
  <2> HIDE DEF D
  <2>5. \E m, n \in rows : m # n /\ rank[m] = rank[n]
    <3> HIDE DEF rank
    <3> QED
      BY <1>1, <2>2, <2>3, <2>4, FS_PigeonHole
  <2>6. PICK m \in rows, n \in rows : m # n /\ Card(m) + 1 = Card(n) + 1
    BY <2>5
  <2>7. Card(m) = Card(n)
    <3> HIDE DEF Card
    <3> QED
      BY <1>1, <2>6
  <2> QED
    BY <1>4, <2>6, <2>7
<1> QED
  BY <1>5

\* A row joined with its order.
LEMMA JoinedTyped ==
    ASSUME PaperInv, NEW n \in DOMAIN fillTable
    PROVE  /\ JoinedRow(fillTable[n]) \in GateFill
           /\ fillTable[n].order \in Ids /\ FilledRow(fillTable[n].order)
           /\ fillTable[n].ts \in Nat
<1> DEFINE r == fillTable[n]
           i == r.order
<1>1. r \in FillRecord
  BY DEF PaperInv, TablesTyped
<1>2. r.qty \in Int /\ r.price \in Int /\ r.ts \in Nat /\ Fee \in Int
  BY <1>1, PaperAssumption DEF FillRecord
<1>3. i \in Ids /\ FilledRow(i)
  <2>1. i \in OrdersOf(fillTable)
    BY DEF OrdersOf
  <2> QED
    BY <2>1 DEF PaperInv, FillsMatch
<1>4. orderRows[i].o \in PaperOrders
  BY <1>3 DEF FilledRow, PaperInv, TablesTyped, PaperRows
<1>5. orderRows[i].o.buy \in BOOLEAN /\ (orderRows[i].o.kind # "entry") \in BOOLEAN
  BY <1>4 DEF PaperOrders
<1>6. JoinedRow(r) = [buy |-> orderRows[i].o.buy, reduce |-> orderRows[i].o.kind # "entry",
                      qty |-> r.qty, price |-> r.price, fee |-> Fee, ts |-> r.ts]
  BY DEF JoinedRow
<1> HIDE DEF r, i
<1>7. JoinedRow(r) \in GateFill
  BY <1>2, <1>5, <1>6 DEF GateFill
<1> QED
  BY <1>2, <1>3, <1>7 DEF r, i

\* ListPaperGateFills returns fills.
LEMMA GateFillsTyped ==
    ASSUME PaperInv, NEW since
    PROVE  PaperGateFills(since) \in Seq(GateFill)
<1> DEFINE rows == {n \in DOMAIN fillTable : fillTable[n].ts >= since}
           at(k) == CHOOSE n \in rows : Cardinality(RowsBefore(n, rows)) = k - 1
           fs == [k \in 1..Cardinality(rows) |-> JoinedRow(fillTable[at(k)])]
<1>1. rows \in SUBSET (DOMAIN fillTable) /\ fillTable \in Seq(FillRecord)
  BY DEF PaperInv, TablesTyped
<1>2. PaperGateFills(since) = fs
  BY DEF PaperGateFills
<1> HIDE DEF rows
<1>3. Cardinality(rows) \in Nat
  BY <1>1, BeforeIs, FS_CardinalityType
<1>4. \A k \in 1..Cardinality(rows) : at(k) \in rows
  BY <1>1, RankTaken
<1> HIDE DEF at
<1>5. \A k \in 1..Cardinality(rows) : fs[k] \in GateFill
  BY <1>1, <1>4, JoinedTyped
<1> HIDE DEF fs
<1>6. fs = [k \in 1..Cardinality(rows) |-> fs[k]]
  BY DEF fs
<1> QED
  BY <1>2, <1>3, <1>5, <1>6

\* SpansAddUp.
LEMMA SpansFollow == ASSUME PaperInv PROVE SpansAddUp
<1> SUFFICES ASSUME NEW since \in 1..MaxDay
             PROVE  LET in == GateInput(since)
                        w  == Walk(in.fills, in.seed)
                    IN /\ w.equity = in.seed + SumOf(Pnls(w.trades)) + w.pnl
                       /\ GatePasses(in) => SumOf(Pnls(w.trades)) >= 0 /\ w.equity - w.pnl >= in.seed
  BY DEF SpansAddUp
<1> DEFINE in  == GateInput(since)
           w   == Walk(in.fills, in.seed)
           sum == SumOf(Pnls(w.trades))
<1>1. in.fills \in Seq(GateFill) /\ in.seed \in Int
  BY GateFillsTyped, PaperAssumption DEF GateInput
<1>2. w \in GateWalk /\ w.equity = in.seed + sum + w.pnl
  <2> HIDE DEF in
  <2> QED
    BY <1>1, WalkAccounts
<1>3. w.trades \in Seq(GateTrade) /\ w.pnl \in Int /\ w.equity \in Int
  BY <1>2 DEF GateWalk
<1>4. ASSUME GatePasses(in) PROVE sum >= 0 /\ sum \in Int
  <2>1. Profitable(w.trades)
    BY <1>4 DEF GatePasses
  <2> HIDE DEF w
  <2> QED
    BY <1>3, <2>1, ProfitableIs
<1> HIDE DEF w, sum, in
<1>5. GatePasses(in) => sum >= 0 /\ w.equity - w.pnl >= in.seed
  BY <1>1, <1>2, <1>3, <1>4
<1> QED
  BY <1>2, <1>5 DEF w, sum, in

-----------------------------------------------------------------------------
(* The walk over the rows is the book of the rows.                         *)

\* Filled in memory and not yet in the rows.
UnbookedIn(os) == {i \in Ids : os[i] # NoOrder /\ os[i].status = "filled" /\ known[i] # "filled"}

\* A reduce-only order takes from the position it fills against.
OnlyReduces(o, b) == o.kind # "entry" => Closes(b, o.buy) /\ o.qty <= Size(b)

\* One unbooked fill is all that lies between the memory and its mirror.
Pending(os, b) ==
    /\ UnbookedIn(os) = {} => b = kept
    /\ \A i \in Ids : UnbookedIn(os) = {i} =>
          /\ b = Booked(kept, os[i].buy, os[i].qty, os[i].price)
          /\ OnlyReduces(os[i], kept)

\* While no operation is overtaken, the rows are in the order of their dates.
DatesAscend ==
    ~overtaken => \A n \in DOMAIN fillTable :
        /\ fillTable[n].ts >= 1 /\ fillTable[n].ts <= stateRow.date
        /\ \A m \in DOMAIN fillTable : m < n => fillTable[m].ts <= fillTable[n].ts

JoinedRows == [n \in DOMAIN fillTable |-> JoinedRow(fillTable[n])]

WalkIsBook ==
    ~joined => LET w == Walk(JoinedRows, Allocated)
               IN /\ w.qty = posRow.qty /\ w.cost = posRow.cost
                  /\ w.equity = stateRow.equity /\ w.peak = stateRow.peak

GateInv == PaperInv /\ Pending(oms, position) /\ DatesAscend /\ WalkIsBook

\* Rows in the order of their dates are what the gate reads.
LEMMA ReadInOrder ==
    ASSUME PaperInv, DatesAscend, ~overtaken
    PROVE  PaperGateFills(1) = JoinedRows
<1> DEFINE rows == {n \in DOMAIN fillTable : fillTable[n].ts >= 1}
           L == Len(fillTable)
           at(k) == CHOOSE n \in rows : Cardinality(RowsBefore(n, rows)) = k - 1
<1>1. fillTable \in Seq(FillRecord) /\ DOMAIN fillTable = 1..L /\ L \in Nat
  BY DEF PaperInv, TablesTyped
<1>2. rows = 1..L
  BY <1>1 DEF DatesAscend
<1>3. \A n \in rows : fillTable[n].ts \in Int
  BY JoinedTyped
<1>4. PaperGateFills(1) = [k \in 1..Cardinality(rows) |-> JoinedRow(fillTable[at(k)])]
  BY DEF PaperGateFills
<1> HIDE DEF rows
<1>5. ASSUME NEW n \in rows PROVE RowsBefore(n, rows) = 1..(n - 1)
  <2>1. \A m \in rows : m < n => fillTable[m].ts <= fillTable[n].ts
    BY <1>1, <1>2 DEF DatesAscend
  <2>2. \A m \in rows : n < m => fillTable[n].ts <= fillTable[m].ts
    BY <1>1, <1>2 DEF DatesAscend
  <2>3. \A m \in rows : m \in RowsBefore(n, rows) <=> m < n
    BY <1>1, <1>2, <1>3, <2>1, <2>2 DEF RowsBefore
  <2>4. RowsBefore(n, rows) = {m \in rows : m < n}
    BY <2>3 DEF RowsBefore
  <2> DEFINE B == RowsBefore(n, rows)
  <2> HIDE DEF B
  <2>5. \A m : m \in B <=> m \in 1..L /\ m < n
    BY <1>2, <2>4 DEF B
  <2>6. \A m : m \in B <=> m \in 1..(n - 1)
    BY <1>1, <1>2, <2>5
  <2> QED
    BY <2>6 DEF B
<1>6. ASSUME NEW n \in rows PROVE Cardinality(RowsBefore(n, rows)) = n - 1
  <2>1. n - 1 \in Nat /\ 1 \in Int
    BY <1>1, <1>2
  <2>2. Cardinality(1..(n - 1)) = n - 1
    BY <2>1, FS_Interval
  <2> QED
    BY <1>5, <2>2
<1>7. Cardinality(rows) = L
  BY <1>1, <1>2, FS_Interval
<1>8. ASSUME NEW k \in 1..L PROVE at(k) = k
  <2>1. \E n \in rows : Cardinality(RowsBefore(n, rows)) = k - 1
    BY <1>2, <1>6
  <2>2. at(k) \in rows /\ Cardinality(RowsBefore(at(k), rows)) = k - 1
    BY <2>1
  <2> HIDE DEF at
  <2> QED
    BY <1>1, <1>2, <1>6, <2>2
<1> HIDE DEF at
<1> QED
  BY <1>1, <1>4, <1>7, <1>8 DEF JoinedRows

\* GateReplaysBooks.
LEMMA ReplayFollows == ASSUME GateInv PROVE GateReplaysBooks
<1>1. ~overtaken => PaperGateFills(1) = JoinedRows
  BY ReadInOrder DEF GateInv
<1> QED
  BY <1>1 DEF GateInv, WalkIsBook, GateReplaysBooks

-----------------------------------------------------------------------------
(* What is pending in memory.                                              *)

Unfilled(o) == o = NoOrder \/ o.status # "filled"

\* Nothing fills.
Quietly(os, new) == \A i \in Ids : new[i] = os[i] \/ (Unfilled(os[i]) /\ Unfilled(new[i]))

\* One order fills, as bookFill and applyFill have it.
Fills(i, os, new, b, after) ==
    /\ Unfilled(os[i]) /\ new[i] # NoOrder /\ new[i].status = "filled"
    /\ \A j \in Ids \ {i} : new[j] = os[j] \/ (Unfilled(os[j]) /\ Unfilled(new[j]))
    /\ after = Booked(b, new[i].buy, new[i].qty, new[i].price)
    /\ OnlyReduces(new[i], b)

\* A filled order of the rows is filled in memory as well.
LEMMA KnownFilled ==
    ASSUME NEW os, NEW b, Sound(os, b), NEW i \in Ids, Unfilled(os[i])
    PROVE  known[i] # "filled"
<1>1. MirrorOf(os[i], known[i], orderRows[i])
  BY DEF Sound
<1>2. NoOrder # "filled"
  BY PaperAssumption DEF OrderStatuses
<1> QED
  BY <1>1, <1>2 DEF MirrorOf, Unfilled

\* What is canceled, placed or left alone is pending no more and no less.
LEMMA PendingQuiet ==
    ASSUME NEW os, NEW new, NEW b, Pending(os, b), Quietly(os, new)
    PROVE  Pending(new, b)
<1>1. UnbookedIn(new) = UnbookedIn(os)
  BY DEF Quietly, UnbookedIn, Unfilled
<1>2. \A i \in UnbookedIn(os) : new[i] = os[i]
  BY DEF Quietly, UnbookedIn, Unfilled
<1> QED
  BY <1>1, <1>2 DEF Pending

\* The first unbooked fill is made against the mirror; of two nothing is said.
LEMMA PendingFills ==
    ASSUME NEW os, NEW new, NEW b, NEW after, Sound(os, b), Pending(os, b),
           NEW i \in Ids, Fills(i, os, new, b, after)
    PROVE  Pending(new, after)
<1>1. i \in UnbookedIn(new) /\ i \notin UnbookedIn(os)
  BY KnownFilled DEF Fills, UnbookedIn, Unfilled
<1>2. \A j \in Ids \ {i} : j \in UnbookedIn(new) <=> j \in UnbookedIn(os)
  BY DEF Fills, UnbookedIn, Unfilled
<1>3. UnbookedIn(new) # {}
  BY <1>1
<1>4. ASSUME NEW k \in Ids, UnbookedIn(new) = {k}
      PROVE  after = Booked(kept, new[k].buy, new[k].qty, new[k].price) /\ OnlyReduces(new[k], kept)
  <2>1. k = i
    BY <1>1, <1>4
  <2>2. UnbookedIn(os) = {}
    <3>1. UnbookedIn(os) \subseteq Ids
      BY DEF UnbookedIn
    <3> QED
      BY <1>1, <1>2, <1>4, <2>1, <3>1
  <2>3. b = kept
    BY <2>2 DEF Pending
  <2> QED
    BY <2>1, <2>3 DEF Fills
<1> QED
  BY <1>3, <1>4 DEF Pending

\* An order fills, and what is placed or canceled beside it does not.
LEMMA FillsBeside ==
    ASSUME NEW os \in Memories, NEW i \in Ids, Unfilled(os[i]), NEW o, o # NoOrder, o.status = "filled",
           NEW mid, mid = [os EXCEPT ![i] = o], NEW new, Quietly(mid, new),
           NEW b, NEW after, after = Booked(b, o.buy, o.qty, o.price), OnlyReduces(o, b)
    PROVE  Fills(i, os, new, b, after)
<1>1. mid[i] = o /\ \A j \in Ids \ {i} : mid[j] = os[j]
  BY DEF Memories
<1>2. new[i] = o
  BY <1>1 DEF Quietly, Unfilled
<1> QED
  BY <1>1, <1>2 DEF Fills, Quietly

\* Stops and take-profits are placed open.
LEMMA ProtectivesQuiet ==
    ASSUME NEW os, NEW b, Sound(os, b), Cardinality(Free(os)) >= 2, NEW e
    PROVE  Quietly(os, WithProtectives(os, e))
<1> DEFINE s == FreeId(UsedBy(os))
           t == FreeId(UsedBy(os) \cup {s})
           stop == NewOrder("stop", ~e.buy, e.qty, e.stop)
           take == NewOrder("profit", ~e.buy, e.qty, e.take)
           new == [i \in Ids |-> IF i = s THEN stop ELSE IF i = t /\ e.take # 0 THEN take ELSE os[i]]
<1>1. WithProtectives(os, e) = new
  BY DEF WithProtectives, UsedBy
<1>2. s \in Free(os) /\ t \in Free(os)
  BY TwoFreeIds
<1>3. os[s] = NoOrder /\ os[t] = NoOrder
  BY <1>2, SoundTyped
<1>4. Unfilled(stop) /\ Unfilled(take)
  BY DEF NewOrder, Unfilled
<1> HIDE DEF s, t, stop, take
<1>5. ASSUME NEW i \in Ids PROVE new[i] = os[i] \/ (Unfilled(os[i]) /\ Unfilled(new[i]))
  <2>1. new[i] = IF i = s THEN stop ELSE IF i = t /\ e.take # 0 THEN take ELSE os[i]
    OBVIOUS
  <2>2. i = s \/ i = t => Unfilled(os[i])
    BY <1>3 DEF Unfilled
  <2> QED
    BY <1>4, <2>1, <2>2
<1> QED
  BY <1>1, <1>5 DEF Quietly

\* Only open orders are canceled.
LEMMA CanceledQuiet ==
    ASSUME NEW os, NEW b, Sound(os, b)
    PROVE  Quietly(os, AllCanceled(os))
<1> DEFINE new == AllCanceled(os)
<1>1. \A i \in Ids : \/ new[i] = os[i]
                     \/ /\ os[i] # NoOrder /\ os[i].status = "open"
                        /\ new[i] = [os[i] EXCEPT !.status = "canceled"]
  BY DEF AllCanceled
<1>2. \A i \in Ids : os[i] # NoOrder => os[i] \in PaperOrders
  BY SoundTyped
<1>3. \A o \in PaperOrders : [o EXCEPT !.status = "canceled"].status = "canceled"
  BY DEF PaperOrders
<1> HIDE DEF new
<1>4. Quietly(os, new)
  BY <1>1, <1>2, <1>3 DEF Quietly, Unfilled
<1> QED
  BY <1>4 DEF new

-----------------------------------------------------------------------------
(* Steps in memory leave the walk alone.                                   *)

\* The rows and the mirror stay, and what is pending in memory is accounted for.
LEMMA GateMemoryStep ==
    ASSUME GateInv, PaperInv', UNCHANGED <<known, kept, paperTables, overtaken>>,
           Pending(oms', position')
    PROVE  GateInv'
<1>1. UNCHANGED <<known, kept, orderRows, fillTable, joined, posRow, stateRow, overtaken>>
  BY DEF paperTables
<1>2. Pending(oms, position)'
  BY <1>1 DEF Pending, UnbookedIn, OnlyReduces, Closes, Size, Booked, CostAfter, Gross, Least, Sign
<1>3. DatesAscend'
  BY <1>1 DEF GateInv, DatesAscend
<1>4. JoinedRows' = JoinedRows
  BY <1>1 DEF JoinedRows, JoinedRow
<1>5. WalkIsBook'
  BY <1>1, <1>4 DEF GateInv, WalkIsBook
<1> QED
  BY <1>2, <1>3, <1>5 DEF GateInv

\* A step that changes neither the memory nor the rows.
LEMMA GateIdle ==
    ASSUME GateInv, PaperInv', UNCHANGED <<known, kept, paperTables, overtaken, oms, position>>
    PROVE  GateInv'
<1>1. Pending(oms', position')
  BY DEF GateInv
<1> QED
  BY <1>1, GateMemoryStep

\* SubmitApproved: a market entry or a marketable limit fills, another one rests.
LEMMA SubmitEntryPending ==
    ASSUME GateInv, NEW e \in Entries, NEW pid \in Submissions, NEW mark \in Marks \cup {0},
           SubmitEntry(e, pid, mark)
    PROVE  GateInv'
<1> DEFINE id     == FreeId(UsedIds)
           entry  == [kind |-> "entry", buy |-> e.buy, qty |-> e.qty, at |-> e.at,
                      stop |-> e.stop, take |-> e.take, status |-> "open", price |-> 0]
           price  == IF e.at = 0 THEN Slipped(e.buy, mark) ELSE e.at
           filled == [oms EXCEPT ![id] = FilledAt(entry, price)]
<1>1. PaperInv /\ PaperInv'
  BY SubmitEntryStep DEF GateInv
<1>2. Starts(pid, 3)
  BY DEF SubmitEntry
<1>3. /\ UNCHANGED <<known, author, kept, paperTables, day, overtaken, dayPnl>>
      /\ Cardinality(Free(oms)) >= 3 + 2 * Cardinality(RestingIn(oms)) /\ UsedIds = UsedBy(oms)
  BY <1>1, <1>2, StartsIs
<1>4. Sound(oms, position) /\ Pending(oms, position) /\ oms \in Memories
  BY SoundTyped DEF GateInv, PaperInv
<1>5. id \in Free(oms) /\ id \in Ids /\ oms[id] = NoOrder
  <2>1. Cardinality(Free(oms)) >= 1
    BY <1>3, FreeFinite
  <2>2. id \in Free(oms)
    BY <1>3, <2>1, FreeIdOf
  <2> QED
    BY <1>4, <2>2, SoundTyped
<1>6. /\ entry \in PaperOrders /\ entry.kind = "entry" /\ entry.status = "open"
      /\ e.buy \in BOOLEAN /\ e.qty \in Nat \ {0} /\ e.stop \in Nat /\ e.take \in Nat /\ e.at \in Nat
      /\ entry.buy = e.buy /\ entry.qty = e.qty
  BY EntryOrder
<1>7. price \in Int
  BY <1>6, SlippedTyped
<1>8. \/ /\ position' = Booked(position, e.buy, e.qty, price)
         /\ oms' = WithProtectives(filled, e)
      \/ oms' = [oms EXCEPT ![id] = entry] /\ position' = position
      \/ oms' = oms /\ position' = position
  BY DEF SubmitEntry
<1> HIDE DEF id, entry, price
<1>9. CASE oms' = [oms EXCEPT ![id] = entry] /\ position' = position
  <2>1. Quietly(oms, oms')
    BY <1>4, <1>5, <1>6, <1>9 DEF Quietly, Unfilled, Memories
  <2>2. Pending(oms', position')
    BY <1>4, <1>9, <2>1, PendingQuiet
  <2> QED
    BY <1>1, <1>3, <2>2, GateMemoryStep
<1>10. CASE oms' = oms /\ position' = position
  BY <1>1, <1>3, <1>10, GateIdle
<1>11. CASE position' = Booked(position, e.buy, e.qty, price) /\ oms' = WithProtectives(filled, e)
  <2> DEFINE o == FilledAt(entry, price)
  <2>1. o \in PaperOrders /\ o.status = "filled" /\ o.kind = "entry"
    BY <1>6, <1>7, FilledOrder
  <2>2. o.buy = e.buy /\ o.qty = e.qty /\ o.price = price
    BY <1>6 DEF FilledAt, PaperOrders
  <2> HIDE DEF o
  <2> DEFINE os == [oms EXCEPT ![id] = o]
  <2>3. Sound(os, position) /\ Cardinality(Free(os)) >= 3 - 1 + 2 * Cardinality(RestingIn(os))
    <3>1. 3 \in Nat /\ 3 >= 1 /\ o.kind # "stop" /\ ~(o.kind = "entry" /\ o.status = "open")
      BY <2>1
    <3> QED
      BY <1>3, <1>4, <1>5, <2>1, <3>1, PlaceSound
  <2>4. os = filled
    BY DEF o
  <2>5. Cardinality(Free(os)) >= 2
    BY <2>3, FreeFinite
  <2>6. o # NoOrder
    BY <2>1, PaperAssumption
  <2>7. os = [oms EXCEPT ![id] = o]
    OBVIOUS
  <2> HIDE DEF os
  <2>8. Quietly(os, WithProtectives(os, e))
    BY <2>3, <2>5, ProtectivesQuiet
  <2>9. OnlyReduces(o, position) /\ Unfilled(oms[id])
    BY <1>5, <2>1 DEF OnlyReduces, Unfilled
  <2> DEFINE after == Booked(position, o.buy, o.qty, o.price)
  <2>10. position' = after
    BY <1>11, <2>2
  <2> HIDE DEF after
  <2>11. Fills(id, oms, WithProtectives(os, e), position, after)
    BY <1>4, <1>5, <2>1, <2>6, <2>7, <2>8, <2>9, FillsBeside DEF after
  <2>12. Pending(WithProtectives(os, e), after)
    BY <1>4, <1>5, <2>11, PendingFills
  <2>13. Pending(oms', position')
    BY <1>11, <2>4, <2>10, <2>12
  <2> QED
    BY <1>1, <1>3, <2>13, GateMemoryStep
<1> QED
  BY <1>8, <1>9, <1>10, <1>11

\* flattenLocked: an exit is queued, or takes the whole position.
LEMMA FlattenPending ==
    ASSUME GateInv, NEW pid \in Submissions, NEW mark \in Marks \cup {0}, Flatten(pid, mark)
    PROVE  GateInv'
<1> DEFINE buy   == position.qty < 0
           size  == Size(position)
           exit  == NewOrder("exit", buy, size, 0)
           id    == FreeId(UsedIds)
           price == Slipped(buy, mark)
<1>1. PaperInv /\ PaperInv'
  BY FlattenStep DEF GateInv
<1>2. position.qty # 0 /\ Starts(pid, 1)
  BY DEF Flatten
<1>3. /\ UNCHANGED <<known, author, kept, paperTables, day, overtaken, dayPnl>>
      /\ Cardinality(Free(oms)) >= 1 + 2 * Cardinality(RestingIn(oms)) /\ UsedIds = UsedBy(oms)
  BY <1>1, <1>2, StartsIs
<1>4. /\ Sound(oms, position) /\ Pending(oms, position) /\ oms \in Memories
      /\ position \in Held /\ position.qty \in Int
  BY SoundTyped DEF GateInv, PaperInv, Held
<1>5. id \in Free(oms) /\ id \in Ids /\ oms[id] = NoOrder
  <2>1. Cardinality(Free(oms)) >= 1
    BY <1>3, FreeFinite
  <2>2. id \in Free(oms)
    BY <1>3, <2>1, FreeIdOf
  <2> QED
    BY <1>4, <2>2, SoundTyped
<1>6. buy \in BOOLEAN /\ size \in Nat \ {0} /\ Closes(position, buy) /\ size <= Size(position)
  <2>1. size \in Nat \ {0}
    BY <1>2, <1>4, SizeIs
  <2> QED
    BY <1>2, <1>4, <2>1 DEF Closes
<1>7. exit \in PaperOrders /\ exit.kind = "exit" /\ exit.status = "open" /\ exit.buy = buy /\ exit.qty = size
  BY <1>6 DEF NewOrder, PaperOrders, OrderKinds, OrderStatuses
<1>8. price \in Int
  BY <1>6, SlippedTyped
<1>9. \/ oms' = [oms EXCEPT ![id] = exit] /\ position' = position
      \/ /\ position' = Booked(position, buy, size, price)
         /\ oms' = AllCanceled([oms EXCEPT ![id] = FilledAt(exit, price)])
  BY DEF Flatten
<1> HIDE DEF id, exit, price, buy, size
<1>10. CASE oms' = [oms EXCEPT ![id] = exit] /\ position' = position
  <2>1. Quietly(oms, oms')
    BY <1>4, <1>5, <1>7, <1>10 DEF Quietly, Unfilled, Memories
  <2>2. Pending(oms', position')
    BY <1>4, <1>10, <2>1, PendingQuiet
  <2> QED
    BY <1>1, <1>3, <2>2, GateMemoryStep
<1>11. CASE /\ position' = Booked(position, buy, size, price)
            /\ oms' = AllCanceled([oms EXCEPT ![id] = FilledAt(exit, price)])
  <2> DEFINE o  == FilledAt(exit, price)
             os == [oms EXCEPT ![id] = o]
  <2>1. o \in PaperOrders /\ o.status = "filled" /\ o.kind = "exit"
    BY <1>7, <1>8, FilledOrder
  <2>2. o.buy = buy /\ o.qty = size /\ o.price = price
    BY <1>7 DEF FilledAt, PaperOrders
  <2>3. AllCanceled(os) = oms'
    BY <1>11
  <2> HIDE DEF o
  <2>4. Sound(os, position)
    <3>1. 1 \in Nat /\ 1 >= 1 /\ o.kind # "stop" /\ ~(o.kind = "entry" /\ o.status = "open")
      BY <2>1
    <3> QED
      BY <1>3, <1>4, <1>5, <2>1, <3>1, PlaceSound
  <2>5. o # NoOrder /\ os = [oms EXCEPT ![id] = o]
    BY <2>1, PaperAssumption
  <2> HIDE DEF os
  <2>6. Quietly(os, oms')
    BY <2>3, <2>4, CanceledQuiet
  <2>7. OnlyReduces(o, position) /\ Unfilled(oms[id])
    BY <1>5, <1>6, <2>2 DEF OnlyReduces, Unfilled
  <2> DEFINE after == Booked(position, o.buy, o.qty, o.price)
             new == oms'
  <2>8. position' = after
    BY <1>11, <2>2
  <2> HIDE DEF after, new
  <2>9. Fills(id, oms, new, position, after)
    BY <1>4, <1>5, <2>1, <2>5, <2>6, <2>7, FillsBeside DEF after, new
  <2>10. Pending(new, after)
    BY <1>4, <1>5, <2>9, PendingFills
  <2>11. Pending(oms', position')
    BY <2>8, <2>10 DEF new
  <2> QED
    BY <1>1, <1>3, <2>11, GateMemoryStep
<1> QED
  BY <1>9, <1>10, <1>11

\* CancelOpenEntries: nothing fills.
LEMMA CancelEntriesPending == ASSUME GateInv, CancelOpenEntries PROVE GateInv'
<1> DEFINE new == [i \in Ids |-> IF i \in OpenOf("entry") THEN [oms[i] EXCEPT !.status = "canceled"] ELSE oms[i]]
<1>1. oms' = new /\ position' = position /\ UNCHANGED <<known, kept, paperTables, overtaken>>
  BY DEF CancelOpenEntries, Stamped
<1>2. PaperInv /\ PaperInv'
  BY CancelOpenEntriesStep DEF GateInv
<1>3. Sound(oms, position) /\ Pending(oms, position)
  BY <1>2 DEF GateInv, PaperInv
<1>4. \A i \in Ids : \/ new[i] = oms[i]
                     \/ /\ oms[i] # NoOrder /\ oms[i].status = "open"
                        /\ new[i] = [oms[i] EXCEPT !.status = "canceled"]
  BY DEF OpenOf, IsOpen
<1>5. \A i \in Ids : oms[i] # NoOrder => oms[i] \in PaperOrders
  BY <1>3, SoundTyped
<1>6. \A o \in PaperOrders : [o EXCEPT !.status = "canceled"].status = "canceled"
  BY DEF PaperOrders
<1> HIDE DEF new
<1>7. Quietly(oms, new)
  BY <1>4, <1>5, <1>6 DEF Quietly, Unfilled
<1>8. Pending(oms', position')
  BY <1>1, <1>3, <1>7, PendingQuiet
<1> QED
  BY <1>1, <1>2, <1>8, GateMemoryStep

\* A resting limit fills with its stops.
LEMMA FillRestingPending ==
    ASSUME Sound(oms, position), Pending(oms, position),
           NEW i \in Ids, IsOpen(i), oms[i].kind = "entry", FillResting(i)
    PROVE  Pending(oms', position')
<1> DEFINE e  == oms[i]
           o  == FilledAt(e, e.at)
           os == [oms EXCEPT ![i] = o]
<1>1. e \in PaperOrders /\ i \in RestingIn(oms) /\ oms \in Memories
  BY SoundTyped DEF IsOpen, RestingIn
<1>2. e.kind = "entry" /\ e.status = "open" /\ e.at \in Int
  BY <1>1 DEF PaperOrders, IsOpen
<1>3. position' = Booked(position, e.buy, e.qty, e.at) /\ oms' = WithProtectives(os, e)
  BY DEF FillResting
<1>4. Unfilled(oms[i])
  BY <1>2 DEF Unfilled
<1> HIDE DEF e
<1>5. o \in PaperOrders /\ o.kind = "entry" /\ o.status = "filled"
  BY <1>1, <1>2, FilledOrder
<1>6. o.buy = e.buy /\ o.qty = e.qty /\ o.price = e.at
  BY <1>1 DEF FilledAt, PaperOrders
<1> HIDE DEF o
<1>7. Sound(os, position) /\ Cardinality(Free(os)) >= 2 + 2 * Cardinality(RestingIn(os))
  BY <1>1, <1>5, SettleEntrySound
<1>8. Cardinality(Free(os)) >= 2
  BY <1>7, FreeFinite
<1>9. o # NoOrder /\ os = [oms EXCEPT ![i] = o]
  BY <1>5, PaperAssumption
<1> HIDE DEF os
<1>10. Quietly(os, WithProtectives(os, e))
  BY <1>7, <1>8, ProtectivesQuiet
<1>11. OnlyReduces(o, position)
  BY <1>5 DEF OnlyReduces
<1> DEFINE after == Booked(position, o.buy, o.qty, o.price)
<1>12. position' = after
  BY <1>3, <1>6
<1> HIDE DEF after
<1>13. Fills(i, oms, WithProtectives(os, e), position, after)
  BY <1>1, <1>4, <1>5, <1>9, <1>10, <1>11, FillsBeside DEF after
<1>14. Pending(WithProtectives(os, e), after)
  BY <1>13, PendingFills
<1> QED
  BY <1>3, <1>12, <1>14

\* A reduce-only order fills for what is left of the position, or is canceled.
LEMMA FillProtectivePending ==
    ASSUME Sound(oms, position), Pending(oms, position),
           NEW i \in Ids, IsOpen(i), oms[i].kind # "entry", NEW mark \in Marks, FillProtective(i, mark)
    PROVE  Pending(oms', position')
<1> DEFINE o     == oms[i]
           qty   == Reducing(o)
           price == FillPrice(o, mark)
           after == Booked(position, o.buy, qty, price)
           sold  == FilledAt([o EXCEPT !.qty = qty], price)
           done1 == [oms EXCEPT ![i] = sold]
<1>1. /\ oms \in Memories /\ DOMAIN oms = Ids /\ position \in Held /\ TrueBook(position) /\ Covered(position, oms)
      /\ o \in PaperOrders /\ o # NoOrder /\ o.status = "open" /\ o.kind # "entry"
      /\ o.buy \in BOOLEAN /\ o.qty \in Nat \ {0} /\ position.qty \in Int
  <2>1. /\ oms \in Memories /\ DOMAIN oms = Ids /\ position \in Held /\ TrueBook(position) /\ Covered(position, oms)
        /\ o \in PaperOrders /\ o # NoOrder /\ o.status = "open" /\ o.kind # "entry"
    BY SoundTyped DEF Sound, IsOpen
  <2> QED
    BY <2>1 DEF PaperOrders, Held
<1>2. Unfilled(oms[i])
  BY <1>1 DEF Unfilled
<1>3. CASE ~Closes(position, o.buy)
  <2>1. oms' = [oms EXCEPT ![i].status = "canceled"] /\ position' = position
    BY <1>3 DEF FillProtective
  <2>2. [o EXCEPT !.status = "canceled"].status = "canceled"
    <3> HIDE DEF o
    <3> QED
      BY <1>1 DEF PaperOrders
  <2>3. Quietly(oms, oms')
    BY <1>1, <1>2, <2>1, <2>2 DEF Quietly, Unfilled
  <2> QED
    BY <2>1, <2>3, PendingQuiet
<1>4. CASE Closes(position, o.buy)
  <2>1. /\ position' = after
        /\ oms' = IF after.qty = 0 THEN AllCanceled(done1) ELSE done1
    BY <1>4 DEF FillProtective
  <2>2. /\ qty \in Nat \ {0} /\ qty <= Size(position)
        /\ o.kind = "stop" => qty = o.qty \/ qty = Size(position)
    <3>1. Size(position) \in Nat \ {0}
      BY <1>1, <1>4 DEF Closes, Size
    <3> QED
      BY <1>1, <3>1 DEF Reducing, Least
  <2>3. price \in Int
    <3>1. mark \in Marks \cup {0}
      OBVIOUS
    <3>2. Slipped(o.buy, mark) \in Int
      BY <1>1, <3>1, SlippedTyped
    <3>3. o.at \in Int
      BY <1>1 DEF PaperOrders
    <3> QED
      BY <3>2, <3>3 DEF FillPrice
  <2>4. oms[i] = o
    OBVIOUS
  <2> HIDE DEF price, qty, o
  <2>5. [o EXCEPT !.qty = qty] \in PaperOrders /\ [o EXCEPT !.qty = qty].kind # "entry"
        /\ [o EXCEPT !.qty = qty].buy = o.buy /\ [o EXCEPT !.qty = qty].qty = qty
    BY <1>1, <2>2 DEF PaperOrders
  <2>6. sold \in PaperOrders /\ sold.status = "filled" /\ sold.kind # "entry"
    BY <2>3, <2>5, FilledOrder
  <2>7. sold.buy = o.buy /\ sold.qty = qty /\ sold.price = price
    <3> DEFINE c == [o EXCEPT !.qty = qty]
    <3>1. c \in PaperOrders /\ c.buy = o.buy /\ c.qty = qty /\ sold = FilledAt(c, price)
      BY <2>5
    <3> HIDE DEF c, sold
    <3> QED
      BY <3>1 DEF FilledAt, PaperOrders
  <2>8. after \in Held /\ TrueBook(after)
    BY <1>1, <2>2, <2>3, BookedTyped, BookedTrue
  <2>9. after.qty = (IF position.qty > 0 THEN position.qty - qty ELSE position.qty + qty)
    BY <1>1, <1>4, <2>2, <2>3, Reduced
  <2>10. after = Booked(position, sold.buy, sold.qty, sold.price)
    BY <2>7
  <2>11. OnlyReduces(sold, position) /\ sold # NoOrder
    BY <1>4, <2>2, <2>6, <2>7, PaperAssumption DEF OnlyReduces
  <2> HIDE DEF sold, after
  <2>12. done1 \in Memories /\ done1[i] = sold /\ \A j \in Ids \ {i} : done1[j] = oms[j]
    BY <1>1, <2>6 DEF Memories
  <2>13. Covered(after, done1)
    <3> HIDE DEF done1
    <3>1. done1[i].status # "open"
      BY <2>6, <2>12
    <3> QED
      BY <1>1, <1>4, <2>2, <2>4, <2>8, <2>9, <2>12, <3>1, ReducedCovered
  <2>14. Sound(done1, after)
    BY <1>1, <2>4, <2>6, <2>8, <2>13, SettleSound
  <2>15. done1 = [oms EXCEPT ![i] = sold]
    OBVIOUS
  <2> HIDE DEF done1
  <2> DEFINE new == oms'
  <2>16. Quietly(done1, new)
    <3>1. CASE after.qty = 0
      BY <2>1, <2>14, <3>1, CanceledQuiet
    <3>2. CASE after.qty # 0
      BY <2>1, <3>2 DEF Quietly
    <3> QED
      BY <3>1, <3>2
  <2> HIDE DEF new
  <2>17. Fills(i, oms, new, position, after)
    BY <1>1, <1>2, <2>6, <2>10, <2>11, <2>15, <2>16, FillsBeside
  <2>18. Pending(new, after)
    BY <2>17, PendingFills
  <2> QED
    BY <2>1, <2>18 DEF new
<1> QED
  BY <1>3, <1>4

\* One order of a sweep.
LEMMA SweepOrderPending == ASSUME GateInv, NEW i \in Ids, SweepOrder(i) PROVE GateInv'
<1>1. /\ bridge.pc = "tick"
      /\ UNCHANGED <<known, author, kept, paperTables, dates, paperFaults, reloads, given>>
      /\ IF ~IsOpen(i) THEN UNCHANGED <<oms, position>>
         ELSE IF oms[i].kind = "entry" THEN FillResting(i) ELSE FillProtective(i, bridge.mark)
  BY DEF SweepOrder
<1>2. PaperInv /\ PaperInv' /\ Sound(oms, position) /\ Pending(oms, position)
  BY SweepOrderIs DEF GateInv, PaperInv
<1>3. bridge.mark \in Marks
  <2>1. BridgeOK
    BY <1>2 DEF PaperInv
  <2>2. bridge # Resting /\ \A pid, date : bridge # Persisting(pid, date)
    BY <1>1 DEF Resting, Persisting
  <2> QED
    BY <2>1, <2>2 DEF BridgeOK
<1>4. UNCHANGED <<known, kept, paperTables, overtaken>>
  BY <1>1 DEF dates
<1>5. CASE ~IsOpen(i)
  <2>1. oms' = oms /\ position' = position
    BY <1>1, <1>5
  <2> QED
    BY <1>2, <1>4, <2>1, GateIdle
<1>6. CASE IsOpen(i) /\ oms[i].kind = "entry"
  <2>1. Pending(oms', position')
    BY <1>1, <1>2, <1>6, FillRestingPending
  <2> QED
    BY <1>2, <1>4, <2>1, GateMemoryStep
<1>7. CASE IsOpen(i) /\ oms[i].kind # "entry"
  <2>1. Pending(oms', position')
    BY <1>1, <1>2, <1>3, <1>7, FillProtectivePending
  <2> QED
    BY <1>2, <1>4, <2>1, GateMemoryStep
<1> QED
  BY <1>5, <1>6, <1>7

\* hydrate: what is reloaded is open, and the position is its mirror.
LEMMA ReloadWalk == ASSUME GateInv, Reload PROVE GateInv'
<1> DEFINE resting == {i \in Ids : orderRows[i] # NoOrder /\ orderRows[i].o.status = "open"}
           new     == [i \in Ids |-> IF i \in resting THEN orderRows[i].o ELSE NoOrder]
<1>1. /\ oms' = new /\ position' = posRow /\ kept' = posRow
      /\ UNCHANGED <<orderRows, fillTable, joined, posRow, stateRow, overtaken>>
  BY DEF Reload, paperTables, dates
<1>2. PaperInv /\ PaperInv'
  BY ReloadStep DEF GateInv
<1>3. \A i \in Ids : Unfilled(new[i])
  BY DEF Unfilled
<1> HIDE DEF new
<1>4. UnbookedIn(oms)' = {}
  BY <1>1, <1>3 DEF UnbookedIn, Unfilled
<1>5. Pending(oms, position)'
  <2>1. position' = kept'
    BY <1>1
  <2>2. \A i \in Ids : UnbookedIn(oms)' # {i}
    BY <1>4
  <2> QED
    BY <2>1, <2>2 DEF Pending
<1>6. DatesAscend'
  BY <1>1 DEF GateInv, DatesAscend
<1>7. JoinedRows' = JoinedRows
  BY <1>1 DEF JoinedRows, JoinedRow
<1>8. WalkIsBook'
  BY <1>1, <1>7 DEF GateInv, WalkIsBook
<1> QED
  BY <1>2, <1>5, <1>6, <1>8 DEF GateInv

-----------------------------------------------------------------------------
(* A transaction with one fill takes the walk one step.                    *)

\* "The SAME math as paper.applyFill": where the walk holds the position of a book, a
\* fill takes both to the same position, and the equity moves by what the book realizes.
LEMMA StepIsBooked ==
    ASSUME NEW w \in GateWalk, NEW b \in Held, w.qty = b.qty, w.cost = b.cost,
           NEW f \in GateFill, f.fee = Fee, f.qty \in Nat \ {0},
           f.reduce => Closes(b, f.buy) /\ f.qty <= Size(b),
           NEW after, after = Booked(b, f.buy, f.qty, f.price)
    PROVE  /\ WalkStep(w, f).qty = after.qty /\ WalkStep(w, f).cost = after.cost
           /\ WalkStep(w, f).equity = w.equity + (after.realized - b.realized)
           /\ WalkStep(w, f).peak = Bigger(w.peak, WalkStep(w, f).equity)
<1> DEFINE qty    == Clamped(w, f)
           whole  == Magnitude(w.qty)
           closed == IF Opposes(w, f) THEN Smaller(qty, whole) ELSE 0
           gross  == RealizedBy(w, f, closed)
           cost   == CostAfterFill(w, f, qty)
           equity == w.equity + gross - f.fee
           dealt  == Gross(b, f.buy, f.qty, f.price)
<1>1. /\ w.qty \in Int /\ w.cost \in Int /\ w.equity \in Int
      /\ f.buy \in BOOLEAN /\ f.reduce \in BOOLEAN /\ f.price \in Int /\ f.qty \in Nat \ {0} /\ f.fee \in Int
      /\ b.realized \in Int
  BY DEF GateWalk, GateFill, Held
<1>2. whole = Size(b) /\ (Opposes(w, f) <=> Closes(b, f.buy)) /\ whole \in Nat
  BY <1>1 DEF Magnitude, Size, Opposes, Closes
<1>3. Opposes(w, f) => whole \in Nat \ {0}
  BY <1>1 DEF Opposes, Magnitude
<1>4. qty = f.qty
  <2> HIDE DEF whole
  <2>1. f.reduce => Opposes(w, f) /\ f.qty <= whole
    BY <1>2
  <2> QED
    BY <1>1, <1>2, <2>1 DEF Clamped, Smaller, whole
<1>5. WalkStep(w, f).equity = equity /\ WalkStep(w, f).peak = Bigger(w.peak, WalkStep(w, f).equity)
  BY DEF WalkStep
<1>6. /\ WalkStep(w, f).qty = w.qty + (IF f.buy THEN qty ELSE -qty)
      /\ WalkStep(w, f).cost = cost
  BY DEF WalkStep
<1>7. after.qty = b.qty + Sign(f.buy) * f.qty /\ after.cost = CostAfter(b, f.buy, f.qty, f.price)
      /\ after.realized = b.realized + dealt - Fee
  BY DEF Booked
<1>8. cost = CostAfter(b, f.buy, f.qty, f.price)
  <2>1. CASE ~Opposes(w, f)
    BY <1>1, <1>2, <1>4, <2>1 DEF CostAfterFill, CostAfter
  <2>2. CASE Opposes(w, f) /\ f.qty > whole
    BY <1>1, <1>2, <1>4, <2>2 DEF CostAfterFill, CostAfter
  <2>3. CASE Opposes(w, f) /\ ~(f.qty > whole)
    <3>1. Least(f.qty, Size(b)) = f.qty
      BY <1>1, <1>2, <2>3 DEF Least
    <3>2. CostAfter(b, f.buy, f.qty, f.price) = b.cost - (b.cost * f.qty) \div Size(b)
      BY <1>2, <2>3, <3>1 DEF CostAfter
    <3>3. cost = w.cost - (w.cost * f.qty) \div whole
      BY <1>4, <2>3 DEF CostAfterFill
    <3> QED
      BY <1>2, <3>2, <3>3
  <2> QED
    BY <2>1, <2>2, <2>3
<1>9. gross = dealt /\ gross \in Int
  <2>1. CASE ~Opposes(w, f)
    BY <1>2, <2>1 DEF RealizedBy, Gross
  <2>2. CASE Opposes(w, f)
    <3> DEFINE n == Least(f.qty, Size(b))
               q == (w.cost * n) \div whole
    <3>1. closed = n /\ n \in Nat \ {0}
      BY <1>1, <1>2, <1>3, <1>4, <2>2 DEF Smaller, Least
    <3>2. gross = (IF f.buy THEN -1 ELSE 1) * (f.price * n - q)
      BY <2>2, <3>1 DEF RealizedBy
    <3>3. dealt = -Sign(f.buy) * (f.price * n - q)
      BY <1>2, <2>2 DEF Gross
    <3>4. q \in Int
      <4>1. w.cost * n \in Int
        BY <1>1, <3>1
      <4> QED
        BY <1>3, <2>2, <4>1, DivType
    <3>5. f.price * n \in Int
      BY <1>1, <3>1
    <3> HIDE DEF n, q
    <3> DEFINE x == f.price * n - q
    <3>6. x \in Int
      BY <3>4, <3>5
    <3> HIDE DEF gross, dealt, x
    <3>7. gross = (IF f.buy THEN -1 ELSE 1) * x /\ dealt = -Sign(f.buy) * x
      BY <3>2, <3>3 DEF x
    <3> QED
      BY <1>1, <3>6, <3>7 DEF Sign
  <2> QED
    BY <2>1, <2>2
<1> HIDE DEF gross, cost, qty, dealt, whole
<1>10. WalkStep(w, f).qty = after.qty
  BY <1>1, <1>4, <1>6, <1>7 DEF Sign
<1>11. equity = w.equity + (after.realized - b.realized)
  BY <1>1, <1>7, <1>9
<1> QED
  BY <1>5, <1>6, <1>7, <1>8, <1>10, <1>11

\* insertFill: the rows of a transaction.
LEMMA PersistedFills ==
    ASSUME PaperInv, Persist
    PROVE  /\ NewlyFilled = UnbookedIn(oms)
           /\ \E u \in Seq(FillRecord) :
                 /\ fillTable' = fillTable \o u /\ RowsOnce(u) /\ OrdersOf(u) = NewlyFilled
                 /\ \A n \in DOMAIN u : /\ u[n].ts = bridge.date
                                        /\ u[n].qty = oms[u[n].order].qty
                                        /\ u[n].price = oms[u[n].order].price
<1> DEFINE A == Changed \cap NewlyFilled
           C == Created \cap NewlyFilled
<1>1. PICK a \in SetToSeqs(A), c \in SetToSeqs(C) : fillTable' = fillTable \o FillRows(a \o c)
  BY DEF Persist
<1>2. A \in SUBSET Ids /\ C \in SUBSET Ids /\ A \cap C = {} /\ A \cup C = NewlyFilled
      /\ \A i \in A \cup C : oms[i] \in PaperOrders
  BY DiffIs DEF NewlyFilled
<1>3. bridge.date \in Nat
  BY PersistingIs DEF Persist, PaperInv, DatesTyped
<1> DEFINE u == FillRows(a \o c)
<1> HIDE DEF A, C
<1>4. u \in Seq(FillRecord) /\ RowsOnce(u) /\ OrdersOf(u) = A \cup C
  BY <1>2, <1>3, FillRowsIs
<1>5. \A n \in DOMAIN u : /\ u[n].ts = bridge.date
                          /\ u[n].qty = oms[u[n].order].qty
                          /\ u[n].price = oms[u[n].order].price
  BY DEF FillRows
<1>6. NewlyFilled = UnbookedIn(oms)
  <2>1. NoOrder # "filled"
    BY PaperAssumption DEF OrderStatuses
  <2> QED
    BY <2>1 DEF NewlyFilled, Created, Changed, UnbookedIn
<1> QED
  BY <1>1, <1>2, <1>4, <1>5, <1>6

\* The order of a stored fill changes no more.
LEMMA StoredStay ==
    ASSUME PaperInv, Persist
    PROVE  /\ \A n \in DOMAIN fillTable : orderRows'[fillTable[n].order].o = orderRows[fillTable[n].order].o
           /\ \A i \in Ids : oms[i] # NoOrder => orderRows'[i].o = oms[i]
<1>1. bridge.pid \in Submissions \cup {0}
  BY PersistingIs DEF Persist
<1>2. PICK pid \in PidsFor(bridge.pid) :
          /\ pid # 0 \/ Created = {}
          /\ orderRows' = [i \in Ids |-> IF i \in Created THEN [o |-> oms[i], pid |-> pid]
                                         ELSE IF i \in Changed THEN [orderRows[i] EXCEPT !.o = oms[i]]
                                         ELSE orderRows[i]]
  BY DEF Persist
<1>3. pid \in Submissions \cup {0}
  <2>1. author \in [Ids -> Submissions \cup {0}] /\ \A j \in Changed : j \in Ids
    BY DEF Changed, PaperInv, MirrorsTyped
  <2>2. Originators \subseteq Submissions \cup {0}
    BY <2>1 DEF Originators
  <2> QED
    BY <1>1, <1>2, <2>2 DEF PidsFor
<1>4. pid \in Submissions \/ Created = {}
  BY <1>2, <1>3
<1>5. \A i \in Ids : /\ oms[i] # NoOrder => orderRows'[i] # NoOrder /\ orderRows'[i].o = oms[i]
                     /\ oms[i] = NoOrder => orderRows'[i] = orderRows[i]
  BY <1>2, <1>4, RowsAfter
<1>6. ASSUME NEW i \in Ids, FilledRow(i) PROVE orderRows'[i].o = orderRows[i].o
  <2>1. MirrorOf(oms[i], known[i], orderRows[i])
    BY DEF PaperInv, Sound
  <2>2. oms[i] # NoOrder => orderRows[i].o = oms[i]
    BY <1>6, <2>1 DEF MirrorOf, FilledRow
  <2> QED
    BY <1>5, <2>2
<1>7. \A n \in DOMAIN fillTable : fillTable[n].order \in Ids /\ FilledRow(fillTable[n].order)
  BY JoinedTyped
<1> QED
  BY <1>5, <1>6, <1>7

\* The rows after a transaction: those of before, and then the new ones.
LEMMA RowsAppended ==
    ASSUME NEW t \in Seq(FillRecord), NEW u \in Seq(FillRecord), NEW w, w = t \o u
    PROVE  /\ w \in Seq(FillRecord) /\ DOMAIN w \subseteq Int
           /\ \A n \in DOMAIN w : \/ n \in DOMAIN t /\ w[n] = t[n]
                                  \/ n \notin DOMAIN t /\ n - Len(t) \in DOMAIN u /\ w[n] = u[n - Len(t)]
           /\ \A m, n \in DOMAIN w : m < n /\ n \in DOMAIN t => m \in DOMAIN t
<1>1. /\ w \in Seq(FillRecord) /\ Len(w) = Len(t) + Len(u)
      /\ Len(t) \in Nat /\ Len(u) \in Nat
      /\ DOMAIN t = 1..Len(t) /\ DOMAIN u = 1..Len(u) /\ DOMAIN w = 1..Len(w)
  OBVIOUS
<1>2. \A n \in 1..Len(t) : w[n] = t[n]
  BY <1>1
<1>3. \A n \in 1..Len(u) : w[Len(t) + n] = u[n]
  BY <1>1
<1>4. ASSUME NEW n \in DOMAIN w
      PROVE  \/ n \in DOMAIN t /\ w[n] = t[n]
             \/ n \notin DOMAIN t /\ n - Len(t) \in DOMAIN u /\ w[n] = u[n - Len(t)]
  <2>1. CASE n <= Len(t)
    BY <1>1, <1>2, <2>1
  <2>2. CASE n > Len(t)
    <3>1. n - Len(t) \in 1..Len(u) /\ Len(t) + (n - Len(t)) = n
      BY <1>1, <2>2
    <3> QED
      BY <1>1, <1>3, <2>2, <3>1
  <2> QED
    BY <1>1, <2>1, <2>2
<1>5. \A m, n \in DOMAIN w : m < n /\ n \in DOMAIN t => m \in DOMAIN t
  BY <1>1
<1> QED
  BY <1>1, <1>4, <1>5

\* What the snapshot becomes.
LEMMA SnapshotIs ==
    ASSUME PaperInv, Persist
    PROVE  /\ stateRow'.date = stateRow.date \/ stateRow'.date = bridge.date
           /\ NewlyFilled # {} =>
                 /\ stateRow'.date = bridge.date
                 /\ stateRow'.equity = stateRow.equity + (position.realized - kept.realized)
                 /\ stateRow'.peak = Bigger(stateRow.peak, stateRow'.equity)
           /\ NewlyFilled = {} /\ position = kept => stateRow' = stateRow
           /\ stateRow.date \in Nat /\ bridge.date \in Nat \ {0}
<1> DEFINE delta == position.realized - kept.realized
           total == stateRow.equity + delta
<1>1. stateRow' = StateAfter
  BY DEF Persist
<1>2. /\ stateRow \in [equity : Int, peak : Int, daily : Int, date : Nat]
      /\ position.realized \in Int /\ kept.realized \in Int
  BY DEF PaperInv, TablesTyped, MirrorsTyped, Sound, Held
<1>3. stateRow.equity \in Int /\ stateRow.peak \in Int /\ stateRow.date \in Nat /\ total \in Int
  BY <1>2
<1>4. stateRow' = IF delta = 0 /\ NewlyFilled = {} THEN stateRow
                  ELSE [equity |-> total, peak |-> IF total > stateRow.peak THEN total ELSE stateRow.peak,
                        daily |-> DailySoFar + delta, date |-> bridge.date]
  BY <1>1 DEF StateAfter
<1>5. position = kept => delta = 0
  BY <1>2
<1>6. (IF total > stateRow.peak THEN total ELSE stateRow.peak) = Bigger(stateRow.peak, total)
  BY <1>3 DEF Bigger
<1>7. bridge.date \in Nat \ {0}
  BY PersistingIs DEF Persist, PaperInv, DatesTyped
<1>8. NewlyFilled # {} => stateRow'.date = bridge.date /\ stateRow'.equity = total
                          /\ stateRow'.peak = Bigger(stateRow.peak, total)
  <2> HIDE DEF total, delta
  <2> QED
    BY <1>4, <1>6
<1> QED
  BY <1>3, <1>4, <1>5, <1>7, <1>8

\* A transaction that is not overtaken stores its fills after those of earlier dates.
LEMMA PersistDates == ASSUME GateInv, Persist PROVE DatesAscend'
<1>1. PaperInv /\ DatesAscend
  BY DEF GateInv
<1>2. overtaken' = (overtaken \/ bridge.date < stateRow.date)
  BY DEF Persist
<1>3. PICK u \in Seq(FillRecord) :
         /\ fillTable' = fillTable \o u /\ OrdersOf(u) = NewlyFilled
         /\ \A n \in DOMAIN u : u[n].ts = bridge.date
  BY <1>1, PersistedFills
<1> DEFINE t == fillTable
           w == fillTable'
<1>4. t \in Seq(FillRecord) /\ \A n \in DOMAIN t : t[n].ts \in Nat
  BY <1>1, JoinedTyped DEF PaperInv, TablesTyped
<1> HIDE DEF t, w
<1>5. /\ DOMAIN w \subseteq Int
      /\ \A n \in DOMAIN w : \/ n \in DOMAIN t /\ w[n] = t[n]
                             \/ n \notin DOMAIN t /\ n - Len(t) \in DOMAIN u /\ w[n] = u[n - Len(t)]
      /\ \A m, n \in DOMAIN w : m < n /\ n \in DOMAIN t => m \in DOMAIN t
  <2>1. w = t \o u
    BY <1>3 DEF t, w
  <2> QED
    BY <1>4, <2>1, RowsAppended
<1>6. ASSUME ~overtaken, ~(bridge.date < stateRow.date)
      PROVE  \A n \in DOMAIN w : /\ w[n].ts >= 1 /\ w[n].ts <= stateRow'.date
                                 /\ \A m \in DOMAIN w : m < n => w[m].ts <= w[n].ts
  <2>1. /\ stateRow.date \in Nat /\ bridge.date \in Nat \ {0}
        /\ stateRow'.date = stateRow.date \/ stateRow'.date = bridge.date
        /\ NewlyFilled # {} => stateRow'.date = bridge.date
    BY <1>1, SnapshotIs
  <2>2. stateRow.date <= bridge.date /\ stateRow.date <= stateRow'.date
    BY <1>6, <2>1
  <2>3. \A n \in DOMAIN t : /\ t[n].ts >= 1 /\ t[n].ts <= stateRow.date
                            /\ \A m \in DOMAIN t : m < n => t[m].ts <= t[n].ts
    BY <1>1, <1>6 DEF DatesAscend, t
  <2>4. ASSUME NEW n \in DOMAIN w, n \notin DOMAIN t
        PROVE  w[n].ts = bridge.date /\ stateRow'.date = bridge.date
    <3>1. n - Len(t) \in DOMAIN u /\ w[n] = u[n - Len(t)]
      BY <1>5, <2>4
    <3>2. u[n - Len(t)].order \in NewlyFilled
      BY <1>3, <3>1 DEF OrdersOf
    <3> QED
      BY <1>3, <2>1, <3>1, <3>2
  <2>5. ASSUME NEW n \in DOMAIN w, n \in DOMAIN t
        PROVE  w[n] = t[n] /\ w[n].ts \in Nat /\ w[n].ts >= 1 /\ w[n].ts <= stateRow.date
    BY <1>4, <1>5, <2>3, <2>5
  <2>6. ASSUME NEW n \in DOMAIN w PROVE w[n].ts >= 1 /\ w[n].ts <= stateRow'.date
    <3>1. CASE n \in DOMAIN t
      BY <2>1, <2>2, <2>5, <3>1
    <3>2. CASE n \notin DOMAIN t
      BY <2>1, <2>4, <3>2
    <3> QED
      BY <3>1, <3>2
  <2>7. ASSUME NEW n \in DOMAIN w, NEW m \in DOMAIN w, m < n PROVE w[m].ts <= w[n].ts
    <3>1. CASE n \in DOMAIN t
      <4>1. m \in DOMAIN t
        BY <1>5, <2>7, <3>1
      <4> QED
        BY <2>3, <2>5, <2>7, <3>1, <4>1
    <3>2. CASE n \notin DOMAIN t
      <4>1. w[n].ts = stateRow'.date
        BY <2>4, <3>2
      <4> QED
        BY <2>6, <4>1
    <3> QED
      BY <3>1, <3>2
  <2> QED
    BY <2>6, <2>7
<1> QED
  BY <1>2, <1>6 DEF DatesAscend, w

\* At most one fill, in a row of its own.
LEMMA SingleRow ==
    ASSUME NEW u \in Seq(FillRecord), RowsOnce(u), NEW i, OrdersOf(u) = {i}
    PROVE  u = <<u[1]>> /\ u[1] \in FillRecord /\ u[1].order = i /\ 1 \in DOMAIN u
<1>1. Len(u) \in Nat /\ DOMAIN u = 1..Len(u)
  OBVIOUS
<1>2. PICK n \in DOMAIN u : u[n].order = i
  BY DEF OrdersOf
<1>3. \A m \in DOMAIN u : u[m].order = i
  BY DEF OrdersOf
<1>4. \A m \in DOMAIN u : m = n
  BY <1>2, <1>3 DEF RowsOnce
<1>5. Len(u) = 1
  <2>1. Len(u) >= 1
    BY <1>1, <1>2
  <2>2. 1 \in DOMAIN u /\ Len(u) \in DOMAIN u
    BY <1>1, <2>1
  <2> QED
    BY <1>4, <2>2
<1> QED
  BY <1>1, <1>3, <1>5

\* A transaction with one fill, at most, takes the walk where it takes the books.
LEMMA PersistWalk == ASSUME GateInv, Persist PROVE WalkIsBook'
<1> SUFFICES ASSUME ~joined'
             PROVE  LET w == Walk(JoinedRows', Allocated)
                    IN /\ w.qty = posRow'.qty /\ w.cost = posRow'.cost
                       /\ w.equity = stateRow'.equity /\ w.peak = stateRow'.peak
  BY DEF WalkIsBook
<1> DEFINE t   == fillTable
           old == JoinedRows
           w   == Walk(old, Allocated)
<1>1. PaperInv /\ WalkIsBook /\ Pending(oms, position)
  BY DEF GateInv
<1>2. posRow' = position /\ joined' = (joined \/ Cardinality(NewlyFilled) > 1) /\ kept = posRow
  BY <1>1 DEF Persist, PaperInv, MirrorsTyped
<1>3. NewlyFilled = UnbookedIn(oms)
  BY <1>1, PersistedFills
<1>4. PICK u \in Seq(FillRecord) :
         /\ fillTable' = fillTable \o u /\ RowsOnce(u) /\ OrdersOf(u) = NewlyFilled
         /\ \A n \in DOMAIN u : /\ u[n].ts = bridge.date
                                /\ u[n].qty = oms[u[n].order].qty
                                /\ u[n].price = oms[u[n].order].price
  BY <1>1, PersistedFills
<1>5. t \in Seq(FillRecord) /\ old \in Seq(GateFill) /\ DOMAIN old = DOMAIN t
  <2>1. t \in Seq(FillRecord)
    BY <1>1 DEF PaperInv, TablesTyped
  <2>2. \A n \in DOMAIN t : JoinedRow(t[n]) \in GateFill
    BY <1>1, JoinedTyped
  <2>3. DOMAIN t = 1..Len(t) /\ Len(t) \in Nat
    BY <2>1
  <2> QED
    BY <2>1, <2>2, <2>3 DEF JoinedRows
<1>6. \A n \in DOMAIN t : orderRows'[t[n].order].o = orderRows[t[n].order].o
  BY <1>1, StoredStay
<1>7. /\ w.qty = posRow.qty /\ w.cost = posRow.cost
      /\ w.equity = stateRow.equity /\ w.peak = stateRow.peak
  BY <1>1, <1>2 DEF WalkIsBook
<1>8. NewlyFilled = {} \/ \E i \in Ids : NewlyFilled = {i}
  <2>1. NewlyFilled \subseteq Ids
    BY <1>3 DEF UnbookedIn
  <2>2. IsFiniteSet(NewlyFilled) /\ Cardinality(NewlyFilled) \in Nat
    BY <2>1, IdsFinite, FS_Subset, FS_CardinalityType
  <2>3. Cardinality(NewlyFilled) = 0 \/ Cardinality(NewlyFilled) = 1
    <3>1. ~(Cardinality(NewlyFilled) > 1)
      BY <1>2, Zenon
    <3> QED
      BY <2>2, <3>1
  <2>4. NewlyFilled = {} \/ \E x : NewlyFilled = {x}
    BY <2>2, <2>3, FS_EmptySet, FS_Singleton
  <2> QED
    BY <2>1, <2>4
<1>9. CASE NewlyFilled = {}
  <2>1. u = <<>>
    <3>1. DOMAIN u = {}
      BY <1>4, <1>9 DEF OrdersOf
    <3> QED
      BY <3>1
  <2>2. fillTable' = t
    BY <1>4, <1>5, <2>1
  <2>3. position = kept
    BY <1>1, <1>3, <1>9 DEF Pending
  <2>4. stateRow' = stateRow /\ posRow' = posRow
    BY <1>1, <1>2, <1>9, <2>3, SnapshotIs
  <2>5. JoinedRows' = old
    BY <1>6, <2>2 DEF JoinedRows, JoinedRow
  <2> QED
    BY <1>7, <2>4, <2>5
<1>10. ASSUME NEW i \in Ids, NewlyFilled = {i}
       PROVE  LET z == Walk(JoinedRows', Allocated)
              IN /\ z.qty = posRow'.qty /\ z.cost = posRow'.cost
                 /\ z.equity = stateRow'.equity /\ z.peak = stateRow'.peak
  <2> DEFINE o == oms[i]
             r == u[1]
             f == [buy |-> o.buy, reduce |-> o.kind # "entry", qty |-> o.qty, price |-> o.price,
                   fee |-> Fee, ts |-> bridge.date]
             after == Booked(kept, f.buy, f.qty, f.price)
  <2>1. u = <<r>> /\ r \in FillRecord /\ r.order = i /\ 1 \in DOMAIN u
    BY <1>4, <1>10, SingleRow
  <2>2. r.ts = bridge.date /\ r.qty = o.qty /\ r.price = o.price
    BY <1>4, <2>1
  <2>3. /\ o \in PaperOrders /\ o # NoOrder /\ orderRows'[i].o = o
        /\ position = Booked(kept, o.buy, o.qty, o.price) /\ OnlyReduces(o, kept)
    <3>1. i \in UnbookedIn(oms) /\ UnbookedIn(oms) = {i}
      BY <1>3, <1>10
    <3>2. o # NoOrder
      BY <3>1 DEF UnbookedIn
    <3>3. o \in PaperOrders
      BY <1>1, <3>2, SoundTyped DEF PaperInv
    <3>4. orderRows'[i].o = o
      BY <1>1, <3>2, StoredStay
    <3>5. position = Booked(kept, o.buy, o.qty, o.price) /\ OnlyReduces(o, kept)
      BY <1>1, <3>1 DEF Pending
    <3> QED
      BY <3>2, <3>3, <3>4, <3>5
  <2>4. o.buy \in BOOLEAN /\ o.qty \in Nat \ {0} /\ o.price \in Int /\ bridge.date \in Int /\ Fee \in Int
    BY <1>1, <2>3, SnapshotIs, PaperAssumption DEF PaperOrders
  <2>5. f \in GateFill /\ f.fee = Fee /\ f.qty \in Nat \ {0} /\ f.buy = o.buy /\ f.qty = o.qty /\ f.price = o.price
        /\ f.reduce = (o.kind # "entry")
    <3>1. (o.kind # "entry") \in BOOLEAN
      OBVIOUS
    <3> DEFINE reduce == o.kind # "entry"
    <3> HIDE DEF reduce, o
    <3>2. f = [buy |-> o.buy, reduce |-> reduce, qty |-> o.qty, price |-> o.price, fee |-> Fee, ts |-> bridge.date]
      BY DEF reduce
    <3>3. reduce \in BOOLEAN
      BY <3>1 DEF reduce
    <3> HIDE DEF f
    <3>4. f.reduce = reduce
      BY <3>2
    <3> QED
      BY <2>4, <3>2, <3>3, <3>4 DEF GateFill, reduce
  <2> HIDE DEF o, r
  <2>6. fillTable' = Append(t, r)
    BY <1>4, <1>5, <2>1
  <2>7. JoinedRows' = Append(old, f)
    <3> DEFINE now(x) == [buy |-> orderRows'[x.order].o.buy, reduce |-> orderRows'[x.order].o.kind # "entry",
                          qty |-> x.qty, price |-> x.price, fee |-> Fee, ts |-> x.ts]
    <3>1. JoinedRows' = [n \in DOMAIN fillTable' |-> now(fillTable'[n])]
      BY DEF JoinedRows, JoinedRow
    <3>2. \A n \in DOMAIN t : now(t[n]) = old[n]
      BY <1>6 DEF JoinedRows, JoinedRow
    <3>3. now(r) = f
      BY <2>1, <2>2, <2>3
    <3> HIDE DEF now, f, t, old
    <3>4. /\ Len(t) \in Nat /\ DOMAIN t = 1..Len(t) /\ Len(old) = Len(t)
          /\ DOMAIN fillTable' = 1..(Len(t) + 1) /\ fillTable'[Len(t) + 1] = r
          /\ \A n \in 1..Len(t) : fillTable'[n] = t[n]
      BY <1>5, <2>6
    <3> DEFINE more == Append(old, f)
    <3>5. /\ more \in Seq(GateFill) /\ Len(more) = Len(old) + 1 /\ more[Len(old) + 1] = f
          /\ \A n \in 1..Len(old) : more[n] = old[n]
      BY <1>5, <2>5
    <3> HIDE DEF more
    <3>6. DOMAIN more = 1..(Len(t) + 1) /\ more = [n \in DOMAIN more |-> more[n]]
      BY <3>4, <3>5
    <3>7. \A n \in 1..(Len(t) + 1) : now(fillTable'[n]) = more[n]
      BY <3>2, <3>3, <3>4, <3>5
    <3>8. JoinedRows' = more
      BY <3>1, <3>4, <3>6, <3>7
    <3> QED
      BY <3>8 DEF more
  <2>8. w \in GateWalk
    BY <1>5, PaperAssumption, WalkAccounts
  <2>9. Walk(JoinedRows', Allocated) = WalkStep(w, f)
    <3> HIDE DEF old, f
    <3> QED
      BY <1>5, <2>5, <2>7, WalkAppend
  <2>10. kept \in Held /\ w.qty = kept.qty /\ w.cost = kept.cost
    BY <1>1, <1>2, <1>7 DEF PaperInv, TablesTyped
  <2>11. position = after
    BY <2>3, <2>5
  <2>12. f.reduce => Closes(kept, f.buy) /\ f.qty <= Size(kept)
    BY <2>3, <2>5 DEF OnlyReduces
  <2> HIDE DEF f, after, w
  <2>13. /\ WalkStep(w, f).qty = after.qty /\ WalkStep(w, f).cost = after.cost
         /\ WalkStep(w, f).equity = w.equity + (after.realized - kept.realized)
         /\ WalkStep(w, f).peak = Bigger(w.peak, WalkStep(w, f).equity)
    BY <2>5, <2>8, <2>10, <2>12, StepIsBooked DEF after
  <2>14. /\ stateRow'.equity = stateRow.equity + (position.realized - kept.realized)
         /\ stateRow'.peak = Bigger(stateRow.peak, stateRow'.equity)
    BY <1>1, <1>10, SnapshotIs
  <2> QED
    BY <1>2, <1>7, <2>9, <2>11, <2>13, <2>14
<1> QED
  BY <1>8, <1>9, <1>10

\* persistLocked leaves nothing pending.
LEMMA PersistPending == ASSUME GateInv, Persist PROVE Pending(oms, position)'
<1>1. oms' = oms /\ position' = position /\ kept' = position /\ known' = [i \in Ids |-> StatusOf(i)]
  BY DEF Persist
<1>2. \A i \in Ids : oms[i] # NoOrder => known'[i] = oms[i].status
  BY <1>1 DEF StatusOf
<1>3. UnbookedIn(oms)' = {}
  BY <1>1, <1>2 DEF UnbookedIn
<1>4. \A i \in Ids : UnbookedIn(oms)' # {i}
  BY <1>3
<1> QED
  BY <1>1, <1>4 DEF Pending

\* persistLocked, all of it.
LEMMA PersistKeepsWalk == ASSUME GateInv, Persist PROVE GateInv'
<1>1. PaperInv'
  BY PersistStep DEF GateInv
<1> QED
  BY <1>1, PersistPending, PersistDates, PersistWalk DEF GateInv

\* No fill, no position.
LEMMA GateInvInit == ASSUME PaperInit PROVE GateInv
<1>1. /\ position = Flat /\ kept = Flat /\ posRow = Flat /\ fillTable = <<>>
      /\ \A i \in Ids : oms[i] = NoOrder
      /\ stateRow = [equity |-> Allocated, peak |-> Allocated, daily |-> 0, date |-> 0]
  BY DEF PaperInit
<1>2. UnbookedIn(oms) = {}
  BY <1>1 DEF UnbookedIn
<1>3. \A i \in Ids : UnbookedIn(oms) # {i}
  BY <1>2
<1>4. Pending(oms, position)
  BY <1>1, <1>3 DEF Pending
<1>5. DatesAscend
  BY <1>1 DEF DatesAscend
<1>6. JoinedRows = <<>>
  BY <1>1 DEF JoinedRows
<1>7. Walk(<<>>, Allocated) = WalkFrom(Allocated)
  BY WalkEmpty
<1>8. WalkIsBook
  BY <1>1, <1>6, <1>7 DEF WalkIsBook, WalkFrom, Flat
<1> QED
  BY <1>4, <1>5, <1>8, PaperInvInit DEF GateInv

\* Every step.
LEMMA GateInvNext == ASSUME GateInv, [PaperNext]_paperVars PROVE GateInv'
<1>1. PaperInv'
  BY PaperInvNext DEF GateInv
<1>2. ASSUME NEW e \in Entries, NEW pid \in Submissions, NEW mark \in Marks \cup {0}, SubmitEntry(e, pid, mark)
      PROVE  GateInv'
  BY <1>2, SubmitEntryPending
<1>3. ASSUME NEW pid \in Submissions, NEW mark \in Marks \cup {0}, Flatten(pid, mark)
      PROVE  GateInv'
  BY <1>3, FlattenPending
<1>4. CASE CancelOpenEntries
  BY <1>4, CancelEntriesPending
<1>5. ASSUME NEW mark \in Marks, StartSweep(mark)
      PROVE  GateInv'
  <2>1. UNCHANGED <<known, kept, paperTables, overtaken, oms, position>>
    BY <1>5 DEF StartSweep, Stamped, bridgeMemory
  <2> QED
    BY <1>1, <2>1, GateIdle
<1>6. ASSUME NEW i \in Ids, SweepOrder(i)
      PROVE  GateInv'
  BY <1>6, SweepOrderPending
<1>7. CASE Persist
  BY <1>7, PersistKeepsWalk
<1>8. CASE PersistRefused \/ TransactionFails
  <2>1. UNCHANGED <<known, kept, paperTables, overtaken, oms, position>>
    BY <1>8 DEF PersistRefused, TransactionFails, bridgeMemory, dates
  <2> QED
    BY <1>1, <2>1, GateIdle
<1>9. CASE Reload
  BY <1>9, ReloadWalk
<1>10. CASE Midnight \/ UNCHANGED paperVars
  <2>1. UNCHANGED <<known, kept, paperTables, overtaken, oms, position>>
    BY <1>10 DEF Midnight, paperVars, bridgeMemory, dates
  <2> QED
    BY <1>1, <2>1, GateIdle
<1> QED
  BY <1>2, <1>3, <1>4, <1>5, <1>6, <1>7, <1>8, <1>9, <1>10 DEF PaperNext, BridgeStep

\* Whatever is averaged, flipped, reduced, retried, restarted or stored late: between the
\* memory and the rows lies what the next transaction stores, and while rows follow fills
\* the walk over the rows holds the position and the equity of the tables (applyFill,
\* persistLocked, hydrate, walk).
THEOREM GateInvariant == PaperSpec => []GateInv
<1>1. PaperInit => GateInv
  BY GateInvInit
<1>2. GateInv /\ [PaperNext]_paperVars => GateInv'
  BY GateInvNext
<1> QED
  BY <1>1, <1>2, PTL DEF PaperSpec

\* The gate between paper and live judges the account that was traded: its replay of the
\* stored fills ends in the books' position, equity and peak, and over any window the
\* closed trades and the open span add up to the equity (replay.go, ListPaperGateFills,
\* condProfitFactor).
THEOREM GateIsHonest == PaperSpec => []GateHonest
<1>1. GateInv => GateHonest
  BY ReplayFollows, SpansFollow DEF GateInv, GateHonest
<1> QED
  BY <1>1, GateInvariant, PTL

=============================================================================
