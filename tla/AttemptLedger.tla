---------------------------- MODULE AttemptLedger ----------------------------
(***************************************************************************)
(* What the intent journal of the live OMS promises, without its senders,  *)
(* reconciler, sweeps and stream: an approved order goes to the exchange   *)
(* under a sequence of client order ids, each written down before it is    *)
(* sent, sent by one holder only, and given up for good before the next    *)
(* one is written.  OrderJournal is shown to implement it.                 *)
(***************************************************************************)
EXTENDS Integers

CONSTANTS Orders,      \* approved submissions
          LastAttempt  \* last attempt digit of a client order id

AttemptIds == Orders \X (0..LastAttempt)

VARIABLES
    written,    \* attempts with a journal row
    held,       \* attempts claimed by a sender, once and for good
    barred,     \* attempts whose claim was revoked
    abandoned,  \* attempts resolved as unknown to the exchange
    armed,      \* attempts whose holder will transmit next
    out         \* attempts on the wire or known to the exchange

ledgerVars == <<written, held, barred, abandoned, armed, out>>

LedgerInit ==
    /\ written = {} /\ held = {} /\ barred = {} /\ abandoned = {}
    /\ armed = {} /\ out = {}

Earlier(id) == {e \in AttemptIds : e[1] = id[1] /\ e[2] < id[2]}

\* An attempt is written only after every earlier one of its order was given up.
Write(id) ==
    /\ Earlier(id) \subseteq abandoned
    /\ written' = written \cup {id}
    /\ UNCHANGED <<held, barred, abandoned, armed, out>>

Hold(id) ==
    /\ id \in written \ (held \cup barred)
    /\ held' = held \cup {id}
    /\ UNCHANGED <<written, barred, abandoned, armed, out>>

\* A revocation comes at any time, also while the holder is armed.
Bar(id) ==
    /\ barred' = barred \cup {id}
    /\ UNCHANGED <<written, held, abandoned, armed, out>>

Arm(id) ==
    /\ id \in held \ (barred \cup abandoned)
    /\ armed' = armed \cup {id}
    /\ UNCHANGED <<written, held, barred, abandoned, out>>

Transmit(id) ==
    /\ id \in armed
    /\ armed' = armed \ {id} /\ out' = out \cup {id}
    /\ UNCHANGED <<written, held, barred, abandoned>>

\* The process dies before it transmits.
Disarm ==
    /\ armed # {} /\ armed' = {}
    /\ UNCHANGED <<written, held, barred, abandoned, out>>

\* The exchange refuses or forgets attempts, or the wire loses them.
Vanish(ids) ==
    /\ out' = out \ ids
    /\ UNCHANGED <<written, held, barred, abandoned, armed>>

\* Only what was held and is not about to be sent is given up.
Abandon(id) ==
    /\ id \in held \ armed
    /\ abandoned' = abandoned \cup {id}
    /\ UNCHANGED <<written, held, barred, armed, out>>

LedgerNext ==
    \/ \E id \in AttemptIds :
          \/ Write(id) \/ Hold(id) \/ Bar(id) \/ Arm(id) \/ Transmit(id) \/ Abandon(id)
    \/ Disarm
    \/ \E ids \in SUBSET AttemptIds : Vanish(ids)

LedgerSpec == LedgerInit /\ [][LedgerNext]_ledgerVars

-----------------------------------------------------------------------------
\* What the ledger is for: of the attempts of one order, at most one is with
\* the exchange without having been given up, so an order is at the exchange
\* twice only through an attempt the exchange said it did not know.
AtMostOneStands ==
    \A i, j \in out \ abandoned : i[1] = j[1] => i = j

LedgerTypeOK ==
    /\ written \subseteq AttemptIds /\ held \subseteq AttemptIds
    /\ barred \subseteq AttemptIds /\ abandoned \subseteq AttemptIds
    /\ armed \subseteq AttemptIds /\ out \subseteq AttemptIds

\* The inductive invariant behind it.
LedgerInv ==
    /\ LedgerTypeOK
    /\ out \cup armed \subseteq held /\ held \subseteq written
    /\ abandoned \cap armed = {}
    /\ \A id \in written : Earlier(id) \subseteq abandoned

=============================================================================
