--------------------------- MODULE CreditContract ---------------------------
(***************************************************************************)
(* What session flow control promises, without streams, capsules, resets   *)
(* or QUIC: a sender spends credit of several kinds, a receiver counts     *)
(* what it sees of it and offers more.  SessionFlow implements it.         *)
(***************************************************************************)
EXTENDS Naturals

CONSTANTS
  Resource,        \* the kinds of credit
  Initial, Grant   \* what is offered at first; what may be outstanding

VARIABLES
  spent,     \* credit the sender has used and not taken back
  known,     \* the limit the sender has learnt of
  counted,   \* credit the receiver has seen used
  offered    \* the limit the receiver enforces

creditVars == <<spent, known, counted, offered>>

Init ==
  /\ spent = [r \in Resource |-> 0] /\ counted = [r \in Resource |-> 0]
  /\ known = Initial /\ offered = Initial

Within(low, f, high) == \A r \in Resource : low[r] <= f[r] /\ f[r] <= high[r]

\* The sender spends up to the limit it knows, or takes back what it had spent and
\* the receiver will never see.
Spend ==
  /\ spent' \in [Resource -> Nat] /\ Within(counted, spent', known)
  /\ UNCHANGED <<known, counted, offered>>

\* The receiver counts no more than was spent, and never less than before.
Count ==
  /\ counted' \in [Resource -> Nat] /\ Within(counted, counted', spent)
  /\ UNCHANGED <<spent, known, offered>>

\* The receiver raises its limits to at most one grant beyond what it counted.
Offer ==
  /\ offered' \in [Resource -> Nat]
  /\ Within(offered, offered', [r \in Resource |-> counted[r] + Grant[r]])
  /\ UNCHANGED <<spent, known, counted>>

\* The sender learns of a limit that was offered.
Learn ==
  /\ known' \in [Resource -> Nat] /\ Within(known, known', offered)
  /\ UNCHANGED <<spent, counted, offered>>

Next == Spend \/ Count \/ Offer \/ Learn

Spec == Init /\ [][Next]_creditVars
=============================================================================
