------------------------------- MODULE Ownership -------------------------------
(***************************************************************************)
(* What the document library promises its buyers: orders are opened for an *)
(* item, money is taken for them, and booking a paid order hands the item  *)
(* over for good.  How, when and by which request is left open.            *)
(***************************************************************************)
CONSTANTS Order, Item, none
VARIABLES due, taken, booked, owned

vars == <<due, taken, booked, owned>>

Init == /\ due = [o \in Order |-> none]
        /\ taken = {} /\ booked = {} /\ owned = {}

\* A new order is opened for an item; where no payment page stands in between, it
\* counts as paid at once.
Open(o, x) ==
  /\ due[o] = none
  /\ due' = [due EXCEPT ![o] = x]
  /\ taken' \in {taken, taken \cup {o}}
  /\ UNCHANGED <<booked, owned>>

Take(o) ==
  /\ due[o] # none
  /\ taken' = taken \cup {o}
  /\ UNCHANGED <<due, booked, owned>>

\* The one way an item changes hands.
Book(o) ==
  /\ o \in taken \ booked
  /\ booked' = booked \cup {o}
  /\ owned' = owned \cup {due[o]}
  /\ UNCHANGED <<due, taken>>

Next == \E o \in Order : Take(o) \/ Book(o) \/ \E x \in Item : Open(o, x)

Spec == Init /\ [][Next]_vars
=============================================================================
