---------------------------- MODULE GoodsLedger -----------------------------
(***************************************************************************)
(* What ordering promises about goods in stock, without listings, items or *)
(* statuses: the goods an order holds are in the seller's stock until the  *)
(* order lets go of them or hands them to its buyer, and no two orders     *)
(* hold the same goods.  Trading implements it (LedgerSpec there).         *)
(***************************************************************************)
EXTENDS Quantities

CONSTANTS Producers, Orders

VARIABLES
  onHand,  \* goods each producer has in stock
  held     \* goods each order holds in the stock of each producer

ledger == <<onHand, held>>

HeldFrom(p) == Total(Orders, [o \in Orders |-> held[o][p]])

Covered == \A p \in Producers : HeldFrom(p) <= onHand[p]

Nothing == [p \in Producers |-> 0]

Init ==
  /\ onHand \in [Producers -> Nat]
  /\ held = [o \in Orders |-> Nothing]

\* New orders take hold of goods nobody holds.
Promise ==
  /\ onHand' = onHand
  /\ held' \in [Orders -> [Producers -> Nat]]
  /\ \A o \in Orders : held'[o] # held[o] => held[o] = Nothing
  /\ Covered'

\* An order lets go of all its goods.
Release(o) ==
  /\ onHand' = onHand
  /\ held' = [held EXCEPT ![o] = Nothing]

\* The buyer receives all the goods of an order, and the future production
\* bought with them.
HandOver(o, buyer) ==
  /\ held' = [held EXCEPT ![o] = Nothing]
  /\ \A p \in Producers \ {buyer} : onHand'[p] = onHand[p] - held[o][p]
  /\ onHand'[buyer] >= onHand[buyer] + Total(Producers, held[o])

\* A producer corrects its stock or harvests, keeping what is held.
Adjust(p) ==
  /\ held' = held
  /\ \A q \in Producers \ {p} : onHand'[q] = onHand[q]
  /\ onHand'[p] >= HeldFrom(p)

Next ==
  \/ Promise
  \/ \E o \in Orders : Release(o) \/ \E buyer \in Producers : HandOver(o, buyer)
  \/ \E p \in Producers : Adjust(p)

Spec == Init /\ [][Next]_ledger
=============================================================================
