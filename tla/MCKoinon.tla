------------------------------ MODULE MCKoinon -------------------------------
(***************************************************************************)
(* Model values for Koinon.  Bps are counted in halves (Unit = 2).         *)
(***************************************************************************)
EXTENDS Koinon

CONSTANTS cafe, books, k0, c1, x1, x2

(* Raw points per two displayed ones: the bookstore's mint is older and     *)
(* decays from three to four.                                               *)
Decayed == [m \in Merchant |-> [d \in 1 .. MaxDay |-> IF m = books THEN d + 2 ELSE 2]]

Half == {[value |-> 1, ratio |-> 1], [value |-> 0, ratio |-> 1]}

Offered == {[fee |-> 1, low |-> 2, high |-> 2],
            [fee |-> 2, low |-> 0, high |-> 0], [fee |-> 0, low |-> 2, high |-> 1]}

NoOffers == {}
=============================================================================
