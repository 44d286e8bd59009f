------------------------------ MODULE MCBasket ------------------------------
(***************************************************************************)
(* Model of Basket for TLC: an item with a limit that may be 0, and two of *)
(* the same name, on the items screen together or one at a time.           *)
(***************************************************************************)
EXTENDS Basket, TLC

CONSTANTS rice, brown, milk

MCItemIds == {rice, brown, milk}
MCNameOf == [i \in MCItemIds |-> IF i = brown THEN rice ELSE i]
MCCategories == {{rice, brown}, {rice, milk}, {milk}}
MCLimits == [i \in MCItemIds |-> IF i = rice THEN {1, 3}
                                 ELSE IF i = brown THEN {2}
                                 ELSE {0, 1, 2}]

Symmetry == Permutations(Objs)
=============================================================================
