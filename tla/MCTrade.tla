------------------------------ MODULE MCTrade ------------------------------
(***************************************************************************)
(* Trade.tla for TLC: who starts with what.                                *)
(***************************************************************************)
EXTENDS Trade, TLC

CONSTANTS anna, bert, carl, bag, pouch, sword

\* Anna wears a bag that holds a pouch; the sword is in it or on the ground.
BagLayouts == {(bag :> anna) @@ (pouch :> bag) @@ (sword :> l)
                 : l \in {pouch} \cup Place}

\* The players anna may trade with differ in nothing but their names.
Others == Permutations({bert, carl})
=============================================================================
