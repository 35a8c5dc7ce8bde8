------------------------------ MODULE MCDecay -------------------------------
(***************************************************************************)
(* Decay.tla with a torch that burns down to a stub and goes out, a torch  *)
(* that keeps its time while it is put out, and a corpse that rots with    *)
(* what is in it.                                                          *)
(***************************************************************************)
EXTENDS Decay

CONSTANTS i1, i2, i3, lit, stub, out, corpse

McDecayTime == [t \in Type |-> CASE t = lit -> MaxTime [] t = stub -> 1
                                 [] t = corpse -> MaxTime - 1 [] OTHER -> 0]
McDecayTo == [t \in Type |-> CASE t = lit /\ stub \in Type -> stub
                               [] t = out -> Never [] OTHER -> Vanish]
McStopTime == [t \in Type |-> t = out]

\* Torches on the ground.
Torches == {<<[i \in Item |-> lit], [i \in Item |-> World]>>}

\* The same, or a corpse with a torch in it.
TorchesOrCorpse ==
  Torches \cup {<<[i \in Item |-> IF i = i1 THEN corpse ELSE lit],
                [i \in Item |-> IF i = i1 THEN World ELSE i1]>>}

\* A corpse with a torch in it and another torch beside it.
CorpseAndTorches ==
  {<<[i \in Item |-> IF i = i1 THEN corpse ELSE lit],
     [i \in Item |-> IF i = i2 THEN i1 ELSE World]>>}
=============================================================================
