--------------------------- MODULE MCDagValidation --------------------------
(* Every plan of up to three nodes over few ids.  The id a.b can be a child b
   of a or a node written with a dot; z names nothing. *)
EXTENDS DagValidation

A == <<"a">>
B == <<"b">>
AB == <<"a", "b">>
Z == <<"z">>

SomeNames == {A, B, AB}
SomeDeps  == {<<>>, <<A>>, <<B>>, <<AB>>, <<Z>>, <<A, A>>, <<A, B>>, <<B, AB>>}
NodeAt(i) == [name : SomeNames, in : 0 .. (i - 1), deps : SomeDeps]
SmallPlans ==
    {<<x>> : x \in NodeAt(1)}
    \union {<<x, y>> : x \in NodeAt(1), y \in NodeAt(2)}
    \union {p \in NodeAt(1) \X NodeAt(2) \X NodeAt(3) : p[3].in = 1 => p[2].in = 1}
\* Sub-plans nest up to three deep.
SomeIds == UNION {[1 .. n -> {"a", "b", "z"}] : n \in 1 .. 6}
=============================================================================
