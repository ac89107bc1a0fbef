---------------------------- MODULE MCStatistics ----------------------------
(* Instances of Statistics for TLC.                                        *)
EXTENDS Statistics, TLC

CONSTANTS a, b, c, d

\* A1, E1 and c3, which small letters alone would order a1, c3, e1; and B1.
TwoDigits == a :> <<10, 1>> @@ b :> <<14, 1>> @@ c :> <<12, 3>> @@ d :> <<11, 1>>
SmallC == [w \in Validators |-> [k \in 1..2 |-> w # c]]

\* Rotating proposers; block 2 lacks the seal of a.
ThreeBlocks == <<a, b, a>>
ThreeSealers == <<{a, b}, {b}, {a, b}>>
AllReadable == {}

\* Block 2 is proposed by d, which no entry of enodes describes, and the seals of
\* block 3 do not decode.
NewValidator == <<a, d, a, b, c>>
NewSealers == <<{a, b}, {b}, {a, b}, {a, d}, {b, c}>>
Third == {3}
=============================================================================
