----------------------------- MODULE Scoreboard -----------------------------
(***************************************************************************)
(* What the statistics of redt/redt.go promise those who share one         *)
(* RedTNode: a block is counted for its proposer and for all of its        *)
(* sealers at once, a reader takes both columns at one moment, and the     *)
(* program begins from zero whenever it is started.                        *)
(***************************************************************************)
EXTENDS Naturals

CONSTANTS
    Readers,   \* those that look at the scoreboard
    Nothing,   \* what a reader has that holds no copy of it
    Names,     \* the validators
    Numbers,   \* the blocks
    Author,    \* per block: its proposer
    Sealers    \* per block: the validators that sealed it

VARIABLES
    proposals, signatures,   \* the two columns
    copy                     \* per reader: both columns as they once were, or Nothing

vars == <<proposals, signatures, copy>>

Blank == [w \in Names |-> 0]

Init == proposals = Blank /\ signatures = Blank /\ copy = [v \in Readers |-> Nothing]

Count(n) ==
    /\ proposals' = [proposals EXCEPT ![Author[n]] = @ + 1]
    /\ signatures' = [w \in Names |->
                         IF w \in Sealers[n] THEN signatures[w] + 1 ELSE signatures[w]]
    /\ UNCHANGED copy

TakeCopy(v) ==
    /\ copy[v] = Nothing
    /\ copy' = [copy EXCEPT ![v] = [proposals |-> proposals, signatures |-> signatures]]
    /\ UNCHANGED <<proposals, signatures>>

DropCopy(v) ==
    /\ copy' = [copy EXCEPT ![v] = Nothing]
    /\ UNCHANGED <<proposals, signatures>>

Restart ==
    /\ proposals' = Blank /\ signatures' = Blank
    /\ copy' = [v \in Readers |-> Nothing]

Next ==
    \/ \E n \in Numbers : Count(n)
    \/ \E v \in Readers : TakeCopy(v) \/ DropCopy(v)
    \/ Restart

Spec == Init /\ [][Next]_vars

=============================================================================
