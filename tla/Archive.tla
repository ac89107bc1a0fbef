------------------------------ MODULE Archive ------------------------------
(***************************************************************************)
(* What the downloads of history/history.go promise the reader of the      *)
(* database file: whichever commands run, however often they die, the      *)
(* stored blocks are one consecutive run that only ever grows, at one of   *)
(* its ends, by one batch at a time.  A commit that fails may break the    *)
(* run for good, since the command that made it carries on.                *)
(***************************************************************************)
EXTENDS Integers, FiniteSets

CONSTANT BatchSize    \* the most blocks that one commit stores

VARIABLES
    stored,   \* the numbers of the blocks in the file
    broken    \* a commit has failed

vars == <<stored, broken>>

Consecutive(S) == \A a, b \in S : a..b \subseteq S

Init == Consecutive(stored) /\ broken = FALSE

\* All of S lies below, or all of S lies above, what is stored.
AtOneEnd(S) ==
    \/ \A s \in S, r \in stored : s < r
    \/ \A s \in S, r \in stored : s > r

\* A file that nothing was stored in stays empty.
Store ==
    /\ stored # {}
    /\ stored \subseteq stored'
    /\ Cardinality(stored' \ stored) \in 1..BatchSize
    /\ ~broken => Consecutive(stored') /\ AtOneEnd(stored' \ stored)
    /\ UNCHANGED broken

Break == broken' = TRUE /\ UNCHANGED stored

Spec == Init /\ [][Store \/ Break]_vars

=============================================================================
