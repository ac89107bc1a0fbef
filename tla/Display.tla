------------------------------ MODULE Display ------------------------------
(***************************************************************************)
(* What the commands poll and monitor of redt/redt.go promise the reader   *)
(* of the terminal: blocks appear one after the other, each with the time  *)
(* since the one before, and each is counted when it appears.  A display   *)
(* that polls leaves none out, and goes back no further than the node has  *)
(* gone back; one that listens to announcements never goes back.           *)
(***************************************************************************)
EXTENDS Integers

CONSTANTS
    Numbers,    \* the blocks
    None,       \* no block
    Time,       \* per block: its timestamp
    Modulus     \* timestamps are unsigned, modulo this

VARIABLES
    polled,     \* the node is asked for blocks, and does not announce them
    lags,       \* how often the node's newest block went back
    timed,      \* the block whose timestamp is known, or None
    shown,      \* what was displayed last: the block, and the seconds it took
    counted,    \* per block: how often it counted
    ended       \* the command has ended

vars == <<polled, lags, timed, shown, counted, ended>>

Init ==
    /\ polled \in BOOLEAN /\ lags = 0 /\ timed = None
    /\ shown = [number |-> None, elapsed |-> 0]
    /\ counted = [n \in Numbers |-> 0] /\ ended = FALSE

\* The block that the first display is timed against: itself, where it is polled.
Begin(n) ==
    /\ ~ended /\ timed = None
    /\ timed' = n
    /\ UNCHANGED <<polled, lags, shown, counted, ended>>

Follows(n) ==
    /\ timed # None
    /\ IF polled
       THEN IF shown.number = None THEN n = timed
                                   ELSE timed - lags < n /\ n <= timed + 1
       ELSE n > timed

Unsigned(seconds) == IF seconds < 0 THEN seconds + Modulus ELSE seconds

\* Counting begins above the genesis block.
Count(n) == counted' = IF n = 0 THEN counted ELSE [counted EXCEPT ![n] = @ + 1]

Show(n) ==
    /\ ~ended /\ Follows(n)
    /\ shown' = [number |-> n, elapsed |-> Unsigned(Time[n] - Time[timed])]
    /\ timed' = n
    /\ Count(n)
    /\ UNCHANGED <<polled, lags, ended>>

Lag ==
    /\ lags' = lags + 1
    /\ UNCHANGED <<polled, timed, shown, counted, ended>>

\* A block that cannot be displayed may have been counted.
End ==
    /\ ~ended /\ ended' = TRUE
    /\ UNCHANGED counted \/ \E n \in Numbers : Follows(n) /\ Count(n)
    /\ UNCHANGED <<polled, lags, timed, shown>>

Next == (\E n \in Numbers : Begin(n) \/ Show(n)) \/ Lag \/ End

Spec == Init /\ [][Next]_vars

=============================================================================
