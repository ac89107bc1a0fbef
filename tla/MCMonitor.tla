----------------------------- MODULE MCMonitor -----------------------------
(* Instances of Monitor for TLC.                                           *)
EXTENDS Monitor

\* No older blocks, or some, which a short chain may not have.
SomeOptions == {-1, 0, 2}
PollAndMonitor == {"poll", "monitor"}
OnlyPoll == {"poll"}
OnlyMonitor == {"monitor"}

\* No two spans between blocks are equal, so that each tells its ends.
Squares == [n \in Blocks |-> n * n]
=============================================================================
