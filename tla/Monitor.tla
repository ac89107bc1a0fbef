------------------------------ MODULE Monitor ------------------------------
(***************************************************************************)
(* The commands poll and monitor of redt/redt.go, each one goroutine.      *)
(* MonitorSigners asks the node for its newest block again and again and   *)
(* displays all blocks since the last time, after InitializeStats has      *)
(* counted some older ones.  MonitorSignersWS displays the headers that    *)
(* its client hands over (see Feed), after the first, which it only times. *)
(* The node is the environment; behind a load balancer the newest block it *)
(* reports may also be an older one than before.                           *)
(***************************************************************************)
EXTENDS Integers

CONSTANTS
    Commands,     \* which of "poll" and "monitor" are run
    Options,      \* values of --blocks: how many older blocks to count first
    MaxBlock,     \* bound: height the chain reaches
    Time,         \* per block: the timestamp of its header
    Modulus,      \* timestamps are unsigned, modulo this
    MaxRewinds    \* bound: times the reported newest block goes back

Blocks == 0..MaxBlock
None == -1        \* no block

ASSUME CommandsAssumption == Commands \subseteq {"poll", "monitor"}
ASSUME OptionsAssumption == Options \subseteq Int
ASSUME BoundsAssumption == MaxBlock \in Nat /\ MaxRewinds \in Nat /\ Modulus \in Nat
ASSUME TimeAssumption == /\ Time \in [Blocks -> 0..(Modulus - 1)]
                         /\ \A m, n \in Blocks : m < n => Time[m] < Time[n]

VARIABLES
    head, rewinds,       \* the newest block the node reports; times it went back
    numBlocks,           \* the option the command was given
    caller, pc,          \* the function that runs, and where it is
    locked,              \* countersLock is held
    i, currentNumber,    \* the loop of that function: next block, last block
    latestNumber,        \* the newest block displayed or handed over so far
    latestTimestamp,     \* the timestamp of the block displayed last
    oldNumber,           \* the first block timed; None: isFirst is true
    lastBlockProcessed,  \* blocks up to here are not counted any more
    counted, displayed,  \* per block, how often it counted; the blocks displayed
    shown                \* the block displayed last and the seconds it took

nodeVars == <<head, rewinds>>
loopVars == <<i, currentNumber>>
statVars == <<locked, lastBlockProcessed, counted>>
timeVars == <<latestTimestamp, oldNumber>>
displayVars == <<displayed, shown>>
vars == <<nodeVars, numBlocks, caller, pc, loopVars, latestNumber, timeVars,
          statVars, displayVars>>

TypeOK ==
    /\ head \in Blocks /\ latestNumber \in Blocks
    /\ currentNumber \in Blocks /\ lastBlockProcessed \in Blocks
    /\ rewinds \in 0..MaxRewinds /\ numBlocks \in Options
    /\ caller \in {"InitializeStats", "MonitorSigners", "MonitorSignersWS"}
    /\ pc \in {"begin", "loop", "sleep", "receive", "timing", "exited"}
    /\ locked \in BOOLEAN /\ i \in Int
    /\ oldNumber \in Blocks \cup {None} /\ latestTimestamp \in 0..(Modulus - 1)
    /\ counted \in [Blocks -> Nat] /\ displayed \subseteq Blocks
    /\ shown \in [number : Blocks \cup {None}, elapsed : 0..(Modulus - 1)]

Init ==
    /\ head \in Blocks /\ rewinds = 0
    /\ numBlocks \in Options
    /\ \E c \in Commands :
          caller = IF c = "poll" THEN "InitializeStats" ELSE "MonitorSignersWS"
    /\ pc = "begin"
    /\ locked = FALSE
    /\ i = 0 /\ currentNumber = 0 /\ latestNumber = 0
    /\ latestTimestamp = 0 /\ oldNumber = None
    /\ lastBlockProcessed = 0 /\ counted = [n \in Blocks |-> 0] /\ displayed = {}
    /\ shown = [number |-> None, elapsed |-> 0]

\* HeaderByNumber(-1).  Headers are cached under their own number, never under
\* -1, so that the newest one always comes from the node.
BugCachesLatest == IF oldNumber = None THEN head ELSE oldNumber
LatestBlock == head

-----------------------------------------------------------------------------
(* InitializeStats, which holds countersLock from its first line on        *)

NothingToCount ==
    /\ caller = "InitializeStats" /\ pc = "begin" /\ numBlocks <= 0
    /\ caller' = "MonitorSigners"
    /\ UNCHANGED <<nodeVars, numBlocks, pc, loopVars, latestNumber, timeVars,
                   statVars, displayVars>>

CountOlder ==
    /\ caller = "InitializeStats" /\ pc = "begin" /\ numBlocks > 0
    /\ locked' = TRUE
    /\ currentNumber' = LatestBlock /\ i' = LatestBlock - numBlocks
    /\ pc' = "loop"
    /\ UNCHANGED <<nodeVars, numBlocks, caller, latestNumber, timeVars,
                   lastBlockProcessed, counted, displayVars>>

-----------------------------------------------------------------------------
(* MonitorSigners                                                          *)

\* The first display, a loop over one block, timed against itself.
DisplayFirst ==
    /\ caller = "MonitorSigners" /\ pc = "begin"
    /\ currentNumber' = LatestBlock /\ i' = LatestBlock
    /\ oldNumber' = LatestBlock /\ latestTimestamp' = Time[LatestBlock]
    /\ pc' = "loop"
    /\ UNCHANGED <<nodeVars, numBlocks, caller, latestNumber, statVars, displayVars>>

BugStartsAtCurrent(n) == currentNumber'
BugStartsAtLatest(n) == n
FirstToDisplay(n) == n + 1

Poll ==
    /\ pc = "sleep"
    /\ currentNumber' = LatestBlock
    /\ IF LatestBlock = latestNumber
       THEN UNCHANGED <<pc, i>>
       ELSE pc' = "loop" /\ i' = FirstToDisplay(latestNumber)
    /\ UNCHANGED <<nodeVars, numBlocks, caller, latestNumber, timeVars,
                   statVars, displayVars>>

-----------------------------------------------------------------------------
(* MonitorSignersWS, which makes no use of numBlocks                       *)

Subscribe ==
    /\ caller = "MonitorSignersWS" /\ pc = "begin"
    /\ latestNumber' = head
    /\ pc' = "receive"
    /\ UNCHANGED <<nodeVars, numBlocks, caller, loopVars, timeVars, statVars, displayVars>>

\* The feed hands over increasing numbers, and after a reconnection skips some.
ReceiveHeader ==
    /\ pc = "receive"
    /\ \E n \in latestNumber + 1 .. head :
          IF oldNumber = None
          THEN latestNumber' = n /\ pc' = "timing" /\ UNCHANGED loopVars
          ELSE i' = n /\ currentNumber' = n /\ pc' = "loop" /\ UNCHANGED latestNumber
    /\ UNCHANGED <<nodeVars, numBlocks, caller, timeVars, statVars, displayVars>>

\* The first header is not displayed.
TimeFirst ==
    /\ pc = "timing"
    /\ latestTimestamp' = Time[latestNumber] /\ oldNumber' = latestNumber
    /\ pc' = "receive"
    /\ UNCHANGED <<nodeVars, numBlocks, caller, loopVars, latestNumber, statVars, displayVars>>

\* The node that is asked does not have the block yet: ethereum.NotFound.
FirstNotFound ==
    /\ pc = "timing"
    /\ pc' = "receive"
    /\ UNCHANGED <<nodeVars, numBlocks, caller, loopVars, latestNumber, timeVars,
                   statVars, displayVars>>

\* The call fails: HeaderByNumber uses the header it does not have, and panics.
FirstFails ==
    /\ pc = "timing"
    /\ pc' = "exited"
    /\ UNCHANGED <<nodeVars, numBlocks, caller, loopVars, latestNumber, timeVars,
                   statVars, displayVars>>

-----------------------------------------------------------------------------
(* The loops over blocks                                                   *)

\* HeaderByNumber takes -1 for the newest block.
HeaderNumber(n) == IF n = -1 THEN LatestBlock ELSE n

\* Waits for countersLock, even when it is the caller that holds it.
UpdateStatisticsForBlock(n) ==
    /\ ~locked
    /\ counted' = IF n <= lastBlockProcessed THEN counted
                                             ELSE [counted EXCEPT ![n] = @ + 1]

\* An unsigned difference.
BugSigned(t) == t - latestTimestamp
Since(t) == IF t >= latestTimestamp THEN t - latestTimestamp
                                    ELSE t - latestTimestamp + Modulus

BugForgetsTime(n) == latestTimestamp
TimeKept(n) == Time[n]

\* The first display's result is dropped: latestTimestamp has that value already.
DisplaySignersForBlockNumber(n) ==
    /\ displayed' = displayed \cup {n}
    /\ shown' = [number |-> n, elapsed |-> Since(Time[n])]
    /\ latestTimestamp' = TimeKept(n)

BugStopsShort(n) == n < currentNumber
InLoop(n) == n <= currentNumber

LoopBody ==
    /\ pc = "loop" /\ InLoop(i) /\ i >= -1
    /\ UpdateStatisticsForBlock(HeaderNumber(i))
    /\ IF caller = "InitializeStats" THEN UNCHANGED <<displayVars, latestTimestamp>>
                                     ELSE DisplaySignersForBlockNumber(i)
    /\ i' = i + 1
    /\ UNCHANGED <<nodeVars, numBlocks, caller, pc, currentNumber, latestNumber,
                   oldNumber, locked, lastBlockProcessed>>

\* For other negative numbers the node returns an error: the cache panics.
NoHeader ==
    /\ pc = "loop" /\ InLoop(i) /\ i < -1
    /\ pc' = "exited"
    /\ UNCHANGED <<nodeVars, numBlocks, caller, loopVars, latestNumber, timeVars,
                   statVars, displayVars>>

\* The author, or a member of valSet, has no entry in enodes: a panic, when the
\* block has been counted and not yet been displayed.
NoOperator ==
    /\ pc = "loop" /\ InLoop(i) /\ caller # "InitializeStats"
    /\ UpdateStatisticsForBlock(i)
    /\ pc' = "exited"
    /\ UNCHANGED <<nodeVars, numBlocks, caller, loopVars, latestNumber, timeVars,
                   locked, lastBlockProcessed, displayVars>>

LoopEnds ==
    /\ pc = "loop" /\ ~InLoop(i)
    /\ IF caller = "InitializeStats"
       THEN /\ lastBlockProcessed' = currentNumber /\ locked' = FALSE
            /\ caller' = "MonitorSigners" /\ pc' = "begin"
            /\ UNCHANGED latestNumber
       ELSE /\ latestNumber' = currentNumber
            /\ pc' = IF caller = "MonitorSigners" THEN "sleep" ELSE "receive"
            /\ UNCHANGED <<lastBlockProcessed, locked, caller>>
    /\ UNCHANGED <<nodeVars, numBlocks, loopVars, timeVars, counted, displayVars>>

\* No connection, no header, a seal that does not decode: log.Fatal or a panic.
Exit ==
    /\ pc \in {"begin", "sleep", "loop"}
    /\ pc' = "exited"
    /\ UNCHANGED <<nodeVars, numBlocks, caller, loopVars, latestNumber, timeVars,
                   statVars, displayVars>>

-----------------------------------------------------------------------------
(* The node                                                                *)

NewBlock ==
    /\ head < MaxBlock
    /\ head' = head + 1
    /\ UNCHANGED <<rewinds, numBlocks, caller, pc, loopVars, latestNumber, timeVars,
                   statVars, displayVars>>

\* Another node answers poll, which lags behind.
OlderHead ==
    /\ caller # "MonitorSignersWS"
    /\ head > 0 /\ rewinds < MaxRewinds
    /\ head' = head - 1 /\ rewinds' = rewinds + 1
    /\ UNCHANGED <<numBlocks, caller, pc, loopVars, latestNumber, timeVars,
                   statVars, displayVars>>

-----------------------------------------------------------------------------
Command ==
    \/ NothingToCount \/ CountOlder \/ DisplayFirst \/ Poll
    \/ Subscribe \/ TimeFirst \/ LoopBody \/ NoHeader \/ LoopEnds

Next ==
    \/ Command
    \/ ReceiveHeader \/ FirstNotFound \/ FirstFails \/ NoOperator \/ Exit
    \/ NewBlock \/ OlderHead

Spec == Init /\ [][Next]_vars

\* The goroutine is scheduled; the node need not make blocks, announce them or fail.
FairSpec == Spec /\ WF_vars(Command)

-----------------------------------------------------------------------------
(* Properties                                                              *)

\* README.md:8 "no blocks are missed": from the first block that poll displays up
\* to any other there is no gap, however many blocks pass between two polls, and
\* however far and often the newest block goes back in between.
NoBlockMissed ==
    caller = "MonitorSigners" =>
        \A m \in displayed : oldNumber # None /\ oldNumber..m \subseteq displayed

\* A block counts once, and once more at most for each time the newest block
\* went back: polling between two blocks and looping over several counts none twice.
RecountedOnlyAfterRewind == \A n \in Blocks : counted[n] <= 1 + rewinds

Timed == displayed \cup ({oldNumber} \ {None})
Last(S, m) == m \in S /\ \A k \in S : k <= m

\* Unless the newest block went back, the seconds shown with a block are the ones
\* since the block that was timed before it, across polls and skipped headers.
ElapsedIsBlockTime ==
    rewinds = 0 =>
        \A m \in Timed : Last({k \in Timed : k < shown.number}, m) =>
            shown.elapsed = Time[shown.number] - Time[m]

\* The block whose time latestTimestamp is.
LastTimed == IF shown.number = None THEN oldNumber ELSE shown.number

\* The terminal is a Display: the code looks up, counts and shows a block, carries
\* its time and its number across polls and loops in variables of their own, and
\* asks a node that may go back; the reader sees one block after another, each
\* counted once and timed against the one before, even where the node goes back.
Terminal == INSTANCE Display WITH
    Numbers <- Blocks, polled <- (caller # "MonitorSignersWS"), lags <- rewinds,
    timed <- LastTimed, ended <- (pc = "exited")
ImplementsDisplay == Terminal!Spec

\* Every block that a sleeping monitor could poll gets displayed, or a later one,
\* unless the command dies or the node steps back behind that block.
KeepsUp ==
    \A n \in Blocks :
        (pc = "sleep" /\ head = n) ~>
            ((\E m \in displayed : m >= n) \/ head < n \/ pc = "exited")

-----------------------------------------------------------------------------
(* What the documentation says and the code does not do                    *)

\* README.md:12 "the program will accumulate statistics for those blocks before
\* beginning to display the current ones": it gets to the displaying.
BeginsToDisplay ==
    (caller = "InitializeStats") ~> (caller = "MonitorSigners" \/ pc = "exited")

\* redt.go:867 "Log the error and retry with next block": no failure to get the
\* first header ends the command.
RetriesFirstHeader == [][pc = "timing" => pc' = "receive"]_pc

=============================================================================
