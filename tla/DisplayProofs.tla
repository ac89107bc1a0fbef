--------------------------- MODULE DisplayProofs ---------------------------
(***************************************************************************)
(* Monitor implements Display, for any chain, timestamps and number of     *)
(* times the newest block goes back.  What the reader sees next depends on *)
(* where the loops stand: TerminalInv bounds how far that can be from what *)
(* was displayed last.                                                     *)
(***************************************************************************)
EXTENDS MonitorProofs

\* poll: a step back of the newest block is all that can put latestNumber, and with
\* it the start of the next loop, behind the block displayed last.
PollInv ==
    /\ shown.number = None =>
          pc \in {"begin", "loop"} /\ (pc = "loop" => i = oldNumber /\ i = currentNumber)
    /\ shown.number # None =>
          /\ shown.number <= head + rewinds
          /\ pc = "loop" => /\ shown.number <= currentNumber + rewinds
                            /\ shown.number - rewinds < i /\ i <= shown.number + 1
          /\ pc = "sleep" => /\ latestNumber <= shown.number
                             /\ shown.number <= latestNumber + rewinds
    /\ pc = "loop" => currentNumber <= head + rewinds

\* monitor: what has been timed lies behind what is received.
FeedInv ==
    /\ pc = "receive" => LastTimed <= latestNumber
    /\ pc = "loop" => /\ LastTimed <= currentNumber
                      /\ i <= currentNumber => LastTimed < i

TerminalInv ==
    pc # "exited" /\ caller # "InitializeStats" =>
        /\ lastBlockProcessed = 0
        /\ oldNumber # None => latestTimestamp = Time[LastTimed]
        /\ caller = "MonitorSigners" => PollInv
        /\ caller = "MonitorSignersWS" => FeedInv

-----------------------------------------------------------------------------
(* The invariant                                                           *)

\* What is shown and timed are blocks, or None.
LEMMA LastTimedType ==
    ASSUME TypeOK
    PROVE  /\ shown.number \in Blocks \cup {None} /\ LastTimed \in Blocks \cup {None}
           /\ LastTimed = None <=> (oldNumber = None /\ shown.number = None)
<1>1. shown.number \in Blocks \cup {None}
    BY DEF TypeOK
<1> QED BY <1>1 DEF TypeOK, LastTimed

\* A step that displays, times and polls nothing: the node has got no further behind
\* than it has stepped back.
LEMMA TerminalKept ==
    ASSUME TypeOK, TerminalInv,
           \/ head' = head /\ rewinds' = rewinds
           \/ head' = head + 1 /\ rewinds' = rewinds
           \/ head' = head - 1 /\ rewinds' = rewinds + 1,
           UNCHANGED <<shown, oldNumber, latestTimestamp, lastBlockProcessed>>,
           UNCHANGED <<latestNumber, currentNumber, i, caller>>,
           pc' \in {pc, "exited"}
    PROVE  TerminalInv'
<1> SUFFICES ASSUME pc' = pc, pc # "exited", caller # "InitializeStats" PROVE TerminalInv'
    BY DEF TerminalInv
<1>1. LastTimed' = LastTimed /\ shown.number \in Blocks \cup {None}
    BY LastTimedType DEF LastTimed
<1>2. ASSUME caller = "MonitorSigners" PROVE PollInv'
    <2>1. PollInv
        BY <1>2 DEF TerminalInv
    <2>2. /\ head \in Int /\ rewinds \in Int /\ currentNumber \in Int
          /\ latestNumber \in Int /\ i \in Int
        BY BoundsAssumption DEF TypeOK, Blocks
    <2>3. UNCHANGED <<shown, oldNumber, currentNumber, latestNumber, i, pc>>
        OBVIOUS
    <2>4. pc = "loop" => currentNumber <= head' + rewinds'
        BY <2>1, <2>2 DEF PollInv
    <2>5. ASSUME shown.number # None
          PROVE  /\ shown.number <= head' + rewinds'
                 /\ pc = "loop" => /\ shown.number <= currentNumber + rewinds'
                                   /\ shown.number - rewinds' < i /\ i <= shown.number + 1
                 /\ pc = "sleep" => /\ latestNumber <= shown.number
                                    /\ shown.number <= latestNumber + rewinds'
        <3>1. shown.number \in Int
            BY <1>1, <2>5, BoundsAssumption DEF Blocks
        <3> QED BY <2>1, <2>2, <2>5, <3>1 DEF PollInv
    <2> QED BY <2>1, <2>3, <2>4, <2>5 DEF PollInv
<1>3. ASSUME caller = "MonitorSignersWS" PROVE FeedInv'
    <2>1. FeedInv
        BY <1>3 DEF TerminalInv
    <2> QED BY <1>1, <2>1 DEF FeedInv
<1> QED BY <1>1, <1>2, <1>3 DEF TerminalInv

LEMMA NextTerminal == ASSUME TypeOK, Flow, TerminalInv, [Next]_vars PROVE TerminalInv'
<1> USE DEF nodeVars, loopVars, statVars, timeVars, displayVars
<1>0. shown.number \in Blocks \cup {None} /\ LastTimed \in Blocks \cup {None}
    BY LastTimedType
<1>1. CASE NothingToCount
    <2> USE <1>1 DEF NothingToCount
    <2>1. /\ lastBlockProcessed = 0 /\ oldNumber = None /\ shown.number = None
        BY DEF Flow
    <2> QED BY <2>1 DEF TerminalInv, PollInv, FeedInv, LastTimed, None
<1>2. CASE CountOlder
    BY <1>2 DEF CountOlder, TerminalInv
<1>3. CASE DisplayFirst
    <2> USE <1>3 DEF DisplayFirst, LatestBlock
    <2>1. /\ lastBlockProcessed = 0 /\ oldNumber = None /\ shown.number = None
        BY DEF Flow
    <2>2. LastTimed' = head
        BY <2>1 DEF LastTimed
    <2> QED BY <2>1, <2>2 DEF TerminalInv, PollInv, TypeOK, Blocks, None
<1>4. CASE Poll
    <2> USE <1>4 DEF Poll, LatestBlock, FirstToDisplay
    <2>1. caller = "MonitorSigners" /\ PollInv /\ lastBlockProcessed = 0
        BY DEF Flow, TypeOK, TerminalInv
    <2>2. LastTimed' = LastTimed /\ oldNumber # None /\ latestTimestamp = Time[LastTimed]
        BY <2>1 DEF LastTimed, Flow, TerminalInv
    <2>3. PollInv'
        BY <1>0, <2>1 DEF PollInv, TypeOK, Blocks, None
    <2> QED BY <2>1, <2>2, <2>3 DEF TerminalInv
<1>5. CASE Subscribe
    <2> USE <1>5 DEF Subscribe
    <2>1. /\ lastBlockProcessed = 0 /\ oldNumber = None /\ shown.number = None
        BY DEF Flow
    <2>2. LastTimed' = -1
        BY <2>1 DEF LastTimed, None
    <2> QED BY <2>1, <2>2 DEF TerminalInv, FeedInv, TypeOK, Blocks
<1>6. CASE ReceiveHeader
    <2>1. PICK n \in latestNumber + 1 .. head :
             IF oldNumber = None
             THEN latestNumber' = n /\ pc' = "timing" /\ UNCHANGED loopVars
             ELSE i' = n /\ currentNumber' = n /\ pc' = "loop" /\ UNCHANGED latestNumber
        BY <1>6 DEF ReceiveHeader
    <2>2. /\ pc = "receive"
          /\ UNCHANGED <<nodeVars, numBlocks, caller, timeVars, statVars, displayVars>>
        BY <1>6 DEF ReceiveHeader
    <2>3. caller = "MonitorSignersWS" /\ FeedInv /\ lastBlockProcessed = 0
        BY <2>2 DEF Flow, TypeOK, TerminalInv
    <2>4. LastTimed' = LastTimed /\ (oldNumber # None => latestTimestamp = Time[LastTimed])
        BY <2>2, <2>3 DEF LastTimed, TerminalInv
    <2>5. FeedInv'
        BY <1>0, <2>1, <2>2, <2>3, <2>4 DEF FeedInv, TypeOK, Blocks, None
    <2> QED BY <2>2, <2>3, <2>4, <2>5 DEF TerminalInv
<1>7. CASE TimeFirst
    <2> USE <1>7 DEF TimeFirst
    <2>1. caller = "MonitorSignersWS" /\ oldNumber = None /\ shown.number = None
        BY DEF Flow, TypeOK
    <2>2. LastTimed' = latestNumber
        BY <2>1 DEF LastTimed
    <2> QED BY <2>1, <2>2 DEF TerminalInv, FeedInv, TypeOK, Blocks
<1>8. CASE FirstNotFound
    <2> USE <1>8 DEF FirstNotFound
    <2>1. caller = "MonitorSignersWS" /\ oldNumber = None /\ shown.number = None
        BY DEF Flow, TypeOK
    <2>2. LastTimed' = -1
        BY <2>1 DEF LastTimed, None
    <2> QED BY <2>1, <2>2 DEF TerminalInv, FeedInv, TypeOK, Blocks
<1>9. CASE FirstFails
    BY <1>9 DEF FirstFails, TerminalInv
<1>10. CASE LoopBody
    <2>1. /\ caller # "InitializeStats" /\ i \in Blocks /\ i <= currentNumber
          /\ i' = i + 1 /\ pc = "loop"
          /\ shown' = [number |-> i, elapsed |-> Since(Time[i])]
          /\ latestTimestamp' = Time[i]
          /\ UNCHANGED <<pc, caller, oldNumber, head, rewinds, latestNumber, currentNumber>>
        BY <1>10, BodyStep
    <2>2. UNCHANGED lastBlockProcessed /\ lastBlockProcessed = 0
        BY <1>10, <2>1 DEF LoopBody, TerminalInv
    <2>3. shown'.number = i /\ LastTimed' = i
        BY <2>1 DEF LastTimed, Blocks, None
    <2>4. ASSUME caller = "MonitorSigners" PROVE PollInv'
        <3>1. currentNumber <= head + rewinds
            BY <2>1, <2>4 DEF TerminalInv, PollInv
        <3> QED BY <2>1, <2>3, <2>4, <3>1 DEF PollInv, TypeOK, Blocks, None
    <2>5. ASSUME caller = "MonitorSignersWS" PROVE FeedInv'
        BY <2>1, <2>3 DEF FeedInv, TypeOK, Blocks
    <2> QED BY <2>1, <2>2, <2>3, <2>4, <2>5 DEF TerminalInv
<1>11. CASE NoHeader
    BY <1>11 DEF NoHeader, TerminalInv
<1>12. CASE NoOperator
    BY <1>12 DEF NoOperator, TerminalInv
<1>13. CASE LoopEnds
    <2>1. /\ caller # "InitializeStats" /\ pc = "loop" /\ ~InLoop(i)
        BY <1>13 DEF LoopEnds, InLoop, Flow, TypeOK, Blocks
    <2>2. i > currentNumber
        BY <2>1 DEF InLoop, TypeOK, Blocks
    <2>3. /\ latestNumber' = currentNumber
          /\ pc' = IF caller = "MonitorSigners" THEN "sleep" ELSE "receive"
          /\ UNCHANGED <<head, rewinds, oldNumber, shown, latestTimestamp, caller,
                         lastBlockProcessed, i, currentNumber>>
        BY <1>13, <2>1 DEF LoopEnds
    <2>4. LastTimed' = LastTimed
        BY <2>3 DEF LastTimed
    <2>5. ASSUME caller = "MonitorSigners" PROVE PollInv'
        <3>1. PollInv
            BY <2>1, <2>5 DEF TerminalInv
        <3>2. pc' = "sleep" /\ UNCHANGED <<shown, head, rewinds>>
            BY <2>3, <2>5
        <3>3. shown.number # None /\ shown.number \in Int /\ i \in Int /\ currentNumber \in Int
            BY <1>0, <2>1, <2>2, <3>1, BoundsAssumption DEF PollInv, TypeOK, Blocks, None
        <3>4. currentNumber <= shown.number /\ shown.number <= currentNumber + rewinds
            BY <2>1, <2>2, <3>1, <3>3 DEF PollInv
        <3> QED BY <2>3, <3>1, <3>2, <3>3, <3>4 DEF PollInv
    <2>6. ASSUME caller = "MonitorSignersWS" PROVE FeedInv'
        <3>1. FeedInv
            BY <2>1, <2>6 DEF TerminalInv
        <3> QED BY <2>1, <2>3, <2>4, <2>6, <3>1 DEF FeedInv
    <2> QED BY <2>1, <2>3, <2>4, <2>5, <2>6 DEF TerminalInv
<1>14. CASE Exit
    BY <1>14 DEF Exit, TerminalInv
<1>15. CASE NewBlock
    BY <1>15, TerminalKept DEF NewBlock
<1>16. CASE OlderHead
    BY <1>16, TerminalKept DEF OlderHead
<1>17. CASE UNCHANGED vars
    BY <1>17, TerminalKept DEF vars
<1> QED BY <1>1, <1>2, <1>3, <1>4, <1>5, <1>6, <1>7, <1>8, <1>9, <1>10, <1>11, <1>12, <1>13, <1>14, <1>15, <1>16, <1>17 DEF Next, Command

-----------------------------------------------------------------------------
(* The refinement                                                          *)

\* What the reader sees, with what remains of the command behind the terminal.
Seen == <<shown, oldNumber, counted, rewinds, caller # "MonitorSignersWS", pc = "exited">>

LEMMA SeenStutters ==
    ASSUME UNCHANGED Seen PROVE UNCHANGED Terminal!vars
BY DEF Seen, Terminal!vars, LastTimed

\* A command ends, which shows nothing, and counts nothing but what NoOperator does.
LEMMA EndShown ==
    ASSUME pc # "exited", pc' = "exited",
           UNCHANGED <<shown, oldNumber, rewinds, caller>>,
           UNCHANGED counted \/ \E n \in Blocks : Terminal!Follows(n) /\ Terminal!Count(n)
    PROVE  Terminal!End
BY DEF Terminal!End, LastTimed

\* Counting a block, while lastBlockProcessed has its first value.
LEMMA BlockCounted ==
    ASSUME TypeOK, NEW b \in Blocks, lastBlockProcessed = 0, UpdateStatisticsForBlock(b)
    PROVE  Terminal!Count(b)
<1>1. b <= 0 <=> b = 0
    BY BoundsAssumption DEF Blocks
<1> QED BY <1>1 DEF UpdateStatisticsForBlock, Terminal!Count

\* The block a loop gets to is one that may follow.
LEMMA NextFollows ==
    ASSUME TypeOK, Flow, TerminalInv, pc = "loop", caller # "InitializeStats", InLoop(i)
    PROVE  i \in Blocks /\ Terminal!Follows(i) /\ oldNumber # None
<1>1. i \in Blocks /\ i <= currentNumber /\ oldNumber # None
    BY BoundsAssumption DEF InLoop, TypeOK, Flow, Blocks
<1>2. /\ shown.number \in Blocks \cup {None} /\ LastTimed \in Blocks \cup {None}
      /\ LastTimed # None
    BY <1>1, LastTimedType
<1>3. CASE caller = "MonitorSigners"
    <2>1. PollInv
        BY <1>3 DEF TerminalInv
    <2>2. CASE shown.number = None
        BY <1>1, <1>2, <1>3, <2>1, <2>2 DEF PollInv, Terminal!Follows, LastTimed
    <2>3. CASE shown.number # None
        <3>1. LastTimed = shown.number /\ shown.number \in Int /\ rewinds \in Int /\ i \in Int
            BY <1>2, <2>3, BoundsAssumption DEF LastTimed, TypeOK, Blocks
        <3>2. shown.number - rewinds < i /\ i <= shown.number + 1
            BY <2>1, <2>3 DEF PollInv
        <3> QED BY <1>1, <1>2, <1>3, <2>3, <3>1, <3>2 DEF Terminal!Follows
    <2> QED BY <2>2, <2>3
<1>4. CASE caller = "MonitorSignersWS"
    <2>1. LastTimed < i
        BY <1>1, <1>4 DEF TerminalInv, FeedInv
    <2> QED BY <1>1, <1>2, <1>4, <2>1, BoundsAssumption DEF Terminal!Follows, Blocks
<1> QED BY <1>1, <1>3, <1>4 DEF TypeOK

LEMMA NextDisplay ==
    ASSUME TypeOK, Flow, TerminalInv, [Next]_vars PROVE [Terminal!Next]_Terminal!vars
<1> USE DEF nodeVars, loopVars, statVars, timeVars, displayVars
<1>1. CASE NothingToCount
    BY <1>1, SeenStutters DEF NothingToCount, Seen
<1>2. CASE CountOlder
    BY <1>2, SeenStutters DEF CountOlder, Seen
<1>3. CASE DisplayFirst
    <2> USE <1>3 DEF DisplayFirst, LatestBlock
    <2>1. oldNumber = None /\ shown.number = None /\ head \in Blocks
        BY DEF Flow, TypeOK
    <2>2. LastTimed = None /\ LastTimed' = head
        BY <2>1 DEF LastTimed
    <2>3. Terminal!Begin(head)
        BY <2>2 DEF Terminal!Begin
    <2> QED BY <2>1, <2>3 DEF Terminal!Next
<1>4. CASE Poll
    BY <1>4, SeenStutters DEF Poll, Seen
<1>5. CASE Subscribe
    BY <1>5, SeenStutters DEF Subscribe, Seen
<1>6. CASE ReceiveHeader
    <2>1. /\ pc' # "exited" /\ pc # "exited"
          /\ UNCHANGED <<nodeVars, numBlocks, caller, timeVars, statVars, displayVars>>
        BY <1>6 DEF ReceiveHeader
    <2> QED BY <2>1, SeenStutters DEF Seen
<1>7. CASE TimeFirst
    <2> USE <1>7 DEF TimeFirst
    <2>1. oldNumber = None /\ shown.number = None /\ latestNumber \in Blocks
        BY DEF Flow, TypeOK
    <2>2. LastTimed = None /\ LastTimed' = latestNumber
        BY <2>1 DEF LastTimed
    <2>3. Terminal!Begin(latestNumber)
        BY <2>2 DEF Terminal!Begin
    <2> QED BY <2>1, <2>3 DEF Terminal!Next
<1>8. CASE FirstNotFound
    BY <1>8, SeenStutters DEF FirstNotFound, Seen
<1>9. CASE FirstFails
    BY <1>9, EndShown DEF FirstFails, Terminal!Next
<1>10. CASE LoopBody
    <2>1. /\ caller # "InitializeStats" /\ i \in Blocks
          /\ shown' = [number |-> i, elapsed |-> Since(Time[i])]
          /\ pc = "loop" /\ InLoop(i)
          /\ UNCHANGED <<pc, caller, oldNumber, rewinds>>
        BY <1>10, BodyStep DEF LoopBody
    <2>2. Terminal!Follows(i) /\ oldNumber # None
        BY <2>1, NextFollows
    <2>3. Terminal!Count(i)
        <3>1. HeaderNumber(i) = i
            BY <2>1, BoundsAssumption DEF HeaderNumber, Blocks
        <3>2. UpdateStatisticsForBlock(i) /\ lastBlockProcessed = 0
            BY <1>10, <2>1, <3>1 DEF LoopBody, TerminalInv
        <3> QED BY <2>1, <3>2, BlockCounted
    <2>4. shown' = [number |-> i, elapsed |-> Terminal!Unsigned(Time[i] - Time[LastTimed])]
        <3>1. latestTimestamp = Time[LastTimed]
            BY <2>1, <2>2 DEF TerminalInv
        <3>2. Time[i] \in Int /\ latestTimestamp \in Int /\ Modulus \in Int
            BY <2>1, TimeAssumption, BoundsAssumption DEF TypeOK
        <3>3. Since(Time[i]) = Terminal!Unsigned(Time[i] - latestTimestamp)
            BY <3>2 DEF Since, Terminal!Unsigned
        <3> QED BY <2>1, <3>1, <3>3
    <2>5. LastTimed' = i
        BY <2>1 DEF LastTimed, Blocks, None
    <2>6. Terminal!Show(i)
        BY <2>1, <2>2, <2>3, <2>4, <2>5 DEF Terminal!Show
    <2> QED BY <2>1, <2>6 DEF Terminal!Next
<1>11. CASE NoHeader
    BY <1>11, EndShown DEF NoHeader, Terminal!Next
<1>12. CASE NoOperator
    <2> USE <1>12 DEF NoOperator
    <2>1. i \in Blocks /\ Terminal!Follows(i)
        BY NextFollows
    <2>2. lastBlockProcessed = 0
        BY DEF TerminalInv
    <2>3. Terminal!Count(i)
        BY <2>1, <2>2, BlockCounted
    <2>4. Terminal!End
        BY <2>1, <2>3, EndShown
    <2> QED BY <2>4 DEF Terminal!Next
<1>13. CASE LoopEnds
    <2>1. caller # "InitializeStats"
        BY <1>13 DEF LoopEnds, InLoop, Flow, TypeOK, Blocks
    <2> QED BY <1>13, <2>1, SeenStutters DEF LoopEnds, Seen
<1>14. CASE Exit
    <2>1. pc # "exited"
        BY <1>14 DEF Exit
    <2> QED BY <1>14, <2>1, EndShown DEF Exit, Terminal!Next
<1>15. CASE NewBlock
    BY <1>15, SeenStutters DEF NewBlock, Seen
<1>16. CASE OlderHead
    <2>1. Terminal!Lag
        BY <1>16 DEF OlderHead, Terminal!Lag, LastTimed
    <2> QED BY <2>1 DEF Terminal!Next
<1>17. CASE UNCHANGED vars
    BY <1>17, SeenStutters DEF vars, Seen
<1> QED BY <1>1, <1>2, <1>3, <1>4, <1>5, <1>6, <1>7, <1>8, <1>9, <1>10, <1>11, <1>12, <1>13, <1>14, <1>15, <1>16, <1>17 DEF Next, Command

\* Whatever the node does between two looks at it, the terminal shows one block after
\* another, timed against the one before and counted once, and goes back no further
\* than the node went back.
THEOREM MonitorImplementsDisplay == Spec => ImplementsDisplay
<1>1. Init => Terminal!Init
    BY DEF Init, Terminal!Init, LastTimed
<1>2. Init => TerminalInv
    BY DEF Init, TerminalInv, PollInv, FeedInv, LastTimed, None
<1>3. TypeOK /\ Flow /\ TerminalInv /\ [Next]_vars => TerminalInv'
    BY NextTerminal
<1>4. TypeOK /\ Flow /\ TerminalInv /\ [Next]_vars => [Terminal!Next]_Terminal!vars
    BY NextDisplay
<1> QED BY <1>1, <1>2, <1>3, <1>4, InitFlow, NextFlow, PTL DEF Spec, ImplementsDisplay, Terminal!Spec

=============================================================================
