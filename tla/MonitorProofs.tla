--------------------------- MODULE MonitorProofs ---------------------------
(***************************************************************************)
(* Proofs about Monitor, for any chain, timestamps and number of times the *)
(* newest block goes back.  Flow says which function is where, and Gapless,*)
(* CountsInv and TimesInv what the three properties need to know about the *)
(* middle of a loop.                                                       *)
(***************************************************************************)
EXTENDS Monitor, TLAPS

\* InitializeStats waits for itself as soon as it is in its loop, so that nothing
\* is counted when one of the other two functions begins.
Flow ==
    /\ pc = "begin" \/ caller = "InitializeStats" =>
          /\ counted = [n \in Blocks |-> 0] /\ oldNumber = None
          /\ lastBlockProcessed = 0 /\ latestNumber = 0
    /\ caller = "InitializeStats" =>
          /\ pc \in {"begin", "loop", "exited"}
          /\ pc = "loop" => locked /\ i <= currentNumber
          /\ pc = "begin" => ~locked
    /\ caller = "MonitorSigners" =>
          /\ ~locked /\ pc \in {"begin", "loop", "sleep", "exited"}
          /\ pc \in {"loop", "sleep"} => oldNumber # None
    /\ caller = "MonitorSignersWS" =>
          /\ ~locked /\ pc \in {"begin", "receive", "timing", "loop", "exited"}
          /\ rewinds = 0
          /\ pc = "timing" => oldNumber = None
          /\ pc = "loop" => oldNumber # None
    /\ caller # "InitializeStats" /\ pc = "loop" => i >= 0
    /\ oldNumber = None => displayed = {}
    /\ displayed = {} => shown.number = None

\* The displayed blocks reach without a gap from the first one to where poll is.
Gapless ==
    caller = "MonitorSigners" =>
        /\ \A m \in displayed : oldNumber..m \subseteq displayed
        /\ pc = "loop" => oldNumber..(i - 1) \subseteq displayed
        /\ pc = "sleep" => oldNumber..latestNumber \subseteq displayed

\* Where a command stands: the blocks behind it, and those its loop will count.
Passed(n) == IF pc = "loop" THEN n < i /\ n <= currentNumber ELSE n <= latestNumber
Due(n) == pc = "loop" /\ i <= n /\ n <= currentNumber

\* A block ahead of the command, or above the newest block, has used up one rewind
\* for every time it was counted; if it is both, it has a rewind to spare.
CountsInv ==
    \A n \in Blocks :
        /\ counted[n] <= 1 + rewinds
        /\ pc # "exited" /\ caller # "InitializeStats" =>
              /\ ~Passed(n) \/ n > head => counted[n] <= rewinds
              /\ Due(n) /\ n > head => counted[n] + 1 <= rewinds

\* latestTimestamp is the time of the last block timed, which is not ahead of the
\* command, but for the first display of poll.
Behind(m) ==
    IF pc = "loop" THEN m < i \/ (m = i /\ i = currentNumber /\ displayed = {})
                   ELSE m <= latestNumber

TimesInv ==
    rewinds = 0 =>
        /\ ElapsedIsBlockTime
        /\ latestNumber <= head
        /\ pc = "loop" /\ caller # "InitializeStats" =>
              currentNumber <= head /\ i <= currentNumber + 1
        /\ pc # "exited" /\ oldNumber # None =>
              \E m \in Timed : /\ Last(Timed, m) /\ Behind(m)
                               /\ latestTimestamp = Time[m]

-----------------------------------------------------------------------------
(* Types, and where the functions are                                      *)

LEMMA InitFlow == Init => TypeOK /\ Flow
<1> SUFFICES ASSUME Init PROVE TypeOK /\ Flow
    OBVIOUS
<1> USE BoundsAssumption, TimeAssumption DEF Init, Blocks, None
<1>1. TypeOK
    <2>1. Modulus > 0
        BY DEF Blocks
    <2>2. caller \in {"InitializeStats", "MonitorSignersWS"}
        OBVIOUS
    <2>3. shown \in [number : Blocks \cup {None}, elapsed : 0..(Modulus - 1)]
        BY <2>1
    <2>4. locked \in BOOLEAN
        BY Zenon
    <2> QED BY <2>1, <2>2, <2>3, <2>4 DEF TypeOK
<1>2. Flow
    BY CommandsAssumption DEF Flow
<1> QED BY <1>1, <1>2

\* Counting a block adds at most one, to that block.
LEMMA CountStep ==
    ASSUME TypeOK, NEW b \in Blocks, UpdateStatisticsForBlock(b)
    PROVE  /\ counted' \in [Blocks -> Nat]
           /\ \A k \in Blocks : counted'[k] = counted[k] \/ (k = b /\ counted'[k] = counted[k] + 1)
<1>1. counted \in [Blocks -> Nat]
    BY DEF TypeOK
<1>2. CASE counted' = counted
    BY <1>1, <1>2
<1>3. CASE counted' = [counted EXCEPT ![b] = @ + 1]
    BY <1>1, <1>3
<1> QED BY <1>2, <1>3 DEF UpdateStatisticsForBlock

\* The body of the loop displays block i: InitializeStats never gets that far.
LEMMA BodyStep ==
    ASSUME TypeOK, Flow, LoopBody
    PROVE  /\ caller # "InitializeStats" /\ i \in Blocks /\ i <= currentNumber
           /\ counted' \in [Blocks -> Nat]
           /\ \A k \in Blocks : counted'[k] = counted[k] \/ (k = i /\ counted'[k] = counted[k] + 1)
           /\ displayed' = displayed \cup {i} /\ i' = i + 1
           /\ shown' = [number |-> i, elapsed |-> Since(Time[i])]
           /\ latestTimestamp' = Time[i]
           /\ pc = "loop"
           /\ UNCHANGED <<pc, caller, oldNumber, head, rewinds, latestNumber, currentNumber>>
<1> USE DEF LoopBody, nodeVars
<1>1. caller # "InitializeStats"
    BY DEF Flow, UpdateStatisticsForBlock
<1>2. i \in Blocks /\ i <= currentNumber
    BY <1>1, BoundsAssumption DEF InLoop, TypeOK, Flow, Blocks
<1>3. HeaderNumber(i) = i
    BY <1>2 DEF HeaderNumber, LatestBlock, Blocks
<1>4. /\ counted' \in [Blocks -> Nat]
      /\ \A k \in Blocks : counted'[k] = counted[k] \/ (k = i /\ counted'[k] = counted[k] + 1)
    BY <1>2, <1>3, CountStep
<1> QED BY <1>1, <1>2, <1>4 DEF DisplaySignersForBlockNumber, TimeKept

LEMMA NextFlow == ASSUME TypeOK, Flow, [Next]_vars PROVE TypeOK' /\ Flow'
<1> USE BoundsAssumption, OptionsAssumption DEF nodeVars, loopVars, statVars, timeVars, displayVars
<1>1. CASE NothingToCount
    <2> USE <1>1 DEF NothingToCount
    <2>1. TypeOK'
        BY TimeAssumption DEF TypeOK, Flow, Blocks, None
    <2>2. Flow'
        BY DEF TypeOK, Flow, Blocks, None
    <2> QED BY <2>1, <2>2
<1>2. CASE CountOlder
    <2> USE <1>2 DEF CountOlder, LatestBlock
    <2>1. TypeOK'
        BY TimeAssumption DEF TypeOK, Flow, Blocks, None
    <2>2. Flow'
        BY DEF TypeOK, Flow, Blocks, None
    <2> QED BY <2>1, <2>2
<1>3. CASE DisplayFirst
    <2> USE <1>3 DEF DisplayFirst, LatestBlock
    <2>1. TypeOK'
        BY TimeAssumption DEF TypeOK, Flow, Blocks, None
    <2>2. Flow'
        BY DEF TypeOK, Flow, Blocks, None
    <2> QED BY <2>1, <2>2
<1>4. CASE Poll
    <2> USE <1>4 DEF Poll, LatestBlock, FirstToDisplay
    <2>1. TypeOK'
        BY TimeAssumption DEF TypeOK, Flow, Blocks, None
    <2>2. Flow'
        BY DEF TypeOK, Flow, Blocks, None
    <2> QED BY <2>1, <2>2
<1>5. CASE Subscribe
    <2> USE <1>5 DEF Subscribe
    <2>1. TypeOK'
        BY TimeAssumption DEF TypeOK, Flow, Blocks, None
    <2>2. Flow'
        BY DEF TypeOK, Flow, Blocks, None
    <2> QED BY <2>1, <2>2
<1>6. CASE ReceiveHeader
    <2>1. PICK n \in latestNumber + 1 .. head :
             IF oldNumber = None
             THEN latestNumber' = n /\ pc' = "timing" /\ UNCHANGED loopVars
             ELSE i' = n /\ currentNumber' = n /\ pc' = "loop" /\ UNCHANGED latestNumber
        BY <1>6 DEF ReceiveHeader
    <2>2. /\ pc = "receive"
          /\ UNCHANGED <<nodeVars, numBlocks, caller, timeVars, statVars, displayVars>>
        BY <1>6 DEF ReceiveHeader
    <2>3. n \in Blocks /\ n > latestNumber /\ n <= head
        BY <2>1, BoundsAssumption DEF TypeOK, Blocks
    <2>4. TypeOK'
        <3>1. latestNumber' \in Blocks /\ currentNumber' \in Blocks /\ i' \in Int
            BY <2>1, <2>3 DEF TypeOK, Blocks
        <3>2. pc' \in {"timing", "loop"}
            BY <2>1
        <3>3. UNCHANGED <<head, rewinds, numBlocks, caller, latestTimestamp, oldNumber,
                          locked, lastBlockProcessed, counted, displayed, shown>>
            BY <2>2
        <3> QED BY <3>1, <3>2, <3>3 DEF TypeOK
    <2>5. Flow'
        BY <2>2, <2>1, <2>3 DEF TypeOK, Flow, Blocks, None
    <2> QED BY <2>4, <2>5
<1>7. CASE TimeFirst
    <2> USE <1>7 DEF TimeFirst
    <2>1. TypeOK'
        BY TimeAssumption DEF TypeOK, Flow, Blocks, None
    <2>2. Flow'
        BY DEF TypeOK, Flow, Blocks, None
    <2> QED BY <2>1, <2>2
<1>8. CASE FirstNotFound
    <2> USE <1>8 DEF FirstNotFound
    <2>1. TypeOK'
        BY TimeAssumption DEF TypeOK, Flow, Blocks, None
    <2>2. Flow'
        BY DEF TypeOK, Flow, Blocks, None
    <2> QED BY <2>1, <2>2
<1>9. CASE FirstFails
    <2> USE <1>9 DEF FirstFails
    <2>1. TypeOK'
        BY TimeAssumption DEF TypeOK, Flow, Blocks, None
    <2>2. Flow'
        BY DEF TypeOK, Flow, Blocks, None
    <2> QED BY <2>1, <2>2
<1>10. CASE LoopBody
    <2>1. /\ caller # "InitializeStats" /\ pc = "loop" /\ i \in Blocks
          /\ counted' \in [Blocks -> Nat]
          /\ displayed' = displayed \cup {i} /\ i' = i + 1
          /\ shown' = [number |-> i, elapsed |-> Since(Time[i])]
          /\ latestTimestamp' = Time[i]
        BY <1>10, BodyStep DEF TypeOK
    <2>2. UNCHANGED <<head, rewinds, numBlocks, caller, pc, currentNumber, latestNumber,
                      oldNumber, locked, lastBlockProcessed>>
        BY <1>10 DEF LoopBody
    <2>3. Time[i] \in 0..(Modulus - 1) /\ Since(Time[i]) \in 0..(Modulus - 1)
        BY <2>1, TimeAssumption DEF TypeOK, Since
    <2>4. TypeOK'
        <3>1. i' \in Int /\ displayed' \subseteq Blocks /\ latestTimestamp' \in 0..(Modulus - 1)
            BY <2>1, <2>3 DEF TypeOK, Blocks
        <3>2. shown' \in [number : Blocks \cup {None}, elapsed : 0..(Modulus - 1)]
            BY <2>1, <2>3
        <3> QED BY <2>1, <2>2, <3>1, <3>2 DEF TypeOK
    <2>5. Flow'
        BY <2>1, <2>2 DEF TypeOK, Flow, Blocks, None
    <2> QED BY <2>4, <2>5
<1>11. CASE NoHeader
    <2> USE <1>11 DEF NoHeader, InLoop
    <2>1. TypeOK'
        BY TimeAssumption DEF TypeOK, Flow, Blocks, None
    <2>2. Flow'
        BY DEF TypeOK, Flow, Blocks, None
    <2> QED BY <2>1, <2>2
<1>12. CASE NoOperator
    <2>1. /\ caller # "InitializeStats" /\ pc' = "exited"
          /\ UNCHANGED <<head, rewinds, numBlocks, caller, i, currentNumber, latestNumber,
                         latestTimestamp, oldNumber, locked, lastBlockProcessed, displayed, shown>>
        BY <1>12 DEF NoOperator
    <2>2. pc = "loop" /\ i <= currentNumber /\ UpdateStatisticsForBlock(i)
        BY <1>12 DEF NoOperator, InLoop
    <2>3. i \in Blocks
        BY <2>1, <2>2 DEF TypeOK, Flow, Blocks
    <2>4. counted' \in [Blocks -> Nat]
        BY <2>2, <2>3, CountStep
    <2>5. TypeOK'
        BY <2>1, <2>4 DEF TypeOK
    <2>6. Flow'
        BY <2>1 DEF TypeOK, Flow
    <2> QED BY <2>5, <2>6
<1>13. CASE LoopEnds
    <2> USE <1>13 DEF LoopEnds, InLoop
    <2>1. TypeOK'
        BY TimeAssumption DEF TypeOK, Flow, Blocks, None
    <2>2. Flow'
        BY DEF TypeOK, Flow, Blocks, None
    <2> QED BY <2>1, <2>2
<1>14. CASE Exit
    <2> USE <1>14 DEF Exit
    <2>1. TypeOK'
        BY TimeAssumption DEF TypeOK, Flow, Blocks, None
    <2>2. Flow'
        BY DEF TypeOK, Flow, Blocks, None
    <2> QED BY <2>1, <2>2
<1>15. CASE NewBlock
    <2> USE <1>15 DEF NewBlock
    <2>1. TypeOK'
        BY TimeAssumption DEF TypeOK, Flow, Blocks, None
    <2>2. Flow'
        BY DEF TypeOK, Flow, Blocks, None
    <2> QED BY <2>1, <2>2
<1>16. CASE OlderHead
    <2> USE <1>16 DEF OlderHead
    <2>1. TypeOK'
        BY TimeAssumption DEF TypeOK, Flow, Blocks, None
    <2>2. Flow'
        BY DEF TypeOK, Flow, Blocks, None
    <2> QED BY <2>1, <2>2
<1>17. CASE UNCHANGED vars
    BY <1>17 DEF vars, TypeOK, Flow
<1> QED BY <1>1, <1>2, <1>3, <1>4, <1>5, <1>6, <1>7, <1>8, <1>9, <1>10, <1>11, <1>12, <1>13, <1>14, <1>15, <1>16, <1>17 DEF Next, Command

-----------------------------------------------------------------------------
(* No gap                                                                  *)

LEMMA NextGapless == ASSUME TypeOK, Flow, Gapless, [Next]_vars PROVE Gapless'
<1> USE DEF nodeVars, loopVars, statVars, timeVars, displayVars
<1>1. CASE NothingToCount
    <2> USE <1>1 DEF NothingToCount
    <2> QED BY DEF TypeOK, Flow, Blocks, None, Gapless
<1>2. CASE CountOlder
    <2> USE <1>2 DEF CountOlder, LatestBlock
    <2> QED BY DEF TypeOK, Flow, Blocks, None, Gapless
<1>3. CASE DisplayFirst
    <2> USE <1>3 DEF DisplayFirst, LatestBlock
    <2> QED BY DEF TypeOK, Flow, Blocks, None, Gapless
<1>4. CASE Poll
    <2> USE <1>4 DEF Poll, LatestBlock, FirstToDisplay
    <2> QED BY DEF TypeOK, Flow, Blocks, None, Gapless
<1>5. CASE Subscribe
    <2> USE <1>5 DEF Subscribe
    <2> QED BY DEF TypeOK, Flow, Blocks, None, Gapless
<1>6. CASE ReceiveHeader
    <2> USE <1>6 DEF ReceiveHeader
    <2> QED BY DEF TypeOK, Flow, Blocks, None, Gapless
<1>7. CASE TimeFirst
    <2> USE <1>7 DEF TimeFirst
    <2> QED BY DEF TypeOK, Flow, Blocks, None, Gapless
<1>8. CASE FirstNotFound
    <2> USE <1>8 DEF FirstNotFound
    <2> QED BY DEF TypeOK, Flow, Blocks, None, Gapless
<1>9. CASE FirstFails
    <2> USE <1>9 DEF FirstFails
    <2> QED BY DEF TypeOK, Flow, Blocks, None, Gapless
<1>10. CASE LoopBody
    <2>1. /\ caller # "InitializeStats" /\ i \in Blocks
          /\ displayed' = displayed \cup {i} /\ i' = i + 1
          /\ pc = "loop" /\ pc' = "loop" /\ caller' = caller /\ oldNumber' = oldNumber
        BY <1>10, BodyStep
    <2>2. CASE caller = "MonitorSigners"
        <3>1. oldNumber \in Int /\ oldNumber..(i - 1) \subseteq displayed
            BY <2>1, <2>2 DEF Gapless, TypeOK, Blocks, None
        <3>2. oldNumber..i \subseteq displayed'
            BY <2>1, <3>1 DEF Blocks
        <3>3. \A m \in displayed' : oldNumber..m \subseteq displayed'
            BY <2>1, <2>2, <3>2 DEF Gapless
        <3> QED BY <2>1, <3>2, <3>3 DEF Gapless, Blocks
    <2> QED BY <2>1, <2>2 DEF Gapless
<1>11. CASE NoHeader
    <2> USE <1>11 DEF NoHeader, InLoop
    <2> QED BY DEF TypeOK, Flow, Blocks, None, Gapless
<1>12. CASE NoOperator
    <2> USE <1>12 DEF NoOperator, UpdateStatisticsForBlock, InLoop
    <2> QED BY DEF TypeOK, Flow, Blocks, None, Gapless
<1>13. CASE LoopEnds
    <2> USE <1>13 DEF LoopEnds, InLoop
    <2> QED BY DEF TypeOK, Flow, Blocks, None, Gapless
<1>14. CASE Exit
    <2> USE <1>14 DEF Exit
    <2> QED BY DEF TypeOK, Flow, Blocks, None, Gapless
<1>15. CASE NewBlock
    <2> USE <1>15 DEF NewBlock
    <2> QED BY DEF TypeOK, Flow, Blocks, None, Gapless
<1>16. CASE OlderHead
    <2> USE <1>16 DEF OlderHead
    <2> QED BY DEF TypeOK, Flow, Blocks, None, Gapless
<1>17. CASE UNCHANGED vars
    BY <1>17 DEF vars, Gapless
<1> QED BY <1>1, <1>2, <1>3, <1>4, <1>5, <1>6, <1>7, <1>8, <1>9, <1>10, <1>11, <1>12, <1>13, <1>14, <1>15, <1>16, <1>17 DEF Next, Command

-----------------------------------------------------------------------------
(* Counting                                                                *)

LEMMA NextCounts == ASSUME TypeOK, Flow, CountsInv, [Next]_vars PROVE CountsInv'
<1> SUFFICES ASSUME NEW n \in Blocks PROVE (CountsInv!(n))'
    BY DEF CountsInv
<1> USE DEF nodeVars, loopVars, statVars, timeVars, displayVars
<1>1. CASE NothingToCount
    <2> USE <1>1 DEF NothingToCount
    <2> QED BY DEF TypeOK, Flow, Blocks, None, CountsInv, Passed, Due
<1>2. CASE CountOlder
    <2> USE <1>2 DEF CountOlder, LatestBlock
    <2> QED BY DEF TypeOK, Flow, Blocks, None, CountsInv, Passed, Due
<1>3. CASE DisplayFirst
    <2> USE <1>3 DEF DisplayFirst, LatestBlock
    <2> QED BY DEF TypeOK, Flow, Blocks, None, CountsInv, Passed, Due
<1>4. CASE Poll
    <2> USE <1>4 DEF Poll, LatestBlock, FirstToDisplay
    <2> QED BY DEF TypeOK, Flow, Blocks, None, CountsInv, Passed, Due
<1>5. CASE Subscribe
    <2> USE <1>5 DEF Subscribe
    <2> QED BY DEF TypeOK, Flow, Blocks, None, CountsInv, Passed, Due
<1>6. CASE ReceiveHeader
    <2> USE <1>6 DEF ReceiveHeader
    <2> QED BY DEF TypeOK, Flow, Blocks, None, CountsInv, Passed, Due
<1>7. CASE TimeFirst
    <2> USE <1>7 DEF TimeFirst
    <2> QED BY DEF TypeOK, Flow, Blocks, None, CountsInv, Passed, Due
<1>8. CASE FirstNotFound
    <2> USE <1>8 DEF FirstNotFound
    <2> QED BY DEF TypeOK, Flow, Blocks, None, CountsInv, Passed, Due
<1>9. CASE FirstFails
    <2> USE <1>9 DEF FirstFails
    <2> QED BY DEF TypeOK, Flow, Blocks, None, CountsInv, Passed, Due
<1>10. CASE LoopBody
    <2>1. /\ caller # "InitializeStats" /\ i \in Blocks /\ i <= currentNumber
          /\ pc = "loop" /\ i' = i + 1
          /\ UNCHANGED <<pc, caller, rewinds, head, currentNumber, latestNumber>>
        BY <1>10, BodyStep
    <2>2. counted'[n] = counted[n] \/ (n = i /\ counted'[n] = counted[n] + 1)
        BY <1>10, BodyStep
    <2> /\ n \in Int /\ i \in Int /\ currentNumber \in Int /\ head \in Int
        /\ counted[n] \in Nat /\ rewinds \in Nat
        BY <2>1, BoundsAssumption DEF TypeOK, Blocks
    <2>3. /\ counted[n] <= 1 + rewinds
          /\ i <= n \/ n > head => counted[n] <= rewinds
          /\ i <= n /\ n <= currentNumber /\ n > head => counted[n] + 1 <= rewinds
        BY <2>1 DEF CountsInv, Passed, Due
    <2> QED BY <2>1, <2>2, <2>3 DEF Passed, Due
<1>11. CASE NoHeader
    <2> USE <1>11 DEF NoHeader, InLoop
    <2> QED BY DEF TypeOK, Flow, Blocks, None, CountsInv, Passed, Due
<1>12. CASE NoOperator
    <2>1. /\ pc = "loop" /\ pc' = "exited" /\ i <= currentNumber
          /\ caller # "InitializeStats" /\ UNCHANGED <<caller, rewinds>>
          /\ UpdateStatisticsForBlock(i)
        BY <1>12 DEF NoOperator, InLoop
    <2>2. i \in Blocks
        BY <2>1, BoundsAssumption DEF TypeOK, Flow, Blocks
    <2>3. counted[n] <= 1 + rewinds /\ (n = i => counted[n] <= rewinds)
        BY <2>1, <2>2 DEF CountsInv, Passed, TypeOK, Blocks
    <2>4. counted'[n] = counted[n] \/ (n = i /\ counted'[n] = counted[n] + 1)
        BY <2>1, <2>2, CountStep
    <2>5. counted[n] \in Nat /\ rewinds \in Nat
        BY DEF TypeOK
    <2> QED BY <2>1, <2>3, <2>4, <2>5
<1>13. CASE LoopEnds
    <2> USE <1>13 DEF LoopEnds, InLoop
    <2> QED BY DEF TypeOK, Flow, Blocks, None, CountsInv, Passed, Due
<1>14. CASE Exit
    <2> USE <1>14 DEF Exit
    <2> QED BY DEF TypeOK, Flow, Blocks, None, CountsInv, Passed, Due
<1>15. CASE NewBlock
    <2> USE <1>15 DEF NewBlock
    <2> QED BY DEF TypeOK, Flow, Blocks, None, CountsInv, Passed, Due
<1>16. CASE OlderHead
    <2>1. /\ rewinds' = rewinds + 1 /\ head' = head - 1
          /\ UNCHANGED <<pc, caller, i, currentNumber, latestNumber, counted>>
        BY <1>16 DEF OlderHead
    <2>2. (Passed(n))' = Passed(n) /\ (Due(n))' = Due(n)
        BY <2>1 DEF Passed, Due
    <2>3. counted[n] \in Nat /\ rewinds \in Nat /\ n \in Int /\ head \in Int
        BY BoundsAssumption DEF TypeOK, Blocks
    <2>4. /\ counted[n] <= 1 + rewinds
          /\ pc # "exited" /\ caller # "InitializeStats" =>
                (~Passed(n) \/ n > head => counted[n] <= rewinds)
        BY DEF CountsInv
    <2>5. Due(n) => ~Passed(n)
        BY <2>3 DEF Due, Passed, TypeOK, Blocks
    <2> QED BY <2>1, <2>2, <2>3, <2>4, <2>5
<1>17. CASE UNCHANGED vars
    BY <1>17 DEF vars, CountsInv, Passed, Due
<1> QED BY <1>1, <1>2, <1>3, <1>4, <1>5, <1>6, <1>7, <1>8, <1>9, <1>10, <1>11, <1>12, <1>13, <1>14, <1>15, <1>16, <1>17 DEF Next, Command

-----------------------------------------------------------------------------
(* Elapsed times                                                           *)

\* A step that times nothing, and leaves a loop only to end the command.
LEMMA TimesKept ==
    ASSUME TypeOK, TimesInv, rewinds' = rewinds, head' \in Int, head' >= head,
           UNCHANGED <<shown, displayed, oldNumber, latestTimestamp>>,
           UNCHANGED <<latestNumber, currentNumber, i, caller>>,
           pc' # "exited" => (pc' = "loop" <=> pc = "loop"), pc = "exited" => pc' = "exited"
    PROVE  TimesInv'
<1> SUFFICES ASSUME rewinds = 0 PROVE TimesInv'
    BY DEF TimesInv
<1>1. Timed' = Timed
    BY DEF Timed
<1>2. ElapsedIsBlockTime'
    BY <1>1 DEF TimesInv, ElapsedIsBlockTime, Last
<1>3. /\ latestNumber' <= head'
      /\ (pc = "loop" /\ caller # "InitializeStats" =>
              currentNumber <= head /\ i <= currentNumber + 1)
    BY DEF TimesInv, TypeOK, Blocks
<1>4. pc' = "loop" /\ caller' # "InitializeStats" =>
          currentNumber' <= head' /\ i' <= currentNumber' + 1
    BY <1>3 DEF TypeOK, Blocks
<1>5. ASSUME pc' # "exited", oldNumber' # None
      PROVE  (\E m \in Timed : Last(Timed, m) /\ Behind(m) /\ latestTimestamp = Time[m])'
    <2>1. PICK m \in Timed : Last(Timed, m) /\ Behind(m) /\ latestTimestamp = Time[m]
        BY <1>5 DEF TimesInv
    <2>2. Behind(m)'
        BY <1>5, <2>1 DEF Behind
    <2> QED BY <1>1, <2>1, <2>2 DEF Last
<1> QED BY <1>2, <1>3, <1>4, <1>5 DEF TimesInv

LEMMA NextTimes == ASSUME TypeOK, Flow, TimesInv, [Next]_vars PROVE TimesInv'
<1> USE DEF nodeVars, loopVars, statVars, timeVars, displayVars
<1>1. CASE NothingToCount
    <2> USE <1>1 DEF NothingToCount
    <2> QED BY TimeAssumption DEF TypeOK, Flow, Blocks, None, TimesInv, ElapsedIsBlockTime, Timed, Last, Behind
<1>2. CASE CountOlder
    <2> USE <1>2 DEF CountOlder, LatestBlock
    <2> QED BY TimeAssumption DEF TypeOK, Flow, Blocks, None, TimesInv, ElapsedIsBlockTime, Timed, Last, Behind
<1>3. CASE DisplayFirst
    <2> USE <1>3 DEF DisplayFirst, LatestBlock
    <2> QED BY TimeAssumption DEF TypeOK, Flow, Blocks, None, TimesInv, ElapsedIsBlockTime, Timed, Last, Behind
<1>4. CASE Poll
    <2> USE <1>4 DEF Poll, LatestBlock, FirstToDisplay
    <2> QED BY TimeAssumption DEF TypeOK, Flow, Blocks, None, TimesInv, ElapsedIsBlockTime, Timed, Last, Behind
<1>5. CASE Subscribe
    <2> USE <1>5 DEF Subscribe
    <2> QED BY TimeAssumption DEF TypeOK, Flow, Blocks, None, TimesInv, ElapsedIsBlockTime, Timed, Last, Behind
<1>6. CASE ReceiveHeader
    <2>1. PICK n \in latestNumber + 1 .. head :
             IF oldNumber = None
             THEN latestNumber' = n /\ pc' = "timing" /\ UNCHANGED loopVars
             ELSE i' = n /\ currentNumber' = n /\ pc' = "loop" /\ UNCHANGED latestNumber
        BY <1>6 DEF ReceiveHeader
    <2>2. /\ pc = "receive"
          /\ UNCHANGED <<nodeVars, numBlocks, caller, timeVars, statVars, displayVars>>
        BY <1>6 DEF ReceiveHeader
    <2>3. n \in Blocks /\ n > latestNumber /\ n <= head
        BY <2>1, BoundsAssumption DEF TypeOK, Blocks
    <2>4. SUFFICES ASSUME rewinds = 0 PROVE TimesInv'
        BY <2>2 DEF TimesInv
    <2>5. UNCHANGED <<Timed, ElapsedIsBlockTime, rewinds, head, latestTimestamp, oldNumber>>
        BY <2>2 DEF Timed, ElapsedIsBlockTime, Last
    <2>6. ASSUME oldNumber # None
          PROVE  (\E m \in Timed : Last(Timed, m) /\ Behind(m) /\ latestTimestamp = Time[m])'
        <3>1. PICK m \in Timed : Last(Timed, m) /\ Behind(m) /\ latestTimestamp = Time[m]
            BY <2>4, <2>6, <2>2 DEF TimesInv
        <3>2. m \in Int /\ m <= latestNumber
            BY <2>2, <3>1 DEF Behind, Timed, TypeOK, Blocks, None
        <3>3. pc' = "loop" /\ i' = n
            BY <2>1, <2>6
        <3>4. Behind(m)'
            BY <2>3, <3>2, <3>3 DEF Behind, TypeOK, Blocks
        <3> QED BY <2>5, <3>1, <3>4 DEF Last
    <2>7. latestNumber' <= head' /\ (pc' = "loop" => currentNumber' <= head' /\ i' <= currentNumber' + 1)
        BY <2>1, <2>3, <2>4, <2>5, <2>2 DEF TimesInv, Blocks
    <2> QED BY <2>4, <2>5, <2>6, <2>7 DEF TimesInv
<1>7. CASE TimeFirst
    <2> USE <1>7 DEF TimeFirst
    <2> QED BY TimeAssumption DEF TypeOK, Flow, Blocks, None, TimesInv, ElapsedIsBlockTime, Timed, Last, Behind
<1>8. CASE FirstNotFound
    BY <1>8, TimesKept DEF FirstNotFound, TypeOK, Blocks
<1>9. CASE FirstFails
    BY <1>9, TimesKept DEF FirstFails, TypeOK, Blocks
<1>10. CASE LoopBody
    <2>1. SUFFICES ASSUME rewinds = 0 PROVE TimesInv'
        BY <1>10, BodyStep DEF TimesInv
    <2>2. /\ caller # "InitializeStats" /\ i \in Blocks /\ i <= currentNumber
          /\ displayed' = displayed \cup {i} /\ i' = i + 1
          /\ shown' = [number |-> i, elapsed |-> Since(Time[i])]
          /\ latestTimestamp' = Time[i]
          /\ pc = "loop"
          /\ UNCHANGED <<pc, caller, oldNumber, head, rewinds, latestNumber, currentNumber>>
        BY <1>10, BodyStep
    <2>3. oldNumber # None
        BY <2>2 DEF Flow, TypeOK
    <2>4. PICK m \in Timed : Last(Timed, m) /\ Behind(m) /\ latestTimestamp = Time[m]
        BY <2>1, <2>2, <2>3 DEF TimesInv
    <2>5. m \in Blocks /\ Timed \subseteq Blocks /\ Timed' = Timed \cup {i}
        BY <2>2, <2>3, <2>4 DEF Timed, TypeOK
    <2>6. CASE m < i
        <3>1. Last(Timed', i)
            BY <2>4, <2>5, <2>6, <2>2 DEF Last, Blocks
        <3>2. \A k \in Timed : k < i
            BY <2>4, <2>5, <2>6, <2>2 DEF Last, Blocks
        <3>3. {k \in Timed' : k < shown'.number} = Timed
            <4>1. \A k \in Timed' : k < shown'.number <=> k \in Timed
                BY <2>2, <2>5, <3>2 DEF Blocks
            <4> QED BY <2>5, <4>1
        <3>4. Time[m] < Time[i] /\ Time[m] \in Int /\ Time[i] \in Int
            BY <2>2, <2>5, <2>6, TimeAssumption
        <3>5. shown'.elapsed = Time[i] - Time[m]
            BY <2>2, <2>4, <3>4 DEF Since
        <3>6. \A k \in Timed' : Last(Timed, k) => k = m
            BY <2>4, <2>5 DEF Last, Blocks
        <3>7. ElapsedIsBlockTime'
            BY <2>2, <3>3, <3>5, <3>6 DEF ElapsedIsBlockTime
        <3> QED BY <2>1, <2>2, <2>5, <3>1, <3>7 DEF TimesInv, Behind, Blocks, TypeOK
    <2>7. CASE m = i /\ displayed = {}
        <3>1. Timed' = {i} /\ Last(Timed', i)
            BY <2>3, <2>4, <2>5, <2>7 DEF Timed, Last, Blocks
        <3>2. {k \in Timed' : k < shown'.number} = {}
            BY <2>2, <3>1 DEF Blocks
        <3>3. ElapsedIsBlockTime'
            BY <3>2 DEF ElapsedIsBlockTime, Last
        <3> QED BY <2>1, <2>2, <3>1, <3>3 DEF TimesInv, Behind, Blocks, TypeOK
    <2> QED BY <2>2, <2>4, <2>6, <2>7 DEF Behind
<1>11. CASE NoHeader
    BY <1>11, TimesKept DEF NoHeader, TypeOK, Blocks
<1>12. CASE NoOperator
    BY <1>12, TimesKept DEF NoOperator, TypeOK, Blocks
<1>13. CASE LoopEnds
    <2> USE <1>13 DEF LoopEnds, InLoop
    <2>1. SUFFICES ASSUME rewinds = 0 PROVE TimesInv'
        BY DEF TimesInv
    <2>2. caller # "InitializeStats" /\ pc = "loop" /\ i > currentNumber
        BY DEF Flow, TypeOK, Blocks
    <2>3. /\ latestNumber' = currentNumber /\ pc' # "loop"
          /\ UNCHANGED <<head, oldNumber, displayed, shown, latestTimestamp, rewinds, caller>>
        BY <2>2
    <2>4. currentNumber <= head /\ i <= currentNumber + 1 /\ ElapsedIsBlockTime
        BY <2>1, <2>2 DEF TimesInv
    <2>5. ElapsedIsBlockTime'
        BY <2>3, <2>4 DEF ElapsedIsBlockTime, Timed, Last
    <2>6. ASSUME oldNumber # None
          PROVE  (\E m \in Timed : Last(Timed, m) /\ Behind(m) /\ latestTimestamp = Time[m])'
        <3>1. PICK m \in Timed : Last(Timed, m) /\ Behind(m) /\ latestTimestamp = Time[m]
            BY <2>1, <2>2, <2>6 DEF TimesInv
        <3>2. m \in Int
            BY <3>1 DEF Timed, TypeOK, Blocks, None
        <3>3. m <= currentNumber
            BY <2>2, <2>4, <3>1, <3>2 DEF Behind, TypeOK, Blocks
        <3> QED BY <2>3, <3>1, <3>3 DEF Timed, Last, Behind
    <2> QED BY <2>3, <2>4, <2>5, <2>6 DEF TimesInv
<1>14. CASE Exit
    BY <1>14, TimesKept DEF Exit, TypeOK, Blocks
<1>15. CASE NewBlock
    BY <1>15, TimesKept DEF NewBlock, TypeOK, Blocks
<1>16. CASE OlderHead
    BY <1>16 DEF OlderHead, TypeOK, TimesInv
<1>17. CASE UNCHANGED vars
    BY <1>17 DEF vars, TimesInv, ElapsedIsBlockTime, Timed, Last, Behind
<1> QED BY <1>1, <1>2, <1>3, <1>4, <1>5, <1>6, <1>7, <1>8, <1>9, <1>10, <1>11, <1>12, <1>13, <1>14, <1>15, <1>16, <1>17 DEF Next, Command

-----------------------------------------------------------------------------
(* The theorems                                                            *)

\* Every variable keeps its type: no command displays a block the chain does not
\* have, or shows a negative time.
THEOREM TypeCorrect == Spec => []TypeOK
<1> QED BY InitFlow, NextFlow, PTL DEF Spec

\* However the newest block moves between two polls, poll displays everything from
\* its first block on.
THEOREM PollMissesNoBlock == Spec => []NoBlockMissed
<1>1. Init => Gapless
    BY DEF Init, Gapless
<1>2. TypeOK /\ Flow /\ Gapless /\ [Next]_vars => Gapless'
    BY NextGapless
<1>3. TypeOK /\ Flow /\ Gapless => NoBlockMissed
    BY DEF Flow, Gapless, NoBlockMissed
<1> QED BY <1>1, <1>2, <1>3, InitFlow, NextFlow, PTL DEF Spec

\* No sequence of polls, catch-ups and headers counts a block twice; going back r
\* times counts it again r times at most.
THEOREM CountedOncePerRewind == Spec => []RecountedOnlyAfterRewind
<1>1. Init => CountsInv
    BY BoundsAssumption DEF Init, CountsInv, Passed, Due, Blocks
<1>2. TypeOK /\ Flow /\ CountsInv /\ [Next]_vars => CountsInv'
    BY NextCounts
<1>3. CountsInv => RecountedOnlyAfterRewind
    BY DEF CountsInv, RecountedOnlyAfterRewind
<1> QED BY <1>1, <1>2, <1>3, InitFlow, NextFlow, PTL DEF Spec

\* As long as the newest block does not go back, both commands show with a block
\* the time since the block before it, whatever polls or headers there were.
THEOREM ElapsedTimeShown == Spec => []ElapsedIsBlockTime
<1>1. Init => TimesInv
    BY BoundsAssumption DEF Init, TimesInv, ElapsedIsBlockTime, Timed, Last, None, Blocks
<1>2. TypeOK /\ Flow /\ TimesInv /\ [Next]_vars => TimesInv'
    BY NextTimes
<1>3. TimesInv => ElapsedIsBlockTime
    BY DEF TimesInv, ElapsedIsBlockTime
<1> QED BY <1>1, <1>2, <1>3, InitFlow, NextFlow, PTL DEF Spec

=============================================================================
