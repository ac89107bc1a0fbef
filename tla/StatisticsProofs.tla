-------------------------- MODULE StatisticsProofs --------------------------
(***************************************************************************)
(* Proofs about Statistics, for any number of viewers, validators and      *)
(* blocks: types, that countersLock is held by exactly the handlers inside *)
(* its critical sections, that a table names the next proposer, and that   *)
(* both of its columns count the same updates.                             *)
(***************************************************************************)
EXTENDS Statistics, ValidatorsProofs

\* The proposer that is announced is a member of the validator set, wherever in
\* the set the author is, and also if it is not in it.
LEMMA NextIsMember ==
    ASSUME NEW s \in Orders(ValSet), NEW author
    PROVE  NextProposer(s, author) \in ValSet
<1> DEFINE N == Cardinality(ValSet)
<1>1. N \in Nat /\ N # 0
    BY ValSetAssumption, FS_CardinalityType, FS_EmptySet
<1>2. s \in [1..N -> ValSet]
    BY DEF Orders
<1>3. Len(s) = N /\ DOMAIN s = 1..N
    <2> HIDE DEF N
    <2> QED BY <1>1, <1>2
<1>4. \A k \in 1..N : (k % N) + 1 \in 1..N
    <2> HIDE DEF N
    <2> QED BY <1>1
<1> HIDE DEF N
<1>5. CASE {k \in DOMAIN s : s[k] = author} = {}
    <2>1. 1 \in 1..N
        BY <1>1
    <2> QED BY <1>2, <1>5, <2>1 DEF NextProposer
<1>6. CASE {k \in DOMAIN s : s[k] = author} # {}
    <2> DEFINE j == CHOOSE k \in {k \in DOMAIN s : s[k] = author} : TRUE
    <2>1. j \in 1..N
        BY <1>3, <1>6
    <2>2. NextProposer(s, author) = s[(j % N) + 1]
        BY <1>3, <1>6 DEF NextProposer
    <2> QED BY <1>2, <1>4, <2>1, <2>2
<1> QED BY <1>5, <1>6

-----------------------------------------------------------------------------
(* Types                                                                   *)

LEMMA InitType == Init => TypeOK
BY ChainAssumption, ViewersAssumption DEF Init, TypeOK, getValSet, Zero, Counts, NoTable

LEMMA NextType == ASSUME TypeOK, [Next]_vars PROVE TypeOK'
<1> USE ChainAssumption, ViewersAssumption DEF TypeOK, GoTo, program, counters, countersLock
<1>1. ASSUME NEW v \in Viewers, Connect(v) PROVE TypeOK'
    BY <1>1 DEF Connect, NoTable, Zero, Counts
<1>2. ASSUME NEW v \in Viewers, ReceiveHeader(v) PROVE TypeOK'
    BY <1>2 DEF ReceiveHeader, Announced
<1>3. ASSUME NEW v \in Viewers, WriteMessage(v) PROVE TypeOK'
    BY <1>3 DEF WriteMessage
<1>4. ASSUME NEW v \in Viewers, HandlerEnds(v) PROVE TypeOK'
    BY <1>4 DEF HandlerEnds
<1>5. ASSUME NEW v \in Viewers, UpdateLock(v) PROVE TypeOK'
    BY <1>5 DEF UpdateLock
<1>6. ASSUME NEW v \in Viewers, SignersUnreadable(v) PROVE TypeOK'
    BY <1>6 DEF SignersUnreadable, CountersAfterRestart, getValSet, Zero, Counts
<1>7. ASSUME NEW v \in Viewers, CountProposer(v) PROVE TypeOK'
    <2>1. asProposer' = [asProposer EXCEPT ![Author[block[v]]] = @ + 1]
        BY <1>7 DEF CountProposer
    <2>2. asProposer' \in Counts
        <3>1. asProposer \in [Validators -> Nat]
            BY DEF Counts
        <3>2. \A w \in Validators : asProposer[w] + 1 \in Nat
            BY <3>1
        <3> HIDE DEF TypeOK
        <3> QED BY <2>1, <3>1, <3>2 DEF Counts
    <2> QED BY <1>7, <2>2 DEF CountProposer
<1>8. ASSUME NEW v \in Viewers, CountSigners(v) PROVE TypeOK'
    BY <1>8 DEF CountSigners, Counts
<1>9. ASSUME NEW v \in Viewers, RLock(v) PROVE TypeOK'
    BY <1>9, NextIsMember DEF RLock, Zero, Counts
<1>10. ASSUME NEW v \in Viewers, RUnlock(v) PROVE TypeOK'
    BY <1>10 DEF RUnlock, ReadersAfter, AfterPanic
<1>11. CASE NewBlock
    BY <1>11 DEF NewBlock
<1>12. CASE UNCHANGED vars
    BY <1>12 DEF vars
<1> QED BY <1>1, <1>2, <1>3, <1>4, <1>5, <1>6, <1>7, <1>8, <1>9, <1>10, <1>11, <1>12 DEF Next, Browser, Handler

\* Every variable keeps its type, whatever the handlers do to each other.
THEOREM TypeCorrect == Spec => []TypeOK
<1> QED BY InitType, NextType, PTL DEF Spec

-----------------------------------------------------------------------------
(* The lock                                                                *)

LEMMA NextLock == ASSUME TypeOK, LockHeld, [Next]_vars PROVE LockHeld'
<1> USE ViewersAssumption DEF TypeOK, LockHeld, GoTo, program, counters, countersLock
<1>1. ASSUME NEW v \in Viewers, Connect(v) PROVE LockHeld'
    BY <1>1 DEF Connect
<1>2. ASSUME NEW v \in Viewers, ReceiveHeader(v) PROVE LockHeld'
    BY <1>2 DEF ReceiveHeader
<1>3. ASSUME NEW v \in Viewers, WriteMessage(v) PROVE LockHeld'
    BY <1>3 DEF WriteMessage
<1>4. ASSUME NEW v \in Viewers, HandlerEnds(v) PROVE LockHeld'
    BY <1>4 DEF HandlerEnds
<1>5. ASSUME NEW v \in Viewers, UpdateLock(v) PROVE LockHeld'
    BY <1>5 DEF UpdateLock
<1>6. ASSUME NEW v \in Viewers, SignersUnreadable(v) PROVE LockHeld'
    BY <1>6 DEF SignersUnreadable
<1>7. ASSUME NEW v \in Viewers, CountProposer(v) PROVE LockHeld'
    BY <1>7 DEF CountProposer
<1>8. ASSUME NEW v \in Viewers, CountSigners(v) PROVE LockHeld'
    BY <1>8 DEF CountSigners
<1>9. ASSUME NEW v \in Viewers, RLock(v) PROVE LockHeld'
    BY <1>9 DEF RLock, MayRead
<1>10. ASSUME NEW v \in Viewers, RUnlock(v) PROVE LockHeld'
    BY <1>10 DEF RUnlock, ReadersAfter, AfterPanic
<1>11. CASE NewBlock
    BY <1>11 DEF NewBlock
<1>12. CASE UNCHANGED vars
    BY <1>12 DEF vars
<1> QED BY <1>1, <1>2, <1>3, <1>4, <1>5, <1>6, <1>7, <1>8, <1>9, <1>10, <1>11, <1>12 DEF Next, Browser, Handler

\* No panic, and no end of a handler, leaves countersLock locked; readers and
\* the one writer exclude each other, for any number of viewers.
THEOREM LockIsHeldInside == Spec => []LockHeld
<1>1. Init => LockHeld
    BY ViewersAssumption DEF Init, LockHeld
<1>2. TypeOK /\ LockHeld /\ [Next]_vars => LockHeld'
    BY NextLock
<1> QED BY <1>1, <1>2, TypeCorrect, PTL DEF Spec

-----------------------------------------------------------------------------
(* The next proposer                                                       *)

\* The validator set is in the order of the turns, and a table announces the next
\* proposer by that order and the block that it is about.
TurnsInv ==
    /\ valSet \in getValSet(ValSet)
    /\ \A v \in Viewers : pc[v] \in {"reading", "shown"} =>
          table[v].next = NextProposer(valSet, Author[block[v]])

LEMMA NextTurns ==
    ASSUME TypeOK, TurnsInv, [Next]_vars PROVE TurnsInv'
<1> USE DEF TypeOK, TurnsInv, GoTo, program, counters, countersLock
<1>1. ASSUME NEW v \in Viewers, Connect(v) PROVE TurnsInv'
    BY <1>1 DEF Connect
<1>2. ASSUME NEW v \in Viewers, ReceiveHeader(v) PROVE TurnsInv'
    BY <1>2 DEF ReceiveHeader
<1>3. ASSUME NEW v \in Viewers, WriteMessage(v) PROVE TurnsInv'
    BY <1>3 DEF WriteMessage
<1>4. ASSUME NEW v \in Viewers, HandlerEnds(v) PROVE TurnsInv'
    BY <1>4 DEF HandlerEnds
<1>5. ASSUME NEW v \in Viewers, UpdateLock(v) PROVE TurnsInv'
    BY <1>5 DEF UpdateLock
<1>6. ASSUME NEW v \in Viewers, SignersUnreadable(v) PROVE TurnsInv'
    BY <1>6 DEF SignersUnreadable
<1>7. ASSUME NEW v \in Viewers, CountProposer(v) PROVE TurnsInv'
    BY <1>7 DEF CountProposer
<1>8. ASSUME NEW v \in Viewers, CountSigners(v) PROVE TurnsInv'
    BY <1>8 DEF CountSigners
<1>9. ASSUME NEW v \in Viewers, RLock(v) PROVE TurnsInv'
    BY <1>9 DEF RLock
<1>10. ASSUME NEW v \in Viewers, RUnlock(v) PROVE TurnsInv'
    BY <1>10 DEF RUnlock, AfterPanic
<1>11. CASE NewBlock
    BY <1>11 DEF NewBlock
<1>12. CASE UNCHANGED vars
    BY <1>12 DEF vars
<1> QED BY <1>1, <1>2, <1>3, <1>4, <1>5, <1>6, <1>7, <1>8, <1>9, <1>10, <1>11, <1>12 DEF Next, Browser, Handler

\* Each table announces the validator whose turn follows its block's author's, for
\* validator sets of any size, in whatever order the node returned them.
THEOREM AnnouncedInTurn == Spec => []NextProposerInTurn
<1>1. Init => TurnsInv
    BY DEF Init, TurnsInv
<1>2. TypeOK /\ TurnsInv /\ [Next]_vars => TurnsInv'
    BY NextTurns
<1>3. TurnsInv => NextProposerInTurn
    <2>1. ValSet \in SUBSET Validators /\ IsFiniteSet(ValSet)
        BY ChainAssumption, ValSetAssumption
    <2> QED BY <2>1, NextProposerFollows DEF TurnsInv, NextProposerInTurn
<1> QED BY <1>1, <1>2, <1>3, TypeCorrect, PTL DEF Spec

-----------------------------------------------------------------------------
(* The tables                                                              *)

\* Viewers have counted blocks up to the one they are at, since the program began.
Counted(updates) ==
    \A u \in updates : /\ u[2] <= block[u[1]]
                       /\ pc[u[1]] \in {"update", "proposer", "signers"} => u[2] # block[u[1]]

\* The counters are those of the updates that are done, and of the one half done.
CountersAgree(updates) ==
    \A w \in Validators : /\ asProposer[w] = Proposals(updates \cup HalfDone, w)
                          /\ asSigner[w] = Signatures(updates, w)

\* Whoever is about to read the counters has counted the block, and no update comes
\* between its reading of the first column and of the second.
ReadersCounted(updates) ==
    \A v \in Viewers :
        /\ pc[v] \in {"read", "reading"} => <<v, block[v]>> \in updates
        /\ pc[v] = "reading" => /\ table[v].number = block[v]
                                /\ table[v].proposals = asProposer

Updates == SUBSET (Viewers \X (started + 1 .. head))

Ledger ==
    \E updates \in Updates : Counted(updates) /\ CountersAgree(updates) /\ ReadersCounted(updates)

\* No viewer is ahead of the chain, and a connected one is at a block that the program
\* may have seen announced.
BlocksInv ==
    \A v \in Viewers : /\ block[v] <= head
                       /\ pc[v] # "off" => started <= block[v]
                       /\ pc[v] \in {"update", "proposer", "signers"} => started < block[v]

LEMMA NextBlocks == ASSUME TypeOK, BlocksInv, [Next]_vars PROVE BlocksInv'
<1> USE ChainAssumption DEF TypeOK, BlocksInv, GoTo, program, Blocks
<1>1. ASSUME NEW v \in Viewers, Connect(v) PROVE BlocksInv'
    BY <1>1 DEF Connect
<1>2. ASSUME NEW v \in Viewers, ReceiveHeader(v) PROVE BlocksInv'
    <2>1. PICK n \in Announced(v) : block' = [block EXCEPT ![v] = n]
        BY <1>2 DEF ReceiveHeader
    <2>2. n \in Int /\ block[v] < n /\ n <= head
        BY <2>1 DEF Announced
    <2>3. pc[v] # "off" /\ UNCHANGED <<head, started>>
        BY <1>2 DEF ReceiveHeader
    <2>4. \A u \in Viewers \ {v} : pc'[u] = pc[u] /\ block'[u] = block[u]
        BY <1>2, <2>1 DEF ReceiveHeader
    <2>5. block'[v] = n /\ started < n
        BY <2>1, <2>2, <2>3
    <2> SUFFICES ASSUME NEW u \in Viewers
                 PROVE  /\ block'[u] <= head' /\ (pc'[u] # "off" => started' <= block'[u])
                        /\ pc'[u] \in {"update", "proposer", "signers"} => started' < block'[u]
        OBVIOUS
    <2>6. CASE u = v
        BY <2>2, <2>3, <2>5, <2>6
    <2>7. CASE u # v
        BY <2>3, <2>4, <2>7
    <2> QED BY <2>6, <2>7
<1>3. ASSUME NEW v \in Viewers, WriteMessage(v) PROVE BlocksInv'
    BY <1>3 DEF WriteMessage
<1>4. ASSUME NEW v \in Viewers, HandlerEnds(v) PROVE BlocksInv'
    BY <1>4 DEF HandlerEnds
<1>5. ASSUME NEW v \in Viewers, UpdateLock(v) PROVE BlocksInv'
    BY <1>5 DEF UpdateLock
<1>6. ASSUME NEW v \in Viewers, SignersUnreadable(v) PROVE BlocksInv'
    BY <1>6 DEF SignersUnreadable
<1>7. ASSUME NEW v \in Viewers, CountProposer(v) PROVE BlocksInv'
    BY <1>7 DEF CountProposer
<1>8. ASSUME NEW v \in Viewers, CountSigners(v) PROVE BlocksInv'
    BY <1>8 DEF CountSigners
<1>9. ASSUME NEW v \in Viewers, RLock(v) PROVE BlocksInv'
    BY <1>9 DEF RLock
<1>10. ASSUME NEW v \in Viewers, RUnlock(v) PROVE BlocksInv'
    BY <1>10 DEF RUnlock, AfterPanic
<1>11. CASE NewBlock
    BY <1>11 DEF NewBlock
<1>12. CASE UNCHANGED vars
    BY <1>12 DEF vars
<1> QED BY <1>1, <1>2, <1>3, <1>4, <1>5, <1>6, <1>7, <1>8, <1>9, <1>10, <1>11, <1>12 DEF Next, Browser, Handler

\* What one more update adds to either column.
LEMMA OneMoreUpdate ==
    ASSUME NEW U \in SUBSET (Viewers \X Blocks), NEW x \in Viewers \X Blocks, x \notin U,
           NEW w \in Validators
    PROVE  /\ Proposals(U, w) \in Nat /\ Signatures(U, w) \in Nat
           /\ Proposals(U \cup {x}, w) =
                 IF Author[x[2]] = w THEN Proposals(U, w) + 1 ELSE Proposals(U, w)
           /\ Signatures(U \cup {x}, w) =
                 IF w \in Sealers[x[2]] THEN Signatures(U, w) + 1 ELSE Signatures(U, w)
<1> DEFINE By(V) == {u \in V : Author[u[2]] = w}
           Of(V) == {u \in V : w \in Sealers[u[2]]}
<1>1. IsFiniteSet(U)
    <2>1. IsFiniteSet(Viewers \X Blocks)
        <3>1. IsFiniteSet(Blocks)
            BY ChainAssumption, FS_Interval DEF Blocks
        <3>2. IsFiniteSet(Viewers)
            BY ViewersAssumption
        <3> QED BY <3>1, <3>2, FS_Product
    <2> QED BY <2>1, FS_Subset
<1>2. IsFiniteSet(By(U)) /\ IsFiniteSet(Of(U))
    BY <1>1, FS_Subset
<1>3. By(U \cup {x}) = IF Author[x[2]] = w THEN By(U) \cup {x} ELSE By(U)
    OBVIOUS
<1>4. Of(U \cup {x}) = IF w \in Sealers[x[2]] THEN Of(U) \cup {x} ELSE Of(U)
    OBVIOUS
<1>5. x \notin By(U) /\ x \notin Of(U)
    OBVIOUS
<1>6. \A V : Proposals(V, w) = Cardinality(By(V)) /\ Signatures(V, w) = Cardinality(Of(V))
    BY DEF Proposals, Signatures
<1> HIDE DEF By, Of
<1>7. /\ Cardinality(By(U)) \in Nat /\ Cardinality(Of(U)) \in Nat
      /\ Cardinality(By(U) \cup {x}) = Cardinality(By(U)) + 1
      /\ Cardinality(Of(U) \cup {x}) = Cardinality(Of(U)) + 1
    BY <1>2, <1>5, FS_CardinalityType, FS_AddElement
<1> QED BY <1>3, <1>4, <1>6, <1>7
\* The ledger survives a step that neither counts nor goes back on a block.
LEMMA LedgerKept ==
    ASSUME TypeOK, Ledger, started' = started, head' \in Nat, head <= head',
           UNCHANGED counters, HalfDone' = HalfDone,
           \A v \in Viewers :
              /\ block[v] <= block'[v] /\ block'[v] \in Nat
              /\ pc'[v] \in {"update", "proposer", "signers"} =>
                    block[v] < block'[v] \/ pc[v] \in {"update", "proposer", "signers"}
              /\ pc'[v] \in {"read", "reading"} =>
                    pc[v] \in {"read", "reading"} /\ block'[v] = block[v]
              /\ pc'[v] = "reading" =>
                    \/ pc[v] = "reading" /\ table'[v] = table[v]
                    \/ table'[v].number = block[v] /\ table'[v].proposals = asProposer
    PROVE  Ledger'
<1>1. PICK D \in Updates : Counted(D) /\ CountersAgree(D) /\ ReadersCounted(D)
    BY DEF Ledger
<1>2. D \in Updates'
    <2>1. started \in Int /\ head \in Int /\ head' \in Int
        BY ChainAssumption DEF TypeOK
    <2>2. started + 1 .. head \subseteq (started + 1 .. head)'
        BY <2>1
    <2> QED BY <2>2 DEF Updates
<1>3. \A u \in D : u[1] \in Viewers /\ u[2] \in Int
    BY DEF Updates
<1>4. Counted(D)'
    <2> SUFFICES ASSUME NEW u \in D
                 PROVE  /\ u[2] <= block'[u[1]]
                        /\ pc'[u[1]] \in {"update", "proposer", "signers"} =>
                              u[2] # block'[u[1]]
        BY DEF Counted
    <2>1. /\ u[2] <= block[u[1]] /\ u[1] \in Viewers /\ u[2] \in Int
          /\ pc[u[1]] \in {"update", "proposer", "signers"} => u[2] # block[u[1]]
        BY <1>1, <1>3 DEF Counted
    <2>2. block[u[1]] \in Int
        BY <2>1, ChainAssumption DEF TypeOK
    <2> QED BY <2>1, <2>2
<1>5. CountersAgree(D)'
    BY <1>1 DEF CountersAgree, counters, Proposals, Signatures
<1>6. ReadersCounted(D)'
    BY <1>1 DEF ReadersCounted, counters
<1> QED BY <1>2, <1>4, <1>5, <1>6 DEF Ledger

LEMMA NextLedger ==
    ASSUME TypeOK, LockHeld, BlocksInv, Ledger, [Next]_vars PROVE Ledger'
<1> USE ChainAssumption DEF TypeOK, GoTo, program, counters
<1>1. ASSUME NEW v \in Viewers, Connect(v) PROVE Ledger'
    BY <1>1, LedgerKept DEF Connect, HalfDone, BlocksInv
<1>2. ASSUME NEW v \in Viewers, ReceiveHeader(v) PROVE Ledger'
    BY <1>2, LedgerKept DEF ReceiveHeader, Announced, HalfDone
<1>3. ASSUME NEW v \in Viewers, WriteMessage(v) PROVE Ledger'
    BY <1>3, LedgerKept DEF WriteMessage, HalfDone
<1>4. ASSUME NEW v \in Viewers, HandlerEnds(v) PROVE Ledger'
    BY <1>4, LedgerKept DEF HandlerEnds, HalfDone
<1>5. ASSUME NEW v \in Viewers, UpdateLock(v) PROVE Ledger'
    BY <1>5, LedgerKept DEF UpdateLock, HalfDone, AlreadyProcessed, lastBlockProcessed, BlocksInv
<1>6. ASSUME NEW v \in Viewers, SignersUnreadable(v) PROVE Ledger'
    <2>1. /\ asProposer' = Zero /\ asSigner' = Zero
          /\ pc' = [u \in Viewers |-> "off"] /\ started' = head /\ head' = head
        BY <1>6 DEF SignersUnreadable, CountersAfterRestart
    <2>2. HalfDone' = {} /\ {} \in Updates'
        BY <2>1 DEF HalfDone, Updates
    <2>3. \A w \in Validators : Proposals({}, w) = 0 /\ Signatures({}, w) = 0
        BY FS_EmptySet DEF Proposals, Signatures
    <2>4. Counted({})' /\ CountersAgree({})' /\ ReadersCounted({})'
        BY <2>1, <2>2, <2>3 DEF Counted, CountersAgree, ReadersCounted, Zero
    <2> QED BY <2>2, <2>4 DEF Ledger
<1>7. ASSUME NEW v \in Viewers, CountProposer(v) PROVE Ledger'
    <2>1. PICK D \in Updates : Counted(D) /\ CountersAgree(D) /\ ReadersCounted(D)
        BY DEF Ledger
    <2> DEFINE x == <<v, block[v]>>
    <2>2. /\ pc[v] = "proposer" /\ pc' = [pc EXCEPT ![v] = "signers"]
          /\ asProposer' = [asProposer EXCEPT ![Author[block[v]]] = @ + 1]
          /\ UNCHANGED <<head, started, asSigner, block, table>>
        BY <1>7 DEF CountProposer
    <2>3. \A u \in Viewers : /\ u # v => pc[u] \notin {"proposer", "signers"}
                             /\ pc[u] # "reading"
        BY <2>2, ViewersAssumption DEF LockHeld
    <2>4. HalfDone = {} /\ HalfDone' = {x}
        BY <2>2, <2>3 DEF HalfDone
    <2>5. x \in Viewers \X Blocks /\ D \in SUBSET (Viewers \X Blocks) /\ D \in Updates'
        BY <2>2 DEF BlocksInv, Updates, Blocks
    <2>6. x \notin D
        BY <2>1, <2>2 DEF Counted
    <2>7. Counted(D)'
        BY <2>1, <2>2, <2>5 DEF Counted
    <2>8. CountersAgree(D)'
        <3> SUFFICES ASSUME NEW w \in Validators
                     PROVE  /\ asProposer'[w] = Proposals(D \cup HalfDone, w)'
                            /\ asSigner'[w] = Signatures(D, w)'
            BY DEF CountersAgree
        <3> HIDE DEF x
        <3>1. D \cup HalfDone = D /\ D \cup HalfDone' = D \cup {x}
            BY <2>4
        <3>2. asProposer[w] = Proposals(D, w) /\ asSigner[w] = Signatures(D, w)
            BY <2>1, <3>1 DEF CountersAgree
        <3>3. Proposals(D \cup {x}, w) = IF Author[x[2]] = w THEN Proposals(D, w) + 1
                                                             ELSE Proposals(D, w)
            BY <2>5, <2>6, OneMoreUpdate
        <3>4. asProposer'[w] = IF Author[x[2]] = w THEN asProposer[w] + 1 ELSE asProposer[w]
            BY <2>2 DEF Counts, x
        <3> QED BY <2>2, <3>1, <3>2, <3>3, <3>4 DEF Proposals, Signatures
    <2>9. ReadersCounted(D)'
        BY <2>1, <2>2, <2>3 DEF ReadersCounted
    <2> QED BY <2>5, <2>7, <2>8, <2>9 DEF Ledger
<1>8. ASSUME NEW v \in Viewers, CountSigners(v) PROVE Ledger'
    <2>1. PICK D \in Updates : Counted(D) /\ CountersAgree(D) /\ ReadersCounted(D)
        BY DEF Ledger
    <2>2. PICK x : x = <<v, block[v]>>
        OBVIOUS
    <2> DEFINE E == D \cup {x}
    <2>3. /\ pc[v] = "signers" /\ pc' = [pc EXCEPT ![v] = "read"]
          /\ asSigner' = [w \in Validators |->
                             IF w \in Sealers[block[v]] THEN asSigner[w] + 1 ELSE asSigner[w]]
          /\ UNCHANGED <<head, started, asProposer, block, table>>
        BY <1>8 DEF CountSigners
    <2>4. \A u \in Viewers : /\ u # v => pc[u] \notin {"proposer", "signers"}
                             /\ pc[u] # "reading"
        BY <2>3, ViewersAssumption DEF LockHeld
    <2>5. HalfDone = {x} /\ HalfDone' = {}
        BY <2>2, <2>3, <2>4 DEF HalfDone
    <2>6. x \in Viewers \X Blocks /\ D \in SUBSET (Viewers \X Blocks)
        BY <2>2, <2>3 DEF BlocksInv, Updates, Blocks
    <2>7. E \in Updates'
        BY <2>2, <2>3 DEF BlocksInv, Updates
    <2>8. x \notin D
        BY <2>1, <2>2, <2>3 DEF Counted
    <2>9. Counted(E)'
        BY <2>1, <2>2, <2>3, <2>6 DEF Counted
    <2>10. CountersAgree(E)'
        <3> SUFFICES ASSUME NEW w \in Validators
                     PROVE  /\ asProposer'[w] = Proposals(E \cup HalfDone, w)'
                            /\ asSigner'[w] = Signatures(E, w)'
            BY DEF CountersAgree
        <3>1. D \cup HalfDone = E /\ E \cup HalfDone' = E
            BY <2>5
        <3>2. asProposer[w] = Proposals(E, w) /\ asSigner[w] = Signatures(D, w)
            BY <2>1, <3>1 DEF CountersAgree
        <3>3. Signatures(E, w) = IF w \in Sealers[x[2]] THEN Signatures(D, w) + 1
                                                        ELSE Signatures(D, w)
            <4>1. w \in Validators /\ x \in Viewers \X Blocks
                BY <2>6
            <4> QED BY ONLY <2>6, <2>8, <4>1, OneMoreUpdate, SMTT(20)
        <3>4. asSigner'[w] = IF w \in Sealers[x[2]] THEN asSigner[w] + 1 ELSE asSigner[w]
            BY <2>2, <2>3
        <3> HIDE DEF E
        <3> QED BY <2>3, <3>1, <3>2, <3>3, <3>4 DEF Proposals, Signatures
    <2>11. ReadersCounted(E)'
        BY <2>1, <2>2, <2>3, <2>4 DEF ReadersCounted
    <2> HIDE DEF E
    <2> QED BY <2>7, <2>9, <2>10, <2>11 DEF Ledger
<1>9. ASSUME NEW v \in Viewers, RLock(v) PROVE Ledger'
    BY <1>9, LedgerKept DEF RLock, HalfDone
<1>10. ASSUME NEW v \in Viewers, RUnlock(v) PROVE Ledger'
    BY <1>10, LedgerKept DEF RUnlock, AfterPanic, HalfDone
<1>11. CASE NewBlock
    BY <1>11, LedgerKept DEF NewBlock, HalfDone
<1>12. CASE UNCHANGED vars
    BY <1>12, LedgerKept DEF vars, HalfDone
<1> QED BY <1>1, <1>2, <1>3, <1>4, <1>5, <1>6, <1>7, <1>8, <1>9, <1>10, <1>11, <1>12 DEF Next, Browser, Handler
\* The tables that viewers see stay as they are, and a new one is of the counters now.
LEMMA NextTables ==
    ASSUME TypeOK, LockHeld, Ledger, TableConsistent, [Next]_vars PROVE TableConsistent'
<1> USE DEF TypeOK, GoTo, program, counters
<1> DEFINE Shows(D, v) == Accounts(D, table[v]) /\ <<v, table[v].number>> \in D
<1>1. \A v \in Viewers : pc[v] = "shown" => \E D \in Updates : Shows(D, v)
    BY DEF TableConsistent, Updates
<1>2. ASSUME started' = started, head' \in Nat, head <= head',
             \A v \in Viewers : pc'[v] = "shown" => pc[v] = "shown" /\ table'[v] = table[v]
      PROVE  TableConsistent'
    <2>1. Updates \subseteq Updates'
        <3>1. started \in Int /\ head \in Int /\ head' \in Int
            BY <1>2, ChainAssumption
        <3>2. started + 1 .. head \subseteq (started + 1 .. head)'
            BY <1>2, <3>1
        <3> QED BY <3>2 DEF Updates
    <2> SUFFICES ASSUME NEW v \in Viewers, pc'[v] = "shown"
                 PROVE  \E D \in Updates' : Accounts(D, table'[v]) /\ <<v, table'[v].number>> \in D
        BY DEF TableConsistent, Updates
    <2>2. PICK D \in Updates : Shows(D, v)
        BY <1>1, <1>2
    <2> QED BY <1>2, <2>1, <2>2
<1>3. ASSUME NEW v \in Viewers, RUnlock(v) PROVE TableConsistent'
    <2>1. CASE Nameless(block[v])
        BY <1>2, <1>3, <2>1, ChainAssumption DEF RUnlock, AfterPanic
    <2>2. CASE ~Nameless(block[v])
        <3>1. /\ pc[v] = "reading" /\ UNCHANGED <<head, started, counters, block>>
              /\ table' = [table EXCEPT ![v].signatures = asSigner]
              /\ pc' = [pc EXCEPT ![v] = "shown"]
            BY <1>3, <2>2 DEF RUnlock
        <3>2. PICK D \in Updates : Counted(D) /\ CountersAgree(D) /\ ReadersCounted(D)
            BY DEF Ledger
        <3>3. HalfDone = {}
            <4>1. \A u \in Viewers : pc[u] # "signers"
                BY <3>1, ViewersAssumption DEF LockHeld
            <4> QED BY <4>1 DEF HalfDone
        <3>4. /\ <<v, block[v]>> \in D /\ table[v].number = block[v]
              /\ table[v].proposals = asProposer
            BY <3>1, <3>2 DEF ReadersCounted
        <3>5. /\ table'[v].number = table[v].number /\ table'[v].signatures = asSigner
              /\ table'[v].proposals = table[v].proposals
            BY <3>1
        <3>6. Accounts(D, table'[v])
            <4>1. D \cup HalfDone = D
                BY <3>3
            <4> QED BY <3>2, <3>4, <3>5, <4>1 DEF CountersAgree, Accounts
        <3> SUFFICES ASSUME NEW u \in Viewers, pc'[u] = "shown"
                     PROVE  \E E \in Updates : Accounts(E, table'[u]) /\ <<u, table'[u].number>> \in E
            BY <3>1 DEF TableConsistent, Updates
        <3>7. CASE u = v
            BY <3>2, <3>4, <3>5, <3>6, <3>7
        <3>8. CASE u # v
            <4>1. pc[u] = "shown" /\ table'[u] = table[u]
                BY <3>1, <3>8
            <4> QED BY <1>1, <4>1
        <3> QED BY <3>7, <3>8
    <2> QED BY <2>1, <2>2
<1>4. ASSUME NEW v \in Viewers,
             \/ Connect(v) \/ ReceiveHeader(v) \/ HandlerEnds(v) \/ WriteMessage(v)
             \/ UpdateLock(v) \/ CountProposer(v) \/ CountSigners(v) \/ RLock(v)
      PROVE  TableConsistent'
    <2>1. UNCHANGED <<head, started>>
        BY <1>4 DEF Connect, ReceiveHeader, HandlerEnds, WriteMessage, UpdateLock,
                    CountProposer, CountSigners, RLock
    <2>2. \A u \in Viewers : pc'[u] = "shown" => pc[u] = "shown" /\ table'[u] = table[u]
        BY <1>4 DEF Connect, ReceiveHeader, HandlerEnds, WriteMessage, UpdateLock,
                    CountProposer, CountSigners, RLock
    <2> QED BY <1>2, <2>1, <2>2, ChainAssumption
<1>5. ASSUME NEW v \in Viewers, SignersUnreadable(v) PROVE TableConsistent'
    BY <1>5 DEF SignersUnreadable, TableConsistent
<1>6. CASE NewBlock
    BY <1>2, <1>6, ChainAssumption DEF NewBlock
<1>7. CASE UNCHANGED vars
    BY <1>2, <1>7, ChainAssumption DEF vars
<1> QED BY <1>3, <1>4, <1>5, <1>6, <1>7 DEF Next, Browser, Handler

LEMMA LedgerCorrect == Spec => [](BlocksInv /\ Ledger /\ TableConsistent)
<1> DEFINE Inv == BlocksInv /\ Ledger /\ TableConsistent
<1>1. Init => Inv
    <2> SUFFICES ASSUME Init PROVE Inv
        OBVIOUS
    <2>1. HalfDone = {} /\ {} \in Updates
        BY DEF Init, HalfDone, Updates
    <2>2. \A w \in Validators : Proposals({}, w) = 0 /\ Signatures({}, w) = 0
        BY FS_EmptySet DEF Proposals, Signatures
    <2>3. Counted({}) /\ CountersAgree({}) /\ ReadersCounted({})
        BY <2>1, <2>2 DEF Init, Counted, CountersAgree, ReadersCounted, Zero
    <2>4. BlocksInv /\ TableConsistent
        BY DEF Init, BlocksInv, TableConsistent
    <2> QED BY <2>1, <2>3, <2>4 DEF Ledger
<1>2. TypeOK /\ LockHeld /\ Inv /\ [Next]_vars => Inv'
    BY NextBlocks, NextLedger, NextTables
<1> QED BY <1>1, <1>2, TypeCorrect, LockIsHeldInside, PTL DEF Spec

\* Both columns of every table count the same whole updates since the program began,
\* the viewer's own of the block shown among them, for any number of viewers that
\* count at the same time, across panics, departures and restarts.
THEOREM TablesCountUpdates == Spec => []TableConsistent
BY LedgerCorrect, PTL

-----------------------------------------------------------------------------
(* The scoreboard                                                          *)

\* The first column without the update that is half done, and the copies.
Column == [w \in Validators |-> asProposer[w] - Proposals(HalfDone, w)]
Copies == [v \in Viewers |-> Copy(v)]

LEMMA NothingCounted == \A w \in Validators : Proposals({}, w) = 0
BY FS_EmptySet DEF Proposals

LEMMA OneUpdate ==
    ASSUME NEW x \in Viewers \X Blocks, NEW w \in Validators
    PROVE  Proposals({x}, w) = IF Author[x[2]] = w THEN 1 ELSE 0
<1>1. {} \in SUBSET (Viewers \X Blocks) /\ x \notin {} /\ {} \cup {x} = {x}
    OBVIOUS
<1>2. Proposals({} \cup {x}, w) = IF Author[x[2]] = w THEN Proposals({}, w) + 1
                                                     ELSE Proposals({}, w)
    BY ONLY <1>1, x \in Viewers \X Blocks, w \in Validators, OneMoreUpdate
<1> QED BY <1>1, <1>2, NothingCounted

\* While nobody is inside an update, the first column is the counter.
LEMMA ColumnIsCounter ==
    ASSUME TypeOK, HalfDone = {} PROVE Column = asProposer
<1>1. asProposer \in [Validators -> Nat]
    BY DEF TypeOK, Counts
<1>2. \A w \in Validators : asProposer[w] - Proposals(HalfDone, w) = asProposer[w]
    BY <1>1, NothingCounted
<1> QED BY <1>1, <1>2 DEF Column

\* The steps that change neither the counters nor who is inside an update are seen
\* as those of the copies.
LEMMA CopiesOnly ==
    ASSUME UNCHANGED counters, HalfDone' = HalfDone, NEW v \in Viewers,
           \A u \in Viewers \ {v} : pc'[u] = pc[u] /\ table'[u] = table[u]
    PROVE  /\ Column' = Column /\ asSigner' = asSigner
           /\ Copy(v)' = Copy(v) => Copies' = Copies
           /\ Copies' = [Copies EXCEPT ![v] = Copy(v)']
<1>1. \A u \in Viewers \ {v} : Copy(u)' = Copy(u)
    BY DEF Copy, counters
<1>2. Column' = Column /\ asSigner' = asSigner
    BY DEF Column, counters, Proposals
<1>3. Copies' = [u \in Viewers |-> Copy(u)']
    BY DEF Copies
<1> QED BY <1>1, <1>2, <1>3 DEF Copies

LEMMA NextScoreboard ==
    ASSUME TypeOK, LockHeld, BlocksInv, [Next]_vars
    PROVE  [Shared!Next]_(Shared!vars)
<1> USE DEF TypeOK, GoTo, program, counters
<1>0. /\ UNCHANGED <<Column, asSigner, Copies>> => UNCHANGED Shared!vars
      /\ \A v \in Viewers :
            /\ Copies' = [Copies EXCEPT ![v] = Nobody] /\ UNCHANGED <<Column, asSigner>> =>
                  Shared!DropCopy(v)
            /\ /\ Copies[v] = Nobody /\ UNCHANGED <<Column, asSigner>>
               /\ Copies' = [Copies EXCEPT ![v] = [proposals |-> Column, signatures |-> asSigner]]
               => Shared!TakeCopy(v)
    BY DEF Shared!vars, Shared!DropCopy, Shared!TakeCopy, Column, Copies
<1>1. ASSUME NEW v \in Viewers, Connect(v) \/ ReceiveHeader(v) \/ UpdateLock(v)
      PROVE  UNCHANGED Shared!vars
    <2>1. UNCHANGED counters /\ HalfDone' = HalfDone
        BY <1>1 DEF Connect, ReceiveHeader, UpdateLock, HalfDone
    <2>2. \A u \in Viewers \ {v} : pc'[u] = pc[u] /\ table'[u] = table[u]
        BY <1>1 DEF Connect, ReceiveHeader, UpdateLock
    <2>3. Copy(v)' = Copy(v)
        BY <1>1 DEF Connect, ReceiveHeader, UpdateLock, Copy
    <2> QED BY <1>0, <2>1, <2>2, <2>3, CopiesOnly
<1>2. ASSUME NEW v \in Viewers, HandlerEnds(v) \/ WriteMessage(v)
      PROVE  Shared!DropCopy(v)
    <2>1. UNCHANGED counters /\ HalfDone' = HalfDone
        BY <1>2 DEF HandlerEnds, WriteMessage, HalfDone
    <2>2. \A u \in Viewers \ {v} : pc'[u] = pc[u] /\ table'[u] = table[u]
        BY <1>2 DEF HandlerEnds, WriteMessage
    <2>3. Copy(v)' = Nobody
        BY <1>2 DEF HandlerEnds, WriteMessage, Copy
    <2> QED BY <1>0, <2>1, <2>2, <2>3, CopiesOnly
<1>3. ASSUME NEW v \in Viewers, SignersUnreadable(v) PROVE Shared!Restart
    <2>1. /\ asProposer' = Zero /\ asSigner' = Zero
          /\ pc' = [u \in Viewers |-> "off"]
        BY <1>3 DEF SignersUnreadable, CountersAfterRestart
    <2>2. HalfDone' = {}
        BY <2>1 DEF HalfDone
    <2>3. Column' = [w \in Validators |-> 0]
        <3>1. \A w \in Validators : asProposer'[w] - Proposals(HalfDone', w) = 0
            BY <2>1, <2>2, NothingCounted DEF Zero
        <3>2. Column' = [w \in Validators |-> asProposer'[w] - Proposals(HalfDone', w)]
            BY DEF Column, Proposals
        <3> QED BY <3>1, <3>2
    <2>4. Copies' = [u \in Viewers |-> Nobody]
        <3>1. \A u \in Viewers : Copy(u)' = Nobody
            BY <2>1 DEF Copy
        <3> QED BY <3>1 DEF Copies
    <2> QED BY <2>1, <2>3, <2>4 DEF Shared!Restart, Shared!Blank, Zero, Column, Copies
<1>4. ASSUME NEW v \in Viewers, RUnlock(v) PROVE [Shared!Next]_(Shared!vars)
    <2>1. UNCHANGED counters /\ HalfDone' = HalfDone
        BY <1>4 DEF RUnlock, AfterPanic, HalfDone
    <2>2. \A u \in Viewers \ {v} : pc'[u] = pc[u] /\ table'[u] = table[u]
        BY <1>4 DEF RUnlock, AfterPanic
    <2>3. CASE Nameless(block[v])
        <3>1. Copy(v)' = Nobody
            BY <1>4, <2>3 DEF RUnlock, AfterPanic, Copy
        <3>2. Shared!DropCopy(v)
            BY <1>0, <2>1, <2>2, <3>1, CopiesOnly
        <3> QED BY <3>2 DEF Shared!Next
    <2>4. CASE ~Nameless(block[v])
        <3>1. Copy(v)' = Copy(v)
            BY <1>4, <2>4 DEF RUnlock, Copy
        <3> QED BY <1>0, <2>1, <2>2, <3>1, CopiesOnly
    <2> QED BY <2>3, <2>4
<1>5. ASSUME NEW v \in Viewers, RLock(v) PROVE Shared!TakeCopy(v)
    <2>1. UNCHANGED counters /\ HalfDone' = HalfDone
        BY <1>5 DEF RLock, HalfDone
    <2>2. \A u \in Viewers \ {v} : pc'[u] = pc[u] /\ table'[u] = table[u]
        BY <1>5 DEF RLock
    <2>3. HalfDone = {}
        <3>1. \A u \in Viewers : pc[u] # "signers"
            BY <1>5, ViewersAssumption DEF RLock, MayRead, LockHeld
        <3> QED BY <3>1 DEF HalfDone
    <2>4. Copy(v)' = [proposals |-> Column, signatures |-> asSigner]
        <3>1. Column = asProposer
            BY <2>3, ColumnIsCounter
        <3>2. pc'[v] = "reading" /\ table'[v].proposals = asProposer /\ asSigner' = asSigner
            BY <1>5 DEF RLock
        <3> HIDE DEF TypeOK
        <3> QED BY <3>1, <3>2 DEF Copy
    <2>5. Copies[v] = Nobody
        BY <1>5 DEF RLock, Copy, Copies
    <2> QED BY <1>0, <2>1, <2>2, <2>4, <2>5, CopiesOnly
<1>6. ASSUME NEW v \in Viewers, CountProposer(v) PROVE UNCHANGED Shared!vars
    <2>1. PICK x : x = <<v, block[v]>>
        OBVIOUS
    <2>2. /\ pc[v] = "proposer" /\ pc' = [pc EXCEPT ![v] = "signers"]
          /\ asProposer' = [asProposer EXCEPT ![Author[block[v]]] = @ + 1]
          /\ UNCHANGED <<asSigner, block, table>>
        BY <1>6 DEF CountProposer
    <2>3. HalfDone = {} /\ HalfDone' = {x}
        <3>1. \A u \in Viewers : u # v => pc[u] \notin {"proposer", "signers"}
            BY <2>2, ViewersAssumption DEF LockHeld
        <3> QED BY <2>1, <2>2, <3>1 DEF HalfDone
    <2>4. x \in Viewers \X Blocks /\ x[2] = block[v]
        BY <2>1, <2>2, ChainAssumption DEF BlocksInv, Blocks
    <2>5. Column' = Column
        <3>1. \A w \in Validators :
                 asProposer'[w] - Proposals({x}, w) = asProposer[w] - Proposals({}, w)
            <4> TAKE w \in Validators
            <4>1. Proposals({x}, w) = IF Author[x[2]] = w THEN 1 ELSE 0
                BY <2>4, OneUpdate
            <4>2. asProposer'[w] = IF Author[x[2]] = w THEN asProposer[w] + 1 ELSE asProposer[w]
                BY <2>2, <2>4 DEF Counts
            <4>3. asProposer[w] \in Nat
                BY DEF Counts
            <4> HIDE DEF TypeOK
            <4> QED BY <4>1, <4>2, <4>3, NothingCounted
        <3>2. Column' = [w \in Validators |-> asProposer'[w] - Proposals(HalfDone', w)]
            BY DEF Column, Proposals
        <3> QED BY <2>3, <3>1, <3>2 DEF Column
    <2>6. Copies' = Copies
        <3>1. \A u \in Viewers : Copy(u)' = Copy(u)
            BY <2>2 DEF Copy
        <3> QED BY <3>1 DEF Copies
    <2> QED BY <1>0, <2>2, <2>5, <2>6
<1>7. ASSUME NEW v \in Viewers, CountSigners(v) PROVE \E n \in Blocks : Shared!Count(n)
    <2>1. PICK x : x = <<v, block[v]>>
        OBVIOUS
    <2>2. /\ pc[v] = "signers" /\ pc' = [pc EXCEPT ![v] = "read"]
          /\ asSigner' = [w \in Validators |->
                             IF w \in Sealers[block[v]] THEN asSigner[w] + 1 ELSE asSigner[w]]
          /\ UNCHANGED <<asProposer, block, table>>
        BY <1>7 DEF CountSigners
    <2>3. \A u \in Viewers : /\ u # v => pc[u] \notin {"proposer", "signers"}
                             /\ pc[u] # "reading"
        BY <2>2, ViewersAssumption DEF LockHeld
    <2>4. HalfDone = {x} /\ HalfDone' = {}
        BY <2>1, <2>2, <2>3 DEF HalfDone
    <2>5. x \in Viewers \X Blocks /\ x[2] = block[v] /\ block[v] \in Blocks
        BY <2>1, <2>2, ChainAssumption DEF BlocksInv, Blocks
    <2>6. Column' = [Column EXCEPT ![Author[block[v]]] = @ + 1]
        <3>1. ASSUME NEW w \in Validators
              PROVE  asProposer'[w] - Proposals({}, w) =
                        IF w = Author[block[v]] THEN Column[w] + 1 ELSE Column[w]
            <4>1. Proposals({x}, w) = IF Author[x[2]] = w THEN 1 ELSE 0
                BY <2>5, OneUpdate
            <4>2. Column[w] = asProposer[w] - Proposals({x}, w)
                BY <2>4 DEF Column
            <4>3. asProposer[w] \in Nat
                BY DEF Counts
            <4> HIDE DEF TypeOK
            <4> QED BY <2>2, <2>5, <4>1, <4>2, <4>3, NothingCounted
        <3>2. Column' = [w \in Validators |-> asProposer'[w] - Proposals(HalfDone', w)]
            BY DEF Column, Proposals
        <3>3. DOMAIN Column = Validators
            BY DEF Column
        <3>4. Column' = [w \in Validators |-> IF w = Author[block[v]] THEN Column[w] + 1 ELSE Column[w]]
            BY <2>4, <3>1, <3>2
        <3>5. Column = [w \in Validators |-> Column[w]]
            BY DEF Column
        <3> QED BY <3>4, <3>5
    <2>7. Copies' = Copies
        <3>1. \A u \in Viewers : Copy(u)' = Copy(u)
            BY <2>2, <2>3 DEF Copy
        <3> QED BY <3>1 DEF Copies
    <2>8. PICK n \in Blocks : n = block[v]
        BY <2>5
    <2>9. Shared!Count(n)
        BY <2>2, <2>6, <2>7, <2>8 DEF Shared!Count, Column, Copies
    <2> QED BY <2>9
<1>8. CASE NewBlock \/ UNCHANGED vars
    <2>1. UNCHANGED counters /\ HalfDone' = HalfDone
        BY <1>8 DEF NewBlock, vars, HalfDone
    <2>2. Column' = Column
        BY <2>1 DEF Column, Proposals
    <2>3. Copies' = Copies
        <3>1. \A u \in Viewers : Copy(u)' = Copy(u)
            BY <1>8 DEF NewBlock, vars, Copy
        <3> QED BY <3>1 DEF Copies
    <2> QED BY <1>0, <2>1, <2>2, <2>3
<1> QED
    <2>1. ASSUME NEW v \in Viewers, Browser(v) \/ Handler(v)
          PROVE  [Shared!Next]_(Shared!vars)
        <3>1. CASE HandlerEnds(v) \/ WriteMessage(v) \/ RLock(v)
            BY <1>2, <1>5, <3>1 DEF Shared!Next
        <3>2. CASE SignersUnreadable(v)
            BY <1>3, <3>2 DEF Shared!Next
        <3>3. CASE CountSigners(v)
            BY <1>7, <3>3 DEF Shared!Next
        <3> QED BY <1>1, <1>4, <1>6, <2>1, <3>1, <3>2, <3>3 DEF Browser, Handler
    <2> QED BY <1>8, <2>1 DEF Next

\* Whoever shares the RedTNode, and however its updates and reads interleave, they
\* are those of a scoreboard on which each is one step.
THEOREM StatisticsImplementScoreboard == Spec => ImplementsScoreboard
<1>1. Init => Shared!Init
    <2> SUFFICES ASSUME Init PROVE Shared!Init
        OBVIOUS
    <2>1. HalfDone = {} /\ asProposer = Zero /\ asSigner = Zero
        BY DEF Init, HalfDone
    <2>2. Column = Zero
        <3>1. \A w \in Validators : Zero[w] - Proposals({}, w) = 0
            BY NothingCounted DEF Zero
        <3> QED BY <2>1, <3>1 DEF Column, Zero
    <2>3. Copies = [v \in Viewers |-> Nobody]
        BY DEF Init, Copies, Copy
    <2> QED BY <2>1, <2>2, <2>3 DEF Shared!Init, Shared!Blank, Column, Copies, Zero
<1>2. TypeOK /\ LockHeld /\ BlocksInv /\ [Next]_vars => [Shared!Next]_(Shared!vars)
    BY NextScoreboard
<1> QED BY <1>1, <1>2, TypeCorrect, LockIsHeldInside, LedgerCorrect, PTL
        DEF Spec, ImplementsScoreboard, Shared!Spec

=============================================================================
