--------------------------- MODULE ArchiveProofs ---------------------------
(***************************************************************************)
(* History implements Archive.  A commit stores one open transaction, and  *)
(* what has to be known of that transaction is where it lies: beyond a     *)
(* stored block, its anchor, in the direction of the run that made it, and *)
(* away from every block that is stored already.  With the archive one     *)
(* consecutive run, this puts all of it at one end.                        *)
(***************************************************************************)
EXTENDS HistoryProofs

\* The block a run started next to.
Anchor(p) == IF mode[p] = "forward" THEN first[p] - 1 ELSE first[p] + 1

Placed(p) ==
    /\ pc[p] \in InLoop => Anchor(p) \in rows
    /\ mode[p] = "forward" => \A n \in tx[p] : first[p] <= n
    /\ mode[p] = "backward" => \A n \in tx[p] : n <= first[p]
    /\ tx[p] \cap rows = {}

Places == \A p \in Procs : Placed(p)

LEMMA InitPlaces == Init => Places
BY DEF Init, Places, Placed, InLoop

\* The steps of the loop move neither the anchor nor, but for a commit, the rows.
LEMMA NextPlaces == ASSUME Base, Places, [Next]_vars PROVE Places'
<1> SUFFICES ASSUME NEW q \in Procs PROVE Placed(q)'
    BY DEF Places
<1> USE DEF GoTo, chainVars, dbVars, txVars, loopVars
<1>0. Placed(q) /\ TypeOK /\ Started(q) /\ Inserting(q) /\ Locked
    BY DEF Base, Places
<1>1. CASE /\ tx'[q] \subseteq tx[q] /\ rows' = rows
           /\ mode'[q] = mode[q] /\ first'[q] = first[q]
           /\ pc'[q] \in InLoop => pc[q] \in InLoop
    BY <1>0, <1>1 DEF Placed, Anchor
<1>2. CASE tx'[q] = {} /\ pc'[q] \notin InLoop
    BY <1>2 DEF Placed
<1>3. ASSUME NEW p \in Procs, Step(p) \/ Abort(p) \/ \E m \in {"backward", "forward"} : Run(p, m)
      PROVE  Placed(q)'
    <2>1. CASE Commit(p) \/ CommitLast(p)
        <3>1. /\ rows' = rows \cup tx[p] \/ rows' = rows
              /\ tx'[p] = {}
              /\ q # p => tx'[q] = tx[q]
              /\ mode' = mode /\ first' = first
              /\ pc'[q] \in InLoop => pc[q] \in InLoop
              /\ pc[p] \in InLoop
            BY <2>1, <1>0 DEF Commit, CommitLast, CommitOrLose, EndTransaction, TypeOK, InLoop
        <3>2. q # p /\ tx[p] # {} => tx[q] = {}
            BY <1>0 DEF Locked
        <3>3. rows \subseteq rows' /\ (pc'[q] \in InLoop => Anchor(q) \in rows /\ Anchor(q)' = Anchor(q))
            BY <1>0, <3>1 DEF Placed, Anchor
        <3>4. CASE q = p
            BY <1>0, <3>1, <3>3, <3>4 DEF Placed
        <3>5. CASE q # p
            <4>1. tx'[q] = tx[q] /\ tx'[q] \cap rows' = {}
                BY <1>0, <3>1, <3>2, <3>5 DEF Placed
            <4> QED BY <1>0, <3>1, <3>3, <4>1 DEF Placed
        <3> QED BY <3>4, <3>5
    <2>2. CASE q # p /\ ~(Commit(p) \/ CommitLast(p))
        <3>1. /\ tx'[q] = tx[q] /\ pc'[q] = pc[q] /\ mode'[q] = mode[q] /\ first'[q] = first[q]
              /\ rows' = rows
            BY <1>3, <2>2, <1>0 DEF TypeOK, Step, Run, MaxBlockNumber, MinBlockNumber,
               CurrentBlockNumber, SignerDataForBlockNumber, SignersMissing, InsertRow,
               InsertDuplicate, InsertSigners, Abort, StartAt, EndTransaction
        <3> QED BY <3>1, <1>1
    <2>3. CASE q = p /\ ~(Commit(p) \/ CommitLast(p))
        <3>1. CASE InsertRow(p)
            <4>1. /\ pc[q] = "row" /\ tx'[q] = tx[q] \cup {next[q]} /\ next[q] \notin rows
                  /\ rows' = rows /\ mode' = mode /\ first' = first
                BY <2>3, <3>1, <1>0 DEF InsertRow, TypeOK
            <4>2. /\ mode[q] = "forward" => first[q] <= next[q]
                  /\ mode[q] = "backward" => next[q] <= first[q]
                BY <1>0, <4>1 DEF Started, InLoop
            <4> QED BY <1>0, <4>1, <4>2 DEF Placed, Anchor, InLoop
        <3>2. CASE SignersMissing(p) \/ InsertDuplicate(p) \/ Abort(p)
            <4>1. tx'[q] = {} /\ pc'[q] \notin InLoop
                BY <2>3, <3>2, <1>0 DEF SignersMissing, InsertDuplicate, Abort, EndTransaction,
                   TypeOK, InLoop
            <4> QED BY <4>1, <1>2
        <3>3. CASE SignerDataForBlockNumber(p) \/ InsertSigners(p)
            <4>1. /\ tx' = tx /\ rows' = rows /\ mode' = mode /\ first' = first
                  /\ pc[q] \in InLoop
                BY <2>3, <3>3, <1>0 DEF SignerDataForBlockNumber, InsertSigners, InLoop
            <4> QED BY <4>1, <1>1
        <3>4. CASE MaxBlockNumber(p) \/ \E m \in {"backward", "forward"} : Run(p, m)
            <4>1. tx[q] = {} /\ tx' = tx /\ pc'[q] \notin InLoop
                BY <2>3, <3>4, <1>0 DEF MaxBlockNumber, Run, TypeOK, Inserting, InLoop, Ended
            <4> QED BY <4>1, <1>2
        <3>5. CASE MinBlockNumber(p)
            <4>1. /\ pc[q] = "min" /\ tx' = tx /\ tx[q] = {} /\ rows' = rows /\ mode' = mode
                  /\ mode[q] = "backward"
                BY <2>3, <3>5, <1>0 DEF MinBlockNumber, Started, Inserting, InLoop
            <4>2. PICK n \in rows : GoTo(p, "failed") \/ StartAt(p, n - 1)
                BY <3>5 DEF MinBlockNumber
            <4>3. n \in Int
                BY <1>0 DEF TypeOK
            <4>4. pc'[q] = "failed" \/ first'[q] = n - 1
                BY <2>3, <4>2, <1>0 DEF StartAt, TypeOK
            <4> QED BY <4>1, <4>3, <4>4 DEF Placed, Anchor, InLoop
        <3>6. CASE CurrentBlockNumber(p)
            <4>1. /\ tx' = tx /\ tx[q] = {} /\ rows' = rows /\ mode' = mode
                  /\ mode[q] = "forward" /\ next[q] \in rows /\ next[q] > 0 /\ next[q] \in Int
                BY <2>3, <3>6, <1>0 DEF CurrentBlockNumber, Started, Inserting, InLoop, TypeOK
            <4>2. first'[q] = next[q] + 1
                BY <2>3, <3>6, <4>1, <1>0 DEF CurrentBlockNumber, StartAt, StartNumber, TypeOK
            <4> QED BY <4>1, <4>2 DEF Placed, Anchor
        <3> QED BY <1>3, <2>3, <3>1, <3>2, <3>3, <3>4, <3>5, <3>6 DEF Step
    <2> QED BY <2>1, <2>2, <2>3
<1>4. CASE NewBlock \/ UNCHANGED vars
    BY <1>4, <1>1 DEF NewBlock, vars
<1> QED BY <1>3, <1>4 DEF Next

-----------------------------------------------------------------------------
(* Every step of a process is a commit, a commit that fails, or nothing    *)

\* A transaction that lies beyond its anchor lies at one end.
LEMMA TransactionAtOneEnd ==
    ASSUME Base, Places, Contiguous(rows), NEW p \in Procs, pc[p] \in InLoop
    PROVE  File!AtOneEnd(tx[p])
<1>1. Placed(p) /\ Anchor(p) \in rows /\ rows \subseteq Int /\ tx[p] \subseteq Int
    BY Types DEF Base, Places, Placed
<1>2. CASE mode[p] = "forward"
    <2>0. /\ \A s \in tx[p] : s \in Int
          /\ \A r \in rows : r \in Int
          /\ Anchor(p) \in Int
        BY <1>1
    <2>1. \A s \in tx[p] : Anchor(p) < s /\ s \notin rows
        BY <1>1, <1>2, Types DEF Placed, Anchor, Base
    <2>2. \A s \in tx[p], r \in rows : s > r
        <3>1. SUFFICES ASSUME NEW s \in tx[p], NEW r \in rows, r >= s PROVE FALSE
            BY <1>1, <2>0
        <3>2. s \in Anchor(p)..r
            BY <1>1, <2>0, <2>1, <3>1
        <3> QED BY <1>1, <2>1, <3>2 DEF Contiguous
    <2> QED BY <2>2 DEF File!AtOneEnd
<1>3. CASE mode[p] = "backward"
    <2>0. /\ \A s \in tx[p] : s \in Int
          /\ \A r \in rows : r \in Int
          /\ Anchor(p) \in Int
        BY <1>1
    <2>1. \A s \in tx[p] : s < Anchor(p) /\ s \notin rows
        BY <1>1, <1>3, Types DEF Placed, Anchor, Base
    <2>2. \A s \in tx[p], r \in rows : s < r
        <3>1. SUFFICES ASSUME NEW s \in tx[p], NEW r \in rows, s >= r PROVE FALSE
            BY <1>1, <2>0
        <3>2. s \in r..Anchor(p)
            BY <1>1, <2>0, <2>1, <3>1
        <3> QED BY <1>1, <2>1, <3>2 DEF Contiguous
    <2> QED BY <2>2 DEF File!AtOneEnd
<1> QED BY <1>2, <1>3 DEF Base, TypeOK

LEMMA CommitStores ==
    ASSUME IInv, IInv', Batches, Places, NEW p \in Procs, pc[p] \in InLoop, CommitOrLose(p)
    PROVE  [File!Store \/ File!Break]_(File!vars)
<1>1. CASE lost' = lost + 1 /\ UNCHANGED rows
    <2>1. lost' > 0
        BY <1>1 DEF IInv, Base, TypeOK
    <2> QED BY <1>1, <2>1 DEF File!Break
<1>2. CASE rows' = rows \cup tx[p] /\ lost' = lost
    <2>1. CASE tx[p] = {}
        BY <1>2, <2>1 DEF File!vars
    <2>2. CASE tx[p] # {}
        <3>1. rows' \ rows = tx[p]
            BY <1>2 DEF Places, Placed
        <3>2. Cardinality(tx[p]) \in 1..BatchSize
            <4>1. /\ IsFiniteSet(tx[p]) /\ count[p] \in Nat
                  /\ Cardinality(tx[p]) <= BatchSize
                BY BatchAssumption DEF Batches, Counted, InLoop, IInv, Base, TypeOK
            <4>2. Cardinality(tx[p]) \in Nat /\ Cardinality(tx[p]) # 0
                BY <4>1, <2>2, FS_EmptySet, FS_CardinalityType
            <4> QED BY <4>1, <4>2, BatchAssumption
        <3>3. lost = 0 => File!Consecutive(rows') /\ File!AtOneEnd(tx[p])
            <4>1. ASSUME lost = 0 PROVE Contiguous(rows) /\ Contiguous(rows)'
                BY <4>1, <1>2 DEF IInv, Core, Solid
            <4>2. ASSUME lost = 0 PROVE File!AtOneEnd(tx[p])
                BY <4>1, <4>2, TransactionAtOneEnd DEF IInv
            <4> QED BY <4>1, <4>2 DEF Contiguous, File!Consecutive
        <3>4. rows # {}
            BY DEF IInv, Base, Started
        <3>5. ~(lost > 0) => lost = 0
            BY DEF IInv, Base, TypeOK
        <3>6. File!Store
            <4>1. rows \subseteq rows' /\ (lost > 0)' = (lost > 0)
                BY <1>2
            <4>2. Cardinality(rows' \ rows) \in 1..BatchSize
                BY <3>1, <3>2
            <4>3. ~(lost > 0) => File!Consecutive(rows') /\ File!AtOneEnd(rows' \ rows)
                BY <3>1, <3>3, <3>5
            <4>4. File!Cardinality(rows' \ rows) = Cardinality(rows' \ rows)
                BY DEF File!Cardinality, Cardinality
            <4> QED BY <3>4, <4>1, <4>2, <4>3, <4>4 DEF File!Store
        <3> QED BY <3>6
    <2> QED BY <2>1, <2>2
<1> QED BY <1>1, <1>2 DEF CommitOrLose

\* For any number of processes, crashes and failing commits, what the commands do
\* to the file is what Archive allows: whole batches, at one end, without a hole.
THEOREM HistoryImplementsArchive == Spec => ImplementsArchive
<1>1. Init => File!Init
    BY InitIInv DEF Init, IInv, Core, Solid, Contiguous, File!Init, File!Consecutive
<1>2. ASSUME IInv, IInv', Batches, Places, [Next]_vars
      PROVE  [File!Store \/ File!Break]_(File!vars)
    <2>1. ASSUME NEW p \in Procs, Commit(p) \/ CommitLast(p)
          PROVE  [File!Store \/ File!Break]_(File!vars)
        <3>1. pc[p] \in InLoop /\ CommitOrLose(p)
            BY <2>1 DEF Commit, CommitLast, InLoop
        <3> QED BY <3>1, <1>2, CommitStores
    <2>2. CASE UNCHANGED <<rows, lost>>
        BY <2>2 DEF File!vars
    <2>3. ASSUME NEW p \in Procs, Step(p), ~(Commit(p) \/ CommitLast(p))
          PROVE  UNCHANGED <<rows, lost>>
        BY <2>3 DEF Step, MaxBlockNumber, MinBlockNumber, CurrentBlockNumber, InsertRow,
           SignerDataForBlockNumber, SignersMissing, InsertDuplicate, InsertSigners, dbVars
    <2>4. ASSUME NEW p \in Procs, Abort(p) \/ \E m \in {"backward", "forward"} : Run(p, m)
          PROVE  UNCHANGED <<rows, lost>>
        BY <2>4 DEF Abort, Run, dbVars
    <2>5. CASE NewBlock \/ UNCHANGED vars
        BY <2>2, <2>5 DEF NewBlock, vars, dbVars
    <2> QED BY <1>2, <2>1, <2>2, <2>3, <2>4, <2>5 DEF Next
<1>3. Init => Batches
    BY FS_EmptySet DEF Init, Batches, Counted, InLoop
<1>4. IInv /\ Batches /\ [Next]_vars => Batches'
    BY NextBatches
<1>5. IInv /\ Places /\ [Next]_vars => Places'
    BY NextPlaces DEF IInv
<1> QED BY <1>1, <1>2, <1>3, <1>4, <1>5, InitPlaces, AlwaysIInv, PTL
        DEF Spec, ImplementsArchive, File!Spec

=============================================================================
