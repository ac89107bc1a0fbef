--------------------------- MODULE HistoryProofs ---------------------------
(***************************************************************************)
(* Proofs about History, for any set of processes, any batch size and any  *)
(* chain.  Base says where each process is and what its transaction holds; *)
(* it survives everything, failing commits included.  Core says that the   *)
(* number a process will insert next touches what is stored or what its    *)
(* own transaction holds; it lasts until a commit fails.                   *)
(***************************************************************************)
EXTENDS History, FiniteSetTheorems, TLAPS

Stored(p) == rows \cup tx[p]

\* An open transaction belongs to the holder of SQLite's write lock.
Locked == \A p \in Procs : tx[p] # {} => writer = p

\* Both tables agree, but for the block being inserted, and the archive is
\* never the genesis block alone.
Tables ==
    /\ rows = signed
    /\ rows # {} => \E n \in rows : n > 0
    /\ \A p \in Procs :
          tx[p] = IF pc[p] = "signers" THEN txSigned[p] \cup {next[p]} ELSE txSigned[p]

\* What a process knows before its loop, and in it.
Started(p) ==
    /\ pc[p] = "min" => mode[p] = "backward"
    /\ pc[p] = "head" => mode[p] = "forward" /\ next[p] \in rows /\ next[p] > 0
    /\ pc[p] \in InLoop =>
          /\ rows # {}
          /\ mode[p] = "forward" => 0 < first[p] /\ first[p] <= next[p]
          /\ mode[p] = "backward" => next[p] <= first[p]

Inserting(p) ==
    /\ pc[p] \in {"row", "signers", "commit"} => next[p] \in Nat
    /\ pc[p] \in {"signers", "commit"} => next[p] \in tx[p]
    /\ pc[p] = "final" => ~InRange(p)
    /\ pc[p] \notin InLoop => tx[p] = {}

Base ==
    /\ TypeOK /\ Locked /\ Tables
    /\ \A p \in Procs : Started(p) /\ Inserting(p)

\* The archive, and what it would be after any one commit, have no hole.
Solid == Contiguous(rows) /\ \A p \in Procs : Contiguous(Stored(p))

\* From next to the stored block its run started at, all is stored or in the
\* transaction.
Joined(p) ==
    pc[p] \in InLoop =>
        /\ mode[p] = "forward" => first[p] - 1 .. next[p] - 1 \subseteq Stored(p)
        /\ mode[p] = "backward" => next[p] + 1 .. first[p] + 1 \subseteq Stored(p)

Complete(p) ==
    pc[p] = "done" =>
        /\ mode[p] = "forward" => first[p]..until[p] \subseteq rows
        /\ mode[p] = "backward" => 0..first[p] \subseteq rows

Core == Solid /\ \A p \in Procs : Joined(p) /\ Complete(p)

IInv == Base /\ (lost = 0 => Core)

-----------------------------------------------------------------------------
(* Consecutive runs of numbers                                             *)

\* One more number at either end of a run leaves no hole.
LEMMA ContiguousExtend ==
    ASSUME NEW S, S \subseteq Int, Contiguous(S), NEW n \in Int,
           n - 1 \in S \/ n + 1 \in S
    PROVE  Contiguous(S \cup {n})
<1> SUFFICES ASSUME NEW a \in S \cup {n}, NEW b \in S \cup {n}, NEW m \in a..b, m # n
             PROVE  m \in S
    BY DEF Contiguous
<1>1. CASE a \in S /\ b \in S
    BY <1>1 DEF Contiguous
<1>2. CASE a = n /\ b \in S
    <2>1. m \in n + 1 .. b
        BY <1>2
    <2>2. CASE n + 1 \in S
        BY <1>2, <2>1, <2>2 DEF Contiguous
    <2>3. CASE n - 1 \in S
        BY <1>2, <2>1, <2>3 DEF Contiguous
    <2> QED BY <2>2, <2>3
<1>3. CASE a \in S /\ b = n
    <2>1. m \in a .. n - 1
        BY <1>3
    <2>2. CASE n - 1 \in S
        BY <1>3, <2>1, <2>2 DEF Contiguous
    <2>3. CASE n + 1 \in S
        BY <1>3, <2>1, <2>3 DEF Contiguous
    <2> QED BY <2>2, <2>3
<1> QED BY <1>1, <1>2, <1>3

-----------------------------------------------------------------------------
(* The inductive invariant                                                 *)

LEMMA Types ==
    ASSUME TypeOK, NEW p \in Procs
    PROVE  /\ next[p] \in Int /\ first[p] \in Int /\ until[p] \in Int
           /\ rows \subseteq Nat /\ signed \subseteq Nat
           /\ tx[p] \subseteq Nat /\ txSigned[p] \subseteq Nat
BY DEF TypeOK

LEMMA InitIInv == Init => IInv
<1> SUFFICES ASSUME Init PROVE IInv
    OBVIOUS
<1>1. rows \in Archives /\ rows \subseteq Nat /\ chain \in Nat /\ unsealed \subseteq Nat
    BY ArchivesAssumption, BoundsAssumption, UnsealedAssumption DEF Init
<1>2. TypeOK
    BY <1>1 DEF Init, TypeOK, Ended
<1>3. Locked /\ Tables
    BY ArchivesAssumption, <1>1 DEF Init, Locked, Tables
<1>4. Solid
    BY ArchivesAssumption, <1>1 DEF Init, Solid, Stored
<1>5. \A p \in Procs : Started(p) /\ Inserting(p) /\ Joined(p) /\ Complete(p)
    BY DEF Init, Started, Joined, Inserting, Complete, InLoop
<1> QED BY <1>2, <1>3, <1>4, <1>5 DEF IInv, Base, Core

LEMMA NextBase == ASSUME Base, [Next]_vars PROVE Base'
<1> USE DEF GoTo
<1>1. ASSUME NEW p \in Procs, NEW m \in {"backward", "forward"}, Run(p, m)
      PROVE  Base'
    <2> USE <1>1 DEF Run, chainVars, dbVars, txVars, loopVars
    <2>1. TypeOK'
        BY DEF Base, TypeOK, Ended, InLoop, Inserting
    <2>2. Locked'
        BY DEF Base, Locked, TypeOK
    <2>3. Tables'
        BY DEF Base, Tables, TypeOK, Ended
    <2>4. \A q \in Procs : Started(q)' /\ Inserting(q)'
        BY DEF Base, TypeOK, Started, Inserting, InRange, Locked, Tables, Ended, InLoop
    <2> QED BY <2>1, <2>2, <2>3, <2>4 DEF Base
<1>2. ASSUME NEW p \in Procs, MaxBlockNumber(p) PROVE Base'
    <2> USE <1>2 DEF MaxBlockNumber, chainVars, dbVars, txVars, loopVars
    <2>1. TypeOK'
        BY DEF Base, TypeOK, Ended, InLoop, Inserting
    <2>2. Locked'
        BY DEF Base, Locked, TypeOK
    <2>3. Tables'
        BY DEF Base, Tables, TypeOK, Ended
    <2>4. \A q \in Procs : Started(q)' /\ Inserting(q)'
        BY DEF Base, TypeOK, Started, Inserting, InRange, Locked, Tables, Ended, InLoop
    <2> QED BY <2>1, <2>2, <2>3, <2>4 DEF Base
<1>3. ASSUME NEW p \in Procs, MinBlockNumber(p) PROVE Base'
    <2> USE <1>3 DEF MinBlockNumber, StartAt, chainVars, dbVars, txVars, loopVars
    <2>1. TypeOK'
        BY DEF Base, TypeOK, Ended, InLoop, Inserting
    <2>2. Locked'
        BY DEF Base, Locked, TypeOK
    <2>3. Tables'
        BY DEF Base, Tables, TypeOK, Ended
    <2>4. \A q \in Procs : Started(q)' /\ Inserting(q)'
        BY DEF Base, TypeOK, Started, Inserting, InRange, Locked, Tables, Ended, InLoop
    <2> QED BY <2>1, <2>2, <2>3, <2>4 DEF Base
<1>4. ASSUME NEW p \in Procs, CurrentBlockNumber(p) PROVE Base'
    <2> USE <1>4 DEF CurrentBlockNumber, StartAt, StartNumber, chainVars, dbVars, txVars, loopVars
    <2>1. TypeOK'
        BY DEF Base, TypeOK, Ended, InLoop, Inserting
    <2>2. Locked'
        BY DEF Base, Locked, TypeOK
    <2>3. Tables'
        BY DEF Base, Tables, TypeOK, Ended
    <2>4. \A q \in Procs : Started(q)' /\ Inserting(q)'
        BY DEF Base, TypeOK, Started, Inserting, InRange, Locked, Tables, Ended, InLoop
    <2> QED BY <2>1, <2>2, <2>3, <2>4 DEF Base
<1>5. ASSUME NEW p \in Procs, SignerDataForBlockNumber(p) PROVE Base'
    <2> USE <1>5 DEF SignerDataForBlockNumber, HasSigners, chainVars, dbVars, txVars, loopVars
    <2>1. TypeOK'
        BY DEF Base, TypeOK, Ended, InLoop, Inserting
    <2>2. Locked'
        BY DEF Base, Locked, TypeOK
    <2>3. Tables'
        BY DEF Base, Tables, TypeOK, Ended
    <2>4. \A q \in Procs : Started(q)' /\ Inserting(q)'
        BY DEF Base, TypeOK, Started, Inserting, InRange, Locked, Tables, Ended, InLoop
    <2> QED BY <2>1, <2>2, <2>3, <2>4 DEF Base
<1>6. ASSUME NEW p \in Procs, SignersMissing(p) PROVE Base'
    <2> USE <1>6 DEF SignersMissing, EndTransaction, chainVars, dbVars, txVars, loopVars
    <2>1. TypeOK'
        BY DEF Base, TypeOK, Ended, InLoop, Inserting
    <2>2. Locked'
        BY DEF Base, Locked, TypeOK
    <2>3. Tables'
        BY DEF Base, Tables, TypeOK, Ended
    <2>4. \A q \in Procs : Started(q)' /\ Inserting(q)'
        BY DEF Base, TypeOK, Started, Inserting, InRange, Locked, Tables, Ended, InLoop
    <2> QED BY <2>1, <2>2, <2>3, <2>4 DEF Base
<1>7. ASSUME NEW p \in Procs, InsertRow(p) PROVE Base'
    <2> USE <1>7 DEF InsertRow, chainVars, dbVars, txVars, loopVars
    <2>1. TypeOK'
        BY DEF Base, TypeOK, Ended, InLoop, Inserting
    <2>2. Locked'
        BY ProcsAssumption DEF Base, Locked, TypeOK
    <2>3. Tables'
        BY DEF Base, Tables, TypeOK, Ended
    <2>4. \A q \in Procs : Started(q)' /\ Inserting(q)'
        BY DEF Base, TypeOK, Started, Inserting, InRange, Locked, Tables, Ended, InLoop
    <2> QED BY <2>1, <2>2, <2>3, <2>4 DEF Base
<1>8. ASSUME NEW p \in Procs, InsertDuplicate(p) PROVE Base'
    <2> USE <1>8 DEF InsertDuplicate, EndTransaction, chainVars, dbVars, txVars, loopVars
    <2>1. TypeOK'
        BY DEF Base, TypeOK, Ended, InLoop, Inserting
    <2>2. Locked'
        BY DEF Base, Locked, TypeOK
    <2>3. Tables'
        BY DEF Base, Tables, TypeOK, Ended
    <2>4. \A q \in Procs : Started(q)' /\ Inserting(q)'
        BY DEF Base, TypeOK, Started, Inserting, InRange, Locked, Tables, Ended, InLoop
    <2> QED BY <2>1, <2>2, <2>3, <2>4 DEF Base
<1>9. ASSUME NEW p \in Procs, InsertSigners(p) PROVE Base'
    <2> USE <1>9 DEF InsertSigners, Advance, chainVars, dbVars, txVars, loopVars
    <2>1. TypeOK'
        BY DEF Base, TypeOK, Ended, InLoop, Inserting
    <2>2. Locked'
        BY DEF Base, Locked, TypeOK
    <2>3. Tables'
        BY DEF Base, Tables, TypeOK, Ended
    <2>4. \A q \in Procs : Started(q)' /\ Inserting(q)'
        BY DEF Base, TypeOK, Started, Inserting, InRange, Locked, Tables, Ended, InLoop
    <2> QED BY <2>1, <2>2, <2>3, <2>4 DEF Base
<1>10. ASSUME NEW p \in Procs, Commit(p) PROVE Base'
    <2> USE <1>10 DEF Commit, CommitOrLose, EndTransaction, Advance, chainVars, dbVars, txVars, loopVars
    <2>1. TypeOK'
        <3>1. rows' \subseteq Nat /\ signed' \subseteq Nat /\ lost' \in Nat
            <4>1. rows \subseteq Nat /\ signed \subseteq Nat /\ lost \in Nat
                BY DEF Base, TypeOK
            <4>2. tx[p] \subseteq Nat /\ txSigned[p] \subseteq Nat
                BY Types DEF Base
            <4>3. (rows' = rows \/ rows' = rows \cup tx[p]) /\ (signed' = signed \/ signed' = signed \cup txSigned[p])
                OBVIOUS
            <4>4. lost' = lost \/ lost' = lost + 1
                OBVIOUS
            <4>5. rows' \subseteq Nat
                BY <4>1, <4>2, <4>3
            <4>6. signed' \subseteq Nat
                BY <4>1, <4>2, <4>3
            <4>7. lost' \in Nat
                BY <4>1, <4>4
            <4> QED BY <4>5, <4>6, <4>7
        <3>2. pc' \in [Procs -> Ended \cup InLoop \cup {"max", "min", "head"}]
            BY DEF Base, TypeOK, Ended, InLoop
        <3>3. next' \in [Procs -> Int] /\ writer' \in Procs \cup {Nobody} /\ count' \in [Procs -> Nat]
            BY DEF Base, TypeOK
        <3>4. tx' \in [Procs -> SUBSET Nat] /\ txSigned' \in [Procs -> SUBSET Nat]
            BY DEF Base, TypeOK
        <3> QED BY <3>1, <3>2, <3>3, <3>4 DEF Base, TypeOK
    <2>2. Locked'
        BY DEF Base, Locked, TypeOK
    <2>3. Tables'
        <3>1. rows = signed /\ tx[p] = txSigned[p]
            BY DEF Base, Tables
        <3>2. rows' = signed'
            BY <3>1
        <3>3. rows # {} /\ rows \subseteq rows'
            BY DEF Base, Started, InLoop
        <3>4. \E n \in rows' : n > 0
            BY <3>3 DEF Base, Tables
        <3>5. ASSUME NEW q \in Procs
              PROVE  (tx[q] = IF pc[q] = "signers" THEN txSigned[q] \cup {next[q]} ELSE txSigned[q])'
            BY DEF Base, Tables, TypeOK
        <3> QED BY <3>2, <3>4, <3>5 DEF Tables
    <2>4. \A q \in Procs : Started(q)' /\ Inserting(q)'
        BY DEF Base, TypeOK, Started, Inserting, InRange, Locked, Tables, Ended, InLoop
    <2> QED BY <2>1, <2>2, <2>3, <2>4 DEF Base
<1>11. ASSUME NEW p \in Procs, CommitLast(p) PROVE Base'
    <2> USE <1>11 DEF CommitLast, CommitOrLose, EndTransaction, chainVars, dbVars, txVars, loopVars
    <2>1. TypeOK'
        <3>1. rows' \subseteq Nat /\ signed' \subseteq Nat /\ lost' \in Nat
            <4>1. rows \subseteq Nat /\ signed \subseteq Nat /\ lost \in Nat
                BY DEF Base, TypeOK
            <4>2. tx[p] \subseteq Nat /\ txSigned[p] \subseteq Nat
                BY Types DEF Base
            <4>3. (rows' = rows \/ rows' = rows \cup tx[p]) /\ (signed' = signed \/ signed' = signed \cup txSigned[p])
                OBVIOUS
            <4>4. lost' = lost \/ lost' = lost + 1
                OBVIOUS
            <4>5. rows' \subseteq Nat
                BY <4>1, <4>2, <4>3
            <4>6. signed' \subseteq Nat
                BY <4>1, <4>2, <4>3
            <4>7. lost' \in Nat
                BY <4>1, <4>4
            <4> QED BY <4>5, <4>6, <4>7
        <3>2. pc' \in [Procs -> Ended \cup InLoop \cup {"max", "min", "head"}]
            BY DEF Base, TypeOK, Ended, InLoop
        <3>3. next' \in [Procs -> Int] /\ writer' \in Procs \cup {Nobody} /\ count' \in [Procs -> Nat]
            BY DEF Base, TypeOK
        <3>4. tx' \in [Procs -> SUBSET Nat] /\ txSigned' \in [Procs -> SUBSET Nat]
            BY DEF Base, TypeOK
        <3> QED BY <3>1, <3>2, <3>3, <3>4 DEF Base, TypeOK
    <2>2. Locked'
        BY DEF Base, Locked, TypeOK
    <2>3. Tables'
        <3>1. rows = signed /\ tx[p] = txSigned[p]
            BY DEF Base, Tables
        <3>2. rows' = signed'
            BY <3>1
        <3>3. rows # {} /\ rows \subseteq rows'
            BY DEF Base, Started, InLoop
        <3>4. \E n \in rows' : n > 0
            BY <3>3 DEF Base, Tables
        <3>5. ASSUME NEW q \in Procs
              PROVE  (tx[q] = IF pc[q] = "signers" THEN txSigned[q] \cup {next[q]} ELSE txSigned[q])'
            BY DEF Base, Tables, TypeOK
        <3> QED BY <3>2, <3>4, <3>5 DEF Tables
    <2>4. \A q \in Procs : Started(q)' /\ Inserting(q)'
        BY DEF Base, TypeOK, Started, Inserting, InRange, Locked, Tables, Ended, InLoop
    <2> QED BY <2>1, <2>2, <2>3, <2>4 DEF Base
<1>12. ASSUME NEW p \in Procs, Abort(p) PROVE Base'
    <2> USE <1>12 DEF Abort, EndTransaction, chainVars, dbVars, txVars, loopVars
    <2>1. TypeOK'
        BY DEF Base, TypeOK, Ended, InLoop, Inserting
    <2>2. Locked'
        BY DEF Base, Locked, TypeOK
    <2>3. Tables'
        BY DEF Base, Tables, TypeOK, Ended
    <2>4. \A q \in Procs : Started(q)' /\ Inserting(q)'
        BY DEF Base, TypeOK, Started, Inserting, InRange, Locked, Tables, Ended, InLoop
    <2> QED BY <2>1, <2>2, <2>3, <2>4 DEF Base
<1>13. ASSUME NewBlock PROVE Base'
    <2> USE <1>13 DEF NewBlock, chainVars, dbVars, txVars, loopVars
    <2>1. TypeOK'
        BY DEF Base, TypeOK, Ended, InLoop, Inserting
    <2>2. Locked'
        BY DEF Base, Locked, TypeOK
    <2>3. Tables'
        BY DEF Base, Tables, TypeOK, Ended
    <2>4. \A q \in Procs : Started(q)' /\ Inserting(q)'
        BY DEF Base, TypeOK, Started, Inserting, InRange, Locked, Tables, Ended, InLoop
    <2> QED BY <2>1, <2>2, <2>3, <2>4 DEF Base
<1>14. CASE UNCHANGED vars
    BY <1>14 DEF vars, Base, TypeOK, Locked, Tables, Started, Inserting, InRange
<1> QED BY <1>1, <1>2, <1>3, <1>4, <1>5, <1>6, <1>7, <1>8, <1>9, <1>10, <1>11, <1>12, <1>13, <1>14 DEF Next, Step

LEMMA NextCore == ASSUME Base, Core, lost' = lost, [Next]_vars PROVE Core'
<1> USE DEF GoTo
<1>0. lost \in Nat /\ lost' # lost + 1
    BY DEF Base, TypeOK
<1>1. ASSUME NEW p \in Procs, NEW m \in {"backward", "forward"}, Run(p, m)
      PROVE  Core'
    <2> USE <1>1 DEF Run, chainVars, dbVars, txVars, loopVars
    <2>1. Solid'
        BY DEF Base, Core, Locked, Solid, Stored, TypeOK
    <2>2. \A q \in Procs : Joined(q)'
        BY DEF Base, Core, TypeOK, Started, Joined, Inserting, Stored, Locked, Ended, InLoop
    <2>3. \A q \in Procs : Complete(q)'
        BY DEF Base, Core, TypeOK, Complete, Ended, InLoop
    <2> QED BY <2>1, <2>2, <2>3 DEF Core
<1>2. ASSUME NEW p \in Procs, MaxBlockNumber(p) PROVE Core'
    <2> USE <1>2 DEF MaxBlockNumber, chainVars, dbVars, txVars, loopVars
    <2>1. Solid'
        BY DEF Base, Core, Locked, Solid, Stored, TypeOK
    <2>2. \A q \in Procs : Joined(q)'
        BY DEF Base, Core, TypeOK, Started, Joined, Inserting, Stored, Locked, Ended, InLoop
    <2>3. \A q \in Procs : Complete(q)'
        BY DEF Base, Core, TypeOK, Complete, Ended, InLoop
    <2> QED BY <2>1, <2>2, <2>3 DEF Core
<1>3. ASSUME NEW p \in Procs, MinBlockNumber(p) PROVE Core'
    <2> USE <1>3 DEF MinBlockNumber, StartAt, chainVars, dbVars, txVars, loopVars
    <2>1. Solid'
        BY DEF Base, Core, Locked, Solid, Stored, TypeOK
    <2>2. \A q \in Procs : Joined(q)'
        <3>1. SUFFICES ASSUME NEW q \in Procs PROVE Joined(q)'
            OBVIOUS
        <3>2. CASE q # p \/ pc'[p] = "failed"
            <4>1. q # p => pc'[q] = pc[q] /\ next'[q] = next[q] /\ first'[q] = first[q]
                BY DEF Base, TypeOK
            <4>2. mode' = mode /\ tx' = tx /\ rows' = rows
                OBVIOUS
            <4> QED BY <3>2, <4>1, <4>2 DEF Core, Joined, Stored, InLoop
        <3>3. CASE q = p /\ pc'[p] # "failed"
            <4>1. PICK n \in rows : n # 0 /\ StartAt(p, n - 1)
                BY <3>3 DEF Base, TypeOK, Ended, InLoop
            <4>2. next'[p] = n - 1 /\ first'[p] = n - 1 /\ n \in Nat
                BY <4>1 DEF Base, TypeOK
            <4>3. mode'[p] = "backward" /\ n \in Stored(p)'
                BY DEF Base, Started, Stored
            <4> QED BY <3>3, <4>2, <4>3 DEF Joined
        <3> QED BY <3>2, <3>3
    <2>3. \A q \in Procs : Complete(q)'
        BY DEF Base, Core, TypeOK, Complete, Ended, InLoop
    <2> QED BY <2>1, <2>2, <2>3 DEF Core
<1>4. ASSUME NEW p \in Procs, CurrentBlockNumber(p) PROVE Core'
    <2> USE <1>4 DEF CurrentBlockNumber, StartAt, StartNumber, chainVars, dbVars, txVars, loopVars
    <2>1. Solid'
        BY DEF Base, Core, Locked, Solid, Stored, TypeOK
    <2>2. \A q \in Procs : Joined(q)'
        BY DEF Base, Core, TypeOK, Started, Joined, Inserting, Stored, Locked, Ended, InLoop
    <2>3. \A q \in Procs : Complete(q)'
        BY DEF Base, Core, TypeOK, Complete, Ended, InLoop
    <2> QED BY <2>1, <2>2, <2>3 DEF Core
<1>5. ASSUME NEW p \in Procs, SignerDataForBlockNumber(p) PROVE Core'
    <2> USE <1>5 DEF SignerDataForBlockNumber, HasSigners, chainVars, dbVars, txVars, loopVars
    <2>1. Solid'
        BY DEF Base, Core, Locked, Solid, Stored, TypeOK
    <2>2. \A q \in Procs : Joined(q)'
        BY DEF Base, Core, TypeOK, Started, Joined, Inserting, Stored, Locked, Ended, InLoop
    <2>3. \A q \in Procs : Complete(q)'
        BY DEF Base, Core, TypeOK, Complete, Ended, InLoop
    <2> QED BY <2>1, <2>2, <2>3 DEF Core
<1>6. ASSUME NEW p \in Procs, SignersMissing(p) PROVE Core'
    <2> USE <1>6 DEF SignersMissing, EndTransaction, chainVars, dbVars, txVars, loopVars
    <2>1. Solid'
        BY DEF Base, Core, Locked, Solid, Stored, TypeOK
    <2>2. \A q \in Procs : Joined(q)'
        BY DEF Base, Core, TypeOK, Started, Joined, Inserting, Stored, Locked, Ended, InLoop
    <2>3. \A q \in Procs : Complete(q)'
        BY DEF Base, Core, TypeOK, Complete, Ended, InLoop
    <2> QED BY <2>1, <2>2, <2>3 DEF Core
<1>7. ASSUME NEW p \in Procs, InsertRow(p) PROVE Core'
    <2> USE <1>7 DEF InsertRow, chainVars, dbVars, txVars, loopVars
    <2>1. Solid'
        <3>1. next[p] \in Int /\ rows \subseteq Nat /\ Stored(p) \subseteq Int
            BY Types DEF Base, Stored
        <3>2. next[p] - 1 \in Stored(p) \/ next[p] + 1 \in Stored(p)
            BY <3>1 DEF Base, Core, TypeOK, Joined, Started, InLoop
        <3>3. Contiguous(Stored(p) \cup {next[p]})
            BY <3>1, <3>2, ContiguousExtend DEF Core, Solid
        <3>4. Stored(p)' = Stored(p) \cup {next[p]}
            BY DEF Base, TypeOK, Stored
        <3>5. \A q \in Procs : q # p => Stored(q)' = Stored(q)
            BY DEF Base, TypeOK, Stored
        <3> QED BY <3>3, <3>4, <3>5 DEF Core, Solid, Contiguous
    <2>2. \A q \in Procs : Joined(q)'
        BY DEF Base, Core, TypeOK, Started, Joined, Inserting, Stored, Locked, Ended, InLoop
    <2>3. \A q \in Procs : Complete(q)'
        BY DEF Base, Core, TypeOK, Complete, Ended, InLoop
    <2> QED BY <2>1, <2>2, <2>3 DEF Core
<1>8. ASSUME NEW p \in Procs, InsertDuplicate(p) PROVE Core'
    <2> USE <1>8 DEF InsertDuplicate, EndTransaction, chainVars, dbVars, txVars, loopVars
    <2>1. Solid'
        BY DEF Base, Core, Locked, Solid, Stored, TypeOK
    <2>2. \A q \in Procs : Joined(q)'
        BY DEF Base, Core, TypeOK, Started, Joined, Inserting, Stored, Locked, Ended, InLoop
    <2>3. \A q \in Procs : Complete(q)'
        BY DEF Base, Core, TypeOK, Complete, Ended, InLoop
    <2> QED BY <2>1, <2>2, <2>3 DEF Core
<1>9. ASSUME NEW p \in Procs, InsertSigners(p) PROVE Core'
    <2> USE <1>9 DEF InsertSigners, Advance, chainVars, dbVars, txVars, loopVars
    <2>1. Solid'
        BY DEF Base, Core, Locked, Solid, Stored, TypeOK
    <2>2. \A q \in Procs : Joined(q)'
        BY DEF Base, Core, TypeOK, Started, Joined, Inserting, Stored, Locked, Ended, InLoop
    <2>3. \A q \in Procs : Complete(q)'
        BY DEF Base, Core, TypeOK, Complete, Ended, InLoop
    <2> QED BY <2>1, <2>2, <2>3 DEF Core
<1>10. ASSUME NEW p \in Procs, Commit(p) PROVE Core'
    <2> USE <1>10 DEF Commit, CommitOrLose, EndTransaction, Advance, chainVars, dbVars, txVars, loopVars
    <2>0. /\ rows' = rows \cup tx[p] /\ tx'[p] = {}
          /\ \A q \in Procs : q # p => tx'[q] = tx[q]
        BY <1>0 DEF Base, TypeOK
    <2>1. Solid'
        <3>1. rows' = Stored(p)
            BY <2>0 DEF Stored
        <3>2. tx[p] # {} => \A q \in Procs : q # p => tx[q] = {}
            BY DEF Base, Locked
        <3>3. \A q \in Procs : Stored(q)' = Stored(p) \/ Stored(q)' = Stored(q)
            BY <2>0, <3>2 DEF Stored
        <3> QED BY <3>1, <3>3 DEF Core, Solid, Contiguous
    <2>2. \A q \in Procs : Joined(q)'
        <3>1. SUFFICES ASSUME NEW q \in Procs PROVE Joined(q)'
            OBVIOUS
        <3>2. rows \subseteq rows' /\ Stored(q) \subseteq Stored(q)' /\ mode' = mode /\ first' = first
            BY <2>0 DEF Stored
        <3>3. CASE q = p
            <4>1. pc'[p] = "loop" /\ next[p] \in Stored(p)
                BY DEF Base, TypeOK, Inserting, Stored
            <4>2. next'[p] = IF mode[p] = "forward" THEN next[p] + 1 ELSE next[p] - 1
                BY DEF Base, TypeOK
            <4>3. next[p] \in Int /\ first[p] \in Int
                BY Types DEF Base
            <4>4. Joined(p) /\ pc[p] \in InLoop
                BY DEF Core, InLoop
            <4> QED BY <3>2, <3>3, <4>1, <4>2, <4>3, <4>4 DEF Joined
        <3>4. CASE q # p
            <4>1. pc'[q] = pc[q] /\ next'[q] = next[q] /\ Joined(q)
                BY <3>4 DEF Base, Core, TypeOK
            <4> QED BY <3>2, <4>1 DEF Joined
        <3> QED BY <3>3, <3>4
    <2>3. \A q \in Procs : Complete(q)'
        BY DEF Base, Core, TypeOK, Complete, Ended, InLoop
    <2> QED BY <2>1, <2>2, <2>3 DEF Core
<1>11. ASSUME NEW p \in Procs, CommitLast(p) PROVE Core'
    <2> USE <1>11 DEF CommitLast, CommitOrLose, EndTransaction, chainVars, dbVars, txVars, loopVars
    <2>0. /\ rows' = rows \cup tx[p] /\ tx'[p] = {}
          /\ \A q \in Procs : q # p => tx'[q] = tx[q]
        BY <1>0 DEF Base, TypeOK
    <2>1. Solid'
        <3>1. rows' = Stored(p)
            BY <2>0 DEF Stored
        <3>2. tx[p] # {} => \A q \in Procs : q # p => tx[q] = {}
            BY DEF Base, Locked
        <3>3. \A q \in Procs : Stored(q)' = Stored(p) \/ Stored(q)' = Stored(q)
            BY <2>0, <3>2 DEF Stored
        <3> QED BY <3>1, <3>3 DEF Core, Solid, Contiguous
    <2>2. \A q \in Procs : Joined(q)'
        BY DEF Base, Core, TypeOK, Started, Joined, Inserting, Stored, Locked, Ended, InLoop
    <2>3. \A q \in Procs : Complete(q)'
        <3>1. rows' = Stored(p) /\ rows \subseteq rows'
            BY <2>0 DEF Stored
        <3>2. Joined(p) /\ Started(p) /\ ~InRange(p) /\ pc[p] \in InLoop
            BY DEF Base, Core, Inserting, InLoop
        <3>3. /\ mode[p] = "forward" => first[p]..until[p] \subseteq Stored(p)
              /\ mode[p] = "backward" => 0..first[p] \subseteq Stored(p)
            BY <3>2, Types DEF Base, TypeOK, Joined, Started, InRange
        <3>4. \A q \in Procs : q # p => pc'[q] = pc[q]
            BY DEF Base, TypeOK
        <3> QED BY <3>1, <3>3, <3>4 DEF Core, Complete
    <2> QED BY <2>1, <2>2, <2>3 DEF Core
<1>12. ASSUME NEW p \in Procs, Abort(p) PROVE Core'
    <2> USE <1>12 DEF Abort, EndTransaction, chainVars, dbVars, txVars, loopVars
    <2>1. Solid'
        BY DEF Base, Core, Locked, Solid, Stored, TypeOK
    <2>2. \A q \in Procs : Joined(q)'
        BY DEF Base, Core, TypeOK, Started, Joined, Inserting, Stored, Locked, Ended, InLoop
    <2>3. \A q \in Procs : Complete(q)'
        BY DEF Base, Core, TypeOK, Complete, Ended, InLoop
    <2> QED BY <2>1, <2>2, <2>3 DEF Core
<1>13. ASSUME NewBlock PROVE Core'
    <2> USE <1>13 DEF NewBlock, chainVars, dbVars, txVars, loopVars
    <2>1. Solid'
        BY DEF Base, Core, Locked, Solid, Stored, TypeOK
    <2>2. \A q \in Procs : Joined(q)'
        BY DEF Base, Core, TypeOK, Started, Joined, Inserting, Stored, Locked, Ended, InLoop
    <2>3. \A q \in Procs : Complete(q)'
        BY DEF Base, Core, TypeOK, Complete, Ended, InLoop
    <2> QED BY <2>1, <2>2, <2>3 DEF Core
<1>14. CASE UNCHANGED vars
    BY <1>14 DEF vars, Core, Solid, Joined, Complete, Stored
<1> QED BY <1>1, <1>2, <1>3, <1>4, <1>5, <1>6, <1>7, <1>8, <1>9, <1>10, <1>11, <1>12, <1>13, <1>14 DEF Next, Step

\* Failing commits are counted, and the count is never reset.
LEMMA LostGrows == ASSUME [Next]_vars PROVE lost' = lost \/ lost' = lost + 1
BY DEF Next, Step, Run, MaxBlockNumber, MinBlockNumber, CurrentBlockNumber, SignerDataForBlockNumber,
   SignersMissing, InsertRow, InsertDuplicate, InsertSigners, Commit, CommitLast, CommitOrLose,
   Abort, NewBlock, dbVars, vars

-----------------------------------------------------------------------------
(* The theorems                                                            *)

LEMMA AlwaysIInv == Spec => []IInv
<1>1. Init => IInv
    BY InitIInv
<1>2. IInv /\ [Next]_vars => IInv'
    <2> SUFFICES ASSUME IInv, [Next]_vars PROVE IInv'
        OBVIOUS
    <2>1. Base'
        BY NextBase DEF IInv
    <2>2. ASSUME lost' = 0 PROVE Core'
        <3>1. lost = 0
            BY <2>2, LostGrows DEF IInv, Base, TypeOK
        <3> QED BY <2>2, <3>1, NextCore DEF IInv
    <2> QED BY <2>1, <2>2 DEF IInv
<1> QED BY <1>1, <1>2, PTL DEF Spec

\* Every variable keeps its type: no run inserts a negative number, reads a
\* number it did not find, or leaves the states of history.go.
THEOREM TypeCorrect == Spec => []TypeOK
<1>1. IInv => TypeOK
    BY DEF IInv, Base
<1> QED BY <1>1, AlwaysIInv, PTL

\* Whatever runs are started together, in either direction, and whenever they
\* are killed, the archive is one consecutive run of blocks until a commit fails.
THEOREM ArchiveIsContiguous == Spec => []NoHoles
<1>1. IInv => NoHoles
    BY DEF IInv, Core, Solid, NoHoles
<1> QED BY <1>1, AlwaysIInv, PTL

\* The tables blockchain and signers hold the same blocks after every commit.
THEOREM TablesAgree == Spec => []RowsHaveSigners
<1>1. IInv => RowsHaveSigners
    BY DEF IInv, Base, Tables, RowsHaveSigners
<1> QED BY <1>1, AlwaysIInv, PTL

\* A download that ends without an error has stored every block of the range
\* it set out to store, until a commit fails.
THEOREM CompleteWhenDone == Spec => []FinishedRunIsComplete
<1>1. IInv => FinishedRunIsComplete
    BY DEF IInv, Core, Complete, FinishedRunIsComplete
<1> QED BY <1>1, AlwaysIInv, PTL

-----------------------------------------------------------------------------
(* The batch: what a killed process loses                                  *)

\* count is the number of rows in the open transaction.
Counted(p) ==
    /\ IsFiniteSet(tx[p])
    /\ pc[p] \in InLoop =>
           Cardinality(tx[p]) = IF pc[p] = "signers" THEN count[p] + 1 ELSE count[p]
    /\ pc[p] \in InLoop \ {"commit"} => count[p] < BatchSize
    /\ pc[p] = "commit" => count[p] <= BatchSize

Batches == \A p \in Procs : Counted(p)

LEMMA NextBatches == ASSUME IInv, Batches, [Next]_vars PROVE Batches'
<1> SUFFICES ASSUME NEW q \in Procs PROVE Counted(q)'
    BY DEF Batches
<1> USE BatchAssumption DEF GoTo, chainVars, dbVars, txVars, loopVars
<1>0. Counted(q) /\ TypeOK /\ Inserting(q)
    BY DEF IInv, Base, Batches
<1>1. CASE /\ tx'[q] = tx[q] /\ count'[q] = count[q]
           /\ \/ pc'[q] = pc[q] 
              \/ pc'[q] \notin InLoop
              \/ pc[q] = "loop" /\ pc'[q] \in {"row", "final"}
    BY <1>0, <1>1 DEF Counted, InLoop
<1>2. CASE tx'[q] = {} /\ pc'[q] \notin InLoop
    BY <1>2, FS_EmptySet DEF Counted, InLoop
<1>3. CASE tx[q] = {} /\ tx' = tx /\ count'[q] = 0 /\ pc'[q] \notin {"signers", "commit"}
    BY <1>3, FS_EmptySet DEF Counted, InLoop
<1>4. ASSUME NEW p \in Procs, Step(p) \/ Abort(p) \/ \E m \in {"backward", "forward"} : Run(p, m)
      PROVE  Counted(q)'
    <2>1. CASE q # p
        <3>1. tx'[q] = tx[q] /\ count'[q] = count[q] /\ pc'[q] = pc[q]
            BY <1>4, <2>1, <1>0 DEF TypeOK, Step, Run, MaxBlockNumber, MinBlockNumber, CurrentBlockNumber,
               SignerDataForBlockNumber, SignersMissing, InsertRow, InsertDuplicate, InsertSigners,
               Commit, CommitLast, Abort, StartAt, EndTransaction, CommitOrLose
        <3> QED BY <3>1, <1>1
    <2>2. CASE q = p
        <3>1. CASE InsertRow(p)
            <4>1. /\ pc[q] = "row" /\ pc'[q] = "signers" /\ count'[q] = count[q]
                  /\ tx'[q] = tx[q] \cup {next[q]} /\ next[q] \notin tx[q]
                BY <2>2, <3>1, <1>0 DEF InsertRow, TypeOK
            <4>2. /\ IsFiniteSet(tx'[q])
                  /\ Cardinality(tx'[q]) = Cardinality(tx[q]) + 1
                <5>1. IsFiniteSet(tx[q])
                    BY <1>0 DEF Counted
                <5>2. /\ IsFiniteSet(tx[q] \cup {next[q]})
                      /\ Cardinality(tx[q] \cup {next[q]}) = Cardinality(tx[q]) + 1
                    BY <4>1, <5>1, FS_AddElement
                <5> QED BY <4>1, <5>2
            <4> QED BY <1>0, <4>1, <4>2 DEF Counted, InLoop
        <3>2. CASE InsertSigners(p)
            <4>1. /\ pc[q] = "signers" /\ tx'[q] = tx[q] /\ count'[q] = count[q] + 1
                  /\ pc'[q] = IF BatchFull(count[q] + 1) THEN "commit" ELSE "loop"
                BY <2>2, <3>2, <1>0 DEF InsertSigners, TypeOK
            <4>2. count[q] \in Nat
                BY <1>0 DEF TypeOK
            <4> QED BY <1>0, <4>1, <4>2 DEF Counted, InLoop, BatchFull
        <3>3. CASE Commit(p)
            <4>1. pc'[q] = "loop" /\ tx'[q] = {} /\ count'[q] = 0
                BY <2>2, <3>3, <1>0 DEF Commit, CommitOrLose, EndTransaction, TypeOK
            <4> QED BY <4>1, FS_EmptySet DEF Counted, InLoop
        <3>4. CASE CommitLast(p) \/ InsertDuplicate(p) \/ SignersMissing(p) \/ Abort(p)
            <4>1. tx'[q] = {} /\ pc'[q] \notin InLoop
                BY <2>2, <3>4, <1>0 DEF CommitLast, InsertDuplicate, SignersMissing, Abort,
                   CommitOrLose, EndTransaction, TypeOK, InLoop
            <4> QED BY <4>1, <1>2
        <3>5. CASE SignerDataForBlockNumber(p)
            BY <2>2, <3>5, <1>0, <1>1 DEF SignerDataForBlockNumber, TypeOK
        <3>6. CASE MinBlockNumber(p) \/ CurrentBlockNumber(p)
            <4>1. tx[q] = {} /\ tx' = tx
                BY <2>2, <3>6, <1>0 DEF MinBlockNumber, CurrentBlockNumber, Inserting, InLoop
            <4>2. CASE MinBlockNumber(p)
                <5>1. PICK n \in rows : GoTo(p, "failed") \/ StartAt(p, n - 1)
                    BY <4>2 DEF MinBlockNumber
                <5>2. pc'[q] = "failed" \/ (pc'[q] = "loop" /\ count'[q] = 0)
                    BY <2>2, <5>1, <1>0 DEF StartAt, TypeOK
                <5> QED BY <4>1, <5>2, <1>2, <1>3 DEF InLoop
            <4>3. CASE CurrentBlockNumber(p)
                <5>1. pc'[q] = "loop" /\ count'[q] = 0
                    BY <2>2, <4>3, <1>0 DEF CurrentBlockNumber, StartAt, TypeOK
                <5> QED BY <4>1, <5>1, <1>3
            <4> QED BY <3>6, <4>2, <4>3
        <3>7. CASE MaxBlockNumber(p)
            <4>1. tx'[q] = tx[q] /\ count'[q] = count[q] /\ pc'[q] \notin InLoop
                BY <2>2, <3>7, <1>0 DEF MaxBlockNumber, TypeOK, InLoop
            <4> QED BY <4>1, <1>1
        <3>8. CASE \E m \in {"backward", "forward"} : Run(p, m)
            <4>1. tx[q] = {} /\ tx' = tx /\ pc'[q] \notin InLoop
                BY <2>2, <3>8, <1>0 DEF Run, TypeOK, Inserting, InLoop, Ended
            <4> QED BY <4>1, <1>2
        <3> QED BY <1>4, <3>1, <3>2, <3>3, <3>4, <3>5, <3>6, <3>7, <3>8 DEF Step
    <2> QED BY <2>1, <2>2
<1>5. CASE NewBlock \/ UNCHANGED vars
    BY <1>5, <1>1 DEF NewBlock, vars
<1> QED BY <1>4, <1>5 DEF Next

\* A process that is killed loses at most one batch of insertions, and a process
\* that does not hold the write lock loses none.
THEOREM LossBoundedByBatch == Spec => []LossIsBounded
<1>1. Init => Batches
    BY FS_EmptySet DEF Init, Batches, Counted, InLoop
<1>2. IInv /\ Batches /\ [Next]_vars => Batches'
    BY NextBatches
<1>3. IInv /\ Batches => LossIsBounded
    <2> SUFFICES ASSUME IInv, Batches, NEW p \in Procs, tx[p] # {}
                 PROVE  writer = p /\ Cardinality(tx[p]) <= BatchSize
        BY DEF LossIsBounded
    <2>1. writer = p /\ pc[p] \in InLoop /\ count[p] \in Nat
        BY DEF IInv, Base, Locked, Inserting, TypeOK
    <2> QED BY <2>1, BatchAssumption DEF Batches, Counted, InLoop
<1> QED BY <1>1, <1>2, <1>3, AlwaysIInv, PTL DEF Spec

=============================================================================
