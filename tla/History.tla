------------------------------ MODULE History ------------------------------
(***************************************************************************)
(* The block archive of history/history.go: processes that download block  *)
(* headers into one SQLite file, backwards from the oldest stored block to *)
(* genesis or forwards from the newest one to the chain's head, committing *)
(* every BatchSize insertions.  Processes may run at the same time, fail   *)
(* or be killed at any step, and be started again.  SQLite is the          *)
(* environment: one writer at a time, taken by a transaction's first       *)
(* insertion, and an unfinished transaction leaves nothing behind.         *)
(***************************************************************************)
EXTENDS Integers, FiniteSets

CONSTANTS
    Procs,          \* processes using the database file
    Nobody,         \* no process
    BatchSize,      \* insertsPerCommit
    Archives,       \* the block numbers the file may hold at first
    MaxBlock,       \* bound: height the chain reaches
    Unsealed,       \* the sets of blocks that may lack a proposer's seal
    MaxFaults,      \* bound: runs that are killed or fail on an RPC or I/O error
    MaxLost         \* bound: commits that fail (disk full, I/O error)

ASSUME ProcsAssumption == Nobody \notin Procs
ASSUME BatchAssumption == BatchSize \in Nat \ {0}
ASSUME BoundsAssumption == {MaxBlock, MaxFaults, MaxLost} \subseteq Nat
ASSUME UnsealedAssumption == Unsealed \subseteq SUBSET Nat

Contiguous(S) == \A a, b \in S : \A n \in a..b : n \in S

\* A file nothing was stored in, or one consecutive run of blocks.  A file that
\* holds the genesis block alone cannot come from this program.
ASSUME ArchivesAssumption ==
    \A A \in Archives : /\ A \subseteq 0..MaxBlock /\ Contiguous(A)
                        /\ A # {} => \E n \in A : n > 0

VARIABLES
    chain,     \* number of the node's newest block
    unsealed,  \* the blocks of the chain without a proposer's seal
    rows,      \* committed: numbers in table blockchain
    signed,    \* committed: numbers with their rows in table signers
    lost,      \* commits that failed
    writer,    \* the process whose transaction holds SQLite's write lock
    faults,    \* failures so far
    pc, mode,  \* per process: where it is, and the command it runs
    next,      \* the loop variable i (before the loop: the number last read)
    first,     \* startNumber
    until,     \* currentNumber of a forward run
    count,     \* insertions since the last commit
    tx, txSigned  \* the uncommitted rows of both tables

chainVars == <<chain, unsealed>>
dbVars == <<rows, signed, lost>>
txVars == <<tx, txSigned, count>>
loopVars == <<next, first, until>>
vars == <<chain, unsealed, rows, signed, lost, writer, faults, pc, mode, next,
          first, until, count, tx, txSigned>>

Ended == {"off", "done", "failed"}
InLoop == {"loop", "row", "signers", "commit", "final"}

TypeOK ==
    /\ {chain, faults, lost} \subseteq Nat
    /\ unsealed \subseteq Nat
    /\ rows \subseteq Nat /\ signed \subseteq Nat
    /\ writer \in Procs \cup {Nobody}
    /\ pc \in [Procs -> Ended \cup InLoop \cup {"max", "min", "head"}]
    /\ mode \in [Procs -> {"backward", "forward"}]
    /\ {next, first, until} \subseteq [Procs -> Int]
    /\ count \in [Procs -> Nat]
    /\ tx \in [Procs -> SUBSET Nat] /\ txSigned \in [Procs -> SUBSET Nat]

Init ==
    /\ rows \in Archives
    /\ signed = rows
    /\ unsealed \in Unsealed /\ unsealed \cap rows = {}
    /\ chain \in {n \in 0..MaxBlock : \A r \in rows : r <= n}
    /\ writer = Nobody /\ faults = 0 /\ lost = 0
    /\ pc = [p \in Procs |-> "off"]
    /\ mode = [p \in Procs |-> "backward"]
    /\ next = [p \in Procs |-> 0]
    /\ first = [p \in Procs |-> 0]
    /\ until = [p \in Procs |-> 0]
    /\ count = [p \in Procs |-> 0]
    /\ tx = [p \in Procs |-> {}]
    /\ txSigned = [p \in Procs |-> {}]

-----------------------------------------------------------------------------
(* Choosing the start: HistoryForward and HistoryBackwards up to Begin     *)

GoTo(p, where) == pc' = [pc EXCEPT ![p] = where]

\* A new process: its variables are zero.
Run(p, m) ==
    /\ pc[p] \in Ended
    /\ mode' = [mode EXCEPT ![p] = m]
    /\ GoTo(p, "max")
    /\ next' = [next EXCEPT ![p] = 0]
    /\ first' = [first EXCEPT ![p] = 0]
    /\ until' = [until EXCEPT ![p] = 0]
    /\ count' = [count EXCEPT ![p] = 0]
    /\ UNCHANGED <<chainVars, dbVars, writer, faults, tx, txSigned>>

\* MAX over no rows is NULL, which Scan refuses to put into an int64.
MaxBlockNumber(p) ==
    /\ pc[p] = "max"
    /\ \/ /\ rows = {}
          /\ GoTo(p, "failed")
          /\ UNCHANGED next
       \/ \E n \in rows :
             /\ \A r \in rows : r <= n
             /\ next' = [next EXCEPT ![p] = n]
             /\ GoTo(p, IF mode[p] = "backward" /\ n # 0 THEN "min" ELSE "head")
    /\ UNCHANGED <<chainVars, dbVars, writer, faults, mode, first, until, txVars>>

StartAt(p, n) ==
    /\ next' = [next EXCEPT ![p] = n]
    /\ first' = [first EXCEPT ![p] = n]
    /\ count' = [count EXCEPT ![p] = 0]
    /\ GoTo(p, "loop")

\* A backward run of a database with blocks: one below the lowest number.
MinBlockNumber(p) ==
    /\ pc[p] = "min"
    /\ \E n \in rows :
          /\ \A r \in rows : n <= r
          /\ \/ n = 0 /\ GoTo(p, "failed") /\ UNCHANGED <<next, first, count>>
             \/ n # 0 /\ StartAt(p, n - 1)
    /\ UNCHANGED <<chainVars, dbVars, writer, faults, mode, until, tx, txSigned>>

\* A maximum of 0 is taken for an empty database: start at the chain's head.
BugSkipsOne(n, current) == IF n = 0 THEN current ELSE n + 2
BugStartsAtMax(n, current) == IF n = 0 THEN current ELSE n
StartNumber(n, current) == IF n = 0 THEN current ELSE n + 1

CurrentBlockNumber(p) ==
    /\ pc[p] = "head"
    /\ StartAt(p, StartNumber(next[p], chain))
    /\ until' = [until EXCEPT ![p] = chain]
    /\ UNCHANGED <<chainVars, dbVars, writer, faults, mode, tx, txSigned>>

-----------------------------------------------------------------------------
(* The loop: fetch, InsertHeader, Commit and Begin                         *)

BugPassesGenesis(p) == IF mode[p] = "forward" THEN next[p] <= until[p] ELSE next[p] >= -1
BugStopsEarly(p) == IF mode[p] = "forward" THEN next[p] < until[p] ELSE next[p] > 0
InRange(p) == IF mode[p] = "forward" THEN next[p] <= until[p] ELSE next[p] >= 0
Advance(p) == next' = [next EXCEPT ![p] = IF mode[p] = "forward" THEN @ + 1 ELSE @ - 1]

HasSigners(n) == n \notin unsealed

\* The node has the block: SignerDataForBlockNumber returns it.
SignerDataForBlockNumber(p) ==
    /\ pc[p] = "loop"
    /\ \/ InRange(p) /\ HasSigners(next[p]) /\ GoTo(p, "row")
       \/ ~InRange(p) /\ GoTo(p, "final")
    /\ UNCHANGED <<chainVars, dbVars, writer, faults, mode, loopVars, txVars>>

BugKeepsSigners(p) ==
    /\ tx' = [tx EXCEPT ![p] = {}]
    /\ writer' = IF writer = p THEN Nobody ELSE writer
    /\ UNCHANGED txSigned
EndTransaction(p) ==
    /\ tx' = [tx EXCEPT ![p] = {}]
    /\ txSigned' = [txSigned EXCEPT ![p] = {}]
    /\ writer' = IF writer = p THEN Nobody ELSE writer

\* No author can be recovered: log.Fatal in SignersFromBlock ends the process.
SignersMissing(p) ==
    /\ pc[p] = "loop" /\ InRange(p) /\ ~HasSigners(next[p])
    /\ GoTo(p, "failed")
    /\ EndTransaction(p)
    /\ UNCHANGED <<chainVars, dbVars, faults, mode, loopVars, count>>

InsertRow(p) ==
    /\ pc[p] = "row" /\ writer \in {Nobody, p}
    /\ next[p] \notin rows \cup tx[p]
    /\ writer' = p
    /\ tx' = [tx EXCEPT ![p] = @ \cup {next[p]}]
    /\ GoTo(p, "signers")
    /\ UNCHANGED <<chainVars, dbVars, faults, mode, loopVars, txSigned, count>>

\* Number is the primary key: a second row is refused and the run ends.
InsertDuplicate(p) ==
    /\ pc[p] = "row" /\ writer \in {Nobody, p}
    /\ next[p] \in rows \cup tx[p]
    /\ GoTo(p, "failed")
    /\ EndTransaction(p)
    /\ UNCHANGED <<chainVars, dbVars, faults, mode, loopVars, count>>

BugCommitsLate(n) == n > BatchSize
BatchFull(n) == n >= BatchSize

InsertSigners(p) ==
    /\ pc[p] = "signers"
    /\ txSigned' = [txSigned EXCEPT ![p] = @ \cup {next[p]}]
    /\ count' = [count EXCEPT ![p] = @ + 1]
    /\ IF BatchFull(count[p] + 1)
       THEN GoTo(p, "commit") /\ UNCHANGED next
       ELSE GoTo(p, "loop") /\ Advance(p)
    /\ UNCHANGED <<chainVars, dbVars, writer, faults, mode, first, until, tx>>

\* Nobody looks at the error Commit returns.
CommitOrLose(p) ==
    /\ \/ /\ rows' = rows \cup tx[p] /\ signed' = signed \cup txSigned[p]
          /\ UNCHANGED lost
       \/ /\ lost < MaxLost
          /\ lost' = lost + 1
          /\ UNCHANGED <<rows, signed>>
    /\ EndTransaction(p)

Commit(p) ==
    /\ pc[p] = "commit"
    /\ CommitOrLose(p)
    /\ count' = [count EXCEPT ![p] = 0]
    /\ GoTo(p, "loop") /\ Advance(p)
    /\ UNCHANGED <<chainVars, faults, mode, first, until>>

CommitLast(p) ==
    /\ pc[p] = "final"
    /\ CommitOrLose(p)
    /\ GoTo(p, "done")
    /\ UNCHANGED <<chainVars, faults, mode, loopVars, count>>

-----------------------------------------------------------------------------
(* The environment                                                         *)

\* An RPC or database error (also a lock not obtained in time) returned to the
\* command, a panic, or a kill: the process ends and its transaction with it.
Abort(p) ==
    /\ pc[p] \notin Ended /\ faults < MaxFaults
    /\ faults' = faults + 1
    /\ GoTo(p, "off")
    /\ EndTransaction(p)
    /\ UNCHANGED <<chainVars, dbVars, mode, loopVars, count>>

NewBlock ==
    /\ chain < MaxBlock
    /\ chain' = chain + 1
    /\ UNCHANGED <<unsealed, dbVars, writer, faults, pc, mode, loopVars, txVars>>

-----------------------------------------------------------------------------
Step(p) ==
    \/ MaxBlockNumber(p) \/ MinBlockNumber(p) \/ CurrentBlockNumber(p)
    \/ SignerDataForBlockNumber(p) \/ SignersMissing(p) \/ InsertRow(p) \/ InsertDuplicate(p)
    \/ InsertSigners(p) \/ Commit(p) \/ CommitLast(p)

Next ==
    \/ \E p \in Procs : \/ Step(p) \/ Abort(p)
                        \/ \E m \in {"backward", "forward"} : Run(p, m)
    \/ NewBlock

Spec == Init /\ [][Next]_vars

(***************************************************************************)
(* A process that runs gets on, a writer that waits for SQLite's lock gets *)
(* it in the end, the chain grows, and the operator starts both downloads  *)
(* again whenever they have ended.  Failures are not fair.                 *)
(***************************************************************************)
Fairness ==
    /\ \A p \in Procs : /\ WF_vars(Step(p))
                        /\ SF_vars(InsertRow(p) \/ InsertDuplicate(p))
                        /\ SF_vars(Run(p, "backward")) /\ SF_vars(Run(p, "forward"))
    /\ WF_vars(NewBlock)
FairSpec == Spec /\ Fairness

-----------------------------------------------------------------------------
(* Properties                                                              *)

\* Unless a commit failed, the archive has no hole: neither a run that dies in a
\* batch, nor runs in both directions at once, nor two runs in one direction leave
\* a number between two stored blocks unstored.  Only the ends are ever extended,
\* so a hole would never be filled.
NoHoles == lost = 0 => Contiguous(rows)

\* The tables agree, even when commits fail: a block is stored with its signers
\* or not at all.
RowsHaveSigners == rows = signed

\* Unless a commit failed, a run that ends normally has stored its whole range.
FinishedRunIsComplete ==
    lost = 0 => \A p \in Procs : pc[p] = "done" =>
        /\ mode[p] = "forward" => first[p]..until[p] \subseteq rows
        /\ mode[p] = "backward" => 0..first[p] \subseteq rows

\* What a crash or a failing commit can cost is one batch, and only the holder of
\* the write lock has anything to lose.
LossIsBounded ==
    \A p \in Procs : tx[p] # {} => writer = p /\ Cardinality(tx[p]) <= BatchSize

\* Seen from the database file the commands are an Archive: what is stored stays,
\* and grows at one end by at most a batch per commit.
File == INSTANCE Archive WITH stored <- rows, broken <- (lost > 0)
ImplementsArchive == File!Spec

\* Run often enough, the downloads reach both ends of the chain, in spite of
\* failures and of each other.
ArchiveFills == (rows # {} /\ unsealed = {}) ~> (rows = 0..MaxBlock)

\* Where the genesis block has no seal, every backward run dies on it and loses
\* its open batch: the archive still comes within one batch of the genesis block.
ArchiveFillsToLastBatch == (rows # {}) ~> (BatchSize..MaxBlock \subseteq rows)

-----------------------------------------------------------------------------
(* What comments of the code say and the code does not do                  *)

\* history.go:562 and :470 "If the database is empty, start from the current
\* blockchain number": a download of an empty database stores something.
EmptyDatabaseFills ==
    (rows = {} /\ \E p \in Procs : pc[p] = "max") ~> (rows # {})

=============================================================================
