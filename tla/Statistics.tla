----------------------------- MODULE Statistics -----------------------------
(***************************************************************************)
(* The web server of serve/serve.go: one handler per connected browser,    *)
(* each with a feed of block headers of its own, all of them counting into *)
(* the maps asProposer and asSigner of one RedTNode (redt/redt.go), which  *)
(* countersLock guards.  A feed hands over numbers in increasing order and *)
(* may skip some (see Feed).  The program ends when the seals of a header  *)
(* do not decode, and compose.yaml has it started again.  Browsers, node   *)
(* and network are the environment.                                        *)
(***************************************************************************)
EXTENDS Validators

CONSTANTS
    Viewers,      \* connections of browsers to /ws
    Nobody,       \* no viewer
    ValSet,       \* the validator set of the node
    Known,        \* rt.allValidators: those enodes has an entry for
    Author,       \* per block: its proposer
    Sealers,      \* per block: the validators whose committed seals it carries
    Unreadable,   \* the blocks whose seals do not decode
    MaxBlock      \* bound: height the chain reaches

Blocks == 1..MaxBlock

ASSUME ViewersAssumption == Nobody \notin Viewers /\ IsFiniteSet(Viewers)
ASSUME ValSetAssumption == ValSet # {} /\ IsFiniteSet(ValSet)
ASSUME ChainAssumption ==
    /\ MaxBlock \in Nat /\ ValSet \cup Known \subseteq Validators
    /\ Author \in [Blocks -> Validators]
    /\ Sealers \in [Blocks -> SUBSET Validators] /\ Unreadable \subseteq Blocks

VARIABLES
    head, started,         \* the node's newest block, now and when the program began
    valSet,                \* rt.valSet, loaded when the program starts
    asProposer, asSigner,  \* the counters
    writer, readers,       \* who holds countersLock, in which mode
    pc, block,             \* per viewer: where its handler's loop is, its last header
    table                  \* per viewer: the counts it has read, the next proposer

program == <<started, valSet>>
counters == <<asProposer, asSigner>>
countersLock == <<writer, readers>>
vars == <<head, started, valSet, asProposer, asSigner, writer, readers, pc, block, table>>

Counts == [Validators -> Nat]
Zero == [w \in Validators |-> 0]
NoTable == [number |-> 0, proposals |-> Zero, signatures |-> Zero, next |-> Nobody]

TypeOK ==
    /\ head \in 0..MaxBlock /\ started \in 0..head
    /\ valSet \in Orders(ValSet)
    /\ asProposer \in Counts /\ asSigner \in Counts
    /\ writer \in Viewers \cup {Nobody} /\ readers \subseteq Viewers
    /\ pc \in [Viewers -> {"off", "first", "receive", "update", "proposer",
                           "signers", "read", "reading", "shown"}]
    /\ block \in [Viewers -> 0..MaxBlock]
    /\ table \in [Viewers -> [number : 0..MaxBlock, proposals : Counts, signatures : Counts,
                              next : ValSet \cup {Nobody}]]

Init ==
    /\ head = 0 /\ started = 0
    /\ valSet \in getValSet(ValSet)
    /\ asProposer = Zero /\ asSigner = Zero
    /\ writer = Nobody /\ readers = {}
    /\ pc = [v \in Viewers |-> "off"]
    /\ block = [v \in Viewers |-> 0]
    /\ table = [v \in Viewers |-> NoTable]

GoTo(v, where) == pc' = [pc EXCEPT ![v] = where]

-----------------------------------------------------------------------------
(* serveViaWS                                                              *)

\* The browser connects, the handler subscribes: only later blocks are announced.
Connect(v) ==
    /\ pc[v] = "off"
    /\ GoTo(v, "first")
    /\ block' = [block EXCEPT ![v] = head]
    /\ table' = [table EXCEPT ![v] = NoTable]
    /\ UNCHANGED <<head, program, counters, countersLock>>

\* What the feed may hand over next.
BugAnnouncesEarly(v) == block[v] + 1 .. head + 1
Announced(v) == block[v] + 1 .. head

\* A header, and the full header for its number.  The first is only timed.
ReceiveHeader(v) ==
    /\ pc[v] \in {"first", "receive"}
    /\ \E n \in Announced(v) : block' = [block EXCEPT ![v] = n]
    /\ GoTo(v, IF pc[v] = "first" THEN "receive" ELSE "update")
    /\ UNCHANGED <<head, program, counters, countersLock, table>>

\* The table reaches the browser.
WriteMessage(v) ==
    /\ pc[v] = "shown"
    /\ GoTo(v, "receive")
    /\ UNCHANGED <<head, program, counters, countersLock, block, table>>

\* No subscription, no full header (an error, or the panic of HeaderByNumber,
\* which echo recovers), or no browser any more: the handler leaves its loop.  It
\* goes on to the deferred Stop of its client, which may never return (StopReturns
\* in QuorumClient) but shares nothing with the other handlers; in the model the
\* viewer is "off" from there on, and may connect again to a handler of its own.
HandlerEnds(v) ==
    /\ pc[v] \in {"first", "receive", "shown"}
    /\ GoTo(v, "off")
    /\ UNCHANGED <<head, program, counters, countersLock, block, table>>

-----------------------------------------------------------------------------
(* UpdateStatisticsForBlock                                                *)

\* Only InitializeStats assigns it, which the server never calls.
lastBlockProcessed == 0
AlreadyProcessed(n) == n <= lastBlockProcessed

UpdateLock(v) ==
    /\ pc[v] = "update" /\ block[v] \notin Unreadable
    /\ writer = Nobody /\ readers = {}
    /\ IF AlreadyProcessed(block[v])
       THEN GoTo(v, "read") /\ UNCHANGED writer
       ELSE GoTo(v, "proposer") /\ writer' = v
    /\ UNCHANGED <<head, program, counters, readers, block, table>>

CountersAfterRestart(v) == asProposer' = Zero /\ asSigner' = Zero

\* SignersFromBlock calls log.Fatal, which no middleware recovers: all handlers
\* end, and a new program starts from the validator set of the node.
SignersUnreadable(v) ==
    /\ pc[v] = "update" /\ block[v] \in Unreadable
    /\ started' = head
    /\ valSet' \in getValSet(ValSet)
    /\ CountersAfterRestart(v)
    /\ writer' = Nobody /\ readers' = {}
    /\ pc' = [u \in Viewers |-> "off"]
    /\ UNCHANGED <<head, block, table>>

BugUnlocksEarly(v) ==
    /\ pc[v] = "proposer"
    /\ asProposer' = [asProposer EXCEPT ![Author[block[v]]] = @ + 1]
    /\ writer' = Nobody
    /\ GoTo(v, "signers")
    /\ UNCHANGED <<head, program, asSigner, readers, block, table>>
CountProposer(v) ==
    /\ pc[v] = "proposer"
    /\ asProposer' = [asProposer EXCEPT ![Author[block[v]]] = @ + 1]
    /\ GoTo(v, "signers")
    /\ UNCHANGED <<head, program, asSigner, countersLock, block, table>>

CountSigners(v) ==
    /\ pc[v] = "signers"
    /\ asSigner' = [w \in Validators |->
                       IF w \in Sealers[block[v]] THEN asSigner[w] + 1 ELSE asSigner[w]]
    /\ writer' = Nobody
    /\ GoTo(v, "read")
    /\ UNCHANGED <<head, program, asProposer, readers, block, table>>

-----------------------------------------------------------------------------
(* SignersForHeader: the counts are read under the read lock               *)

BugReadsUnlocked(v) == TRUE
MayRead(v) == writer = Nobody

RLock(v) ==
    /\ pc[v] = "read" /\ MayRead(v)
    /\ readers' = readers \cup {v}
    /\ table' = [table EXCEPT ![v] = [number |-> block[v], proposals |-> asProposer,
                                      signatures |-> Zero,
                                      next |-> NextProposer(valSet, Author[block[v]])]]
    /\ GoTo(v, "reading")
    /\ UNCHANGED <<head, program, counters, writer, block>>

\* ValidatorInfo is nil for an author, or a member of valSet, without an entry.
\* Where it is the next proposer's, the panic comes just before the lock is taken.
Nameless(n) == ~(ValSet \cup {Author[n]} \subseteq Known)

\* The deferred RUnlock runs when the handler panics, too.
BugNotDeferred(v) == IF Nameless(block[v]) THEN readers ELSE readers \ {v}
ReadersAfter(v) == readers \ {v}

\* Where the panic over a nil entry leaves the handler: echo recovers it.
BugTriesAgain(v) == "reading"
AfterPanic(v) == "off"

RUnlock(v) ==
    /\ pc[v] = "reading"
    /\ readers' = ReadersAfter(v)
    /\ \/ /\ ~Nameless(block[v])
          /\ table' = [table EXCEPT ![v].signatures = asSigner]
          /\ GoTo(v, "shown")
       \/ /\ Nameless(block[v])
          /\ GoTo(v, AfterPanic(v)) /\ UNCHANGED table
    /\ UNCHANGED <<head, program, counters, writer, block>>

-----------------------------------------------------------------------------
NewBlock ==
    /\ head < MaxBlock
    /\ head' = head + 1
    /\ UNCHANGED <<program, counters, countersLock, pc, block, table>>

Handler(v) ==
    \/ SignersUnreadable(v) \/ UpdateLock(v) \/ CountProposer(v)
    \/ CountSigners(v) \/ RLock(v) \/ RUnlock(v)

Browser(v) == Connect(v) \/ ReceiveHeader(v) \/ WriteMessage(v) \/ HandlerEnds(v)

Next == (\E v \in Viewers : Browser(v) \/ Handler(v)) \/ NewBlock

Spec == Init /\ [][Next]_vars

(***************************************************************************)
(* Handlers are scheduled fairly and an RWMutex starves neither readers    *)
(* nor writers.  Nothing is assumed of blocks, nor of browsers: there is   *)
(* no write deadline (serve.go:176), and one that stops reading keeps its  *)
(* handler in WriteMessage.                                                *)
(***************************************************************************)
FairSpec ==
    Spec /\ \A v \in Viewers : /\ WF_vars(Handler(v))
                               /\ SF_vars(UpdateLock(v)) /\ SF_vars(RLock(v))

-----------------------------------------------------------------------------
(* Properties                                                              *)

\* A set of updates, each <<viewer, block>>, as the two columns of a table show it.
Proposals(updates, w) == Cardinality({u \in updates : Author[u[2]] = w})
Signatures(updates, w) == Cardinality({u \in updates : w \in Sealers[u[2]]})
Accounts(updates, t) ==
    \A w \in Validators : /\ t.proposals[w] = Proposals(updates, w)
                          /\ t.signatures[w] = Signatures(updates, w)

\* README.md:11 "since the `signers` program was started": each table shows whole
\* updates since then, whoever counts while it is read, each viewer's of a block at
\* most once, and the viewer's own of the block it announces is among them: both
\* columns are counts of the same updates.
TableConsistent ==
    \A v \in Viewers : pc[v] = "shown" =>
        \E updates \in SUBSET (Viewers \X (started + 1 .. head)) :
            Accounts(updates, table[v]) /\ <<v, table[v].number>> \in updates

\* The updates that are half done: the proposer counted, the signers not yet.
HalfDone == {<<v, block[v]>> : v \in {u \in Viewers : pc[u] = "signers"}}

\* A table becomes one when the first column is read, under the lock.
Copy(v) ==
    CASE pc[v] = "reading" -> [proposals |-> table[v].proposals, signatures |-> asSigner]
      [] pc[v] = "shown"   -> [proposals |-> table[v].proposals,
                               signatures |-> table[v].signatures]
      [] OTHER             -> Nobody

\* Those who share the RedTNode see a Scoreboard: although the code counts and reads
\* in two steps each, no reader can tell, and the lock is why.
Shared == INSTANCE Scoreboard WITH
    Readers <- Viewers, Nothing <- Nobody, Names <- Validators, Numbers <- Blocks,
    proposals <- [w \in Validators |-> asProposer[w] - Proposals(HalfDone, w)],
    signatures <- asSigner,
    copy <- [v \in Viewers |-> Copy(v)]
ImplementsScoreboard == Shared!Spec

\* Exactly the handlers inside its critical sections hold countersLock: neither a
\* panic nor the end of a handler leaves it locked, and nobody reads the counters
\* while they are changed.
LockHeld ==
    /\ readers = {v \in Viewers : pc[v] = "reading"}
    /\ \A v \in Viewers : pc[v] \in {"proposer", "signers"} <=> writer = v
    /\ writer # Nobody => readers = {}

\* The proposer that a table announces for the next block is the one whose turn it
\* is: the author's successor in the order of the consensus algorithm, not in the
\* order of the numbers or of the node's answer.
NextProposerInTurn ==
    \A v \in Viewers : pc[v] = "shown" /\ Author[block[v]] \in ValSet =>
        TurnFollows(ValSet, Author[block[v]], table[v].next)

\* A handler that has received a header is never stuck on countersLock: it gets as
\* far as a table to send, or leaves its loop, whoever else counts, reads or panics,
\* and also while other handlers wait for ever for browsers that do not take theirs.
HandlersGoOn ==
    \A v \in Viewers : (pc[v] = "update") ~> (pc[v] \in {"shown", "off"})

-----------------------------------------------------------------------------
(* What the documentation says and the code does not do                    *)

\* README.md:11 "accumulates counters with the number of blocks that where
\* proposed and sealed by each Validator": no block counts twice.
BlocksCountOnce ==
    \A w \in Validators : asProposer[w] <= Cardinality({n \in 1..head : Author[n] = w})

=============================================================================
