# Formal models of `signers`

`signers` watches the validators of an Alastria RedT (Quorum, IBFT) network. It
shows who proposed and who sealed each block on a terminal (`monitor`, `poll`)
or in a browser (`serve`), and downloads block headers into an SQLite file
(`history`, `historyfw`). This directory holds TLA+ modules that model the parts
of the program with state and concurrency, TLC configurations that check them,
and theorems that TLAPS proves. `PROJECT.json` lists, in machine-readable form,
the runs, the source lines behind each definition, the hazards and the findings.

## Inventory

| Component (source) | State | Operations | Hard behaviour |
|---|---|---|---|
| WebSocket JSON-RPC client (`client/ws.go`, `client/quorum.go`) | the connection and its mutex, id counter, subscription id and call id, map of pending calls, shutdown channel, WaitGroup | dial, `subscribeChainHead`, `sendRPCMsg`, `rpcCall`, `listen`, `resetConn`, `Stop` | one listener goroutine, many callers and one consumer share the connection; disconnection at any point, timeouts with late answers, shutdown during delivery |
| Block archive (`history/history.go`) | two SQLite tables, an open transaction, the loop variables of a run | `HistoryForward`, `HistoryBackwards`, `showStats`, `InsertHeader`, `Begin`, `Commit` | crash in a batch, several processes on one file, start number read before the transaction, ignored errors |
| Statistics (`redt/redt.go`) | counters `asProposer` and `asSigner` under `countersLock`, `lastBlockProcessed` | `UpdateStatisticsForBlock`, `SignersForHeader`, `InitializeStats` | one `RedTNode` shared by all handlers of the web server; a lock that is not reentrant |
| Web server (`serve/serve.go`) | one client and one handler goroutine per browser | `serveViaWS` | panics in one handler while it holds the lock; browsers that leave; the end of the program in one handler, and its restart |
| Polling monitor (`redt/redt.go`, `MonitorSigners`) | newest block displayed, loop variables | poll, catch up | several blocks between two polls, a node that lags behind |
| WebSocket monitor (`redt/redt.go`, `MonitorSignersWS`) | like a handler of the web server | receive, display | the feed of the client |
| Header cache and node RPC (`redt/redt.go`, `HeaderByNumber`) | LRU cache of 100 headers | get or fetch | an RPC error with no header panics |
| Validator set, next proposer (`redt/redt.go`) | `valSet`, `allValidators` | `getValSet`, round robin | the order of checksummed addresses; validators without an entry; a set loaded once per start |
| JSON types (`types/`) | none | hexadecimal conversions | padding, truncation |
| Index page, log filter, command line | none | | pure I/O |

Interaction: a browser's handler (or `monitor`) makes a client of its own, which
dials the node and starts a listener. The listener hands each announced header
over an unbuffered channel; the handler then fetches the full header through the
shared `RedTNode`, counts it and renders the counters. `poll` and the archive use
only the `RedTNode`. Archive processes meet in the database file.

What makes each part correct, in one line each:

- Client: a call gets its own answer or an error, always returns, and nothing in
  the map of pending calls can block or crash the listener; headers arrive in
  order, once, and are skipped only across a reconnection; a subscription
  survives reconnections; `Stop` returns when the listener has ended.
- Archive: no holes, both tables agree, a run that reports success has stored its
  range, a crash costs one batch, repeated runs reach both ends of the chain.
- Statistics: each block counts once; a table shows whole updates and names the
  validator whose turn is next; no handler is stuck on the lock.
- Monitors: no block is missed and none counts twice; the time shown with a block
  is the time since the one before it.

## Modules

| Module | Models | Checked by | Proofs |
|---|---|---|---|
| `Feed` | abstract: what the consumer of a client sees | `QuorumClient` implements it | `QuorumFeedProofs` |
| `QuorumClient` | client, with its consumer, the node and the network | `MCQuorumClient`, 4 configurations | `QuorumClientProofs`, `QuorumFeedProofs` |
| `Archive` | abstract: what the reader of the database file sees | `History` implements it | `ArchiveProofs` |
| `History` | both downloads, several processes, SQLite, crashes, failing commits | `MCHistory`, 3 configurations | `HistoryProofs`, `ArchiveProofs` |
| `Validators` | the order of the validator set and the next proposer | through `Statistics` | `ValidatorsProofs` |
| `Scoreboard` | abstract: what those who share the counters see | `Statistics` implements it | `StatisticsProofs` |
| `Statistics` | the handlers of the web server over the counters, the program's restart | `MCStatistics`, 2 configurations | `StatisticsProofs` |
| `Display` | abstract: what the reader of the terminal sees | `Monitor` implements it | `DisplayProofs` |
| `Monitor` | `MonitorSigners` with `InitializeStats`, and `MonitorSignersWS` | `MCMonitor`, 3 configurations | `MonitorProofs`, `DisplayProofs` |

Operators whose names begin with `Bug` are never used by a specification: each is
a wrong version of a definition next to it, and `PROJECT.json` says which property
catches it.

### QuorumClient

Each goroutine has a program counter: `callPc` per RPC call, `listenPc`,
`consumerPc`. A step of the model is what the code does between two points where
another goroutine can interfere: a mutex taken or released, a channel operation,
a read or write of the connection. `connMux` names the goroutine that holds the
mutex, so `sendRPCMsg` and `subscribeChainHead` are two steps each (`...Register`
and `SendRPCWrite`, `SubscribeLock` and `SubscribeWrite`) and `dial` is
`DialLock` and `DialOK` or `DialFails`. `pending` is the map `rpcPendingResp` as
a set of entries; the result channel of capacity one is `chanMsg` and
`chanClosed`. JSON-RPC ids are numbers, with 0 for the empty string.

The connection is `nil`, `up`, `lost` (broken, not yet noticed) or `closed`.
Frames that were on their way when it broke may still be read. A frame belongs to
one connection; `dials` counts connections. `requests`, `nodeSub`, `inbox` and
`head` are the node's side. `feed` records what the consumer received and over
which connection.

The consumer follows `serveViaWS`: one subscription, then one header after
another, then `Stop`. It may stop at any header, because the browser may have gone.

Left out: frames that are not JSON (skipped by the code), the error field of
answers (returned to the caller like a result), the text of ids, the wrap of the
32-bit id counter. `Stop` mentions `c.conn` twice and without the mutex
(`quorum.go:100`); nothing stands between the two, so that compiled code loads it
once, and the test and the close are one step of the model. A load of its own for
the close would meet `nil` when the listener resets the connection in between.

`Feed` is what `serveViaWS` and `MonitorSignersWS` may rely on: headers one at a
time, with increasing numbers, a gap only across a redial, and nothing after
`Stop` has returned. `HeaderFeed` maps it to `QuorumClient`: `seen` is `feed`,
`connection` is `dials`, `ended` is a consumer that has returned from `Stop`.
Every step of the client is then a delivery, a redial, the end, or a stutter
(`ImplementsFeed`).

### History

Processes are started with one of the two commands (`Run`), walk through the
reads of the maximum and minimum, the loop, the insertions and the commits, and
end. `rows` and `signed` are the committed numbers of the two tables, `tx` and
`txSigned` the ones of an open transaction. SQLite's write lock (`writer`) is
taken by the first insertion and given up at the end of the transaction. The
header row and the rows of its signers are two steps. `Abort` is a kill, a panic
or an error at any step. `Commit` drops the error of the database: `CommitOrLose`
may lose the transaction, `lost` counts how often. `unsealed` holds the blocks
whose header has no recoverable proposer, at which `SignersFromBlock` ends the
process (`SignersMissing`): none, or the genesis block.

Initially the file holds any set in `Archives`: nothing, or a consecutive run of
blocks. A file that holds the genesis block and nothing else is excluded: the
code would take it for an empty one (`history.go:471`), and it cannot arise from
the program.

`Archive` is what a reader of the file may rely on: the stored blocks are one
consecutive run, which only grows, at one end, by at most a batch at a time; a
file without blocks stays empty. `File` maps `stored` to `rows` and `broken` to
`lost > 0`, since after a failed commit the code goes on above or below the hole
(`ImplementsArchive`). The single-process reading order of the code (start number,
then transaction) is what makes this hard: two processes may start at the same
number in either direction.

`showStats`, which both commands run instead of a download when asked for
statistics, only reads and prints and is left out. `SignerDataForBlockNumberCached` is not modelled: nothing calls it, and
`b.rt`, which it requires, is never set.

### Statistics and Validators

Each viewer is a handler of `serveViaWS`. `UpdateStatisticsForBlock` is three
steps (lock, count the proposer, count the signers and unlock), and
`SignersForHeader` reads the proposers' and the signers' counts in two steps
under the read lock, so that a missing or misplaced lock shows. `Author` and
`Sealers` give each block its proposer and its seals. A validator without an
entry in `enodes` makes the handler panic, which the `Recover` middleware catches;
the deferred `RUnlock` runs. Where it is the next proposer's entry that is missing,
the code panics just before it takes the read lock instead of under it; the model
has the panic under the lock for both, the case that could leave it locked.

A viewer is `off` once its handler has left the loop. The deferred `qc.Stop()` that
follows may hang (finding 2) and is not part of this module: it touches nothing that
handlers share, and a browser that connects again gets a handler of its own.

`Recover` cannot catch `log.Fatal`. A header whose seals do not decode
(`Unreadable`) ends the whole program in the handler that counts it, with every
other handler where it happens to be (`SignersUnreadable`); `compose.yaml` has the
container restarted, with zero counters and a validator set read again. The node
may return the set in any order (`Orders`). `started` is the newest block at that
time, since the counters are promised from the start of the program.

`Validators` translates `getValSet`: addresses are sequences of hexadecimal
digits, `Capital` says which letters the checksum capitalises, and the texts are
compared by character codes. `NextProposer` is the loop over `valSet`, which leaves
index 0 for an author that is not in the set. `NextProposerInTurn` checks the pair
against a definition that does not sort, but reads each text as a number (`Place`, in
base 22, since each of the 22 characters has a rank) and looks for the next one
(`TurnFollows`). Addresses are assumed to be of one length and to differ.

`TableConsistent` says that a table accounts for some set of updates, each of them a
viewer and a block: both columns are counts of the same set, every update in it
happened since the start, no viewer's update of a block is in it twice, and the one
of the viewer whose table it is is in it.

`Scoreboard` is what those who share the counters may rely on: a block is counted for
its proposer and all of its sealers in one step, a reader copies both columns in one
step, and a restart clears everything. `Shared` maps it to `Statistics`: `proposals`
is `asProposer` without the update that is half done, so that an update takes effect
when its second half is done, and the copy of a reader is taken when it reads the
first column (`ImplementsScoreboard`). This holds because of `countersLock`, and
fails if the lock is given up between the halves.

The feed is a constraint on what a handler may receive next (`Announced`):
increasing numbers, gaps allowed, which is what `Feed` promises and `QuorumClient`
implements. Elapsed times are in `Monitor`, whose WebSocket loop is the same.

### Monitor

`InitializeStats` and `MonitorSigners` run one after the other in one goroutine
(`caller`), and both are a loop over block numbers that calls
`UpdateStatisticsForBlock`, which waits for `countersLock`. The node may gain
blocks at any time, and the newest block it reports may be older than before, as
behind a load balancer, `MaxRewinds` times.

`MonitorSignersWS` takes headers from a feed (`ReceiveHeader`), times the first one
(`TimeFirst`) and displays the others, each a loop over one block. Getting the
first header may find nothing yet (`FirstNotFound`, the next header is then the
first), or fail, in which case `HeaderByNumber` panics (`FirstFails`).

Both display through `DisplaySignersForBlockNumber`: `latestTimestamp` is the
value that the loops carry, `shown` the block and the seconds displayed last, and
`Since` the unsigned subtraction. `Exit` stands for `log.Fatal` and panics,
`NoOperator` for the panic between counting a block and displaying it, `NoHeader`
for the one panic that is certain, a number below -1. `LatestBlock` and
`HeaderNumber` are what matters of `HeaderByNumber`: -1 asks for the newest block,
and headers are cached under their own numbers.

`Display` is what the reader of the terminal may rely on: one block after another,
each counted when it appears (but for the genesis block, which never counts) and
shown with the time since the one before; where poll
goes back it is by no more blocks than the node has gone back; monitor never goes
back. It knows no loops, polls, sleeps or newest block. `Terminal` maps it to
`Monitor`: `lags` is `rewinds`, and `timed` the block whose time `latestTimestamp` is
(`ImplementsDisplay`). Unlike `ElapsedIsBlockTime` it covers a node that goes back,
with the unsigned difference that is shown then.

## Runs

| Run | Expect | Shows |
|---|---|---|
| `client` | pass | answers reach their own call, no call is forgotten, the pending map is always usable; order and gaps of the feed, one subscription per connection, which is neither lost nor known by a wrong id, so that no header is discarded; silence after `Stop`; the client implements `Feed` |
| `client_liveness` | pass | every call returns, a confirmed subscription is renewed unless refused, headers arrive, also those that are read while the consumer is busy, what can hold up `Stop` |
| `subscription_lost`, `stop_hangs` | violation | the two findings about the client below |
| `archive_safety` | pass | no holes, tables agree, finished runs are complete, bounded loss; the downloads implement `Archive` |
| `archive_liveness` | pass | repeated runs fill the archive, up to one batch if the genesis block has no seal |
| `empty_database` | violation | an empty database is never filled |
| `viewers` | pass | each table a viewer sees is a count of whole blocks since the start and names the right next proposer, exactly the handlers in a critical section hold the lock, no handler is stuck on it while browsers may stop reading, and counting and reading are steps of `Scoreboard` |
| `double_count` | violation | each viewer counts every block again |
| `monitors` | pass | no block is missed, none counted twice without a rewind, times are those between displayed blocks, the display catches up, and the terminal is a `Display` |
| `poll_stuck` | violation | with older blocks to count the display never begins |
| `retry` | violation | a failure to get the first header ends `monitor` |

### Bounds

- `client`: two calls are the least that can be mixed up, and the symmetry of
  calls is used. Three headers let a gap and a correct neighbour fit on one
  connection, and one broken connection lets calls, subscription and feed of one
  connection meet the reset of the next. A refused subscription is included.
  `client_liveness` has one call and a refusal, two headers, so that the second is
  read while the consumer is busy with the first, and two broken connections, so that
  a renewal may be cut, too. No symmetry may be used.
- `archive_safety`: a batch of two and a chain of six blocks give runs with a
  full batch, a partial one and an empty one in either direction; two processes
  cover same and opposite directions, with faults and one commit that may fail.
  `archive_liveness` starts from one stored block, with and without a sealed
  genesis block.
- `viewers`: of two viewers one can count while the other reads. Of five blocks one
  is by a validator without an entry, and the third ends the program: two blocks
  before it give tables that would be wrong if a counter survived the restart,
  and two after it are what a viewer needs to get a table again. The addresses
  A1, E1, c3 come in another order by numbers or by small letters.
- `monitors`: with five heights poll catches up over several blocks; three rewinds
  allow one during a catch-up, one after it, and a poll of each, which two do not.
  The timestamps are squares, so that no two spans between blocks are equal, below
  a modulus that they would wrap.

Configurations with `CHECK_DEADLOCK FALSE` are the ones in which the program may
end: a client that has been stopped, a command that has exited, in each case
with the bounded node having no block left, or a monitor that waits for a header. `History` never ends, because
commands can be started again, and neither does the web server, which accepts
connections.

### Fairness

Goroutines that can run do run (weak fairness). Go's mutexes hand themselves over
to a waiter after a millisecond, and a waiting writer of an `RWMutex` stops new
readers, so acquiring a lock is strongly fair. Dialling is retried every second
without end; that it succeeds if retried for ever is assumed. A broken connection
is noticed by a read. The node answers `eth_subscribe` while it is reachable; it
need not answer anything else, nor produce blocks for a client. Nothing is assumed of
browsers: `WriteMessage` at `serve.go:176` has no deadline, so a handler may stay there
for ever. In `Statistics` it is therefore no fair step, and `HandlersGoOn` ends at the
table to be sent, or at a handler that has left its loop. In `QuorumClient` a consumer
that is busy need not come back (`ConsumerStep` is not fair): `CallReturns` and
`StopHeldUpOnlyByHandover` hold all the same, while `HeadsArrive` and `Resubscribes`,
which wait for a listener that such a consumer holds up, have the premise that it does
not stay with one header for ever (`ConsumerReturns`). In `History` the
operator starts both commands again whenever they have ended, SQLite's lock is
handed on, and the chain grows up to its bound. Faults, drops, departures of
browsers and exits are never assumed to happen.

## Findings

Each is a run that is expected to find a violation, and an entry in
`PROJECT.json` with the line that says otherwise.

1. `ws.go:177`: a connection that breaks before the subscription is confirmed is
   redialled but not subscribed again; the consumer waits for ever.
2. `quorum.go:103`: `Stop` waits for a listener that is blocked delivering to the
   goroutine in `Stop`.
3. `history.go:142`: an empty database cannot be filled, the maximum is `NULL`.
4. `redt.go:225`: each viewer of the web server counts each block again.
5. `redt.go:171`: `InitializeStats` locks `countersLock` twice; `poll` hangs with
   its default options.
6. `redt.go:263`: when the call fails, `HeaderByNumber` uses the header it did not
   get and panics, so that no caller ever sees the error: `monitor` ends on the
   first header where `redt.go:867` promises a retry.

Met on the way, without a run of their own:

- `quorum.go:47`: `Add` is called in the new goroutine, so `Stop` may return before
  the listener has begun. It then finds `done` closed and ends (`QuietAfterStop`).
- `ws.go:208`: the answer to a refused `eth_subscribe` has no result, and the empty
  id it leaves ends the renewal of the subscription (`Resubscribes` excepts it).
- `serve.go:150` has the same comment about a retry as `redt.go:867`, but the next
  line returns.
- `main.go:62`: `monitor` has an option `--blocks`, which `MonitorSignersWS` ignores.
- `redt.go:432`, `571`: where the newest block goes back, poll displays blocks again
  and the unsigned difference of times wraps (`ElapsedIsBlockTime` has the premise
  `rewinds = 0`), and it counts them again (`RecountedOnlyAfterRewind`).
- `redt.go:584`: for an author outside `valSet` the first validator is announced as
  next.
- `history.go:428`: `showStats` prints one block less than its range holds.
- `history.go:517`, `528`, `624`, `635`: errors of `Commit` are ignored, which is
  why `NoHoles` and `FinishedRunIsComplete` have the premise `lost = 0`.
- `redt.go:399`: `log.Fatal` on an unsealed header drops an open batch. With an
  unsealed genesis block the last batch of the backward download is never
  committed; `ArchiveFillsToLastBatch` says how far it gets.

## What is proved

For all values of the constants that satisfy the named assumptions.

**QuorumClient** (`QuorumClientProofs`): `TypeCorrect`, `MuxOwner`, `PendingUsable`,
`NoWaiterForgotten`, `RepliesAreCorrect`, `QuietWhenStopped`. The invariant that is
inductive, `IInv`, adds three things to the properties. `MuxHeld`: a goroutine holds
`connMux` exactly while its program counter is inside the critical section, so a
call that has registered writes on the connection it registered for, and a reset
cannot happen in between. `Counted`: the WaitGroup is zero exactly when the listener
has not begun or has ended, which makes `Stop`'s wait mean something. `CallInv`:
ids are never given out twice, and a request or frame that travels with the id of
a call comes from that call (`Honest`). Without the last one an answer could carry
another call's id, and `CorrectReply` would not be preserved by `HandleReply`.

**The feed** (`QuorumFeedProofs`): `HeadersInOrder`, `NoGapOnConnection`,
`SubscribedOnce`, `SubscriptionIsKept`, `HeadersAllDelivered`, `ClientImplementsFeed`.
On top of `IInv`, the invariant `FeedInv`
follows a header from the node to the consumer. `Asking`: at most one
`eth_subscribe` is under way on a connection, because the listener renews only an
id that was confirmed and the consumer asks only once. `Framed` and `Announcing`:
the notifications in `inbox` carry consecutive numbers up to `head`, all of them
of the one subscription, and the confirmation stands before them. `Continued`: the
header being handed over, or the first one in `inbox`, is the successor of the last
one of this connection in `feed`. `Delivered`: what has been handed over lies
behind everything that is still to come. Order, gaps and the refinement follow
from these at the one step that extends `feed`.

`SubscriptionKept` and `NothingDiscarded` are about the id that the listener compares
headers with, and need `GrantInv` besides. `Recognised`: the request and the answer
carry the call id that the listener waits for, and there is one answer at most.
`Served`: the node serves, and announces to, either the id the listener has with no
answer on the way (`Granted`), or the one in the answer on the way (`ToBeGranted`).
Since the answer stands before every notification (`Announcing`), the one that is
read next is of the first kind. `CaredFor`: on a connection that stands, a
subscription that was confirmed once is being served under that id, asked for, or in
an answer. That a response to a call is not taken for the answer, or the other way
round, follows from `CallInv`.

**History** (`HistoryProofs`): `TypeCorrect`,
`ArchiveIsContiguous`, `TablesAgree`, `CompleteWhenDone`, `LossBoundedByBatch`. The
properties talk about `rows`; the inductive invariant has to say where each
process stands. Its `Base` survives everything: only the holder of the write lock
has a transaction (`Locked`), and the tables and transactions agree (`Tables`).
Its `Core` holds as long as no commit has failed: everything between the stored
block a run started at and the number it inserts next is stored or in its
transaction (`Joined`), and the archive would have no hole after any one commit
(`Solid`). Since only one process can commit at a time, a second one finds its
next number stored already, and the primary key ends it. `lost` never shrinks
(`LostGrows`), so `Core` need only be preserved by steps that lose nothing. The
bound on the loss needs `Batches`, which ties the number of uncommitted rows to
the counter of insertions.

**The archive** (`ArchiveProofs`): `HistoryImplementsArchive`. `NoHoles` does not say
at which end a commit extends the archive. `Places` adds it: the block a run
started next to is stored, its transaction lies beyond that block in the direction
of the command, and no number in it is stored already. A commit then extends a
consecutive run from inside or from its end, and so at its end.

**Validators** (`ValidatorsProofs`): `OneOrder` and `NextProposerFollows`, for finite
sets of validators and addresses of any length. `getValSet` is a set of sequences in
the model; that it has exactly one element is what makes it a function of the
validator set, as sorting is. The texts are totally ordered, which needs the first
character in which two of them differ. For that, and for the existence of a sorted
order, `LeastNumber` gives the least element of any set of numbers, from the library's
theorem that the subsets of a finite set are well founded; it takes the place of
induction. The sorted order exists because the validator with k-1 others before it is
the k-th (`OrderExists`), and is unique because two of them would differ at a first
place (`OrderIsUnique`). `PlacesAsTexts` shows that the number a text is read as
grows with the text, by following both numbers from the first difference on.
`NextProposerFollows` puts these together: the successor in the sequence, or its first
element after the last one, is the next place in the set.

**Statistics** (`StatisticsProofs`): `TypeCorrect`, `LockIsHeldInside`,
`AnnouncedInTurn`, `TablesCountUpdates`, `StatisticsImplementScoreboard`. The lock
invariant is inductive by itself; that the announced proposer is a member of the
validator set (`NextIsMember`) is what typing needs from `Validators`.
`AnnouncedInTurn` needs that the table's proposer was computed from a sorted set
(`TurnsInv`), and then `NextProposerFollows`. `TableConsistent` speaks of tables only,
the inductive `Ledger` of the counters: there is a set of updates that the two
counters account for, but for the one that is half done, which the first column has
already and the second not yet; every handler between its update and its table has
its own in the set, and a table that is being read has the first column of what the
counters still hold, since the lock keeps them from changing. `BlocksInv` bounds the
blocks of a handler by the start of the program and by `head`, so that an update is
always a new member of the set: the handler has only counted blocks below. In the
refinement `CountSigners` is the counting, `RLock` the copying and
`SignersUnreadable` the restart; everything else leaves the scoreboard as it was.

**Monitor** (`MonitorProofs`): `TypeCorrect`, `PollMissesNoBlock`,
`CountedOncePerRewind`, `ElapsedTimeShown`. `Flow` says which function can be where
with what; in particular nothing has been counted before a display begins, because
`InitializeStats` does not get through its loop. `Gapless` adds to `NoBlockMissed`
how far poll has come in its loop. `CountsInv` is needed because a block that is
about to be counted again must have a rewind to pay for it: every block ahead of the
command, and every one above the node's newest block, has a rewind to spare, and two
if it is both. `TimesInv` says that `latestTimestamp` belongs to the last block
timed, and that this block is behind the command.

**The display** (`DisplayProofs`): `MonitorImplementsDisplay`. `TerminalInv` ties the
variables of the loops to what was displayed last: `latestTimestamp` is its time, and
in `poll` the number the loop stands at is at most one above it and less than
`rewinds` below. The reason is in the bound `shown.number <= head + rewinds`, which
no step of the node breaks, and which a poll turns into one on `latestNumber`.

Every invariant and every refinement that the runs check is a theorem. Only
model-checked are the liveness properties (fairness and leads-to are outside the
prover): `CallReturns`, `Resubscribes`, `HeadsArrive`, `StopHeldUpOnlyByHandover`,
`ArchiveFills`, `ArchiveFillsToLastBatch`, `HandlersGoOn` and `KeepsUp`.

## Not modelled

- The LRU order of the header cache: headers never change and are cached under
  their own numbers, so that a hit is the answer a call would give. The ways in
  which a call ends are modelled where they are used.
- `showStats`, `NodeInfo`, `Peers`, the index page, the log filter and the command
  line: they read and print, and change nothing.
- `SignerDataForBlockNumberCached`: nothing calls it, and it refuses.
- `types/`: record types and stateless conversions of hexadecimal strings. Of a
  header on the wire the program uses the number only.
- Cryptography: who proposed and who sealed a block is given with the block, or
  the block is one whose seals do not decode.
- The layout of terminals and tables.

## Further proofs

What is left to prove: that the headers a handler of `Statistics` and
`MonitorSignersWS` may receive are ones that `Feed` allows, so that the models of
client and consumers fit together; and that the abstract specifications by themselves
imply the invariants a reader would expect of them (order and gaps for `Feed`, a
consecutive run for `Archive`), so that each can be read without its implementation.
