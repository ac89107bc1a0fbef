---------------------------- MODULE QuorumClient ----------------------------
(***************************************************************************)
(* The WebSocket JSON-RPC client of client/ws.go and client/quorum.go: one *)
(* connection to a Quorum node shared by                                   *)
(*   - the listener goroutine, which reads every frame, redials after an   *)
(*     error and subscribes again;                                         *)
(*   - goroutines that make RPC calls and wait for the answer or a timeout;*)
(*   - the consumer of chain heads (serveViaWS or MonitorSignersWS), which *)
(*     receives headers from an unbuffered channel and may call Stop.      *)
(* The node, the network and the consumer's use of the API are the         *)
(* environment.  Strings are identifiers: id 0 stands for "".              *)
(***************************************************************************)
EXTENDS Integers, Sequences

CONSTANTS
    Callers,      \* goroutines that make one RPC call each
    None,         \* no caller
    MaxHead,      \* bound: blocks the node produces
    MaxDrops,     \* bound: connections the network or the node breaks
    MaxRefusals   \* bound: eth_subscribe requests the node refuses

ASSUME CallersAssumption ==
    /\ None \notin Callers
    /\ Callers \cap {"free", "listener", "consumer"} = {}
ASSUME BoundsAssumption == {MaxHead, MaxDrops, MaxRefusals} \subseteq Nat

VARIABLES
    conn,       \* c.conn: "nil", or the state of the connection it points to
    connMux,    \* the goroutine that holds c.connMux, or "free"
    idCounter,  \* c.idCounter
    subId,      \* c.chainHeadSubscriptionId
    subCallId,  \* c.chainHeadSubscriptionCallId
    pending     \* c.rpcPendingResp, as the set of its (id, channel) entries

VARIABLES
    head,       \* number of the node's newest block
    requests,   \* requests the node has received and not answered
    inbox,      \* frames sent by the node on this connection, not yet read
    nodeSub,    \* the subscription the node serves on this connection
    drops, refusals  \* how often the environment used its bounds

VARIABLES
    listenPc,   \* where the listener goroutine is
    outgoing,   \* the header it is handing over
    dials,      \* connections made so far: the generation of the current one
    callPc, callId,          \* per call: where it is, and its JSON-RPC id
    chanMsg, chanClosed,     \* per call: its resultChan, of capacity one
    consumerPc, feed,        \* the consumer, and the headers it has received
    shutdown, shutdownWg     \* shutdownChan is closed; the WaitGroup counter

connVars == <<conn, dials, requests, inbox, nodeSub>>
subVars == <<subId, subCallId>>
nodeVars == <<head, drops, refusals>>
callVars == <<callPc, callId, chanMsg, chanClosed>>
chanVars == <<chanMsg, chanClosed>>
consumerVars == <<consumerPc, feed, shutdown>>
listenVars == <<listenPc, outgoing, shutdownWg>>
vars == <<conn, dials, requests, inbox, nodeSub, connMux, idCounter, subId,
          subCallId, pending, head, drops, refusals, callPc, callId, chanMsg,
          chanClosed, consumerPc, feed, shutdown, listenPc, outgoing, shutdownWg>>

Request == [id : Nat, from : Callers \cup {None}]
Frame == [id : Nat, from : Callers \cup {None}, sub : Nat, num : Nat]
Entry == [id : Nat, ch : Callers]

Response(id, from) == [id |-> id, from |-> from, sub |-> 0, num |-> 0]
SubscribeResponse(id, sub) == [id |-> id, from |-> None, sub |-> sub, num |-> 0]
Notification(sub, num) == [id |-> 0, from |-> None, sub |-> sub, num |-> num]

TypeOK ==
    /\ conn \in {"nil", "up", "lost", "closed"}
    /\ connMux \in Callers \cup {"free", "listener", "consumer"}
    /\ {idCounter, subId, subCallId, head, nodeSub, drops, refusals} \subseteq Nat
    /\ {outgoing, dials, shutdownWg} \subseteq Nat
    /\ pending \subseteq Entry
    /\ requests \subseteq Request
    /\ inbox \in Seq(Frame)
    /\ listenPc \in {"start", "check", "dial", "dialing", "resubscribe",
                     "resubscribing", "read", "deliver", "reset", "down"}
    /\ callPc \in [Callers -> {"idle", "sending", "writing", "waiting",
                               "answered", "failed", "timedout"}]
    /\ callId \in [Callers -> Nat]
    /\ chanMsg \in [Callers -> Callers \cup {None}]
    /\ chanClosed \in [Callers -> BOOLEAN]
    /\ consumerPc \in {"new", "subscribing", "receiving", "busy",
                       "stop", "closeConn", "waitDown", "stopped"}
    /\ feed \in Seq([num : Nat, dial : Nat])
    /\ shutdown \in BOOLEAN

\* newWebSocketClient has dialled; NewQuorumClient has launched the goroutine.
Init ==
    /\ conn = "up" /\ dials = 1 /\ connMux = "free"
    /\ idCounter = 0 /\ subId = 0 /\ subCallId = 0 /\ pending = {}
    /\ head = 0 /\ drops = 0 /\ refusals = 0
    /\ requests = {} /\ inbox = <<>> /\ nodeSub = 0
    /\ listenPc = "start" /\ outgoing = 0 /\ shutdownWg = 0
    /\ callPc = [c \in Callers |-> "idle"]
    /\ callId = [c \in Callers |-> 0]
    /\ chanMsg = [c \in Callers |-> None]
    /\ chanClosed = [c \in Callers |-> FALSE]
    /\ consumerPc = "new" /\ feed = <<>> /\ shutdown = FALSE

-----------------------------------------------------------------------------
(* Helpers of webSocketClient                                              *)

BugSameID == 1
nextID == idCounter + 1

setPendingRPC(id, c) ==
    {p \in pending : p.id # id} \cup {[id |-> id, ch |-> c]}

\* WriteJSON reaches the node only while the connection stands.  On one that
\* broke unnoticed the bytes may still be buffered; on a closed one it fails.
WriteOK(r) ==
    /\ conn \in {"up", "lost"}
    /\ requests' = IF conn = "up" THEN requests \cup {r} ELSE requests
WriteFails == conn \in {"lost", "closed"} /\ UNCHANGED requests

\* The node forgets a connection that is gone.
NodeForgets == requests' = {} /\ nodeSub' = 0

-----------------------------------------------------------------------------
(* RPC calls: rpcCall and sendRPCMsg                                       *)

rpcCall(c) ==
    /\ callPc[c] = "idle"
    /\ callPc' = [callPc EXCEPT ![c] = "sending"]
    /\ UNCHANGED <<connVars, connMux, idCounter, subVars, pending, nodeVars,
                   callId, chanVars, consumerVars, listenVars>>

SendRPCNoConn(c) ==
    /\ callPc[c] = "sending" /\ connMux = "free" /\ conn = "nil"
    /\ callPc' = [callPc EXCEPT ![c] = "failed"]
    /\ UNCHANGED <<connVars, connMux, idCounter, subVars, pending, nodeVars,
                   callId, chanVars, consumerVars, listenVars>>

SendRPCRegister(c) ==
    /\ callPc[c] = "sending" /\ connMux = "free" /\ conn # "nil"
    /\ connMux' = c
    /\ idCounter' = nextID
    /\ callId' = [callId EXCEPT ![c] = nextID]
    /\ pending' = setPendingRPC(nextID, c)
    /\ callPc' = [callPc EXCEPT ![c] = "writing"]
    /\ UNCHANGED <<connVars, subVars, nodeVars, chanVars, consumerVars, listenVars>>

\* json.Marshal(args) failed: an id is spent, nothing is registered.
SendRPCBadArgs(c) ==
    /\ callPc[c] = "sending" /\ connMux = "free" /\ conn # "nil"
    /\ idCounter' = nextID
    /\ callPc' = [callPc EXCEPT ![c] = "failed"]
    /\ UNCHANGED <<connVars, connMux, subVars, pending, nodeVars, callId,
                   chanVars, consumerVars, listenVars>>

\* A failed write returns at once; the entry stays in the map.
SendRPCWrite(c) ==
    /\ callPc[c] = "writing"
    /\ connMux' = "free"
    /\ \/ /\ WriteOK([id |-> callId[c], from |-> c])
          /\ callPc' = [callPc EXCEPT ![c] = "waiting"]
       \/ /\ WriteFails
          /\ callPc' = [callPc EXCEPT ![c] = "failed"]
    /\ UNCHANGED <<conn, dials, inbox, nodeSub, idCounter, subVars, pending,
                   nodeVars, callId, chanVars, consumerVars, listenVars>>

\* The select of rpcCall: an answer, a closed channel (nil), or the ticker.
RPCReturn(c) ==
    /\ callPc[c] = "waiting"
    /\ \/ /\ chanMsg[c] # None
          /\ callPc' = [callPc EXCEPT ![c] = "answered"]
       \/ /\ chanMsg[c] = None /\ chanClosed[c]
          /\ callPc' = [callPc EXCEPT ![c] = "failed"]
       \/ callPc' = [callPc EXCEPT ![c] = "timedout"]
    /\ UNCHANGED <<connVars, connMux, idCounter, subVars, pending, nodeVars,
                   callId, chanVars, consumerVars, listenVars>>

-----------------------------------------------------------------------------
(* The listener goroutine: NewQuorumClient's go func and listen            *)

BugNoAdd ==
    /\ listenPc = "start"
    /\ listenPc' = "check"
    /\ UNCHANGED <<connVars, connMux, idCounter, subVars, pending, nodeVars,
                   callVars, consumerVars, outgoing, shutdownWg>>
\* The goroutine adds itself to the WaitGroup, it is not added by its creator.
ListenStart ==
    /\ listenPc = "start"
    /\ shutdownWg' = shutdownWg + 1
    /\ listenPc' = "check"
    /\ UNCHANGED <<connVars, connMux, idCounter, subVars, pending, nodeVars,
                   callVars, consumerVars, outgoing>>

BugNoDone ==
    /\ listenPc = "check"
    /\ listenPc' = IF shutdown THEN "down" ELSE IF conn = "nil" THEN "dial" ELSE "read"
    /\ UNCHANGED <<connVars, connMux, idCounter, subVars, pending, nodeVars,
                   callVars, consumerVars, outgoing, shutdownWg>>
\* The top of the loop.  Returning from listen is followed by shutdownWg.Done.
ListenCheck ==
    /\ listenPc = "check"
    /\ \/ /\ shutdown
          /\ listenPc' = "down"
          /\ shutdownWg' = shutdownWg - 1
       \/ /\ ~shutdown
          /\ listenPc' = IF conn = "nil" THEN "dial" ELSE "read"
          /\ UNCHANGED shutdownWg
    /\ UNCHANGED <<connVars, connMux, idCounter, subVars, pending, nodeVars,
                   callVars, consumerVars, outgoing>>

DialLock ==
    /\ listenPc = "dial" /\ connMux = "free"
    /\ connMux' = "listener"
    /\ listenPc' = "dialing"
    /\ UNCHANGED <<connVars, idCounter, subVars, pending, nodeVars, callVars,
                   consumerVars, outgoing, shutdownWg>>

\* listen subscribes again only where a subscription was confirmed before.
BugAlwaysResubscribes == TRUE
BugNeverResubscribes == FALSE
MustResubscribe == subId # 0

DialOK ==
    /\ listenPc = "dialing"
    /\ conn' = "up" /\ dials' = dials + 1
    /\ inbox' = <<>> /\ NodeForgets
    /\ connMux' = "free"
    /\ listenPc' = IF MustResubscribe THEN "resubscribe" ELSE "read"
    /\ UNCHANGED <<idCounter, subVars, pending, nodeVars, callVars,
                   consumerVars, outgoing, shutdownWg>>

\* Dialling failed: c.conn stays nil, and the loop starts again in a second.
DialFails ==
    /\ listenPc = "dialing"
    /\ connMux' = "free"
    /\ listenPc' = "check"
    /\ UNCHANGED <<connVars, idCounter, subVars, pending, nodeVars, callVars,
                   consumerVars, outgoing, shutdownWg>>

\* The two halves of subscribeChainHead, for any goroutine that calls it.
SubscribeLock(who) ==
    /\ connMux = "free" /\ conn # "nil"
    /\ connMux' = who
    /\ idCounter' = nextID
    /\ subCallId' = nextID
BugKeepsLock(ok) ==
    /\ IF ok THEN connMux' = "free" ELSE UNCHANGED connMux
    /\ IF ok THEN WriteOK([id |-> subCallId, from |-> None]) ELSE WriteFails
SubscribeWrite(ok) ==
    /\ connMux' = "free"
    /\ IF ok THEN WriteOK([id |-> subCallId, from |-> None]) ELSE WriteFails

Resubscribe ==
    /\ listenPc = "resubscribe"
    /\ SubscribeLock("listener")
    /\ listenPc' = "resubscribing"
    /\ UNCHANGED <<connVars, subId, pending, nodeVars, callVars,
                   consumerVars, outgoing, shutdownWg>>

ResubscribeWrite ==
    /\ listenPc = "resubscribing"
    /\ \E ok \in BOOLEAN :
          /\ SubscribeWrite(ok)
          /\ listenPc' = IF ok THEN "read" ELSE "reset"
    /\ UNCHANGED <<conn, dials, inbox, nodeSub, idCounter, subVars, pending,
                   nodeVars, callVars, consumerVars, outgoing, shutdownWg>>

ReadError ==
    /\ listenPc = "read" /\ conn \in {"lost", "closed"}
    /\ listenPc' = "reset"
    /\ UNCHANGED <<connVars, connMux, idCounter, subVars, pending, nodeVars,
                   callVars, consumerVars, outgoing, shutdownWg>>

IsReply(m) == \E p \in pending : p.id = m.id
IsSubscribed(m) == ~IsReply(m) /\ subCallId # 0 /\ m.id = subCallId

\* getPendingRPC deletes the entry; its channel is sent the message.
HandleReply(m) ==
    /\ IsReply(m)
    /\ pending' = {p \in pending : p.id # m.id}
    /\ chanMsg' = [c \in Callers |->
                      IF [id |-> m.id, ch |-> c] \in pending THEN m.from ELSE chanMsg[c]]
    /\ listenPc' = "check"
    /\ UNCHANGED <<subVars, outgoing>>

\* A refused subscription has no result: the id becomes "" again.
BugForgetsSubscription(m) ==
    /\ IsSubscribed(m)
    /\ subCallId' = 0
    /\ listenPc' = "check"
    /\ UNCHANGED <<subId, pending, chanMsg, outgoing>>
HandleSubscribed(m) ==
    /\ IsSubscribed(m)
    /\ subCallId' = 0 /\ subId' = m.sub
    /\ listenPc' = "check"
    /\ UNCHANGED <<pending, chanMsg, outgoing>>

\* Only a notification of the current subscription is handed over.
BugDropsWhenBusy(m) ==
    m.id = 0 /\ subId # 0 /\ m.sub = subId /\ consumerPc = "receiving"
IsHead(m) == m.id = 0 /\ subId # 0 /\ m.sub = subId
HandleOther(m) ==
    /\ ~IsReply(m) /\ ~IsSubscribed(m)
    /\ IF IsHead(m) THEN listenPc' = "deliver" /\ outgoing' = m.num
                    ELSE listenPc' = "check" /\ UNCHANGED outgoing
    /\ UNCHANGED <<pending, chanMsg, subVars>>

\* ReadMessage returned a frame.
ReadFrame ==
    /\ listenPc = "read" /\ conn # "nil" /\ inbox # <<>>
    /\ inbox' = Tail(inbox)
    /\ LET m == Head(inbox) IN HandleReply(m) \/ HandleSubscribed(m) \/ HandleOther(m)
    /\ UNCHANGED <<conn, dials, requests, nodeSub, connMux, idCounter, nodeVars,
                   callPc, callId, chanClosed, consumerVars, shutdownWg>>

\* Every entry left in the map has its channel closed, and the map is emptied.
BugLeavesWaiters(c) == FALSE
ClosedByReset(c) == \E p \in pending : p.ch = c
BugKeepsEntries == pending
PendingAfterReset == {}

resetConn ==
    /\ listenPc = "reset" /\ connMux = "free"
    /\ conn' = "nil" /\ inbox' = <<>> /\ NodeForgets
    /\ chanClosed' = [c \in Callers |-> chanClosed[c] \/ ClosedByReset(c)]
    /\ pending' = PendingAfterReset
    /\ listenPc' = "check"
    /\ UNCHANGED <<dials, connMux, idCounter, subVars, nodeVars, callPc, callId,
                   chanMsg, consumerVars, outgoing, shutdownWg>>

-----------------------------------------------------------------------------
(* The consumer of chain heads: serveViaWS over SubscribeChainHead and Stop *)

SubscribeNoConn ==
    /\ consumerPc = "new" /\ connMux = "free" /\ conn = "nil"
    /\ consumerPc' = "stop"
    /\ UNCHANGED <<connVars, connMux, idCounter, subVars, pending, nodeVars,
                   callVars, feed, shutdown, listenVars>>

SubscribeChainHead ==
    /\ consumerPc = "new"
    /\ SubscribeLock("consumer")
    /\ consumerPc' = "subscribing"
    /\ UNCHANGED <<connVars, subId, pending, nodeVars, callVars, feed, shutdown,
                   listenVars>>

SubscribeChainHeadWrite ==
    /\ consumerPc = "subscribing"
    /\ \E ok \in BOOLEAN :
          /\ SubscribeWrite(ok)
          /\ consumerPc' = IF ok THEN "receiving" ELSE "stop"
    /\ UNCHANGED <<conn, dials, inbox, nodeSub, idCounter, subVars, pending,
                   nodeVars, callVars, feed, shutdown, listenVars>>

\* chainHeadChan is unbuffered: sender and receiver move together.
BugDeliversTwice ==
    /\ listenPc = "deliver" /\ consumerPc = "receiving"
    /\ consumerPc' = "busy"
    /\ feed' = Append(feed, [num |-> outgoing, dial |-> dials])
    /\ UNCHANGED <<connVars, connMux, idCounter, subVars, pending, nodeVars,
                   callVars, shutdown, listenVars>>
Handover ==
    /\ listenPc = "deliver" /\ consumerPc = "receiving"
    /\ listenPc' = "check" /\ consumerPc' = "busy"
    /\ feed' = Append(feed, [num |-> outgoing, dial |-> dials])
    /\ UNCHANGED <<connVars, connMux, idCounter, subVars, pending, nodeVars,
                   callVars, shutdown, outgoing, shutdownWg>>

\* The header is processed and sent on to the browser, or the handler returns.
ConsumerStep ==
    /\ consumerPc = "busy"
    /\ consumerPc' \in {"receiving", "stop"}
    /\ UNCHANGED <<connVars, connMux, idCounter, subVars, pending, nodeVars,
                   callVars, feed, shutdown, listenVars>>

StopClose ==
    /\ consumerPc = "stop"
    /\ shutdown' = TRUE
    /\ consumerPc' = "closeConn"
    /\ UNCHANGED <<connVars, connMux, idCounter, subVars, pending, nodeVars,
                   callVars, feed, listenVars>>

\* Reads c.conn without its mutex and closes what it points to.  Nothing separates
\* the two mentions of c.conn, so that the compiled code loads it once.
StopConn ==
    /\ consumerPc = "closeConn"
    /\ IF conn = "nil" THEN UNCHANGED <<conn, requests, nodeSub>>
                       ELSE conn' = "closed" /\ NodeForgets
    /\ consumerPc' = "waitDown"
    /\ UNCHANGED <<dials, inbox, connMux, idCounter, subVars, pending, nodeVars,
                   callVars, feed, shutdown, listenVars>>

BugDoesNotWait ==
    /\ consumerPc = "waitDown"
    /\ consumerPc' = "stopped"
    /\ UNCHANGED <<connVars, connMux, idCounter, subVars, pending, nodeVars,
                   callVars, feed, shutdown, listenVars>>
StopWait ==
    /\ consumerPc = "waitDown" /\ shutdownWg = 0
    /\ consumerPc' = "stopped"
    /\ UNCHANGED <<connVars, connMux, idCounter, subVars, pending, nodeVars,
                   callVars, feed, shutdown, listenVars>>

-----------------------------------------------------------------------------
(* The environment: the Quorum node and the network                        *)

NodeAnswers ==
    /\ conn = "up"
    /\ \E r \in requests :
          /\ requests' = requests \ {r}
          /\ \/ /\ r.from # None
                /\ inbox' = Append(inbox, Response(r.id, r.from))
                /\ UNCHANGED <<nodeSub, refusals>>
             \/ /\ r.from = None
                /\ inbox' = Append(inbox, SubscribeResponse(r.id, r.id))
                /\ nodeSub' = r.id
                /\ UNCHANGED refusals
             \/ /\ r.from = None /\ refusals < MaxRefusals
                /\ inbox' = Append(inbox, SubscribeResponse(r.id, 0))
                /\ refusals' = refusals + 1
                /\ UNCHANGED nodeSub
    /\ UNCHANGED <<conn, dials, connMux, idCounter, subVars, pending, head, drops,
                   callVars, consumerVars, listenVars>>

NodeNewBlock ==
    /\ head < MaxHead
    /\ head' = head + 1
    /\ inbox' = IF conn = "up" /\ nodeSub # 0
                THEN Append(inbox, Notification(nodeSub, head'))
                ELSE inbox
    /\ UNCHANGED <<conn, dials, requests, nodeSub, connMux, idCounter, subVars,
                   pending, drops, refusals, callVars, consumerVars, listenVars>>

ConnDrops ==
    /\ conn = "up" /\ drops < MaxDrops
    /\ conn' = "lost" /\ drops' = drops + 1
    /\ NodeForgets
    /\ UNCHANGED <<dials, inbox, connMux, idCounter, subVars, pending, head,
                   refusals, callVars, consumerVars, listenVars>>

-----------------------------------------------------------------------------
Caller(c) ==
    \/ rpcCall(c) \/ SendRPCNoConn(c) \/ SendRPCRegister(c)
    \/ SendRPCBadArgs(c) \/ SendRPCWrite(c) \/ RPCReturn(c)

Listener ==
    \/ ListenStart \/ ListenCheck \/ DialLock \/ DialOK \/ DialFails
    \/ Resubscribe \/ ResubscribeWrite \/ ReadError \/ ReadFrame \/ resetConn

Consumer ==
    \/ SubscribeNoConn \/ SubscribeChainHead \/ SubscribeChainHeadWrite
    \/ Handover \/ ConsumerStep \/ StopClose \/ StopConn \/ StopWait

Environment == NodeAnswers \/ NodeNewBlock \/ ConnDrops

Next == (\E c \in Callers : Caller(c)) \/ Listener \/ Consumer \/ Environment

Spec == Init /\ [][Next]_vars

(***************************************************************************)
(* Goroutines are scheduled fairly, Go's mutexes do not starve a waiter,   *)
(* a dial that is retried for ever succeeds in the end, a broken           *)
(* connection is noticed by a read, and a node that is reachable answers   *)
(* eth_subscribe.  Nothing is assumed of new blocks, of the answers to RPC *)
(* calls or of the moments at which the connection breaks, nor that the    *)
(* consumer gets through with a header: it fetches the full one from the   *)
(* node, and then writes to a browser without a deadline (serve.go:176).   *)
(***************************************************************************)
NodeSubscribes == NodeAnswers /\ \E r \in requests \ requests' : r.from = None

Fairness ==
    /\ \A c \in Callers : /\ SF_vars(SendRPCNoConn(c) \/ SendRPCRegister(c) \/ SendRPCBadArgs(c))
                          /\ WF_vars(SendRPCWrite(c) \/ RPCReturn(c))
    /\ WF_vars(Listener) /\ SF_vars(DialLock \/ Resubscribe \/ resetConn) /\ SF_vars(DialOK)
    /\ WF_vars(Consumer /\ consumerPc # "busy")
    /\ SF_vars(SubscribeNoConn \/ SubscribeChainHead)
    /\ WF_vars(NodeSubscribes)

FairSpec == Spec /\ Fairness

-----------------------------------------------------------------------------
(* Properties                                                              *)

\* Every channel in rpcPendingResp is open, empty and there once: sending a
\* response (ws.go:204) cannot block the listener or hit a closed channel, and
\* resetConn (ws.go:263) never closes a channel twice.
PendingChannelsLive ==
    \A p \in pending :
        /\ chanMsg[p.ch] = None /\ ~chanClosed[p.ch]
        /\ \A q \in pending : q.ch = p.ch \/ q.id = p.id => p = q

\* A call that waits has its answer, or has been released by resetConn, or is
\* still registered under its id on a connection that has not been reset: no
\* reset, reconnection or response to another call leaves it to the timeout.
WaitersReleased ==
    \A c \in Callers : callPc[c] = "waiting" =>
        \/ chanMsg[c] # None
        \/ chanClosed[c]
        \/ conn # "nil" /\ [id |-> callId[c], ch |-> c] \in pending

\* Calls in flight together, timed out or cut by a reset never get each
\* other's answer: what arrives on a resultChan answers that very call.
CorrectReply == \A c \in Callers : chanMsg[c] \in {None, c}

\* The consumer sees block numbers in strictly increasing order: no header is
\* handed over twice or late, across any number of reconnections.
FeedInOrder ==
    \A i, j \in DOMAIN feed : i < j => feed[i].num < feed[j].num

\* While one connection lasts no header is skipped, however slow the consumer
\* is: a gap in the feed is always the trace of a reconnection.
GapOnlyAtReconnect ==
    \A i \in DOMAIN feed :
        i + 1 \in DOMAIN feed /\ feed[i].dial = feed[i + 1].dial =>
            feed[i + 1].num = feed[i].num + 1

\* The consumer's subscription and the listener's renewal of it never race into
\* two subscriptions on one connection, which would double every header.
OneSubscription ==
    LET asked == {r \in requests : r.from = None}
    IN  /\ \A r, s \in asked : r = s
        /\ nodeSub # 0 => asked = {}

\* On a connection that stands, a client that was subscribed before is subscribed
\* under the id it compares with, or is about to be: the listener is asking, or the
\* request or its answer is on the way under the call id that will be recognised.
SubscriptionKept ==
    conn = "up" /\ subId # 0 =>
        \/ nodeSub = subId
        \/ listenPc \in {"resubscribe", "resubscribing"}
        \/ /\ subCallId # 0
           /\ \E m \in requests \cup {inbox[k] : k \in DOMAIN inbox} :
                  m.from = None /\ m.id = subCallId

\* Every header the listener reads is handed over next, also the first ones after a
\* renewal: none arrives before the subscription id it is compared with.
NothingDiscarded ==
    [][ReadFrame /\ Head(inbox).num # 0 =>
          listenPc' = "deliver" /\ outgoing' = Head(inbox).num]_vars

\* Once Stop has returned the listener does not read, dial, subscribe or
\* deliver any more; it may still be about to find shutdownChan closed.
QuietAfterStop ==
    consumerPc = "stopped" => listenPc \in {"start", "check", "down"}

\* The client implements the feed its consumer relies on: one header at a time,
\* in order, complete on each connection, and no activity after Stop has returned.
HeaderFeed == INSTANCE Feed WITH
    Numbers <- 1..MaxHead, seen <- feed, connection <- dials,
    ended <- (consumerPc = "stopped")
ImplementsFeed == HeaderFeed!Spec

\* The consumer does not stay with one header for ever.
ConsumerReturns == []<>(consumerPc # "busy")

Stopping == consumerPc \in {"stop", "closeConn", "waitDown", "stopped"}

\* Every RPC call comes back, also when it has to wait for connMux while the
\* listener dials or subscribes again (ws.go:120), and also when a consumer that
\* stays with its header keeps the listener from reading the answer.
CallReturns ==
    \A c \in Callers : (callPc[c] = "sending") ~>
                          (callPc[c] \in {"answered", "failed", "timedout"})

\* A subscription that was confirmed once survives every later disconnection:
\* the client ends up subscribed again on a live connection (ws.go:177).  Only
\* the node's refusal, which stores the empty id (ws.go:208), ends it.  A consumer
\* that stays with its header for ever would keep the listener from redialling.
Resubscribes == ConsumerReturns => (subId # 0) ~> (nodeSub # 0 \/ Stopping \/ refusals > 0)

\* A header the node has sent reaches a consumer that returns for it, also one
\* that is busy when the header is read, unless the connection breaks before that
\* or the consumer stops.
Notified(n) == conn = "up" /\ \E i \in DOMAIN inbox : inbox[i].num = n
HeadsArrive ==
    ConsumerReturns => \A n \in 1..MaxHead :
        Notified(n) ~> (\/ \E i \in DOMAIN feed : feed[i].num = n
                        \/ conn # "up" \/ Stopping)

\* Stop returns unless the listener is blocked handing over a header nobody
\* will take, or reads from a connection it dialled during the shutdown: there
\* is no third way for the goroutines to wait for each other.
StopHeldUpOnlyByHandover ==
    (consumerPc = "waitDown") ~>
        (\/ consumerPc = "stopped"
         \/ listenPc = "deliver"
         \/ listenPc = "read" /\ conn = "up")

-----------------------------------------------------------------------------
(* What comments of the code say and the code does not do                  *)

\* serve.go:125 "Subscribe to receive notifications when new blocks are added":
\* a consumer that has subscribed ends up with a live subscription.
SubscriptionEstablished ==
    (consumerPc = "receiving") ~> (nodeSub # 0 \/ feed # <<>> \/ Stopping)

\* quorum.go:18 "To check we have actually shut down before returning", and the
\* log line "Quorum client stopped" (quorum.go:104): Stop does return.
StopReturns == (consumerPc = "stop") ~> (consumerPc = "stopped")

=============================================================================
