------------------------- MODULE QuorumClientProofs -------------------------
(***************************************************************************)
(* Proofs about QuorumClient for any number of calls, blocks, broken       *)
(* connections and refused subscriptions.  The argument for the calls: ids *)
(* are never shared, so a request or frame that is on its way with the id  *)
(* of a call comes from that call; and only the holder of connMux registers*)
(* a channel or resets the connection, so the map's channels stay usable.  *)
(***************************************************************************)
EXTENDS QuorumClient, SequenceTheorems, TLAPS

\* connMux is held by the goroutine that is between Lock and Unlock.
MuxHeld ==
    /\ \A c \in Callers : callPc[c] = "writing" <=> connMux = c
    /\ listenPc \in {"dialing", "resubscribing"} <=> connMux = "listener"
    /\ consumerPc = "subscribing" <=> connMux = "consumer"

\* The WaitGroup counts the listener while it runs, and Stop has passed its
\* steps in order.
Counted ==
    /\ shutdownWg = IF listenPc \in {"start", "down"} THEN 0 ELSE 1
    /\ consumerPc \in {"closeConn", "waitDown", "stopped"} => shutdown
    /\ QuietAfterStop

Unsent == {"idle", "sending", "writing"}

\* No id is given out twice.
IdsDistinct ==
    /\ \A c \in Callers : callId[c] <= idCounter
    /\ \A c, d \in Callers : callId[c] = callId[d] /\ callId[c] # 0 => c = d
    /\ subCallId <= idCounter
    /\ \A c \in Callers : subCallId # 0 => callId[c] # subCallId

\* What travels under an id: m is a request or a frame.
Honest(m) ==
    /\ m.from # None => m.id = callId[m.from] /\ m.id # 0 /\ callPc[m.from] \notin Unsent
    /\ m.from = None => m.id <= idCounter /\ (m.id # 0 => \A c \in Callers : callId[c] # m.id)

Travelling ==
    /\ \A r \in requests : Honest(r)
    /\ \A i \in 1..Len(inbox) : Honest(inbox[i])

\* What is registered, and the channel of every call.
Registered ==
    /\ \A p \in pending : /\ p.id = callId[p.ch] /\ p.id # 0
                          /\ chanMsg[p.ch] = None /\ ~chanClosed[p.ch]
    /\ pending # {} => conn # "nil"
    /\ \A c \in Callers : callPc[c] \in {"idle", "sending"} =>
           callId[c] = 0 /\ chanMsg[c] = None /\ ~chanClosed[c]
    /\ \A c \in Callers : callPc[c] = "writing" =>
           [id |-> callId[c], ch |-> c] \in pending

CallInv == IdsDistinct /\ Travelling /\ Registered /\ CorrectReply /\ WaitersReleased

IInv == TypeOK /\ MuxHeld /\ Counted /\ CallInv

-----------------------------------------------------------------------------
(* Initially                                                               *)

LEMMA InitIInv == Init => IInv
<1> SUFFICES ASSUME Init PROVE IInv
    OBVIOUS
<1>1. TypeOK
    <2>1. inbox \in Seq(Frame) /\ feed \in Seq([num : Nat, dial : Nat])
        BY DEF Init
    <2>2. /\ callPc \in [Callers -> {"idle", "sending", "writing", "waiting",
                                   "answered", "failed", "timedout"}]
          /\ callId \in [Callers -> Nat]
          /\ chanMsg \in [Callers -> Callers \cup {None}] /\ chanClosed \in [Callers -> BOOLEAN]
        BY DEF Init
    <2>3. pending \subseteq Entry /\ requests \subseteq Request
        BY DEF Init
    <2>4. /\ {idCounter, subId, subCallId, head, nodeSub, drops, refusals} \subseteq Nat
          /\ {outgoing, dials, shutdownWg} \subseteq Nat
        BY DEF Init
    <2>5. shutdown \in BOOLEAN /\ listenPc = "start" /\ consumerPc = "new"
        BY DEF Init
    <2>6. conn = "up" /\ connMux = "free"
        BY DEF Init
    <2> QED BY <2>1, <2>2, <2>3, <2>4, <2>5, <2>6 DEF TypeOK
<1>2. MuxHeld
    BY CallersAssumption DEF Init, MuxHeld
<1>3. Counted
    BY DEF Init, Counted, QuietAfterStop
<1>4. CallInv
    <2>1. 1..Len(inbox) = {}
        BY DEF Init
    <2> QED BY <2>1 DEF Init, CallInv, IdsDistinct, Travelling, Registered, CorrectReply, WaitersReleased
<1> QED BY <1>1, <1>2, <1>3, <1>4 DEF IInv

LEMMA MessagesTyped ==
    ASSUME TypeOK
    PROVE  /\ \A r \in requests : r.from \in Callers \cup {None} /\ r.id \in Nat
           /\ \A i \in 1..Len(inbox) : inbox[i].from \in Callers \cup {None} /\ inbox[i].id \in Nat
<1>1. \A r \in Request : r.from \in Callers \cup {None} /\ r.id \in Nat
    BY DEF Request
<1>2. \A f \in Frame : f.from \in Callers \cup {None} /\ f.id \in Nat
    BY DEF Frame
<1>3. \A i \in 1..Len(inbox) : inbox[i] \in Frame
    BY DEF TypeOK
<1> QED BY <1>1, <1>2, <1>3 DEF TypeOK

-----------------------------------------------------------------------------
(* Steps that do not touch the calls                                       *)

\* Losing requests or the whole inbox, or gaining a connection, harms no call.
LEMMA CallsUntouched ==
    ASSUME CallInv, UNCHANGED <<callVars, pending, idCounter, subCallId>>,
           requests' \subseteq requests, inbox' \in {inbox, <<>>},
           conn' = "nil" => conn = "nil"
    PROVE  CallInv'
<1> USE DEF callVars
<1>1. IdsDistinct' /\ CorrectReply'
    BY DEF CallInv, IdsDistinct, CorrectReply
<1>2. Travelling'
    <2>1. \A m : Honest(m) => Honest(m)'
        BY DEF Honest
    <2>2. \A r \in requests' : Honest(r)'
        BY <2>1 DEF CallInv, Travelling
    <2>3. CASE inbox' = inbox
        BY <2>1, <2>2, <2>3 DEF CallInv, Travelling
    <2>4. CASE inbox' = <<>>
        BY <2>2, <2>4 DEF Travelling
    <2> QED BY <2>3, <2>4
<1>3. Registered' /\ WaitersReleased'
    BY DEF CallInv, Registered, WaitersReleased
<1> QED BY <1>1, <1>2, <1>3 DEF CallInv

-----------------------------------------------------------------------------
(* Steps of the calls, the subscription and the frames                     *)

\* A call goes on without sending: it has an answer, an error or a timeout.
LEMMA CallGoesOn ==
    ASSUME CallInv, TypeOK, NEW c \in Callers, NEW x \in {"sending", "answered", "failed", "timedout"},
           callPc' = [callPc EXCEPT ![c] = x],
           x = "sending" => callPc[c] = "idle",
           idCounter' \in Nat, idCounter <= idCounter',
           UNCHANGED <<callId, chanVars, pending, requests, inbox, conn, subCallId>>
    PROVE  CallInv'
<1> USE DEF chanVars
<1>0. /\ callPc'[c] = x
      /\ \A d \in Callers : d # c => callPc'[d] = callPc[d]
    BY DEF TypeOK
<1>1. IdsDistinct' /\ CorrectReply'
    BY DEF CallInv, IdsDistinct, CorrectReply, TypeOK
<1>2. Travelling'
    <2>1. ASSUME NEW m, m.from \in Callers \cup {None}, m.id \in Nat, Honest(m)
          PROVE  Honest(m)'
        BY <2>1, <1>0, CallersAssumption DEF Honest, Unsent, TypeOK
    <2>2. \A r \in requests : r.from \in Callers \cup {None} /\ r.id \in Nat
        BY MessagesTyped
    <2>3. \A i \in 1..Len(inbox) : inbox[i].from \in Callers \cup {None} /\ inbox[i].id \in Nat
        BY MessagesTyped
    <2> QED BY <2>1, <2>2, <2>3 DEF CallInv, Travelling
<1>3. Registered'
    BY <1>0 DEF CallInv, Registered
<1>4. WaitersReleased'
    BY <1>0 DEF CallInv, WaitersReleased
<1> QED BY <1>1, <1>2, <1>3, <1>4 DEF CallInv

\* A subscription request takes the next id and is registered nowhere.
LEMMA SubscribeTakesId ==
    ASSUME CallInv, TypeOK, idCounter' = idCounter + 1, subCallId' = idCounter + 1,
           UNCHANGED <<callVars, pending, requests, inbox, conn>>
    PROVE  CallInv'
<1> USE DEF callVars
<1>1. IdsDistinct'
    BY DEF CallInv, IdsDistinct, TypeOK
<1>2. Travelling'
    <2>1. ASSUME NEW m, m.id \in Nat, Honest(m) PROVE Honest(m)'
        BY <2>1 DEF Honest, TypeOK
    <2>2. \A r \in requests : r.id \in Nat
        BY MessagesTyped
    <2>3. \A i \in 1..Len(inbox) : inbox[i].id \in Nat
        BY MessagesTyped
    <2> QED BY <2>1, <2>2, <2>3 DEF CallInv, Travelling
<1>3. Registered' /\ WaitersReleased' /\ CorrectReply'
    BY DEF CallInv, Registered, WaitersReleased, CorrectReply
<1> QED BY <1>1, <1>2, <1>3 DEF CallInv

\* ... and is sent under that id, which no call has.
LEMMA SubscribeIsSent ==
    ASSUME CallInv, requests' \subseteq requests \cup {[id |-> subCallId, from |-> None]},
           UNCHANGED <<callVars, pending, idCounter, subCallId, inbox, conn>>
    PROVE  CallInv'
<1> USE DEF callVars
<1>1. \A m : Honest(m) => Honest(m)'
    BY DEF Honest
<1>2. Honest([id |-> subCallId, from |-> None])
    BY DEF CallInv, IdsDistinct, Honest
<1>3. Travelling'
    BY <1>1, <1>2 DEF CallInv, Travelling
<1>4. IdsDistinct' /\ Registered' /\ WaitersReleased' /\ CorrectReply'
    BY DEF CallInv, IdsDistinct, Registered, WaitersReleased, CorrectReply
<1> QED BY <1>3, <1>4 DEF CallInv

\* The node adds an honest frame.
LEMMA FrameIsSent ==
    ASSUME CallInv, TypeOK, NEW m \in Frame, Honest(m), inbox' = Append(inbox, m),
           requests' \subseteq requests,
           UNCHANGED <<callVars, pending, idCounter, subCallId, conn>>
    PROVE  CallInv'
<1> USE DEF callVars
<1>1. \A f : Honest(f) => Honest(f)'
    BY DEF Honest
<1>2. \A i \in 1..Len(inbox') : Honest(inbox'[i])
    <2>1. inbox \in Seq(Frame)
        BY DEF TypeOK
    <2>2. Len(inbox') = Len(inbox) + 1 /\ Len(inbox) \in Nat
        BY <2>1
    <2>3. \A i \in 1..Len(inbox) : inbox'[i] = inbox[i]
        BY <2>1
    <2>4. inbox'[Len(inbox) + 1] = m
        BY <2>1
    <2> QED BY <2>2, <2>3, <2>4 DEF CallInv, Travelling
<1>3. Travelling'
    BY <1>1, <1>2 DEF CallInv, Travelling
<1>4. IdsDistinct' /\ Registered' /\ WaitersReleased' /\ CorrectReply'
    BY DEF CallInv, IdsDistinct, Registered, WaitersReleased, CorrectReply
<1> QED BY <1>3, <1>4 DEF CallInv

-----------------------------------------------------------------------------
(* Every step                                                              *)

LEMMA NextIInv == IInv /\ [Next]_vars => IInv'
<1> SUFFICES ASSUME IInv, [Next]_vars PROVE IInv'
    OBVIOUS
<1> USE DEF connVars, subVars, nodeVars, callVars, chanVars, consumerVars, listenVars
<1>1. ASSUME NEW c \in Callers, rpcCall(c) PROVE IInv'
    <2> USE <1>1 DEF rpcCall
    <2>1. TypeOK'
        BY DEF IInv, TypeOK
    <2>2. MuxHeld'
        BY CallersAssumption DEF IInv, MuxHeld, TypeOK
    <2>3. Counted'
        BY DEF IInv, TypeOK, Counted, QuietAfterStop
    <2>4. CallInv'
        <3>1. /\ UNCHANGED <<callId, chanVars, pending, requests, inbox, conn, subCallId>>
              /\ idCounter \in Nat /\ idCounter' \in {idCounter, idCounter + 1}
            BY DEF IInv, TypeOK
        <3>2. PICK x \in {"sending", "answered", "failed", "timedout"} :
                 /\ callPc' = [callPc EXCEPT ![c] = x]
                 /\ x = "sending" => callPc[c] = "idle"
            OBVIOUS
        <3>3. idCounter' \in Nat /\ idCounter <= idCounter'
            BY <3>1
        <3>4. CallInv /\ TypeOK
            BY DEF IInv
        <3> QED BY ONLY <3>1, <3>2, <3>3, <3>4, CallGoesOn
    <2> QED BY <2>1, <2>2, <2>3, <2>4 DEF IInv
<1>2. ASSUME NEW c \in Callers, SendRPCNoConn(c) PROVE IInv'
    <2> USE <1>2 DEF SendRPCNoConn
    <2>1. TypeOK'
        BY DEF IInv, TypeOK
    <2>2. MuxHeld'
        BY CallersAssumption DEF IInv, MuxHeld, TypeOK
    <2>3. Counted'
        BY DEF IInv, TypeOK, Counted, QuietAfterStop
    <2>4. CallInv'
        <3>1. /\ UNCHANGED <<callId, chanVars, pending, requests, inbox, conn, subCallId>>
              /\ idCounter \in Nat /\ idCounter' \in {idCounter, idCounter + 1}
            BY DEF IInv, TypeOK
        <3>2. PICK x \in {"sending", "answered", "failed", "timedout"} :
                 /\ callPc' = [callPc EXCEPT ![c] = x]
                 /\ x = "sending" => callPc[c] = "idle"
            OBVIOUS
        <3>3. idCounter' \in Nat /\ idCounter <= idCounter'
            BY <3>1
        <3>4. CallInv /\ TypeOK
            BY DEF IInv
        <3> QED BY ONLY <3>1, <3>2, <3>3, <3>4, CallGoesOn
    <2> QED BY <2>1, <2>2, <2>3, <2>4 DEF IInv
<1>3. ASSUME NEW c \in Callers, SendRPCRegister(c) PROVE IInv'
    <2> USE <1>3 DEF SendRPCRegister, nextID, setPendingRPC
    <2>1. TypeOK'
        <3>1. [id |-> idCounter + 1, ch |-> c] \in Entry
            BY DEF IInv, TypeOK, Entry
        <3>2. pending' \subseteq Entry
            BY <3>1 DEF IInv, TypeOK
        <3> QED BY <3>2 DEF IInv, TypeOK
    <2>2. MuxHeld'
        BY CallersAssumption DEF IInv, MuxHeld, TypeOK
    <2>3. Counted'
        BY DEF IInv, TypeOK, Counted, QuietAfterStop
    <2>4. CallInv'
        <3>1. /\ callPc[c] = "sending" /\ callPc'[c] = "writing" /\ callId'[c] = idCounter + 1
              /\ \A d \in Callers : d # c => callPc'[d] = callPc[d] /\ callId'[d] = callId[d]
              /\ idCounter \in Nat /\ callId[c] = 0
            BY DEF IInv, TypeOK, CallInv, Registered
        <3>2. IdsDistinct' /\ CorrectReply'
            BY <3>1 DEF IInv, TypeOK, CallInv, IdsDistinct, CorrectReply
        <3>3. Travelling'
            <4>1. ASSUME NEW m, m.from \in Callers \cup {None}, m.id \in Nat, Honest(m)
                  PROVE  Honest(m)'
                BY <3>1, <4>1, CallersAssumption DEF Honest, Unsent
            <4>2. \A r \in requests : r.from \in Callers \cup {None} /\ r.id \in Nat
                BY MessagesTyped DEF IInv
            <4>3. \A i \in 1..Len(inbox) : inbox[i].from \in Callers \cup {None} /\ inbox[i].id \in Nat
                BY MessagesTyped DEF IInv
            <4> QED BY <4>1, <4>2, <4>3 DEF IInv, CallInv, Travelling
        <3>4. pending' = pending \cup {[id |-> idCounter + 1, ch |-> c]}
            <4>1. \A p \in pending : p.id <= idCounter
                BY DEF IInv, TypeOK, Entry, CallInv, Registered, IdsDistinct
            <4> QED BY <4>1, <3>1
        <3>5. Registered'
            <4>1. \A p \in pending : p.ch \in Callers /\ p.ch # c
                BY <3>1 DEF IInv, TypeOK, Entry, CallInv, Registered
            <4> QED BY <3>1, <3>4, <4>1 DEF IInv, CallInv, Registered
        <3>6. WaitersReleased'
            BY <3>1, <3>4 DEF IInv, CallInv, WaitersReleased
        <3> QED BY <3>2, <3>3, <3>5, <3>6 DEF CallInv
    <2> QED BY <2>1, <2>2, <2>3, <2>4 DEF IInv
<1>4. ASSUME NEW c \in Callers, SendRPCBadArgs(c) PROVE IInv'
    <2> USE <1>4 DEF SendRPCBadArgs, nextID
    <2>1. TypeOK'
        BY DEF IInv, TypeOK
    <2>2. MuxHeld'
        BY CallersAssumption DEF IInv, MuxHeld, TypeOK
    <2>3. Counted'
        BY DEF IInv, TypeOK, Counted, QuietAfterStop
    <2>4. CallInv'
        <3>1. /\ UNCHANGED <<callId, chanVars, pending, requests, inbox, conn, subCallId>>
              /\ idCounter \in Nat /\ idCounter' \in {idCounter, idCounter + 1}
            BY DEF IInv, TypeOK
        <3>2. PICK x \in {"sending", "answered", "failed", "timedout"} :
                 /\ callPc' = [callPc EXCEPT ![c] = x]
                 /\ x = "sending" => callPc[c] = "idle"
            OBVIOUS
        <3>3. idCounter' \in Nat /\ idCounter <= idCounter'
            BY <3>1
        <3>4. CallInv /\ TypeOK
            BY DEF IInv
        <3> QED BY ONLY <3>1, <3>2, <3>3, <3>4, CallGoesOn
    <2> QED BY <2>1, <2>2, <2>3, <2>4 DEF IInv
<1>5. ASSUME NEW c \in Callers, SendRPCWrite(c) PROVE IInv'
    <2> USE <1>5 DEF SendRPCWrite, WriteOK, WriteFails
    <2>1. TypeOK'
        <3>1. [id |-> callId[c], from |-> c] \in Request
            BY DEF IInv, TypeOK, Request
        <3>2. requests' \subseteq Request
            BY <3>1 DEF IInv, TypeOK
        <3> QED BY <3>2 DEF IInv, TypeOK
    <2>2. MuxHeld'
        BY CallersAssumption DEF IInv, MuxHeld, TypeOK
    <2>3. Counted'
        BY DEF IInv, TypeOK, Counted, QuietAfterStop
    <2>4. CallInv'
        <3>1. /\ callPc[c] = "writing" /\ callPc'[c] \in {"waiting", "failed"}
              /\ \A d \in Callers : d # c => callPc'[d] = callPc[d]
              /\ requests' \subseteq requests \cup {[id |-> callId[c], from |-> c]}
              /\ callPc'[c] = "failed" => requests' = requests
            BY DEF IInv, TypeOK
        <3>2. [id |-> callId[c], ch |-> c] \in pending /\ callId[c] # 0
            BY <3>1 DEF IInv, CallInv, Registered
        <3>3. IdsDistinct' /\ CorrectReply'
            BY DEF IInv, CallInv, IdsDistinct, CorrectReply
        <3>4. Travelling'
            <4>1. ASSUME NEW m, m.from \in Callers \cup {None}, Honest(m)
                  PROVE  Honest(m)'
                BY <3>1, <4>1, CallersAssumption DEF Honest, Unsent
            <4>2. Honest([id |-> callId[c], from |-> c])'
                BY <3>1, <3>2, CallersAssumption DEF Honest, Unsent
            <4>3. \A r \in requests : r.from \in Callers \cup {None}
                BY MessagesTyped DEF IInv
            <4>4. \A i \in 1..Len(inbox) : inbox[i].from \in Callers \cup {None}
                BY MessagesTyped DEF IInv
            <4> QED BY <3>1, <4>1, <4>2, <4>3, <4>4 DEF IInv, CallInv, Travelling
        <3>5. Registered'
            BY <3>1 DEF IInv, CallInv, Registered
        <3>6. WaitersReleased'
            BY <3>1, <3>2 DEF IInv, CallInv, WaitersReleased, Registered
        <3> QED BY <3>3, <3>4, <3>5, <3>6 DEF CallInv
    <2> QED BY <2>1, <2>2, <2>3, <2>4 DEF IInv
<1>6. ASSUME NEW c \in Callers, RPCReturn(c) PROVE IInv'
    <2> USE <1>6 DEF RPCReturn
    <2>1. TypeOK'
        <3>1. callPc' \in [Callers -> {"idle", "sending", "writing", "waiting",
                                       "answered", "failed", "timedout"}]
            BY DEF IInv, TypeOK
        <3> QED BY <3>1 DEF IInv, TypeOK
    <2>2. MuxHeld'
        BY CallersAssumption DEF IInv, MuxHeld, TypeOK
    <2>3. Counted'
        BY DEF IInv, TypeOK, Counted, QuietAfterStop
    <2>4. CallInv'
        <3>1. /\ UNCHANGED <<callId, chanVars, pending, requests, inbox, conn, subCallId>>
              /\ idCounter \in Nat /\ idCounter' \in {idCounter, idCounter + 1}
            BY DEF IInv, TypeOK
        <3>2. PICK x \in {"sending", "answered", "failed", "timedout"} :
                 /\ callPc' = [callPc EXCEPT ![c] = x]
                 /\ x = "sending" => callPc[c] = "idle"
            OBVIOUS
        <3>3. idCounter' \in Nat /\ idCounter <= idCounter'
            BY <3>1
        <3>4. CallInv /\ TypeOK
            BY DEF IInv
        <3> QED BY ONLY <3>1, <3>2, <3>3, <3>4, CallGoesOn
    <2> QED BY <2>1, <2>2, <2>3, <2>4 DEF IInv
<1>7. ASSUME ListenStart PROVE IInv'
    <2> USE <1>7 DEF ListenStart
    <2>1. TypeOK'
        BY SMTT(20) DEF IInv, TypeOK
    <2>2. MuxHeld'
        BY CallersAssumption DEF IInv, MuxHeld, TypeOK
    <2>3. Counted'
        BY DEF IInv, TypeOK, Counted, QuietAfterStop
    <2>4. CallInv'
        BY CallsUntouched DEF IInv
    <2> QED BY <2>1, <2>2, <2>3, <2>4 DEF IInv
<1>8. ASSUME ListenCheck PROVE IInv'
    <2> USE <1>8 DEF ListenCheck
    <2>1. TypeOK'
        <3>1. shutdown => shutdownWg = 1
            BY DEF IInv, Counted
        <3> QED BY <3>1 DEF IInv, TypeOK
    <2>2. MuxHeld'
        BY CallersAssumption DEF IInv, MuxHeld, TypeOK
    <2>3. Counted'
        BY DEF IInv, TypeOK, Counted, QuietAfterStop
    <2>4. CallInv'
        BY CallsUntouched DEF IInv
    <2> QED BY <2>1, <2>2, <2>3, <2>4 DEF IInv
<1>9. ASSUME DialLock PROVE IInv'
    <2> USE <1>9 DEF DialLock
    <2>1. TypeOK'
        BY DEF IInv, TypeOK
    <2>2. MuxHeld'
        BY CallersAssumption DEF IInv, MuxHeld, TypeOK
    <2>3. Counted'
        BY DEF IInv, TypeOK, Counted, QuietAfterStop
    <2>4. CallInv'
        BY CallsUntouched DEF IInv
    <2> QED BY <2>1, <2>2, <2>3, <2>4 DEF IInv
<1>10. ASSUME DialOK PROVE IInv'
    <2> USE <1>10 DEF DialOK, NodeForgets
    <2>1. TypeOK'
        BY SMTT(20) DEF IInv, TypeOK
    <2>2. MuxHeld'
        BY CallersAssumption DEF IInv, MuxHeld, TypeOK
    <2>3. Counted'
        BY DEF IInv, TypeOK, Counted, QuietAfterStop
    <2>4. CallInv'
        BY CallsUntouched DEF IInv
    <2> QED BY <2>1, <2>2, <2>3, <2>4 DEF IInv
<1>11. ASSUME DialFails PROVE IInv'
    <2> USE <1>11 DEF DialFails
    <2>1. TypeOK'
        BY DEF IInv, TypeOK
    <2>2. MuxHeld'
        BY CallersAssumption DEF IInv, MuxHeld, TypeOK
    <2>3. Counted'
        BY DEF IInv, TypeOK, Counted, QuietAfterStop
    <2>4. CallInv'
        BY CallsUntouched DEF IInv
    <2> QED BY <2>1, <2>2, <2>3, <2>4 DEF IInv
<1>12. ASSUME Resubscribe PROVE IInv'
    <2> USE <1>12 DEF Resubscribe, SubscribeLock, nextID
    <2>1. TypeOK'
        BY DEF IInv, TypeOK
    <2>2. MuxHeld'
        BY CallersAssumption DEF IInv, MuxHeld, TypeOK
    <2>3. Counted'
        BY DEF IInv, TypeOK, Counted, QuietAfterStop
    <2>4. CallInv'
        BY SubscribeTakesId DEF IInv
    <2> QED BY <2>1, <2>2, <2>3, <2>4 DEF IInv
<1>13. ASSUME ResubscribeWrite PROVE IInv'
    <2> USE <1>13 DEF ResubscribeWrite, SubscribeWrite, WriteOK, WriteFails
    <2>1. TypeOK'
        <3>1. [id |-> subCallId, from |-> None] \in Request
            BY DEF IInv, TypeOK, Request
        <3>2. requests' \subseteq Request
            BY <3>1 DEF IInv, TypeOK
        <3> QED BY <3>2 DEF IInv, TypeOK
    <2>2. MuxHeld'
        BY CallersAssumption DEF IInv, MuxHeld, TypeOK
    <2>3. Counted'
        BY DEF IInv, TypeOK, Counted, QuietAfterStop
    <2>4. CallInv'
        BY SubscribeIsSent DEF IInv
    <2> QED BY <2>1, <2>2, <2>3, <2>4 DEF IInv
<1>14. ASSUME ReadError PROVE IInv'
    <2> USE <1>14 DEF ReadError
    <2>1. TypeOK'
        BY DEF IInv, TypeOK
    <2>2. MuxHeld'
        BY CallersAssumption DEF IInv, MuxHeld, TypeOK
    <2>3. Counted'
        BY DEF IInv, TypeOK, Counted, QuietAfterStop
    <2>4. CallInv'
        BY CallsUntouched DEF IInv
    <2> QED BY <2>1, <2>2, <2>3, <2>4 DEF IInv
<1>15. ASSUME ReadFrame PROVE IInv'
    <2> USE <1>15 DEF ReadFrame, HandleReply, HandleSubscribed, HandleOther, IsHead, IsReply, IsSubscribed
    <2>1. TypeOK'
        <3>1. /\ inbox \in Seq(Frame) /\ inbox # <<>>
              /\ Head(inbox) \in Frame /\ Tail(inbox) \in Seq(Frame)
            BY DEF IInv, TypeOK
        <3>2. /\ Head(inbox).from \in Callers \cup {None}
              /\ Head(inbox).sub \in Nat /\ Head(inbox).num \in Nat
            BY <3>1 DEF Frame
        <3>3. CASE HandleReply(Head(inbox))
            <4>1. chanMsg' \in [Callers -> Callers \cup {None}] /\ pending' \subseteq Entry
                BY <3>2, <3>3 DEF IInv, TypeOK
            <4> QED BY <3>1, <3>3, <4>1 DEF IInv, TypeOK
        <3>4. CASE HandleSubscribed(Head(inbox))
            <4>1. {subId', subCallId'} \subseteq Nat /\ listenPc' = "check"
                BY <3>2, <3>4
            <4>2. UNCHANGED <<pending, chanMsg, outgoing>>
                BY <3>4
            <4> QED BY <3>1, <4>1, <4>2 DEF IInv, TypeOK
        <3>5. CASE HandleOther(Head(inbox))
            BY <3>1, <3>2, <3>5 DEF IInv, TypeOK
        <3> QED BY <3>3, <3>4, <3>5
    <2>2. MuxHeld'
        BY CallersAssumption DEF IInv, MuxHeld, TypeOK
    <2>3. Counted'
        BY DEF IInv, TypeOK, Counted, QuietAfterStop
    <2>4. CallInv'
        <3> DEFINE m == Head(inbox)
        <3>1. m \in Frame /\ Honest(m) /\ (m.from \in Callers \/ m.from = None) /\ m.id \in Nat
            <4>1. inbox \in Seq(Frame) /\ inbox # <<>>
                BY DEF IInv, TypeOK
            <4>2. 1 \in 1..Len(inbox) /\ Head(inbox) = inbox[1] /\ inbox[1] \in Frame
                BY <4>1
            <4> QED BY <4>2 DEF IInv, CallInv, Travelling, Frame
        <3>2. Travelling'
            <4>1. \A f : Honest(f) => Honest(f)'
                BY DEF Honest
            <4>2. \A i \in 1..Len(inbox') : i + 1 \in 1..Len(inbox) /\ inbox'[i] = inbox[i + 1]
                BY DEF IInv, TypeOK
            <4> QED BY <4>1, <4>2 DEF IInv, CallInv, Travelling
        <3>3. CASE HandleReply(m)
            <4>1. \A p \in pending : p.id = m.id => m.from = p.ch
                BY <3>1 DEF IInv, TypeOK, Entry, CallInv, Registered, IdsDistinct, Honest
            <4>2. /\ pending' \subseteq pending
                  /\ \A p \in pending \ pending' : p.id = m.id
                BY <3>3
            <4>3. \A c \in Callers : chanMsg'[c] = IF [id |-> m.id, ch |-> c] \in pending THEN c ELSE chanMsg[c]
                BY <3>3, <4>1
            <4>4. CorrectReply' /\ IdsDistinct'
                BY <4>3, <3>3 DEF IInv, CallInv, CorrectReply, IdsDistinct
            <4>5. Registered'
                <5>1. \A p \in pending' : chanMsg'[p.ch] = chanMsg[p.ch] /\ p.ch \in Callers
                    <6> SUFFICES ASSUME NEW p \in pending' PROVE chanMsg'[p.ch] = chanMsg[p.ch] /\ p.ch \in Callers
                        OBVIOUS
                    <6>1. p \in pending /\ p.id # m.id /\ p.ch \in Callers
                        BY <3>3 DEF IInv, TypeOK, Entry
                    <6>2. [id |-> m.id, ch |-> p.ch] \notin pending
                        BY <6>1 DEF IInv, CallInv, Registered
                    <6> QED BY <4>3, <6>1, <6>2
                <5>2. \A c \in Callers : callPc[c] \in {"idle", "sending"} => chanMsg'[c] = chanMsg[c]
                    BY <4>3 DEF IInv, CallInv, Registered
                <5>3. \A c \in Callers : callPc[c] = "writing" => callId[c] # m.id
                    BY <3>1, <3>3 DEF IInv, TypeOK, Entry, CallInv, Registered, IdsDistinct, Honest, Unsent
                <5>4. \A c \in Callers : callPc[c] = "writing" => [id |-> callId[c], ch |-> c] \in pending'
                    BY <5>3, <3>3 DEF IInv, CallInv, Registered
                <5> QED BY <4>2, <5>1, <5>2, <5>4 DEF IInv, CallInv, Registered
            <4>6. WaitersReleased'
                <5> SUFFICES ASSUME NEW c \in Callers, callPc[c] = "waiting",
                                    ~chanClosed[c], chanMsg[c] = None
                             PROVE  \/ chanMsg'[c] # None
                                    \/ conn # "nil" /\ [id |-> callId[c], ch |-> c] \in pending'
                    BY <4>3, CallersAssumption DEF WaitersReleased
                <5>1. conn # "nil" /\ [id |-> callId[c], ch |-> c] \in pending
                    BY DEF IInv, CallInv, WaitersReleased
                <5>2. CASE callId[c] = m.id
                    BY <4>3, <5>1, <5>2, CallersAssumption
                <5>3. CASE callId[c] # m.id
                    BY <3>3, <5>1, <5>3
                <5> QED BY <5>2, <5>3
            <4> QED BY <3>2, <4>4, <4>5, <4>6 DEF CallInv
        <3>4. CASE HandleSubscribed(m) \/ HandleOther(m)
            <4>1. UNCHANGED <<pending, chanMsg>> /\ subCallId' \in {0, subCallId}
                BY <3>4
            <4>2. Registered' /\ WaitersReleased' /\ CorrectReply'
                BY <4>1 DEF IInv, CallInv, Registered, WaitersReleased, CorrectReply
            <4>3. IdsDistinct'
                BY <4>1 DEF IInv, TypeOK, CallInv, IdsDistinct
            <4> QED BY <3>2, <4>2, <4>3 DEF CallInv
        <3> QED BY <3>3, <3>4
    <2> QED BY <2>1, <2>2, <2>3, <2>4 DEF IInv
<1>16. ASSUME resetConn PROVE IInv'
    <2> USE <1>16 DEF resetConn, NodeForgets, PendingAfterReset, ClosedByReset
    <2>1. TypeOK'
        BY DEF IInv, TypeOK
    <2>2. MuxHeld'
        BY CallersAssumption DEF IInv, MuxHeld, TypeOK
    <2>3. Counted'
        BY DEF IInv, TypeOK, Counted, QuietAfterStop
    <2>4. CallInv'
        <3>1. IdsDistinct' /\ CorrectReply'
            BY DEF IInv, CallInv, IdsDistinct, CorrectReply
        <3>2. Travelling'
            BY DEF Travelling
        <3>3. \A c \in Callers : callPc[c] # "writing"
            BY CallersAssumption DEF IInv, MuxHeld
        <3>4. \A c \in Callers : chanClosed'[c] = (chanClosed[c] \/ \E p \in pending : p.ch = c)
            OBVIOUS
        <3>5. Registered'
            BY <3>3, <3>4 DEF IInv, CallInv, Registered
        <3>6. WaitersReleased'
            <4> SUFFICES ASSUME NEW c \in Callers, callPc[c] = "waiting", chanMsg[c] = None
                         PROVE  chanClosed'[c]
                BY DEF WaitersReleased
            <4>1. CASE chanClosed[c]
                BY <3>4, <4>1
            <4>2. CASE [id |-> callId[c], ch |-> c] \in pending
                BY <3>4, <4>2
            <4> QED BY <4>1, <4>2 DEF IInv, CallInv, WaitersReleased
        <3> QED BY <3>1, <3>2, <3>5, <3>6 DEF CallInv
    <2> QED BY <2>1, <2>2, <2>3, <2>4 DEF IInv
<1>17. ASSUME SubscribeNoConn PROVE IInv'
    <2> USE <1>17 DEF SubscribeNoConn
    <2>1. TypeOK'
        BY DEF IInv, TypeOK
    <2>2. MuxHeld'
        BY CallersAssumption DEF IInv, MuxHeld, TypeOK
    <2>3. Counted'
        BY DEF IInv, TypeOK, Counted, QuietAfterStop
    <2>4. CallInv'
        BY CallsUntouched DEF IInv
    <2> QED BY <2>1, <2>2, <2>3, <2>4 DEF IInv
<1>18. ASSUME SubscribeChainHead PROVE IInv'
    <2> USE <1>18 DEF SubscribeChainHead, SubscribeLock, nextID
    <2>1. TypeOK'
        BY DEF IInv, TypeOK
    <2>2. MuxHeld'
        BY CallersAssumption DEF IInv, MuxHeld, TypeOK
    <2>3. Counted'
        BY DEF IInv, TypeOK, Counted, QuietAfterStop
    <2>4. CallInv'
        BY SubscribeTakesId DEF IInv
    <2> QED BY <2>1, <2>2, <2>3, <2>4 DEF IInv
<1>19. ASSUME SubscribeChainHeadWrite PROVE IInv'
    <2> USE <1>19 DEF SubscribeChainHeadWrite, SubscribeWrite, WriteOK, WriteFails
    <2>1. TypeOK'
        <3>1. [id |-> subCallId, from |-> None] \in Request
            BY DEF IInv, TypeOK, Request
        <3>2. requests' \subseteq Request
            BY <3>1 DEF IInv, TypeOK
        <3> QED BY <3>2 DEF IInv, TypeOK
    <2>2. MuxHeld'
        BY CallersAssumption DEF IInv, MuxHeld, TypeOK
    <2>3. Counted'
        BY DEF IInv, TypeOK, Counted, QuietAfterStop
    <2>4. CallInv'
        BY SubscribeIsSent DEF IInv
    <2> QED BY <2>1, <2>2, <2>3, <2>4 DEF IInv
<1>20. ASSUME Handover PROVE IInv'
    <2> USE <1>20 DEF Handover
    <2>1. TypeOK'
        BY DEF IInv, TypeOK
    <2>2. MuxHeld'
        BY CallersAssumption DEF IInv, MuxHeld, TypeOK
    <2>3. Counted'
        BY DEF IInv, TypeOK, Counted, QuietAfterStop
    <2>4. CallInv'
        BY CallsUntouched DEF IInv
    <2> QED BY <2>1, <2>2, <2>3, <2>4 DEF IInv
<1>21. ASSUME ConsumerStep PROVE IInv'
    <2> USE <1>21 DEF ConsumerStep
    <2>1. TypeOK'
        BY DEF IInv, TypeOK
    <2>2. MuxHeld'
        BY CallersAssumption DEF IInv, MuxHeld, TypeOK
    <2>3. Counted'
        BY DEF IInv, TypeOK, Counted, QuietAfterStop
    <2>4. CallInv'
        BY CallsUntouched DEF IInv
    <2> QED BY <2>1, <2>2, <2>3, <2>4 DEF IInv
<1>22. ASSUME StopClose PROVE IInv'
    <2> USE <1>22 DEF StopClose
    <2>1. TypeOK'
        BY DEF IInv, TypeOK
    <2>2. MuxHeld'
        BY CallersAssumption DEF IInv, MuxHeld, TypeOK
    <2>3. Counted'
        BY DEF IInv, TypeOK, Counted, QuietAfterStop
    <2>4. CallInv'
        BY CallsUntouched DEF IInv
    <2> QED BY <2>1, <2>2, <2>3, <2>4 DEF IInv
<1>23. ASSUME StopConn PROVE IInv'
    <2> USE <1>23 DEF StopConn, NodeForgets
    <2>1. TypeOK'
        BY DEF IInv, TypeOK
    <2>2. MuxHeld'
        BY CallersAssumption DEF IInv, MuxHeld, TypeOK
    <2>3. Counted'
        BY DEF IInv, TypeOK, Counted, QuietAfterStop
    <2>4. CallInv'
        BY CallsUntouched DEF IInv
    <2> QED BY <2>1, <2>2, <2>3, <2>4 DEF IInv
<1>24. ASSUME StopWait PROVE IInv'
    <2> USE <1>24 DEF StopWait
    <2>1. TypeOK'
        BY DEF IInv, TypeOK
    <2>2. MuxHeld'
        BY CallersAssumption DEF IInv, MuxHeld, TypeOK
    <2>3. Counted'
        BY DEF IInv, TypeOK, Counted, QuietAfterStop
    <2>4. CallInv'
        BY CallsUntouched DEF IInv
    <2> QED BY <2>1, <2>2, <2>3, <2>4 DEF IInv
<1>25. ASSUME NodeAnswers PROVE IInv'
    <2> USE <1>25 DEF NodeAnswers
    <2>1. TypeOK'
        <3>1. PICK r \in requests :
                 /\ requests' = requests \ {r}
                 /\ inbox' \in {Append(inbox, Response(r.id, r.from)),
                               Append(inbox, SubscribeResponse(r.id, r.id)),
                               Append(inbox, SubscribeResponse(r.id, 0))}
                 /\ nodeSub' \in {nodeSub, r.id} /\ refusals' \in {refusals, refusals + 1}
            OBVIOUS
        <3>2. r.id \in Nat /\ r.from \in Callers \cup {None}
            BY DEF IInv, TypeOK, Request
        <3>3. {Response(r.id, r.from), SubscribeResponse(r.id, r.id), SubscribeResponse(r.id, 0)} \subseteq Frame
            BY <3>2 DEF Response, SubscribeResponse, Frame
        <3>4. inbox' \in Seq(Frame)
            <4>1. PICK m \in Frame : inbox' = Append(inbox, m)
                BY <3>1, <3>3
            <4>2. inbox \in Seq(Frame)
                BY DEF IInv, TypeOK
            <4> QED BY ONLY <4>1, <4>2
        <3>5. requests' \subseteq Request /\ nodeSub' \in Nat /\ refusals' \in Nat
            BY <3>1, <3>2, SMTT(20) DEF IInv, TypeOK
        <3> QED BY <3>4, <3>5 DEF IInv, TypeOK
    <2>2. MuxHeld'
        BY CallersAssumption DEF IInv, MuxHeld, TypeOK
    <2>3. Counted'
        BY DEF IInv, TypeOK, Counted, QuietAfterStop
    <2>4. CallInv'
        <3>1. PICK r \in requests : \E m \in {Response(r.id, r.from), SubscribeResponse(r.id, r.id),
                                               SubscribeResponse(r.id, 0)} :
                 /\ inbox' = Append(inbox, m)
                 /\ m.from = r.from /\ m.id = r.id
                 /\ requests' \subseteq requests
            BY DEF Response, SubscribeResponse
        <3>2. PICK m \in {Response(r.id, r.from), SubscribeResponse(r.id, r.id), SubscribeResponse(r.id, 0)} :
                 inbox' = Append(inbox, m) /\ m.from = r.from /\ m.id = r.id
            BY <3>1
        <3>3. m \in Frame
            <4>1. r.id \in Nat /\ r.from \in Callers \cup {None}
                BY DEF IInv, TypeOK, Request
            <4> QED BY <4>1 DEF Response, SubscribeResponse, Frame
        <3>4. Honest(m)
            BY <3>2 DEF IInv, CallInv, Travelling, Honest
        <3> QED BY <3>1, <3>2, <3>3, <3>4, FrameIsSent DEF IInv
    <2> QED BY <2>1, <2>2, <2>3, <2>4 DEF IInv
<1>26. ASSUME NodeNewBlock PROVE IInv'
    <2> USE <1>26 DEF NodeNewBlock
    <2>1. TypeOK'
        <3>1. Notification(nodeSub, head + 1) \in Frame
            BY DEF IInv, TypeOK, Notification, Frame
        <3>2. inbox' \in Seq(Frame)
            BY <3>1 DEF IInv, TypeOK
        <3> QED BY <3>2 DEF IInv, TypeOK
    <2>2. MuxHeld'
        BY CallersAssumption DEF IInv, MuxHeld, TypeOK
    <2>3. Counted'
        BY DEF IInv, TypeOK, Counted, QuietAfterStop
    <2>4. CallInv'
        <3>1. CASE inbox' = inbox
            BY <3>1, CallsUntouched DEF IInv
        <3>2. CASE inbox' = Append(inbox, Notification(nodeSub, head + 1))
            <4>1. Notification(nodeSub, head + 1) \in Frame
                BY DEF IInv, TypeOK, Notification, Frame
            <4>2. Honest(Notification(nodeSub, head + 1))
                BY DEF IInv, TypeOK, Notification, Honest
            <4> QED BY <3>2, <4>1, <4>2, FrameIsSent DEF IInv
        <3> QED BY <3>1, <3>2
    <2> QED BY <2>1, <2>2, <2>3, <2>4 DEF IInv
<1>27. ASSUME ConnDrops PROVE IInv'
    <2> USE <1>27 DEF ConnDrops, NodeForgets
    <2>1. TypeOK'
        BY SMTT(20) DEF IInv, TypeOK
    <2>2. MuxHeld'
        BY CallersAssumption DEF IInv, MuxHeld, TypeOK
    <2>3. Counted'
        BY DEF IInv, TypeOK, Counted, QuietAfterStop
    <2>4. CallInv'
        BY CallsUntouched DEF IInv
    <2> QED BY <2>1, <2>2, <2>3, <2>4 DEF IInv
<1>28. CASE UNCHANGED vars
    <2>1. CallInv'
        BY <1>28, CallsUntouched DEF IInv, vars
    <2> QED BY <1>28, <2>1 DEF IInv, vars, TypeOK, MuxHeld, Counted, QuietAfterStop
<1> QED BY <1>1, <1>2, <1>3, <1>4, <1>5, <1>6, <1>7, <1>8, <1>9, <1>10, <1>11, <1>12, <1>13, <1>14, <1>15, <1>16, <1>17, <1>18, <1>19, <1>20, <1>21, <1>22, <1>23, <1>24, <1>25, <1>26, <1>27, <1>28 DEF Next, Caller, Listener, Consumer, Environment

-----------------------------------------------------------------------------
(* The theorems                                                            *)

LEMMA AlwaysIInv == Spec => []IInv
<1> QED BY InitIInv, NextIInv, PTL DEF Spec

\* Every variable keeps its type; in particular shutdownWg never goes below
\* zero, where Go's WaitGroup panics.
THEOREM TypeCorrect == Spec => []TypeOK
<1>1. IInv => TypeOK
    BY DEF IInv
<1> QED BY <1>1, AlwaysIInv, PTL

\* connMux is held by exactly the goroutine that is dialling, subscribing or
\* writing a request: two of them are never at it together.
THEOREM MuxOwner == Spec => []MuxHeld
<1>1. IInv => MuxHeld
    BY DEF IInv
<1> QED BY <1>1, AlwaysIInv, PTL

\* No call ever gets the answer to another call, however many of them time out,
\* fail or are cut off by a reset.
THEOREM RepliesAreCorrect == Spec => []CorrectReply
<1>1. IInv => CorrectReply
    BY DEF IInv, CallInv
<1> QED BY <1>1, AlwaysIInv, PTL

\* A waiting call is answered, released, or still registered on a connection
\* that has not been reset.
THEOREM NoWaiterForgotten == Spec => []WaitersReleased
<1>1. IInv => WaitersReleased
    BY DEF IInv, CallInv
<1> QED BY <1>1, AlwaysIInv, PTL

\* Sending to or closing a channel of rpcPendingResp neither blocks nor panics.
THEOREM PendingUsable == Spec => []PendingChannelsLive
<1>1. IInv => PendingChannelsLive
    <2> SUFFICES ASSUME IInv, NEW p \in pending
                 PROVE  /\ chanMsg[p.ch] = None /\ ~chanClosed[p.ch]
                        /\ \A q \in pending : q.ch = p.ch \/ q.id = p.id => p = q
        BY DEF PendingChannelsLive
    <2>1. chanMsg[p.ch] = None /\ ~chanClosed[p.ch]
        BY DEF IInv, CallInv, Registered
    <2>2. ASSUME NEW q \in pending, q.ch = p.ch \/ q.id = p.id PROVE p = q
        <3>1. p.id = q.id /\ p.ch = q.ch
            BY <2>2 DEF IInv, TypeOK, Entry, CallInv, Registered, IdsDistinct
        <3>2. p \in Entry /\ q \in Entry
            BY DEF IInv, TypeOK
        <3> QED BY <3>1, <3>2 DEF Entry
    <2> QED BY <2>1, <2>2
<1> QED BY <1>1, AlwaysIInv, PTL

\* After Stop has returned the listener does nothing but find that it has to end.
THEOREM QuietWhenStopped == Spec => []QuietAfterStop
<1>1. IInv => QuietAfterStop
    BY DEF IInv, Counted
<1> QED BY <1>1, AlwaysIInv, PTL

=============================================================================
