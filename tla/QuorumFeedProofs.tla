-------------------------- MODULE QuorumFeedProofs --------------------------
(***************************************************************************)
(* Proofs about the feed of QuorumClient: headers arrive in order, one is  *)
(* skipped only at a reconnection, there is one subscription per           *)
(* connection, and so the client implements Feed.  The argument: whoever   *)
(* is about to subscribe does so on a connection over which nothing about  *)
(* subscriptions has been said; hence one answer comes before all          *)
(* notifications, these are consecutive, and once one has been handed over *)
(* all later ones carry the id the listener compares with.                 *)
(***************************************************************************)
EXTENDS QuorumClientProofs

Frames == 1..Len(inbox)
IsNote(i) == inbox[i].num # 0
Asked == {r \in requests : r.from = None}

\* Nothing about subscriptions has been said on this connection.
Silent ==
    /\ Asked = {} /\ nodeSub = 0
    /\ \A i \in Frames : inbox[i].from # None

\* A header has been read on this connection, the newest with this number.
Started == listenPc = "deliver" \/ (feed # <<>> /\ feed[Len(feed)].dial = dials)
Newest == IF listenPc = "deliver" THEN outgoing ELSE feed[Len(feed)].num

Asking ==
    /\ consumerPc \in {"new", "subscribing"} =>
           Silent /\ subId = 0 /\ listenPc \notin {"resubscribe", "resubscribing"}
    /\ listenPc \in {"resubscribe", "resubscribing"} => Silent /\ ~Started
    /\ consumerPc = "subscribing" \/ listenPc = "resubscribing" => subCallId # 0
    /\ \A r \in Asked : r.id # 0
    /\ nodeSub # 0 => conn = "up"
    /\ OneSubscription

\* Notifications have no id and a subscription, answers have an id.
Framed ==
    \A i \in Frames :
        /\ IsNote(i) => inbox[i].id = 0 /\ inbox[i].sub # 0 /\ inbox[i].from = None
        /\ ~IsNote(i) => inbox[i].id # 0

\* The notifications not yet read: in order, without gaps, of one subscription,
\* and after the answer that granted it.
Announcing ==
    /\ \A i \in Frames : inbox[i].num <= head
    /\ \A i, j \in Frames : i < j /\ IsNote(i) /\ IsNote(j) => inbox[i].num < inbox[j].num
    /\ \A i \in Frames : IsNote(i) =>
        /\ Asked = {} /\ nodeSub \in {0, inbox[i].sub}
        /\ \A j \in Frames : IsNote(j) => inbox[j].sub = inbox[i].sub
        /\ \A j \in Frames : j > i => IsNote(j) \/ inbox[j].from # None
        /\ nodeSub # 0 => \E j \in Frames : inbox[j].num = head
        /\ \/ \A j \in 1..(i - 1) : ~IsNote(j)
           \/ \E j \in 1..(i - 1) : IsNote(j) /\ inbox[j].num = inbox[i].num - 1

\* From then on what comes is the rest of the same subscription.
Continued == Started =>
    /\ Asked = {} /\ subId # 0 /\ nodeSub \in {0, subId}
    /\ \A i \in Frames : IF IsNote(i) THEN inbox[i].sub = subId /\ inbox[i].num > Newest
                                      ELSE inbox[i].from # None
    /\ \A i \in Frames : IsNote(i) =>
        \/ inbox[i].num = Newest + 1
        \/ \E j \in 1..(i - 1) : IsNote(j) /\ inbox[j].num = inbox[i].num - 1
    /\ nodeSub # 0 => head = Newest \/ \E i \in Frames : inbox[i].num = head

\* What has been handed over, and what is about to be.
Delivered ==
    /\ head <= MaxHead
    /\ \A k \in DOMAIN feed : feed[k].num <= head /\ feed[k].dial <= dials
    /\ \A k \in DOMAIN feed : \A i \in Frames : IsNote(i) => feed[k].num < inbox[i].num
    /\ listenPc = "deliver" =>
        /\ outgoing \in 1..head
        /\ \A k \in DOMAIN feed : feed[k].num < outgoing
        /\ feed # <<>> /\ feed[Len(feed)].dial = dials => outgoing = feed[Len(feed)].num + 1
    /\ FeedInOrder /\ GapOnlyAtReconnect

FeedInv == Asking /\ Framed /\ Announcing /\ Continued /\ Delivered

-----------------------------------------------------------------------------
LEMMA FramesTyped ==
    ASSUME TypeOK
    PROVE  /\ Len(inbox) \in Nat /\ head \in Nat
           /\ \A i \in Frames : /\ inbox[i].num \in Nat /\ inbox[i].id \in Nat /\ inbox[i].sub \in Nat
                                /\ inbox[i].from \in Callers \cup {None}
           /\ Len(feed) \in Nat /\ DOMAIN feed = 1..Len(feed)
           /\ \A k \in DOMAIN feed : feed[k].num \in Nat /\ feed[k].dial \in Nat
           /\ feed # <<>> => Len(feed) \in DOMAIN feed
<1>1. \A f \in Frame : /\ f.num \in Nat /\ f.id \in Nat /\ f.sub \in Nat
                       /\ f.from \in Callers \cup {None}
    BY DEF Frame
<1>2. \A i \in Frames : inbox[i] \in Frame
    BY DEF TypeOK, Frames
<1>3. /\ Len(feed) \in Nat /\ DOMAIN feed = 1..Len(feed)
      /\ \A k \in 1..Len(feed) : feed[k].num \in Nat /\ feed[k].dial \in Nat
    <2>1. feed \in Seq([num : Nat, dial : Nat])
        BY DEF TypeOK
    <2>2. Len(feed) \in Nat /\ DOMAIN feed = 1..Len(feed)
        BY <2>1, LenProperties
    <2>3. \A k \in 1..Len(feed) : feed[k] \in [num : Nat, dial : Nat]
        BY <2>1, ElementOfSeq
    <2> QED BY <2>2, <2>3
<1>4. Len(inbox) \in Nat /\ head \in Nat
    BY DEF TypeOK
<1>5. feed # <<>> => Len(feed) \in 1..Len(feed)
    <2>1. feed \in Seq([num : Nat, dial : Nat])
        BY DEF TypeOK
    <2> QED BY <2>1, EmptySeq
<1> QED BY <1>1, <1>2, <1>3, <1>4, <1>5

LEMMA InitFeedInv == Init => FeedInv
<1> SUFFICES ASSUME Init PROVE FeedInv
    OBVIOUS
<1>1. Frames = {} /\ DOMAIN feed = {} /\ feed = <<>> /\ Asked = {} /\ requests = {}
    BY DEF Init, Frames, Asked
<1>2. Asking
    BY <1>1 DEF Init, Asking, Silent, OneSubscription, Asked
<1>3. Framed /\ Announcing
    BY <1>1 DEF Framed, Announcing
<1>4. Continued
    BY <1>1 DEF Init, Continued, Started
<1>5. Delivered
    BY <1>1, BoundsAssumption DEF Init, Delivered, FeedInOrder, GapOnlyAtReconnect
<1> QED BY <1>2, <1>3, <1>4, <1>5 DEF FeedInv

-----------------------------------------------------------------------------
(* What the steps do to the feed                                           *)

Renewing == {"resubscribe", "resubscribing"}
Beginning == {"new", "subscribing"}

\* A step that reads and sends no frame, hands nothing over and does not ask.
LEMMA FeedUntouched ==
    ASSUME FeedInv, UNCHANGED <<inbox, feed, dials, head, outgoing, subId>>,
           Asked' \subseteq Asked, nodeSub' = 0 \/ UNCHANGED <<nodeSub, conn>>,
           listenPc' = "deliver" <=> listenPc = "deliver",
           listenPc' \in Renewing => listenPc \in Renewing,
           consumerPc' \in Beginning => consumerPc \in Beginning,
           consumerPc' = "subscribing" \/ listenPc' = "resubscribing" => subCallId' # 0
    PROVE  FeedInv'
<1>1. /\ Asked = {} => Asked' = {}
      /\ nodeSub' # 0 => nodeSub' = nodeSub
      /\ \A i : IsNote(i)' = IsNote(i)
      /\ Frames' = Frames
    BY DEF IsNote, Frames
<1>2. Asking'
    <2>1. (Silent => Silent') /\ Started' = Started
        BY <1>1 DEF Silent, Started
    <2>2. OneSubscription'
        BY <1>1 DEF FeedInv, Asking, OneSubscription, Asked
    <2> QED BY <2>1, <2>2 DEF FeedInv, Asking, Renewing, Beginning
<1>3. Framed'
    BY <1>1 DEF FeedInv, Framed
<1>4. Announcing'
    BY <1>1 DEF FeedInv, Announcing
<1>5. Continued'
    <2>1. Started' = Started /\ Newest' = Newest
        BY DEF Started, Newest
    <2> QED BY <1>1, <2>1 DEF FeedInv, Continued
<1>6. Delivered'
    BY <1>1 DEF FeedInv, Delivered, FeedInOrder, GapOnlyAtReconnect
<1> QED BY <1>2, <1>3, <1>4, <1>5, <1>6 DEF FeedInv

\* eth_subscribe is sent where nothing has been said.
LEMMA FeedAsked ==
    ASSUME FeedInv, UNCHANGED <<inbox, feed, dials, head, outgoing, subId, subCallId, nodeSub, conn>>,
           consumerPc = "subscribing" \/ listenPc = "resubscribing",
           requests' \subseteq requests \cup {[id |-> subCallId, from |-> None]},
           listenPc # "deliver", listenPc' # "deliver",
           listenPc' \notin Renewing, consumerPc' \notin Beginning
    PROVE  FeedInv'
<1>1. Silent /\ subCallId # 0 /\ Asked' \subseteq {[id |-> subCallId, from |-> None]}
    BY DEF FeedInv, Asking, Asked, Silent
<1>2. Asking'
    <2>1. \A r, s \in Asked' : r = s /\ r.id # 0
        BY <1>1
    <2>2. nodeSub' = 0
        BY <1>1 DEF Silent
    <2>3. OneSubscription'
        BY <2>1, <2>2 DEF OneSubscription, Asked
    <2> QED BY <2>1, <2>2, <2>3 DEF Asking, Renewing, Beginning
<1>3. /\ \A i \in Frames : ~IsNote(i)
      /\ \A i : IsNote(i)' = IsNote(i)
      /\ Frames' = Frames
    BY <1>1 DEF FeedInv, Framed, Silent, IsNote, Frames
<1>4. Framed' /\ Announcing'
    BY <1>3 DEF FeedInv, Framed, Announcing
<1>5. Continued'
    <2>1. ~Started' /\ ~Started
        BY <1>1 DEF FeedInv, Asking, Continued, Started
    <2> QED BY <2>1 DEF Continued
<1>6. Delivered'
    BY <1>3 DEF FeedInv, Delivered, FeedInOrder, GapOnlyAtReconnect
<1> QED BY <1>2, <1>4, <1>5, <1>6 DEF FeedInv

\* The connection goes: frames, requests and the node's subscription with it.
LEMMA FeedCut ==
    ASSUME FeedInv, TypeOK, UNCHANGED <<feed, head, outgoing, subId, subCallId, consumerPc>>,
           inbox' = <<>>, requests' = {}, nodeSub' = 0,
           dials' \in {dials, dials + 1},
           listenPc # "deliver", listenPc' # "deliver",
           listenPc' \in Renewing =>
               listenPc' = "resubscribe" /\ subId # 0 /\ dials' = dials + 1,
           consumerPc = "subscribing" => listenPc' \notin Renewing
    PROVE  FeedInv'
<1>1. Frames' = {} /\ Asked' = {}
    BY DEF Frames, Asked
<1>2. /\ dials' >= dials /\ dials \in Nat
      /\ \A k \in DOMAIN feed : feed[k].dial <= dials
    BY DEF FeedInv, Delivered, TypeOK
<1>3. (dials' = dials + 1 => ~Started') /\ (Started' => Started)
    <2>1. feed # <<>> => Len(feed) \in DOMAIN feed /\ feed[Len(feed)].dial \in Nat
        BY FramesTyped
    <2> QED BY <1>2, <2>1 DEF Started
<1>4. Asking'
    BY <1>1, <1>3 DEF FeedInv, Asking, Silent, Renewing, OneSubscription, Asked
<1>5. Framed' /\ Announcing'
    BY <1>1 DEF Framed, Announcing
<1>6. Continued'
    BY <1>1, <1>3 DEF FeedInv, Continued
<1>7. Delivered'
    <2>1. \A k \in DOMAIN feed' : feed'[k].num <= head' /\ feed'[k].dial <= dials'
        BY <1>2, FramesTyped DEF FeedInv, Delivered
    <2> QED BY <1>1, <2>1 DEF FeedInv, Delivered, FeedInOrder, GapOnlyAtReconnect
<1> QED BY <1>4, <1>5, <1>6, <1>7 DEF FeedInv

\* The node's answer to eth_subscribe or to a call.
LEMMA FeedAnswered ==
    ASSUME FeedInv, IInv, NodeAnswers PROVE FeedInv'
<1>0. PICK L \in Nat : L = Len(inbox)
    BY FramesTyped DEF IInv
<1>1. PICK r \in requests : \E m \in Frame :
         /\ requests' = requests \ {r} /\ inbox' = Append(inbox, m)
         /\ m.id = r.id /\ m.from = r.from /\ m.num = 0
         /\ r.from # None => nodeSub' = nodeSub
         /\ r.from = None => nodeSub' \in {nodeSub, r.id}
    <2>1. PICK r \in requests :
             /\ requests' = requests \ {r}
             /\ \E m \in {Response(r.id, r.from), SubscribeResponse(r.id, r.id), SubscribeResponse(r.id, 0)} :
                    inbox' = Append(inbox, m) /\ m.id = r.id /\ m.from = r.from /\ m.num = 0
             /\ r.from # None => nodeSub' = nodeSub
             /\ r.from = None => nodeSub' \in {nodeSub, r.id}
        BY DEF NodeAnswers, Response, SubscribeResponse
    <2>2. r.id \in Nat /\ r.from \in Callers \cup {None}
        BY DEF IInv, TypeOK, Request
    <2>3. {Response(r.id, r.from), SubscribeResponse(r.id, r.id), SubscribeResponse(r.id, 0)} \subseteq Frame
        BY <2>2 DEF Response, SubscribeResponse, Frame
    <2> QED BY <2>1, <2>3
<1>2. PICK m \in Frame : inbox' = Append(inbox, m) /\ m.id = r.id /\ m.from = r.from /\ m.num = 0
    BY <1>1
<1>3. /\ Frames = 1..L /\ Frames' = 1..(L + 1)
      /\ \A i \in Frames : inbox'[i] = inbox[i]
      /\ inbox'[L + 1] = m
    BY <1>0, <1>2, AppendProperties DEF IInv, TypeOK, Frames
<1>4. /\ UNCHANGED <<feed, dials, head, outgoing, subId, subCallId, listenPc, consumerPc>>
      /\ conn = "up" /\ conn' = conn
    BY DEF NodeAnswers, callVars, consumerVars, listenVars, subVars
<1>5. /\ \A i \in Frames' : i \in Frames \/ i = L + 1
      /\ \A i \in Frames : /\ i \in Frames' /\ i < L + 1 /\ i \in Int
                            /\ 1..(i - 1) \subseteq Frames
      /\ L + 1 \in Frames'
    BY <1>3
<1>6. m.num = 0 /\ m.id = r.id /\ m.from = r.from
    BY <1>2
<1>7. r.id # 0
    BY DEF FeedInv, Asking, Asked, IInv, CallInv, Travelling, Honest
<1>8. Framed'
    BY ONLY FeedInv, <1>3, <1>5, <1>6, <1>7 DEF FeedInv, Framed, IsNote
<1>9. CASE r.from # None
    <2>1. Asked' = Asked /\ nodeSub' = nodeSub
        BY <1>1, <1>9 DEF Asked
    <2>2. Asking'
        <3>1. Silent => Silent'
            BY <2>1, <1>3, <1>5, <1>6, <1>9 DEF Silent
        <3>2. Started' = Started
            BY <1>4 DEF Started
        <3> QED BY <2>1, <1>4, <3>1, <3>2 DEF FeedInv, Asking, OneSubscription, Asked
    <2>3. Announcing'
        <3>1. \A i \in Frames' : inbox'[i].num # 0 => i \in Frames
            BY <1>3, <1>5, <1>6
        <3>2. \A i \in Frames' : inbox'[i].num <= head
            BY <1>3, <1>5, <1>6, FramesTyped DEF IInv, FeedInv, Announcing
        <3>3. \A i \in Frames : inbox'[i].num # 0 =>
                  /\ Asked = {} /\ nodeSub \in {0, inbox'[i].sub}
                  /\ \A j \in Frames : inbox'[j].num # 0 => inbox'[j].sub = inbox'[i].sub
                  /\ \A j \in Frames : j > i => inbox'[j].num # 0 \/ inbox'[j].from # None
                  /\ nodeSub # 0 => \E j \in Frames : inbox'[j].num = head
            BY <1>3 DEF FeedInv, Announcing, IsNote
        <3>4. \A i \in Frames : inbox'[i].num # 0 =>
                  \/ \A j \in 1..(i - 1) : inbox'[j].num = 0
                  \/ \E j \in 1..(i - 1) : inbox'[j].num # 0 /\ inbox'[j].num = inbox'[i].num - 1
            BY <1>3, <1>5 DEF FeedInv, Announcing, IsNote
        <3>5. \A i, j \in Frames : i < j /\ inbox'[i].num # 0 /\ inbox'[j].num # 0
                                    => inbox'[i].num < inbox'[j].num
            BY <1>3 DEF FeedInv, Announcing, IsNote
        <3> QED BY <3>1, <3>2, <3>3, <3>4, <3>5, <2>1, <1>3, <1>4, <1>5, <1>6, <1>9 DEF Announcing, IsNote
    <2>4. Continued'
        <3>1. Started' = Started /\ Newest' = Newest
            BY <1>4 DEF Started, Newest
        <3>2. Started => /\ \A i \in Frames' : IF inbox'[i].num # 0
                             THEN inbox'[i].sub = subId /\ inbox'[i].num > Newest
                             ELSE inbox'[i].from # None
                         /\ \A i \in Frames' : inbox'[i].num # 0 =>
                             \/ inbox'[i].num = Newest + 1
                             \/ \E j \in 1..(i - 1) : inbox'[j].num # 0 /\ inbox'[j].num = inbox'[i].num - 1
            BY <1>3, <1>5, <1>6, <1>9 DEF FeedInv, Continued, IsNote
        <3>3. Started /\ nodeSub # 0 => head = Newest \/ \E i \in Frames' : inbox'[i].num = head
            BY <1>3, <1>5 DEF FeedInv, Continued
        <3> QED BY <3>1, <3>2, <3>3, <2>1, <1>4 DEF FeedInv, Continued, IsNote
    <2>5. Delivered'
        BY <1>3, <1>4, <1>5, <1>6 DEF FeedInv, Delivered, FeedInOrder, GapOnlyAtReconnect, IsNote
    <2> QED BY <1>8, <2>2, <2>3, <2>4, <2>5 DEF FeedInv
<1>10. CASE r.from = None
    <2>1. Asked = {r} /\ Asked' = {}
        BY <1>1, <1>10 DEF FeedInv, Asking, OneSubscription, Asked
    <2>2. ~Silent /\ ~Started /\ \A i \in Frames : ~IsNote(i)
        BY <2>1 DEF Silent, FeedInv, Continued, Announcing
    <2>3. Asking'
        BY <1>4, <2>1, <2>2 DEF FeedInv, Asking, OneSubscription, Asked
    <2>4. \A i \in Frames' : inbox'[i].num = 0
        BY <1>3, <1>5, <1>6, <2>2 DEF IsNote
    <2>5. Announcing'
        BY <2>4, <1>4, FramesTyped DEF Announcing, IInv, IsNote
    <2>6. Continued'
        BY <1>4, <2>2 DEF Continued, Started
    <2>7. Delivered'
        BY <1>4, <2>4 DEF FeedInv, Delivered, FeedInOrder, GapOnlyAtReconnect, IsNote
    <2> QED BY <1>8, <2>3, <2>5, <2>6, <2>7 DEF FeedInv
<1> QED BY <1>9, <1>10

\* A new block, announced to the subscription if there is one.
LEMMA FeedAnnounced ==
    ASSUME FeedInv, IInv, NodeNewBlock PROVE FeedInv'
<1>0. PICK L \in Nat : L = Len(inbox)
    BY FramesTyped DEF IInv
<1>1. /\ UNCHANGED <<feed, dials, outgoing, subId, subCallId, listenPc, consumerPc, conn, nodeSub, requests>>
      /\ head \in Nat /\ head' = head + 1 /\ head' <= MaxHead /\ MaxHead \in Nat
    BY BoundsAssumption DEF NodeNewBlock, callVars, consumerVars, listenVars, subVars, IInv, TypeOK
<1>2. Asked' = Asked /\ Started' = Started /\ Newest' = Newest
    BY <1>1 DEF Asked, Started, Newest
<1>3. CASE nodeSub = 0
    <2>1. inbox' = inbox /\ Frames' = Frames
        BY <1>3 DEF NodeNewBlock, Frames
    <2>2. Asking'
        BY <1>1, <1>2, <2>1 DEF FeedInv, Asking, Silent, OneSubscription, Asked
    <2>3. Framed'
        BY <2>1 DEF FeedInv, Framed, IsNote
    <2>4. \A i \in Frames : inbox[i].num \in Nat
        BY FramesTyped DEF IInv
    <2>5. Announcing'
        BY <1>1, <1>2, <1>3, <2>1, <2>4 DEF FeedInv, Announcing, IsNote
    <2>6. Continued'
        BY <1>1, <1>2, <1>3, <2>1 DEF FeedInv, Continued, IsNote
    <2>7. Delivered'
        <3>1. \A k \in DOMAIN feed : feed[k].num \in Nat
            BY FramesTyped DEF IInv
        <3> QED BY <1>1, <2>1, <3>1 DEF FeedInv, Delivered, FeedInOrder, GapOnlyAtReconnect, IsNote
    <2> QED BY <2>2, <2>3, <2>5, <2>6, <2>7 DEF FeedInv
<1>4. CASE nodeSub # 0
    <2> DEFINE m == Notification(nodeSub, head + 1)
    <2>1. inbox' = Append(inbox, m) /\ m \in Frame
        BY <1>1, <1>4 DEF FeedInv, Asking, NodeNewBlock, Notification, Frame, IInv, TypeOK
    <2>2. /\ Frames = 1..L /\ Frames' = 1..(L + 1)
          /\ \A i \in Frames : inbox'[i] = inbox[i]
          /\ inbox'[L + 1] = m
        BY <1>0, <2>1, AppendProperties DEF IInv, TypeOK, Frames
    <2>3. /\ \A i \in Frames' : i \in Frames \/ i = L + 1
          /\ \A i \in Frames : /\ i \in Frames' /\ i < L + 1 /\ i \in Int
                                /\ 1..(i - 1) \subseteq Frames
          /\ L + 1 \in Frames' /\ 1..((L + 1) - 1) = Frames
        BY <2>2
    <2>4. m.num = head + 1 /\ m.id = 0 /\ m.sub = nodeSub /\ m.from = None
        BY DEF Notification
    <2>5. Asked = {} /\ ~Silent
        BY <1>4 DEF FeedInv, Asking, OneSubscription, Asked, Silent
    <2>6. Asking'
        BY <1>1, <1>2, <2>5 DEF FeedInv, Asking, OneSubscription, Asked
    <2>7. Framed'
        BY <1>1, <1>4, <2>2, <2>3, <2>4 DEF FeedInv, Framed, IsNote
    <2>8. \A i \in Frames : inbox[i].num \in Nat /\ inbox[i].num <= head
        BY FramesTyped DEF IInv, FeedInv, Announcing
    <2> HIDE DEF m
    <2>9. Announcing'
        <3>1. \A i \in Frames' : inbox'[i].num <= head'
            BY <1>1, <2>2, <2>3, <2>4, <2>8
        <3>2. \A i, j \in Frames' : i < j /\ inbox'[i].num # 0 /\ inbox'[j].num # 0
                                    => inbox'[i].num < inbox'[j].num
            <4>1. \A i, j \in Frames : i < j /\ inbox'[i].num # 0 /\ inbox'[j].num # 0
                                       => inbox'[i].num < inbox'[j].num
                BY <2>2 DEF FeedInv, Announcing, IsNote
            <4>2. \A i \in Frames : inbox'[i].num < inbox'[L + 1].num
                BY <1>1, <2>2, <2>4, <2>8
            <4>3. \A j \in Frames' : ~(L + 1 < j)
                BY <2>2
            <4> QED BY <2>3, <4>1, <4>2, <4>3
        <3>3. \A i \in Frames : inbox[i].num # 0 => inbox[i].sub = nodeSub
            BY <1>4 DEF FeedInv, Announcing, IsNote
        <3>4. \A i \in Frames' : inbox'[i].num # 0 => inbox'[i].sub = nodeSub
            BY <2>2, <2>3, <2>4, <3>3
        <3>5. \A i \in Frames' : inbox'[i].num # 0 =>
                \A j \in Frames' : j > i => inbox'[j].num # 0 \/ inbox'[j].from # None
            <4>1. \A i \in Frames : inbox'[i].num # 0 =>
                \A j \in Frames : j > i => inbox'[j].num # 0 \/ inbox'[j].from # None
                BY <2>2 DEF FeedInv, Announcing, IsNote
            <4>2. inbox'[L + 1].num # 0
                BY <1>1, <2>2, <2>4
            <4>3. \A j \in Frames' : ~(j > L + 1)
                BY <2>2
            <4> QED BY <2>3, <4>1, <4>2, <4>3
        <3>6. \A i \in Frames' : inbox'[i].num # 0 =>
                  \/ \A j \in 1..(i - 1) : inbox'[j].num = 0
                  \/ \E j \in 1..(i - 1) : inbox'[j].num # 0 /\ inbox'[j].num = inbox'[i].num - 1
            <4>1. \A i \in Frames : inbox'[i].num # 0 =>
                  \/ \A j \in 1..(i - 1) : inbox'[j].num = 0
                  \/ \E j \in 1..(i - 1) : inbox'[j].num # 0 /\ inbox'[j].num = inbox'[i].num - 1
                BY <2>2, <2>3 DEF FeedInv, Announcing, IsNote
            <4>2. \/ \A j \in Frames : inbox'[j].num = 0
                  \/ \E j \in Frames : inbox'[j].num # 0 /\ inbox'[j].num = (head + 1) - 1
                BY <1>1, <1>4, <2>2, <2>8 DEF FeedInv, Announcing, IsNote
            <4> QED BY <2>2, <2>3, <2>4, <4>1, <4>2
        <3>7. \E j \in Frames' : inbox'[j].num = head'
            BY <1>1, <2>2, <2>3, <2>4
        <3> QED BY <3>1, <3>2, <3>4, <3>5, <3>6, <3>7, <1>1, <1>2, <2>5 DEF Announcing, IsNote
    <2>10. Continued'
        <3> SUFFICES ASSUME Started' PROVE Continued'
            BY DEF Continued
        <3>1. /\ subId # 0 /\ nodeSub = subId /\ Newest <= head
              /\ \A i \in Frames : IF inbox[i].num # 0 THEN inbox[i].sub = subId /\ inbox[i].num > Newest
                                                       ELSE inbox[i].from # None
              /\ \A i \in Frames : inbox[i].num # 0 =>
                    \/ inbox[i].num = Newest + 1
                    \/ \E j \in 1..(i - 1) : inbox[j].num # 0 /\ inbox[j].num = inbox[i].num - 1
              /\ head = Newest \/ \E i \in Frames : inbox[i].num = head
            BY <1>2, <1>4, FramesTyped DEF FeedInv, Continued, IsNote, Delivered, Started, Newest, IInv
        <3>2. Newest \in Nat
            BY <1>2, FramesTyped DEF Started, Newest, IInv, TypeOK
        <3>3. \A i \in Frames' : IF inbox'[i].num # 0 THEN inbox'[i].sub = subId /\ inbox'[i].num > Newest
                                                      ELSE inbox'[i].from # None
            BY <1>1, <2>2, <2>3, <2>4, <3>1, <3>2
        <3>4. \A i \in Frames : inbox'[i].num # 0 =>
                    \/ inbox'[i].num = Newest + 1
                    \/ \E j \in 1..(i - 1) : inbox'[j].num # 0 /\ inbox'[j].num = inbox'[i].num - 1
            BY <2>2, <2>3, <3>1
        <3>5. \/ head + 1 = Newest + 1
              \/ \E j \in 1..((L + 1) - 1) : inbox'[j].num # 0 /\ inbox'[j].num = (head + 1) - 1
            BY <1>1, <2>2, <2>3, <3>1, <3>2
        <3>6. \E i \in Frames' : inbox'[i].num = head'
            BY <1>1, <2>2, <2>3, <2>4
        <3> QED BY <3>1, <3>3, <3>4, <3>5, <3>6, <1>1, <1>2, <2>2, <2>3, <2>4, <2>5 DEF Continued, IsNote
    <2>11. Delivered'
        <3>1. \A k \in DOMAIN feed : feed[k].num \in Nat /\ feed[k].num < head + 1
            BY FramesTyped, <1>1 DEF IInv, FeedInv, Delivered
        <3> QED BY <3>1, <1>1, <2>2, <2>3, <2>4 DEF FeedInv, Delivered, FeedInOrder, GapOnlyAtReconnect, IsNote
    <2> QED BY <2>6, <2>7, <2>9, <2>10, <2>11 DEF FeedInv
<1> QED BY <1>3, <1>4

\* The listener takes a header to hand it over: the consumer receives it.
LEMMA FeedHanded ==
    ASSUME FeedInv, IInv, Handover PROVE FeedInv'
<1>1. /\ UNCHANGED <<inbox, requests, nodeSub, dials, head, outgoing, subId, subCallId, conn>>
      /\ listenPc = "deliver" /\ listenPc' = "check" /\ consumerPc = "receiving" /\ consumerPc' = "busy"
    BY DEF Handover, connVars, subVars, nodeVars
<1>2. Frames' = Frames /\ Asked' = Asked
    BY <1>1 DEF Frames, Asked
<1>3. PICK N \in Nat : N = Len(feed)
    BY FramesTyped DEF IInv
<1>4. /\ Len(feed') = N + 1 /\ DOMAIN feed = 1..N /\ DOMAIN feed' = 1..(N + 1)
      /\ \A k \in 1..N : feed'[k] = feed[k]
      /\ feed'[N + 1] = [num |-> outgoing, dial |-> dials]
      /\ feed' # <<>> /\ (feed # <<>> => N \in 1..N)
    <2>1. feed \in Seq([num : Nat, dial : Nat]) /\ [num |-> outgoing, dial |-> dials] \in [num : Nat, dial : Nat]
        BY DEF IInv, TypeOK
    <2>2. feed' = Append(feed, [num |-> outgoing, dial |-> dials])
        BY DEF Handover
    <2>3. /\ feed' \in Seq([num : Nat, dial : Nat]) /\ feed' # <<>> /\ Len(feed') = Len(feed) + 1
          /\ \A k \in 1..Len(feed) : feed'[k] = feed[k]
          /\ feed'[Len(feed) + 1] = [num |-> outgoing, dial |-> dials]
        BY ONLY <2>1, <2>2, AppendProperties
    <2>4. DOMAIN feed' = 1..Len(feed')
        BY <2>3, LenProperties
    <2> QED BY <1>3, <2>3, <2>4, FramesTyped DEF IInv
<1>5. Started /\ Started' /\ Newest' = Newest
    BY <1>1, <1>4 DEF Started, Newest
<1>6. Asking'
    BY <1>1, <1>2 DEF FeedInv, Asking, Silent, OneSubscription, Asked
<1>7. Framed' /\ Announcing'
    BY <1>1, <1>2 DEF FeedInv, Framed, Announcing, IsNote
<1>8. Continued'
    BY <1>1, <1>2, <1>5 DEF FeedInv, Continued, IsNote
<1>9. Delivered'
    <2>1. /\ \A k \in 1..N : feed[k].num < outgoing /\ feed[k].num <= head /\ feed[k].dial <= dials
          /\ \A k \in 1..N : feed[k].num \in Nat
          /\ outgoing \in 1..head /\ dials \in Nat /\ head <= MaxHead
          /\ feed # <<>> /\ feed[N].dial = dials => outgoing = feed[N].num + 1
          /\ \A i \in Frames : IsNote(i) => outgoing < inbox[i].num
          /\ \A k \in 1..N : \A i \in Frames : IsNote(i) => feed[k].num < inbox[i].num
        BY <1>1, <1>3, <1>4, <1>5, FramesTyped DEF FeedInv, Delivered, Continued, Newest, IInv, TypeOK
    <2>2. \A k \in 1..(N + 1) : k \in 1..N \/ (k = N + 1 /\ feed'[k].num = outgoing /\ feed'[k].dial = dials)
        BY <1>4
    <2>3. FeedInOrder'
        <3>1. \A i, j \in 1..N : i < j => feed'[i].num < feed'[j].num
            BY <1>4 DEF FeedInv, Delivered, FeedInOrder
        <3> QED BY <1>4, <2>1, <2>2, <3>1 DEF FeedInOrder
    <2>4. GapOnlyAtReconnect'
        <3> SUFFICES ASSUME NEW k \in 1..N, feed'[k].dial = feed'[k + 1].dial
                     PROVE  feed'[k + 1].num = feed'[k].num + 1
            BY <1>4 DEF GapOnlyAtReconnect
        <3>1. CASE k = N
            BY <3>1, <1>4, <2>1, FramesTyped DEF IInv
        <3>2. CASE k # N
            <4>1. k + 1 \in 1..N
                BY <3>2
            <4> QED BY <4>1, <1>4 DEF FeedInv, Delivered, GapOnlyAtReconnect
        <3> QED BY <3>1, <3>2
    <2>5. /\ \A k \in DOMAIN feed' : feed'[k].num <= head' /\ feed'[k].dial <= dials'
          /\ \A k \in DOMAIN feed' : \A i \in Frames' : IsNote(i)' => feed'[k].num < inbox'[i].num
        BY <1>1, <1>2, <1>4, <2>1, <2>2 DEF IsNote
    <2> QED BY <1>1, <2>1, <2>3, <2>4, <2>5 DEF Delivered
<1> QED BY <1>6, <1>7, <1>8, <1>9 DEF FeedInv

\* The listener reads a frame.
LEMMA FeedRead ==
    ASSUME FeedInv, IInv, ReadFrame PROVE FeedInv'
<1> DEFINE m == inbox[1]
<1>0. PICK L \in Nat : L = Len(inbox)
    BY FramesTyped DEF IInv
<1>1. /\ L >= 1 /\ Frames = 1..L /\ Frames' = 1..(L - 1)
      /\ \A i \in Frames' : inbox'[i] = inbox[i + 1]
      /\ Head(inbox) = m
    <2>1. inbox \in Seq(Frame) /\ inbox # <<>> /\ inbox' = Tail(inbox)
        BY DEF IInv, TypeOK, ReadFrame
    <2>2. Len(inbox) \in Nat \ {0} /\ Len(inbox') = Len(inbox) - 1 /\ Head(inbox) = inbox[1]
        BY <2>1, EmptySeq, HeadTailProperties
    <2>3. \A i \in 1..Len(inbox') : inbox'[i] = inbox[i + 1]
        BY <2>1, HeadTailProperties
    <2> QED BY <1>0, <2>2, <2>3 DEF Frames
<1>2. /\ 1 \in Frames
      /\ \A i \in Frames' : i \in Nat /\ i + 1 \in Frames /\ i + 1 > 1
      /\ \A i \in Frames : i = 1 \/ (i - 1 \in Frames' /\ i = (i - 1) + 1)
    BY <1>1
<1>3. /\ UNCHANGED <<requests, nodeSub, feed, dials, head, consumerPc, conn>>
      /\ listenPc = "read" /\ listenPc' \in {"check", "deliver"}
      /\ HandleReply(m) \/ HandleSubscribed(m) \/ HandleOther(m)
    BY <1>1 DEF ReadFrame, consumerVars, nodeVars, HandleReply, HandleSubscribed, HandleOther
<1>4. Asked' = Asked
    BY <1>3 DEF Asked
<1>5. \A i \in Frames : inbox[i].num \in Nat
    BY FramesTyped DEF IInv
<1>6. Framed'
    BY <1>1, <1>2 DEF FeedInv, Framed, IsNote
<1> HIDE DEF m
<1>7. Announcing'
    <2>1. /\ \A i \in Frames' : inbox'[i].num <= head
          /\ \A i, j \in Frames' : i < j /\ inbox'[i].num # 0 /\ inbox'[j].num # 0
                                    => inbox'[i].num < inbox'[j].num
        BY <1>1, <1>2, SMTT(20) DEF FeedInv, Announcing, IsNote
    <2>2. ASSUME NEW i \in Frames', inbox'[i].num # 0
          PROVE  /\ Asked = {} /\ nodeSub \in {0, inbox'[i].sub}
                 /\ \A j \in Frames' : inbox'[j].num # 0 => inbox'[j].sub = inbox'[i].sub
                 /\ \A j \in Frames' : j > i => inbox'[j].num # 0 \/ inbox'[j].from # None
        <3>1. i + 1 \in Frames /\ inbox[i + 1].num # 0 /\ inbox[i + 1] = inbox'[i] /\ i \in Nat
            BY <1>1, <1>2, <2>2
        <3>2. /\ Asked = {} /\ nodeSub \in {0, inbox[i + 1].sub}
              /\ \A j \in Frames : inbox[j].num # 0 => inbox[j].sub = inbox[i + 1].sub
              /\ \A j \in Frames : j > i + 1 => inbox[j].num # 0 \/ inbox[j].from # None
            BY <3>1 DEF FeedInv, Announcing, IsNote
        <3>3. \A j \in Frames' : j > i => j + 1 > i + 1
            BY <1>2, <3>1
        <3> QED BY <1>1, <1>2, <3>1, <3>2, <3>3
    <2>3. ASSUME NEW i \in Frames', inbox'[i].num # 0, nodeSub # 0
          PROVE  \E j \in Frames' : inbox'[j].num = head
        <3>1. PICK j \in Frames : inbox[j].num = head
            BY <1>1, <1>2, <2>3 DEF FeedInv, Announcing, IsNote
        <3>2. inbox[i + 1].num <= head /\ inbox[i + 1].num # 0 /\ i + 1 \in Frames
            BY <1>1, <1>2, <2>3 DEF FeedInv, Announcing
        <3>3. head # 0 /\ head \in Nat
            BY <1>5, <3>2, FramesTyped DEF IInv
        <3>4. j # 1
            <4>1. inbox[1].num # 0 => inbox[1].num < inbox[i + 1].num
                BY <1>2, <3>2 DEF FeedInv, Announcing, IsNote
            <4> QED BY <1>2, <1>5, <3>1, <3>2, <3>3, <4>1
        <3> QED BY <1>1, <1>2, <3>1, <3>4
    <2>4. ASSUME NEW i \in Frames', inbox'[i].num # 0
          PROVE  \/ \A j \in 1..(i - 1) : inbox'[j].num = 0
                 \/ \E j \in 1..(i - 1) : inbox'[j].num # 0 /\ inbox'[j].num = inbox'[i].num - 1
        <3>1. /\ inbox[i + 1].num = inbox'[i].num /\ i + 1 \in Frames /\ i \in Nat
              /\ \A j \in 1..(i - 1) : j \in Frames' /\ j + 1 \in Frames /\ j + 1 < i + 1
              /\ \A j \in 1..i : j = 1 \/ (j - 1 \in 1..(i - 1) /\ inbox'[j - 1] = inbox[j])
            BY <1>1, <1>2
        <3>2. CASE \A j \in 1..((i + 1) - 1) : ~IsNote(j)
            <4>1. \A j \in 1..(i - 1) : j + 1 \in 1..((i + 1) - 1)
                BY <3>1
            <4> QED BY <1>1, <3>1, <3>2, <4>1 DEF IsNote
        <3>3. CASE \E j \in 1..((i + 1) - 1) : IsNote(j) /\ inbox[j].num = inbox[i + 1].num - 1
            <4>1. PICK j \in 1..i : IsNote(j) /\ inbox[j].num = inbox[i + 1].num - 1
                BY <3>1, <3>3
            <4>2. CASE j = 1
                <5>1. \A k \in 1..(i - 1) : inbox'[k].num # 0 =>
                          inbox[1].num < inbox[k + 1].num /\ inbox[k + 1].num < inbox[i + 1].num
                    BY <1>1, <1>2, <2>4, <3>1, <4>1, <4>2 DEF FeedInv, Announcing, IsNote
                <5> QED BY <1>2, <1>5, <3>1, <4>1, <4>2, <5>1
            <4>3. CASE j # 1
                BY <2>4, <3>1, <4>1, <4>3 DEF IsNote
            <4> QED BY <4>2, <4>3
        <3> QED BY <2>4, <3>1, <3>2, <3>3 DEF FeedInv, Announcing, IsNote
    <2> QED BY <1>3, <1>4, <2>1, <2>2, <2>3, <2>4 DEF Announcing, IsNote
<1>8. Silent => Silent' /\ m.from # None /\ \A i \in Frames : ~IsNote(i)
    BY <1>1, <1>2, <1>3, <1>4 DEF Silent, FeedInv, Framed, m
<1>9. CASE ~IsNote(1) /\ UNCHANGED <<subId, subCallId>> /\ listenPc' = "check"
    <2>1. Started' = Started /\ Newest' = Newest
        BY <1>3, <1>9 DEF Started, Newest
    <2>2. Asking'
        BY <1>3, <1>4, <1>8, <1>9, <2>1 DEF FeedInv, Asking, OneSubscription, Asked
    <2>3. Continued'
        <3> SUFFICES ASSUME Started PROVE Continued'
            BY <2>1 DEF Continued
        <3>1. \A i \in Frames' : IF inbox'[i].num # 0 THEN inbox'[i].sub = subId /\ inbox'[i].num > Newest
                                                      ELSE inbox'[i].from # None
            BY <1>1, <1>2 DEF FeedInv, Continued, IsNote
        <3>2. ASSUME NEW i \in Frames', inbox'[i].num # 0
              PROVE  \/ inbox'[i].num = Newest + 1
                     \/ \E j \in 1..(i - 1) : inbox'[j].num # 0 /\ inbox'[j].num = inbox'[i].num - 1
            <4>1. /\ inbox[i + 1].num = inbox'[i].num /\ i + 1 \in Frames
                  /\ \A j \in 1..((i + 1) - 1) : j = 1 \/ (j - 1 \in 1..(i - 1) /\ inbox'[j - 1] = inbox[j])
                BY <1>1, <1>2
            <4> QED BY <1>9, <3>2, <4>1 DEF FeedInv, Continued, IsNote
        <3>3. nodeSub # 0 => head = Newest \/ \E i \in Frames' : inbox'[i].num = head
            <4>1. head \in Nat /\ (head = 0 /\ nodeSub # 0 => head = Newest)
                <5>1. feed # <<>> => feed[Len(feed)].num \in Nat /\ feed[Len(feed)].num <= head
                    BY FramesTyped DEF IInv, FeedInv, Delivered
                <5> QED BY <5>1, <1>3, FramesTyped DEF IInv, Started, Newest
            <4>2. \A i \in Frames : inbox[i].num = head /\ head # 0 => i - 1 \in Frames' /\ inbox'[i - 1].num = head
                BY <1>1, <1>2, <1>9 DEF IsNote
            <4> QED BY <4>1, <4>2 DEF FeedInv, Continued
        <3> QED BY <1>3, <1>4, <1>9, <2>1, <3>1, <3>2, <3>3 DEF FeedInv, Continued, IsNote
    <2>4. Delivered'
        BY <1>1, <1>2, <1>3, <1>9 DEF FeedInv, Delivered, FeedInOrder, GapOnlyAtReconnect, IsNote
    <2> QED BY <1>6, <1>7, <2>2, <2>3, <2>4 DEF FeedInv
<1>10. CASE HandleReply(m)
    <2>1. m.id # 0
        BY <1>10 DEF HandleReply, IsReply, IInv, CallInv, Registered
    <2>2. ~IsNote(1)
        BY <1>2, <2>1 DEF FeedInv, Framed, m
    <2> QED BY <1>9, <1>10, <2>2 DEF HandleReply, subVars
<1>11. CASE HandleSubscribed(m)
    <2>1. m.id # 0 /\ m.id = subCallId /\ subId' = m.sub /\ listenPc' = "check" /\ subCallId' = 0
        BY <1>11 DEF HandleSubscribed, IsSubscribed
    <2>2. ~IsNote(1) /\ m.from = None
        <3>1. Honest(m) /\ m.from \in Callers \cup {None}
            BY <1>2, MessagesTyped DEF IInv, CallInv, Travelling, Frames, m
        <3>2. m.from \notin Callers
            BY <2>1, <3>1, CallersAssumption DEF Honest, IInv, CallInv, IdsDistinct
        <3> QED BY <1>2, <2>1, <3>1, <3>2 DEF FeedInv, Framed, m
    <2>3. ~Silent /\ ~Started
        BY <1>2, <2>2 DEF FeedInv, Continued, Silent, m
    <2>4. ~Started'
        BY <1>3, <2>1, <2>3 DEF Started
    <2>5. Asking'
        BY <1>3, <1>4, <2>1, <2>3 DEF FeedInv, Asking, OneSubscription, Asked
    <2>6. Delivered'
        BY <1>1, <1>2, <1>3, <2>1 DEF FeedInv, Delivered, FeedInOrder, GapOnlyAtReconnect, IsNote
    <2> QED BY <1>6, <1>7, <2>4, <2>5, <2>6 DEF FeedInv, Continued
<1>12. CASE HandleOther(m) /\ ~IsNote(1)
    <2>1. ~IsHead(m)
        BY <1>2, <1>12 DEF IsHead, FeedInv, Framed, m
    <2> QED BY <1>9, <1>12, <2>1 DEF HandleOther, subVars
<1>13. CASE HandleOther(m) /\ IsNote(1)
    <2>1. UNCHANGED <<subId, subCallId>> /\ ~Silent
        BY <1>8, <1>13, <1>2 DEF HandleOther, subVars
    <2>2. Asking'
        BY <1>3, <1>4, <2>1 DEF FeedInv, Asking, OneSubscription, Asked
    <2>3. CASE ~IsHead(m)
        <3>1. listenPc' = "check"
            BY <1>13, <2>3 DEF HandleOther
        <3>2. ~Started
            BY <1>2, <1>13, <2>3 DEF IsHead, FeedInv, Continued, Framed, m
        <3>3. ~Started'
            BY <1>3, <3>1, <3>2 DEF Started
        <3>4. Delivered'
            BY <1>1, <1>2, <1>3, <3>1 DEF FeedInv, Delivered, FeedInOrder, GapOnlyAtReconnect, IsNote
        <3> QED BY <1>6, <1>7, <2>2, <3>3, <3>4 DEF FeedInv, Continued
    <2>4. CASE IsHead(m)
        <3>1. listenPc' = "deliver" /\ outgoing' = m.num /\ subId # 0 /\ m.sub = subId
            BY <1>13, <2>4 DEF HandleOther, IsHead
        <3>2. Started' /\ Newest' = m.num
            BY <3>1 DEF Started, Newest
        <3>3. /\ m.num \in Nat /\ m.num # 0 /\ m.num <= head
              /\ \A i \in Frames' : inbox'[i].num # 0 => inbox'[i].sub = subId /\ inbox'[i].num > m.num
              /\ \A i \in Frames' : inbox'[i].num = 0 => inbox'[i].from # None
              /\ Asked = {} /\ nodeSub \in {0, subId}
            <4>1. m.num \in Nat /\ m.num # 0 /\ m.num <= head
                BY <1>2, <1>5, <1>13 DEF FeedInv, Announcing, IsNote, m
            <4>2. /\ Asked = {} /\ nodeSub \in {0, m.sub}
                  /\ \A j \in Frames : inbox[j].num # 0 => inbox[j].sub = m.sub
                  /\ \A j \in Frames : j > 1 => inbox[j].num # 0 \/ inbox[j].from # None
                  /\ \A j \in Frames : j > 1 /\ inbox[j].num # 0 => m.num < inbox[j].num
                BY <1>2, <1>13 DEF FeedInv, Announcing, IsNote, m
            <4>3. \A i \in Frames' : inbox'[i].num > m.num <=> m.num < inbox'[i].num
                BY <1>1, <1>2, <1>5, <4>1
            <4> QED BY <1>1, <1>2, <3>1, <4>1, <4>2, <4>3
        <3>4. ASSUME NEW i \in Frames', inbox'[i].num # 0
              PROVE  \/ inbox'[i].num = m.num + 1
                     \/ \E j \in 1..(i - 1) : inbox'[j].num # 0 /\ inbox'[j].num = inbox'[i].num - 1
            <4>1. /\ inbox[i + 1].num = inbox'[i].num /\ i + 1 \in Frames
                  /\ \A j \in 1..((i + 1) - 1) : j = 1 \/ (j - 1 \in 1..(i - 1) /\ inbox'[j - 1] = inbox[j])
                  /\ 1 \in 1..((i + 1) - 1) /\ inbox'[i].num \in Nat
                BY <1>1, <1>2, <1>5
            <4>2. PICK j \in 1..((i + 1) - 1) : IsNote(j) /\ inbox[j].num = inbox[i + 1].num - 1
                BY <1>13, <3>4, <4>1 DEF FeedInv, Announcing, IsNote
            <4> QED BY <3>3, <4>1, <4>2 DEF IsNote, m
        <3>5. nodeSub # 0 => head = m.num \/ \E i \in Frames' : inbox'[i].num = head
            <4> SUFFICES ASSUME nodeSub # 0 PROVE head = m.num \/ \E i \in Frames' : inbox'[i].num = head
                OBVIOUS
            <4>1. PICK j \in Frames : inbox[j].num = head
                BY <1>2, <1>13 DEF FeedInv, Announcing
            <4>2. CASE j = 1
                BY <4>1, <4>2 DEF m
            <4>3. CASE j # 1
                BY <1>1, <1>2, <4>1, <4>3
            <4> QED BY <4>2, <4>3
        <3>6. Continued'
            BY <1>3, <1>4, <2>1, <3>1, <3>2, <3>3, <3>4, <3>5 DEF Continued, IsNote
        <3>7. Delivered'
            <4>1. \A k \in DOMAIN feed : feed[k].num < m.num
                BY <1>2, <1>13 DEF FeedInv, Delivered, m
            <4>2. feed # <<>> /\ feed[Len(feed)].dial = dials => m.num = feed[Len(feed)].num + 1
                <5> SUFFICES ASSUME feed # <<>>, feed[Len(feed)].dial = dials
                             PROVE  m.num = feed[Len(feed)].num + 1
                    OBVIOUS
                <5>1. Started /\ Newest = feed[Len(feed)].num
                    BY <1>3 DEF Started, Newest
                <5>2. 1..(1 - 1) = {}
                    OBVIOUS
                <5> QED BY <1>2, <1>13, <5>1, <5>2 DEF FeedInv, Continued, m
            <4>3. m.num \in 1..head
                BY <3>3, FramesTyped DEF IInv
            <4>4. \A k \in DOMAIN feed : \A i \in Frames' : inbox'[i].num # 0 => feed[k].num < inbox'[i].num
                BY <1>1, <1>2 DEF FeedInv, Delivered, IsNote
            <4> QED BY <1>3, <3>1, <4>1, <4>2, <4>3, <4>4 DEF FeedInv, Delivered, FeedInOrder, GapOnlyAtReconnect, IsNote
        <3> QED BY <1>6, <1>7, <2>2, <3>6, <3>7 DEF FeedInv
    <2> QED BY <2>3, <2>4
<1> QED BY <1>3, <1>10, <1>11, <1>12, <1>13

-----------------------------------------------------------------------------
(* Every step                                                              *)

LEMMA NextFeedInv == IInv /\ FeedInv /\ [Next]_vars => FeedInv'
<1> SUFFICES ASSUME IInv, FeedInv, [Next]_vars PROVE FeedInv'
    OBVIOUS
<1> USE DEF connVars, subVars, nodeVars, callVars, chanVars, consumerVars, listenVars
<1>1. ASSUME NEW c \in Callers, rpcCall(c) PROVE FeedInv'
    <2> USE <1>1 DEF rpcCall
    <2>1. Asked' \subseteq Asked
        BY CallersAssumption DEF Asked
    <2>2. consumerPc' = "subscribing" \/ listenPc' = "resubscribing" => subCallId' # 0
        BY DEF FeedInv, Asking
    <2> QED BY <2>1, <2>2, FeedUntouched DEF Renewing, Beginning
<1>2. ASSUME NEW c \in Callers, SendRPCNoConn(c) PROVE FeedInv'
    <2> USE <1>2 DEF SendRPCNoConn
    <2>1. Asked' \subseteq Asked
        BY CallersAssumption DEF Asked
    <2>2. consumerPc' = "subscribing" \/ listenPc' = "resubscribing" => subCallId' # 0
        BY DEF FeedInv, Asking
    <2> QED BY <2>1, <2>2, FeedUntouched DEF Renewing, Beginning
<1>3. ASSUME NEW c \in Callers, SendRPCRegister(c) PROVE FeedInv'
    <2> USE <1>3 DEF SendRPCRegister
    <2>1. Asked' \subseteq Asked
        BY CallersAssumption DEF Asked
    <2>2. consumerPc' = "subscribing" \/ listenPc' = "resubscribing" => subCallId' # 0
        BY DEF FeedInv, Asking
    <2> QED BY <2>1, <2>2, FeedUntouched DEF Renewing, Beginning
<1>4. ASSUME NEW c \in Callers, SendRPCBadArgs(c) PROVE FeedInv'
    <2> USE <1>4 DEF SendRPCBadArgs
    <2>1. Asked' \subseteq Asked
        BY CallersAssumption DEF Asked
    <2>2. consumerPc' = "subscribing" \/ listenPc' = "resubscribing" => subCallId' # 0
        BY DEF FeedInv, Asking
    <2> QED BY <2>1, <2>2, FeedUntouched DEF Renewing, Beginning
<1>5. ASSUME NEW c \in Callers, SendRPCWrite(c) PROVE FeedInv'
    <2> USE <1>5 DEF SendRPCWrite, WriteOK, WriteFails
    <2>1. Asked' \subseteq Asked
        BY CallersAssumption DEF Asked
    <2>2. consumerPc' = "subscribing" \/ listenPc' = "resubscribing" => subCallId' # 0
        BY DEF FeedInv, Asking
    <2> QED BY <2>1, <2>2, FeedUntouched DEF Renewing, Beginning
<1>6. ASSUME NEW c \in Callers, RPCReturn(c) PROVE FeedInv'
    <2> USE <1>6 DEF RPCReturn
    <2>1. Asked' \subseteq Asked
        BY CallersAssumption DEF Asked
    <2>2. consumerPc' = "subscribing" \/ listenPc' = "resubscribing" => subCallId' # 0
        BY DEF FeedInv, Asking
    <2> QED BY <2>1, <2>2, FeedUntouched DEF Renewing, Beginning
<1>7. ASSUME ListenStart PROVE FeedInv'
    <2> USE <1>7 DEF ListenStart
    <2>1. Asked' \subseteq Asked
        BY CallersAssumption DEF Asked
    <2>2. consumerPc' = "subscribing" \/ listenPc' = "resubscribing" => subCallId' # 0
        BY DEF FeedInv, Asking
    <2> QED BY <2>1, <2>2, FeedUntouched DEF Renewing, Beginning
<1>8. ASSUME ListenCheck PROVE FeedInv'
    <2> USE <1>8 DEF ListenCheck
    <2>1. Asked' \subseteq Asked
        BY CallersAssumption DEF Asked
    <2>2. consumerPc' = "subscribing" \/ listenPc' = "resubscribing" => subCallId' # 0
        BY DEF FeedInv, Asking
    <2> QED BY <2>1, <2>2, FeedUntouched DEF Renewing, Beginning
<1>9. ASSUME DialLock PROVE FeedInv'
    <2> USE <1>9 DEF DialLock
    <2>1. Asked' \subseteq Asked
        BY CallersAssumption DEF Asked
    <2>2. consumerPc' = "subscribing" \/ listenPc' = "resubscribing" => subCallId' # 0
        BY DEF FeedInv, Asking
    <2> QED BY <2>1, <2>2, FeedUntouched DEF Renewing, Beginning
<1>10. ASSUME DialFails PROVE FeedInv'
    <2> USE <1>10 DEF DialFails
    <2>1. Asked' \subseteq Asked
        BY CallersAssumption DEF Asked
    <2>2. consumerPc' = "subscribing" \/ listenPc' = "resubscribing" => subCallId' # 0
        BY DEF FeedInv, Asking
    <2> QED BY <2>1, <2>2, FeedUntouched DEF Renewing, Beginning
<1>11. ASSUME ReadError PROVE FeedInv'
    <2> USE <1>11 DEF ReadError
    <2>1. Asked' \subseteq Asked
        BY CallersAssumption DEF Asked
    <2>2. consumerPc' = "subscribing" \/ listenPc' = "resubscribing" => subCallId' # 0
        BY DEF FeedInv, Asking
    <2> QED BY <2>1, <2>2, FeedUntouched DEF Renewing, Beginning
<1>12. ASSUME Resubscribe PROVE FeedInv'
    <2> USE <1>12 DEF Resubscribe, SubscribeLock, nextID
    <2>1. Asked' = Asked
        BY DEF Asked
    <2>2. subCallId' # 0
        BY DEF IInv, TypeOK
    <2> QED BY <2>1, <2>2, FeedUntouched DEF Renewing, Beginning
<1>13. ASSUME SubscribeChainHead PROVE FeedInv'
    <2> USE <1>13 DEF SubscribeChainHead, SubscribeLock, nextID
    <2>1. Asked' = Asked
        BY DEF Asked
    <2>2. subCallId' # 0
        BY DEF IInv, TypeOK
    <2> QED BY <2>1, <2>2, FeedUntouched DEF Renewing, Beginning
<1>14. ASSUME ResubscribeWrite PROVE FeedInv'
    <2> USE <1>14 DEF ResubscribeWrite, SubscribeWrite, WriteOK, WriteFails
    <2>1. consumerPc \notin Beginning
        BY DEF FeedInv, Asking, Beginning
    <2> QED BY <2>1, FeedAsked DEF Renewing
<1>15. ASSUME SubscribeChainHeadWrite PROVE FeedInv'
    <2> USE <1>15 DEF SubscribeChainHeadWrite, SubscribeWrite, WriteOK, WriteFails
    <2>1. listenPc \notin Renewing /\ listenPc # "deliver"
        BY DEF FeedInv, Asking, Renewing, Continued, Started
    <2> QED BY <2>1, FeedAsked DEF Beginning
<1>16. ASSUME DialOK PROVE FeedInv'
    <2> USE <1>16 DEF DialOK, NodeForgets, MustResubscribe
    <2>1. consumerPc # "subscribing"
        BY CallersAssumption DEF IInv, MuxHeld
    <2> QED BY <2>1, FeedCut DEF IInv, Renewing
<1>17. ASSUME resetConn PROVE FeedInv'
    <2> USE <1>17 DEF resetConn, NodeForgets
    <2> QED BY FeedCut DEF IInv, Renewing
<1>18. ASSUME ReadFrame PROVE FeedInv'
    BY <1>18, FeedRead
<1>19. ASSUME Handover PROVE FeedInv'
    BY <1>19, FeedHanded
<1>20. ASSUME NodeAnswers PROVE FeedInv'
    BY <1>20, FeedAnswered
<1>21. ASSUME NodeNewBlock PROVE FeedInv'
    BY <1>21, FeedAnnounced
<1>22. ASSUME SubscribeNoConn PROVE FeedInv'
    <2> USE <1>22 DEF SubscribeNoConn
    <2>1. Asked' \subseteq Asked
        BY CallersAssumption DEF Asked
    <2>2. consumerPc' = "subscribing" \/ listenPc' = "resubscribing" => subCallId' # 0
        BY DEF FeedInv, Asking
    <2> QED BY <2>1, <2>2, FeedUntouched DEF Renewing, Beginning
<1>23. ASSUME ConsumerStep PROVE FeedInv'
    <2> USE <1>23 DEF ConsumerStep
    <2>1. Asked' \subseteq Asked
        BY CallersAssumption DEF Asked
    <2>2. consumerPc' = "subscribing" \/ listenPc' = "resubscribing" => subCallId' # 0
        BY DEF FeedInv, Asking
    <2> QED BY <2>1, <2>2, FeedUntouched DEF Renewing, Beginning
<1>24. ASSUME StopClose PROVE FeedInv'
    <2> USE <1>24 DEF StopClose
    <2>1. Asked' \subseteq Asked
        BY CallersAssumption DEF Asked
    <2>2. consumerPc' = "subscribing" \/ listenPc' = "resubscribing" => subCallId' # 0
        BY DEF FeedInv, Asking
    <2> QED BY <2>1, <2>2, FeedUntouched DEF Renewing, Beginning
<1>25. ASSUME StopConn PROVE FeedInv'
    <2> USE <1>25 DEF StopConn, NodeForgets
    <2>1. Asked' \subseteq Asked
        BY CallersAssumption DEF Asked
    <2>2. consumerPc' = "subscribing" \/ listenPc' = "resubscribing" => subCallId' # 0
        BY DEF FeedInv, Asking
    <2> QED BY <2>1, <2>2, FeedUntouched DEF Renewing, Beginning
<1>26. ASSUME StopWait PROVE FeedInv'
    <2> USE <1>26 DEF StopWait
    <2>1. Asked' \subseteq Asked
        BY CallersAssumption DEF Asked
    <2>2. consumerPc' = "subscribing" \/ listenPc' = "resubscribing" => subCallId' # 0
        BY DEF FeedInv, Asking
    <2> QED BY <2>1, <2>2, FeedUntouched DEF Renewing, Beginning
<1>27. ASSUME ConnDrops PROVE FeedInv'
    <2> USE <1>27 DEF ConnDrops, NodeForgets
    <2>1. Asked' \subseteq Asked
        BY CallersAssumption DEF Asked
    <2>2. consumerPc' = "subscribing" \/ listenPc' = "resubscribing" => subCallId' # 0
        BY DEF FeedInv, Asking
    <2> QED BY <2>1, <2>2, FeedUntouched DEF Renewing, Beginning
<1>28. ASSUME UNCHANGED vars PROVE FeedInv'
    <2> USE <1>28 DEF vars
    <2>1. Asked' \subseteq Asked
        BY CallersAssumption DEF Asked
    <2>2. consumerPc' = "subscribing" \/ listenPc' = "resubscribing" => subCallId' # 0
        BY DEF FeedInv, Asking
    <2> QED BY <2>1, <2>2, FeedUntouched DEF Renewing, Beginning
<1> QED BY <1>1, <1>2, <1>3, <1>4, <1>5, <1>6, <1>7, <1>8, <1>9, <1>10, <1>11, <1>12, <1>13, <1>14, <1>15, <1>16, <1>17, <1>18, <1>19, <1>20, <1>21, <1>22, <1>23, <1>24, <1>25, <1>26, <1>27, <1>28 DEF Next, Caller, Listener, Consumer, Environment

LEMMA AlwaysFeedInv == Spec => [](IInv /\ FeedInv)
<1>1. Init => IInv /\ FeedInv
    BY InitIInv, InitFeedInv
<1>2. IInv /\ FeedInv /\ [Next]_vars => (IInv /\ FeedInv)'
    BY NextIInv, NextFeedInv
<1> QED BY <1>1, <1>2, PTL DEF Spec

-----------------------------------------------------------------------------
(* The subscription that is granted is the one the listener knows          *)

IsAnswer(i) == inbox[i].num = 0 /\ inbox[i].from = None

\* The request and the answer carry the call id that the listener will recognise; a
\* subscription is served, and announces, under the id the listener has, or will have
\* when it comes to the answer; and on a connection that stands somebody takes care
\* of a subscription that was confirmed before.
Recognised ==
    /\ \A r \in Asked : r.id = subCallId
    /\ \A i \in Frames : IsAnswer(i) =>
          /\ inbox[i].id = subCallId /\ Asked = {}
          /\ nodeSub \in {0, inbox[i].sub}
          /\ conn = "up" => nodeSub = inbox[i].sub
          /\ \A j \in Frames : IsAnswer(j) => j = i

Granted(sub) == sub = subId /\ \A j \in Frames : ~IsAnswer(j)
ToBeGranted(sub) == \E j \in Frames : IsAnswer(j) /\ inbox[j].sub = sub

Served ==
    /\ nodeSub # 0 => Granted(nodeSub) \/ ToBeGranted(nodeSub)
    /\ \A i \in Frames : IsNote(i) => Granted(inbox[i].sub) \/ ToBeGranted(inbox[i].sub)

CaredFor ==
    conn = "up" /\ subId # 0 =>
        \/ listenPc \in Renewing \/ Asked # {} \/ nodeSub = subId
        \/ \E j \in Frames : IsAnswer(j)

GrantInv == Recognised /\ Served /\ CaredFor

\* A step that says nothing about subscriptions, but for the end of the connection.
LEMMA GrantUntouched ==
    ASSUME GrantInv, UNCHANGED <<inbox, subId, subCallId>>,
           \/ Asked' = Asked /\ UNCHANGED <<nodeSub, conn>>
           \/ Asked' = {} /\ nodeSub' = 0 /\ conn' # "up",
           listenPc \in Renewing => listenPc' \in Renewing
    PROVE  GrantInv'
<1>1. /\ \A i : IsAnswer(i)' = IsAnswer(i) /\ IsNote(i)' = IsNote(i)
      /\ Frames' = Frames
    BY DEF IsAnswer, IsNote, Frames
<1>2. Recognised'
    BY <1>1 DEF GrantInv, Recognised
<1>3. Served'
    BY <1>1 DEF GrantInv, Served, Granted, ToBeGranted
<1>4. CaredFor'
    BY <1>1 DEF GrantInv, CaredFor
<1> QED BY <1>2, <1>3, <1>4 DEF GrantInv

\* A connection over which nothing has been said, or only a request.
LEMMA GrantFresh ==
    ASSUME \A i \in Frames' : ~IsAnswer(i)' /\ ~IsNote(i)', nodeSub' = 0,
           \A r \in Asked' : r.id = subCallId', CaredFor'
    PROVE  GrantInv'
BY DEF GrantInv, Recognised, Served

\* The answer comes after all else, and before the first header.
LEMMA GrantAnswered ==
    ASSUME GrantInv, FeedInv, IInv, NodeAnswers PROVE GrantInv'
<1>0. PICK L \in Nat : L = Len(inbox)
    BY FramesTyped DEF IInv
<1>1. PICK r \in requests : \E m \in Frame :
         /\ requests' = requests \ {r} /\ inbox' = Append(inbox, m)
         /\ m.id = r.id /\ m.from = r.from /\ m.num = 0
         /\ r.from # None => nodeSub' = nodeSub
         /\ r.from = None => /\ m.sub = 0 => nodeSub' = nodeSub
                             /\ m.sub # 0 => nodeSub' = m.sub
    <2>1. PICK r \in requests :
             /\ requests' = requests \ {r}
             /\ \/ /\ r.from # None /\ inbox' = Append(inbox, Response(r.id, r.from))
                   /\ nodeSub' = nodeSub
                \/ /\ r.from = None /\ inbox' = Append(inbox, SubscribeResponse(r.id, r.id))
                   /\ nodeSub' = r.id
                \/ /\ r.from = None /\ inbox' = Append(inbox, SubscribeResponse(r.id, 0))
                   /\ nodeSub' = nodeSub
        BY DEF NodeAnswers
    <2>2. r.id \in Nat /\ r.from \in Callers \cup {None}
        BY DEF IInv, TypeOK, Request
    <2>3. r.id # 0
        BY <2>2 DEF FeedInv, Asking, Asked, IInv, CallInv, Travelling, Honest
    <2> QED BY <2>1, <2>2, <2>3 DEF Response, SubscribeResponse, Frame
<1>2. PICK m \in Frame :
         /\ inbox' = Append(inbox, m)
         /\ m.id = r.id /\ m.from = r.from /\ m.num = 0
         /\ r.from # None => nodeSub' = nodeSub
         /\ r.from = None => /\ m.sub = 0 => nodeSub' = nodeSub
                             /\ m.sub # 0 => nodeSub' = m.sub
    BY <1>1
<1>3. /\ Frames = 1..L /\ Frames' = 1..(L + 1)
      /\ \A i \in Frames : inbox'[i] = inbox[i]
      /\ inbox'[L + 1] = m
    BY <1>0, <1>2, AppendProperties DEF IInv, TypeOK, Frames
<1>4. /\ UNCHANGED <<subId, subCallId, listenPc>>
      /\ conn = "up" /\ conn' = conn
    BY DEF NodeAnswers, listenVars, subVars
<1>5. /\ \A i \in Frames' : i \in Frames \/ i = L + 1
      /\ \A i \in Frames : i \in Frames'
      /\ L + 1 \in Frames' /\ L + 1 \notin Frames
    BY <1>3
<1>6. \A i \in Frames : IsAnswer(i)' = IsAnswer(i) /\ IsNote(i)' = IsNote(i)
    BY <1>3 DEF IsAnswer, IsNote
<1>7. ~IsNote(L + 1)' /\ (IsAnswer(L + 1)' <=> r.from = None)
    BY <1>2, <1>3 DEF IsAnswer, IsNote
<1>8. CASE r.from # None
    <2>1. Asked' = Asked /\ nodeSub' = nodeSub
        BY <1>1, <1>8 DEF Asked
    <2>2. Recognised'
        BY <1>3, <1>4, <1>5, <1>6, <1>7, <1>8, <2>1 DEF GrantInv, Recognised
    <2>3. Served'
        BY <1>3, <1>4, <1>5, <1>6, <1>7, <1>8, <2>1 DEF GrantInv, Served, Granted, ToBeGranted
    <2>4. CaredFor'
        BY <1>4, <1>5, <1>6, <2>1 DEF GrantInv, CaredFor
    <2> QED BY <2>2, <2>3, <2>4 DEF GrantInv
<1>9. CASE r.from = None
    <2>1. Asked = {r} /\ Asked' = {} /\ nodeSub = 0
        BY <1>1, <1>9 DEF FeedInv, Asking, OneSubscription, Asked
    <2>2. /\ \A i \in Frames : ~IsAnswer(i) /\ ~IsNote(i)
          /\ r.id = subCallId
        BY <2>1 DEF GrantInv, Recognised, FeedInv, Announcing
    <2>3. nodeSub' = m.sub
        BY <1>2, <1>9, <2>1
    <2>4. \A i \in Frames' : IsAnswer(i)' <=> i = L + 1
        BY <1>5, <1>6, <1>7, <1>9, <2>2
    <2>5. Recognised'
        BY <1>2, <1>3, <1>4, <2>1, <2>2, <2>3, <2>4 DEF Recognised
    <2>6. Served'
        <3>1. \A i \in Frames' : ~IsNote(i)'
            BY <1>5, <1>6, <1>7, <2>2
        <3>2. ToBeGranted(nodeSub)'
            BY <1>3, <1>5, <2>3, <2>4 DEF ToBeGranted
        <3> QED BY <3>1, <3>2 DEF Served
    <2>7. CaredFor'
        BY <1>5, <2>4 DEF CaredFor
    <2> QED BY <2>5, <2>6, <2>7 DEF GrantInv
<1> QED BY <1>8, <1>9

\* A header is announced to the subscription that is served.
LEMMA GrantAnnounced ==
    ASSUME GrantInv, IInv, NodeNewBlock PROVE GrantInv'
<1>0. PICK L \in Nat : L = Len(inbox)
    BY FramesTyped DEF IInv
<1>1. UNCHANGED <<subId, subCallId, listenPc, conn, nodeSub, requests>>
    BY DEF NodeNewBlock, listenVars, subVars
<1>2. Asked' = Asked
    BY <1>1 DEF Asked
<1>3. CASE ~(conn = "up" /\ nodeSub # 0)
    BY <1>1, <1>2, <1>3, GrantUntouched DEF NodeNewBlock
<1>4. CASE conn = "up" /\ nodeSub # 0
    <2>1. PICK m \in Frame : inbox' = Append(inbox, m) /\ m.num # 0 /\ m.sub = nodeSub
        <3>0. head \in Nat /\ nodeSub \in Nat /\ head' = head + 1
            BY DEF IInv, TypeOK, NodeNewBlock
        <3>1. head' \in Nat /\ head' # 0 /\ nodeSub \in Nat
            BY <3>0
        <3>2. inbox' = Append(inbox, Notification(nodeSub, head'))
            BY <1>4 DEF NodeNewBlock
        <3>3. /\ Notification(nodeSub, head') \in Frame
              /\ Notification(nodeSub, head').num # 0 /\ Notification(nodeSub, head').sub = nodeSub
            BY <3>1 DEF Notification, Frame
        <3> QED BY <3>2, <3>3
    <2>2. /\ Frames = 1..L /\ Frames' = 1..(L + 1)
          /\ \A i \in Frames : inbox'[i] = inbox[i]
          /\ inbox'[L + 1] = m
        BY <1>0, <2>1, AppendProperties DEF IInv, TypeOK, Frames
    <2>3. /\ \A i \in Frames' : i \in Frames \/ i = L + 1
          /\ \A i \in Frames : i \in Frames'
        BY <2>2
    <2>4. \A i \in Frames : IsAnswer(i)' = IsAnswer(i) /\ IsNote(i)' = IsNote(i)
        BY <2>2 DEF IsAnswer, IsNote
    <2>5. ~IsAnswer(L + 1)'
        BY <2>1, <2>2 DEF IsAnswer
    <2>6. Recognised'
        BY <1>1, <1>2, <2>2, <2>3, <2>4, <2>5 DEF GrantInv, Recognised
    <2>7. \A sub : Granted(sub) \/ ToBeGranted(sub) => Granted(sub)' \/ ToBeGranted(sub)'
        BY <1>1, <2>2, <2>3, <2>4, <2>5 DEF Granted, ToBeGranted
    <2>8. Served'
        <3>1. nodeSub' = nodeSub /\ inbox'[L + 1].sub = nodeSub
            BY <1>1, <2>1, <2>2
        <3>2. Granted(nodeSub)' \/ ToBeGranted(nodeSub)'
            BY <1>1, <1>4, <2>7 DEF GrantInv, Served
        <3>3. ASSUME NEW i \in Frames', IsNote(i)'
              PROVE  Granted(inbox[i].sub)' \/ ToBeGranted(inbox[i].sub)'
            <4>1. CASE i = L + 1
                BY <3>1, <3>2, <4>1
            <4>2. CASE i \in Frames
                BY <2>2, <2>4, <2>7, <3>3, <4>2 DEF GrantInv, Served
            <4> QED BY <2>3, <4>1, <4>2
        <3> QED BY <3>2, <3>3 DEF Served
    <2>9. CaredFor'
        BY <1>1, <1>2, <2>3, <2>4 DEF GrantInv, CaredFor
    <2> QED BY <2>6, <2>8, <2>9 DEF GrantInv
<1> QED BY <1>3, <1>4

\* The listener reads a frame: the answer makes known the id of the subscription.
LEMMA GrantRead ==
    ASSUME GrantInv, FeedInv, IInv, ReadFrame PROVE GrantInv'
<1> DEFINE m == inbox[1]
<1>0. PICK L \in Nat : L = Len(inbox)
    BY FramesTyped DEF IInv
<1>1. /\ L >= 1 /\ Frames = 1..L /\ Frames' = 1..(L - 1)
      /\ \A i \in Frames' : inbox'[i] = inbox[i + 1]
      /\ Head(inbox) = m
    <2>1. inbox \in Seq(Frame) /\ inbox # <<>> /\ inbox' = Tail(inbox)
        BY DEF IInv, TypeOK, ReadFrame
    <2>2. Len(inbox) \in Nat \ {0} /\ Len(inbox') = Len(inbox) - 1 /\ Head(inbox) = inbox[1]
        BY <2>1, EmptySeq, HeadTailProperties
    <2>3. \A i \in 1..Len(inbox') : inbox'[i] = inbox[i + 1]
        BY <2>1, HeadTailProperties
    <2> QED BY <1>0, <2>2, <2>3 DEF Frames
<1>2. /\ 1 \in Frames
      /\ \A i \in Frames' : i + 1 \in Frames /\ i + 1 # 1
      /\ \A i \in Frames : i = 1 \/ (i - 1 \in Frames' /\ i = (i - 1) + 1)
      /\ \A i, j \in Frames' : i + 1 = j + 1 => i = j
    BY <1>1
<1>3. /\ UNCHANGED <<requests, nodeSub, conn>>
      /\ listenPc = "read"
      /\ HandleReply(m) \/ HandleSubscribed(m) \/ HandleOther(m)
    BY <1>1 DEF ReadFrame
<1>4. Asked' = Asked
    BY <1>3 DEF Asked
<1>5. \A i \in Frames' : /\ IsAnswer(i)' = IsAnswer(i + 1)
                         /\ IsNote(i)' = IsNote(i + 1)
    BY <1>1 DEF IsAnswer, IsNote
<1>6. IsAnswer(1) => m.id = subCallId /\ m.id # 0
    BY <1>2 DEF GrantInv, Recognised, FeedInv, Framed, IsAnswer, IsNote, m
<1> HIDE DEF m
<1>7. CASE ~IsAnswer(1) /\ UNCHANGED <<subId, subCallId>>
    <2>1. Recognised'
        BY <1>1, <1>2, <1>3, <1>4, <1>5, <1>7 DEF GrantInv, Recognised
    <2>2. \A sub : Granted(sub) => Granted(sub)'
        BY <1>2, <1>5, <1>7 DEF Granted
    <2>3. ASSUME NEW sub, ToBeGranted(sub) PROVE ToBeGranted(sub)'
        <3>1. PICK j \in Frames : IsAnswer(j) /\ inbox[j].sub = sub
            BY <2>3 DEF ToBeGranted
        <3>2. j - 1 \in Frames' /\ j = (j - 1) + 1
            BY <1>2, <1>7, <3>1
        <3>3. IsAnswer(j - 1)' /\ inbox'[j - 1].sub = sub
            BY <1>1, <1>5, <3>1, <3>2
        <3> QED BY <3>2, <3>3 DEF ToBeGranted
    <2>4. Served'
        BY <1>1, <1>2, <1>3, <1>5, <2>2, <2>3 DEF GrantInv, Served
    <2>5. CaredFor'
        <3>1. (\E j \in Frames : IsAnswer(j)) => \E j \in Frames' : IsAnswer(j)'
            BY <1>2, <1>5, <1>7
        <3> QED BY <1>3, <1>4, <1>7, <3>1 DEF GrantInv, CaredFor, Renewing
    <2> QED BY <2>1, <2>4, <2>5 DEF GrantInv
<1>8. CASE HandleReply(m)
    <2>1. PICK p \in pending : p.id = m.id /\ p.ch \in Callers
        BY <1>8 DEF HandleReply, IsReply, IInv, TypeOK, Entry
    <2>2. p.id # 0 /\ p.id = callId[p.ch]
        BY DEF IInv, CallInv, Registered
    <2>3. m.id # subCallId
        BY <2>1, <2>2 DEF IInv, CallInv, IdsDistinct
    <2> QED BY <1>6, <1>7, <1>8, <2>3 DEF HandleReply, subVars
<1>9. CASE HandleOther(m)
    <2>1. ~IsAnswer(1)
        BY <1>6, <1>9 DEF HandleOther, IsSubscribed
    <2> QED BY <1>7, <1>9, <2>1 DEF HandleOther, subVars
<1>10. CASE HandleSubscribed(m)
    <2>1. m.id # 0 /\ m.id = subCallId /\ subId' = m.sub
        BY <1>10 DEF HandleSubscribed, IsSubscribed
    <2>2. IsAnswer(1)
        <3>1. Honest(m) /\ m.from \in Callers \cup {None}
            BY <1>2, MessagesTyped DEF IInv, CallInv, Travelling, Frames, m
        <3>2. m.from \notin Callers
            BY <2>1, <3>1, CallersAssumption DEF Honest, IInv, CallInv, IdsDistinct
        <3> QED BY <1>2, <2>1, <3>1, <3>2 DEF FeedInv, Framed, IsAnswer, IsNote, m
    <2>3. /\ Asked = {}
          /\ nodeSub \in {0, m.sub} /\ (conn = "up" => nodeSub = m.sub)
          /\ \A j \in Frames : IsAnswer(j) => j = 1
        BY <1>2, <2>2 DEF GrantInv, Recognised, m
    <2>4. \A j \in Frames' : ~IsAnswer(j)'
        BY <1>2, <1>5, <2>3
    <2>5. Recognised'
        BY <1>4, <2>3, <2>4 DEF Recognised
    <2>6. \A i \in Frames : IsNote(i) => inbox[i].sub = m.sub
        BY <1>2, <2>2, <2>3 DEF GrantInv, Served, Granted, ToBeGranted, m
    <2>7. Served'
        <3>1. \A i \in Frames' : IsNote(i)' => inbox'[i].sub = subId'
            BY <1>1, <1>2, <1>5, <2>1, <2>6
        <3>2. nodeSub' # 0 => nodeSub' = subId'
            BY <1>3, <2>1, <2>3
        <3> QED BY <2>4, <3>1, <3>2 DEF Served, Granted
    <2>8. CaredFor'
        BY <1>3, <2>1, <2>3 DEF CaredFor
    <2> QED BY <2>5, <2>7, <2>8 DEF GrantInv
<1> QED BY <1>3, <1>8, <1>9, <1>10

\* Somebody is subscribing only where nothing has been said.
LEMMA GrantAsking ==
    ASSUME GrantInv, FeedInv, consumerPc \in Beginning \/ listenPc \in Renewing,
           UNCHANGED <<inbox, subId, nodeSub, conn>>,
           \A r \in Asked' : r.id = subCallId', CaredFor'
    PROVE  GrantInv'
<1>1. nodeSub' = 0 /\ \A i \in Frames : ~IsAnswer(i) /\ ~IsNote(i)
    BY DEF FeedInv, Asking, Framed, Silent, Beginning, Renewing, IsAnswer, IsNote
<1>2. \A i \in Frames' : ~IsAnswer(i)' /\ ~IsNote(i)'
    BY <1>1 DEF Frames, IsAnswer, IsNote
<1> QED BY <1>1, <1>2, GrantFresh

LEMMA NextGrantInv == IInv /\ FeedInv /\ GrantInv /\ [Next]_vars => GrantInv'
<1> SUFFICES ASSUME IInv, FeedInv, GrantInv, [Next]_vars PROVE GrantInv'
    OBVIOUS
<1> USE DEF connVars, subVars, nodeVars, callVars, chanVars, consumerVars, listenVars
<1>1. ASSUME NEW c \in Callers, rpcCall(c) PROVE GrantInv'
    <2> USE <1>1 DEF rpcCall
    <2>1. Asked' = Asked
        BY CallersAssumption DEF Asked
    <2> QED BY <2>1, GrantUntouched DEF Renewing
<1>2. ASSUME NEW c \in Callers, SendRPCNoConn(c) PROVE GrantInv'
    <2> USE <1>2 DEF SendRPCNoConn
    <2>1. Asked' = Asked
        BY CallersAssumption DEF Asked
    <2> QED BY <2>1, GrantUntouched DEF Renewing
<1>3. ASSUME NEW c \in Callers, SendRPCRegister(c) PROVE GrantInv'
    <2> USE <1>3 DEF SendRPCRegister
    <2>1. Asked' = Asked
        BY CallersAssumption DEF Asked
    <2> QED BY <2>1, GrantUntouched DEF Renewing
<1>4. ASSUME NEW c \in Callers, SendRPCBadArgs(c) PROVE GrantInv'
    <2> USE <1>4 DEF SendRPCBadArgs
    <2>1. Asked' = Asked
        BY CallersAssumption DEF Asked
    <2> QED BY <2>1, GrantUntouched DEF Renewing
<1>5. ASSUME NEW c \in Callers, SendRPCWrite(c) PROVE GrantInv'
    <2> USE <1>5 DEF SendRPCWrite, WriteOK, WriteFails
    <2>1. Asked' = Asked
        BY CallersAssumption DEF Asked
    <2> QED BY <2>1, GrantUntouched DEF Renewing
<1>6. ASSUME NEW c \in Callers, RPCReturn(c) PROVE GrantInv'
    <2> USE <1>6 DEF RPCReturn
    <2>1. Asked' = Asked
        BY CallersAssumption DEF Asked
    <2> QED BY <2>1, GrantUntouched DEF Renewing
<1>7. ASSUME ListenStart PROVE GrantInv'
    <2> USE <1>7 DEF ListenStart
    <2>1. Asked' = Asked
        BY CallersAssumption DEF Asked
    <2> QED BY <2>1, GrantUntouched DEF Renewing
<1>8. ASSUME ListenCheck PROVE GrantInv'
    <2> USE <1>8 DEF ListenCheck
    <2>1. Asked' = Asked
        BY CallersAssumption DEF Asked
    <2> QED BY <2>1, GrantUntouched DEF Renewing
<1>9. ASSUME DialLock PROVE GrantInv'
    <2> USE <1>9 DEF DialLock
    <2>1. Asked' = Asked
        BY CallersAssumption DEF Asked
    <2> QED BY <2>1, GrantUntouched DEF Renewing
<1>10. ASSUME DialFails PROVE GrantInv'
    <2> USE <1>10 DEF DialFails
    <2>1. Asked' = Asked
        BY CallersAssumption DEF Asked
    <2> QED BY <2>1, GrantUntouched DEF Renewing
<1>11. ASSUME ReadError PROVE GrantInv'
    <2> USE <1>11 DEF ReadError
    <2>1. Asked' = Asked
        BY CallersAssumption DEF Asked
    <2> QED BY <2>1, GrantUntouched DEF Renewing
<1>12. ASSUME Handover PROVE GrantInv'
    <2> USE <1>12 DEF Handover
    <2>1. Asked' = Asked
        BY CallersAssumption DEF Asked
    <2> QED BY <2>1, GrantUntouched DEF Renewing
<1>13. ASSUME SubscribeNoConn PROVE GrantInv'
    <2> USE <1>13 DEF SubscribeNoConn
    <2>1. Asked' = Asked
        BY CallersAssumption DEF Asked
    <2> QED BY <2>1, GrantUntouched DEF Renewing
<1>14. ASSUME ConsumerStep PROVE GrantInv'
    <2> USE <1>14 DEF ConsumerStep
    <2>1. Asked' = Asked
        BY CallersAssumption DEF Asked
    <2> QED BY <2>1, GrantUntouched DEF Renewing
<1>15. ASSUME StopClose PROVE GrantInv'
    <2> USE <1>15 DEF StopClose
    <2>1. Asked' = Asked
        BY CallersAssumption DEF Asked
    <2> QED BY <2>1, GrantUntouched DEF Renewing
<1>16. ASSUME StopWait PROVE GrantInv'
    <2> USE <1>16 DEF StopWait
    <2>1. Asked' = Asked
        BY CallersAssumption DEF Asked
    <2> QED BY <2>1, GrantUntouched DEF Renewing
<1>17. ASSUME Resubscribe PROVE GrantInv'
    <2> USE <1>17 DEF Resubscribe, SubscribeLock
    <2>1. Asked' = {}
        BY DEF FeedInv, Asking, Silent, Asked
    <2>2. CaredFor'
        BY DEF CaredFor, Renewing
    <2> QED BY <2>1, <2>2, GrantAsking DEF Renewing
<1>18. ASSUME SubscribeChainHead PROVE GrantInv'
    <2> USE <1>18 DEF SubscribeChainHead, SubscribeLock
    <2>1. Asked' = {} /\ subId' = 0
        BY DEF FeedInv, Asking, Silent, Asked
    <2>2. CaredFor'
        BY <2>1 DEF CaredFor
    <2> QED BY <2>1, <2>2, GrantAsking DEF Beginning
<1>19. ASSUME ResubscribeWrite PROVE GrantInv'
    <2> USE <1>19 DEF ResubscribeWrite, SubscribeWrite, WriteOK, WriteFails
    <2>1. Asked = {}
        BY DEF FeedInv, Asking, Silent
    <2>2. Asked' \subseteq {[id |-> subCallId, from |-> None]}
        BY <2>1 DEF Asked
    <2>3. conn' = "up" => Asked' # {}
        <3>1. conn' = "up" => [id |-> subCallId, from |-> None] \in requests'
            OBVIOUS
        <3> QED BY <3>1 DEF Asked
    <2>4. CaredFor'
        BY <2>3 DEF CaredFor
    <2> QED BY <2>2, <2>4, GrantAsking DEF Renewing
<1>20. ASSUME SubscribeChainHeadWrite PROVE GrantInv'
    <2> USE <1>20 DEF SubscribeChainHeadWrite, SubscribeWrite, WriteOK, WriteFails
    <2>1. Asked = {} /\ subId' = 0
        BY DEF FeedInv, Asking, Silent
    <2>2. Asked' \subseteq {[id |-> subCallId, from |-> None]}
        BY <2>1 DEF Asked
    <2>3. CaredFor'
        BY <2>1 DEF CaredFor
    <2> QED BY <2>2, <2>3, GrantAsking DEF Beginning
<1>21. ASSUME DialOK PROVE GrantInv'
    <2> USE <1>21 DEF DialOK, NodeForgets, MustResubscribe
    <2>1. Frames' = {} /\ Asked' = {}
        BY DEF Frames, Asked
    <2>2. CaredFor'
        BY DEF CaredFor, Renewing
    <2> QED BY <2>1, <2>2, GrantFresh
<1>22. ASSUME resetConn PROVE GrantInv'
    <2> USE <1>22 DEF resetConn, NodeForgets
    <2>1. Frames' = {} /\ Asked' = {}
        BY DEF Frames, Asked
    <2>2. CaredFor'
        BY DEF CaredFor
    <2> QED BY <2>1, <2>2, GrantFresh
<1>23. ASSUME StopConn PROVE GrantInv'
    <2> USE <1>23 DEF StopConn, NodeForgets
    <2>1. Asked' = {} \/ (Asked' = Asked /\ UNCHANGED <<nodeSub, conn>>)
        BY DEF Asked
    <2> QED BY <2>1, GrantUntouched DEF Asked, Renewing
<1>24. ASSUME ConnDrops PROVE GrantInv'
    <2> USE <1>24 DEF ConnDrops, NodeForgets
    <2>1. Asked' = {}
        BY DEF Asked
    <2> QED BY <2>1, GrantUntouched DEF Renewing
<1>25. ASSUME ReadFrame PROVE GrantInv'
    BY <1>25, GrantRead
<1>26. ASSUME NodeAnswers PROVE GrantInv'
    BY <1>26, GrantAnswered
<1>27. ASSUME NodeNewBlock PROVE GrantInv'
    BY <1>27, GrantAnnounced
<1>28. ASSUME UNCHANGED vars PROVE GrantInv'
    <2> USE <1>28 DEF vars
    <2>1. Asked' = Asked
        BY CallersAssumption DEF Asked
    <2> QED BY <2>1, GrantUntouched DEF Renewing
<1> QED BY <1>1, <1>2, <1>3, <1>4, <1>5, <1>6, <1>7, <1>8, <1>9, <1>10, <1>11, <1>12, <1>13, <1>14, <1>15, <1>16, <1>17, <1>18, <1>19, <1>20, <1>21, <1>22, <1>23, <1>24, <1>25, <1>26, <1>27, <1>28 DEF Next, Caller, Listener, Consumer, Environment

LEMMA AlwaysGrantInv == Spec => [](IInv /\ FeedInv /\ GrantInv)
<1>1. Init => IInv /\ FeedInv /\ GrantInv
    <2> SUFFICES ASSUME Init PROVE GrantInv
        BY InitIInv, InitFeedInv
    <2>1. Frames = {} /\ Asked = {} /\ nodeSub = 0 /\ subId = 0
        BY DEF Init, Frames, Asked
    <2> QED BY <2>1 DEF GrantInv, Recognised, Served, CaredFor
<1>2. IInv /\ FeedInv /\ GrantInv /\ [Next]_vars => (IInv /\ FeedInv /\ GrantInv)'
    BY NextIInv, NextFeedInv, NextGrantInv
<1> QED BY <1>1, <1>2, PTL DEF Spec

-----------------------------------------------------------------------------
(* The theorems                                                            *)

\* Block numbers reach the consumer in strictly increasing order, across any
\* number of reconnections, refusals and renewed subscriptions.
THEOREM HeadersInOrder == Spec => []FeedInOrder
<1>1. FeedInv => FeedInOrder
    BY DEF FeedInv, Delivered
<1> QED BY <1>1, AlwaysFeedInv, PTL

\* On one connection no header is skipped.
THEOREM NoGapOnConnection == Spec => []GapOnlyAtReconnect
<1>1. FeedInv => GapOnlyAtReconnect
    BY DEF FeedInv, Delivered
<1> QED BY <1>1, AlwaysFeedInv, PTL

\* The consumer's subscription and its renewals never become two on one connection.
THEOREM SubscribedOnce == Spec => []OneSubscription
<1>1. FeedInv => OneSubscription
    BY DEF FeedInv, Asking
<1> QED BY <1>1, AlwaysFeedInv, PTL

\* A client that was subscribed once is, on every connection that stands, subscribed
\* under the id it knows or about to be: the listener's renewal after a redial, the
\* answers under recycled call ids and refusals never lose the subscription.
THEOREM SubscriptionIsKept == Spec => []SubscriptionKept
<1>1. ASSUME IInv, FeedInv, GrantInv PROVE SubscriptionKept
    <2> SUFFICES ASSUME conn = "up", subId # 0, nodeSub # subId, listenPc \notin Renewing
                 PROVE  /\ subCallId # 0
                        /\ \E m \in requests \cup {inbox[k] : k \in DOMAIN inbox} :
                               m.from = None /\ m.id = subCallId
        BY DEF SubscriptionKept, Renewing
    <2>1. CASE Asked # {}
        <3>1. PICK r \in Asked : TRUE
            BY <2>1
        <3>2. r \in requests /\ r.from = None /\ r.id = subCallId /\ r.id # 0
            BY <1>1, <3>1 DEF Asked, GrantInv, Recognised, FeedInv, Asking
        <3> QED BY <3>2
    <2>2. CASE \E j \in Frames : IsAnswer(j)
        <3>1. PICK j \in Frames : IsAnswer(j)
            BY <2>2
        <3>2. j \in DOMAIN inbox
            BY <1>1 DEF IInv, TypeOK, Frames
        <3>3. inbox[j].from = None /\ inbox[j].id = subCallId /\ inbox[j].id # 0
            BY <1>1, <3>1 DEF IsAnswer, IsNote, GrantInv, Recognised, FeedInv, Framed
        <3> QED BY <3>2, <3>3
    <2> QED BY <1>1, <2>1, <2>2 DEF GrantInv, CaredFor
<1> QED BY <1>1, AlwaysGrantInv, PTL

\* Every header that is read is handed over next: none arrives before its
\* subscription's id is known, and none is taken for an answer.
THEOREM HeadersAllDelivered == Spec => NothingDiscarded
<1>1. ASSUME IInv, FeedInv, GrantInv, ReadFrame, Head(inbox).num # 0
      PROVE  listenPc' = "deliver" /\ outgoing' = Head(inbox).num
    <2> DEFINE m == Head(inbox)
    <2>1. 1 \in Frames /\ m = inbox[1]
        <3>1. inbox \in Seq(Frame) /\ inbox # <<>>
            BY <1>1 DEF IInv, TypeOK, ReadFrame
        <3> QED BY <3>1, EmptySeq, HeadTailProperties DEF Frames
    <2>2. IsNote(1) /\ m.id = 0 /\ m.sub # 0
        BY <1>1, <2>1 DEF FeedInv, Framed, IsNote
    <2>3. \A j \in Frames : ~IsAnswer(j)
        <3>1. \A j \in Frames : j = 1 \/ j > 1
            BY <1>1, FramesTyped DEF IInv, Frames
        <3> QED BY <1>1, <2>1, <2>2, <3>1 DEF FeedInv, Announcing, IsAnswer, IsNote
    <2>4. m.sub = subId
        BY <1>1, <2>1, <2>2, <2>3 DEF GrantInv, Served, Granted, ToBeGranted
    <2>5. ~IsReply(m)
        BY <1>1, <2>2 DEF IsReply, IInv, CallInv, Registered
    <2>6. ~IsSubscribed(m) /\ IsHead(m)
        BY <2>2, <2>4 DEF IsSubscribed, IsHead
    <2> QED BY <1>1, <2>5, <2>6 DEF ReadFrame, HandleReply, HandleSubscribed, HandleOther
<1>2. IInv /\ FeedInv /\ GrantInv /\ [Next]_vars =>
          [ReadFrame /\ Head(inbox).num # 0 =>
              listenPc' = "deliver" /\ outgoing' = Head(inbox).num]_vars
    BY <1>1
<1> QED BY <1>2, AlwaysGrantInv, PTL DEF Spec, NothingDiscarded

\* The client implements the feed its consumer relies on: every step of it is a
\* delivery that may follow, a redial, the end, or nothing the consumer can see.
THEOREM ClientImplementsFeed == Spec => ImplementsFeed
<1>1. Init => HeaderFeed!Init
    BY DEF Init, HeaderFeed!Init
<1>2. IInv /\ FeedInv /\ [Next]_vars => [HeaderFeed!Next]_HeaderFeed!vars
    <2> SUFFICES ASSUME IInv, FeedInv, [Next]_vars
                 PROVE  [HeaderFeed!Next]_HeaderFeed!vars
        OBVIOUS
    <2> USE DEF connVars, consumerVars
    <2>1. CASE Handover
        <3>1. consumerPc = "receiving" /\ consumerPc' = "busy" /\ dials' = dials
            BY <2>1 DEF Handover
        <3>2. outgoing \in 1..MaxHead
            BY <2>1, BoundsAssumption, FramesTyped DEF Handover, FeedInv, Delivered, IInv
        <3>3. HeaderFeed!Follows(outgoing)
            <4>1. feed # <<>> => Len(feed) \in DOMAIN feed
                BY FramesTyped DEF IInv
            <4>2. \A k \in DOMAIN feed : feed[k].num < outgoing /\ feed[k].num \in Nat
                BY <2>1, FramesTyped DEF Handover, FeedInv, Delivered, IInv
            <4> QED BY <2>1, <3>2, <4>1, <4>2 DEF Handover, FeedInv, Delivered, HeaderFeed!Follows, HeaderFeed!Latest
        <3>4. HeaderFeed!Deliver(outgoing)
            BY <2>1, <3>1, <3>3 DEF Handover, HeaderFeed!Deliver
        <3> QED BY <3>2, <3>4 DEF HeaderFeed!Next
    <2>2. CASE DialOK
        <3>1. consumerPc # "stopped" /\ consumerPc' = consumerPc /\ feed' = feed /\ dials' = dials + 1
            BY <2>2 DEF DialOK, IInv, Counted, QuietAfterStop
        <3> QED BY <3>1 DEF HeaderFeed!Redial, HeaderFeed!Next
    <2>3. CASE StopWait
        BY <2>3 DEF StopWait, HeaderFeed!End, HeaderFeed!Next
    <2>4. CASE ~Handover /\ ~DialOK /\ ~StopWait
        <3>1. UNCHANGED <<feed, dials>> /\ (consumerPc' = "stopped" <=> consumerPc = "stopped")
            <4>1. ASSUME NEW c \in Callers, Caller(c) PROVE UNCHANGED <<feed, dials, consumerPc>>
                BY <4>1 DEF Caller, rpcCall, SendRPCNoConn, SendRPCRegister, SendRPCBadArgs, SendRPCWrite, RPCReturn
            <4>2. ASSUME Listener PROVE UNCHANGED <<feed, dials, consumerPc>>
                BY <2>4, <4>2 DEF Listener, ListenStart, ListenCheck, DialLock, DialFails, Resubscribe,
                    ResubscribeWrite, ReadError, ReadFrame, resetConn
            <4>3. ASSUME Consumer
                  PROVE  UNCHANGED <<feed, dials>> /\ consumerPc # "stopped" /\ consumerPc' # "stopped"
                BY <2>4, <4>3 DEF Consumer, SubscribeNoConn, SubscribeChainHead, SubscribeChainHeadWrite,
                    ConsumerStep, StopClose, StopConn
            <4>4. ASSUME Environment PROVE UNCHANGED <<feed, dials, consumerPc>>
                BY <4>4 DEF Environment, NodeAnswers, NodeNewBlock, ConnDrops
            <4>5. ASSUME UNCHANGED vars PROVE UNCHANGED <<feed, dials, consumerPc>>
                BY <4>5 DEF vars
            <4> QED BY <4>1, <4>2, <4>3, <4>4, <4>5 DEF Next
        <3> QED BY <3>1 DEF HeaderFeed!vars
    <2> QED BY <2>1, <2>2, <2>3, <2>4
<1> QED BY <1>1, <1>2, AlwaysFeedInv, PTL DEF Spec, ImplementsFeed, HeaderFeed!Spec

=============================================================================
