-------------------------------- MODULE Feed --------------------------------
(***************************************************************************)
(* What the client of client/quorum.go promises the goroutine that passes  *)
(* a channel to SubscribeChainHead: headers arrive one at a time, in       *)
(* increasing order, and one is skipped only where the client has dialled  *)
(* the node again.  Once Stop has returned nothing happens any more.       *)
(***************************************************************************)
EXTENDS Naturals, Sequences

CONSTANT Numbers    \* the block numbers the node may announce

VARIABLES
    seen,        \* the headers handed over, each with the connection it came by
    connection,  \* how often the node has been dialled
    ended        \* Stop has returned

vars == <<seen, connection, ended>>

Init == seen = <<>> /\ connection = 1 /\ ended = FALSE

Latest == seen[Len(seen)]

\* What may come after the latest header.
Follows(n) ==
    seen # <<>> => IF Latest.dial = connection THEN n = Latest.num + 1
                                               ELSE n > Latest.num

Deliver(n) ==
    /\ ~ended /\ Follows(n)
    /\ seen' = Append(seen, [num |-> n, dial |-> connection])
    /\ UNCHANGED <<connection, ended>>

Redial ==
    /\ ~ended
    /\ connection' = connection + 1
    /\ UNCHANGED <<seen, ended>>

End ==
    /\ ~ended
    /\ ended' = TRUE
    /\ UNCHANGED <<seen, connection>>

Next == (\E n \in Numbers : Deliver(n)) \/ Redial \/ End

Spec == Init /\ [][Next]_vars

=============================================================================
