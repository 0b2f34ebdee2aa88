------------------------------ MODULE Channel -------------------------------
(***************************************************************************)
(* What the transport promises RspTarget: the stub's packets arrive in the *)
(* order in which they were sent, each once, and are sorted into a queue   *)
(* of stop packets and a queue of replies.  The i-th packet is number i.   *)
(* An end of the connection leaves packets out, and only at the end.       *)
(***************************************************************************)
EXTENDS Naturals, Sequences

VARIABLES
    sent,       \* the kinds of the packets sent: "stop" or "data"
    stops,      \* numbers of the packets put into the queue of stops
    replies     \* ... and of replies

channelVars == <<sent, stops, replies>>

Init == sent = <<>> /\ stops = <<>> /\ replies = <<>>

Send ==
    /\ \E kind \in {"stop", "data"} : sent' = Append(sent, kind)
    /\ UNCHANGED <<stops, replies>>

Arriving == Len(stops) + Len(replies) + 1

DeliverStop ==
    /\ Arriving \in DOMAIN sent /\ sent[Arriving] = "stop"
    /\ stops' = Append(stops, Arriving)
    /\ UNCHANGED <<sent, replies>>

DeliverReply ==
    /\ Arriving \in DOMAIN sent /\ sent[Arriving] = "data"
    /\ replies' = Append(replies, Arriving)
    /\ UNCHANGED <<sent, stops>>

Next == Send \/ DeliverStop \/ DeliverReply

Spec == Init /\ [][Next]_channelVars
=============================================================================
