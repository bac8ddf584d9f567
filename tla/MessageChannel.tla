---------------------------- MODULE MessageChannel ----------------------------
(***************************************************************************)
(* What one direction of a connection promises to those who use it: the    *)
(* messages are received whole, unaltered, in the order in which they were *)
(* sent and none twice, up to the point where the connection breaks.  What *)
(* was sent before may still arrive; nothing is sent afterwards, so there  *)
(* is no gap that later messages could close over.                         *)
(***************************************************************************)
EXTENDS Naturals, Sequences

VARIABLES
    sent, \* the messages sent
    got,  \* the messages received
    up    \* FALSE once the connection is broken

ChannelInit ==
    /\ sent = <<>>
    /\ got = <<>>
    /\ up = TRUE

Send ==
    /\ up
    /\ Len(sent') = Len(sent) + 1
    /\ \A i \in DOMAIN sent : sent'[i] = sent[i]
    /\ UNCHANGED <<got, up>>

Receive ==
    /\ Len(got) < Len(sent)
    /\ got' = Append(got, sent[Len(got) + 1])
    /\ UNCHANGED <<sent, up>>

Break ==
    /\ up' = FALSE
    /\ UNCHANGED <<sent, got>>

ChannelNext == Send \/ Receive \/ Break

ChannelSpec == ChannelInit /\ [][ChannelNext]_<<sent, got, up>>
=============================================================================
