---------------------------- MODULE MCSocksAccess ----------------------------
(***************************************************************************)
(* Instances of SocksAccess for TLC.                                       *)
(***************************************************************************)
EXTENDS SocksAccess, TLC

Symmetry == Permutations(Clients) \cup Permutations(Handlers)

\* A start with every user and node in the tables, enabled and granted, as the
\* management leaves them: the bounds are then spent on streams.
InitServed ==
    /\ users = [u \in Users |-> TRUE]
    /\ nodes = [k \in Nodes |-> [enabled |-> TRUE, socks |-> TRUE]]
    /\ grants = [g \in Users \X Nodes |-> TRUE]
    /\ used = Users \cup Nodes
    /\ sessions = << >> /\ rows = << >> /\ made = 0
    /\ link = [h \in Handlers |-> NoLink] /\ todo = [h \in Handlers |-> {}]
    /\ pc = All("off") /\ auth = All(Nobody)
    /\ via = All(0) /\ num = All(0) /\ row = All(0) /\ opened = All(0)
    /\ entry = All(NoEntry)
    /\ next = 1
    /\ clock = 1
    /\ lost = {}

\* Of the management, only deletion reaches the streams that run.
NextServed ==
    \/ \E u \in Users : DeleteSocksUser(u)
    \/ \E k \in Nodes : DeleteNode(k)
    \/ \E c \in Clients : Client(c)
    \/ \E h \in Handlers : Handler(h)
    \/ Restart
    \/ Tick

SpecServed == InitServed /\ [][NextServed]_vars
=============================================================================
