------------------------------ MODULE L2Switch ------------------------------
(***************************************************************************)
(* What the TAP hub promises to the sessions attached to it, without       *)
(* clocks, counters, limits or locks: a learning switch that keeps its     *)
(* networks apart.  A port is a live session's socket.  An address of a    *)
(* network has at most one owner; it becomes owned only by sending, and    *)
(* the switch may forget an owner at any time.                             *)
(***************************************************************************)
EXTENDS Integers

CONSTANTS Ports, Networks, Macs, Groups

VARIABLES
    attached,  \* attached ports with their network
    owner,     \* who owns an address: a set of [net, mac, port]
    delivered  \* the sender and the receivers of the frame forwarded last

vars == <<attached, owner, delivered>>

NoDelivery(d) == d.to = {}

Init ==
    /\ attached = {}
    /\ owner = {}
    /\ NoDelivery(delivered)

Attach(p, n) ==
    /\ \A a \in attached : a.port # p
    /\ attached' = attached \cup {[port |-> p, net |-> n]}
    /\ NoDelivery(delivered')
    /\ UNCHANGED owner

\* A port that leaves takes its addresses with it.
Detach(p) ==
    /\ \E a \in attached : a.port = p
    /\ attached' = {a \in attached : a.port # p}
    /\ owner' = {o \in owner : o.port # p}
    /\ NoDelivery(delivered')

\* Where a frame from port a may go: to the owner of its destination or, when
\* nobody owns it, to the other ports of the network.
Reach(a, owners, dst) ==
    LET known == {o.port : o \in {w \in owners : w.net = a.net /\ w.mac = dst}}
    IN (IF known # {} THEN known
        ELSE {b.port : b \in {c \in attached : c.net = a.net}}) \ {a.port}

\* After a frame from a, the owners are some of those known before, and
\* possibly a as the only owner of the source address.
MayLearn(a, src, owners) ==
    LET me == [net |-> a.net, mac |-> src, port |-> a.port]
    IN /\ owners \subseteq owner \cup {me}
       /\ me \in owners => \A o \in owners : o.net = a.net /\ o.mac = src => o = me

\* A frame is delivered only if its source address is not somebody else's.
Forward(a, src, dst) ==
    /\ a \in attached
    /\ MayLearn(a, src, owner')
    /\ delivered'.from = a.port
    /\ delivered'.to \subseteq Reach(a, owner', dst)
    /\ NoDelivery(delivered') \/ \A o \in owner' : o.net = a.net /\ o.mac = src => o.port = a.port
    /\ UNCHANGED attached

\* The switch may turn to something else than frames.
Rest ==
    /\ NoDelivery(delivered')
    /\ UNCHANGED <<attached, owner>>

Next ==
    \/ Rest
    \/ \E p \in Ports, n \in Networks : Attach(p, n)
    \/ \E p \in Ports : Detach(p)
    \/ \E a \in attached, src \in Macs \cup Groups, dst \in Macs \cup Groups : Forward(a, src, dst)

Spec == Init /\ [][Next]_vars
=============================================================================
