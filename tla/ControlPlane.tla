----------------------------- MODULE ControlPlane -----------------------------
(***************************************************************************)
(* Who may connect and who is shown as connected: the tables networks,     *)
(* nodes, tap_users, tap_grants and sessions of db_sqlite.c, the           *)
(* management process that changes them, and the handler threads of the    *)
(* server process, each of which goes through handle_node.                 *)
(*                                                                         *)
(* The processes share nothing but the database.  Every function of        *)
(* db_sqlite.c opens it, runs one statement or one transaction and closes  *)
(* it, so each is one step; handle_node calls several of them, and         *)
(* anything may happen in between.  A statement may fail (the database may *)
(* stay locked for longer than busy_timeout).                              *)
(*                                                                         *)
(* Nodes are found by their node_id, a name which the management may       *)
(* change, and not by the key of their row.  Left out: names of networks   *)
(* and users, keys and passwords (a peer that does not know them gives     *)
(* up), limits and options (see TapHub), times, byte counts, and SOCKS     *)
(* users and grants, which the same functions keep in tables of their own. *)
(***************************************************************************)
EXTENDS Integers, Sequences, FiniteSets, Functions

CONSTANTS
    Conns,      \* handler threads
    MaxNets,    \* bound: networks ever created, numbered as AUTOINCREMENT does
    Nodes,      \* keys of nodes ever created
    Names,      \* node_id
    Users,      \* keys of TAP users ever created
    MaxAccepts, \* bound: connections in one behaviour
    None

Nets == 1..MaxNets

ASSUME ControlAssumption ==
    /\ MaxNets \in Nat
    /\ MaxAccepts \in Nat
    /\ None \notin Names \cup Nodes \cup Users

VARIABLES
    nets,     \* networks: number -> enabled
    nodes,    \* nodes: key -> its row
    online,   \* keys of nodes whose column online is set
    users,    \* tap_users: key -> enabled
    grants,   \* tap_grants: <<user, network>> -> enabled
    used,     \* keys ever given out
    rows,     \* sessions
    open,     \* numbers of rows without ended_at
    pc,       \* pc[c]: where the handler c is
    peer,     \* peer[c]: whom it has authenticated
    cfg,      \* cfg[c]: the network of runtime_config
    row,      \* row[c]: db_session_id, or 0
    accepts,  \* connections so far
    stray,    \* nodes left online by something that nobody will undo
    doubt,    \* names whose online flag somebody else has reset
    lost      \* rows of sessions left open by a crash or a failed statement

database == <<nets, nodes, online, users, grants, used, rows, open>>
handlers == <<pc, peer, cfg, row>>
ghosts == <<stray, doubt, lost>>
vars == <<database, handlers, accepts, ghosts>>

Node == [name : Names, net : Nets, enabled : BOOLEAN]
Row == [node : Nodes \cup {None}, user : Users \cup {None}, net : Nets]
Peer == [name : Names \cup {None}, node : Nodes \cup {None}, user : Users \cup {None},
         net : Nets \cup {0}]

Nobody == [name |-> None, node |-> None, user |-> None, net |-> 0]

All(v) == [c \in Conns |-> v]

Init ==
    /\ nets = << >> /\ nodes = << >> /\ users = << >> /\ grants = << >>
    /\ online = {} /\ used = {}
    /\ rows = << >> /\ open = {}
    /\ pc = All("off") /\ peer = All(Nobody) /\ cfg = All(0) /\ row = All(0)
    /\ accepts = 0
    /\ stray = {} /\ doubt = {} /\ lost = {}

\* A table with row k put in, or with the rows in S taken out.
Put(table, k, v) == [i \in DOMAIN table \cup {k} |-> IF i = k THEN v ELSE table[i]]
Without(table, S) == Restrict(table, DOMAIN table \ S)

-----------------------------------------------------------------------------
(* The management process                                                  *)

\* Everything the management does leaves the server's threads and the rows of
\* sessions alone.
Managed(S) == UNCHANGED <<rows, open, handlers, accepts, lost>> /\ used' = used \cup S

\* AUTOINCREMENT: numbers go up and none is used again.
AddNetwork ==
    LET n == Cardinality(used \cap Nets) + 1
    IN /\ n \in Nets
       /\ nets' = Put(nets, n, TRUE)
       /\ Managed({n})
       /\ UNCHANGED <<nodes, online, users, grants, stray, doubt>>

SetNetworkEnabled(n, b) ==
    /\ n \in DOMAIN nets
    /\ nets' = [nets EXCEPT ![n] = b]
    /\ Managed({})
    /\ UNCHANGED <<nodes, online, users, grants, stray, doubt>>

\* ON DELETE RESTRICT for nodes, ON DELETE CASCADE for grants.
DeleteNetwork(n) ==
    /\ n \in DOMAIN nets
    /\ \A k \in DOMAIN nodes : nodes[k].net # n
    /\ nets' = Without(nets, {n})
    /\ grants' = Without(grants, Users \X {n})
    /\ Managed({})
    /\ UNCHANGED <<nodes, online, users, stray, doubt>>

\* UNIQUE(node_id), and the network must exist.
Admissible(k, name, n) ==
    /\ n \in DOMAIN nets
    /\ \A j \in DOMAIN nodes \ {k} : nodes[j].name # name

AddNode(k, name, n) ==
    /\ k \notin used
    /\ Admissible(k, name, n)
    /\ nodes' = Put(nodes, k, [name |-> name, net |-> n, enabled |-> TRUE])
    /\ doubt' = doubt \cup {name}
    /\ Managed({k})
    /\ UNCHANGED <<nets, online, users, grants, stray>>

\* The flag `online' stays with the row under its new name.
EditNode(k, name, n) ==
    /\ k \in DOMAIN nodes
    /\ Admissible(k, name, n)
    /\ nodes' = [nodes EXCEPT ![k] = [name |-> name, net |-> n, enabled |-> nodes[k].enabled]]
    /\ IF name = nodes[k].name
       THEN UNCHANGED <<stray, doubt>>
       ELSE stray' = stray \cup (online \cap {k}) /\ doubt' = doubt \cup {name}
    /\ Managed({})
    /\ UNCHANGED <<nets, online, users, grants>>

\* Disabling takes the node's flag away, whoever is connected.
SetNodeEnabled(k, b) ==
    /\ k \in DOMAIN nodes
    /\ nodes' = [nodes EXCEPT ![k] = [name |-> nodes[k].name, net |-> nodes[k].net,
                                      enabled |-> b]]
    /\ IF b
       THEN UNCHANGED <<online, stray, doubt>>
       ELSE /\ online' = online \ {k}
            /\ stray' = stray \ {k}
            /\ doubt' = doubt \cup {nodes[k].name}
    /\ Managed({})
    /\ UNCHANGED <<nets, users, grants>>

DeleteNode(k) ==
    /\ k \in DOMAIN nodes
    /\ nodes' = Without(nodes, {k})
    /\ online' = online \ {k}
    /\ stray' = stray \ {k}
    /\ Managed({})
    /\ UNCHANGED <<nets, users, grants, doubt>>

\* The user and its first grant, in one transaction.
AddTapUser(u, n) ==
    /\ u \notin used
    /\ n \in DOMAIN nets
    /\ users' = Put(users, u, TRUE)
    /\ grants' = Put(grants, <<u, n>>, TRUE)
    /\ Managed({u})
    /\ UNCHANGED <<nets, nodes, online, stray, doubt>>

SetTapUserEnabled(u, b) ==
    /\ u \in DOMAIN users
    /\ users' = [users EXCEPT ![u] = b]
    /\ Managed({})
    /\ UNCHANGED <<nets, nodes, online, grants, stray, doubt>>

DeleteTapUser(u) ==
    /\ u \in DOMAIN users
    /\ users' = Without(users, {u})
    /\ grants' = Without(grants, {u} \X Nets)
    /\ Managed({})
    /\ UNCHANGED <<nets, nodes, online, stray, doubt>>

\* A new grant, or an old one enabled again.
GrantTapUser(u, n) ==
    /\ u \in DOMAIN users /\ n \in DOMAIN nets
    /\ grants' = Put(grants, <<u, n>>, TRUE)
    /\ Managed({})
    /\ UNCHANGED <<nets, nodes, online, users, stray, doubt>>

RevokeTapUser(u, n) ==
    /\ <<u, n>> \in DOMAIN grants
    /\ grants' = [grants EXCEPT ![<<u, n>>] = FALSE]
    /\ Managed({})
    /\ UNCHANGED <<nets, nodes, online, users, stray, doubt>>

-----------------------------------------------------------------------------
(* handle_node: handshake                                                  *)

Goto(c, l) == pc' = [pc EXCEPT ![c] = l]

\* Handlers that have set their node's flag and will reset it.
Holders == {c \in Conns : peer[c].node # None
                          /\ pc[c] \in {"row", "register", "live", "ending", "offline"}}

Named(name) == {k \in DOMAIN nodes : nodes[k].name = name}

Accept(c) ==
    /\ pc[c] = "off"
    /\ accepts < MaxAccepts
    /\ accepts' = accepts + 1
    /\ Goto(c, "auth")
    /\ peer' = [peer EXCEPT ![c] = Nobody]
    /\ cfg' = [cfg EXCEPT ![c] = 0]
    /\ row' = [row EXCEPT ![c] = 0]
    /\ UNCHANGED <<database, ghosts>>

\* The peer leaves or fails, a message cannot be sent, or a statement fails,
\* before anything was written.
GiveUp(c) ==
    /\ pc[c] \in {"auth", "config", "online"}
    /\ Goto(c, "off")
    /\ UNCHANGED <<database, peer, cfg, row, accepts, ghosts>>

\* ntap_a_db_get_node_auth
GetNodeAuth(c, name) ==
    /\ pc[c] = "auth"
    /\ \E k \in Named(name) :
          /\ nodes[k].enabled
          /\ peer' = [peer EXCEPT ![c] = [name |-> name, node |-> k, user |-> None,
                                          net |-> nodes[k].net]]
    /\ Goto(c, "config")
    /\ UNCHANGED <<database, cfg, row, accepts, ghosts>>

\* ntap_a_db_get_node_runtime_config looks the name up again; the network must
\* be enabled and still the one of the first answer.
GetNodeConfig(c) ==
    /\ pc[c] = "config" /\ peer[c].node # None
    /\ \E k \in Named(peer[c].name) :
          /\ nets[nodes[k].net]
          /\ nodes[k].net = peer[c].net
          /\ cfg' = [cfg EXCEPT ![c] = nodes[k].net]
    /\ Goto(c, "online")
    /\ UNCHANGED <<database, peer, row, accepts, ghosts>>

\* ntap_a_db_set_node_online: no row with that name is no error.
SetOnline(name, b) == online' = IF b THEN online \cup Named(name) ELSE online \ Named(name)

ComeOnline(c) ==
    /\ pc[c] = "online"
    /\ SetOnline(peer[c].name, TRUE)
    /\ doubt' = doubt \ {peer[c].name}
    /\ Goto(c, "row")
    /\ UNCHANGED <<nets, nodes, users, grants, used, rows, open, peer, cfg, row, accepts,
                   stray, lost>>

\* ntap_a_db_get_tap_auth: of the user's grants in enabled networks, for the
\* network asked for or for any (0), the one with the lowest number is looked
\* at, and it, and the user, must be enabled.
GetTapAuth(c, u, asked) ==
    /\ pc[c] = "auth"
    /\ u \in DOMAIN users /\ users[u]
    /\ LET granted == {n \in DOMAIN nets : <<u, n>> \in DOMAIN grants /\ nets[n]
                                           /\ asked \in {0, n}}
       IN \E n \in granted :
             /\ \A m \in granted : n <= m
             /\ grants[<<u, n>>]
             /\ peer' = [peer EXCEPT ![c] = [name |-> None, node |-> None, user |-> u,
                                             net |-> n]]
    /\ Goto(c, "config")
    /\ UNCHANGED <<database, cfg, row, accepts, ghosts>>

\* ntap_a_db_get_tap_runtime_config
GetTapConfig(c) ==
    /\ pc[c] = "config" /\ peer[c].user # None
    /\ peer[c].net \in DOMAIN nets /\ nets[peer[c].net]
    /\ cfg' = [cfg EXCEPT ![c] = peer[c].net]
    /\ Goto(c, "row")
    /\ UNCHANGED <<database, peer, row, accepts, ghosts>>

\* Where a handler goes once its row is dealt with.
AfterRow(c) == IF peer[c].node # None THEN "offline" ELSE "off"

RowOf(c) == [node |-> peer[c].node, user |-> peer[c].user, net |-> peer[c].net]

\* ntap_a_db_session_start: the table has no foreign keys, so the row is
\* written even if node, user or network is gone by now.
StartRow(c) ==
    /\ pc[c] = "row"
    /\ rows' = Append(rows, RowOf(c))
    /\ open' = open \cup {Len(rows) + 1}
    /\ row' = [row EXCEPT ![c] = Len(rows) + 1]
    /\ Goto(c, "register")
    /\ UNCHANGED <<nets, nodes, online, users, grants, used, peer, cfg, accepts, ghosts>>

\* Faulty variant: the node is left online.
StartRowFails_KeepsOnline(c) ==
    /\ pc[c] = "row"
    /\ Goto(c, "off")
    /\ UNCHANGED <<database, peer, cfg, row, accepts, ghosts>>

StartRowFails(c) ==
    /\ pc[c] = "row"
    /\ Goto(c, AfterRow(c))
    /\ UNCHANGED <<database, peer, cfg, row, accepts, ghosts>>

Register(c) ==
    /\ pc[c] = "register"
    /\ Goto(c, "live")
    /\ UNCHANGED <<database, peer, cfg, row, accepts, ghosts>>

\* Faulty variant: the row is left open.
RegisterFails_KeepsRow(c) ==
    /\ pc[c] = "register"
    /\ Goto(c, AfterRow(c))
    /\ UNCHANGED <<database, peer, cfg, row, accepts, ghosts>>

RegisterFails(c) ==
    /\ pc[c] = "register"
    /\ Goto(c, "ending")
    /\ UNCHANGED <<database, peer, cfg, row, accepts, ghosts>>

-----------------------------------------------------------------------------
(* handle_node: the loop and the end                                       *)

\* Faulty variant: the flag is written before the old value was looked at.
Ping_Toggles(c) ==
    /\ pc[c] = "live" /\ peer[c].node # None
    /\ SetOnline(peer[c].name, Named(peer[c].name) \cap online = {})
    /\ doubt' = doubt \ {peer[c].name}
    /\ UNCHANGED <<nets, nodes, users, grants, used, rows, open, handlers, accepts, stray,
                   lost>>

\* A PING of a node, which may have been disabled in the meantime.
Ping(c) ==
    /\ pc[c] = "live" /\ peer[c].node # None
    /\ SetOnline(peer[c].name, TRUE)
    /\ doubt' = doubt \ {peer[c].name}
    /\ UNCHANGED <<nets, nodes, users, grants, used, rows, open, handlers, accepts, stray,
                   lost>>

\* The peer hangs up, sends something invalid, or a statement fails.
Leave(c) ==
    /\ pc[c] = "live"
    /\ Goto(c, "ending")
    /\ UNCHANGED <<database, peer, cfg, row, accepts, ghosts>>

\* ntap_a_db_session_end; if it fails, the error is only logged.
EndRow(c) ==
    /\ pc[c] = "ending"
    /\ \/ open' = open \ {row[c]} /\ UNCHANGED lost
       \/ lost' = lost \cup {row[c]} /\ UNCHANGED open
    /\ Goto(c, AfterRow(c))
    /\ UNCHANGED <<nets, nodes, online, users, grants, used, rows, peer, cfg, row, accepts,
                   stray, doubt>>

\* Faulty variant: only the session that came last marks the node offline.
GoOffline_LastOnly(c) ==
    /\ pc[c] = "offline"
    /\ IF row[c] = Len(rows)
       THEN /\ SetOnline(peer[c].name, FALSE)
            /\ stray' = stray \ Named(peer[c].name)
       ELSE UNCHANGED <<online, stray>>
    /\ Goto(c, "off")
    /\ UNCHANGED <<nets, nodes, users, grants, used, rows, open, peer, cfg, row, accepts,
                   doubt, lost>>

\* The node is marked offline, also if it has another session.
GoOffline(c) ==
    /\ pc[c] = "offline"
    /\ SetOnline(peer[c].name, FALSE)
    /\ stray' = stray \ Named(peer[c].name)
    /\ doubt' = doubt \cup {peer[d].name : d \in {d \in Holders \ {c} :
                                                     peer[d].name = peer[c].name}}
    /\ Goto(c, "off")
    /\ UNCHANGED <<nets, nodes, users, grants, used, rows, open, peer, cfg, row, accepts,
                   lost>>

OfflineFails(c) ==
    /\ pc[c] = "offline"
    /\ stray' = stray \cup (online \cap Named(peer[c].name))
    /\ Goto(c, "off")
    /\ UNCHANGED <<database, peer, cfg, row, accepts, doubt, lost>>

\* The server process ends and starts again: no statement repairs the tables.
Restart ==
    /\ pc' = All("off") /\ peer' = All(Nobody) /\ cfg' = All(0) /\ row' = All(0)
    /\ stray' = online
    /\ lost' = open
    /\ UNCHANGED <<database, accepts, doubt>>

-----------------------------------------------------------------------------
Manage ==
    \/ AddNetwork
    \/ \E n \in Nets :
          \/ DeleteNetwork(n)
          \/ \E b \in BOOLEAN : SetNetworkEnabled(n, b)
          \/ \E k \in Nodes, name \in Names : AddNode(k, name, n) \/ EditNode(k, name, n)
          \/ \E u \in Users : AddTapUser(u, n) \/ GrantTapUser(u, n) \/ RevokeTapUser(u, n)
    \/ \E k \in Nodes : DeleteNode(k) \/ \E b \in BOOLEAN : SetNodeEnabled(k, b)
    \/ \E u \in Users : DeleteTapUser(u) \/ \E b \in BOOLEAN : SetTapUserEnabled(u, b)

\* Steps a handler takes without waiting for its peer.
Handler(c) ==
    \/ ComeOnline(c)
    \/ StartRow(c) \/ StartRowFails(c)
    \/ Register(c) \/ RegisterFails(c)
    \/ EndRow(c)
    \/ GoOffline(c) \/ OfflineFails(c)

Next ==
    \/ Manage
    \/ \E c \in Conns :
          \/ Accept(c) \/ GiveUp(c)
          \/ \E name \in Names : GetNodeAuth(c, name)
          \/ \E u \in Users, asked \in Nets \cup {0} : GetTapAuth(c, u, asked)
          \/ GetNodeConfig(c) \/ GetTapConfig(c)
          \/ Handler(c) \/ Ping(c) \/ Leave(c)
    \/ Restart

Spec == Init /\ [][Next]_vars

\* Handlers run; no peer is made to do anything.
FairSpec == Spec /\ \A c \in Conns : WF_vars(Handler(c))

-----------------------------------------------------------------------------
(* Correctness                                                             *)

\* Types, and the references between the tables.
TypeOK ==
    /\ DOMAIN nets \subseteq Nets
    /\ DOMAIN nodes \subseteq Nodes
    /\ \A k \in DOMAIN nodes : nodes[k] \in Node /\ nodes[k].net \in DOMAIN nets
    /\ \A j, k \in DOMAIN nodes : nodes[j].name = nodes[k].name => j = k
    /\ online \subseteq DOMAIN nodes
    /\ stray \subseteq online
    /\ DOMAIN users \subseteq Users
    /\ DOMAIN nets \cup DOMAIN nodes \cup DOMAIN users \subseteq used
    /\ DOMAIN grants \subseteq (DOMAIN users) \X (DOMAIN nets)
    /\ rows \in Seq(Row)
    /\ open \subseteq DOMAIN rows
    /\ pc \in [Conns -> {"off", "auth", "config", "online", "row", "register", "live",
                         "ending", "offline"}]
    /\ peer \in [Conns -> Peer]
    /\ cfg \in [Conns -> Nets \cup {0}]
    /\ row \in [Conns -> 0..Len(rows)]

\* A node is shown as online only while a handler is connected under its name,
\* or after a restart, a change of its name or a failed statement has left it
\* so.
OnlineIsConnected ==
    \A k \in online : k \in stray \/ \E c \in Holders : peer[c].name = nodes[k].name

\* A connected node is shown as online, unless it was disabled or renamed, or
\* another session of it has ended, since it last came online or sent a PING.
ConnectedIsOnline ==
    \A c \in Holders, k \in DOMAIN nodes :
        nodes[k].name = peer[c].name => k \in online \/ peer[c].name \in doubt

\* Handlers that have a row and will close it.
RowHolders == {c \in Conns : pc[c] \in {"register", "live", "ending"}}

\* Every session row that is open belongs to exactly one handler, which will
\* close it, or was left open by a restart or a failed statement; and a
\* handler's row tells whose session it is.
OpenRowHasHandler ==
    /\ \A i \in open : i \in lost \/ \E c \in RowHolders : row[c] = i
    /\ \A c \in RowHolders : row[c] \in open /\ rows[row[c]] = RowOf(c)
    /\ \A c, d \in RowHolders : row[c] = row[d] => c = d

\* A session is relayed in the network whose configuration it was given,
\* although the two are read one after the other.
ConfigOfNetwork ==
    \A c \in Conns : pc[c] \in {"row", "register", "live"} => cfg[c] = peer[c].net

Connected(k) == \E c \in Conns : pc[c] = "live" /\ peer[c].name = nodes[k].name

\* A node that nobody serves any more is finally shown as offline, unless
\* something went wrong as in OnlineIsConnected.
OfflineInTheEnd ==
    \A k \in Nodes : k \in online ~> (k \in online => Connected(k) \/ k \in stray)
=============================================================================
