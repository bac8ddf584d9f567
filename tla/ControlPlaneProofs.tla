-------------------------- MODULE ControlPlaneProofs --------------------------
(***************************************************************************)
(* Proofs about ControlPlane for every set of handlers, nodes, names and   *)
(* users and every number of networks and connections.  Types (TypeOK and  *)
(* HandlerOK) are inductive; each of the other invariants is inductive     *)
(* together with them, ConfigOfNetwork after a strengthening (ConfigKnown).*)
(***************************************************************************)
EXTENDS ControlPlane, TLAPS

\* A handler that has authenticated its peer knows the network, only a node's
\* handler comes to "online" or "offline", and no peer is node and user.
HandlerOK ==
    \A c \in Conns :
        /\ pc[c] \notin {"off", "auth"} => peer[c].net \in Nets
        /\ pc[c] \in {"online", "offline"} => peer[c].node # None
        /\ peer[c].node = None \/ peer[c].user = None

Types == TypeOK /\ HandlerOK

\* The steps of handlers that only go on to another place.
Moves(c) ==
    \/ GiveUp(c) \/ StartRowFails(c) \/ Register(c) \/ RegisterFails(c) \/ Leave(c)

-----------------------------------------------------------------------------
(* Types                                                                   *)

LEMMA InitTypes == Init => Types
BY ControlAssumption DEF Init, All, Types, TypeOK, HandlerOK, Peer, Nobody

\* The management leaves the handlers and the rows of sessions alone.
LEMMA ManageKeeps ==
    ASSUME Manage
    PROVE  UNCHANGED <<rows, open, handlers, accepts, lost>>
BY DEF Manage, Managed, AddNetwork, SetNetworkEnabled, DeleteNetwork, AddNode, EditNode,
       SetNodeEnabled, DeleteNode, AddTapUser, SetTapUserEnabled, DeleteTapUser,
       GrantTapUser, RevokeTapUser

\* What the management does keeps the references between the tables.
LEMMA ManageTypes ==
    ASSUME TypeOK, Manage
    PROVE  TypeOK'
<1> USE DEF Managed, TypeOK
<1>1. CASE AddNetwork
  BY <1>1 DEF AddNetwork, Put, handlers
<1>2. ASSUME NEW n \in Nets, DeleteNetwork(n) PROVE TypeOK'
  BY <1>2 DEF DeleteNetwork, Without, Restrict, handlers
<1>3. ASSUME NEW n \in Nets, NEW b \in BOOLEAN, SetNetworkEnabled(n, b) PROVE TypeOK'
  BY <1>3 DEF SetNetworkEnabled, handlers
<1>4. ASSUME NEW n \in Nets, NEW k \in Nodes, NEW name \in Names, AddNode(k, name, n)
      PROVE  TypeOK'
  BY <1>4 DEF AddNode, Admissible, Put, Node, handlers
<1>5. ASSUME NEW n \in Nets, NEW k \in Nodes, NEW name \in Names, EditNode(k, name, n)
      PROVE  TypeOK'
  BY <1>5 DEF EditNode, Admissible, Node, handlers
<1>6. ASSUME NEW k \in Nodes, NEW b \in BOOLEAN, SetNodeEnabled(k, b) PROVE TypeOK'
  BY <1>6 DEF SetNodeEnabled, Node, handlers
<1>7. ASSUME NEW k \in Nodes, DeleteNode(k) PROVE TypeOK'
  BY <1>7 DEF DeleteNode, Without, Restrict, handlers
<1>8. ASSUME NEW n \in Nets, NEW u \in Users,
             AddTapUser(u, n) \/ GrantTapUser(u, n) \/ RevokeTapUser(u, n)
      PROVE  TypeOK'
  <2>1. CASE AddTapUser(u, n)
    BY <2>1 DEF AddTapUser, Put, handlers
  <2>2. CASE GrantTapUser(u, n)
    BY <2>2 DEF GrantTapUser, Put, handlers
  <2>3. CASE RevokeTapUser(u, n)
    BY <2>3 DEF RevokeTapUser, handlers
  <2>4. QED
    BY <1>8, <2>1, <2>2, <2>3
<1>9. ASSUME NEW u \in Users, NEW b \in BOOLEAN, SetTapUserEnabled(u, b) PROVE TypeOK'
  BY <1>9 DEF SetTapUserEnabled, handlers
<1>10. ASSUME NEW u \in Users, DeleteTapUser(u) PROVE TypeOK'
  BY <1>10 DEF DeleteTapUser, Without, Restrict, handlers
<1>11. QED
  BY <1>1, <1>2, <1>3, <1>4, <1>5, <1>6, <1>7, <1>8, <1>9, <1>10 DEF Manage

-----------------------------------------------------------------------------

\* A handler that only goes on keeps everything but its place.
LEMMA MovesTypes ==
    ASSUME Types, NEW c \in Conns, Moves(c)
    PROVE  /\ Types'
           /\ UNCHANGED <<database, peer, cfg, row, ghosts>>
           /\ \E l : pc' = [pc EXCEPT ![c] = l]
<1> USE DEF Types, TypeOK, HandlerOK, database, ghosts, Goto
<1>1. CASE GiveUp(c)
  BY <1>1 DEF GiveUp
<1>2. CASE StartRowFails(c)
  BY <1>2 DEF StartRowFails, AfterRow
<1>3. CASE Register(c)
  BY <1>3 DEF Register
<1>4. CASE RegisterFails(c)
  BY <1>4 DEF RegisterFails
<1>5. CASE Leave(c)
  BY <1>5 DEF Leave
<1>6. QED
  BY <1>1, <1>2, <1>3, <1>4, <1>5 DEF Moves

\* Every step keeps the types.
LEMMA NextTypes == Types /\ [Next]_vars => Types'
<1> SUFFICES ASSUME Types, [Next]_vars PROVE Types'
  OBVIOUS
<1> USE DEF Types, TypeOK, HandlerOK, database, ghosts, Goto, SetOnline, Named
<1>1. CASE Manage
  <2>1. HandlerOK'
    BY <1>1, ManageKeeps DEF handlers
  <2>2. QED
    BY <1>1, <2>1, ManageTypes
<1>2. ASSUME NEW c \in Conns, Accept(c) PROVE Types'
  BY <1>2 DEF Accept, Nobody, Peer
<1>3. ASSUME NEW c \in Conns, Moves(c) PROVE Types'
  BY <1>3, MovesTypes
<1>4. ASSUME NEW c \in Conns, NEW name \in Names, GetNodeAuth(c, name) PROVE Types'
  BY <1>4, ControlAssumption DEF GetNodeAuth, Peer, Node
<1>5. ASSUME NEW c \in Conns, NEW u \in Users, NEW asked, GetTapAuth(c, u, asked) PROVE Types'
  BY <1>5 DEF GetTapAuth, Peer
<1>6. ASSUME NEW c \in Conns, GetNodeConfig(c) PROVE Types'
  BY <1>6 DEF GetNodeConfig, Peer, Node
<1>7. ASSUME NEW c \in Conns, GetTapConfig(c) PROVE Types'
  BY <1>7 DEF GetTapConfig, Peer
<1>8. ASSUME NEW c \in Conns, ComeOnline(c) PROVE Types'
  BY <1>8 DEF ComeOnline
<1>9. ASSUME NEW c \in Conns, StartRow(c) PROVE Types'
  BY <1>9 DEF StartRow, RowOf, Row, Peer
<1>10. ASSUME NEW c \in Conns, Ping(c) PROVE Types'
  BY <1>10 DEF Ping, handlers
<1>11. ASSUME NEW c \in Conns, EndRow(c) PROVE Types'
  BY <1>11 DEF EndRow, AfterRow
<1>12. ASSUME NEW c \in Conns, GoOffline(c) PROVE Types'
  BY <1>12 DEF GoOffline
<1>13. ASSUME NEW c \in Conns, OfflineFails(c) PROVE Types'
  BY <1>13 DEF OfflineFails
<1>14. CASE Restart
  BY <1>14 DEF Restart, All, Nobody, Peer
<1>15. CASE UNCHANGED vars
  BY <1>15 DEF vars, handlers
<1>16. QED
  BY <1>1, <1>2, <1>3, <1>4, <1>5, <1>6, <1>7, <1>8, <1>9, <1>10, <1>11, <1>12, <1>13,
     <1>14, <1>15 DEF Next, Handler, Moves

-----------------------------------------------------------------------------
(* The network and its configuration                                       *)

\* ConfigOfNetwork from the moment the configuration is there.
ConfigKnown ==
    \A c \in Conns : pc[c] \in {"online", "row", "register", "live"} => cfg[c] = peer[c].net

LEMMA NextConfig == Types /\ ConfigKnown /\ [Next]_vars => ConfigKnown'
<1> SUFFICES ASSUME Types, ConfigKnown, [Next]_vars PROVE ConfigKnown'
  OBVIOUS
<1> USE DEF ConfigKnown, Types, TypeOK, HandlerOK, Goto
<1>1. CASE UNCHANGED handlers
  BY <1>1 DEF handlers
<1>2. ASSUME NEW c \in Conns, Accept(c) PROVE ConfigKnown'
  BY <1>2 DEF Accept
<1>3. ASSUME NEW c \in Conns, GiveUp(c) \/ StartRowFails(c) PROVE ConfigKnown'
  BY <1>3 DEF GiveUp, StartRowFails, AfterRow
<1>4. ASSUME NEW c \in Conns, Register(c) \/ RegisterFails(c) \/ Leave(c) PROVE ConfigKnown'
  BY <1>4 DEF Register, RegisterFails, Leave
<1>5. ASSUME NEW c \in Conns, NEW name, GetNodeAuth(c, name) PROVE ConfigKnown'
  BY <1>5 DEF GetNodeAuth
<1>6. ASSUME NEW c \in Conns, NEW u, NEW asked, GetTapAuth(c, u, asked) PROVE ConfigKnown'
  BY <1>6 DEF GetTapAuth
<1>7. ASSUME NEW c \in Conns, GetNodeConfig(c) \/ GetTapConfig(c) PROVE ConfigKnown'
  BY <1>7 DEF GetNodeConfig, GetTapConfig
<1>8. ASSUME NEW c \in Conns, ComeOnline(c) \/ StartRow(c) PROVE ConfigKnown'
  BY <1>8 DEF ComeOnline, StartRow
<1>9. ASSUME NEW c \in Conns, EndRow(c) \/ GoOffline(c) \/ OfflineFails(c) PROVE ConfigKnown'
  BY <1>9 DEF EndRow, AfterRow, GoOffline, OfflineFails
<1>10. CASE Restart
  BY <1>10 DEF Restart, All
<1>11. ASSUME NEW c \in Conns, Ping(c) PROVE ConfigKnown'
  BY <1>1, <1>11 DEF Ping
<1>12. QED
  BY <1>1, <1>2, <1>3, <1>4, <1>5, <1>6, <1>7, <1>8, <1>9, <1>10, <1>11, ManageKeeps
     DEF Next, Handler, vars

-----------------------------------------------------------------------------
(* Rows of sessions                                                        *)

LEMMA NextRows == Types /\ OpenRowHasHandler /\ [Next]_vars => OpenRowHasHandler'
<1> SUFFICES ASSUME Types, OpenRowHasHandler, [Next]_vars PROVE OpenRowHasHandler'
  OBVIOUS
<1> USE DEF Types, TypeOK, Goto
<1>1. ASSUME UNCHANGED <<rows, open, lost, peer, row>>, UNCHANGED RowHolders
      PROVE  OpenRowHasHandler'
  BY <1>1 DEF OpenRowHasHandler, RowHolders, RowOf
<1>2. ASSUME NEW c \in Conns, UNCHANGED <<rows, open, lost, row>>, UNCHANGED RowHolders,
             c \notin RowHolders, \A d \in Conns \ {c} : peer'[d] = peer[d]
      PROVE  OpenRowHasHandler'
  BY <1>2 DEF OpenRowHasHandler, RowHolders, RowOf
<1>3. ASSUME NEW c \in Conns, Accept(c) PROVE OpenRowHasHandler'
  <2>1. /\ UNCHANGED <<rows, open, lost, RowHolders>> /\ c \notin RowHolders
        /\ \A d \in Conns \ {c} : peer'[d] = peer[d] /\ row'[d] = row[d]
    BY <1>3 DEF Accept, database, ghosts, RowHolders
  <2>2. \A d \in RowHolders : row'[d] = row[d] /\ RowOf(d)' = RowOf(d)
    BY <2>1 DEF RowHolders, RowOf
  <2>3. QED
    BY <2>1, <2>2, SMTT(60) DEF OpenRowHasHandler
<1>4. ASSUME NEW c \in Conns, GiveUp(c) \/ StartRowFails(c) PROVE OpenRowHasHandler'
  <2>1. UNCHANGED <<rows, open, lost, peer, row>> /\ UNCHANGED RowHolders
    BY <1>4 DEF GiveUp, StartRowFails, AfterRow, database, ghosts, RowHolders
  <2>2. QED
    BY <1>1, <2>1
<1>5. ASSUME NEW c \in Conns, Register(c) \/ RegisterFails(c) \/ Leave(c)
      PROVE  OpenRowHasHandler'
  <2>1. UNCHANGED <<rows, open, lost, peer, row>> /\ UNCHANGED RowHolders
    BY <1>5 DEF Register, RegisterFails, Leave, database, ghosts, RowHolders
  <2>2. QED
    BY <1>1, <2>1
<1>6. ASSUME NEW c \in Conns, NEW name, GetNodeAuth(c, name) PROVE OpenRowHasHandler'
  <2>1. /\ UNCHANGED <<rows, open, lost, row>> /\ UNCHANGED RowHolders /\ c \notin RowHolders
        /\ \A d \in Conns \ {c} : peer'[d] = peer[d]
    BY <1>6 DEF GetNodeAuth, database, ghosts, RowHolders
  <2>2. QED
    BY <1>2, <2>1
<1>7. ASSUME NEW c \in Conns, NEW u, NEW asked, GetTapAuth(c, u, asked)
      PROVE  OpenRowHasHandler'
  <2>1. /\ UNCHANGED <<rows, open, lost, row>> /\ UNCHANGED RowHolders /\ c \notin RowHolders
        /\ \A d \in Conns \ {c} : peer'[d] = peer[d]
    BY <1>7 DEF GetTapAuth, database, ghosts, RowHolders
  <2>2. QED
    BY <1>2, <2>1
<1>8. ASSUME NEW c \in Conns, GetNodeConfig(c) \/ GetTapConfig(c) PROVE OpenRowHasHandler'
  <2>1. UNCHANGED <<rows, open, lost, peer, row>> /\ UNCHANGED RowHolders
    BY <1>8 DEF GetNodeConfig, GetTapConfig, database, ghosts, RowHolders
  <2>2. QED
    BY <1>1, <2>1
<1>9. ASSUME NEW c \in Conns, ComeOnline(c) PROVE OpenRowHasHandler'
  <2>1. UNCHANGED <<rows, open, lost, peer, row>> /\ UNCHANGED RowHolders
    BY <1>9 DEF ComeOnline, RowHolders
  <2>2. QED
    BY <1>1, <2>1
<1>10. ASSUME NEW c \in Conns, StartRow(c) PROVE OpenRowHasHandler'
  BY <1>10 DEF StartRow, ghosts, OpenRowHasHandler, RowHolders, RowOf
<1>11. ASSUME NEW c \in Conns, EndRow(c) PROVE OpenRowHasHandler'
  BY <1>11 DEF EndRow, AfterRow, OpenRowHasHandler, RowHolders, RowOf
<1>12. ASSUME NEW c \in Conns, GoOffline(c) \/ OfflineFails(c) PROVE OpenRowHasHandler'
  <2>1. UNCHANGED <<rows, open, lost, peer, row>> /\ UNCHANGED RowHolders
    BY <1>12 DEF GoOffline, OfflineFails, database, RowHolders
  <2>2. QED
    BY <1>1, <2>1
<1>13. CASE Restart
  BY <1>13 DEF Restart, All, database, OpenRowHasHandler, RowHolders
<1>14. ASSUME UNCHANGED <<rows, open, lost, handlers>> PROVE OpenRowHasHandler'
  BY <1>1, <1>14 DEF handlers, RowHolders
<1>15. ASSUME NEW c \in Conns, Ping(c) PROVE OpenRowHasHandler'
  BY <1>14, <1>15 DEF Ping
<1>16. QED
  BY <1>3, <1>4, <1>5, <1>6, <1>7, <1>8, <1>9, <1>10, <1>11, <1>12, <1>13, <1>14, <1>15,
     ManageKeeps DEF Next, Handler, vars, database, ghosts

-----------------------------------------------------------------------------
(* The online flag                                                         *)

Presence == OnlineIsConnected /\ ConnectedIsOnline

\* Of what the management does, four kinds of steps concern nodes.
LEMMA ManagePresence ==
    ASSUME Types, Presence, Manage
    PROVE  Presence'
<1> USE DEF Presence, OnlineIsConnected, ConnectedIsOnline, Types, TypeOK
<1>1. UNCHANGED <<peer, Holders>>
  BY ManageKeeps DEF handlers, Holders
<1>2. CASE UNCHANGED <<nodes, online, stray, doubt>>
  BY <1>1, <1>2
<1>3. ASSUME NEW n, NEW k, NEW name, AddNode(k, name, n) PROVE Presence'
  <2>1. online' = online /\ stray' = stray /\ doubt' = doubt \cup {name}
    BY <1>3 DEF AddNode
  <2>2. \A j \in DOMAIN nodes' : nodes'[j].name = name \/ (j \in DOMAIN nodes /\ nodes'[j] = nodes[j])
    BY <1>3 DEF AddNode, Put
  <2>3. k \notin DOMAIN nodes
    BY <1>3 DEF AddNode
  <2>4. \A j \in DOMAIN nodes : nodes'[j] = nodes[j]
    BY <1>3, <2>3 DEF AddNode, Put
  <2>5. QED
    BY <1>1, <2>1, <2>2, <2>4
<1>4. ASSUME NEW n, NEW k, NEW name, EditNode(k, name, n) PROVE Presence'
  <2>1. /\ online' = online /\ DOMAIN nodes' = DOMAIN nodes /\ k \in DOMAIN nodes
        /\ \A j \in DOMAIN nodes \ {k} : nodes'[j] = nodes[j]
        /\ nodes'[k].name = name
    BY <1>4 DEF EditNode
  <2>2. CASE name = nodes[k].name
    <3>1. stray' = stray /\ doubt' = doubt
      BY <1>4, <2>2 DEF EditNode
    <3>2. \A j \in DOMAIN nodes : nodes'[j].name = nodes[j].name
      BY <2>1, <2>2
    <3>3. QED
      BY <1>1, <2>1, <3>1, <3>2
  <2>3. CASE name # nodes[k].name
    <3>1. stray' = stray \cup (online \cap {k}) /\ doubt' = doubt \cup {name}
      BY <1>4, <2>3 DEF EditNode
    <3>2. QED
      BY <1>1, <2>1, <3>1, ZenonT(60)
  <2>4. QED
    BY <2>2, <2>3
<1>5. ASSUME NEW k, NEW b \in BOOLEAN, SetNodeEnabled(k, b) PROVE Presence'
  <2>1. /\ DOMAIN nodes' = DOMAIN nodes
        /\ \A j \in DOMAIN nodes : nodes'[j].name = nodes[j].name
    BY <1>5 DEF SetNodeEnabled
  <2>2. \/ UNCHANGED <<online, stray, doubt>>
        \/ /\ online' = online \ {k} /\ stray' = stray \ {k}
           /\ doubt' = doubt \cup {nodes[k].name}
    BY <1>5 DEF SetNodeEnabled
  <2>3. QED
    BY <1>1, <2>1, <2>2, ZenonT(60)
<1>6. ASSUME NEW k, DeleteNode(k) PROVE Presence'
  <2>1. /\ online' = online \ {k} /\ stray' = stray \ {k} /\ doubt' = doubt
        /\ DOMAIN nodes' = DOMAIN nodes \ {k}
        /\ \A j \in DOMAIN nodes \ {k} : nodes'[j] = nodes[j]
    BY <1>6 DEF DeleteNode, Without, Restrict
  <2>2. QED
    BY <1>1, <2>1
<1>7. ASSUME NEW n PROVE /\ DeleteNetwork(n) => UNCHANGED <<nodes, online, stray, doubt>>
                         /\ \A b : SetNetworkEnabled(n, b)
                                  => UNCHANGED <<nodes, online, stray, doubt>>
  BY DEF DeleteNetwork, SetNetworkEnabled
<1>8. ASSUME NEW u
      PROVE  /\ \A n : AddTapUser(u, n) \/ GrantTapUser(u, n) \/ RevokeTapUser(u, n)
                       => UNCHANGED <<nodes, online, stray, doubt>>
             /\ DeleteTapUser(u) => UNCHANGED <<nodes, online, stray, doubt>>
             /\ \A b : SetTapUserEnabled(u, b) => UNCHANGED <<nodes, online, stray, doubt>>
  BY DEF AddTapUser, GrantTapUser, RevokeTapUser, DeleteTapUser, SetTapUserEnabled
<1>9. AddNetwork => UNCHANGED <<nodes, online, stray, doubt>>
  BY DEF AddNetwork
<1>10. QED
  BY <1>2, <1>3, <1>4, <1>5, <1>6, <1>7, <1>8, <1>9, ZenonT(60) DEF Manage

LEMMA NextPresence == Types /\ Presence /\ [Next]_vars => Presence'
<1> SUFFICES ASSUME Types, Presence, [Next]_vars PROVE Presence'
  OBVIOUS
<1> USE DEF Types, TypeOK, HandlerOK, Goto
<1>1. ASSUME UNCHANGED <<nodes, online, stray, doubt>>, UNCHANGED Holders,
             \A d \in Holders : peer'[d] = peer[d]
      PROVE  Presence'
  BY <1>1, ZenonT(60) DEF Presence, OnlineIsConnected, ConnectedIsOnline
<1>2. ASSUME NEW c \in Conns, Accept(c) \/ (\E name : GetNodeAuth(c, name))
                              \/ (\E u, asked : GetTapAuth(c, u, asked))
      PROVE  Presence'
  <2>1. pc[c] \in {"off", "auth"} /\ pc'[c] \in {"auth", "config"}
    BY <1>2 DEF Accept, GetNodeAuth, GetTapAuth
  <2>2. \A d \in Conns \ {c} : pc'[d] = pc[d] /\ peer'[d] = peer[d]
    BY <1>2 DEF Accept, GetNodeAuth, GetTapAuth
  <2>3. UNCHANGED <<nodes, online, stray, doubt>>
    BY <1>2 DEF Accept, GetNodeAuth, GetTapAuth, database, ghosts
  <2>4. UNCHANGED Holders /\ c \notin Holders
    BY <2>1, <2>2 DEF Holders
  <2>5. \A d \in Holders : peer'[d] = peer[d]
    BY <2>2, <2>4 DEF Holders
  <2>6. QED
    BY <1>1, <2>3, <2>4, <2>5
<1>3. ASSUME NEW c \in Conns, \/ GiveUp(c) \/ GetNodeConfig(c) \/ StartRow(c)
                              \/ Register(c) \/ RegisterFails(c) \/ Leave(c)
      PROVE  Presence'
  <2>1. UNCHANGED <<nodes, online, stray, doubt, peer>> /\ UNCHANGED Holders
    BY <1>3 DEF GiveUp, GetNodeConfig, StartRow, Register, RegisterFails, Leave,
                database, ghosts, Holders
  <2>2. QED
    BY <1>1, <2>1
<1>4. ASSUME NEW c \in Conns, StartRowFails(c) \/ EndRow(c) PROVE Presence'
  <2>1. UNCHANGED <<nodes, online, stray, doubt, peer>> /\ UNCHANGED Holders
    BY <1>4 DEF StartRowFails, EndRow, AfterRow, database, ghosts, Holders
  <2>2. QED
    BY <1>1, <2>1
<1>5. ASSUME NEW c \in Conns, GetTapConfig(c) PROVE Presence'
  <2>1. UNCHANGED <<nodes, online, stray, doubt, peer>>
    BY <1>5 DEF GetTapConfig, database, ghosts
  <2>2. UNCHANGED Holders
    BY <1>5 DEF GetTapConfig, Holders
  <2>3. QED
    BY <1>1, <2>1, <2>2
<1>6. ASSUME NEW c \in Conns, ComeOnline(c) PROVE Presence'
  <2>1. /\ Holders' = Holders \cup {c} /\ UNCHANGED <<nodes, stray, peer>>
        /\ online' = online \cup Named(peer[c].name)
        /\ doubt' = doubt \ {peer[c].name}
    BY <1>6 DEF ComeOnline, SetOnline, Holders
  <2>2. QED
    BY <2>1 DEF Presence, OnlineIsConnected, ConnectedIsOnline, Named
<1>7. ASSUME NEW c \in Conns, Ping(c) PROVE Presence'
  <2>1. /\ Holders' = Holders /\ c \in Holders /\ UNCHANGED <<nodes, stray, peer>>
        /\ online' = online \cup Named(peer[c].name)
        /\ doubt' = doubt \ {peer[c].name}
    BY <1>7 DEF Ping, SetOnline, Holders, handlers
  <2>2. QED
    BY <2>1 DEF Presence, OnlineIsConnected, ConnectedIsOnline, Named
<1>8. ASSUME NEW c \in Conns, GoOffline(c) PROVE Presence'
  <2>1. /\ Holders' = Holders \ {c} /\ UNCHANGED <<nodes, peer>>
        /\ online' = online \ Named(peer[c].name)
        /\ stray' = stray \ Named(peer[c].name)
    BY <1>8 DEF GoOffline, SetOnline, Holders
  <2>2. \A x : x \in doubt' <=> x \in doubt \/ \E d \in Holders \ {c} :
                                                x = peer[d].name /\ peer[d].name = peer[c].name
    BY <1>8 DEF GoOffline
  <2>3. OnlineIsConnected'
    BY <2>1 DEF Presence, OnlineIsConnected, Named
  <2>4. ConnectedIsOnline'
    BY <2>1, <2>2 DEF Presence, ConnectedIsOnline, Named
  <2>5. QED
    BY <2>3, <2>4 DEF Presence
<1>9. ASSUME NEW c \in Conns, OfflineFails(c) PROVE Presence'
  <2>1. /\ Holders' = Holders \ {c} /\ UNCHANGED <<nodes, online, peer, doubt>>
        /\ stray' = stray \cup (online \cap Named(peer[c].name))
    BY <1>9 DEF OfflineFails, Holders, database
  <2>2. QED
    BY <2>1 DEF Presence, OnlineIsConnected, ConnectedIsOnline, Named
<1>10. CASE Restart
  BY <1>10 DEF Restart, All, database, Nobody, Presence, OnlineIsConnected,
               ConnectedIsOnline, Holders
<1>11. CASE UNCHANGED vars
  BY <1>1, <1>11 DEF vars, database, handlers, ghosts, Holders
<1>12. QED
  BY <1>2, <1>3, <1>4, <1>5, <1>6, <1>7, <1>8, <1>9, <1>10, <1>11, ManagePresence
     DEF Next, Handler

-----------------------------------------------------------------------------
(* Theorems                                                                *)

Inv == Types /\ ConfigKnown /\ OpenRowHasHandler /\ Presence

LEMMA Invariant == Spec => []Inv
<1>1. Init => Inv
  <2> SUFFICES ASSUME Init PROVE Inv
    OBVIOUS
  <2>1. ConfigKnown /\ OpenRowHasHandler /\ Presence
    BY DEF Init, All, Nobody, ConfigKnown, OpenRowHasHandler, RowHolders, Presence,
           OnlineIsConnected, ConnectedIsOnline, Holders
  <2>2. QED
    BY <2>1, InitTypes DEF Inv
<1>2. Inv /\ [Next]_vars => Inv'
  BY NextTypes, NextConfig, NextRows, NextPresence DEF Inv
<1>3. QED
  BY <1>1, <1>2, PTL DEF Spec

\* However the tables are edited while handlers run, rows refer to rows that
\* exist, node names are unique and only existing nodes are shown as online.
THEOREM TypeCorrect == Spec => []TypeOK
BY Invariant, PTL DEF Inv, Types

\* A session runs with the configuration of the network it was admitted to.
THEOREM ConfigIsOfNetwork == Spec => []ConfigOfNetwork
<1>1. Inv => ConfigOfNetwork
  BY DEF Inv, ConfigKnown, ConfigOfNetwork
<1>2. QED
  BY <1>1, Invariant, PTL

\* An open session row belongs to one handler or is one of those a restart or
\* a failed statement has left.
THEOREM RowsHaveHandlers == Spec => []OpenRowHasHandler
BY Invariant, PTL DEF Inv

\* Only connected nodes are shown as online, with the exceptions in stray.
THEOREM OnlineNodesAreConnected == Spec => []OnlineIsConnected
BY Invariant, PTL DEF Inv, Presence

\* Connected nodes are shown as online, with the exceptions in doubt.
THEOREM ConnectedNodesAreOnline == Spec => []ConnectedIsOnline
BY Invariant, PTL DEF Inv, Presence
=============================================================================
