-------------------------- MODULE SocksAccessProofs --------------------------
(***************************************************************************)
(* Proofs about SocksAccess for every set of clients, handlers, users and  *)
(* nodes and every number of sessions and streams.  Types (TypeOK, who is  *)
(* authenticated, which rows and numbers were given out) is inductive, and *)
(* with it Carriers (whose session a client or a handler names), Numbers   *)
(* together with NumberIsFree, and Owners (whose a row is).  The other     *)
(* properties about rows are inductive together with one of these.         *)
(***************************************************************************)
EXTENDS SocksAccess, TLAPS

\* A client that is served was authenticated, a handler that is not off has
\* authenticated its node.
Authenticated ==
    /\ \A c \in Clients : pc[c] # "off" =>
          auth[c].user \in Users \cap used /\ auth[c].node \in Nodes \cap used
    /\ \A h \in Handlers : link[h].state # "off" => link[h].node \in Nodes

\* A client's entry has its row or none, and rows and numbers were given out.
Held ==
    /\ \A c \in Clients :
          /\ row[c] \in 0..made /\ entry[c].row \in {0, row[c]}
          /\ pc[c] \in {"off", "asked", "found", "registered"} => row[c] = 0
          /\ pc[c] \in {"started", "opened", "running"} => row[c] # 0
          /\ pc[c] = "ending" => entry[c].row # 0
          /\ pc[c] = "registered" => num[c] \in 1..(next - 1)
    /\ \A h \in Handlers : \A job \in todo[h] : job.row \in 1..made

Types == TypeOK /\ Authenticated /\ Held

\* Sessions that handlers and clients name are those of the right node.
Carriers ==
    /\ \A h \in Handlers : link[h].state = "up" =>
          link[h].session \in DOMAIN sessions /\ sessions[link[h].session] = link[h].node
    /\ \A c \in Clients : pc[c] \in {"found", "registered"} =>
          via[c] \in DOMAIN sessions /\ sessions[via[c]] = auth[c].node

\* In a session that can still get streams, all numbers were given out by this
\* process.
Numbers ==
    /\ \A h \in Handlers, i \in DOMAIN rows :
          link[h].state = "up" /\ rows[i].session = link[h].session => rows[i].stream < next
    /\ \A c \in Clients, i \in DOMAIN rows :
          pc[c] \in {"found", "registered"} /\ rows[i].session = via[c] => rows[i].stream < next
    /\ \A c, d \in Clients : pc[c] = "registered" /\ pc[d] = "registered" /\ num[c] = num[d]
                             => c = d

\* Each row is at most one client's, and who is about to end it has taken it
\* from the client's entry.
Owners ==
    /\ \A c \in Clients :
          /\ pc[c] \in {"off", "asked", "found"} => ~entry[c].active
          /\ pc[c] \in {"started", "opened"} => entry[c].row = 0
          /\ pc[c] = "running" /\ entry[c].active => entry[c].row = row[c]
          /\ row[c] \in DOMAIN rows =>
                rows[row[c]].user = auth[c].user /\ rows[row[c]].node = auth[c].node
          /\ pc[c] = "ending" => ~entry[c].active
    /\ \A c, d \in Clients : row[c] = row[d] /\ row[c] # 0 => c = d
    /\ \A h \in Handlers : \A job \in todo[h] :
          \A c \in Clients : job.op = "end" /\ job.row = row[c] => ~entry[c].active
    /\ \A h \in Handlers : link[h].state = "leaving" => todo[h] = {}

-----------------------------------------------------------------------------
(* Types                                                                   *)

LEMMA InitTypes == Init => Types
BY SocksAssumption DEF Init, All, Types, TypeOK, Authenticated, Held, Link, NoLink, Nobody, NoEntry

\* What TypeOK says of the tables and their references, and what of the rest.
Tables ==
    /\ users \in [DOMAIN users -> BOOLEAN] /\ DOMAIN users \subseteq Users \cap used
    /\ nodes \in [DOMAIN nodes -> Node] /\ DOMAIN nodes \subseteq Nodes \cap used
    /\ grants \in [DOMAIN grants -> BOOLEAN]
    /\ DOMAIN grants \subseteq (DOMAIN users) \X (DOMAIN nodes)
    /\ rows \in [DOMAIN rows -> Row] /\ DOMAIN rows \subseteq 1..made
    /\ \A i \in DOMAIN rows : /\ rows[i].user \in DOMAIN users /\ rows[i].node \in DOMAIN nodes
                              /\ rows[i].session \in DOMAIN sessions
Places == {"off", "asked", "found", "registered", "started", "opened", "running", "closing",
           "ending"}
Memory ==
    /\ sessions \in Seq(Nodes)
    /\ made \in Nat
    /\ link \in [Handlers -> Link]
    /\ todo \in [Handlers -> SUBSET Job]
    /\ pc \in [Clients -> Places]
    /\ auth \in [Clients -> [user : Users \cup {None}, node : Nodes \cup {None}]]
    /\ via \in [Clients -> Nat] /\ num \in [Clients -> Nat] /\ row \in [Clients -> Nat]
    /\ opened \in [Clients -> Nat]
    /\ entry \in [Clients -> [active : BOOLEAN, session : Nat, row : Nat]]
    /\ next \in Nat \ {0} /\ clock \in Nat \ {0}
    /\ lost \subseteq 1..made

LEMMA TypeParts == TypeOK <=> Tables /\ Memory
BY DEF TypeOK, Tables, Memory, Places

\* A grant put in names a user and a node of the tables.
LEMMA PutGrant ==
    ASSUME NEW U, NEW K, NEW u \in U, NEW k \in K, NEW table,
           table \in [DOMAIN table -> BOOLEAN], DOMAIN table \subseteq U \X K
    PROVE  /\ Put(table, <<u, k>>, TRUE) \in [DOMAIN Put(table, <<u, k>>, TRUE) -> BOOLEAN]
           /\ DOMAIN Put(table, <<u, k>>, TRUE) \subseteq U \X K
<1> DEFINE g == <<u, k>>
<1>1. g \in U \X K
  OBVIOUS
<1> HIDE DEF g
<1>2. Put(table, g, TRUE) = [i \in DOMAIN table \cup {g} |-> IF i = g THEN TRUE ELSE table[i]]
  BY DEF Put
<1>3. DOMAIN Put(table, g, TRUE) = DOMAIN table \cup {g}
  BY <1>2
<1>4. Put(table, g, TRUE) \in [DOMAIN table \cup {g} -> BOOLEAN]
  BY <1>2
<1>5. DOMAIN Put(table, g, TRUE) \subseteq U \X K
  BY <1>1, <1>3
<1>6. QED
  BY <1>3, <1>4, <1>5 DEF g

\* Rows go away only with their user or node, and keys do not come back.
Deletion ==
    /\ used \subseteq used'
    /\ DOMAIN rows' \subseteq DOMAIN rows
    /\ \A i \in DOMAIN rows' : rows'[i] = rows[i]
    /\ \A i \in DOMAIN rows \ DOMAIN rows' :
          rows[i].user \notin DOMAIN users' \/ rows[i].node \notin DOMAIN nodes'
    /\ \A u \in used : u \notin DOMAIN users => u \notin DOMAIN users'
    /\ \A k \in used : k \notin DOMAIN nodes => k \notin DOMAIN nodes'

\* That is what the management does to the rows; the threads and the sessions
\* it leaves alone.
LEMMA ManageFacts ==
    ASSUME TypeOK, Manage
    PROVE  Managed /\ Deletion /\ TypeOK'
<1>0. Tables /\ Memory
  BY TypeParts
<1>1. Managed
  BY DEF Manage, AddSocksUser, SetSocksUserEnabled, DeleteSocksUser, GrantSocksUser,
         RevokeSocksUser, AddNode, SetNodeEnabled, SetNodeSocks, DeleteNode
<1>2. Memory'
  BY <1>0, <1>1 DEF Memory, Managed, client
<1>3. UNCHANGED <<sessions, made>>
  BY <1>1 DEF Managed
<1>4. Deletion /\ Tables'
  <2> USE <1>0, <1>3 DEF Tables, Deletion
  <2>1. ASSUME NEW u \in Users, NEW k \in Nodes \cup {None}, AddSocksUser(u, k)
        PROVE  Deletion /\ Tables'
    <3>1. /\ u \notin used /\ used' = used \cup {u} /\ UNCHANGED <<nodes, rows>>
          /\ users' = [v \in DOMAIN users \cup {u} |-> IF v = u THEN TRUE ELSE users[v]]
      BY <2>1 DEF AddSocksUser, Put
    <3>2. CASE k = None
      BY <2>1, <3>1, <3>2 DEF AddSocksUser
    <3>3. CASE k \in DOMAIN nodes
      <4>1. grants' = Put(grants, <<u, k>>, TRUE)
        BY <2>1, <3>3, SocksAssumption DEF AddSocksUser
      <4>2. DOMAIN grants \subseteq (DOMAIN users') \X (DOMAIN nodes')
        BY <3>1
      <4>3. /\ grants' \in [DOMAIN grants' -> BOOLEAN]
            /\ DOMAIN grants' \subseteq (DOMAIN users') \X (DOMAIN nodes')
        BY <3>1, <3>3, <4>1, <4>2, PutGrant
      <4>4. QED
        BY <3>1, <4>3
    <3>4. QED
      BY <2>1, <3>2, <3>3 DEF AddSocksUser
  <2>2. ASSUME NEW u \in Users, NEW b \in BOOLEAN, SetSocksUserEnabled(u, b)
        PROVE  Deletion /\ Tables'
    BY <2>2 DEF SetSocksUserEnabled
  <2>3. ASSUME NEW u \in Users, DeleteSocksUser(u) PROVE Deletion /\ Tables'
    <3>1. /\ UNCHANGED <<nodes, used>>
          /\ users' = [v \in DOMAIN users \ {u} |-> users[v]]
      BY <2>3 DEF DeleteSocksUser, Without, Restrict
    <3>2. grants' = [g \in DOMAIN grants \ ({u} \X Nodes) |-> grants[g]]
      BY <2>3 DEF DeleteSocksUser, Without, Restrict
    <3>3. rows' = [i \in {j \in DOMAIN rows : rows[j].user # u} |-> rows[i]]
      BY <2>3, SocksAssumption DEF DeleteSocksUser, RowsOf, Without, Restrict
    <3>4. QED
      BY <3>1, <3>2, <3>3
  <2>4. ASSUME NEW u \in Users, NEW k \in Nodes, GrantSocksUser(u, k)
        PROVE  Deletion /\ Tables'
    <3>1. /\ UNCHANGED <<users, nodes, used, rows>>
          /\ grants' = Put(grants, <<u, k>>, TRUE)
          /\ u \in DOMAIN users /\ k \in DOMAIN nodes
      BY <2>4 DEF GrantSocksUser
    <3>2. /\ grants' \in [DOMAIN grants' -> BOOLEAN]
          /\ DOMAIN grants' \subseteq (DOMAIN users) \X (DOMAIN nodes)
      BY <3>1, PutGrant
    <3>3. QED
      BY <3>1, <3>2
  <2>5. ASSUME NEW u \in Users, NEW k \in Nodes, RevokeSocksUser(u, k)
        PROVE  Deletion /\ Tables'
    BY <2>5 DEF RevokeSocksUser
  <2>6. ASSUME NEW k \in Nodes, AddNode(k) PROVE Deletion /\ Tables'
    BY <2>6 DEF AddNode, Put, Node
  <2>7. ASSUME NEW k \in Nodes, NEW b \in BOOLEAN, SetNodeEnabled(k, b) \/ SetNodeSocks(k, b)
        PROVE  Deletion /\ Tables'
    BY <2>7 DEF SetNodeEnabled, SetNodeSocks, Node
  <2>8. ASSUME NEW k \in Nodes, DeleteNode(k) PROVE Deletion /\ Tables'
    <3>1. /\ UNCHANGED <<users, used>>
          /\ nodes' = [l \in DOMAIN nodes \ {k} |-> nodes[l]]
      BY <2>8 DEF DeleteNode, Without, Restrict
    <3>2. grants' = [g \in DOMAIN grants \ (Users \X {k}) |-> grants[g]]
      BY <2>8 DEF DeleteNode, Without, Restrict
    <3>3. rows' = [i \in {j \in DOMAIN rows : rows[j].node # k} |-> rows[i]]
      BY <2>8, SocksAssumption DEF DeleteNode, RowsOf, Without, Restrict
    <3>4. QED
      BY <3>1, <3>2, <3>3
  <2>9. QED
    BY <2>1, <2>2, <2>3, <2>4, <2>5, <2>6, <2>7, <2>8 DEF Manage
<1>5. QED
  BY <1>1, <1>2, <1>4 DEF TypeOK, Tables, Memory, Places

\* A statement about a row keeps what the row says of its stream, and an ended
\* row as it is.
LEMMA RowKept ==
    ASSUME TypeOK, NEW i, rows' \in {rows, Touched(i), Ended(i)}
    PROVE  /\ DOMAIN rows' = DOMAIN rows
           /\ rows' \in [DOMAIN rows -> Row]
           /\ \A j \in DOMAIN rows :
                 /\ rows'[j].stream = rows[j].stream /\ rows'[j].session = rows[j].session
                 /\ rows'[j].user = rows[j].user /\ rows'[j].node = rows[j].node
                 /\ j # i \/ rows[j].ended # 0 => rows'[j] = rows[j]
           /\ rows' # Ended(i) => \A j \in DOMAIN rows : rows'[j].ended = rows[j].ended
           /\ rows' = Ended(i) /\ i \in DOMAIN rows => rows'[i].ended # 0
<1>0. /\ rows \in [DOMAIN rows -> Row] /\ clock \in Nat \ {0}
      /\ \A j \in DOMAIN rows : rows[j] \in Row
  BY DEF TypeOK
<1>1. CASE ~(i \in DOMAIN rows /\ rows[i].ended = 0)
  <2>1. rows' = rows
    BY <1>1 DEF Touched, Ended
  <2>2. QED
    BY <1>0, <1>1, <2>1
<1>2. CASE i \in DOMAIN rows /\ rows[i].ended = 0
  <2> DEFINE T == [rows[i] EXCEPT !.active = clock]
               E == [rows[i] EXCEPT !.active = clock, !.ended = clock]
  <2>2. /\ T \in Row /\ T.stream = rows[i].stream /\ T.session = rows[i].session
        /\ T.user = rows[i].user /\ T.node = rows[i].node /\ T.ended = 0
    BY <1>0, <1>2 DEF Row
  <2>3. /\ E \in Row /\ E.stream = rows[i].stream /\ E.session = rows[i].session
        /\ E.user = rows[i].user /\ E.node = rows[i].node /\ E.ended # 0
    BY <1>0, <1>2 DEF Row
  <2>4. /\ Touched(i) = [rows EXCEPT ![i] = T]
        /\ Ended(i) = [rows EXCEPT ![i] = E]
    BY <1>2 DEF Touched, Ended
  <2> HIDE DEF T, E
  <2>5. CASE rows' = rows
    <3>1. Ended(i)[i] = E
      BY <1>2, <2>4
    <3>2. rows' # Ended(i)
      BY <1>2, <2>3, <2>5, <3>1
    <3>3. QED
      BY <1>0, <2>5, <3>2
  <2>6. CASE rows' = Touched(i)
    <3>1. Ended(i)[i] = E /\ rows'[i] = T
      BY <1>2, <2>4, <2>6
    <3>2. rows' # Ended(i)
      BY <2>2, <2>3, <3>1
    <3>3. rows' = [rows EXCEPT ![i] = T]
      BY <2>4, <2>6
    <3>4. QED
      BY <1>0, <1>2, <2>2, <3>2, <3>3
  <2>7. CASE rows' = Ended(i)
    <3>1. rows' = [rows EXCEPT ![i] = E]
      BY <2>4, <2>7
    <3>2. QED
      BY <1>0, <1>2, <2>3, <2>7, <3>1
  <2>8. QED
    BY <2>5, <2>6, <2>7
<1>3. QED
  BY <1>1, <1>2

\* The steps of clients and handlers that touch no table.
Moves ==
    \/ \E c \in Clients :
          \/ \E u \in Users, k \in Nodes : Login(c, u, k)
          \/ Find(c) \/ Refuse(c) \/ RegisterStream(c) \/ StartRowFails(c)
          \/ Open(c) \/ Run(c) \/ OpenFails(c) \/ ClientLeaves(c) \/ Unregister(c)
    \/ \E h \in Handlers :
          \/ \E k \in Nodes : Configure(h, k)
          \/ HandshakeFails(h) \/ NodeLeaves(h) \/ CloseNode(h)
          \/ \E c \in Clients : NodeData(h, c) \/ NodeClose(h, c)

LEMMA MovesKeep == ASSUME Moves PROVE UNCHANGED <<tables, clock>>
BY DEF Moves, Login, Find, Refuse, RegisterStream, StartRowFails, Open, Run, OpenFails, SetDbId,
       ClientLeaves, Unregister, Configure, HandshakeFails, NodeLeaves, CloseNode, NodeData,
       NodeClose, Elsewhere

\* What Types says of the threads.
Threads == Memory /\ Authenticated /\ Held

LEMMA TypesParts == Types <=> Tables /\ Threads
BY TypeParts DEF Types, Threads

Entry == [active : BOOLEAN, session : Nat, row : Nat]

\* An entry that is freed keeps its row and its session.
LEMMA EntryFreed ==
    ASSUME NEW e \in Entry
    PROVE  /\ [e EXCEPT !.active = FALSE] \in Entry
           /\ [e EXCEPT !.active = FALSE].active = FALSE
           /\ [e EXCEPT !.active = FALSE].row = e.row
           /\ [e EXCEPT !.active = FALSE].session = e.session
BY DEF Entry

LEMMA EntryGetsRow ==
    ASSUME NEW e \in Entry, NEW r \in Nat
    PROVE  /\ [e EXCEPT !.row = r] \in Entry /\ [e EXCEPT !.row = r].row = r
           /\ [e EXCEPT !.row = r].active = e.active
           /\ [e EXCEPT !.row = r].session = e.session
BY DEF Entry

LEMMA ClientMoves ==
    ASSUME Types, NEW c \in Clients,
           \/ \E u \in Users, k \in Nodes : Login(c, u, k)
           \/ Find(c) \/ Refuse(c) \/ RegisterStream(c) \/ StartRowFails(c)
           \/ Open(c) \/ Run(c) \/ OpenFails(c) \/ ClientLeaves(c) \/ Unregister(c)
    PROVE  Threads'
<1>0. Tables /\ Threads
  BY TypesParts
<1> USE <1>0 DEF Threads, Memory, Places, Authenticated, Held, tables, Goto
<1>1. ASSUME NEW u \in Users, NEW k \in Nodes, Login(c, u, k) PROVE Threads'
  BY <1>1 DEF Login, Tables
<1>2. CASE Find(c)
  BY <1>2 DEF Find, Serving, Link
<1>3. CASE Refuse(c)
  BY <1>3 DEF Refuse, Exit, Nobody, NoEntry
<1>4. CASE RegisterStream(c)
  BY <1>4 DEF RegisterStream
<1>5. CASE StartRowFails(c) \/ ClientLeaves(c)
  BY <1>5 DEF StartRowFails, ClientLeaves
<1>6. CASE Open(c)
  BY <1>6 DEF Open, Serving, Link
<1>7. CASE Run(c) \/ OpenFails(c)
  <2>1. /\ row[c] \in 1..made /\ entry[c] \in [active : BOOLEAN, session : Nat, row : Nat]
        /\ pc[c] \in {"opened", "started"}
        /\ UNCHANGED <<tables, link, todo, auth, via, num, row, opened, next, clock>>
        /\ pc' \in {[pc EXCEPT ![c] = "running"], [pc EXCEPT ![c] = "closing"]}
        /\ lost' \in {lost, lost \cup {row[c]}}
        /\ entry' = [entry EXCEPT ![c].row = IF entry[c].active THEN row[c] ELSE 0]
    BY <1>7 DEF Run, OpenFails, SetDbId
  <2>2. PICK r \in {0, row[c]} : entry' = [entry EXCEPT ![c] = [entry[c] EXCEPT !.row = r]]
    BY <2>1
  <2>3. /\ entry' \in [Clients -> [active : BOOLEAN, session : Nat, row : Nat]]
        /\ entry'[c].row = r /\ \A d \in Clients \ {c} : entry'[d] = entry[d]
    <3>1. r \in Nat /\ entry[c] \in Entry
      BY <2>1 DEF Entry
    <3> HIDE <1>0 DEF Memory, Authenticated, Held
    <3>2. entry \in [Clients -> Entry]
      BY <1>0 DEF Memory, Entry
    <3>3. [entry[c] EXCEPT !.row = r] \in Entry /\ [entry[c] EXCEPT !.row = r].row = r
      BY <3>1, EntryGetsRow
    <3>4. QED
      BY <2>2, <3>2, <3>3 DEF Entry
  <2>4. Memory'
    BY <2>1, <2>3
  <2>5. Authenticated'
    BY <2>1
  <2>6. Held'
    <3>1. /\ row' = row /\ made' = made /\ next' = next /\ num' = num /\ todo' = todo
          /\ pc'[c] \in {"running", "closing"} /\ \A d \in Clients \ {c} : pc'[d] = pc[d]
      BY <2>1
    <3> HIDE <1>0 DEF Memory, Authenticated
    <3>2. QED
      BY <1>0, <2>1, <2>2, <2>3, <3>1
  <2>7. QED
    BY <2>4, <2>5, <2>6
<1>8. CASE Unregister(c)
  <2>1. CASE ~(entry[c].active /\ entry[c].row # 0)
    <3>1. Exit(c) /\ UNCHANGED <<tables, link, todo, next, clock, lost>>
      BY <1>8, <2>1 DEF Unregister
    <3>2. QED
      BY <3>1 DEF Exit, Nobody, NoEntry
  <2>2. CASE entry[c].active /\ entry[c].row # 0
    <3>1. /\ pc' = [pc EXCEPT ![c] = "ending"] /\ pc[c] = "closing"
          /\ entry' = [entry EXCEPT ![c].active = FALSE]
          /\ UNCHANGED <<tables, link, todo, auth, via, num, row, opened, next, clock, lost>>
      BY <1>8, <2>2 DEF Unregister
    <3>2. /\ entry' \in [Clients -> [active : BOOLEAN, session : Nat, row : Nat]]
          /\ \A d \in Clients : entry'[d].row = entry[d].row
      <4>1. entry \in [Clients -> Entry]
        BY DEF Entry
      <4>2. entry' = [entry EXCEPT ![c] = [entry[c] EXCEPT !.active = FALSE]]
        BY <3>1
      <4> HIDE <1>0 DEF Memory, Authenticated, Held
      <4>3. /\ [entry[c] EXCEPT !.active = FALSE] \in Entry
            /\ [entry[c] EXCEPT !.active = FALSE].row = entry[c].row
        BY <4>1, EntryFreed
      <4>4. QED
        BY <4>1, <4>2, <4>3 DEF Entry
    <3>3. Memory' /\ Authenticated'
      BY <3>1, <3>2
    <3>4. Held'
      BY <2>2, <3>1, <3>2
    <3>5. QED
      BY <3>3, <3>4
  <2>3. QED
    BY <2>1, <2>2
<1>9. QED
  BY <1>1, <1>2, <1>3, <1>4, <1>5, <1>6, <1>7, <1>8

LEMMA EndsHeld ==
    ASSUME Memory, Held, NEW S \in SUBSET Clients
    PROVE  EndJobs(S) \subseteq Job /\ \A job \in EndJobs(S) : job.row \in 1..made
BY DEF EndJobs, Job, Memory, Held

LEMMA HandlerMoves ==
    ASSUME Types, NEW h \in Handlers,
           \/ \E k \in Nodes : Configure(h, k)
           \/ HandshakeFails(h) \/ NodeLeaves(h) \/ CloseNode(h)
           \/ \E c \in Clients : NodeData(h, c) \/ NodeClose(h, c)
    PROVE  Threads'
<1>0. Tables /\ Threads
  BY TypesParts
<1> USE <1>0 DEF Threads, Memory, Authenticated, Held, tables, client, Elsewhere
<1>1. ASSUME NEW k \in Nodes, Configure(h, k) PROVE Threads'
  BY <1>1 DEF Configure, Tables, Node, Link
<1>2. CASE HandshakeFails(h)
  BY <1>2 DEF HandshakeFails, NoLink, Link
<1>3. CASE NodeLeaves(h)
  <2>1. /\ link' = [link EXCEPT ![h] = [link[h] EXCEPT !.state = "leaving"]]
        /\ link[h] \in Link /\ link[h].state = "up"
        /\ UNCHANGED <<tables, todo, client, entry, next, clock, lost>>
    BY <1>3 DEF NodeLeaves
  <2>2. /\ [link[h] EXCEPT !.state = "leaving"] \in Link
        /\ [link[h] EXCEPT !.state = "leaving"].node \in Nodes
    BY <2>1 DEF Link
  <2>3. QED
    BY <2>1, <2>2
<1>4. CASE CloseNode(h)
  <2>1. /\ entry' \in [Clients -> [active : BOOLEAN, session : Nat, row : Nat]]
        /\ \A d \in Clients : entry'[d].row = entry[d].row
    <3>1. entry \in [Clients -> Entry]
      BY DEF Entry
    <3>2. entry' = [d \in Clients |-> IF d \in Carried(h)
                                      THEN [entry[d] EXCEPT !.active = FALSE] ELSE entry[d]]
      BY <1>4 DEF CloseNode
    <3> HIDE <1>0 DEF Memory, Authenticated, Held
    <3>3. \A d \in Clients : /\ [entry[d] EXCEPT !.active = FALSE] \in Entry
                             /\ [entry[d] EXCEPT !.active = FALSE].row = entry[d].row
      BY <3>1, EntryFreed
    <3>4. QED
      BY <3>1, <3>2, <3>3 DEF Entry
  <2>2. /\ EndJobs(Carried(h)) \subseteq Job
        /\ \A job \in EndJobs(Carried(h)) : job.row \in 1..made
    BY EndsHeld DEF Carried
  <2>3. /\ link' \in [Handlers -> Link] /\ link'[h].state = "off"
        /\ \A g \in Handlers \ {h} : link'[g] = link[g]
    BY <1>4 DEF CloseNode, NoLink, Link
  <2>4. /\ todo' = [todo EXCEPT ![h] = EndJobs(Carried(h))]
        /\ UNCHANGED <<tables, client, next, clock, lost>>
    BY <1>4 DEF CloseNode
  <2>5. QED
    BY <2>1, <2>2, <2>3, <2>4
<1>5. ASSUME NEW c \in Clients, NodeData(h, c) PROVE Threads'
  BY <1>5 DEF NodeData, Job
<1>6. ASSUME NEW c \in Clients, NodeClose(h, c) PROVE Threads'
  <2>1. /\ entry' \in [Clients -> [active : BOOLEAN, session : Nat, row : Nat]]
        /\ \A d \in Clients : entry'[d].row = entry[d].row
    <3>1. entry \in [Clients -> Entry]
      BY DEF Entry
    <3>2. entry' = [entry EXCEPT ![c] = [entry[c] EXCEPT !.active = FALSE]]
      BY <1>6 DEF NodeClose
    <3> HIDE <1>0 DEF Memory, Authenticated, Held
    <3>3. /\ [entry[c] EXCEPT !.active = FALSE] \in Entry
          /\ [entry[c] EXCEPT !.active = FALSE].row = entry[c].row
      BY <3>1, EntryFreed
    <3>4. QED
      BY <3>1, <3>2, <3>3 DEF Entry
  <2>2. EndJobs({c}) \subseteq Job /\ \A job \in EndJobs({c}) : job.row \in 1..made
    BY EndsHeld
  <2>3. /\ todo' = [todo EXCEPT ![h] = EndJobs({c})]
        /\ UNCHANGED <<tables, link, client, next, clock, lost>>
    BY <1>6 DEF NodeClose
  <2>4. QED
    BY <2>1, <2>2, <2>3
<1>7. QED
  BY <1>1, <1>2, <1>3, <1>4, <1>5, <1>6

\* A statement about a row keeps the tables.
LEMMA RowKeptTables ==
    ASSUME Types, NEW i, rows' \in {rows, Touched(i), Ended(i)}, Statement
    PROVE  Tables'
<1>1. /\ DOMAIN rows' = DOMAIN rows /\ rows' \in [DOMAIN rows -> Row]
      /\ \A j \in DOMAIN rows : /\ rows'[j].session = rows[j].session
                                /\ rows'[j].user = rows[j].user /\ rows'[j].node = rows[j].node
  BY RowKept DEF Types
<1>2. Tables
  BY TypesParts
<1>3. QED
  BY <1>1, <1>2 DEF Tables, Statement

\* The steps of a stream's row.
LEMMA StartRowTypes == ASSUME Types, NEW c \in Clients, StartRow(c) PROVE Types'
<1>0. Tables /\ Threads
  BY TypesParts
<1> DEFINE r == [stream |-> num[c], session |-> via[c], node |-> auth[c].node,
                 user |-> auth[c].user, active |-> clock, ended |-> 0]
<1>1. /\ pc[c] = "registered" /\ Insertable(c)
      /\ rows' = [i \in DOMAIN rows \cup {made + 1} |-> IF i = made + 1 THEN r ELSE rows[i]]
      /\ made' = made + 1
      /\ row' = [row EXCEPT ![c] = made + 1]
      /\ pc' = [pc EXCEPT ![c] = "started"]
      /\ UNCHANGED <<users, nodes, grants, used, sessions, link, todo, auth, via, num, entry,
                     opened, next, clock, lost>>
  BY DEF StartRow, Goto, Put
<1>2. r \in Row /\ r.user \in DOMAIN users /\ r.node \in DOMAIN nodes
      /\ r.session \in DOMAIN sessions
  <2>1. /\ num[c] \in Nat \ {0} /\ clock \in Nat \ {0} /\ sessions \in Seq(Nodes)
        /\ auth[c].user \in Users \cap DOMAIN users /\ auth[c].node \in Nodes \cap DOMAIN nodes
        /\ via[c] \in DOMAIN sessions
    BY <1>0, <1>1 DEF Insertable, Threads, Memory, Held, Tables
  <2>2. QED
    BY <2>1 DEF Row
<1> HIDE DEF r
<1>3. Tables'
  <2>1. /\ DOMAIN rows' = DOMAIN rows \cup {made + 1}
        /\ rows' \in [DOMAIN rows \cup {made + 1} -> Row]
        /\ rows'[made + 1] = r /\ \A i \in DOMAIN rows : i # made + 1 => rows'[i] = rows[i]
    BY <1>0, <1>1, <1>2 DEF Tables
  <2>2. made \in Nat
    BY <1>0 DEF Threads, Memory
  <2>3. QED
    BY <1>0, <1>1, <1>2, <2>1, <2>2 DEF Tables
<1>4. Threads'
  <2>1. Memory'
    BY <1>0, <1>1 DEF Threads, Memory, Places
  <2>2. Authenticated'
    BY <1>0, <1>1 DEF Threads, Memory, Places, Authenticated
  <2>3. /\ pc \in [Clients -> Places] /\ row \in [Clients -> Nat] /\ made \in Nat /\ Held
    BY <1>0 DEF Threads, Memory
  <2>4. Held'
    BY <1>1, <2>3 DEF Held
  <2>5. QED
    BY <2>1, <2>2, <2>4 DEF Threads
<1>5. QED
  BY <1>3, <1>4 DEF Types, Threads, TypeOK, Tables, Memory, Places

LEMMA NextTypes == Types /\ [Next]_vars => Types'
<1> SUFFICES ASSUME Types, [Next]_vars PROVE Types'
  OBVIOUS
<1>0. Tables /\ Threads
  BY TypesParts
<1>1. SUFFICES Tables' /\ Threads'
  BY DEF Types, Threads, TypeOK, Tables, Memory, Places
<1>2. CASE Manage
  <2>1. Managed /\ Deletion /\ Tables'
    BY <1>2, ManageFacts DEF Types, TypeOK, Tables
  <2>2. Threads'
    BY <1>0, <2>1 DEF Managed, Deletion, client, Threads, Memory, Authenticated, Held
  <2>3. QED
    BY <2>1, <2>2
<1>3. CASE Moves
  <2>1. UNCHANGED tables
    BY <1>3, MovesKeep
  <2>2. Tables'
    BY <1>0, <2>1 DEF Tables, tables
  <2>3. Threads'
    BY <1>3, ClientMoves, HandlerMoves DEF Moves
  <2>4. QED
    BY <2>2, <2>3
<1>4. ASSUME NEW c \in Clients, StartRow(c) PROVE Tables' /\ Threads'
  BY <1>4, StartRowTypes, TypesParts DEF Types, Threads, TypeOK, Tables, Memory, Places
<1>5. ASSUME NEW c \in Clients, ClientTouch(c) PROVE Tables' /\ Threads'
  <2>1. Tables'
    BY <1>5, RowKeptTables DEF ClientTouch
  <2>2. Threads'
    BY <1>0, <1>5 DEF ClientTouch, Statement, client, Threads, Memory, Authenticated, Held
  <2>3. QED
    BY <2>1, <2>2
<1>6. ASSUME NEW c \in Clients, EndRow(c) PROVE Tables' /\ Threads'
  <2>1. /\ Statement /\ Exit(c) /\ UNCHANGED <<link, todo>>
        /\ rows' \in {rows, Ended(entry[c].row)}
        /\ lost' \in {lost, lost \cup {entry[c].row}}
        /\ pc[c] = "ending"
    BY <1>6 DEF EndRow, Ends
  <2>2. Tables'
    BY <2>1, RowKeptTables
  <2>3. entry[c].row \in 1..made
    BY <1>0, <2>1 DEF Threads, Memory, Held
  <2>4. Threads'
    BY <1>0, <2>1, <2>3 DEF Statement, Exit, Goto, Nobody, NoEntry, Threads, Memory, Places,
                            Authenticated, Held
  <2>5. QED
    BY <2>2, <2>4
<1>7. ASSUME NEW h \in Handlers, Connected(h) PROVE Tables' /\ Threads'
  <2>1. /\ sessions' = Append(sessions, link[h].node) /\ link[h].state = "ready"
        /\ link' = [link EXCEPT ![h] = [link[h] EXCEPT !.state = "up",
                                                      !.session = Len(sessions) + 1]]
        /\ UNCHANGED <<users, nodes, grants, used, rows, made, todo, entry, lost>>
        /\ UNCHANGED <<pc, auth, via, num, row, opened, next, clock>>
    BY <1>7 DEF Connected, Elsewhere, client
  <2>2. sessions \in Seq(Nodes) /\ link[h] \in Link /\ link[h].node \in Nodes
    BY <1>0, <2>1 DEF Threads, Memory, Authenticated
  <2>3. sessions' \in Seq(Nodes) /\ DOMAIN sessions \subseteq DOMAIN sessions'
    BY <2>1, <2>2
  <2>4. /\ [link[h] EXCEPT !.state = "up", !.session = Len(sessions) + 1] \in Link
        /\ [link[h] EXCEPT !.state = "up", !.session = Len(sessions) + 1].node = link[h].node
    <3>1. Len(sessions) + 1 \in Nat
      BY <2>2
    <3>2. \A n \in Nat : /\ [link[h] EXCEPT !.state = "up", !.session = n] \in Link
                         /\ [link[h] EXCEPT !.state = "up", !.session = n].node = link[h].node
      BY <2>2 DEF Link
    <3>3. QED
      BY <3>1, <3>2
  <2>5. link' \in [Handlers -> Link] /\ \A g \in Handlers : link'[g].node = link[g].node
                                     /\ \A k \in Handlers \ {h} : link'[k] = link[k]
    BY <1>0, <2>1, <2>2, <2>4 DEF Threads, Memory, Link
  <2>6. Tables'
    BY <1>0, <2>1, <2>3 DEF Tables
  <2>7. Threads'
    BY <1>0, <2>1, <2>2, <2>3, <2>5 DEF Threads, Memory, Authenticated, Held
  <2>8. QED
    BY <2>6, <2>7
<1>8. ASSUME NEW h \in Handlers, NEW job \in todo[h], DoStatement(h, job)
      PROVE  Tables' /\ Threads'
  <2>1. /\ Statement /\ UNCHANGED <<link, client, entry>>
        /\ rows' \in {rows, Touched(job.row), Ended(job.row)}
        /\ lost' \in {lost, lost \cup {job.row}}
        /\ todo' = [todo EXCEPT ![h] = todo[h] \ {job}]
    BY <1>8 DEF DoStatement, Ends
  <2>2. Tables'
    BY <2>1, RowKeptTables
  <2>3. job.row \in 1..made
    BY <1>0 DEF Threads, Memory, Held
  <2>4. Threads'
    BY <1>0, <2>1, <2>3 DEF Statement, client, Threads, Memory, Authenticated, Held
  <2>5. QED
    BY <2>2, <2>4
<1>9. CASE Restart
  <2>1. Tables'
    BY <1>0, <1>9 DEF Restart, tables, Tables
  <2>2. Threads'
    BY <1>0, <1>9 DEF Restart, tables, Tables, All, NoLink, Link, Nobody, NoEntry, Threads,
                      Memory, Places, Authenticated, Held
  <2>3. QED
    BY <2>1, <2>2
<1>10. CASE Tick
  <2>1. Tables'
    BY <1>0, <1>10 DEF Tick, tables, Tables
  <2>2. Threads'
    BY <1>0, <1>10 DEF Tick, tables, client, Threads, Memory, Authenticated, Held
  <2>3. QED
    BY <2>1, <2>2
<1>11. CASE UNCHANGED vars
  BY <1>0, <1>11 DEF vars, tables, client, Tables, Threads, Memory, Authenticated, Held
<1>12. QED
  BY <1>2, <1>3, <1>4, <1>5, <1>6, <1>7, <1>8, <1>9, <1>10, <1>11
     DEF Next, Client, Handler, Moves

\* Type correctness, with the references between the tables: whatever is
\* deleted while streams run (ON DELETE CASCADE), grants and rows of streams
\* keep the user, the node and the session they name.
THEOREM TypeCorrect == Spec => []TypeOK
<1>1. Init => Types
  BY InitTypes
<1>2. Types => TypeOK
  BY DEF Types
<1>3. QED
  BY <1>1, <1>2, NextTypes, PTL DEF Spec

-----------------------------------------------------------------------------
(* Rows and sessions in a step                                             *)

\* A step leaves alone what a row says of its stream, and of its end.
RowsStay ==
    \A i \in DOMAIN rows : i \in DOMAIN rows' =>
        /\ rows'[i].stream = rows[i].stream /\ rows'[i].session = rows[i].session
        /\ rows'[i].user = rows[i].user /\ rows'[i].node = rows[i].node
        /\ rows[i].ended # 0 => rows'[i] = rows[i]

LEMMA RowsStayed ==
    ASSUME Types, [Next]_vars
    PROVE  /\ RowsStay
           /\ DOMAIN rows' \subseteq DOMAIN rows \/ \E c \in Clients : StartRow(c)
<1>0. TypeOK
  BY DEF Types
<1>1. CASE Manage
  BY <1>0, <1>1, ManageFacts DEF Deletion, RowsStay
<1>2. CASE UNCHANGED rows
  BY <1>2 DEF RowsStay
<1>3. ASSUME NEW c \in Clients, StartRow(c) PROVE RowsStay
  <2>1. made + 1 \notin DOMAIN rows
    BY <1>0 DEF TypeOK
  <2>2. QED
    BY <1>3, <2>1 DEF StartRow, Put, RowsStay
<1>4. ASSUME NEW i, rows' \in {rows, Touched(i), Ended(i)}
      PROVE  RowsStay /\ DOMAIN rows' = DOMAIN rows
  BY <1>0, <1>4, RowKept DEF RowsStay
<1>5. ASSUME NEW c \in Clients, ClientTouch(c) \/ EndRow(c)
      PROVE  RowsStay /\ DOMAIN rows' = DOMAIN rows
  BY <1>4, <1>5 DEF ClientTouch, EndRow, Ends
<1>6. ASSUME NEW h \in Handlers, NEW job \in todo[h], DoStatement(h, job)
      PROVE  RowsStay /\ DOMAIN rows' = DOMAIN rows
  BY <1>4, <1>6 DEF DoStatement, Ends
<1>7. CASE Moves \/ Restart \/ Tick \/ UNCHANGED vars \/ \E h \in Handlers : Connected(h)
  BY <1>2, <1>7, MovesKeep DEF tables, Restart, Tick, vars, Connected
<1>8. QED
  BY <1>1, <1>3, <1>5, <1>6, <1>7 DEF Next, Client, Handler, Moves

\* An end that is written down stays as it is, in the columns of the model,
\* whichever thread's touch or end comes late.
THEOREM EndsAreFinal == Spec => EndIsFinal
<1>1. Init => Types
  BY InitTypes
<1>2. ASSUME Types, [Next]_vars
      PROVE  [\A i \in DOMAIN rows :
                 i \in DOMAIN rows' /\ rows[i].ended # 0 => rows'[i] = rows[i]]_vars
  BY <1>2, RowsStayed DEF RowsStay
<1>3. QED
  BY <1>1, <1>2, NextTypes, PTL DEF Spec, EndIsFinal

-----------------------------------------------------------------------------
(* The node of a row                                                       *)

\* Sessions are only added.
LEMMA SessionsStay ==
    ASSUME Types, [Next]_vars
    PROVE  \A s \in DOMAIN sessions : s \in DOMAIN sessions' /\ sessions'[s] = sessions[s]
<1>0. /\ sessions \in Seq(Nodes)
      /\ \A h \in Handlers : link[h].state = "ready" => link[h].node \in Nodes
  BY DEF Types, TypeOK, Authenticated
<1>1. ASSUME NEW h \in Handlers, Connected(h)
      PROVE  \A s \in DOMAIN sessions : s \in DOMAIN sessions' /\ sessions'[s] = sessions[s]
  BY <1>0, <1>1 DEF Connected
<1>2. CASE Manage
  BY <1>2, ManageFacts DEF Types, Managed
<1>3. CASE UNCHANGED sessions
  BY <1>3
<1>4. QED
  BY <1>1, <1>2, <1>3, MovesKeep
     DEF Next, Client, Handler, Moves, StartRow, ClientTouch, EndRow, DoStatement, Statement,
         Restart, Tick, tables, vars

\* Steps that change neither where clients and handlers are nor whom they name.
LEMMA OtherSteps ==
    ASSUME Types, [Next]_vars
    PROVE  \/ UNCHANGED <<link, pc, auth, via, num, row, entry>>
           \/ Moves \/ Restart
           \/ \E c \in Clients : StartRow(c) \/ EndRow(c)
           \/ \E h \in Handlers : Connected(h)
BY ManageFacts DEF Types, Managed, Next, Client, Handler, Moves, ClientTouch, DoStatement, Tick,
   vars, client

LEMMA NextCarriers == Types /\ Carriers /\ [Next]_vars => Carriers'
<1> SUFFICES ASSUME Types, Carriers, [Next]_vars PROVE Carriers'
  OBVIOUS
<1>0. /\ \A s \in DOMAIN sessions : s \in DOMAIN sessions' /\ sessions'[s] = sessions[s]
      /\ pc \in [Clients -> Places] /\ via \in [Clients -> Nat] /\ link \in [Handlers -> Link]
      /\ auth \in [Clients -> [user : Users \cup {None}, node : Nodes \cup {None}]]
  BY SessionsStay DEF Types, TypeOK, Places
<1> USE <1>0 DEF Carriers, Goto
<1>1. CASE UNCHANGED <<link, pc, auth, via, num, row, entry>>
  BY <1>1
<1>2. ASSUME NEW c \in Clients, NEW u, NEW k, Login(c, u, k) PROVE Carriers'
  BY <1>2 DEF Login
<1>3. ASSUME NEW c \in Clients, Find(c) PROVE Carriers'
  BY <1>3 DEF Find, Serving
<1>4. ASSUME NEW c \in Clients, Refuse(c) \/ Unregister(c) \/ EndRow(c) PROVE Carriers'
  BY <1>4 DEF Refuse, Unregister, EndRow, Exit
<1>5. ASSUME NEW c \in Clients, RegisterStream(c) \/ StartRow(c) PROVE Carriers'
  BY <1>5 DEF RegisterStream, StartRow
<1>6. ASSUME NEW c \in Clients,
             StartRowFails(c) \/ Open(c) \/ Run(c) \/ OpenFails(c) \/ ClientLeaves(c)
      PROVE  Carriers'
  BY <1>6 DEF StartRowFails, Open, Run, OpenFails, SetDbId, ClientLeaves
<1>7. ASSUME NEW h \in Handlers, NEW k, Configure(h, k) PROVE Carriers'
  BY <1>7 DEF Configure, Elsewhere, client
<1>8. ASSUME NEW h \in Handlers, HandshakeFails(h) \/ NodeLeaves(h) \/ CloseNode(h)
      PROVE  Carriers'
  <2>1. CASE HandshakeFails(h) \/ CloseNode(h)
    BY <2>1 DEF HandshakeFails, CloseNode, NoLink, Elsewhere, client
  <2>2. CASE NodeLeaves(h)
    <3>1. /\ link' = [link EXCEPT ![h] = [link[h] EXCEPT !.state = "leaving"]]
          /\ UNCHANGED <<pc, auth, via>> /\ link[h] \in Link
      BY <2>2 DEF NodeLeaves, Elsewhere, client
    <3>2. link'[h].state = "leaving" /\ \A g \in Handlers \ {h} : link'[g] = link[g]
      BY <3>1 DEF Link
    <3>3. QED
      BY <3>1, <3>2
  <2>3. QED
    BY <1>8, <2>1, <2>2
<1>9. ASSUME NEW h \in Handlers, NEW c \in Clients, NodeData(h, c) \/ NodeClose(h, c)
      PROVE  Carriers'
  BY <1>9 DEF NodeData, NodeClose, Elsewhere, client
<1>10. ASSUME NEW h \in Handlers, Connected(h) PROVE Carriers'
  <2>1. sessions \in Seq(Nodes) /\ link[h].node \in Nodes
    BY <1>10 DEF Types, TypeOK, Authenticated, Connected
  <2>2. /\ sessions' = Append(sessions, link[h].node)
        /\ link' = [link EXCEPT ![h].state = "up", ![h].session = Len(sessions) + 1]
        /\ UNCHANGED <<pc, auth, via>>
    BY <1>10 DEF Connected, Elsewhere, client
  <2>3. /\ Len(sessions) + 1 \in DOMAIN sessions'
        /\ sessions'[Len(sessions) + 1] = link[h].node
    BY <2>1, <2>2
  <2>4. /\ link'[h].session = Len(sessions) + 1 /\ link'[h].node = link[h].node
        /\ \A g \in Handlers \ {h} : link'[g] = link[g]
    BY <2>2 DEF Link
  <2>5. QED
    BY <2>2, <2>3, <2>4
<1>11. CASE Restart
  BY <1>11 DEF Restart, All, NoLink
<1>12. QED
  BY <1>1, <1>2, <1>3, <1>4, <1>5, <1>6, <1>7, <1>8, <1>9, <1>10, <1>11, OtherSteps DEF Moves

LEMMA NextRowNode == Types /\ Carriers /\ RowOfItsNode /\ [Next]_vars => RowOfItsNode'
<1> SUFFICES ASSUME Types, Carriers, RowOfItsNode, [Next]_vars, NEW i \in DOMAIN rows'
             PROVE  sessions'[rows'[i].session] = rows'[i].node
  BY DEF RowOfItsNode
<1>1. CASE i \in DOMAIN rows
  <2>1. rows[i].session \in DOMAIN sessions
    BY <1>1 DEF Types, TypeOK
  <2>2. QED
    BY <1>1, <2>1, RowsStayed, SessionsStay DEF RowsStay, RowOfItsNode
<1>2. CASE i \notin DOMAIN rows
  <2>1. PICK c \in Clients : StartRow(c)
    BY <1>2, RowsStayed
  <2>2. rows'[i].session = via[c] /\ rows'[i].node = auth[c].node /\ UNCHANGED sessions
    BY <1>2, <2>1 DEF StartRow, Put
  <2>3. QED
    BY <2>1, <2>2 DEF StartRow, Carriers
<1>3. QED
  BY <1>1, <1>2

\* A stream's row names a session of the node that its login chose, although
\* the session is looked up and the row inserted later, in other transactions.
THEOREM RowsNameTheirNode == Spec => []RowOfItsNode
<1>1. Init => Types /\ Carriers /\ RowOfItsNode
  BY InitTypes DEF Init, All, NoLink, Carriers, RowOfItsNode
<1>2. QED
  BY <1>1, NextTypes, NextCarriers, NextRowNode, PTL DEF Spec

-----------------------------------------------------------------------------
(* Numbers of streams                                                      *)

LEMMA NextNumbers == Types /\ Numbers /\ NumberIsFree /\ [Next]_vars => Numbers' /\ NumberIsFree'
<1> SUFFICES ASSUME Types, Numbers, NumberIsFree, [Next]_vars
             PROVE  Numbers' /\ NumberIsFree'
  OBVIOUS
<1>0. /\ pc \in [Clients -> Places] /\ via \in [Clients -> Nat] /\ num \in [Clients -> Nat]
      /\ link \in [Handlers -> Link] /\ next \in Nat \ {0}
      /\ \A i \in DOMAIN rows : /\ rows[i].stream \in Nat \ {0} /\ rows[i].session \in Nat \ {0}
                                /\ rows[i].session \in DOMAIN sessions
      /\ \A c \in Clients : pc[c] = "registered" => num[c] \in 1..(next - 1)
  BY DEF Types, TypeOK, Places, Held, Row
<1> USE <1>0 DEF Numbers, NumberIsFree, Taken, Goto
\* No new row, the same or fewer clients before their row, the same or fewer sessions.
<1>1. ASSUME DOMAIN rows' \subseteq DOMAIN rows, next' = next,
             \A h \in Handlers : link'[h].state = "up" => link'[h] = link[h],
             \A c \in Clients : /\ pc'[c] = "registered" => pc[c] = "registered"
                                /\ pc'[c] = "found" => pc[c] = "found"
                                /\ pc'[c] \in {"found", "registered"} => via'[c] = via[c]
                                /\ pc'[c] = "registered" => num'[c] = num[c]
      PROVE  Numbers' /\ NumberIsFree'
  BY <1>1, RowsStayed DEF RowsStay
<1>2. CASE /\ UNCHANGED <<link, pc, auth, via, num, row, entry>>
           /\ UNCHANGED next /\ DOMAIN rows' \subseteq DOMAIN rows
  BY <1>1, <1>2
<1>3. ASSUME NEW c \in Clients, NEW u, NEW k, Login(c, u, k) PROVE Numbers' /\ NumberIsFree'
  BY <1>1, <1>3 DEF Login, tables
<1>4. ASSUME NEW c \in Clients, Find(c) PROVE Numbers' /\ NumberIsFree'
  <2>1. PICK h \in Handlers : link[h].state = "up" /\ via' = [via EXCEPT ![c] = link[h].session]
    BY <1>4 DEF Find, Serving
  <2>2. pc' = [pc EXCEPT ![c] = "found"] /\ UNCHANGED <<link, num, next, rows>>
    BY <1>4 DEF Find, tables
  <2>3. QED
    BY <2>1, <2>2
<1>5. ASSUME NEW c \in Clients, Refuse(c) \/ Unregister(c) PROVE Numbers' /\ NumberIsFree'
  BY <1>1, <1>5 DEF Refuse, Unregister, Exit, tables
<1>6. ASSUME NEW c \in Clients, EndRow(c) PROVE Numbers' /\ NumberIsFree'
  <2>1. DOMAIN rows' = DOMAIN rows
    BY <1>6, RowKept DEF EndRow, Ends, Types
  <2>2. QED
    BY <1>1, <1>6, <2>1 DEF EndRow, Exit, Statement
<1>7. ASSUME NEW c \in Clients, RegisterStream(c) PROVE Numbers' /\ NumberIsFree'
  <2>1. /\ pc[c] = "found" /\ pc' = [pc EXCEPT ![c] = "registered"]
        /\ num' = [num EXCEPT ![c] = next] /\ next' = next + 1
        /\ UNCHANGED <<link, via, rows>>
    BY <1>7 DEF RegisterStream, tables
  <2>2. \A i \in DOMAIN rows : rows[i].session = via[c] => rows[i].stream < next
    BY <2>1
  <2>3. NumberIsFree'
    BY <2>1, <2>2
  <2>4. \A d \in Clients \ {c} : pc[d] = "registered" => num[d] < next
    OBVIOUS
  <2>5. Numbers'
    BY <2>1, <2>2, <2>4
  <2>6. QED
    BY <2>3, <2>5
<1>8. ASSUME NEW c \in Clients, StartRow(c) PROVE Numbers' /\ NumberIsFree'
  <2>1. /\ pc[c] = "registered" /\ pc' = [pc EXCEPT ![c] = "started"]
        /\ UNCHANGED <<link, via, num, next>>
        /\ DOMAIN rows' = DOMAIN rows \cup {made + 1}
        /\ rows'[made + 1].stream = num[c] /\ rows'[made + 1].session = via[c]
        /\ \A i \in DOMAIN rows : i # made + 1 => rows'[i] = rows[i]
    BY <1>8 DEF StartRow, Put
  <2>2. num[c] < next /\ num[c] \in Nat
    BY <2>1
  <2>3. \A d \in Clients : pc'[d] = "registered" => pc[d] = "registered" /\ num[d] # num[c]
    BY <2>1
  <2>4. \A d \in Clients : pc'[d] \in {"found", "registered"} => pc[d] = pc'[d]
    BY <2>1
  <2>5. \A i \in DOMAIN rows' : i = made + 1 \/ (i \in DOMAIN rows /\ rows'[i] = rows[i])
    BY <2>1
  <2>6. NumberIsFree'
    BY <2>1, <2>3, <2>5
  <2>7. Numbers'
    BY <2>1, <2>2, <2>3, <2>4, <2>5
  <2>8. QED
    BY <2>6, <2>7
<1>9. ASSUME NEW c \in Clients,
             StartRowFails(c) \/ Open(c) \/ Run(c) \/ OpenFails(c) \/ ClientLeaves(c)
      PROVE  Numbers' /\ NumberIsFree'
  BY <1>1, <1>9 DEF StartRowFails, Open, Run, OpenFails, SetDbId, ClientLeaves, tables
<1>10. ASSUME NEW h \in Handlers, NEW k, Configure(h, k) PROVE Numbers' /\ NumberIsFree'
  BY <1>1, <1>10 DEF Configure, Elsewhere, client, tables
<1>11. ASSUME NEW h \in Handlers, HandshakeFails(h) \/ NodeLeaves(h) \/ CloseNode(h)
       PROVE  Numbers' /\ NumberIsFree'
  <2>1. /\ UNCHANGED <<pc, via, num, next, rows>>
        /\ \A g \in Handlers \ {h} : link'[g] = link[g]
    BY <1>11 DEF HandshakeFails, NodeLeaves, CloseNode, Elsewhere, client, tables
  <2>2. link'[h].state # "up"
    BY <1>11 DEF HandshakeFails, NodeLeaves, CloseNode, NoLink, Link
  <2>3. QED
    BY <1>1, <2>1, <2>2
<1>12. ASSUME NEW h \in Handlers, NEW c \in Clients, NodeData(h, c) \/ NodeClose(h, c)
       PROVE  Numbers' /\ NumberIsFree'
  BY <1>1, <1>12 DEF NodeData, NodeClose, Elsewhere, client, tables
<1>13. ASSUME NEW h \in Handlers, Connected(h) PROVE Numbers' /\ NumberIsFree'
  <2>1. /\ UNCHANGED <<pc, via, num, next, rows>>
        /\ \A g \in Handlers \ {h} : link'[g] = link[g]
    BY <1>13 DEF Connected, Elsewhere, client
  <2>2. link'[h].session = Len(sessions) + 1
    BY <1>13 DEF Connected, Link
  <2>3. sessions \in Seq(Nodes)
    BY DEF Types, TypeOK
  <2>4. \A i \in DOMAIN rows : rows[i].session # link'[h].session
    BY <2>2, <2>3
  <2>5. QED
    BY <2>1, <2>4
<1>14. CASE Restart
  BY <1>14 DEF Restart, All, NoLink
<1>15. \/ UNCHANGED next /\ DOMAIN rows' \subseteq DOMAIN rows
       \/ Restart \/ \E c \in Clients : RegisterStream(c) \/ StartRow(c)
  BY RowsStayed, ManageFacts
     DEF Types, Managed, Next, Client, Handler, Login, Find, Refuse, StartRowFails, Open, Run,
         OpenFails, SetDbId, ClientTouch, ClientLeaves, Unregister, EndRow, Statement, Configure,
         Connected, HandshakeFails, NodeData, NodeClose, NodeLeaves, CloseNode, DoStatement,
         Elsewhere, Tick, vars
<1>16. CASE UNCHANGED <<link, pc, auth, via, num, row, entry>>
  <2>1. CASE UNCHANGED next /\ DOMAIN rows' \subseteq DOMAIN rows
    BY <1>2, <1>16, <2>1
  <2>2. QED
    BY <1>7, <1>8, <1>14, <1>15, <2>1
<1>17. QED
  BY <1>3, <1>4, <1>5, <1>6, <1>7, <1>8, <1>9, <1>10, <1>11, <1>12, <1>13, <1>14, <1>16,
     OtherSteps DEF Moves

\* The insert of a stream's row never meets UNIQUE (session_id, stream_id),
\* although the numbers start again with every process.
THEOREM NumbersAreFree == Spec => []NumberIsFree
<1>1. Init => Types /\ Numbers /\ NumberIsFree
  BY InitTypes DEF Init, All, NoLink, Numbers, NumberIsFree
<1>2. QED
  BY <1>1, NextTypes, NextNumbers, PTL DEF Spec

-----------------------------------------------------------------------------
(* Whose row it is                                                         *)

LEMMA NextOwners == Types /\ Owners /\ [Next]_vars => Owners'
<1> SUFFICES ASSUME Types, Owners, [Next]_vars PROVE Owners'
  OBVIOUS
<1>0. /\ pc \in [Clients -> Places] /\ row \in [Clients -> Nat]
      /\ auth \in [Clients -> [user : Users \cup {None}, node : Nodes \cup {None}]]
      /\ entry \in [Clients -> Entry] /\ link \in [Handlers -> Link]
      /\ todo \in [Handlers -> SUBSET Job]
      /\ made \in Nat /\ DOMAIN rows \subseteq 1..made
  BY DEF Types, TypeOK, Places, Entry
<1>h. Held
  BY DEF Types
\* Rows are as they were, or fewer.
<1>1. ASSUME DOMAIN rows' \subseteq DOMAIN rows, UNCHANGED <<link, pc, auth, row, entry>>,
             \A h \in Handlers : todo'[h] \subseteq todo[h]
      PROVE  Owners'
  BY <1>1, RowsStayed DEF RowsStay, Owners
<1>2. ASSUME NEW c \in Clients, NEW u, NEW k, Login(c, u, k) PROVE Owners'
  BY <1>0, <1>h, <1>2 DEF Login, Goto, tables, Owners, Held
<1>3. ASSUME NEW c \in Clients,
             Find(c) \/ StartRowFails(c) \/ Open(c) \/ ClientLeaves(c)
      PROVE  Owners'
  BY <1>0, <1>h, <1>3 DEF Find, StartRowFails, Open, ClientLeaves, Goto, tables, Owners, Held
<1>4. ASSUME NEW c \in Clients, Exit(c), UNCHANGED <<link, todo>>, DOMAIN rows' = DOMAIN rows
      PROVE  Owners'
  <2>1. /\ pc' = [pc EXCEPT ![c] = "off"] /\ row' = [row EXCEPT ![c] = 0]
        /\ auth' = [auth EXCEPT ![c] = Nobody] /\ entry' = [entry EXCEPT ![c] = NoEntry]
    BY <1>4 DEF Exit, Goto
  <2>2. entry'[c].active = FALSE /\ \A d \in Clients \ {c} : entry'[d] = entry[d]
    BY <1>0, <2>1 DEF NoEntry
  <2>3. row'[c] = 0 /\ \A d \in Clients \ {c} : row'[d] = row[d] /\ auth'[d] = auth[d]
    BY <1>0, <2>1
  <2>4. QED
    BY <1>0, <1>4, <2>1, <2>2, <2>3, RowsStayed DEF RowsStay, Owners
<1>5. ASSUME NEW c \in Clients, Refuse(c) \/ EndRow(c) PROVE Owners'
  <2>1. CASE Refuse(c)
    BY <1>4, <2>1 DEF Refuse, tables
  <2>2. CASE EndRow(c)
    BY <1>4, <2>2, RowKept DEF EndRow, Ends, Types
  <2>3. QED
    BY <1>5, <2>1, <2>2
<1>6. ASSUME NEW c \in Clients, RegisterStream(c) PROVE Owners'
  <2>1. /\ pc[c] = "found" /\ pc' = [pc EXCEPT ![c] = "registered"]
        /\ \E e : entry' = [entry EXCEPT ![c] = e]
        /\ UNCHANGED <<rows, link, todo, auth, row>>
    BY <1>6 DEF RegisterStream, Goto, tables
  <2>2. row[c] = 0 /\ \A h \in Handlers : \A job \in todo[h] : job.row # 0
    BY <1>0, <1>h, <2>1 DEF Held
  <2>3. \A d \in Clients \ {c} : entry'[d] = entry[d]
    BY <1>0, <2>1
  <2>4. QED
    BY <1>0, <2>1, <2>2, <2>3 DEF Owners
<1>7. ASSUME NEW c \in Clients, StartRow(c) PROVE Owners'
  <2>1. /\ pc[c] = "registered" /\ pc' = [pc EXCEPT ![c] = "started"]
        /\ row' = [row EXCEPT ![c] = made + 1]
        /\ UNCHANGED <<link, todo, auth, entry>>
        /\ DOMAIN rows' = DOMAIN rows \cup {made + 1}
        /\ rows'[made + 1].user = auth[c].user /\ rows'[made + 1].node = auth[c].node
        /\ \A i \in DOMAIN rows : i # made + 1 => rows'[i] = rows[i]
    BY <1>7 DEF StartRow, Goto, Put
  <2>2. entry[c].row = 0
    BY <1>h, <2>1 DEF Held
  <2>3. /\ \A d \in Clients : row[d] \in 0..made
        /\ \A h \in Handlers : \A job \in todo[h] : job.row \in 1..made
    BY <1>h DEF Held
  <2>4. row'[c] = made + 1 /\ \A d \in Clients \ {c} : row'[d] = row[d] /\ row[d] # made + 1
    BY <1>0, <2>1, <2>3
  <2>5. \A d \in Clients : row'[d] \in DOMAIN rows' =>
             rows'[row'[d]].user = auth'[d].user /\ rows'[row'[d]].node = auth'[d].node
    BY <1>0, <2>1, <2>4 DEF Owners
  <2>6. \A d, e \in Clients : row'[d] = row'[e] /\ row'[d] # 0 => d = e
    BY <2>4 DEF Owners
  <2>7. \A h \in Handlers : \A job \in todo'[h] : \A d \in Clients :
             job.op = "end" /\ job.row = row'[d] => ~entry'[d].active
    <3>1. \A h \in Handlers : \A job \in todo[h] : job.row # made + 1
      BY <1>0, <2>3
    <3>2. QED
      BY <2>1, <2>4, <3>1 DEF Owners
  <2>8. QED
    BY <1>0, <2>1, <2>2, <2>5, <2>6, <2>7 DEF Owners
<1>8. ASSUME NEW c \in Clients, Run(c) \/ OpenFails(c) PROVE Owners'
  <2>1. /\ pc[c] \in {"opened", "started"}
        /\ pc' \in {[pc EXCEPT ![c] = "running"], [pc EXCEPT ![c] = "closing"]}
        /\ UNCHANGED <<rows, link, todo, auth, row>>
        /\ entry' = [entry EXCEPT ![c] =
                        [entry[c] EXCEPT !.row = IF entry[c].active THEN row[c] ELSE 0]]
    BY <1>8 DEF Run, OpenFails, SetDbId, Goto, tables
  <2>2. /\ entry'[c].active = entry[c].active
        /\ entry[c].active => entry'[c].row = row[c]
    BY <1>0, <2>1 DEF Entry
  <2>3. \A d \in Clients \ {c} : entry'[d] = entry[d]
    BY <1>0, <2>1
  <2>4. QED
    BY <1>0, <2>1, <2>2, <2>3 DEF Owners
<1>9. ASSUME NEW c \in Clients, Unregister(c) PROVE Owners'
  <2>1. CASE ~(entry[c].active /\ entry[c].row # 0)
    BY <1>4, <1>9, <2>1 DEF Unregister, tables
  <2>2. CASE entry[c].active /\ entry[c].row # 0
    <3>1. /\ pc' = [pc EXCEPT ![c] = "ending"]
          /\ entry' = [entry EXCEPT ![c] = [entry[c] EXCEPT !.active = FALSE]]
          /\ UNCHANGED <<rows, link, todo, auth, row>>
      BY <1>9, <2>2 DEF Unregister, Goto, tables
    <3>2. entry'[c].active = FALSE /\ \A d \in Clients \ {c} : entry'[d] = entry[d]
      BY <1>0, <3>1 DEF Entry
    <3>3. QED
      BY <1>0, <3>1, <3>2 DEF Owners
  <2>3. QED
    BY <2>1, <2>2
<1>10. ASSUME NEW h \in Handlers, NEW k, Configure(h, k) \/ HandshakeFails(h) PROVE Owners'
  BY <1>0, <1>10 DEF Configure, HandshakeFails, NoLink, Elsewhere, client, tables, Owners
<1>11. ASSUME NEW h \in Handlers, Connected(h) PROVE Owners'
  <2>1. /\ UNCHANGED <<rows, pc, auth, row, entry, todo>>
        /\ \A g \in Handlers \ {h} : link'[g] = link[g]
    BY <1>0, <1>11 DEF Connected, Elsewhere, client
  <2>2. link'[h].state = "up"
    <3>1. link' = [link EXCEPT ![h] = [link[h] EXCEPT !.state = "up",
                                                     !.session = Len(sessions) + 1]]
      BY <1>11 DEF Connected
    <3>2. link'[h] = [link[h] EXCEPT !.state = "up", !.session = Len(sessions) + 1]
      BY <1>0, <3>1
    <3>3. link[h] \in Link
      BY <1>0
    <3>4. QED
      BY <3>2, <3>3 DEF Link
  <2>3. QED
    BY <2>1, <2>2 DEF Owners
<1>12. ASSUME NEW h \in Handlers, NodeLeaves(h) PROVE Owners'
  <2>1. /\ UNCHANGED <<rows, pc, auth, row, entry, todo>> /\ todo[h] = {}
        /\ \A g \in Handlers \ {h} : link'[g] = link[g]
    BY <1>12 DEF NodeLeaves, Elsewhere, client, tables
  <2>2. QED
    BY <2>1 DEF Owners
\* An entry is freed only with the job of its own row.
<1>13. ASSUME NEW h \in Handlers, NEW S \in SUBSET Clients,
              entry' = [c \in Clients |-> IF c \in S THEN [entry[c] EXCEPT !.active = FALSE]
                                          ELSE entry[c]],
              todo' = [todo EXCEPT ![h] = EndJobs(S)],
              UNCHANGED <<rows, pc, auth, row>>,
              \A g \in Handlers : link'[g].state = "leaving" => g # h /\ link'[g] = link[g]
       PROVE  Owners'
  <2>1. \A c \in Clients : /\ entry'[c].active => entry[c].active
                           /\ c \in S => ~entry'[c].active
                           /\ entry'[c].row = entry[c].row
    BY <1>0, <1>13 DEF Entry
  <2>2. \A job \in EndJobs(S) : \A c \in Clients : job.row = row[c] => c \in S
    <3>1. SUFFICES ASSUME NEW d \in S, entry[d].row # 0, NEW c \in Clients, entry[d].row = row[c]
                   PROVE  c \in S
      BY DEF EndJobs
    <3>2. row[d] = row[c] /\ row[d] # 0
      BY <1>h, <3>1 DEF Held
    <3>3. QED
      BY <3>2 DEF Owners
  <2>3. \A g \in Handlers : \A job \in todo'[g] : job \in todo[g] \/ job \in EndJobs(S)
    BY <1>0, <1>13
  <2>4. \A g \in Handlers : link'[g].state = "leaving" => todo'[g] = {}
    BY <1>0, <1>13 DEF Owners
  <2>5. QED
    BY <1>13, <2>1, <2>2, <2>3, <2>4 DEF Owners
<1>14. ASSUME NEW h \in Handlers, CloseNode(h) PROVE Owners'
  <2>1. /\ entry' = [c \in Clients |-> IF c \in Carried(h)
                                       THEN [entry[c] EXCEPT !.active = FALSE] ELSE entry[c]]
        /\ todo' = [todo EXCEPT ![h] = EndJobs(Carried(h))]
        /\ link' = [link EXCEPT ![h] = NoLink]
        /\ UNCHANGED <<rows, pc, auth, row>>
    BY <1>14 DEF CloseNode, Elsewhere, client, tables
  <2>2. \A g \in Handlers : link'[g].state = "leaving" => g # h /\ link'[g] = link[g]
    BY <1>0, <2>1 DEF NoLink
  <2>3. Carried(h) \in SUBSET Clients
    BY DEF Carried
  <2>4. QED
    BY <1>13, <2>1, <2>2, <2>3
<1>15. ASSUME NEW h \in Handlers, NEW c \in Clients, NodeClose(h, c) PROVE Owners'
  <2>1. /\ entry' = [entry EXCEPT ![c] = [entry[c] EXCEPT !.active = FALSE]]
        /\ todo' = [todo EXCEPT ![h] = EndJobs({c})]
        /\ UNCHANGED <<rows, pc, auth, row, link>> /\ link[h].state = "up"
    BY <1>15 DEF NodeClose, Receives, Elsewhere, client, tables
  <2>2. entry' = [d \in Clients |-> IF d \in {c} THEN [entry[d] EXCEPT !.active = FALSE]
                                    ELSE entry[d]]
    BY <1>0, <2>1
  <2>3. QED
    BY <1>13, <2>1, <2>2
<1>16. ASSUME NEW h \in Handlers, NEW c \in Clients, NodeData(h, c) PROVE Owners'
  <2>1. /\ todo' = [todo EXCEPT ![h] = {[op |-> "touch", row |-> entry[c].row]}]
        /\ UNCHANGED <<rows, pc, auth, row, link, entry>> /\ link[h].state = "up"
    BY <1>16 DEF NodeData, Receives, Elsewhere, client, tables
  <2>2. \A g \in Handlers : \A job \in todo'[g] : job \in todo[g] \/ job.op = "touch"
    BY <1>0, <2>1
  <2>3. QED
    BY <1>0, <2>1, <2>2 DEF Owners
<1>17. CASE Restart
  BY <1>17 DEF Restart, All, NoEntry, NoLink, tables, Owners, Types, TypeOK
<1>18. CASE UNCHANGED <<link, pc, auth, via, num, row, entry>>
  <2>1. ASSUME NEW h \in Handlers, NEW job \in todo[h], DoStatement(h, job) PROVE Owners'
    <3>1. DOMAIN rows' = DOMAIN rows
      BY <2>1, RowKept DEF DoStatement, Ends, Types
    <3>2. \A g \in Handlers : todo'[g] \subseteq todo[g]
      BY <1>0, <2>1 DEF DoStatement
    <3>3. QED
      BY <1>1, <1>18, <3>1, <3>2
  <2>2. CASE UNCHANGED todo /\ DOMAIN rows' \subseteq DOMAIN rows
    BY <1>1, <1>18, <2>2
  <2>3. ASSUME NEW c \in Clients, ClientTouch(c) PROVE Owners'
    BY <2>2, <2>3, RowKept DEF ClientTouch, Types
  <2>4. CASE Manage
    BY <2>2, <2>4, ManageFacts DEF Managed, Deletion, Types
  <2>5. CASE Tick \/ UNCHANGED vars
    BY <2>2, <2>5 DEF Tick, vars, tables
  <2>6. QED
    BY <1>2, <1>3, <1>5, <1>6, <1>7, <1>8, <1>9, <1>10, <1>11, <1>12, <1>14, <1>15, <1>16,
       <1>17, <2>1, <2>3, <2>4, <2>5 DEF Next, Client, Handler
<1>19. QED
  BY <1>2, <1>3, <1>5, <1>6, <1>7, <1>8, <1>9, <1>10, <1>11, <1>12, <1>14, <1>15, <1>16,
     <1>17, <1>18, OtherSteps DEF Moves

-----------------------------------------------------------------------------
(* Rows of live streams                                                    *)

\* Keys that are gone stay gone.
LEMMA KeysStayGone ==
    ASSUME Types, [Next]_vars
    PROVE  /\ \A u \in used : u \notin DOMAIN users => u \notin DOMAIN users'
           /\ \A k \in used : k \notin DOMAIN nodes => k \notin DOMAIN nodes'
           /\ \A i \in DOMAIN rows \ DOMAIN rows' :
                 rows[i].user \notin DOMAIN users' \/ rows[i].node \notin DOMAIN nodes'
<1>1. CASE Manage
  BY <1>1, ManageFacts DEF Types, Deletion
<1>2. CASE UNCHANGED <<users, nodes>> /\ DOMAIN rows \subseteq DOMAIN rows'
  BY <1>2
<1>3. ASSUME NEW c \in Clients, StartRow(c)
      PROVE  UNCHANGED <<users, nodes>> /\ DOMAIN rows \subseteq DOMAIN rows'
  BY <1>3 DEF StartRow, Put
<1>4. ASSUME NEW c \in Clients, ClientTouch(c) \/ EndRow(c)
      PROVE  UNCHANGED <<users, nodes>> /\ DOMAIN rows \subseteq DOMAIN rows'
  BY <1>4, RowKept DEF Types, ClientTouch, EndRow, Ends, Statement
<1>5. ASSUME NEW h \in Handlers, NEW job \in todo[h], DoStatement(h, job)
      PROVE  UNCHANGED <<users, nodes>> /\ DOMAIN rows \subseteq DOMAIN rows'
  BY <1>5, RowKept DEF Types, DoStatement, Ends, Statement
<1>6. CASE Moves \/ Restart \/ Tick \/ UNCHANGED vars \/ \E h \in Handlers : Connected(h)
  BY <1>2, <1>6, MovesKeep DEF tables, Restart, Tick, vars, Connected
<1>7. QED
  BY <1>1, <1>2, <1>3, <1>4, <1>5, <1>6 DEF Next, Client, Handler, Moves

\* A row is ended by its client, or by a handler that has taken it over.
LEMMA EndedBy ==
    ASSUME Types, [Next]_vars, NEW i \in DOMAIN rows, i \in DOMAIN rows',
           rows[i].ended = 0, rows'[i].ended # 0
    PROVE  \/ \E c \in Clients : EndRow(c) /\ entry[c].row = i
           \/ \E h \in Handlers : \E job \in todo[h] : job.op = "end" /\ job.row = i
<1>0. TypeOK
  BY DEF Types
<1>1. rows'[i] # rows[i]
  OBVIOUS
<1>2. CASE Manage
  BY <1>0, <1>1, <1>2, ManageFacts DEF Deletion
<1>3. ASSUME NEW c \in Clients, StartRow(c) PROVE FALSE
  BY <1>0, <1>1, <1>3 DEF StartRow, Put, TypeOK
<1>4. ASSUME NEW c \in Clients, ClientTouch(c) PROVE FALSE
  <2>1. rows' = Touched(row[c])
    BY <1>4 DEF ClientTouch
  <2>2. rows'[i].ended = rows[i].ended
    BY <1>0, <2>1 DEF Touched, TypeOK, Row
  <2>3. QED
    BY <2>2
<1>5. ASSUME NEW c \in Clients, EndRow(c) PROVE entry[c].row = i
  BY <1>0, <1>1, <1>5, RowKept DEF EndRow, Ends
<1>6. ASSUME NEW h \in Handlers, NEW job \in todo[h], DoStatement(h, job)
      PROVE  job.op = "end" /\ job.row = i
  <2>1. job.row = i
    BY <1>0, <1>1, <1>6, RowKept DEF DoStatement, Ends
  <2>2. CASE job.op # "end"
    <3>1. rows' = rows \/ rows' = Touched(job.row)
      BY <1>6, <2>2 DEF DoStatement
    <3>2. rows' # rows
      BY <1>1
    <3>3. rows' = Touched(job.row)
      BY <3>1, <3>2
    <3>4. rows'[i].ended = rows[i].ended
      BY <1>0, <3>3 DEF Touched, TypeOK, Row
    <3>5. QED
      BY <3>4
  <2>3. QED
    BY <2>1, <2>2
<1>7. CASE Moves \/ Restart \/ Tick \/ UNCHANGED vars \/ \E h \in Handlers : Connected(h)
  BY <1>1, <1>7, MovesKeep DEF tables, Restart, Tick, vars, Connected
<1>8. QED
  BY <1>2, <1>3, <1>4, <1>5, <1>6, <1>7 DEF Next, Client, Handler, Moves

Live == {"started", "opened", "running"}

\* A stream that is live was so before, unless its row has just been put in.
LEMMA LiveBefore ==
    ASSUME Types, [Next]_vars, NEW c \in Clients, entry'[c].active, pc'[c] \in Live, ~StartRow(c)
    PROVE  /\ entry[c].active /\ pc[c] \in Live
           /\ row'[c] = row[c] /\ auth'[c] = auth[c]
<1>0. /\ pc \in [Clients -> Places] /\ row \in [Clients -> Nat]
      /\ auth \in [Clients -> [user : Users \cup {None}, node : Nodes \cup {None}]]
      /\ entry \in [Clients -> Entry]
  BY DEF Types, TypeOK, Places, Entry
<1> USE <1>0 DEF Goto, Live
<1>1. CASE UNCHANGED <<link, pc, auth, via, num, row, entry>>
  BY <1>1
<1>2. ASSUME NEW d \in Clients, NEW u, NEW k, Login(d, u, k)
      PROVE  entry[c].active /\ pc[c] \in Live /\ row'[c] = row[c] /\ auth'[c] = auth[c]
  BY <1>2 DEF Login
<1>3. ASSUME NEW d \in Clients, Find(d) \/ StartRowFails(d) \/ Open(d) \/ ClientLeaves(d)
      PROVE  entry[c].active /\ pc[c] \in Live /\ row'[c] = row[c] /\ auth'[c] = auth[c]
  BY <1>3 DEF Find, StartRowFails, Open, ClientLeaves
<1>4. ASSUME NEW d \in Clients, Exit(d)
      PROVE  entry[c].active /\ pc[c] \in Live /\ row'[c] = row[c] /\ auth'[c] = auth[c]
  BY <1>4 DEF Exit
<1>5. ASSUME NEW d \in Clients, RegisterStream(d)
      PROVE  entry[c].active /\ pc[c] \in Live /\ row'[c] = row[c] /\ auth'[c] = auth[c]
  BY <1>5 DEF RegisterStream
<1>6. ASSUME NEW d \in Clients, StartRow(d)
      PROVE  entry[c].active /\ pc[c] \in Live /\ row'[c] = row[c] /\ auth'[c] = auth[c]
  BY <1>6 DEF StartRow
<1>7. ASSUME NEW d \in Clients, Run(d) \/ OpenFails(d)
      PROVE  entry[c].active /\ pc[c] \in Live /\ row'[c] = row[c] /\ auth'[c] = auth[c]
  <2>1. /\ pc[d] \in Live /\ UNCHANGED <<auth, row>>
        /\ pc' \in {[pc EXCEPT ![d] = "running"], [pc EXCEPT ![d] = "closing"]}
        /\ entry' = [entry EXCEPT ![d] =
                        [entry[d] EXCEPT !.row = IF entry[d].active THEN row[d] ELSE 0]]
    BY <1>7 DEF Run, OpenFails, SetDbId
  <2>2. entry'[d].active = entry[d].active
    BY <2>1 DEF Entry
  <2>3. QED
    BY <2>1, <2>2
<1>8. ASSUME NEW d \in Clients, Unregister(d)
      PROVE  entry[c].active /\ pc[c] \in Live /\ row'[c] = row[c] /\ auth'[c] = auth[c]
  BY <1>4, <1>8 DEF Unregister
<1>9. ASSUME NEW h \in Handlers,
             \/ \E k \in Nodes : Configure(h, k)
             \/ HandshakeFails(h) \/ NodeLeaves(h) \/ CloseNode(h) \/ Connected(h)
             \/ \E d \in Clients : NodeData(h, d) \/ NodeClose(h, d)
      PROVE  entry[c].active /\ pc[c] \in Live /\ row'[c] = row[c] /\ auth'[c] = auth[c]
  <2>1. UNCHANGED <<pc, row, auth>>
    BY <1>9 DEF Configure, HandshakeFails, NodeLeaves, CloseNode, Connected, NodeData, NodeClose,
                Elsewhere, client
  <2>2. entry'[c].active => entry[c].active
    <3>1. CASE UNCHANGED entry
      BY <3>1
    <3>2. CASE CloseNode(h)
      BY <3>2 DEF CloseNode, Entry
    <3>3. ASSUME NEW d \in Clients, NodeClose(h, d) PROVE entry'[c].active => entry[c].active
      BY <3>3 DEF NodeClose, Entry
    <3>4. QED
      BY <1>9, <3>1, <3>2, <3>3 DEF Configure, HandshakeFails, NodeLeaves, Connected, NodeData
  <2>3. QED
    BY <2>1, <2>2
<1>10. CASE Restart
  BY <1>10 DEF Restart, All
<1>11. QED
  BY <1>1, <1>2, <1>3, <1>4, <1>5, <1>6, <1>7, <1>8, <1>9, <1>10, OtherSteps
     DEF Moves, Refuse, EndRow

LEMMA NextLive == Types /\ Owners /\ LiveStreamHasRow /\ [Next]_vars => LiveStreamHasRow'
<1> SUFFICES ASSUME Types, Owners, LiveStreamHasRow, [Next]_vars,
                    NEW c \in Clients, entry'[c].active, pc'[c] \in Live
             PROVE  \/ row'[c] \in DOMAIN rows' /\ rows'[row'[c]].ended = 0
                    \/ auth'[c].user \notin DOMAIN users'
                    \/ auth'[c].node \notin DOMAIN nodes'
  BY DEF LiveStreamHasRow, Live
<1>1. CASE StartRow(c)
  <2>1. row \in [Clients -> Nat]
    BY DEF Types, TypeOK
  <2>2. QED
    BY <1>1, <2>1 DEF StartRow, Put
<1>2. CASE ~StartRow(c)
  <2>1. /\ entry[c].active /\ pc[c] \in Live
        /\ row'[c] = row[c] /\ auth'[c] = auth[c]
    BY <1>2, LiveBefore
  <2>2. auth[c].user \in used /\ auth[c].node \in used
    BY <2>1 DEF Types, Authenticated, Live
  <2>3. CASE auth[c].user \notin DOMAIN users \/ auth[c].node \notin DOMAIN nodes
    BY <2>1, <2>2, <2>3, KeysStayGone
  <2>4. CASE row[c] \in DOMAIN rows /\ rows[row[c]].ended = 0
    <3>1. rows[row[c]].user = auth[c].user /\ rows[row[c]].node = auth[c].node
      BY <2>4 DEF Owners
    <3>2. CASE row[c] \notin DOMAIN rows'
      BY <2>1, <2>4, <3>1, <3>2, KeysStayGone
    <3>3. CASE row[c] \in DOMAIN rows' /\ rows'[row[c]].ended # 0
      <4>1. row[c] # 0
        BY <2>4 DEF Types, TypeOK
      <4>2. ASSUME NEW d \in Clients, EndRow(d), entry[d].row = row[c] PROVE FALSE
        <5>1. row[d] = row[c] /\ pc[d] = "ending"
          BY <4>1, <4>2 DEF Types, Held, EndRow
        <5>2. d = c
          BY <4>1, <5>1 DEF Owners
        <5>3. QED
          BY <2>1, <5>1, <5>2 DEF Live
      <4>3. ASSUME NEW h \in Handlers, NEW job \in todo[h], job.op = "end", job.row = row[c]
            PROVE  FALSE
        BY <2>1, <4>3 DEF Owners
      <4>4. QED
        BY <2>4, <3>3, <4>2, <4>3, EndedBy
    <3>4. QED
      BY <2>1, <3>2, <3>3
  <2>5. QED
    BY <2>1, <2>3, <2>4 DEF LiveStreamHasRow, Live
<1>3. QED
  BY <1>1, <1>2

LEMMA InitOwners == Init => Owners
BY DEF Init, All, NoEntry, NoLink, Owners

\* A stream that runs is listed as running, with nobody having ended its row
\* from the other side, unless its user or its node was deleted meanwhile.
THEOREM LiveStreamsHaveRows == Spec => []LiveStreamHasRow
<1>1. Init => Types /\ Owners /\ LiveStreamHasRow
  BY InitTypes, InitOwners DEF Init, All, NoEntry, LiveStreamHasRow
<1>2. QED
  BY <1>1, NextTypes, NextOwners, NextLive, PTL DEF Spec

-----------------------------------------------------------------------------
(* Who ends a row                                                          *)

\* Who would end a row still will, or has done it, or has lost it.
LEMMA EnderStays ==
    ASSUME Types, Owners, [Next]_vars, NEW i \in DOMAIN rows, HasEnder(i),
           i \in DOMAIN rows', rows'[i].ended = 0, i \notin lost'
    PROVE  HasEnder(i)'
<1>0. /\ pc \in [Clients -> Places] /\ row \in [Clients -> Nat]
      /\ entry \in [Clients -> Entry] /\ link \in [Handlers -> Link]
      /\ todo \in [Handlers -> SUBSET Job] /\ i # 0
  BY DEF Types, TypeOK, Places, Entry
<1> USE <1>0 DEF Goto
<1> DEFINE Mine(c) == \/ row[c] = i /\ pc[c] \in {"started", "opened"}
                      \/ entry[c].row = i /\ (entry[c].active \/ pc[c] = "ending")
           theEnd == [op |-> "end", row |-> i]
           Theirs == \E h \in Handlers : theEnd \in todo[h]
<1>1. HasEnder(i) <=> (\E c \in Clients : Mine(c)) \/ Theirs
  BY DEF HasEnder
<1>2. (\E c \in Clients : Mine(c)') \/ Theirs' => HasEnder(i)'
  BY DEF HasEnder
<1> HIDE DEF theEnd
<1>3. CASE UNCHANGED <<pc, row, entry, todo>>
  BY <1>1, <1>2, <1>3
\* A step of a client.
<1>4. ASSUME NEW c \in Clients, UNCHANGED todo, Mine(c) => Mine(c)',
             \A d \in Clients \ {c} : pc'[d] = pc[d] /\ row'[d] = row[d] /\ entry'[d] = entry[d]
      PROVE  HasEnder(i)'
  BY <1>1, <1>2, <1>4
<1>5. ASSUME NEW c \in Clients, ~Mine(c),
             \/ \E u \in Users, k \in Nodes : Login(c, u, k)
             \/ Find(c) \/ Refuse(c) \/ RegisterStream(c) \/ StartRow(c) \/ StartRowFails(c)
             \/ EndRow(c)
      PROVE  HasEnder(i)'
  BY <1>4, <1>5 DEF Login, Find, Refuse, RegisterStream, StartRow, StartRowFails, EndRow, Exit
<1>6. ASSUME NEW c \in Clients, pc[c] \in {"off", "asked", "found", "registered"} PROVE ~Mine(c)
  BY <1>6 DEF Owners, Types, Held
<1>7. ASSUME NEW c \in Clients,
             \/ \E u \in Users, k \in Nodes : Login(c, u, k)
             \/ Find(c) \/ Refuse(c) \/ RegisterStream(c) \/ StartRow(c) \/ StartRowFails(c)
      PROVE  HasEnder(i)'
  BY <1>5, <1>6, <1>7 DEF Login, Find, Refuse, RegisterStream, StartRow, StartRowFails
<1>8. ASSUME NEW c \in Clients, EndRow(c) PROVE HasEnder(i)'
  <2>1. pc[c] = "ending" /\ Ends(entry[c].row)
    BY <1>8 DEF EndRow
  <2>2. entry[c].row # i
    BY <2>1, RowKept DEF Ends, Types
  <2>3. ~Mine(c)
    BY <2>1, <2>2
  <2>4. QED
    BY <1>5, <1>8, <2>3
<1>9. ASSUME NEW c \in Clients, Open(c) \/ ClientLeaves(c) PROVE HasEnder(i)'
  BY <1>4, <1>9 DEF Open, ClientLeaves
<1>10. ASSUME NEW c \in Clients, Run(c) \/ OpenFails(c) PROVE HasEnder(i)'
  <2>1. /\ pc[c] \in {"opened", "started"} /\ UNCHANGED <<row, todo>>
        /\ \E l \in Places : pc' = [pc EXCEPT ![c] = l]
        /\ ~entry[c].active => row[c] \in lost'
        /\ entry' = [entry EXCEPT ![c] =
                        [entry[c] EXCEPT !.row = IF entry[c].active THEN row[c] ELSE 0]]
    BY <1>10 DEF Run, OpenFails, SetDbId, Places
  <2>2. entry[c].row = 0
    BY <2>1 DEF Owners
  <2>3. entry[c].active => entry'[c].active /\ entry'[c].row = row[c]
    BY <2>1 DEF Entry
  <2>4. Mine(c) => row[c] = i /\ entry[c].active
    BY <2>1, <2>2
  <2>5. Mine(c) => Mine(c)'
    BY <2>3, <2>4
  <2>6. QED
    BY <1>4, <2>1, <2>5
<1>11. ASSUME NEW c \in Clients, Unregister(c) PROVE HasEnder(i)'
  <2>1. CASE ~(entry[c].active /\ entry[c].row # 0)
    <3>1. ~Mine(c)
      BY <1>11, <2>1 DEF Unregister
    <3>2. QED
      BY <1>4, <1>11, <2>1, <3>1 DEF Unregister, Exit
  <2>2. CASE entry[c].active /\ entry[c].row # 0
    <3>1. /\ pc' = [pc EXCEPT ![c] = "ending"] /\ pc[c] = "closing"
          /\ entry' = [entry EXCEPT ![c] = [entry[c] EXCEPT !.active = FALSE]]
          /\ UNCHANGED <<todo, row>>
      BY <1>11, <2>2 DEF Unregister
    <3>2. entry'[c].row = entry[c].row /\ \A d \in Clients \ {c} : entry'[d] = entry[d]
      BY <3>1 DEF Entry
    <3>3. QED
      BY <1>4, <3>1, <3>2
  <2>3. QED
    BY <2>1, <2>2
\* A handler that takes rows over has nothing else to do.
<1>12. ASSUME NEW h \in Handlers, NEW S \in SUBSET Clients, todo[h] = {},
              todo' = [todo EXCEPT ![h] = EndJobs(S)],
              entry' = [c \in Clients |-> IF c \in S THEN [entry[c] EXCEPT !.active = FALSE]
                                          ELSE entry[c]],
              UNCHANGED <<pc, row>>
       PROVE  HasEnder(i)'
  <2>1. Theirs => Theirs'
    BY <1>12
  <2>2. \A c \in Clients : /\ entry'[c].row = entry[c].row
                           /\ c \notin S => entry'[c] = entry[c]
    BY <1>12 DEF Entry
  <2>3. ASSUME NEW c \in Clients, Mine(c) PROVE Mine(c)' \/ Theirs'
    <3>1. CASE c \in S /\ entry[c].row = i
      <4>1. theEnd \in EndJobs(S)
        BY <3>1 DEF theEnd, EndJobs
      <4>2. QED
        BY <1>12, <4>1
    <3>2. CASE c \notin S \/ entry[c].row # i
      BY <1>12, <2>2, <2>3, <3>2
    <3>3. QED
      BY <3>1, <3>2
  <2>4. QED
    BY <1>1, <1>2, <2>1, <2>3
<1>13. ASSUME NEW h \in Handlers, CloseNode(h) PROVE HasEnder(i)'
  <2>1. todo[h] = {}
    BY <1>13 DEF CloseNode, Owners
  <2>2. Carried(h) \in SUBSET Clients
    BY DEF Carried
  <2>3. QED
    BY <1>12, <1>13, <2>1, <2>2 DEF CloseNode, Elsewhere, client
<1>14. ASSUME NEW h \in Handlers, NEW c \in Clients, NodeClose(h, c) PROVE HasEnder(i)'
  <2>1. /\ todo[h] = {} /\ todo' = [todo EXCEPT ![h] = EndJobs({c})]
        /\ entry' = [entry EXCEPT ![c] = [entry[c] EXCEPT !.active = FALSE]]
        /\ UNCHANGED <<pc, row>>
    BY <1>14 DEF NodeClose, Receives, Elsewhere, client
  <2>2. entry' = [d \in Clients |-> IF d \in {c} THEN [entry[d] EXCEPT !.active = FALSE]
                                    ELSE entry[d]]
    BY <2>1
  <2>3. QED
    BY <1>12, <2>1, <2>2
<1>15. ASSUME NEW h \in Handlers, NEW c \in Clients, NodeData(h, c) PROVE HasEnder(i)'
  <2>1. /\ todo[h] = {} /\ UNCHANGED <<pc, row, entry>>
        /\ \A g \in Handlers \ {h} : todo'[g] = todo[g]
    BY <1>15 DEF NodeData, Receives, Elsewhere, client
  <2>2. QED
    BY <1>1, <1>2, <2>1
<1>16. ASSUME NEW h \in Handlers,
              \/ \E k \in Nodes : Configure(h, k)
              \/ HandshakeFails(h) \/ NodeLeaves(h) \/ Connected(h)
       PROVE  HasEnder(i)'
  BY <1>3, <1>16 DEF Configure, HandshakeFails, NodeLeaves, Connected, Elsewhere, client
<1>17. ASSUME NEW h \in Handlers, NEW job \in todo[h], DoStatement(h, job) PROVE HasEnder(i)'
  <2>1. /\ UNCHANGED <<pc, row, entry>>
        /\ todo' = [todo EXCEPT ![h] = todo[h] \ {job}]
    BY <1>17 DEF DoStatement, client
  <2>2. job # theEnd
    <3>1. SUFFICES ASSUME job = theEnd PROVE FALSE
      OBVIOUS
    <3>2. Ends(i)
      BY <1>17, <3>1 DEF DoStatement, theEnd
    <3>3. QED
      BY <3>2, RowKept DEF Ends, Types
  <2>3. QED
    BY <1>1, <1>2, <2>1, <2>2
<1>18. CASE Restart
  BY <1>18 DEF Restart, tables
<1>19. CASE Manage \/ Tick \/ (\E c \in Clients : ClientTouch(c)) \/ UNCHANGED vars
  BY <1>3, <1>19, ManageFacts DEF Types, Managed, Tick, ClientTouch, client, vars
<1>20. QED
  BY <1>7, <1>8, <1>9, <1>10, <1>11, <1>13, <1>14, <1>15, <1>16, <1>17, <1>18, <1>19
     DEF Next, Client, Handler

LEMMA LostStay == ASSUME Types, [Next]_vars, ~Restart PROVE lost \subseteq lost'
BY ManageFacts
   DEF Types, Managed, Next, Client, Handler, Login, Find, Refuse, RegisterStream, StartRow,
       StartRowFails, Open, Run, OpenFails, SetDbId, ClientTouch, ClientLeaves, Unregister, EndRow,
       Configure, Connected, HandshakeFails, NodeData, NodeClose, NodeLeaves, CloseNode,
       DoStatement, Ends, Tick, vars

LEMMA NextEnders == Types /\ Owners /\ OpenRowHasEnder /\ [Next]_vars => OpenRowHasEnder'
<1> SUFFICES ASSUME Types, Owners, OpenRowHasEnder, [Next]_vars,
                    NEW i \in DOMAIN rows', rows'[i].ended = 0, i \notin lost'
             PROVE  HasEnder(i)'
  BY DEF OpenRowHasEnder
<1>1. CASE i \notin DOMAIN rows
  <2>1. PICK c \in Clients : StartRow(c)
    BY <1>1, RowsStayed
  <2>2. i = made + 1
    BY <1>1, <2>1 DEF StartRow, Put
  <2>3. row'[c] = i /\ pc'[c] = "started"
    BY <2>1, <2>2 DEF StartRow, Goto, Types, TypeOK
  <2>4. QED
    BY <2>3 DEF HasEnder
<1>2. CASE i \in DOMAIN rows
  <2>1. CASE Restart
    BY <1>2, <2>1 DEF Restart, tables
  <2>2. CASE ~Restart
    <3>1. rows[i].ended = 0
      BY <1>2, RowsStayed DEF RowsStay
    <3>2. i \notin lost
      BY <2>2, LostStay
    <3>3. QED
      BY <1>2, <3>1, <3>2, EnderStays DEF OpenRowHasEnder
  <2>3. QED
    BY <2>1, <2>2
<1>3. QED
  BY <1>1, <1>2

\* A row that shows a running stream has somebody who will end it: its client,
\* or the handler that took it from the client's entry when the node closed the
\* stream or left, except for the rows that are known to be lost.
THEOREM OpenRowsHaveEnders == Spec => []OpenRowHasEnder
<1>1. Init => Types /\ Owners /\ OpenRowHasEnder
  BY InitTypes, InitOwners DEF Init, OpenRowHasEnder
<1>2. QED
  BY <1>1, NextTypes, NextOwners, NextEnders, PTL DEF Spec

=============================================================================
