----------------------------- MODULE SocksAccess -----------------------------
(***************************************************************************)
(* SOCKS in the database: the tables socks_users, socks_grants and         *)
(* socks_streams of db_sqlite.c, what the management does to them and to   *)
(* the nodes they refer to, and the threads that write a stream's row: the *)
(* one of its client (socks_client_run) and the handlers of the node's     *)
(* sessions.  Every statement or transaction is one step.                  *)
(*                                                                         *)
(* A stream's row names the stream's number, which is counted in memory    *)
(* from 1, and the row of the session that carries it; the two together    *)
(* are UNIQUE.  Rows go away with their user or node (ON DELETE CASCADE)   *)
(* while the stream runs, so any of the later statements may meet none.    *)
(*                                                                         *)
(* Of the granted nodes that are online, a login looks at the one with the *)
(* latest PING.  PINGs and the flag `online' are ControlPlane's, so here   *)
(* it may be any.  Which end of a stream is closed when, SocksStreams has  *)
(* in detail.  Left out: names and passwords (who does not know them is    *)
(* refused), limits, targets and byte counts.                              *)
(***************************************************************************)
EXTENDS Integers, Sequences, FiniteSets, Functions

CONSTANTS
    Clients,     \* SOCKS connections
    Handlers,    \* threads of node sessions
    Users,       \* keys of SOCKS users ever created
    Nodes,       \* keys of nodes ever created
    MaxSessions, \* bound: sessions of nodes ever started
    MaxStreams,  \* bound: streams ever registered by one process
    MaxClock,    \* bound: seconds
    None

ASSUME SocksAssumption ==
    /\ MaxSessions \in Nat /\ MaxStreams \in Nat /\ MaxClock \in Nat \ {0}
    /\ None \notin Users \cup Nodes

VARIABLES
    users,    \* socks_users: key -> enabled
    nodes,    \* nodes: key -> its row
    grants,   \* socks_grants: <<user, node>> -> enabled
    used,     \* keys ever given out
    sessions, \* sessions: number -> node
    rows,     \* socks_streams: id -> its row
    made,     \* ids of socks_streams given out
    link,     \* link[h]: the node session of handler h
    todo,     \* todo[h]: statements h has still to run, after it let the mutex go
    pc,       \* pc[c]: where socks_client_run is for client c
    auth,     \* auth[c]: the user and the node ntap_a_db_get_socks_auth returned
    via,      \* via[c]: the session row socks_active_node_fd returned
    num,      \* num[c]: stream_id
    row,      \* row[c]: db_stream_id, or 0
    entry,    \* entry[c]: the client's entry of g_socks_streams
    opened,   \* opened[c]: the session OPEN was queued for, or 0
    next,     \* g_next_socks_stream_id
    clock,
    lost      \* rows nobody will end: a crash, a failed statement, a CLOSE too early

tables == <<users, nodes, grants, used, sessions, rows, made>>
client == <<pc, auth, via, num, row, opened>>
vars == <<tables, link, todo, client, entry, next, clock, lost>>

Node == [enabled : BOOLEAN, socks : BOOLEAN]
Row == [stream : Nat \ {0}, session : Nat \ {0}, node : Nodes, user : Users,
        active : Nat \ {0}, ended : Nat]
Link == [state : {"off", "ready", "up", "leaving"}, node : Nodes \cup {None}, socks : BOOLEAN,
         session : Nat]
Job == [op : {"touch", "end"}, row : Nat \ {0}]

NoLink == [state |-> "off", node |-> None, socks |-> FALSE, session |-> 0]
Nobody == [user |-> None, node |-> None]
NoEntry == [active |-> FALSE, session |-> 0, row |-> 0]

All(v) == [c \in Clients |-> v]

Init ==
    /\ users = << >> /\ nodes = << >> /\ grants = << >> /\ used = {}
    /\ sessions = << >> /\ rows = << >> /\ made = 0
    /\ link = [h \in Handlers |-> NoLink] /\ todo = [h \in Handlers |-> {}]
    /\ pc = All("off") /\ auth = All(Nobody)
    /\ via = All(0) /\ num = All(0) /\ row = All(0) /\ opened = All(0)
    /\ entry = All(NoEntry)
    /\ next = 1
    /\ clock = 1
    /\ lost = {}

\* A table with row k put in, or with the rows in S taken out.
Put(table, k, v) == [i \in DOMAIN table \cup {k} |-> IF i = k THEN v ELSE table[i]]
Without(table, S) == Restrict(table, DOMAIN table \ S)

-----------------------------------------------------------------------------
(* The management                                                          *)

Managed == UNCHANGED <<sessions, made, link, todo, client, entry, next, clock, lost>>

\* The user and, if a node is named, its first grant, in one transaction.
AddSocksUser(u, k) ==
    /\ u \notin used
    /\ k = None \/ k \in DOMAIN nodes
    /\ used' = used \cup {u}
    /\ users' = Put(users, u, TRUE)
    /\ grants' = IF k = None THEN grants ELSE Put(grants, <<u, k>>, TRUE)
    /\ Managed
    /\ UNCHANGED <<nodes, rows>>

SetSocksUserEnabled(u, b) ==
    /\ u \in DOMAIN users
    /\ users' = [users EXCEPT ![u] = b]
    /\ Managed
    /\ UNCHANGED <<nodes, grants, used, rows>>

RowsOf(u, k) == {i \in DOMAIN rows : rows[i].user = u \/ rows[i].node = k}

\* Its grants and the rows of its streams go with it.
DeleteSocksUser(u) ==
    /\ u \in DOMAIN users
    /\ users' = Without(users, {u})
    /\ grants' = Without(grants, {u} \X Nodes)
    /\ rows' = Without(rows, RowsOf(u, None))
    /\ Managed
    /\ UNCHANGED <<nodes, used>>

\* A new grant, or an old one enabled again.
GrantSocksUser(u, k) ==
    /\ u \in DOMAIN users /\ k \in DOMAIN nodes
    /\ grants' = Put(grants, <<u, k>>, TRUE)
    /\ Managed
    /\ UNCHANGED <<users, nodes, used, rows>>

RevokeSocksUser(u, k) ==
    /\ <<u, k>> \in DOMAIN grants
    /\ grants' = [grants EXCEPT ![<<u, k>>] = FALSE]
    /\ Managed
    /\ UNCHANGED <<users, nodes, used, rows>>

AddNode(k) ==
    /\ k \notin used
    /\ used' = used \cup {k}
    /\ nodes' = Put(nodes, k, [enabled |-> TRUE, socks |-> FALSE])
    /\ Managed
    /\ UNCHANGED <<users, grants, rows>>

SetNodeEnabled(k, b) ==
    /\ k \in DOMAIN nodes
    /\ nodes' = [nodes EXCEPT ![k].enabled = b]
    /\ Managed
    /\ UNCHANGED <<users, grants, used, rows>>

\* The sessions of the node keep what they were told.
SetNodeSocks(k, b) ==
    /\ k \in DOMAIN nodes
    /\ nodes' = [nodes EXCEPT ![k].socks = b]
    /\ Managed
    /\ UNCHANGED <<users, grants, used, rows>>

DeleteNode(k) ==
    /\ k \in DOMAIN nodes
    /\ nodes' = Without(nodes, {k})
    /\ grants' = Without(grants, Users \X {k})
    /\ rows' = Without(rows, RowsOf(None, k))
    /\ Managed
    /\ UNCHANGED <<users, used>>

-----------------------------------------------------------------------------
(* The statements about a stream's row                                     *)

\* Faulty variant: an ended row is touched as well.
Touched_Late(i) == IF i \in DOMAIN rows THEN [rows EXCEPT ![i].active = clock] ELSE rows

\* ntap_a_db_socks_stream_touch, of a row that may be gone or ended: last_active.
Touched(i) ==
    IF i \in DOMAIN rows /\ rows[i].ended = 0
    THEN [rows EXCEPT ![i].active = clock]
    ELSE rows

\* ntap_a_db_socks_stream_end, of a row that may be gone or ended.
Ended(i) ==
    IF i \in DOMAIN rows /\ rows[i].ended = 0
    THEN [rows EXCEPT ![i].active = clock, ![i].ended = clock]
    ELSE rows

\* Nobody looks at a failure of the latter.
Ends(i) ==
    \/ rows' = Ended(i) /\ UNCHANGED lost
    \/ lost' = lost \cup {i} /\ UNCHANGED rows

Statement == UNCHANGED <<users, nodes, grants, used, sessions, made, next, clock>>

-----------------------------------------------------------------------------
(* socks_client_run                                                        *)

Goto(c, l) == pc' = [pc EXCEPT ![c] = l]

\* The thread ends.
Exit(c) ==
    /\ Goto(c, "off")
    /\ auth' = [auth EXCEPT ![c] = Nobody]
    /\ via' = [via EXCEPT ![c] = 0] /\ num' = [num EXCEPT ![c] = 0]
    /\ row' = [row EXCEPT ![c] = 0] /\ opened' = [opened EXCEPT ![c] = 0]
    /\ entry' = [entry EXCEPT ![c] = NoEntry]

\* ntap_a_db_get_socks_auth, and the CONNECT request.
Login(c, u, k) ==
    /\ pc[c] = "off"
    /\ <<u, k>> \in DOMAIN grants
    /\ users[u] /\ grants[<<u, k>>] /\ nodes[k].enabled /\ nodes[k].socks
    /\ auth' = [auth EXCEPT ![c] = [user |-> u, node |-> k]]
    /\ Goto(c, "asked")
    /\ UNCHANGED <<tables, link, todo, via, num, row, entry, opened, next, clock, lost>>

\* Sessions that streams of node k may use.
Serving(k) == {h \in Handlers : link[h].state = "up" /\ link[h].node = k /\ link[h].socks}

\* socks_active_node_fd
Find(c) ==
    /\ pc[c] = "asked"
    /\ \E h \in Serving(auth[c].node) : via' = [via EXCEPT ![c] = link[h].session]
    /\ Goto(c, "found")
    /\ UNCHANGED <<tables, link, todo, auth, num, row, entry, opened, next, clock, lost>>

\* No session, a limit, or the client leaves before there is a stream.
Refuse(c) ==
    /\ pc[c] \in {"asked", "found"}
    /\ Exit(c)
    /\ UNCHANGED <<tables, link, todo, next, clock, lost>>

\* socks_stream_register
RegisterStream(c) ==
    /\ pc[c] = "found"
    /\ next <= MaxStreams
    /\ num' = [num EXCEPT ![c] = next]
    /\ next' = next + 1
    /\ entry' = [entry EXCEPT ![c] = [active |-> TRUE, session |-> via[c], row |-> 0]]
    /\ Goto(c, "registered")
    /\ UNCHANGED <<tables, link, todo, auth, via, row, opened, clock, lost>>

\* What UNIQUE(session_id, stream_id) and the foreign keys demand.
Taken(s, n) == \E i \in DOMAIN rows : rows[i].session = s /\ rows[i].stream = n
Insertable(c) ==
    /\ ~Taken(via[c], num[c])
    /\ via[c] \in DOMAIN sessions
    /\ auth[c].user \in DOMAIN users /\ auth[c].node \in DOMAIN nodes

\* ntap_a_db_socks_stream_start
StartRow(c) ==
    /\ pc[c] = "registered"
    /\ Insertable(c)
    /\ rows' = Put(rows, made + 1,
                   [stream |-> num[c], session |-> via[c], node |-> auth[c].node,
                    user |-> auth[c].user, active |-> clock, ended |-> 0])
    /\ made' = made + 1
    /\ row' = [row EXCEPT ![c] = made + 1]
    /\ Goto(c, "started")
    /\ UNCHANGED <<users, nodes, grants, used, sessions, link, todo, auth, via, num, entry,
                   opened, next, clock, lost>>

\* Faulty variant: the error is not looked at.
StartRowFails_GoesOn(c) ==
    /\ pc[c] = "registered"
    /\ Goto(c, "started")
    /\ UNCHANGED <<tables, link, todo, auth, via, num, row, entry, opened, next, clock, lost>>

\* A key is gone, or the database stays locked.
StartRowFails(c) ==
    /\ pc[c] = "registered"
    /\ Goto(c, "closing")
    /\ UNCHANGED <<tables, link, todo, auth, via, num, row, entry, opened, next, clock, lost>>

\* SOCKS_STREAM_OPEN is queued for a session of the node.
Open(c) ==
    /\ pc[c] = "started"
    /\ \E h \in Serving(auth[c].node) : opened' = [opened EXCEPT ![c] = link[h].session]
    /\ Goto(c, "opened")
    /\ UNCHANGED <<tables, link, todo, auth, via, num, row, entry, next, clock, lost>>

\* socks_stream_set_db_id: only an entry that is still there gets the row.
SetDbId(c, l) ==
    /\ entry' = [entry EXCEPT ![c].row = IF entry[c].active THEN row[c] ELSE 0]
    /\ lost' = IF entry[c].active THEN lost ELSE lost \cup {row[c]}
    /\ Goto(c, l)
    /\ UNCHANGED <<tables, link, todo, auth, via, num, row, opened, next, clock>>

Run(c) == pc[c] = "opened" /\ SetDbId(c, "running")

\* No session takes OPEN.
OpenFails(c) == pc[c] = "started" /\ SetDbId(c, "closing")

\* The client has sent something, and the node could be told.
ClientTouch(c) ==
    /\ pc[c] = "running"
    /\ row[c] # 0
    /\ rows' = Touched(row[c])
    /\ Statement
    /\ UNCHANGED <<link, todo, client, entry, lost>>

\* The end of the loop, for one of many reasons.
ClientLeaves(c) ==
    /\ pc[c] = "running"
    /\ Goto(c, "closing")
    /\ UNCHANGED <<tables, link, todo, auth, via, num, row, entry, opened, next, clock, lost>>

\* socks_stream_unregister, and socks_stream_mark_client_fin for the second FIN.
Unregister(c) ==
    /\ pc[c] = "closing"
    /\ IF entry[c].active /\ entry[c].row # 0
       THEN /\ entry' = [entry EXCEPT ![c].active = FALSE]
            /\ Goto(c, "ending")
            /\ UNCHANGED <<auth, via, num, row, opened>>
       ELSE Exit(c)
    /\ UNCHANGED <<tables, link, todo, next, clock, lost>>

EndRow(c) ==
    /\ pc[c] = "ending"
    /\ Statement
    /\ Ends(entry[c].row)
    /\ Exit(c)
    /\ UNCHANGED <<link, todo>>

-----------------------------------------------------------------------------
(* The handlers of the nodes' sessions                                     *)

Elsewhere == UNCHANGED <<client, next, clock>>

\* The node is authenticated and its configuration read.
Configure(h, k) ==
    /\ link[h].state = "off" /\ todo[h] = {}
    /\ k \in DOMAIN nodes
    /\ nodes[k].enabled
    /\ link' = [link EXCEPT ![h] = [state |-> "ready", node |-> k, socks |-> nodes[k].socks,
                                    session |-> 0]]
    /\ UNCHANGED <<tables, todo, entry, lost>>
    /\ Elsewhere

\* Faulty variant: the row of the node's last session is used again.
Connected_Resumes(h) ==
    /\ link[h].state = "ready"
    /\ Len(sessions) < MaxSessions
    /\ LET last == {s \in DOMAIN sessions : sessions[s] = link[h].node}
           s == IF last = {} THEN Len(sessions) + 1 ELSE CHOOSE s \in last : TRUE
       IN /\ sessions' = IF last = {} THEN Append(sessions, link[h].node) ELSE sessions
          /\ link' = [link EXCEPT ![h].state = "up", ![h].session = s]
    /\ UNCHANGED <<users, nodes, grants, used, rows, made, todo, entry, lost>>
    /\ Elsewhere

\* The session gets its row and is registered.
Connected(h) ==
    /\ link[h].state = "ready"
    /\ Len(sessions) < MaxSessions
    /\ sessions' = Append(sessions, link[h].node)
    /\ link' = [link EXCEPT ![h].state = "up", ![h].session = Len(sessions) + 1]
    /\ UNCHANGED <<users, nodes, grants, used, rows, made, todo, entry, lost>>
    /\ Elsewhere

\* ... or the handshake fails.
HandshakeFails(h) ==
    /\ link[h].state = "ready"
    /\ link' = [link EXCEPT ![h] = NoLink]
    /\ UNCHANGED <<tables, todo, entry, lost>>
    /\ Elsewhere

\* A message of the node about a stream it was asked to open.
Receives(h, c) == /\ link[h].state = "up" /\ todo[h] = {}
                  /\ opened[c] = link[h].session

\* socks_stream_send_to_client looks the stream up; what it sends is counted
\* later.
NodeData(h, c) ==
    /\ Receives(h, c)
    /\ entry[c].active /\ entry[c].session = link[h].session /\ entry[c].row # 0
    /\ todo' = [todo EXCEPT ![h] = {[op |-> "touch", row |-> entry[c].row]}]
    /\ UNCHANGED <<tables, link, entry, lost>>
    /\ Elsewhere

EndJobs(S) == {[op |-> "end", row |-> entry[c].row] : c \in {c \in S : entry[c].row # 0}}

\* The node closes the stream, or its FIN is the second.  A CLOSE without FIN
\* takes any stream by its number (only a FIN is compared with node_fd); nodes
\* are taken to close streams of their own.
NodeClose(h, c) ==
    /\ Receives(h, c)
    /\ entry[c].active
    /\ entry' = [entry EXCEPT ![c].active = FALSE]
    /\ todo' = [todo EXCEPT ![h] = EndJobs({c})]
    /\ UNCHANGED <<tables, link, lost>>
    /\ Elsewhere

\* The handler's loop ends: session_unregister.
NodeLeaves(h) ==
    /\ link[h].state = "up" /\ todo[h] = {}
    /\ link' = [link EXCEPT ![h].state = "leaving"]
    /\ UNCHANGED <<tables, todo, entry, lost>>
    /\ Elsewhere

Carried(h) == {c \in Clients : entry[c].active /\ entry[c].session = link[h].session}

\* Faulty variant: the entries are freed, their rows left to the clients.
CloseNode_KeepsRows(h) ==
    /\ link[h].state = "leaving"
    /\ entry' = [c \in Clients |-> IF c \in Carried(h) THEN [entry[c] EXCEPT !.active = FALSE]
                                   ELSE entry[c]]
    /\ link' = [link EXCEPT ![h] = NoLink]
    /\ UNCHANGED <<tables, todo, lost>>
    /\ Elsewhere

\* socks_stream_close_node
CloseNode(h) ==
    /\ link[h].state = "leaving"
    /\ entry' = [c \in Clients |-> IF c \in Carried(h) THEN [entry[c] EXCEPT !.active = FALSE]
                                   ELSE entry[c]]
    /\ todo' = [todo EXCEPT ![h] = EndJobs(Carried(h))]
    /\ link' = [link EXCEPT ![h] = NoLink]
    /\ UNCHANGED <<tables, lost>>
    /\ Elsewhere

\* A statement the handler still has to run; a failure is only logged.
DoStatement(h, job) ==
    /\ todo' = [todo EXCEPT ![h] = @ \ {job}]
    /\ Statement
    /\ IF job.op = "end" THEN Ends(job.row)
       ELSE rows' \in {rows, Touched(job.row)} /\ UNCHANGED lost
    /\ UNCHANGED <<link, client, entry>>

-----------------------------------------------------------------------------

\* The process ends and starts again; the tables stay as they are.
Restart ==
    /\ link' = [h \in Handlers |-> NoLink] /\ todo' = [h \in Handlers |-> {}]
    /\ pc' = All("off") /\ auth' = All(Nobody)
    /\ via' = All(0) /\ num' = All(0) /\ row' = All(0) /\ opened' = All(0)
    /\ entry' = All(NoEntry)
    /\ next' = 1
    /\ lost' = {i \in DOMAIN rows : rows[i].ended = 0}
    /\ UNCHANGED <<tables, clock>>

Tick ==
    /\ clock < MaxClock
    /\ clock' = clock + 1
    /\ UNCHANGED <<tables, link, todo, client, entry, next, lost>>

Manage ==
    \/ \E u \in Users :
          \/ \E k \in Nodes \cup {None} : AddSocksUser(u, k)
          \/ \E b \in BOOLEAN : SetSocksUserEnabled(u, b)
          \/ DeleteSocksUser(u)
          \/ \E k \in Nodes : GrantSocksUser(u, k) \/ RevokeSocksUser(u, k)
    \/ \E k \in Nodes :
          \/ AddNode(k) \/ DeleteNode(k)
          \/ \E b \in BOOLEAN : SetNodeEnabled(k, b) \/ SetNodeSocks(k, b)

Client(c) ==
    \/ \E u \in Users, k \in Nodes : Login(c, u, k)
    \/ Find(c) \/ Refuse(c) \/ RegisterStream(c)
    \/ StartRow(c) \/ StartRowFails(c)
    \/ Open(c) \/ Run(c) \/ OpenFails(c)
    \/ ClientTouch(c) \/ ClientLeaves(c) \/ Unregister(c) \/ EndRow(c)

Handler(h) ==
    \/ \E k \in Nodes : Configure(h, k)
    \/ Connected(h) \/ HandshakeFails(h)
    \/ \E c \in Clients : NodeData(h, c) \/ NodeClose(h, c)
    \/ NodeLeaves(h) \/ CloseNode(h)
    \/ \E job \in todo[h] : DoStatement(h, job)

Next ==
    \/ Manage
    \/ \E c \in Clients : Client(c)
    \/ \E h \in Handlers : Handler(h)
    \/ Restart
    \/ Tick

Spec == Init /\ [][Next]_vars

-----------------------------------------------------------------------------
(* Properties                                                              *)

\* References between the tables hold, whatever is deleted while streams run:
\* a grant has its user and node, a stream's row also its session.
TypeOK ==
    /\ users \in [DOMAIN users -> BOOLEAN] /\ DOMAIN users \subseteq Users \cap used
    /\ nodes \in [DOMAIN nodes -> Node] /\ DOMAIN nodes \subseteq Nodes \cap used
    /\ grants \in [DOMAIN grants -> BOOLEAN]
    /\ DOMAIN grants \subseteq (DOMAIN users) \X (DOMAIN nodes)
    /\ sessions \in Seq(Nodes)
    /\ made \in Nat
    /\ rows \in [DOMAIN rows -> Row] /\ DOMAIN rows \subseteq 1..made
    /\ \A i \in DOMAIN rows : /\ rows[i].user \in DOMAIN users /\ rows[i].node \in DOMAIN nodes
                              /\ rows[i].session \in DOMAIN sessions
    /\ link \in [Handlers -> Link]
    /\ todo \in [Handlers -> SUBSET Job]
    /\ pc \in [Clients -> {"off", "asked", "found", "registered", "started", "opened", "running",
                           "closing", "ending"}]
    /\ auth \in [Clients -> [user : Users \cup {None}, node : Nodes \cup {None}]]
    /\ via \in [Clients -> Nat] /\ num \in [Clients -> Nat] /\ row \in [Clients -> Nat]
    /\ opened \in [Clients -> Nat]
    /\ entry \in [Clients -> [active : BOOLEAN, session : Nat, row : Nat]]
    /\ next \in Nat \ {0} /\ clock \in Nat \ {0}
    /\ lost \subseteq 1..made

\* The insert of a stream's row is never refused for its number: numbers start
\* again with the process, but the rows of its sessions are new by then.
NumberIsFree == \A c \in Clients : pc[c] = "registered" => ~Taken(via[c], num[c])

\* A stream's row names a session of the node it names: the node was chosen by
\* the login, the session later, and node and sessions change in between.
RowOfItsNode == \A i \in DOMAIN rows : sessions[rows[i].session] = rows[i].node

\* A stream the node was asked to open is in the table as running as long as
\* neither end has closed it, unless its user or its node was deleted.
LiveStreamHasRow ==
    \A c \in Clients :
        entry[c].active /\ pc[c] \in {"started", "opened", "running"} =>
            \/ row[c] \in DOMAIN rows /\ rows[row[c]].ended = 0
            \/ auth[c].user \notin DOMAIN users
            \/ auth[c].node \notin DOMAIN nodes

\* Who will end row i.
HasEnder(i) ==
    \/ \E c \in Clients :
          \/ row[c] = i /\ pc[c] \in {"started", "opened"}
          \/ entry[c].row = i /\ (entry[c].active \/ pc[c] = "ending")
    \/ \E h \in Handlers : [op |-> "end", row |-> i] \in todo[h]

\* A row that shows a running stream has somebody who will end it, unless it is
\* one of those that are known to be lost.
OpenRowHasEnder == \A i \in DOMAIN rows : rows[i].ended = 0 /\ i \notin lost => HasEnder(i)

\* What a row says of its end (ended_at, last_active) stays: the other thread may
\* still count bytes of the stream, or end it, when the first has ended it.  The
\* bytes, which are left out here, are added to an ended row as well.
EndIsFinal ==
    [][\A i \in DOMAIN rows : i \in DOMAIN rows' /\ rows[i].ended # 0 => rows'[i] = rows[i]]_vars

=============================================================================
