------------------------- MODULE SocksStreamsProofs -------------------------
(***************************************************************************)
(* Proofs about SocksStreams: what every entry of g_socks_streams looks    *)
(* like, that there are never too many, that none stays behind with a      *)
(* session that has gone, that the session is told of a stream's end, and  *)
(* that exactly one thread ends its row; for any number of clients and     *)
(* node sessions.                                                          *)
(*                                                                         *)
(* Only one step makes an entry, and it does so after it has counted them; *)
(* all the others leave the set of entries alone or take some off.  The    *)
(* invariants of the later sections each add what they need to that one:   *)
(* Stranding (a stream and its session), ToldInv (what a session was asked *)
(* and told) and RowInv (who has still to end a row).                      *)
(***************************************************************************)
EXTENDS SocksStreams, TLAPS, FiniteSetTheorems

IInv == TypeOK /\ StreamHasClient /\ BothFinsEnd

LEMMA Initially == Init => IInv /\ Active = {}
<1> SUFFICES ASSUME Init PROVE IInv /\ Active = {}
    OBVIOUS
<1>1. TypeOK
    BY DEF Init, TypeOK, Stream
<1>2. Active = {}
    BY DEF Init, Active
<1>3. QED
    BY <1>1, <1>2 DEF IInv, StreamHasClient, BothFinsEnd

-----------------------------------------------------------------------------
(* The steps, by what they do to the entries                               *)

\* What a step of client c's thread, or of a handler about c, leaves alone.
Others(c) == \A d \in Clients \ {c} : stream'[d] = stream[d] /\ pc'[d] = pc[d]

\* A step that makes no entry: it changes a live one, or takes it off.
Shrinks == \A d \in Clients : stream'[d].active => stream[d].active

\* The changes an entry meets.
LEMMA Fields ==
    ASSUME NEW s \in Stream
    PROVE  s.active \in BOOLEAN /\ s.clientFin \in BOOLEAN /\ s.nodeFin \in BOOLEAN
BY DEF Stream

LEMMA TakenOff ==
    ASSUME NEW s \in Stream
    PROVE  /\ [s EXCEPT !.active = FALSE] \in Stream
           /\ [s EXCEPT !.active = FALSE].active = FALSE
BY DEF Stream

LEMMA GivenRow ==
    ASSUME NEW s \in Stream, NEW b \in BOOLEAN
    PROVE  /\ [s EXCEPT !.dbId = b] \in Stream
           /\ [s EXCEPT !.dbId = b].active = s.active
           /\ [s EXCEPT !.dbId = b].clientFin = s.clientFin
           /\ [s EXCEPT !.dbId = b].nodeFin = s.nodeFin
BY DEF Stream

LEMMA NodeFinished ==
    ASSUME NEW s \in Stream, NEW a \in BOOLEAN
    PROVE  /\ [s EXCEPT !.nodeFin = TRUE, !.active = a] \in Stream
           /\ [s EXCEPT !.nodeFin = TRUE, !.active = a].active = a
           /\ [s EXCEPT !.nodeFin = TRUE, !.active = a].clientFin = s.clientFin
BY DEF Stream

\* The thread of c registers, which it may only do if there is room.
LEMMA Registers ==
    ASSUME IInv, NEW c \in Clients, RegisterStream(c)
    PROVE  IInv' /\ MayOpen /\ Active' \subseteq Active \cup {c}
<1> USE DEF RegisterStream, Goto
<1>1. TypeOK'
    <2>1. [active |-> TRUE, node |-> found[c], clientFin |-> FALSE, nodeFin |-> FALSE,
           dbId |-> FALSE] \in Stream
        BY DEF IInv, TypeOK, Stream
    <2>2. stream' \in [Clients -> Stream]
        BY <2>1 DEF IInv, TypeOK
    <2>3. QED
        BY <2>2 DEF IInv, TypeOK
<1>2. /\ Others(c) /\ pc'[c] = "registered"
      /\ stream'[c] = [active |-> TRUE, node |-> found[c], clientFin |-> FALSE,
                       nodeFin |-> FALSE, dbId |-> FALSE]
    BY DEF IInv, TypeOK, Others
<1>3. MayOpen /\ Active' \subseteq Active \cup {c}
    BY <1>2 DEF Active, Others
<1>4. StreamHasClient' /\ BothFinsEnd'
    BY <1>2 DEF IInv, StreamHasClient, BothFinsEnd, Active, Others
<1>5. QED
    BY <1>1, <1>3, <1>4 DEF IInv

\* The other steps of a client's thread that change no entry.
LEMMA MovesOn ==
    ASSUME IInv, NEW c \in Clients,
           \/ RegisterFull(c) \/ StartRow(c) \/ Open(c) \/ EndAtFin(c) \/ FinOver(c) \/ Close(c)
           \/ EndAtClose(c) \/ HangUp(c) \/ Connect(c) \/ Refuse(c) \/ BreakOff(c) \/ Eof(c)
           \/ FinPoll(c)
    PROVE  IInv' /\ Active' = Active
<1> USE DEF Goto, clientVars, nodeVars
<1>1. stream' = stream /\ node' = node
    BY DEF RegisterFull, StartRow, Open, EndAtFin, FinOver, Close, EndAtClose, HangUp, Connect,
        Refuse, BreakOff, Eof, FinPoll, vars
<1>2. pc' \in {pc, [pc EXCEPT ![c] = pc'[c]]}
      /\ (pc'[c] = pc[c] \/ pc'[c] \in {"found", "started", "opened", "marking", "waiting",
                                        "closing", "unregistering", "closed"})
    BY DEF IInv, TypeOK, RegisterFull, StartRow, Open, EndAtFin, FinOver, Close, EndAtClose,
        HangUp, Connect, Refuse, BreakOff, Eof, FinPoll, vars
<1>3. pc'[c] \in {"found", "closed"} =>
         pc'[c] = pc[c] \/ pc[c] \in {"auth", "found", "endrow", "hangup"}
    BY DEF IInv, TypeOK, RegisterFull, StartRow, Open, EndAtFin, FinOver, Close, EndAtClose,
        HangUp, Connect, Refuse, BreakOff, Eof, FinPoll, vars
<1>4. found' \in [Clients -> Nodes \cup {None}]
    BY DEF IInv, TypeOK, Listed, RegisterFull, StartRow, Open, EndAtFin, FinOver, Close,
        EndAtClose, HangUp, Connect, Refuse, BreakOff, Eof, FinPoll, vars
<1>5. opened' \in [Nodes -> SUBSET Clients]
    BY DEF IInv, TypeOK, Up, RegisterFull, StartRow, Open, EndAtFin, FinOver, Close,
        EndAtClose, HangUp, Connect, Refuse, BreakOff, Eof, FinPoll, vars
<1>6. told' \in [Nodes -> SUBSET Clients]
    BY DEF IInv, TypeOK, Up, RegisterFull, StartRow, Open, EndAtFin, FinOver, Close,
        EndAtClose, HangUp, Connect, Refuse, BreakOff, Eof, FinPoll, vars
<1>7. TypeOK'
    BY <1>1, <1>2, <1>4, <1>5, <1>6 DEF IInv, TypeOK
<1>8. StreamHasClient' /\ BothFinsEnd' /\ Active' = Active
    BY <1>1, <1>2, <1>3 DEF IInv, TypeOK, StreamHasClient, BothFinsEnd, Active
<1>9. QED
    BY <1>7, <1>8 DEF IInv

\* The thread gives its entry a row, sets its FIN, or takes it off.
LEMMA ChangesOwn ==
    ASSUME IInv, NEW c \in Clients,
           OpenFails(c) \/ SetDbId(c) \/ MarkClientFin(c) \/ Unregister(c)
    PROVE  IInv' /\ Shrinks
<1> USE DEF OpenFails, SetDbId, WithRow, MarkClientFin, Unregister, Goto, nodeVars
<1>1. Others(c) /\ pc'[c] \in {"closing", "loop", "ending", "waiting", "endrow", "hangup"}
    BY DEF IInv, TypeOK, Others
<1>2. /\ stream'[c] \in Stream
      /\ stream'[c].active => /\ stream[c].active
                              /\ pc'[c] \in {"closing", "loop", "waiting"}
                              /\ ~(stream'[c].clientFin /\ stream'[c].nodeFin)
    <2>0. /\ stream \in [Clients -> Stream] /\ stream[c] \in Stream
          /\ stream[c].active \in BOOLEAN /\ stream[c].nodeFin \in BOOLEAN
          /\ stream[c].active => ~(stream[c].clientFin /\ stream[c].nodeFin)
          /\ DOMAIN pc = Clients
        BY Fields DEF IInv, TypeOK, BothFinsEnd, Active
    <2>1. CASE OpenFails(c) \/ SetDbId(c)
        <3>1. /\ stream'[c] = [stream[c] EXCEPT !.dbId = stream[c].active]
              /\ pc'[c] \in {"closing", "loop"}
            BY <2>0, <2>1
        <3>2. QED
            BY <2>0, <3>1, GivenRow
    <2>2. CASE MarkClientFin(c)
        <3>1. /\ stream'[c] = [stream[c] EXCEPT
                    !.clientFin = stream[c].active,
                    !.active = stream[c].active /\ ~(stream[c].active /\ stream[c].nodeFin)]
              /\ ~(stream[c].active /\ stream[c].nodeFin) => pc'[c] = "waiting"
            BY <2>0, <2>2
        <3>2. /\ stream'[c] \in Stream
              /\ stream'[c].active => stream[c].active /\ ~stream[c].nodeFin
              /\ stream'[c].nodeFin = stream[c].nodeFin
            BY <2>0, <3>1 DEF Stream
        <3>3. QED
            BY <3>1, <3>2
    <2>3. CASE Unregister(c)
        <3>1. stream'[c] = [stream[c] EXCEPT !.active = FALSE]
            BY <2>0, <2>3
        <3>2. QED
            BY <2>0, <3>1, TakenOff
    <2>4. QED
        BY <2>1, <2>2, <2>3
<1>3. stream' \in [Clients -> Stream]
    BY <1>1, <1>2 DEF IInv, TypeOK, Others
<1>4. pc' \in [Clients -> {"auth", "found", "registered", "started", "opened", "loop", "marking",
                           "ending", "waiting", "closing", "unregistering", "endrow", "hangup",
                           "closed"}]
    BY <1>1 DEF IInv, TypeOK
<1>5. TypeOK'
    BY <1>3, <1>4 DEF IInv, TypeOK
<1>6. StreamHasClient' /\ BothFinsEnd' /\ Shrinks
    BY <1>1, <1>2 DEF IInv, StreamHasClient, BothFinsEnd, Active, Others, Shrinks
<1>7. QED
    BY <1>5, <1>6 DEF IInv

\* A message of the node about stream c.
LEMMA NodeSays ==
    ASSUME IInv, NEW n \in Nodes, NEW c \in Clients,
           NodeData(n, c) \/ NodeClose(n, c) \/ NodeFin(n, c)
    PROVE  IInv' /\ Shrinks
<1> USE DEF NodeData, NodeClose, NodeFin, Leave, clientVars
<1>1. Others(c) /\ pc' = pc /\ found' = found
    BY DEF IInv, TypeOK, Others
<1>2. /\ stream'[c] \in Stream
      /\ stream'[c].active => /\ stream[c].active
                              /\ ~(stream'[c].clientFin /\ stream'[c].nodeFin)
    <2>0. /\ stream \in [Clients -> Stream] /\ stream[c] \in Stream
          /\ stream[c].clientFin \in BOOLEAN
          /\ stream[c].active => ~(stream[c].clientFin /\ stream[c].nodeFin)
        BY Fields DEF IInv, TypeOK, BothFinsEnd, Active
    <2>1. CASE NodeData(n, c)
        BY <2>0, <2>1
    <2>2. CASE NodeClose(n, c)
        <3>1. stream'[c] = [stream[c] EXCEPT !.active = FALSE]
            BY <2>0, <2>2
        <3>2. QED
            BY <2>0, <3>1, TakenOff
    <2>3. CASE NodeFin(n, c)
        <3>1. /\ stream'[c] = [stream[c] EXCEPT !.nodeFin = TRUE,
                                                !.active = ~stream[c].clientFin]
              /\ stream[c].active
            BY <2>0, <2>3
        <3>2. (~stream[c].clientFin) \in BOOLEAN
            OBVIOUS
        <3>3. /\ stream'[c] \in Stream
              /\ stream'[c].active = ~stream[c].clientFin
              /\ stream'[c].clientFin = stream[c].clientFin
            BY <2>0, <3>1, <3>2, NodeFinished
        <3>4. QED
            BY <3>1, <3>3
    <2>4. QED
        BY <2>1, <2>2, <2>3
<1>3. stream' \in [Clients -> Stream]
    BY <1>1, <1>2 DEF IInv, TypeOK, Others
<1>4. TypeOK'
    BY <1>1, <1>3 DEF IInv, TypeOK
<1>5. StreamHasClient' /\ BothFinsEnd' /\ Shrinks
    BY <1>1, <1>2 DEF IInv, StreamHasClient, BothFinsEnd, Active, Others, Shrinks
<1>6. QED
    BY <1>4, <1>5 DEF IInv

\* A session comes, goes, or does what it has still to do.
LEMMA NodeActs ==
    ASSUME IInv, NEW n \in Nodes,
           NodeUp(n) \/ NodeDeaf(n) \/ NodeLeaves(n) \/ DoWork(n) \/ CloseNode(n)
    PROVE  IInv' /\ Shrinks
<1> USE DEF NodeUp, NodeDeaf, NodeLeaves, DoWork, CloseNode, Leave, clientVars
<1>1. pc' = pc /\ found' = found /\ opened' = opened /\ told' = told
    OBVIOUS
<1>2. stream' \in [Clients -> Stream]
      /\ \A d \in Clients : stream'[d] \in {stream[d], [stream[d] EXCEPT !.active = FALSE]}
    <2>0. stream \in [Clients -> Stream]
          /\ \A d \in Clients : [stream[d] EXCEPT !.active = FALSE] \in Stream
        BY TakenOff DEF IInv, TypeOK
    <2>1. CASE CloseNode(n)
        BY <2>0, <2>1
    <2>2. CASE ~CloseNode(n)
        <3>1. stream' = stream
            BY <2>2
        <3>2. QED
            BY <2>0, <3>1
    <2>3. QED
        BY <2>1, <2>2
<1>3. node' \in [Nodes -> {"off", "up", "deaf", "leaving", "down"}]
    BY DEF IInv, TypeOK
<1>4. TypeOK'
    BY <1>1, <1>2, <1>3 DEF IInv, TypeOK
<1>5. \A d \in Clients : stream'[d].active => stream'[d] = stream[d]
    BY <1>2, TakenOff DEF IInv, TypeOK
<1>6. StreamHasClient' /\ BothFinsEnd' /\ Shrinks
    BY <1>1, <1>5 DEF IInv, StreamHasClient, BothFinsEnd, Active, Shrinks
<1>7. QED
    BY <1>4, <1>6 DEF IInv

\* Every step keeps the invariant, and an entry is only added if there is room.
LEMMA Steps ==
    ASSUME IInv, [Next]_vars
    PROVE  /\ IInv'
           /\ \/ Active' \subseteq Active
              \/ \E c \in Clients : MayOpen /\ Active' \subseteq Active \cup {c}
<1>1. Shrinks => Active' \subseteq Active
    BY DEF Shrinks, Active
<1>2. CASE \E c \in Clients : Client(c) \/ Connect(c) \/ Refuse(c) \/ BreakOff(c) \/ Eof(c)
                              \/ FinPoll(c)
    BY <1>1, <1>2, Registers, MovesOn, ChangesOwn DEF Client
<1>3. CASE \E n \in Nodes :
              \/ Handler(n) \/ NodeUp(n) \/ NodeDeaf(n) \/ NodeLeaves(n)
              \/ \E c \in Clients : NodeData(n, c) \/ NodeClose(n, c) \/ NodeFin(n, c)
    BY <1>1, <1>3, NodeSays, NodeActs DEF Handler
<1>4. CASE Finished \/ UNCHANGED vars
    <2>1. UNCHANGED vars
        BY <1>4 DEF Finished
    <2>2. IInv'
        BY <2>1 DEF IInv, vars, TypeOK, StreamHasClient, BothFinsEnd, Active
    <2>3. Active' = Active
        BY <2>1 DEF vars, Active
    <2>4. QED
        BY <2>2, <2>3
<1>5. QED
    BY <1>2, <1>3, <1>4 DEF Next

LEMMA InvariantHolds == Spec => []IInv
<1>1. Init => IInv
    BY Initially
<1>2. IInv /\ [Next]_vars => IInv'
    BY Steps
<1>3. QED
    BY <1>1, <1>2, PTL DEF Spec

-----------------------------------------------------------------------------
(* What the steps do to an entry                                           *)

\* Only its registration gives an entry a session and makes it live.
LEMMA EntryLives ==
    ASSUME IInv, [Next]_vars, NEW d \in Clients, ~RegisterStream(d)
    PROVE  /\ stream'[d].node = stream[d].node
           /\ stream'[d].active => stream[d].active
<1>0. stream \in [Clients -> Stream] /\ stream[d] \in Stream
    BY DEF IInv, TypeOK
<1>1. ASSUME NEW c \in Clients, RegisterStream(c)
      PROVE  stream'[d] = stream[d]
    BY <1>0, <1>1 DEF RegisterStream
<1>2. ASSUME NEW c \in Clients, OpenFails(c) \/ SetDbId(c)
      PROVE  stream'[d] \in {stream[d], [stream[d] EXCEPT !.dbId = stream[d].active]}
    BY <1>0, <1>2 DEF OpenFails, SetDbId, WithRow
<1>3. ASSUME NEW c \in Clients, MarkClientFin(c)
      PROVE  \/ stream'[d] = stream[d]
             \/ stream'[d] = [stream[d] EXCEPT
                    !.clientFin = stream[d].active,
                    !.active = stream[d].active /\ ~(stream[d].active /\ stream[d].nodeFin)]
    BY <1>0, <1>3 DEF MarkClientFin
<1>4. ASSUME NEW c \in Clients,
             Unregister(c) \/ \E n \in Nodes : NodeClose(n, c) \/ CloseNode(n)
      PROVE  stream'[d] \in {stream[d], [stream[d] EXCEPT !.active = FALSE]}
    BY <1>0, <1>4 DEF Unregister, NodeClose, CloseNode
<1>5. ASSUME NEW c \in Clients, NEW n \in Nodes, NodeFin(n, c)
      PROVE  \/ stream'[d] = stream[d]
             \/ /\ stream[d].active
                /\ stream'[d] = [stream[d] EXCEPT !.nodeFin = TRUE,
                                                  !.active = ~stream[d].clientFin]
    BY <1>0, <1>5 DEF NodeFin
<1>6. \/ stream'[d] = stream[d]
      \/ stream'[d] = [stream[d] EXCEPT !.dbId = stream[d].active]
      \/ stream'[d] = [stream[d] EXCEPT
                    !.clientFin = stream[d].active,
                    !.active = stream[d].active /\ ~(stream[d].active /\ stream[d].nodeFin)]
      \/ stream'[d] = [stream[d] EXCEPT !.active = FALSE]
      \/ /\ stream[d].active
         /\ stream'[d] = [stream[d] EXCEPT !.nodeFin = TRUE, !.active = ~stream[d].clientFin]
    <2>1. CASE \E c \in Clients : Client(c) \/ Connect(c) \/ Refuse(c) \/ BreakOff(c) \/ Eof(c)
                                  \/ FinPoll(c)
        BY <2>1, <1>1, <1>2, <1>3, <1>4 DEF Client, RegisterFull, StartRow, Open, EndAtFin,
            FinOver, Close, EndAtClose, HangUp, Connect, Refuse, BreakOff, Eof, FinPoll, vars
    <2>2. CASE \E n \in Nodes : Handler(n) \/ NodeUp(n) \/ NodeDeaf(n) \/ NodeLeaves(n)
                 \/ \E c \in Clients : NodeData(n, c) \/ NodeClose(n, c) \/ NodeFin(n, c)
        BY <2>2, <1>4, <1>5 DEF Handler, NodeUp, NodeDeaf, NodeLeaves, NodeData, DoWork,
            clientVars
    <2>3. QED
        BY <2>1, <2>2 DEF Next, Finished, vars
<1>7. QED
    BY <1>0, <1>6 DEF Stream

-----------------------------------------------------------------------------
(* Streams and the sessions they run over                                  *)

\* The session a client found has been up, and so has a stream's; that one has
\* not gone, unless the client was late.
Stranding ==
    \A c \in Clients :
       /\ pc[c] = "found" => found[c] \in Nodes /\ node[found[c]] # "off"
       /\ stream[c].active => /\ stream[c].node \in Nodes
                              /\ node[stream[c].node] # "off"
                              /\ c \in late \/ node[stream[c].node] # "down"

\* A session never returns to "off", and goes "down" only by CloseNode.
LEMMA SessionMoves ==
    ASSUME IInv, [Next]_vars, NEW n \in Nodes
    PROVE  /\ node'[n] = "off" => node[n] = "off"
           /\ node'[n] = "down" => node[n] = "down" \/ CloseNode(n)
           /\ node'[n] = "up" => node[n] = "up" \/ NodeUp(n)
<1> USE DEF IInv, TypeOK
<1>1. CASE \E c \in Clients : Client(c) \/ Connect(c) \/ Refuse(c) \/ BreakOff(c) \/ Eof(c)
                              \/ FinPoll(c)
    BY <1>1 DEF Client, RegisterStream, RegisterFull, StartRow, Open, OpenFails, SetDbId,
        MarkClientFin, EndAtFin, FinOver, Close, Unregister, EndAtClose, HangUp, Connect, Refuse,
        BreakOff, Eof, FinPoll, vars, nodeVars
<1>2. ASSUME NEW m \in Nodes,
             \/ Handler(m) \/ NodeUp(m) \/ NodeDeaf(m) \/ NodeLeaves(m)
             \/ \E c \in Clients : NodeData(m, c) \/ NodeClose(m, c) \/ NodeFin(m, c)
      PROVE  /\ node'[n] = "off" => node[n] = "off"
             /\ node'[n] = "down" => node[n] = "down" \/ CloseNode(n)
             /\ node'[n] = "up" => node[n] = "up" \/ NodeUp(n)
    <2>1. CASE NodeUp(m)
        <3>1. node' = [node EXCEPT ![m] = "up"]
            BY <2>1 DEF NodeUp
        <3>2. QED
            BY <2>1, <3>1
    <2>2. CASE CloseNode(m)
        <3>1. node' = [node EXCEPT ![m] = "down"]
            BY <2>2 DEF CloseNode
        <3>2. QED
            BY <2>2, <3>1
    <2>3. CASE ~NodeUp(m) /\ ~CloseNode(m)
        <3>1. node' = node \/ node' = [node EXCEPT ![m] = "deaf"]
                           \/ node' = [node EXCEPT ![m] = "leaving"]
            BY <1>2, <2>3 DEF Handler, NodeDeaf, NodeLeaves, NodeData, NodeClose, NodeFin, DoWork,
                Leave
        <3>2. QED
            BY <3>1
    <2>4. QED
        BY <2>1, <2>2, <2>3
<1>3. QED
    BY <1>1, <1>2 DEF Next, Finished, vars

LEMMA StrandingStep ==
    ASSUME IInv, Stranding, [Next]_vars
    PROVE  Stranding'
<1>0. SUFFICES ASSUME NEW d \in Clients
      PROVE  /\ pc'[d] = "found" => found'[d] \in Nodes /\ node'[found'[d]] # "off"
             /\ stream'[d].active => /\ stream'[d].node \in Nodes
                                     /\ node'[stream'[d].node] # "off"
                                     /\ d \in late' \/ node'[stream'[d].node] # "down"
    BY DEF Stranding
<1>1. pc'[d] = "found" => found'[d] \in Nodes /\ node'[found'[d]] # "off"
    <2>1. CASE \E c \in Clients : Connect(c)
        BY <2>1 DEF Connect, Goto, Listed, IInv, TypeOK, Stranding, nodeVars
    <2>2. CASE ~\E c \in Clients : Connect(c)
        <3>1. ASSUME NEW c \in Clients,
                     Client(c) \/ Refuse(c) \/ BreakOff(c) \/ Eof(c) \/ FinPoll(c)
              PROVE  /\ found' = found
                     /\ pc' = pc \/ \E l : pc' = [pc EXCEPT ![c] = l] /\ l # "found"
            BY <3>1 DEF Client, RegisterStream, RegisterFull, StartRow, Open, OpenFails, SetDbId,
                MarkClientFin, EndAtFin, FinOver, Close, Unregister, EndAtClose, HangUp, Refuse,
                BreakOff, Eof, FinPoll, Goto, vars
        <3>2. ASSUME NEW n \in Nodes,
                     \/ Handler(n) \/ NodeUp(n) \/ NodeDeaf(n) \/ NodeLeaves(n)
                     \/ \E c \in Clients : NodeData(n, c) \/ NodeClose(n, c) \/ NodeFin(n, c)
              PROVE  found' = found /\ pc' = pc
            BY <3>2 DEF Handler, NodeUp, NodeDeaf, NodeLeaves, NodeData, NodeClose, NodeFin,
                DoWork, CloseNode, clientVars
        <3>3. found' = found /\ (pc'[d] = "found" => pc[d] = "found")
            BY <2>2, <3>1, <3>2 DEF Next, Finished, vars, IInv, TypeOK
        <3>4. QED
            BY <3>3, SessionMoves DEF Stranding
    <2>3. QED
        BY <2>1, <2>2
<1>2. CASE RegisterStream(d)
    BY <1>2, <1>1 DEF RegisterStream, Listed, IInv, TypeOK, Stranding
<1>3. CASE ~RegisterStream(d)
    <2>1. ASSUME stream'[d].active
          PROVE  /\ stream[d].active /\ stream'[d].node = stream[d].node
                 /\ stream[d].node \in Nodes
        BY <1>3, <2>1, EntryLives DEF Stranding
    <2>2. ASSUME stream'[d].active, CloseNode(stream[d].node)
          PROVE  FALSE
        BY <2>1, <2>2 DEF CloseNode, Active, IInv, TypeOK, Stream
    <2>3. d \in late => d \in late'
        BY DEF Next, Client, RegisterStream, RegisterFull, StartRow, Open, OpenFails, SetDbId,
                MarkClientFin, EndAtFin, FinOver, Close, Unregister, EndAtClose, HangUp, Refuse,
                BreakOff, Eof, FinPoll, vars, nodeVars, Handler, NodeDeaf, NodeLeaves, NodeData,
                NodeClose, NodeFin, DoWork, NodeUp, CloseNode, Goto, clientVars, Finished, Connect
    <2>4. QED
        BY <1>1, <2>1, <2>2, <2>3, SessionMoves DEF Stranding
<1>4. QED
    BY <1>2, <1>3, <1>1

-----------------------------------------------------------------------------
(* What a session is asked and told                                        *)

\* A stream is not open at any session before Open; its entry is whole until
\* then, unless its session has gone.
Asking(c) ==
    pc[c] \in {"auth", "found", "registered", "started"} =>
       /\ \A n \in Nodes : c \notin opened[n]
       /\ pc[c] \in {"registered", "started"} =>
             /\ stream[c].node \in Nodes /\ node[stream[c].node] # "off"
             /\ stream[c].node \in Up => stream[c].active
             /\ ~stream[c].clientFin

\* A session that has still to be told of the end of its stream will be.
Telling(c) ==
    \A n \in Up :
       c \in opened[n] /\ stream[c].node = n /\ ~overlap /\ c \notin told[n] \cup unsaid =>
          stream[c].active /\ ~stream[c].clientFin /\ pc[c] \in {"opened", "loop", "closing"}

\* One session at a time, and none is asked anything before it is up.
OneSession ==
    /\ ~overlap => \A m, n \in Listed : m = n
    /\ \A n \in Nodes : node[n] = "off" => opened[n] = {}

ToldInv == OneSession /\ \A c \in Clients : Asking(c) /\ Telling(c)

LEMMA OneSessionStep ==
    ASSUME IInv, OneSession, [Next]_vars
    PROVE  /\ OneSession'
           /\ overlap => overlap'
           /\ \A n \in Up' : ~overlap' => n \in Up \/ NodeUp(n)
<1> USE DEF IInv, TypeOK
<1>1. ASSUME NEW c \in Clients, Open(c)
      PROVE  /\ node' = node /\ overlap' = overlap
             /\ \A n \in Nodes : opened'[n] = opened[n] \/ node[n] = "up"
    BY <1>1 DEF Open, Up
<1>2. ASSUME NEW c \in Clients, ~Open(c),
             Client(c) \/ Connect(c) \/ Refuse(c) \/ BreakOff(c) \/ Eof(c) \/ FinPoll(c)
      PROVE  node' = node /\ overlap' = overlap /\ opened' = opened
    BY <1>2 DEF Client, RegisterStream, RegisterFull, StartRow, OpenFails, SetDbId,
        MarkClientFin, EndAtFin, FinOver, Close, Unregister, EndAtClose, HangUp, Connect, Refuse,
        BreakOff, Eof, FinPoll, vars, nodeVars
<1>3. ASSUME NEW n \in Nodes, NodeUp(n)
      PROVE  /\ node' = [node EXCEPT ![n] = "up"] /\ opened' = opened
             /\ overlap' = (overlap \/ Listed # {})
    BY <1>3 DEF NodeUp
<1>4. ASSUME NEW n \in Nodes, ~NodeUp(n),
             \/ Handler(n) \/ NodeDeaf(n) \/ NodeLeaves(n)
             \/ \E c \in Clients : NodeData(n, c) \/ NodeClose(n, c) \/ NodeFin(n, c)
      PROVE  /\ overlap' = overlap /\ opened' = opened
             /\ \/ node' = node
                \/ node' = [node EXCEPT ![n] = "deaf"] /\ node[n] = "up"
                \/ node' = [node EXCEPT ![n] = "leaving"]
                \/ node' = [node EXCEPT ![n] = "down"]
    BY <1>4 DEF Handler, NodeDeaf, NodeLeaves, NodeData, NodeClose, NodeFin, DoWork, CloseNode,
        Leave, Up
<1>5. CASE UNCHANGED vars
    <2>1. node' = node /\ overlap' = overlap /\ opened' = opened
        BY <1>5 DEF vars
    <2>2. QED
        BY <2>1 DEF OneSession, Listed, Up
<1>6. CASE \E c \in Clients : Client(c) \/ Connect(c) \/ Refuse(c) \/ BreakOff(c) \/ Eof(c)
                              \/ FinPoll(c)
    <2>1. /\ node' = node /\ overlap' = overlap
          /\ \A n \in Nodes : opened'[n] = opened[n] \/ node[n] = "up"
        BY <1>1, <1>2, <1>6
    <2>2. QED
        BY <2>1 DEF OneSession, Listed, Up
<1>7. ASSUME NEW n \in Nodes, NodeUp(n)
      PROVE  OneSession' /\ (overlap => overlap') /\ \A m \in Up' : ~overlap' => m \in Up \/ m = n
    <2>1. Up' \subseteq Up \cup {n} /\ Listed' \subseteq Listed \cup {n} /\ (overlap => overlap')
        BY <1>3, <1>7 DEF Listed, Up
    <2>2. ~overlap' => Listed = {}
        BY <1>3, <1>7
    <2>3. \A m \in Nodes : node'[m] = "off" => node[m] = "off" /\ opened'[m] = opened[m]
        BY <1>3, <1>7
    <2>4. QED
        BY <2>1, <2>2, <2>3 DEF OneSession
<1>8. ASSUME NEW n \in Nodes, ~NodeUp(n),
             \/ Handler(n) \/ NodeDeaf(n) \/ NodeLeaves(n)
             \/ \E c \in Clients : NodeData(n, c) \/ NodeClose(n, c) \/ NodeFin(n, c)
      PROVE  OneSession' /\ overlap' = overlap /\ Up' \subseteq Up
    BY <1>4, <1>8 DEF OneSession, Listed, Up
<1>9. QED
    BY <1>5, <1>6, <1>7, <1>8 DEF Next, Finished

\* A step of client c's own thread.
LEMMA AskedByClient ==
    ASSUME IInv, Stranding, ToldInv, NEW c \in Clients,
           Client(c) \/ Connect(c) \/ Refuse(c) \/ BreakOff(c) \/ Eof(c) \/ FinPoll(c)
    PROVE  Asking(c)' /\ Telling(c)'
<1> USE DEF IInv, TypeOK, Goto, nodeVars
<1>0. Asking(c) /\ Telling(c) /\ OneSession /\ stream[c] \in Stream
    BY DEF ToldInv
<1>1. CASE Connect(c) \/ Refuse(c) \/ RegisterFull(c)
    BY <1>0, <1>1 DEF Connect, Refuse, RegisterFull, Asking, Telling, Up
<1>2. CASE RegisterStream(c)
    BY <1>0, <1>2 DEF RegisterStream, Asking, Telling, Up, Listed, Stranding
<1>3. CASE StartRow(c)
    BY <1>0, <1>3 DEF StartRow, Asking, Telling, Up
<1>4. CASE Open(c)
    BY <1>0, <1>4 DEF Open, Asking, Telling, Up
<1>5. CASE OpenFails(c)
    BY <1>0, <1>5 DEF OpenFails, Asking, Telling, Up
<1>6. CASE SetDbId(c)
    BY <1>0, <1>6 DEF SetDbId, WithRow, Asking, Telling, Up, Stream
<1>7. CASE BreakOff(c)
    BY <1>0, <1>7 DEF BreakOff, Asking, Telling, Up
<1>8. CASE Eof(c)
    BY <1>0, <1>8 DEF Eof, Asking, Telling, Up, OneSession, Listed
<1>9. CASE MarkClientFin(c) \/ Unregister(c)
    <2>1. pc[c] \in {"marking", "unregistering"} /\ ~RegisterStream(c)
        BY <1>9 DEF MarkClientFin, Unregister, RegisterStream
    <2>2. /\ node' = node /\ opened' = opened /\ told' = told /\ overlap' = overlap
          /\ unsaid' = unsaid
          /\ pc'[c] \in {"ending", "waiting", "endrow", "hangup"}
        BY <1>9 DEF MarkClientFin, Unregister
    <2>3. stream'[c].node = stream[c].node
        BY <1>9, <2>1, EntryLives DEF Next, Client
    <2>4. QED
        BY <1>0, <2>1, <2>2, <2>3 DEF Asking, Telling, Up
<1>10. CASE EndAtFin(c) \/ FinOver(c) \/ FinPoll(c) \/ EndAtClose(c) \/ HangUp(c)
    BY <1>0, <1>10 DEF EndAtFin, FinOver, FinPoll, EndAtClose, HangUp, Asking, Telling, Up, vars
<1>11. CASE Close(c)
    BY <1>0, <1>11 DEF Close, Asking, Telling, Up, Listed, OneSession
<1>12. QED
    BY <1>1, <1>2, <1>3, <1>4, <1>5, <1>6, <1>7, <1>8, <1>9, <1>10, <1>11 DEF Client

\* A client's own step is none of the other streams' business.
LEMMA AskedByOther ==
    ASSUME IInv, ToldInv, NEW c \in Clients, NEW d \in Clients \ {c},
           Client(c) \/ Connect(c) \/ Refuse(c) \/ BreakOff(c) \/ Eof(c) \/ FinPoll(c)
    PROVE  Asking(d)' /\ Telling(d)'
<1> USE DEF IInv, TypeOK, Goto, nodeVars
<1>1. stream'[d] = stream[d] /\ pc'[d] = pc[d] /\ node' = node /\ overlap' = overlap
    BY DEF Client, RegisterStream, RegisterFull, StartRow, Open, OpenFails, SetDbId, WithRow,
        MarkClientFin, EndAtFin, FinOver, Close, Unregister, EndAtClose, HangUp, Connect, Refuse,
        BreakOff, Eof, FinPoll, vars
<1>2. \A n \in Nodes : /\ d \in opened'[n] <=> d \in opened[n]
                       /\ d \in told[n] \cup unsaid => d \in told'[n] \cup unsaid'
    <2>1. CASE Open(c)
        BY <2>1 DEF Open, Up
    <2>2. CASE Eof(c)
        BY <2>2 DEF Eof, Up
    <2>3. CASE Close(c)
        BY <2>3 DEF Close, Up, Listed
    <2>4. CASE ~Open(c) /\ ~Eof(c) /\ ~Close(c)
        <3>1. opened' = opened /\ told' = told /\ unsaid' = unsaid
            BY <2>4 DEF Client, RegisterStream, RegisterFull, StartRow, OpenFails, SetDbId,
                MarkClientFin, EndAtFin, FinOver, Unregister, EndAtClose, HangUp, Connect, Refuse,
                BreakOff, FinPoll, vars
        <3>2. QED
            BY <3>1
    <2>5. QED
        BY <2>1, <2>2, <2>3, <2>4
<1>3. Asking(d) /\ Telling(d) /\ Up' = Up
    BY <1>1 DEF ToldInv, Up
<1> HIDE DEF IInv, TypeOK, Goto, nodeVars
<1>4. Asking(d)'
    BY <1>1, <1>2, <1>3 DEF Asking
<1>5. Telling(d)'
    BY <1>1, <1>2, <1>3 DEF Telling, Up
<1>6. QED
    BY <1>4, <1>5

\* A step of a session.
LEMMA AskedBySession ==
    ASSUME IInv, ToldInv, NEW m \in Nodes, NEW d \in Clients,
           \/ Handler(m) \/ NodeUp(m) \/ NodeDeaf(m) \/ NodeLeaves(m)
           \/ \E c \in Clients : NodeData(m, c) \/ NodeClose(m, c) \/ NodeFin(m, c)
    PROVE  Asking(d)' /\ Telling(d)'
<1> USE DEF IInv, TypeOK, clientVars
<1>0. /\ Asking(d) /\ Telling(d) /\ OneSession /\ stream[d] \in Stream
      /\ [Next]_vars
    BY DEF ToldInv, Next
<1>1. CASE NodeUp(m)
    BY <1>0, <1>1 DEF NodeUp, Asking, Telling, Up, OneSession, Listed
<1>2. CASE NodeDeaf(m) \/ NodeLeaves(m) \/ DoWork(m) \/ \E c \in Clients : NodeData(m, c)
    <2>1. /\ stream' = stream /\ pc' = pc /\ opened' = opened /\ told' = told
          /\ overlap' = overlap /\ unsaid' = unsaid /\ Up' \subseteq Up
          /\ node' = node \/ \E l \in {"deaf", "leaving"} : node' = [node EXCEPT ![m] = l]
        BY <1>2 DEF NodeDeaf, NodeLeaves, DoWork, NodeData, Leave, Up
    <2>2. QED
        BY <1>0, <2>1 DEF Asking, Telling
<1>3. ASSUME NEW c \in Clients, NodeClose(m, c)
      PROVE  Asking(d)' /\ Telling(d)'
    <2>1. /\ pc' = pc /\ node' = node /\ opened' = opened /\ overlap' = overlap
          /\ unsaid' = unsaid /\ m \in Listed /\ c \in opened[m]
          /\ told' = [told EXCEPT ![m] = @ \cup {c}]
          /\ stream' = [stream EXCEPT ![c].active = FALSE]
        BY <1>3 DEF NodeClose, Receives
    <2>2. CASE c = d
        BY <1>0, <2>1, <2>2 DEF Asking, Telling, Up, Listed, OneSession, Stream
    <2>3. CASE c # d
        BY <1>0, <2>1, <2>3 DEF Asking, Telling, Up
    <2>4. QED
        BY <2>2, <2>3
<1>4. ASSUME NEW c \in Clients, NodeFin(m, c)
      PROVE  Asking(d)' /\ Telling(d)'
    <2>1. /\ pc' = pc /\ node' = node /\ opened' = opened /\ overlap' = overlap /\ told' = told
          /\ unsaid' = unsaid /\ c \in opened[m] /\ stream[c].node = m
          /\ stream' = [stream EXCEPT ![c].nodeFin = TRUE, ![c].active = ~stream[c].clientFin]
        BY <1>4 DEF NodeFin, Receives
    <2>2. CASE c = d
        BY <1>0, <2>1, <2>2 DEF Asking, Telling, Up, Stream
    <2>3. CASE c # d
        BY <1>0, <2>1, <2>3 DEF Asking, Telling, Up
    <2>4. QED
        BY <2>2, <2>3
<1>5. CASE CloseNode(m)
    <2>1. /\ pc' = pc /\ opened' = opened /\ overlap' = overlap /\ told' = told
          /\ unsaid' = unsaid /\ node' = [node EXCEPT ![m] = "down"]
          /\ stream[d].node # m => stream'[d] = stream[d]
          /\ stream'[d].node = stream[d].node /\ stream'[d].clientFin = stream[d].clientFin
        BY <1>0, <1>5 DEF CloseNode, Active, Stream
    <2>2. QED
        BY <1>0, <2>1 DEF Asking, Telling, Up
<1>6. QED
    BY <1>1, <1>2, <1>3, <1>4, <1>5 DEF Handler

LEMMA ToldStep ==
    ASSUME IInv, Stranding, ToldInv, [Next]_vars
    PROVE  ToldInv'
<1>1. CASE UNCHANGED vars
    BY <1>1 DEF vars, ToldInv, OneSession, Asking, Telling, Up, Listed
<1>2. CASE ~UNCHANGED vars
    <2>1. OneSession'
        BY OneSessionStep DEF ToldInv
    <2>2. ASSUME NEW d \in Clients PROVE Asking(d)' /\ Telling(d)'
        BY <1>2, AskedByClient, AskedByOther, AskedBySession DEF Next, Finished
    <2>3. QED
        BY <2>1, <2>2 DEF ToldInv
<1>3. QED
    BY <1>1, <1>2

\* The two together, with what they rest on.
SessionInv == IInv /\ Stranding /\ ToldInv

LEMMA SessionInvHolds == Spec => []SessionInv
<1>1. Init => SessionInv
    <2>1. ASSUME Init PROVE Stranding /\ ToldInv
        BY <2>1 DEF Init, Stranding, ToldInv, OneSession, Asking, Telling, Up, Listed
    <2>2. QED
        BY <2>1, Initially DEF SessionInv
<1>2. SessionInv /\ [Next]_vars => SessionInv'
    BY Steps, StrandingStep, ToldStep DEF SessionInv
<1>3. QED
    BY <1>1, <1>2, PTL DEF Spec

-----------------------------------------------------------------------------
(* The handlers' work and the ends of the rows                             *)

\* A session leaves, and sends, only when it has nothing else to do.
WorkInv ==
    /\ work \in [Nodes -> Seq(Job)]
    /\ \A n \in Nodes : node[n] = "leaving" => work[n] = <<>>
    /\ \A n \in Nodes : \A i \in DOMAIN work[n] : work[n][i].op = "send" => Len(work[n]) = 1

\* A row in a table that is not active any more is over; between that and its
\* end exactly one handler, or the client's thread, has still to end it.
Over(c) == ~stream[c].active /\ stream[c].dbId
Ending(c) == pc[c] \in {"ending", "endrow"}

Ends(c) ==
    /\ pc[c] \in {"auth", "found", "registered", "started", "opened"} => ~stream[c].dbId
    /\ row[c].ends \in {0, 1}
    /\ Ending(c) => Over(c) /\ row[c].ends = 0
    /\ row[c].ends = 1 => Over(c)
    /\ \A n \in Nodes : \A i \in EndsIn(n, c) :
          /\ Over(c) /\ row[c].ends = 0 /\ ~Ending(c)
          /\ \A m \in Nodes : \A j \in EndsIn(m, c) : m = n /\ i = j
    /\ Over(c) /\ row[c].ends = 0 /\ ~Ending(c) => \E n \in Nodes : EndsIn(n, c) # {}

RowInv ==
    /\ row \in [Clients -> [started : BOOLEAN, ends : Nat]]
    /\ WorkInv
    /\ \A c \in Clients : Ends(c)

\* An order of a finite set holds each member, once.
LEMMA Orderings ==
    ASSUME NEW S, IsFiniteSet(S), NEW order \in SetToSeqs(S)
    PROVE  /\ order \in Seq(S)
           /\ \A x \in S : \E i \in DOMAIN order : order[i] = x
           /\ \A i, j \in DOMAIN order : order[i] = order[j] => i = j
<1> DEFINE N == Cardinality(S)
<1>1. N \in Nat
    BY FS_CardinalityType
<1>2. order \in [1..N -> S] /\ \A i, j \in 1..N : order[i] = order[j] => i = j
    BY DEF SetToSeqs
<1>3. order \in Injection(1..N, S)
    BY <1>2 DEF Injection, IsInjective
<1>4. Cardinality(1..N) = N
    BY <1>1, FS_Interval
<1>5. order \in Surjection(1..N, S)
    BY <1>3, <1>4, FS_Injection
<1>6. \A x \in S : \E i \in 1..N : order[i] = x
    BY <1>5 DEF Surjection
<1>7. QED
    BY <1>1, <1>2, <1>6

LEMMA RowStarted ==
    ASSUME NEW r \in [started : BOOLEAN, ends : Nat]
    PROVE  /\ [r EXCEPT !.started = TRUE] \in [started : BOOLEAN, ends : Nat]
           /\ [r EXCEPT !.started = TRUE].ends = r.ends
OBVIOUS

LEMMA RowCounted ==
    ASSUME NEW r \in [started : BOOLEAN, ends : Nat]
    PROVE  [r EXCEPT !.ends = r.ends + 1] \in [started : BOOLEAN, ends : Nat]
<1>1. r.ends + 1 \in Nat
    OBVIOUS
<1>2. QED
    BY <1>1

\* A step of client c's own thread: no handler's work changes.
LEMMA EndsByClient ==
    ASSUME IInv, RowInv, NEW c \in Clients,
           Client(c) \/ Connect(c) \/ Refuse(c) \/ BreakOff(c) \/ Eof(c) \/ FinPoll(c)
    PROVE  RowInv'
<1> USE DEF IInv, TypeOK, Goto, nodeVars, Ending, Over
<1>0. /\ Ends(c) /\ stream[c] \in Stream
      /\ row[c] \in [started : BOOLEAN, ends : Nat]
    BY DEF RowInv
<1>1. work' = work /\ node' = node
    BY DEF Client, RegisterStream, RegisterFull, StartRow, Open, OpenFails, SetDbId, WithRow,
        MarkClientFin, EndAtFin, FinOver, Close, Unregister, EndAtClose, HangUp, Connect, Refuse,
        BreakOff, Eof, FinPoll, vars
<1>2. WorkInv'
    BY <1>1 DEF RowInv, WorkInv
<1>3. \A n \in Nodes, d \in Clients : EndsIn(n, d)' = EndsIn(n, d)
    BY <1>1 DEF EndsIn
<1>4. ASSUME NEW d \in Clients, d # c
      PROVE  stream'[d] = stream[d] /\ pc'[d] = pc[d] /\ row'[d] = row[d]
    BY <1>4 DEF Client, RegisterStream, RegisterFull, StartRow, Open, OpenFails, SetDbId, WithRow,
        MarkClientFin, EndAtFin, FinOver, Close, Unregister, EndAtClose, HangUp, Connect, Refuse,
        BreakOff, Eof, FinPoll, vars, EndRow, RowInv
<1>5. ASSUME NEW d \in Clients, d # c
      PROVE  Ends(d)'
    BY <1>3, <1>4, <1>5 DEF RowInv, Ends
<1>6. Ends(c)' /\ row' \in [Clients -> [started : BOOLEAN, ends : Nat]]
    <2>1. CASE Connect(c) \/ Refuse(c) \/ RegisterFull(c) \/ Open(c) \/ BreakOff(c) \/ Eof(c)
               \/ FinOver(c) \/ FinPoll(c) \/ Close(c) \/ HangUp(c)
        <3>1. /\ stream' = stream /\ row' = row
              /\ pc' = pc \/ (~Ending(c) /\ ~Ending(c)')
              /\ pc'[c] \in {"auth", "found", "registered", "started", "opened"} =>
                    pc[c] \in {"auth", "found", "registered", "started", "opened"}
            BY <2>1 DEF Connect, Refuse, RegisterFull, Open, BreakOff, Eof, FinOver, FinPoll,
                Close, HangUp, vars
        <3>2. QED
            BY <1>0, <1>3, <3>1 DEF RowInv, Ends
    <2>2. CASE RegisterStream(c)
        BY <1>0, <1>3, <2>2 DEF RegisterStream, RowInv, Ends
    <2>3. CASE StartRow(c)
        <3>1. /\ stream' = stream /\ pc[c] = "registered" /\ pc'[c] \in {"started", "closing"}
              /\ row' = row \/ row' = [row EXCEPT ![c] = [row[c] EXCEPT !.started = TRUE]]
            BY <2>3 DEF StartRow
        <3> DEFINE r == [row[c] EXCEPT !.started = TRUE]
        <3>2. r \in [started : BOOLEAN, ends : Nat] /\ r.ends = row[c].ends
            BY <1>0, RowStarted
        <3>3. row' = row \/ row' = [row EXCEPT ![c] = r]
            BY <3>1
        <3> HIDE DEF r
        <3>4. row'[c].ends = row[c].ends /\ row' \in [Clients -> [started : BOOLEAN, ends : Nat]]
            <4>1. row \in [Clients -> [started : BOOLEAN, ends : Nat]]
                BY DEF RowInv
            <4>2. QED
                BY <3>2, <3>3, <4>1
        <3>5. QED
            BY <1>0, <1>3, <3>1, <3>4 DEF RowInv, Ends
    <2>4. CASE OpenFails(c) \/ SetDbId(c)
        <3>1. /\ stream'[c] = [stream[c] EXCEPT !.dbId = stream[c].active] /\ row' = row
              /\ pc[c] \in {"started", "opened"} /\ pc'[c] \in {"closing", "loop"}
            BY <2>4 DEF OpenFails, SetDbId, WithRow
        <3>2. stream'[c].active = stream[c].active /\ stream'[c].dbId = stream[c].active
            BY <1>0, <3>1 DEF Stream
        <3>3. QED
            BY <1>0, <1>3, <3>1, <3>2 DEF RowInv, Ends
    <2>5. CASE MarkClientFin(c)
        <3>1. stream'[c] = [stream[c] EXCEPT
                    !.clientFin = stream[c].active,
                    !.active = stream[c].active /\ ~(stream[c].active /\ stream[c].nodeFin)]
            BY <2>5 DEF MarkClientFin
        <3>2. /\ stream'[c].dbId = stream[c].dbId
              /\ stream'[c].active <=> (stream[c].active /\ ~stream[c].nodeFin)
            BY <1>0, <3>1 DEF Stream
        <3>3. /\ row' = row /\ pc[c] = "marking"
              /\ pc'[c] = IF stream[c].active /\ stream[c].nodeFin /\ stream[c].dbId
                          THEN "ending" ELSE "waiting"
            BY <2>5 DEF MarkClientFin
        <3>4. QED
            BY <1>0, <1>3, <3>2, <3>3 DEF RowInv, Ends
    <2>6. CASE Unregister(c)
        <3>1. stream'[c] = [stream[c] EXCEPT !.active = FALSE]
            BY <2>6 DEF Unregister
        <3>2. stream'[c].dbId = stream[c].dbId /\ ~stream'[c].active
            BY <1>0, <3>1 DEF Stream
        <3>3. /\ row' = row /\ pc[c] = "unregistering"
              /\ pc'[c] = IF stream[c].active /\ stream[c].dbId THEN "endrow" ELSE "hangup"
            BY <2>6 DEF Unregister
        <3>4. QED
            BY <1>0, <1>3, <3>2, <3>3 DEF RowInv, Ends
    <2>7. CASE EndAtFin(c) \/ EndAtClose(c)
        <3>1. /\ row' = [row EXCEPT ![c].ends = @ + 1] /\ stream' = stream
              /\ Ending(c) /\ pc'[c] \in {"waiting", "closed"}
            BY <2>7 DEF EndAtFin, EndAtClose, EndRow
        <3>2. row'[c].ends = 1 /\ row' \in [Clients -> [started : BOOLEAN, ends : Nat]]
            BY <1>0, <3>1 DEF RowInv, Ends
        <3>3. QED
            BY <1>0, <1>3, <3>1, <3>2 DEF RowInv, Ends
    <2>8. QED
        BY <2>1, <2>2, <2>3, <2>4, <2>5, <2>6, <2>7 DEF Client
<1>7. QED
    BY <1>2, <1>5, <1>6 DEF RowInv

\* A handler takes stream c off the table, or not, when it has nothing to do.
LEMMA EndsByMessage ==
    ASSUME IInv, RowInv, NEW m \in Nodes, NEW c \in Clients,
           NodeData(m, c) \/ NodeClose(m, c) \/ NodeFin(m, c)
    PROVE  RowInv'
<1> USE DEF IInv, TypeOK, Ending, Over
<1>0. /\ Ends(c) /\ stream[c] \in Stream
      /\ work[m] = <<>> /\ EndsIn(m, c) = {} /\ m \in Listed
      /\ pc' = pc /\ row' = row
    BY DEF RowInv, NodeData, NodeClose, NodeFin, Receives, clientVars, EndsIn
<1>1. ASSUME NEW d \in Clients, d # c
      PROVE  stream'[d] = stream[d]
    BY <1>1 DEF NodeData, NodeClose, NodeFin, clientVars
<1> DEFINE Ended == stream[c].active /\ ~stream'[c].active /\ stream[c].dbId
           Queued(j) == /\ work' = [work EXCEPT ![m] = <<j>>] /\ node' = node
                        /\ j.c = c /\ (j.op \in {"close", "end"} <=> Ended)
           Nothing == /\ work' = [work EXCEPT ![m] = <<>>] /\ ~Ended
                      /\ node' = node \/ node' = [node EXCEPT ![m] = "leaving"]
<1>2. /\ Nothing \/ \E j \in Job : Queued(j)
      /\ stream'[c].dbId = stream[c].dbId /\ (stream'[c].active => stream[c].active)
    <2>1. CASE NodeData(m, c)
        <3> DEFINE j == [op |-> "send", c |-> c]
        <3>1. j \in Job /\ j.c = c /\ j.op = "send" /\ stream' = stream
            BY <2>1 DEF NodeData, clientVars, Job
        <3>2. \/ work' = [work EXCEPT ![m] = <<j>>] /\ node' = node
              \/ work' = work /\ node' = [node EXCEPT ![m] = "leaving"]
            BY <2>1 DEF NodeData, Leave
        <3>3. work = [work EXCEPT ![m] = <<>>]
            BY <1>0 DEF RowInv, WorkInv
        <3> HIDE DEF j
        <3>4. QED
            BY <3>1, <3>2, <3>3
    <2>2. CASE NodeClose(m, c)
        <3>1. /\ stream'[c] = [stream[c] EXCEPT !.active = FALSE] /\ node' = node
              /\ work' = [work EXCEPT ![m] = IF stream[c].active THEN <<CloseJob(c)>> ELSE <<>>]
            BY <2>2 DEF NodeClose
        <3>2. stream'[c].dbId = stream[c].dbId /\ ~stream'[c].active
            BY <1>0, <3>1 DEF Stream
        <3>3. /\ CloseJob(c) \in Job /\ CloseJob(c).c = c
              /\ CloseJob(c).op \in {"close", "end"} <=> stream[c].dbId
            BY DEF CloseJob, Job
        <3>4. QED
            BY <3>1, <3>2, <3>3
    <2>3. CASE NodeFin(m, c)
        <3> DEFINE j == [op |-> "end", c |-> c]
        <3>1. /\ stream'[c] = [stream[c] EXCEPT !.nodeFin = TRUE, !.active = ~stream[c].clientFin]
              /\ node' = node /\ stream[c].active
              /\ work' = [work EXCEPT ![m] = IF stream[c].clientFin /\ stream[c].dbId
                                             THEN <<j>> ELSE <<>>]
            BY <2>3 DEF NodeFin, EndJobs
        <3>2. stream'[c].dbId = stream[c].dbId /\ stream'[c].active = ~stream[c].clientFin
            BY <1>0, <3>1 DEF Stream
        <3>3. j \in Job /\ j.c = c /\ j.op = "end"
            BY DEF Job
        <3> HIDE DEF j
        <3>4. QED
            BY <3>1, <3>2, <3>3
    <2>4. QED
        BY <2>1, <2>2, <2>3
<1>3. /\ WorkInv'
      /\ \A n \in Nodes \ {m}, d \in Clients : EndsIn(n, d)' = EndsIn(n, d)
      /\ \A d \in Clients \ {c} : EndsIn(m, d)' = {}
      /\ EndsIn(m, c)' = IF Ended THEN {1} ELSE {}
    <2>0. work \in [Nodes -> Seq(Job)] /\ node[m] # "leaving"
        BY <1>0 DEF RowInv, WorkInv, Listed
    <2>1. CASE Nothing
        <3>1. work'[m] = <<>> /\ \A n \in Nodes \ {m} : work'[n] = work[n] /\ node'[n] = node[n]
            BY <2>0, <2>1
        <3>2. WorkInv'
            BY <2>0, <2>1, <3>1 DEF RowInv, WorkInv
        <3>3. QED
            BY <2>1, <3>1, <3>2 DEF EndsIn
    <2>2. ASSUME NEW j \in Job, Queued(j)
          PROVE  /\ WorkInv'
                 /\ \A n \in Nodes \ {m}, d \in Clients : EndsIn(n, d)' = EndsIn(n, d)
                 /\ \A d \in Clients \ {c} : EndsIn(m, d)' = {}
                 /\ EndsIn(m, c)' = IF Ended THEN {1} ELSE {}
        <3>1. work'[m] = <<j>> /\ \A n \in Nodes \ {m} : work'[n] = work[n]
            BY <2>0, <2>2
        <3>2. <<j>> \in Seq(Job) /\ Len(<<j>>) = 1 /\ DOMAIN <<j>> = {1} /\ <<j>>[1] = j
            OBVIOUS
        <3>3. work' \in [Nodes -> Seq(Job)]
            BY <2>0, <2>2, <3>2
        <3>4. WorkInv'
            BY <2>0, <2>2, <3>1, <3>2, <3>3 DEF RowInv, WorkInv
        <3>5. QED
            BY <2>2, <3>1, <3>2, <3>4 DEF EndsIn
    <2>3. QED
        BY <1>2, <2>1, <2>2
<1>4. ASSUME NEW d \in Clients, d # c
      PROVE  Ends(d)'
    <2>1. \A n \in Nodes : EndsIn(n, d)' = EndsIn(n, d)
        BY <1>0, <1>3, <1>4 DEF EndsIn
    <2>2. stream'[d] = stream[d] /\ Ends(d)
        BY <1>1, <1>4 DEF RowInv
    <2>3. QED
        BY <1>0, <2>1, <2>2 DEF Ends
<1>5. Ends(c)'
    <2>1. CASE Ended
        <3>1. /\ row[c].ends = 0 /\ ~Ending(c) /\ \A n \in Nodes : EndsIn(n, c) = {}
              /\ ~(pc[c] \in {"auth", "found", "registered", "started", "opened"})
            BY <1>0, <2>1 DEF Ends
        <3>2. \A n \in Nodes : EndsIn(n, c)' = IF n = m THEN {1} ELSE {}
            BY <1>3, <2>1, <3>1
        <3>3. Over(c)'
            BY <1>2, <2>1
        <3>4. QED
            BY <1>0, <3>1, <3>2, <3>3 DEF Ends
    <2>2. CASE ~Ended
        <3>1. \A n \in Nodes : EndsIn(n, c)' = EndsIn(n, c)
            BY <1>0, <1>3, <2>2
        <3>2. Over(c)' <=> Over(c)
            BY <1>0, <1>2, <2>2 DEF Stream
        <3>3. QED
            BY <1>0, <1>2, <3>1, <3>2 DEF Ends
    <2>3. QED
        BY <2>1, <2>2
<1>6. QED
    BY <1>0, <1>3, <1>4, <1>5 DEF RowInv

\* The client of the first job is shut down: its row is still to be ended.
LEMMA ShutDown ==
    ASSUME NEW q \in Seq(Job), q # <<>>, q[1].op = "close"
    PROVE  LET r == [q EXCEPT ![1].op = "end"]
           IN  /\ r \in Seq(Job) /\ Len(r) = Len(q) /\ DOMAIN r = DOMAIN q
               /\ \A i \in DOMAIN q :
                     /\ r[i].c = q[i].c
                     /\ r[i].op \in {"close", "end"} <=> q[i].op \in {"close", "end"}
                     /\ r[i].op = "send" <=> q[i].op = "send"
<1> DEFINE j == [q[1] EXCEPT !.op = "end"]
           r == [q EXCEPT ![1] = j]
<1>1. q[1] \in Job /\ 1 \in DOMAIN q
    OBVIOUS
<1>2. j \in Job /\ j.op = "end" /\ j.c = q[1].c
    BY <1>1 DEF Job
<1> HIDE DEF j
<1>3. /\ r \in Seq(Job) /\ Len(r) = Len(q) /\ DOMAIN r = DOMAIN q
      /\ r[1] = j /\ \A i \in DOMAIN q : i # 1 => r[i] = q[i]
    BY <1>1, <1>2
<1>4. [q EXCEPT ![1].op = "end"] = r
    BY DEF j
<1>5. QED
    BY <1>2, <1>3, <1>4

\* The steps of a handler's work.
LEMMA EndsByWork ==
    ASSUME IInv, RowInv, NEW m \in Nodes, DoWork(m)
    PROVE  RowInv'
<1> DEFINE q == work[m]
           job == Head(q)
<1>a. q \in Seq(Job) /\ q # <<>>
    BY DEF RowInv, WorkInv, DoWork
<1>b. Len(q) \in Nat \ {0} /\ q[1] = job /\ DOMAIN q = 1..Len(q) /\ job \in Job
    BY <1>a
<1>0. /\ q \in Seq(Job) /\ q # <<>> /\ Len(q) \in Nat \ {0} /\ q[1] = job /\ job \in Job
      /\ DOMAIN q = 1..Len(q) /\ job.c \in Clients
      /\ work \in [Nodes -> Seq(Job)]
      /\ node \in [Nodes -> {"off", "up", "deaf", "leaving", "down"}]
      /\ row \in [Clients -> [started : BOOLEAN, ends : Nat]]
      /\ pc' = pc /\ stream' = stream
    BY <1>b, <1>a DEF RowInv, WorkInv, DoWork, Job, IInv, TypeOK
<1>1. /\ row' = IF job.op = "end" THEN [row EXCEPT ![job.c].ends = @ + 1] ELSE row
      /\ work' = [work EXCEPT ![m] = IF job.op = "close" THEN [q EXCEPT ![1].op = "end"]
                                                        ELSE Tail(q)]
      /\ node' = node \/ (job.op = "send" /\ node' = [node EXCEPT ![m] = "leaving"])
    <2>1. row' = IF job.op = "end" THEN [row EXCEPT ![job.c].ends = @ + 1] ELSE row
        BY DEF DoWork, EndRow
    <2>2. work' = [work EXCEPT ![m] = IF job.op = "close" THEN [q EXCEPT ![1].op = "end"]
                                                          ELSE Tail(q)]
        BY DEF DoWork
    <2>3. node' = node \/ (job.op = "send" /\ node' = [node EXCEPT ![m] = "leaving"])
        BY DEF DoWork, Leave
    <2>4. QED
        BY <2>1, <2>2, <2>3
<1>2. CASE job.op = "close"
    <2> DEFINE r == [q EXCEPT ![1].op = "end"]
    <2>1. /\ r \in Seq(Job) /\ Len(r) = Len(q) /\ DOMAIN r = DOMAIN q
          /\ \A i \in DOMAIN q :
                     /\ r[i].c = q[i].c
                     /\ r[i].op \in {"close", "end"} <=> q[i].op \in {"close", "end"}
                     /\ r[i].op = "send" <=> q[i].op = "send"
        BY <1>0, <1>2, ShutDown
    <2>2. /\ work' \in [Nodes -> Seq(Job)] /\ node' = node /\ row' = row
          /\ work'[m] = r
          /\ \A n \in Nodes \ {m} : work'[n] = work[n]
        BY <1>0, <1>1, <1>2, <2>1
    <2> HIDE DEF r, job
    <2>3. WorkInv'
        <3>1. \A n \in Nodes : node'[n] = "leaving" => work'[n] = <<>>
            <4>1. node[m] # "leaving"
                BY <1>0 DEF RowInv, WorkInv
            <4>2. QED
                BY <2>2, <4>1 DEF RowInv, WorkInv
        <3>2. \A i \in DOMAIN r : r[i].op = "send" => Len(r) = 1
            <4>1. \A i \in DOMAIN q : q[i].op = "send" => Len(q) = 1
                BY DEF RowInv, WorkInv
            <4>2. QED
                BY <2>1, <4>1
        <3>3. QED
            BY <2>2, <3>1, <3>2 DEF RowInv, WorkInv
    <2>4. \A n \in Nodes, d \in Clients : EndsIn(n, d)' = EndsIn(n, d)
        <3>1. \A d \in Clients, i \in DOMAIN q :
                 /\ r[i].op \in {"close", "end"} /\ r[i].c = d
                    <=> q[i].op \in {"close", "end"} /\ q[i].c = d
            BY <2>1
        <3>2. \A d \in Clients : EndsIn(m, d)' = EndsIn(m, d)
            BY <2>1, <2>2, <3>1 DEF EndsIn
        <3>3. \A n \in Nodes \ {m}, d \in Clients : EndsIn(n, d)' = EndsIn(n, d)
            BY <2>2 DEF EndsIn
        <3>4. QED
            BY <3>2, <3>3
    <2>5. \A d \in Clients : Ends(d)'
        BY <1>0, <2>2, <2>4 DEF RowInv, Ends, Over, Ending
    <2>6. QED
        BY <1>0, <2>2, <2>3, <2>5 DEF RowInv
<1>3. CASE job.op # "close"
    <2>1. /\ Tail(q) \in Seq(Job) /\ Len(Tail(q)) = Len(q) - 1
          /\ \A i \in 1..Len(q) - 1 : Tail(q)[i] = q[i + 1]
          /\ DOMAIN Tail(q) = 1..Len(q) - 1
        BY <1>0
    <2>2. /\ work' \in [Nodes -> Seq(Job)]
          /\ work'[m] = Tail(q)
          /\ \A n \in Nodes \ {m} : work'[n] = work[n]
        BY <1>0, <1>1, <1>3, <2>1
    <2>3. WorkInv'
        <3>1. job.op = "send" => Tail(q) = <<>>
            <4>1. job.op = "send" => Len(q) = 1
                <5>1. 1 \in DOMAIN work[m] /\ work[m][1] = job
                    BY <1>0
                <5>2. QED
                    BY <5>1 DEF RowInv, WorkInv
            <4>2. Len(q) = 1 => Tail(q) = <<>>
                BY <2>1
            <4>3. QED
                BY <4>1, <4>2
        <3>2. \A i \in DOMAIN Tail(q) : Tail(q)[i].op # "send"
            BY <1>0, <2>1 DEF RowInv, WorkInv
        <3>3. node[m] # "leaving"
            BY <1>0 DEF RowInv, WorkInv
        <3>4. \A n \in Nodes : node'[n] = "leaving" => work'[n] = <<>>
            <4>1. node'[m] = "leaving" => job.op = "send"
                BY <1>0, <1>1, <3>3
            <4>2. \A n \in Nodes \ {m} : node'[n] = node[n]
                BY <1>0, <1>1
            <4>3. QED
                BY <2>2, <3>1, <4>1, <4>2 DEF RowInv, WorkInv
        <3>5. \A n \in Nodes : \A i \in DOMAIN work'[n] :
                 work'[n][i].op = "send" => Len(work'[n]) = 1
            BY <2>2, <3>2 DEF RowInv, WorkInv
        <3>6. QED
            BY <2>2, <3>4, <3>5 DEF WorkInv
    <2>4. /\ \A n \in Nodes \ {m}, d \in Clients : EndsIn(n, d)' = EndsIn(n, d)
          /\ \A d \in Clients, i \in Nat \ {0} : i \in EndsIn(m, d)' <=> i + 1 \in EndsIn(m, d)
          /\ \A d \in Clients :
                EndsIn(m, d) \subseteq 1..Len(q) /\ EndsIn(m, d)' \subseteq Nat \ {0}
          /\ \A d \in Clients : 1 \in EndsIn(m, d) <=> job.op = "end" /\ job.c = d
        BY <1>0, <1>3, <2>1, <2>2 DEF EndsIn
    <2>5. ASSUME NEW d \in Clients, ~(job.op = "end" /\ job.c = d)
          PROVE  Ends(d)'
        <3>1. row'[d] = row[d] /\ stream'[d] = stream[d] /\ pc'[d] = pc[d] /\ Ends(d)
            BY <1>0, <1>1, <2>5 DEF RowInv
        <3>2. \A n \in Nodes : \A i \in EndsIn(n, d)' : \E j \in EndsIn(n, d) :
                 j = IF n = m THEN i + 1 ELSE i
            BY <2>4
        <3>3. \A n \in Nodes : EndsIn(n, d) # {} => EndsIn(n, d)' # {}
            <4>1. ASSUME NEW i \in EndsIn(m, d) PROVE i - 1 \in EndsIn(m, d)'
                <5>1. i \in Nat \ {0} /\ i # 1
                    BY <1>0, <2>4, <2>5
                <5>2. i - 1 \in Nat \ {0} /\ (i - 1) + 1 = i
                    BY <5>1
                <5>3. QED
                    BY <2>4, <4>1, <5>2
            <4>2. QED
                BY <2>4, <4>1
        <3>4. \A n \in Nodes : \A i \in EndsIn(n, d)' :
                 /\ Over(d) /\ row[d].ends = 0 /\ ~Ending(d)
                 /\ \A k \in Nodes : \A j \in EndsIn(k, d)' : k = n /\ i = j
            <4>0. \A n \in Nodes : EndsIn(n, d)' \subseteq Nat
                BY <2>3 DEF EndsIn, WorkInv
            <4>1. QED
                BY <3>1, <3>2, <4>0 DEF Ends
        <3>5. QED
            BY <3>1, <3>3, <3>4 DEF Ends, Over, Ending
    <2>6. ASSUME NEW d \in Clients, job.op = "end", job.c = d
          PROVE  Ends(d)'
        <3>1. 1 \in EndsIn(m, d) /\ Ends(d)
            BY <2>4, <2>6 DEF RowInv
        <3>2. /\ Over(d) /\ row[d].ends = 0 /\ ~Ending(d) /\ row'[d].ends = 1
              /\ \A n \in Nodes : \A i \in EndsIn(n, d) : n = m /\ i = 1
            BY <1>0, <1>1, <2>6, <3>1 DEF Ends
        <3>3. \A n \in Nodes : EndsIn(n, d)' = {}
            <4>1. \A n \in Nodes \ {m} : EndsIn(n, d)' = {}
                BY <2>4, <3>2
            <4>2. ASSUME NEW i \in EndsIn(m, d)' PROVE FALSE
                <5>1. i \in Nat \ {0} /\ i + 1 \in EndsIn(m, d)
                    BY <2>4
                <5>2. QED
                    BY <3>2, <5>1
            <4>3. QED
                BY <4>1, <4>2
        <3>4. Over(d)' /\ ~Ending(d)'
            BY <1>0, <3>2 DEF Over, Ending
        <3>5. ~(pc'[d] \in {"auth", "found", "registered", "started", "opened"})
            BY <1>0, <3>1, <3>2 DEF Ends, Over
        <3>6. QED
            BY <3>2, <3>3, <3>4, <3>5 DEF Ends
    <2>7. row' \in [Clients -> [started : BOOLEAN, ends : Nat]]
        <3>1. /\ row[job.c] \in [started : BOOLEAN, ends : Nat]
              /\ [row[job.c] EXCEPT !.ends = row[job.c].ends + 1]
                     \in [started : BOOLEAN, ends : Nat]
            BY <1>0, RowCounted
        <3>2. \/ row' = row
              \/ row' = [row EXCEPT ![job.c] = [row[job.c] EXCEPT !.ends = row[job.c].ends + 1]]
            BY <1>0, <1>1
        <3>3. QED
            BY <1>0, <3>1, <3>2
    <2>8. QED
        BY <2>3, <2>5, <2>6, <2>7 DEF RowInv
<1>4. QED
    BY <1>2, <1>3

\* A session that has gone has every one of its streams to close.
LEMMA EndsByNode ==
    ASSUME IInv, RowInv, IsFiniteSet(Active), NEW m \in Nodes, CloseNode(m)
    PROVE  RowInv'
<1> DEFINE mine == {c \in Active : stream[c].node = m}
<1>0. /\ stream \in [Clients -> Stream] /\ mine \subseteq Clients
      /\ work \in [Nodes -> Seq(Job)] /\ node[m] = "leaving" /\ work[m] = <<>>
      /\ row \in [Clients -> [started : BOOLEAN, ends : Nat]]
      /\ node \in [Nodes -> {"off", "up", "deaf", "leaving", "down"}]
    BY DEF IInv, TypeOK, RowInv, WorkInv, CloseNode, Active
<1>1. /\ pc' = pc /\ row' = row /\ node' = [node EXCEPT ![m] = "down"]
      /\ stream' = [c \in Clients |->
                      IF c \in mine THEN [stream[c] EXCEPT !.active = FALSE] ELSE stream[c]]
    BY DEF CloseNode
<1>2. PICK order \in SetToSeqs(mine) :
         work' = [work EXCEPT ![m] = [i \in DOMAIN order |-> CloseJob(order[i])]]
    BY DEF CloseNode
<1>3. IsFiniteSet(mine)
    BY FS_Subset
<1>4. /\ order \in Seq(mine)
      /\ \A c \in mine : \E i \in DOMAIN order : order[i] = c
      /\ \A i, j \in DOMAIN order : order[i] = order[j] => i = j
    BY <1>3, Orderings
<1> DEFINE q == [i \in DOMAIN order |-> CloseJob(order[i])]
<1>5. \A c \in Clients : /\ CloseJob(c) \in Job /\ CloseJob(c).c = c
                         /\ CloseJob(c).op \in {"close", "end"} <=> stream[c].dbId
                         /\ CloseJob(c).op # "send"
    BY DEF CloseJob, Job
<1>6. \A i \in DOMAIN order : order[i] \in mine /\ order[i] \in Clients
    BY <1>0, <1>4
<1>7. /\ q \in Seq(Job) /\ DOMAIN q = DOMAIN order
      /\ \A i \in DOMAIN q : /\ q[i].c = order[i] /\ q[i].op # "send"
                             /\ q[i].op \in {"close", "end"} <=> stream[order[i]].dbId
    <2>1. DOMAIN order = 1..Len(order) /\ Len(order) \in Nat
        BY <1>4
    <2>2. q \in [1..Len(order) -> Job]
        BY <1>5, <1>6, <2>1
    <2>3. q \in Seq(Job)
        BY <2>1, <2>2
    <2>4. QED
        BY <1>5, <1>6, <2>3
<1>8. work' \in [Nodes -> Seq(Job)] /\ work'[m] = q /\ \A n \in Nodes \ {m} : work'[n] = work[n]
    BY <1>0, <1>2, <1>7
<1> HIDE DEF q
<1>9. WorkInv'
    <2>1. \A n \in Nodes : node'[n] = "leaving" => n # m /\ node[n] = "leaving"
        BY <1>0, <1>1
    <2>2. \A n \in Nodes \ {m} : work'[n] = work[n]
        BY <1>8
    <2>3. QED
        BY <1>7, <1>8, <2>1, <2>2 DEF RowInv, WorkInv
<1>10. /\ \A n \in Nodes \ {m}, c \in Clients : EndsIn(n, c)' = EndsIn(n, c)
       /\ \A c \in Clients : EndsIn(m, c) = {}
       /\ \A c \in Clients : \A i \in EndsIn(m, c)' :
             i \in DOMAIN order /\ order[i] = c /\ stream[c].dbId
       /\ \A c \in Clients, i \in DOMAIN order :
             order[i] = c /\ stream[c].dbId => i \in EndsIn(m, c)'
    BY <1>0, <1>7, <1>8 DEF EndsIn
<1>11. \A c \in Clients : /\ stream'[c].dbId = stream[c].dbId
                          /\ stream'[c].active <=> stream[c].active /\ c \notin mine
                          /\ c \in mine => stream[c].active
    BY <1>0, <1>1 DEF Stream, Active
<1>12. ASSUME NEW c \in Clients
       PROVE  Ends(c)'
    <2>0. Ends(c)
        BY DEF RowInv
    <2>1. CASE c \in mine /\ stream[c].dbId
        <3>1. /\ row[c].ends = 0 /\ ~Ending(c) /\ \A n \in Nodes : EndsIn(n, c) = {}
              /\ ~(pc[c] \in {"auth", "found", "registered", "started", "opened"})
            BY <1>11, <2>0, <2>1 DEF Ends, Over
        <3>2. \A n \in Nodes \ {m} : EndsIn(n, c)' = {}
            BY <1>10, <3>1
        <3>3. \A i, j \in EndsIn(m, c)' : i = j
            BY <1>4, <1>10
        <3>4. EndsIn(m, c)' # {}
            BY <1>4, <1>10, <2>1
        <3>5. Over(c)' /\ ~Ending(c)' /\ row'[c].ends = 0
            BY <1>1, <1>11, <2>1, <3>1 DEF Over, Ending
        <3>6. QED
            BY <1>1, <3>1, <3>2, <3>3, <3>4, <3>5 DEF Ends
    <2>2. CASE ~(c \in mine /\ stream[c].dbId)
        <3>1. \A n \in Nodes : EndsIn(n, c)' = EndsIn(n, c)
            <4>1. EndsIn(m, c)' = {}
                BY <1>6, <1>10, <2>2
            <4>2. QED
                BY <1>10, <4>1
        <3>2. Over(c)' <=> Over(c)
            BY <1>11, <2>2 DEF Over
        <3>3. QED
            BY <1>1, <1>11, <2>0, <3>1, <3>2 DEF Ends, Ending
    <2>3. QED
        BY <2>1, <2>2
<1>13. QED
    BY <1>0, <1>1, <1>9, <1>12 DEF RowInv

\* A session comes, goes deaf, or leaves with nothing to do.
LEMMA EndsByMove ==
    ASSUME IInv, RowInv, NEW m \in Nodes, NodeUp(m) \/ NodeDeaf(m) \/ NodeLeaves(m)
    PROVE  RowInv'
<1>1. /\ pc' = pc /\ row' = row /\ stream' = stream /\ work' = work
      /\ \E l \in {"up", "deaf", "leaving"} :
            node' = [node EXCEPT ![m] = l] /\ (l = "leaving" => work[m] = <<>>)
    BY DEF NodeUp, NodeDeaf, NodeLeaves, Leave, clientVars
<1>2. WorkInv'
    BY <1>1 DEF RowInv, WorkInv, IInv, TypeOK
<1>3. \A n \in Nodes, c \in Clients : EndsIn(n, c)' = EndsIn(n, c)
    BY <1>1 DEF EndsIn
<1>4. \A c \in Clients : Ends(c)'
    BY <1>1, <1>3 DEF RowInv, Ends, Over, Ending
<1>5. QED
    BY <1>1, <1>2, <1>4 DEF RowInv

LEMMA RowStep ==
    ASSUME IInv, RowInv, IsFiniteSet(Active), [Next]_vars
    PROVE  RowInv' /\ IsFiniteSet(Active')
<1>1. CASE UNCHANGED vars
    <2>1. \A n \in Nodes, c \in Clients : EndsIn(n, c)' = EndsIn(n, c)
        BY <1>1 DEF EndsIn, vars
    <2>2. RowInv'
        BY <1>1, <2>1 DEF vars, RowInv, WorkInv, Ends, Over, Ending
    <2>3. QED
        BY <1>1, <2>2 DEF vars, Active
<1>2. CASE ~UNCHANGED vars
    <2>1. RowInv'
        BY <1>2, EndsByClient, EndsByMessage, EndsByWork, EndsByNode, EndsByMove
            DEF Next, Finished, Handler
    <2>2. IsFiniteSet(Active')
        <3>1. CASE Active' \subseteq Active
            BY <3>1, FS_Subset
        <3>2. ASSUME NEW c \in Clients, Active' \subseteq Active \cup {c}
              PROVE  IsFiniteSet(Active')
            BY <3>2, FS_AddElement, FS_Subset
        <3>3. QED
            BY <3>1, <3>2, Steps
    <2>3. QED
        BY <2>1, <2>2
<1>3. QED
    BY <1>1, <1>2

-----------------------------------------------------------------------------
(* The theorems                                                            *)

\* Threads, entries and sessions are where the code can bring them.
THEOREM TypeCorrect == Spec => []TypeOK
<1>1. IInv => TypeOK
    BY DEF IInv
<1>2. QED
    BY InvariantHolds, <1>1, PTL

\* socks_client_run takes its entry off before it closes the client's socket.
THEOREM EntriesHaveClients == Spec => []StreamHasClient
<1>1. IInv => StreamHasClient
    BY DEF IInv
<1>2. QED
    BY InvariantHolds, <1>1, PTL

\* socks_stream_mark_client_fin and socks_stream_handle_node_close look at each
\* other's FIN in the section in which they set their own.
THEOREM FinishedStreamsLeave == Spec => []BothFinsEnd
<1>1. IInv => BothFinsEnd
    BY DEF IInv
<1>2. QED
    BY InvariantHolds, <1>1, PTL

\* socks_stream_register counts and takes an entry in one section.
THEOREM QuotaHolds == Spec => []StreamQuota
<1> DEFINE Counted == IsFiniteSet(Active) /\ StreamQuota
<1>1. Init => Counted
    BY Initially, FS_EmptySet, StreamsAssumption DEF StreamQuota
<1>2. ASSUME IInv, Counted, [Next]_vars PROVE Counted'
    <2>1. CASE Active' \subseteq Active
        <3>1. IsFiniteSet(Active') /\ Cardinality(Active') <= Cardinality(Active)
            BY <1>2, <2>1, FS_Subset
        <3>2. Cardinality(Active) \in Nat /\ Cardinality(Active') \in Nat
            BY <1>2, <3>1, FS_CardinalityType
        <3>3. QED
            BY <1>2, <3>1, <3>2, StreamsAssumption DEF StreamQuota
    <2>2. ASSUME NEW c \in Clients, MayOpen, Active' \subseteq Active \cup {c} PROVE Counted'
        <3>1. /\ IsFiniteSet(Active \cup {c})
              /\ Cardinality(Active \cup {c}) <= Cardinality(Active) + 1
              /\ Cardinality(Active) \in Nat
            BY <1>2, FS_AddElement, FS_CardinalityType
        <3>2. /\ IsFiniteSet(Active')
              /\ Cardinality(Active') <= Cardinality(Active \cup {c})
            BY <2>2, <3>1, FS_Subset
        <3>3. Cardinality(Active') \in Nat /\ Cardinality(Active \cup {c}) \in Nat
            BY <3>1, <3>2, FS_CardinalityType
        <3>4. QED
            BY <2>2, <3>1, <3>2, <3>3, StreamsAssumption DEF MayOpen, StreamQuota
    <2>3. QED
        BY <1>2, <2>1, <2>2, Steps
<1>3. Counted => StreamQuota
    OBVIOUS
<1>4. QED
    BY <1>1, <1>2, <1>3, InvariantHolds, PTL DEF Spec

\* socks_stream_close_node takes every stream of a session that has gone; only
\* a client that looked its session up before can still register one.
THEOREM NoStreamStranded == Spec => []NoStrandedStream
<1>1. SessionInv => NoStrandedStream
    BY DEF SessionInv, Stranding, NoStrandedStream, Active
<1>2. QED
    BY SessionInvHolds, <1>1, PTL

\* Whoever ends a stream and whenever: socks_client_run sends CLOSE unless its
\* entry is gone, and it goes only by the session's own CLOSE, by both FINs or
\* with the session.
THEOREM SessionsAreTold == Spec => []NodeIsTold
<1>1. SessionInv => NodeIsTold
    BY DEF SessionInv, ToldInv, Telling, NodeIsTold
<1>2. QED
    BY SessionInvHolds, <1>1, PTL

\* socks_stream_unregister, socks_stream_mark_client_fin,
\* socks_stream_handle_node_close and socks_stream_close_node each end a row
\* only if they are the one that took its entry off the table.
THEOREM RowsEndOnce == Spec => []RowEndedOnce
<1> DEFINE J == IInv /\ RowInv /\ IsFiniteSet(Active)
<1>1. Init => J
    <2>1. ASSUME Init PROVE RowInv
        BY <2>1 DEF Init, RowInv, WorkInv, Ends, Over, Ending, EndsIn
    <2>2. QED
        BY <2>1, Initially, FS_EmptySet
<1>2. J /\ [Next]_vars => J'
    BY Steps, RowStep
<1>3. J => RowEndedOnce
    <2> SUFFICES ASSUME J, NEW c \in Clients
        PROVE  /\ row[c].ends + PendingEnds(c) <= 1
               /\ row[c].ends + PendingEnds(c) = 1 <=> ~stream[c].active /\ stream[c].dbId
        BY DEF RowEndedOnce
    <2> DEFINE places == UNION {{n} \X EndsIn(n, c) : n \in Nodes}
    <2>0. Ends(c)
        BY DEF RowInv
    <2>1. CASE \A n \in Nodes : EndsIn(n, c) = {}
        <3>1. places = {}
            BY <2>1
        <3>2. Cardinality(places) = 0
            BY <3>1, FS_EmptySet
        <3>3. PendingEnds(c) = IF Ending(c) THEN 1 ELSE 0
            BY <3>2 DEF PendingEnds, Ending
        <3>4. QED
            BY <2>0, <2>1, <3>3 DEF Ends, Over
    <2>2. ASSUME NEW n \in Nodes, NEW i \in EndsIn(n, c)
          PROVE  /\ row[c].ends + PendingEnds(c) <= 1
                 /\ row[c].ends + PendingEnds(c) = 1 <=> ~stream[c].active /\ stream[c].dbId
        <3>1. \A m \in Nodes : \A j \in EndsIn(m, c) : m = n /\ j = i
            BY <2>0, <2>2 DEF Ends
        <3>2. places = {<<n, i>>}
            BY <2>2, <3>1
        <3>3. Cardinality({<<n, i>>}) = 1
            BY FS_Singleton
        <3>4. Over(c) /\ row[c].ends = 0 /\ ~Ending(c)
            BY <2>0, <2>2 DEF Ends
        <3>5. PendingEnds(c) = 1
            <4>1. Cardinality(places) = 1
                BY <3>2, <3>3
            <4>2. PendingEnds(c) = Cardinality(places)
                                   + (IF pc[c] \in {"ending", "endrow"} THEN 1 ELSE 0)
                BY DEF PendingEnds
            <4> HIDE DEF places
            <4>3. QED
                BY <3>4, <4>1, <4>2 DEF Ending
        <3>6. QED
            BY <3>4, <3>5 DEF Over
    <2>3. QED
        BY <2>1, <2>2
<1>4. QED
    BY <1>1, <1>2, <1>3, PTL DEF Spec
=============================================================================
