---------------------------- MODULE SocksStreams ----------------------------
(***************************************************************************)
(* SOCKS streams of node_server.c: one thread per SOCKS client             *)
(* (socks_client_run), the handler threads of the node's sessions, and the *)
(* table g_socks_streams they share under g_socks_mu.  A node is asked to  *)
(* open a stream by a message to whichever of its sessions is found first; *)
(* what the node sends back comes through the handler of one session.      *)
(*                                                                         *)
(* Every section under a mutex is one step, and what a thread does after   *)
(* it has let the mutex go (shutting a socket down, ending the stream's    *)
(* row in the database) is a step of its own, so the other threads act in  *)
(* between.                                                                *)
(*                                                                         *)
(* One node; a client opens one stream and names it.  Stream ids come from *)
(* a 32-bit counter and are unique until it wraps.  The node is external:  *)
(* it may send anything about the streams it was asked to open.  Payloads  *)
(* are left out: a piece of data matters only when it ends something.      *)
(***************************************************************************)
EXTENDS Integers, Sequences, FiniteSets, SequencesExt

CONSTANTS
    Clients,     \* SOCKS connections
    Nodes,       \* sessions of the node, each the connection of one handler
    MaxStreams,  \* NTAP_A_MAX_SOCKS_STREAMS
    MaxPerNode,  \* max_socks_streams
    None

ASSUME StreamsAssumption ==
    /\ MaxStreams \in Nat \ {0}
    /\ MaxPerNode \in Nat \ {0}
    /\ None \notin Nodes

VARIABLES
    pc,       \* pc[c]: where socks_client_run is for client c
    found,    \* found[c]: the node session socks_active_node_fd returned
    stream,   \* stream[c]: the client's entry of g_socks_streams
    row,      \* row[c]: its row in socks_streams
    cut,      \* clients whose socket was shut down
    node,     \* node[n]: "off", "up", "deaf", "leaving" or "down"
    work,     \* work[n]: what the handler of n still has to do, in order
    opened,   \* opened[n]: streams session n was asked to open
    told,     \* told[n]: streams session n was told to close
    late,     \* clients that registered after their session had left g_sessions
    overlap,  \* the node has had two sessions at once
    unsaid    \* clients whose CLOSE at the end no queue took

vars == <<pc, found, stream, row, cut, node, work, opened, told, late, overlap, unsaid>>

clientVars == <<pc, found, stream, row, cut>>
nodeVars == <<node, work, opened, told, late, overlap, unsaid>>

Stream == [active : BOOLEAN, node : Nodes \cup {None}, clientFin : BOOLEAN,
           nodeFin : BOOLEAN, dbId : BOOLEAN]

\* What a handler still has to do about a stream: send to its client; shut the
\* client down, and then end the row ("close") or not; end the row.
Job == [op : {"send", "shutdown", "close", "end"}, c : Clients]

Init ==
    /\ pc = [c \in Clients |-> "auth"]
    /\ found = [c \in Clients |-> None]
    /\ stream = [c \in Clients |-> [active |-> FALSE, node |-> None, clientFin |-> FALSE,
                                    nodeFin |-> FALSE, dbId |-> FALSE]]
    /\ row = [c \in Clients |-> [started |-> FALSE, ends |-> 0]]
    /\ cut = {}
    /\ node = [n \in Nodes |-> "off"]
    /\ work = [n \in Nodes |-> <<>>]
    /\ opened = [n \in Nodes |-> {}]
    /\ told = [n \in Nodes |-> {}]
    /\ late = {}
    /\ overlap = FALSE
    /\ unsaid = {}

Goto(c, l) == pc' = [pc EXCEPT ![c] = l]
Active == {c \in Clients : stream[c].active}
\* Sessions in g_sessions, and those of them whose writer takes messages.
Listed == {n \in Nodes : node[n] \in {"up", "deaf"}}
Up == {n \in Nodes : node[n] = "up"}

\* socks_stream_end_db: nothing to end when the entry had no row.
EndJobs(c) == IF stream[c].dbId THEN <<[op |-> "end", c |-> c]>> ELSE <<>>
CloseJob(c) == [op |-> IF stream[c].dbId THEN "close" ELSE "shutdown", c |-> c]
EndRow(c) == row' = [row EXCEPT ![c].ends = @ + 1]

-----------------------------------------------------------------------------
(* socks_client_run: opening a stream                                      *)

\* Authentication, the CONNECT request and socks_active_node_fd.
Connect(c) ==
    /\ pc[c] = "auth"
    /\ \E n \in Listed : found' = [found EXCEPT ![c] = n]
    /\ Goto(c, "found")
    /\ UNCHANGED <<stream, row, cut, nodeVars>>

\* ... or one of them fails, or the client leaves.
Refuse(c) ==
    /\ pc[c] = "auth"
    /\ Goto(c, "closed")
    /\ UNCHANGED <<found, stream, row, cut, nodeVars>>

MayOpen == Cardinality(Active) < MaxPerNode /\ Cardinality(Active) < MaxStreams

\* socks_stream_register, with the session found earlier.
RegisterStream(c) ==
    /\ pc[c] = "found"
    /\ MayOpen
    /\ stream' = [stream EXCEPT ![c] = [active |-> TRUE, node |-> found[c], clientFin |-> FALSE,
                                        nodeFin |-> FALSE, dbId |-> FALSE]]
    /\ late' = IF found[c] \in Listed THEN late ELSE late \cup {c}
    /\ Goto(c, "registered")
    /\ UNCHANGED <<found, row, cut, node, work, opened, told, overlap, unsaid>>

RegisterFull(c) ==
    /\ pc[c] = "found"
    /\ ~MayOpen
    /\ Goto(c, "closed")
    /\ UNCHANGED <<found, stream, row, cut, nodeVars>>

\* ntap_a_db_socks_stream_start
StartRow(c) ==
    /\ pc[c] = "registered"
    /\ \/ row' = [row EXCEPT ![c].started = TRUE] /\ Goto(c, "started")
       \/ UNCHANGED row /\ Goto(c, "closing")
    /\ UNCHANGED <<found, stream, cut, nodeVars>>

\* SOCKS_STREAM_OPEN is queued for a session of the node.
Open(c) ==
    /\ pc[c] = "started"
    /\ \E n \in Up : opened' = [opened EXCEPT ![n] = @ \cup {c}]
    /\ Goto(c, "opened")
    /\ UNCHANGED <<found, stream, row, cut, node, work, told, late, overlap, unsaid>>

\* socks_stream_set_db_id: only an entry that is still active gets the row.
WithRow(c) == [stream EXCEPT ![c].dbId = stream[c].active]

\* No session takes the message: the client is refused.
OpenFails(c) ==
    /\ pc[c] = "started"
    /\ stream' = WithRow(c)
    /\ Goto(c, "closing")
    /\ UNCHANGED <<found, row, cut, nodeVars>>

SetDbId(c) ==
    /\ pc[c] = "opened"
    /\ stream' = WithRow(c)
    /\ Goto(c, "loop")
    /\ UNCHANGED <<found, row, cut, nodeVars>>

-----------------------------------------------------------------------------
(* socks_client_run: the loop                                              *)

\* The CONNECT reply cannot be sent; or idle timeout, a failed wait, data that
\* no session takes or a failed touch.
BreakOff(c) ==
    /\ pc[c] = "loop"
    /\ Goto(c, "closing")
    /\ UNCHANGED <<found, stream, row, cut, nodeVars>>

\* recv returned 0 or failed: a CLOSE with FIN goes to the node, if it can.
Eof(c) ==
    /\ pc[c] = "loop"
    /\ \/ /\ \E n \in Up : told' = [told EXCEPT ![n] = @ \cup {c}]
          /\ Goto(c, "marking")
       \/ Goto(c, "closing") /\ UNCHANGED told
    /\ UNCHANGED <<found, stream, row, cut, node, work, opened, late, overlap, unsaid>>

\* socks_stream_mark_client_fin
MarkClientFin(c) ==
    /\ pc[c] = "marking"
    /\ LET complete == stream[c].active /\ stream[c].nodeFin
       IN /\ stream' = [stream EXCEPT ![c].clientFin = stream[c].active,
                                      ![c].active = @ /\ ~complete]
          /\ Goto(c, IF complete /\ stream[c].dbId THEN "ending" ELSE "waiting")
    /\ UNCHANGED <<found, row, cut, nodeVars>>

EndAtFin(c) ==
    /\ pc[c] = "ending"
    /\ EndRow(c)
    /\ Goto(c, "waiting")
    /\ UNCHANGED <<found, stream, cut, nodeVars>>

\* The thread sleeps 100 ms and looks again.
FinPoll(c) == pc[c] = "waiting" /\ stream[c].active /\ UNCHANGED vars

\* Faulty variant: no deadline for the node's side.
FinOver_NoDeadline(c) ==
    /\ pc[c] = "waiting"
    /\ ~stream[c].active
    /\ Goto(c, "closing")
    /\ UNCHANGED <<found, stream, row, cut, nodeVars>>

\* The polls end when the stream is gone or the deadline has passed.
FinOver(c) ==
    /\ pc[c] = "waiting"
    /\ Goto(c, "closing")
    /\ UNCHANGED <<found, stream, row, cut, nodeVars>>

\* Faulty variant: the node is not told when the client leaves.
Close_NotSent(c) ==
    /\ pc[c] = "closing"
    /\ Goto(c, "unregistering")
    /\ UNCHANGED <<found, stream, row, cut, nodeVars>>

\* done: a stream that is still there is closed at the node.  The result of
\* queueing the message is not looked at: the session's writer may be gone, or
\* memory short.
Close(c) ==
    /\ pc[c] = "closing"
    /\ IF stream[c].active /\ (\E n \in Nodes : c \in opened[n]) /\ Listed # {}
       THEN \/ /\ \E n \in Up : told' = [told EXCEPT ![n] = @ \cup {c}]
               /\ UNCHANGED unsaid
            \/ UNCHANGED told /\ unsaid' = unsaid \cup {c}
       ELSE UNCHANGED <<told, unsaid>>
    /\ Goto(c, "unregistering")
    /\ UNCHANGED <<found, stream, row, cut, node, work, opened, late, overlap>>

\* socks_stream_unregister
Unregister(c) ==
    /\ pc[c] = "unregistering"
    /\ stream' = [stream EXCEPT ![c].active = FALSE]
    /\ Goto(c, IF stream[c].active /\ stream[c].dbId THEN "endrow" ELSE "hangup")
    /\ UNCHANGED <<found, row, cut, nodeVars>>

\* The row is ended and the socket closed; nobody looks at the row.
EndAtClose(c) ==
    /\ pc[c] = "endrow"
    /\ EndRow(c)
    /\ Goto(c, "closed")
    /\ UNCHANGED <<found, stream, cut, nodeVars>>

HangUp(c) ==
    /\ pc[c] = "hangup"
    /\ Goto(c, "closed")
    /\ UNCHANGED <<found, stream, row, cut, nodeVars>>

-----------------------------------------------------------------------------
(* The handlers of the node's sessions                                     *)

NodeUp(n) ==
    /\ node[n] = "off"
    /\ node' = [node EXCEPT ![n] = "up"]
    /\ overlap' = (overlap \/ Listed # {})
    /\ UNCHANGED <<clientVars, work, opened, told, late, unsaid>>

\* The writer of the session has given up: it takes no more messages.
NodeDeaf(n) ==
    /\ n \in Up
    /\ node' = [node EXCEPT ![n] = "deaf"]
    /\ UNCHANGED <<clientVars, work, opened, told, late, overlap, unsaid>>

\* The handler of n is in its loop and has received a message about stream c.
Receives(n, c) == n \in Listed /\ work[n] = <<>> /\ c \in opened[n]

Leave(n) == node' = [node EXCEPT ![n] = "leaving"]

\* socks_stream_send_to_client, lookup; a stream that is gone, or another
\* session's, ends the session.
NodeData(n, c) ==
    /\ Receives(n, c)
    /\ IF stream[c].active /\ stream[c].node = n
       THEN work' = [work EXCEPT ![n] = <<[op |-> "send", c |-> c]>>] /\ UNCHANGED node
       ELSE Leave(n) /\ UNCHANGED work
    /\ UNCHANGED <<clientVars, opened, told, late, overlap, unsaid>>

\* Faulty variant: the client's socket is left open.
NodeClose_KeepsClient(n, c) ==
    /\ Receives(n, c)
    /\ stream' = [stream EXCEPT ![c].active = FALSE]
    /\ work' = [work EXCEPT ![n] = IF stream[c].active THEN EndJobs(c) ELSE <<>>]
    /\ told' = [told EXCEPT ![n] = @ \cup {c}]
    /\ UNCHANGED <<pc, found, row, cut, node, opened, late, overlap, unsaid>>

\* SOCKS_STREAM_CLOSE without FIN: socks_stream_unregister, whichever session
\* the stream belongs to.  The node knows that its end is closed.
NodeClose(n, c) ==
    /\ Receives(n, c)
    /\ stream' = [stream EXCEPT ![c].active = FALSE]
    /\ work' = [work EXCEPT ![n] = IF stream[c].active THEN <<CloseJob(c)>> ELSE <<>>]
    /\ told' = [told EXCEPT ![n] = @ \cup {c}]
    /\ UNCHANGED <<pc, found, row, cut, node, opened, late, overlap, unsaid>>

\* Faulty variant: the row is ended by whoever finishes first as well.
NodeFin_AlwaysEnds(n, c) ==
    /\ Receives(n, c)
    /\ stream[c].active /\ stream[c].node = n
    /\ stream' = [stream EXCEPT ![c].nodeFin = TRUE, ![c].active = ~stream[c].clientFin]
    /\ work' = [work EXCEPT ![n] = EndJobs(c)]
    /\ UNCHANGED <<pc, found, row, cut, node, opened, told, late, overlap, unsaid>>

\* SOCKS_STREAM_CLOSE with FIN: socks_stream_handle_node_close.  The client's
\* socket is shut down for sending, which changes nothing its thread looks at.
NodeFin(n, c) ==
    /\ Receives(n, c)
    /\ stream[c].active /\ stream[c].node = n
    /\ stream' = [stream EXCEPT ![c].nodeFin = TRUE, ![c].active = ~stream[c].clientFin]
    /\ work' = [work EXCEPT ![n] = IF stream[c].clientFin THEN EndJobs(c) ELSE <<>>]
    /\ UNCHANGED <<pc, found, row, cut, node, opened, told, late, overlap, unsaid>>

\* The first thing the handler still has to do, outside the mutex: a close is
\* the shutdown of the client and then the end of the row.  Sending to a client
\* that is gone ends the node's session.
DoWork(n) ==
    /\ work[n] # <<>>
    /\ LET job == Head(work[n]) IN
          /\ work' = [work EXCEPT ![n] =
                         IF job.op = "close" THEN [@ EXCEPT ![1].op = "end"] ELSE Tail(@)]
          /\ cut' = IF job.op \in {"shutdown", "close"} THEN cut \cup {job.c} ELSE cut
          /\ IF job.op = "end" THEN EndRow(job.c) ELSE UNCHANGED row
          /\ \/ job.op = "send" /\ Leave(n)
             \/ (job.op = "send" => job.c \notin cut /\ pc[job.c] # "closed") /\ UNCHANGED node
    /\ UNCHANGED <<pc, found, stream, opened, told, late, overlap, unsaid>>

\* The handler's loop ends; session_unregister frees the slot.
NodeLeaves(n) ==
    /\ n \in Listed /\ work[n] = <<>>
    /\ Leave(n)
    /\ UNCHANGED <<clientVars, work, opened, told, late, overlap, unsaid>>

\* Faulty variant: the streams stay.
CloseNode_KeepsStreams(n) ==
    /\ node[n] = "leaving"
    /\ node' = [node EXCEPT ![n] = "down"]
    /\ UNCHANGED <<clientVars, work, opened, told, late, overlap, unsaid>>

\* socks_stream_close_node: every stream of the session is taken off the table;
\* then, outside the mutex, its client is shut down and its row ended.
CloseNode(n) ==
    /\ node[n] = "leaving"
    /\ node' = [node EXCEPT ![n] = "down"]
    /\ LET mine == {c \in Active : stream[c].node = n}
       IN /\ stream' = [c \in Clients |->
                          IF c \in mine THEN [stream[c] EXCEPT !.active = FALSE] ELSE stream[c]]
          /\ \E order \in SetToSeqs(mine) :
                work' = [work EXCEPT ![n] = [i \in DOMAIN order |-> CloseJob(order[i])]]
    /\ UNCHANGED <<pc, found, row, cut, opened, told, late, overlap, unsaid>>

-----------------------------------------------------------------------------
\* Steps the client's thread takes without waiting for a peer.
Client(c) ==
    \/ RegisterStream(c) \/ RegisterFull(c) \/ StartRow(c) \/ Open(c) \/ OpenFails(c)
    \/ SetDbId(c) \/ MarkClientFin(c) \/ EndAtFin(c) \/ FinOver(c)
    \/ Close(c) \/ Unregister(c) \/ EndAtClose(c) \/ HangUp(c)

Handler(n) == DoWork(n) \/ CloseNode(n)

\* Everybody has left.
Finished ==
    /\ \A c \in Clients : pc[c] = "closed"
    /\ \A n \in Nodes : node[n] = "down"
    /\ UNCHANGED vars

Next ==
    \/ \E c \in Clients : Client(c) \/ Connect(c) \/ Refuse(c) \/ BreakOff(c) \/ Eof(c)
                           \/ FinPoll(c)
    \/ \E n \in Nodes :
          \/ Handler(n) \/ NodeUp(n) \/ NodeDeaf(n) \/ NodeLeaves(n)
          \/ \E c \in Clients : NodeData(n, c) \/ NodeClose(n, c) \/ NodeFin(n, c)
    \/ Finished

Spec == Init /\ [][Next]_vars

\* What a handler does without waiting for a peer: ntap_send_all waits for the
\* SOCKS client to take what it is sent, without a timeout.
HandlerRuns(n) == CloseNode(n) \/ (DoWork(n) /\ Head(work[n]).op # "send")

\* Threads run, the deadline after a client's FIN passes, and recv on a socket
\* that was shut down returns.  Peers, and idle timeouts that data can put off,
\* are not made to do anything.
Fairness ==
    /\ \A c \in Clients : WF_vars(Client(c)) /\ WF_vars(c \in cut /\ Eof(c))
    /\ \A n \in Nodes : WF_vars(HandlerRuns(n))

FairSpec == Spec /\ Fairness

-----------------------------------------------------------------------------
(* Correctness                                                             *)

TypeOK ==
    /\ pc \in [Clients -> {"auth", "found", "registered", "started", "opened", "loop", "marking",
                           "ending", "waiting", "closing", "unregistering", "endrow", "hangup",
                           "closed"}]
    /\ found \in [Clients -> Nodes \cup {None}]
    /\ stream \in [Clients -> Stream]
    /\ node \in [Nodes -> {"off", "up", "deaf", "leaving", "down"}]
    /\ opened \in [Nodes -> SUBSET Clients] /\ told \in [Nodes -> SUBSET Clients]

\* An entry never outlives the thread of its client, so its client_fd is never
\* the descriptor of a later connection.
StreamHasClient ==
    \A c \in Active : pc[c] \notin {"auth", "found", "endrow", "hangup", "closed"}

\* The node never carries more streams than it is configured for, although the
\* count and the session it is made for are read in different sections.
StreamQuota == Cardinality(Active) <= MaxPerNode

\* A stream that both ends have finished leaves the table, whichever FIN is
\* the second.
BothFinsEnd == \A c \in Active : ~(stream[c].clientFin /\ stream[c].nodeFin)

\* The places in the handlers' work that end the row of stream c.
EndsIn(n, c) == {i \in DOMAIN work[n] : work[n][i].op \in {"close", "end"} /\ work[n][i].c = c}

PendingEnds(c) ==
    Cardinality(UNION {{n} \X EndsIn(n, c) : n \in Nodes})
    + (IF pc[c] \in {"ending", "endrow"} THEN 1 ELSE 0)

\* However a close by the node, a lost session, both FINs and a timeout meet,
\* exactly one thread ends the stream's row, and nobody ends it while the
\* stream is active.
RowEndedOnce ==
    \A c \in Clients :
        /\ row[c].ends + PendingEnds(c) <= 1
        /\ row[c].ends + PendingEnds(c) = 1 <=> ~stream[c].active /\ stream[c].dbId

\* A session that has gone leaves no stream behind, except one whose client
\* looked the session up before it left and registered after.
NoStrandedStream ==
    \A c \in Active : node[stream[c].node] = "down" => c \in late

\* As long as the node has one session at a time and its messages are queued, a
\* session that was asked to open one of its own streams is told of its end or
\* closed it itself.  (With two, messages go to whichever is found first; and a
\* client whose session left before its OPEN went to the next one may leave a
\* stream open there.)
NodeIsTold ==
    \A c \in Clients, n \in Up :
        pc[c] = "closed" /\ c \in opened[n] /\ stream[c].node = n /\ ~overlap
        => c \in told[n] \cup unsaid

\* When a stream is taken off the table by whatever thread, its client's thread
\* comes to an end.
RemovedStreamEnds ==
    \A c \in Clients : (stream[c].node # None /\ ~stream[c].active) ~> pc[c] = "closed"

\* A client that has sent its FIN does not wait for ever for the node's.
FinBounded == \A c \in Clients : pc[c] = "waiting" ~> pc[c] = "closed"
=============================================================================
