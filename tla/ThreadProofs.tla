---------------------------- MODULE ThreadProofs ----------------------------
(***************************************************************************)
(* Proofs about the threads of node_server.c: the run that starts and ends *)
(* them (NodeServer), and the writer thread of a session (SessionWriter).  *)
(*                                                                         *)
(* NodeServer: what the end of a run leaves behind, for any number of      *)
(* peers and clients and any limit on the number of sessions.  The         *)
(* strengthening says, for each place the main thread may be at, which     *)
(* mutexes, sockets and threads there are, and, for each place of the      *)
(* listener, which connections it can still meet: once the SOCKS socket is *)
(* closed only an accept that had begun before finds any.                  *)
(*                                                                         *)
(* SessionWriter: what waits in a session's queues and what its writer     *)
(* makes of it, for any number of connections, slots and messages and any  *)
(* limit.  The parts of WriterInv rest on one another: where the threads   *)
(* are (Placed), who owns a slot (ThreadInv), what is queued (FloodBacklog *)
(* and Queued), and in which order it is written (Ordered).  ThreadInv and *)
(* Ordered speak of the runs in which no slot was recycled too early; the  *)
(* others of every run.                                                    *)
(***************************************************************************)
EXTENDS NodeServer, SessionWriter, TLAPS, FiniteSetTheorems, WellFoundedInduction

-----------------------------------------------------------------------------
(* The server's run: the invariant                                         *)

Starting == {"init", "tap", "socks", "listener"}
Ending == {"wake", "close", "wait", "destroy"}

\* The listener runs from its start to the main thread's join.
Listening ==
    /\ main \in Starting => listener = "off"
    /\ listener = "off" => main \in Starting \cup {"done"}
    /\ main \in {"destroy", "done"} => listener \in {"off", "done"}

\* The mutexes exist from the preparation to the last step.
Guarded ==
    /\ main = "init" => mutexes = "none"
    /\ main \notin {"init", "done"} => mutexes = "live"
    /\ main = "done" => mutexes # "live"

\* Which sockets are open, and that the flag is set before one is closed.
Opened ==
    /\ tapOpen => main \notin {"init", "tap", "destroy", "done"}
    /\ socksOpen => main \notin {"init", "tap", "socks", "wait", "destroy", "done"}
    /\ listener # "off" /\ ~socksOpen => stop
    /\ main \in {"listener", "accept", "inline", "join", "stop", "wake", "close"} => socksOpen
    /\ main \in Ending => stop
    /\ stop => main \in Ending \cup {"done"} /\ listener # "off"

\* Limited runs have joined their sessions when the flag is set; the only
\* session of a run of one is over when the main thread goes on.
Joined ==
    /\ main \in Starting => Running = {}
    /\ main = "inline" => limit = 1
    /\ limit # 0 /\ (main \in Ending \cup {"stop", "done"} \/ (limit = 1 /\ main # "inline"))
          => Running = {}
    /\ main = "inline" => \E p \in Peers : Running \subseteq {p}

\* What the listener holds, and that it can only meet the main thread's own
\* connection after the flag was set.
Held ==
    /\ listener \in {"recheck", "start", "leave"} <=> taken # <<>>
    /\ \A i \in DOMAIN backlog : backlog[i] = Wake => stop
    /\ taken # <<>> /\ taken[1] = Wake => stop /\ listener # "start"
    /\ client[Wake] # "running"

\* A closed socket has no connections, unless an accept had begun.
Drained ==
    ~socksOpen /\ listener \notin {"accept", "recheck", "leave"} => backlog = <<>>

\* A client that was started after the flag was set was the listener's last.
LateLast ==
    /\ late # {} => stop /\ listener \in {"check", "done"}
    /\ \A c, d \in late : c = d

ServerInv == ServerTypeOK /\ Listening /\ Guarded /\ Opened /\ Joined /\ Held /\ Drained /\ LateLast

-----------------------------------------------------------------------------
(* The server's run: the parts, one after the other                        *)

\* The empty queue of connections.
LEMMA NoConnections == <<>> \in Seq(Clients \cup {Wake}) /\ Len(<<>>) = 0
OBVIOUS

\* The invariant holds before the run has made anything.
LEMMA InitServerInv == ServerInit => ServerInv
<1> SUFFICES ASSUME ServerInit PROVE ServerInv
    OBVIOUS
<1> USE DEF ServerInit
<1>1. limit \in Nat
    BY ServerAssumption DEF SessionLimit
<1>2. ServerTypeOK
    <2>1. session \in [Peers -> {"away", "running", "over"}]
        OBVIOUS
    <2>2. client \in [Clients \cup {Wake} -> {"away", "queued", "running", "over"}]
        OBVIOUS
    <2>3. /\ backlog \in Seq(Clients \cup {Wake})
          /\ taken \in Seq(Clients \cup {Wake}) /\ Len(taken) <= 1
        BY NoConnections
    <2>4. QED
        BY <1>1, <2>1, <2>2, <2>3 DEF ServerTypeOK
<1>3. Running = {}
    BY DEF Running
<1>4. Listening /\ Guarded /\ Opened /\ Drained /\ LateLast
    BY DEF Listening, Guarded, Opened, Drained, LateLast, Starting, Ending
<1>5. Joined /\ Held
    BY <1>3 DEF Joined, Held, Starting, Ending
<1>6. QED
    BY <1>2, <1>4, <1>5 DEF ServerInv

\* The types.
LEMMA StepTypes == ServerTypeOK /\ Held /\ [ServerNext]_serverVars => ServerTypeOK'
<1> SUFFICES ASSUME ServerTypeOK, Held, [ServerNext]_serverVars PROVE ServerTypeOK'
    OBVIOUS
<1> USE DEF ServerTypeOK, mainVars, socksVars
<1>1. CASE Prepare \/ ListenTap \/ ListenSocks \/ StartListener
    BY <1>1 DEF Prepare, ListenTap, ListenSocks, StartListener
<1>2. CASE StartFails
    <2>1. client' \in [Clients \cup {Wake} -> {"away", "queued", "running", "over"}]
        BY <1>2 DEF StartFails
    <2>2. backlog' \in Seq(Clients \cup {Wake})
        BY <1>2, NoConnections DEF StartFails
    <2>3. QED
        BY <1>2, <2>1, <2>2 DEF StartFails
<1>3. CASE AcceptFails \/ JoinSessions \/ SetStop \/ JoinListener \/ Destroy
    BY <1>3 DEF AcceptFails, JoinSessions, SetStop, JoinListener, Destroy
<1>4. CASE \E p \in Peers : AcceptNode(p) \/ SessionEnds(p)
    BY <1>4 DEF AcceptNode, SessionEnds
<1>5. CASE WakeListener
    <2>1. backlog' \in Seq(Clients \cup {Wake})
        BY <1>5 DEF WakeListener
    <2>2. client' \in [Clients \cup {Wake} -> {"away", "queued", "running", "over"}]
        BY <1>5 DEF WakeListener
    <2>3. QED
        BY <1>5, <2>1, <2>2 DEF WakeListener
<1>6. CASE CloseSocks
    <2>1. client' \in [Clients \cup {Wake} -> {"away", "queued", "running", "over"}]
        BY <1>6 DEF CloseSocks
    <2>2. backlog' \in Seq(Clients \cup {Wake})
        BY <1>6, NoConnections DEF CloseSocks
    <2>3. QED
        BY <1>6, <2>1, <2>2 DEF CloseSocks
<1>7. CASE CheckStop \/ EnterAccept \/ Recheck
    BY <1>7 DEF CheckStop, EnterAccept, Recheck
<1>8. CASE TakeClient
    BY <1>8 DEF TakeClient
<1>9. CASE TakeFails
    <2>1. client' \in [Clients \cup {Wake} -> {"away", "queued", "running", "over"}]
        BY <1>9 DEF TakeFails
    <2>2. backlog' \in Seq(Clients \cup {Wake})
        BY <1>9, NoConnections DEF TakeFails
    <2>3. QED
        BY <1>9, <2>1, <2>2 DEF TakeFails
<1>10. CASE StartClient
    <2>1. taken # <<>> /\ taken[1] \in Clients \cup {Wake} /\ taken[1] # Wake
        BY <1>10 DEF StartClient, Held
    <2>2. Head(taken) \in Clients
        BY <2>1
    <2>3. QED
        BY <1>10, <2>2 DEF StartClient
<1>11. CASE LeaveListener
    BY <1>11 DEF LeaveListener
<1>12. CASE \E c \in Clients : Connect(c)
    BY <1>12 DEF Connect
<1>13. CASE \E c \in DOMAIN client : ClientEnds(c)
    BY <1>13 DEF ClientEnds
<1>14. CASE RunOver \/ UNCHANGED serverVars
    BY <1>14 DEF RunOver, serverVars
<1>15. QED
    BY <1>1, <1>2, <1>3, <1>4, <1>5, <1>6, <1>7, <1>8, <1>9, <1>10, <1>11, <1>12, <1>13, <1>14
    DEF ServerNext, Main, Listener

\* The listener is started once and joined once.
LEMMA StepListening == ServerTypeOK /\ Listening /\ [ServerNext]_serverVars => Listening'
<1> SUFFICES ASSUME ServerTypeOK, Listening, [ServerNext]_serverVars PROVE Listening'
    OBVIOUS
<1> USE DEF ServerTypeOK, Listening, Starting, mainVars, socksVars
<1>1. CASE Main
    BY <1>1 DEF Main, Prepare, ListenTap, ListenSocks, StartListener, StartFails, JoinSessions,
        SetStop, WakeListener, CloseSocks, JoinListener, Destroy
<1>2. CASE Listener \/ TakeFails
    BY <1>2 DEF Listener, CheckStop, EnterAccept, TakeClient, Recheck, StartClient,
        LeaveListener, TakeFails
<1>3. CASE AcceptFails \/ \E p \in Peers : AcceptNode(p) \/ SessionEnds(p)
    BY <1>3 DEF AcceptFails, AcceptNode, SessionEnds
<1>4. CASE (\E c \in Clients : Connect(c)) \/ (\E c \in DOMAIN client : ClientEnds(c))
    BY <1>4 DEF Connect, ClientEnds
<1>5. CASE RunOver \/ UNCHANGED serverVars
    BY <1>5 DEF RunOver, serverVars
<1>6. QED
    BY <1>1, <1>2, <1>3, <1>4, <1>5 DEF ServerNext

\* The mutexes are made and destroyed by the main thread.
LEMMA StepGuarded == ServerTypeOK /\ Guarded /\ [ServerNext]_serverVars => Guarded'
<1> SUFFICES ASSUME ServerTypeOK, Guarded, [ServerNext]_serverVars PROVE Guarded'
    OBVIOUS
<1> USE DEF ServerTypeOK, Guarded, mainVars
<1>1. CASE Main
    BY <1>1 DEF Main, Prepare, ListenTap, ListenSocks, StartListener, StartFails, JoinSessions,
        SetStop, WakeListener, CloseSocks, JoinListener, Destroy
<1>2. CASE Listener \/ TakeFails
    BY <1>2 DEF Listener, CheckStop, EnterAccept, TakeClient, Recheck, StartClient,
        LeaveListener, TakeFails
<1>3. CASE AcceptFails \/ \E p \in Peers : AcceptNode(p) \/ SessionEnds(p)
    BY <1>3 DEF AcceptFails, AcceptNode, SessionEnds
<1>4. CASE (\E c \in Clients : Connect(c)) \/ (\E c \in DOMAIN client : ClientEnds(c))
    BY <1>4 DEF Connect, ClientEnds
<1>5. CASE RunOver \/ UNCHANGED serverVars
    BY <1>5 DEF RunOver, serverVars
<1>6. QED
    BY <1>1, <1>2, <1>3, <1>4, <1>5 DEF ServerNext

\* Sockets are opened and closed by the main thread, which sets the flag first.
LEMMA StepOpened == ServerTypeOK /\ Listening /\ Opened /\ [ServerNext]_serverVars => Opened'
<1> SUFFICES ASSUME ServerTypeOK, Listening, Opened, [ServerNext]_serverVars PROVE Opened'
    OBVIOUS
<1> USE DEF ServerTypeOK, Listening, Opened, Starting, Ending, mainVars, socksVars
<1>1. CASE Main
    BY <1>1 DEF Main, Prepare, ListenTap, ListenSocks, StartListener, StartFails, JoinSessions,
        SetStop, WakeListener, CloseSocks, JoinListener, Destroy
<1>2. CASE Listener \/ TakeFails
    BY <1>2 DEF Listener, CheckStop, EnterAccept, TakeClient, Recheck, StartClient,
        LeaveListener, TakeFails
<1>3. CASE AcceptFails \/ \E p \in Peers : AcceptNode(p) \/ SessionEnds(p)
    BY <1>3 DEF AcceptFails, AcceptNode, SessionEnds
<1>4. CASE (\E c \in Clients : Connect(c)) \/ (\E c \in DOMAIN client : ClientEnds(c))
    BY <1>4 DEF Connect, ClientEnds
<1>5. CASE RunOver \/ UNCHANGED serverVars
    BY <1>5 DEF RunOver, serverVars
<1>6. QED
    BY <1>1, <1>2, <1>3, <1>4, <1>5 DEF ServerNext

\* Sessions are started by AcceptNode only; a run of one has one at a time.
LEMMA StepJoined == ServerTypeOK /\ Joined /\ [ServerNext]_serverVars => Joined'
<1> SUFFICES ASSUME ServerTypeOK, Joined, [ServerNext]_serverVars PROVE Joined'
    OBVIOUS
<1> USE DEF ServerTypeOK, Joined, Running, Starting, Ending, mainVars
<1>1. CASE Main
    BY <1>1 DEF Main, Prepare, ListenTap, ListenSocks, StartListener, StartFails, JoinSessions,
        SetStop, WakeListener, CloseSocks, JoinListener, Destroy
<1>2. CASE Listener \/ TakeFails
    BY <1>2 DEF Listener, CheckStop, EnterAccept, TakeClient, Recheck, StartClient,
        LeaveListener, TakeFails
<1>3. CASE AcceptFails
    BY <1>3 DEF AcceptFails
<1>4. ASSUME NEW p \in Peers, AcceptNode(p) PROVE Joined'
    <2>1. main = "accept" /\ limit' = limit /\ Running' \subseteq Running \cup {p}
        BY <1>4 DEF AcceptNode
    <2>2. CASE limit = 1
        BY <1>4, <2>1, <2>2 DEF AcceptNode
    <2>3. CASE limit # 1
        BY <1>4, <2>1, <2>3 DEF AcceptNode
    <2>4. QED
        BY <2>2, <2>3
<1>5. ASSUME NEW p \in Peers, SessionEnds(p) PROVE Joined'
    <2>1. p \in Running /\ Running' = Running \ {p} /\ limit' = limit
        BY <1>5 DEF SessionEnds
    <2>2. CASE main = "inline"
        BY <1>5, <2>1, <2>2 DEF SessionEnds
    <2>3. CASE main # "inline"
        BY <1>5, <2>1, <2>3 DEF SessionEnds
    <2>4. QED
        BY <2>2, <2>3
<1>6. CASE (\E c \in Clients : Connect(c)) \/ (\E c \in DOMAIN client : ClientEnds(c))
    BY <1>6 DEF Connect, ClientEnds
<1>7. CASE RunOver \/ UNCHANGED serverVars
    BY <1>7 DEF RunOver, serverVars
<1>8. QED
    BY <1>1, <1>2, <1>3, <1>4, <1>5, <1>6, <1>7 DEF ServerNext

\* The main thread's own connection comes after the flag, and the listener
\* reads the flag after accept.
LEMMA StepHeld == ServerTypeOK /\ Listening /\ Opened /\ Held /\ [ServerNext]_serverVars => Held'
<1> SUFFICES ASSUME ServerTypeOK, Listening, Opened, Held, [ServerNext]_serverVars PROVE Held'
    OBVIOUS
<1> USE DEF ServerTypeOK, Held, mainVars, socksVars
<1>1. CASE Prepare \/ ListenTap \/ ListenSocks \/ StartListener \/ JoinSessions \/ SetStop
           \/ JoinListener \/ Destroy \/ AcceptFails
    <2>1. /\ backlog' = backlog /\ taken' = taken /\ client' = client
          /\ listener' = listener \/ (listener' = "check" /\ listener = "off")
          /\ stop => stop'
        BY <1>1 DEF Prepare, ListenTap, ListenSocks, StartListener, JoinSessions, SetStop,
            JoinListener, Destroy, AcceptFails, Listening, Starting
    <2>2. QED
        BY <2>1
<1>2. CASE StartFails \/ CloseSocks
    BY <1>2 DEF StartFails, CloseSocks
<1>3. CASE WakeListener
    <2>1. stop /\ stop' /\ taken' = taken /\ listener' = listener
        BY <1>3 DEF WakeListener, Opened, Ending
    <2>2. client'[Wake] # "running"
        BY <1>3 DEF WakeListener
    <2>3. QED
        BY <2>1, <2>2
<1>4. CASE CheckStop \/ EnterAccept
    BY <1>4 DEF CheckStop, EnterAccept
<1>5. CASE TakeClient
    <2>1. /\ taken' = <<backlog[1]>> /\ taken'[1] = backlog[1] /\ 1 \in DOMAIN backlog
          /\ listener' = "recheck" /\ stop' = stop /\ client' = client
        BY <1>5 DEF TakeClient
    <2>2. \A i \in DOMAIN backlog' : i + 1 \in DOMAIN backlog /\ backlog'[i] = backlog[i + 1]
        BY <1>5 DEF TakeClient
    <2>3. QED
        BY <2>1, <2>2
<1>6. CASE Recheck
    BY <1>6 DEF Recheck, Stopped
<1>7. CASE StartClient
    <2>1. taken # <<>> /\ Head(taken) # Wake
        BY <1>7 DEF StartClient
    <2>2. client'[Wake] # "running"
        BY <1>7, <2>1 DEF StartClient
    <2>3. QED
        BY <1>7, <2>2 DEF StartClient
<1>8. CASE LeaveListener \/ TakeFails
    BY <1>8 DEF LeaveListener, TakeFails
<1>9. ASSUME NEW c \in Clients, Connect(c) PROVE Held'
    <2>1. c # Wake
        BY ServerAssumption
    <2>2. \A i \in DOMAIN backlog' : backlog'[i] = Wake =>
             i \in DOMAIN backlog /\ backlog[i] = Wake
        BY <1>9, <2>1 DEF Connect
    <2>3. QED
        BY <1>9, <2>1, <2>2 DEF Connect
<1>10. CASE (\E p \in Peers : AcceptNode(p) \/ SessionEnds(p))
            \/ (\E c \in DOMAIN client : ClientEnds(c))
    BY <1>10 DEF AcceptNode, SessionEnds, ClientEnds
<1>11. CASE RunOver \/ UNCHANGED serverVars
    BY <1>11 DEF RunOver, serverVars
<1>12. QED
    BY <1>1, <1>2, <1>3, <1>4, <1>5, <1>6, <1>7, <1>8, <1>9, <1>10, <1>11
    DEF ServerNext, Main, Listener

\* Who closes the SOCKS socket, or leaves it last, drops what waits there.
LEMMA StepDrained == ServerTypeOK /\ Opened /\ Drained /\ [ServerNext]_serverVars => Drained'
<1> SUFFICES ASSUME ServerTypeOK, Opened, Drained, [ServerNext]_serverVars PROVE Drained'
    OBVIOUS
<1> USE DEF ServerTypeOK, Drained, mainVars, socksVars
<1>1. CASE Main
    BY <1>1 DEF Main, Prepare, ListenTap, ListenSocks, StartListener, StartFails, JoinSessions,
        SetStop, WakeListener, CloseSocks, JoinListener, Destroy, Opened, Ending
<1>2. CASE Listener \/ TakeFails
    BY <1>2 DEF Listener, CheckStop, EnterAccept, TakeClient, Recheck, StartClient,
        LeaveListener, TakeFails, Stopped, Opened
<1>3. CASE AcceptFails \/ \E p \in Peers : AcceptNode(p) \/ SessionEnds(p)
    BY <1>3 DEF AcceptFails, AcceptNode, SessionEnds
<1>4. CASE (\E c \in Clients : Connect(c)) \/ (\E c \in DOMAIN client : ClientEnds(c))
    BY <1>4 DEF Connect, ClientEnds
<1>5. CASE RunOver \/ UNCHANGED serverVars
    BY <1>5 DEF RunOver, serverVars
<1>6. QED
    BY <1>1, <1>2, <1>3, <1>4, <1>5 DEF ServerNext

\* After a late client the listener finds the flag set and ends.
LEMMA StepLateLast == ServerTypeOK /\ Opened /\ LateLast /\ [ServerNext]_serverVars => LateLast'
<1> SUFFICES ASSUME ServerTypeOK, Opened, LateLast, [ServerNext]_serverVars PROVE LateLast'
    OBVIOUS
<1> USE DEF ServerTypeOK, LateLast, mainVars, socksVars
<1>1. CASE Main
    BY <1>1 DEF Main, Prepare, ListenTap, ListenSocks, StartListener, StartFails, JoinSessions,
        SetStop, WakeListener, CloseSocks, JoinListener, Destroy, Opened, Ending
<1>2. CASE CheckStop \/ EnterAccept \/ TakeClient \/ Recheck \/ LeaveListener \/ TakeFails
    BY <1>2 DEF CheckStop, EnterAccept, TakeClient, Recheck, LeaveListener, TakeFails, Stopped
<1>3. CASE StartClient
    <2>1. late = {} /\ late' \in {{}, {Head(taken)}} /\ stop' = stop /\ listener' = "check"
        BY <1>3 DEF StartClient
    <2>2. late' # {} => stop
        BY <1>3, <2>1 DEF StartClient
    <2>3. QED
        BY <2>1, <2>2
<1>4. CASE AcceptFails \/ \E p \in Peers : AcceptNode(p) \/ SessionEnds(p)
    BY <1>4 DEF AcceptFails, AcceptNode, SessionEnds
<1>5. CASE (\E c \in Clients : Connect(c)) \/ (\E c \in DOMAIN client : ClientEnds(c))
    BY <1>5 DEF Connect, ClientEnds
<1>6. CASE RunOver \/ UNCHANGED serverVars
    BY <1>6 DEF RunOver, serverVars
<1>7. QED
    BY <1>1, <1>2, <1>3, <1>4, <1>5, <1>6 DEF ServerNext, Listener

\* The invariant of the server's run.
LEMMA ServerInvariant == ServerSpec => []ServerInv
<1>1. ServerInv /\ [ServerNext]_serverVars => ServerInv'
    BY StepTypes, StepListening, StepGuarded, StepOpened, StepJoined, StepHeld, StepDrained,
       StepLateLast DEF ServerInv
<1>2. QED
    BY InitServerInv, <1>1, PTL DEF ServerSpec

-----------------------------------------------------------------------------
(* The server's run: the theorems                                          *)

\* The state is what the declarations say: one connection at most is between
\* accept and its thread, and no thread is in two places.
THEOREM ServerTypes == ServerSpec => []ServerTypeOK
<1>1. ServerInv => ServerTypeOK
    BY DEF ServerInv
<1>2. QED
    BY ServerInvariant, <1>1, PTL

\* ntap_a_node_server_run destroys the mutexes only after the listener and, in
\* a limited run, the sessions are over.
THEOREM MutexesOutliveThreads == ServerSpec => []MutexOutlivesThreads
<1>1. ServerInv => MutexOutlivesThreads
    <2> SUFFICES ASSUME ServerInv, mutexes # "live"
                 PROVE  listener \in {"off", "done"} /\ (limit # 0 => Running = {})
        BY DEF MutexOutlivesThreads
    <2>1. main \in {"init", "done"}
        BY DEF ServerInv, Guarded
    <2>2. listener \in {"off", "done"}
        BY <2>1 DEF ServerInv, Listening, Starting
    <2>3. limit # 0 => Running = {}
        BY <2>1 DEF ServerInv, Joined, Starting
    <2>4. QED
        BY <2>2, <2>3
<1>2. QED
    BY ServerInvariant, <1>1, PTL

\* The flag is read once more after accept: the connection by which the main
\* thread wakes the listener gets no thread.
THEOREM WakeIsNotServed == ServerSpec => []WakeNotServed
<1>1. ServerInv => WakeNotServed
    BY DEF ServerInv, Held, WakeNotServed
<1>2. QED
    BY ServerInvariant, <1>1, PTL

\* Between its two readings of the flag the listener starts one thread at most.
THEOREM OneClientIsLate == ServerSpec => []OneLateClient
<1>1. ServerInv => OneLateClient
    <2> SUFFICES ASSUME ServerInv PROVE Cardinality(late) <= 1
        BY DEF OneLateClient
    <2>1. CASE late = {}
        BY <2>1, FS_EmptySet
    <2>2. CASE late # {}
        <3>1. PICK c : c \in late
            BY <2>2
        <3>2. late = {c}
            BY <3>1 DEF ServerInv, LateLast
        <3>3. Cardinality({c}) = 1
            BY FS_Singleton
        <3>4. QED
            BY <3>2, <3>3
    <2>3. QED
        BY <2>1, <2>2
<1>2. QED
    BY ServerInvariant, <1>1, PTL

\* Whichever way the run ends, nothing is left open.
THEOREM EndsAreClean == ServerSpec => []CleanEnd
<1>1. ServerInv => CleanEnd
    <2> SUFFICES ASSUME ServerInv, main = "done"
                 PROVE  /\ ~tapOpen /\ ~socksOpen
                        /\ mutexes # "live"
                        /\ listener \in {"off", "done"}
                        /\ (listener = "done" /\ stop) => backlog = <<>>
        BY DEF CleanEnd
    <2>1. ~tapOpen /\ ~socksOpen
        BY DEF ServerInv, ServerTypeOK, Opened
    <2>2. mutexes # "live"
        BY DEF ServerInv, Guarded
    <2>3. listener \in {"off", "done"}
        BY DEF ServerInv, Listening
    <2>4. backlog = <<>>
        BY <2>1, <2>3 DEF ServerInv, Drained
    <2>5. QED
        BY <2>1, <2>2, <2>3, <2>4
<1>2. QED
    BY ServerInvariant, <1>1, PTL

-----------------------------------------------------------------------------
(* Sums of sequences of numbers                                            *)

\* The least number principle: initial segments are finite, and strict inclusion
\* of finite sets is well-founded.
LEMMA LeastNumber ==
    ASSUME NEW B \in SUBSET Nat, B # {}
    PROVE  \E k \in B : \A j \in B : k <= j
<1> DEFINE R == StrictSubsetOrdering(Nat)
           S == FiniteSubsetsOf(Nat)
           T == {0..k : k \in B}
<1>1. IsWellFoundedOn(R, S)
    BY FS_StrictSubsetOrderingWellFounded
<1>2. T \subseteq S /\ T # {}
    <2>1. \A k \in Nat : IsFiniteSet(0..k) /\ 0..k \in SUBSET Nat
        BY FS_Interval
    <2>2. QED
        BY <2>1 DEF FiniteSubsetsOf
<1>3. PICK x \in T : \A y \in T : <<y, x>> \notin R
    <2> HIDE DEF R, S, T
    <2>1. QED
        BY <1>1, <1>2, WFMin
<1>4. PICK k \in B : x = 0..k
    OBVIOUS
<1>5. ASSUME NEW j \in B, ~(k <= j)
      PROVE  FALSE
    <2>1. 0..j \subseteq 0..k /\ 0..j # 0..k /\ 0..j \in SUBSET Nat /\ 0..k \in SUBSET Nat
        <3>1. k \in 0..k /\ k \notin 0..j
            BY <1>5
        <3>2. QED
            BY <1>5, <3>1
    <2>2. 0..j \in T
        OBVIOUS
    <2>3. <<0..j, x>> \in R
        BY <1>4, <2>1 DEF StrictSubsetOrdering
    <2>4. QED
        BY <1>3, <2>2, <2>3
<1>6. QED
    BY <1>5

\* f[k] is the sum of the first k numbers of w.
Sums(w, n, f) ==
    /\ f[0] = 0
    /\ \A k \in 1..n : f[k] = f[k - 1] + w[k]

\* There are such sums: otherwise take the least length without.
LEMMA SumsExist ==
    ASSUME NEW w \in Seq(Nat), NEW n \in 0..Len(w)
    PROVE  \E f \in [0..n -> Nat] : Sums(w, n, f)
<1> DEFINE B == {m \in 0..Len(w) : ~\E f \in [0..m -> Nat] : Sums(w, m, f)}
<1>1. SUFFICES ASSUME B # {} PROVE FALSE
    OBVIOUS
<1>2. B \in SUBSET Nat
    OBVIOUS
<1>3. PICK m \in B : \A j \in B : m <= j
    <2> HIDE DEF B
    <2>1. QED
        BY <1>1, <1>2, LeastNumber
<1>4. m # 0
    <2>1. [k \in 0..0 |-> 0] \in [0..0 -> Nat] /\ Sums(w, 0, [k \in 0..0 |-> 0])
        BY DEF Sums
    <2>2. QED
        BY <2>1
<1>5. PICK f \in [0..(m - 1) -> Nat] : Sums(w, m - 1, f)
    <2>1. m - 1 \in 0..Len(w) /\ ~(m <= m - 1)
        BY <1>4
    <2>2. QED
        BY <1>3, <2>1
<1>6. m \in 1..Len(w) /\ w[m] \in Nat /\ f[m - 1] \in Nat
    BY <1>4
<1> DEFINE g == [k \in 0..m |-> IF k = m THEN f[m - 1] + w[m] ELSE f[k]]
<1>7. g \in [0..m -> Nat]
    BY <1>6
<1>8. Sums(w, m, g)
    <2>1. g[0] = 0
        BY <1>4, <1>5, <1>6 DEF Sums
    <2>2. ASSUME NEW k \in 1..m PROVE g[k] = g[k - 1] + w[k]
        BY <1>5, <1>6, <2>2 DEF Sums
    <2>3. QED
        BY <2>1, <2>2 DEF Sums
<1>9. QED
    BY <1>7, <1>8

\* They are unique: otherwise take the least place where two differ.
LEMMA SumsAgree ==
    ASSUME NEW w \in Seq(Nat), NEW n \in Nat, n <= Len(w), NEW f, NEW g,
           Sums(w, n, f), Sums(w, n, g)
    PROVE  \A k \in 0..n : f[k] = g[k]
<1> DEFINE B == {k \in 0..n : f[k] # g[k]}
<1>1. SUFFICES ASSUME B # {} PROVE FALSE
    OBVIOUS
<1>2. B \in SUBSET Nat
    OBVIOUS
<1>3. PICK k \in B : \A j \in B : k <= j
    <2> HIDE DEF B
    <2>1. QED
        BY <1>1, <1>2, LeastNumber
<1>4. k # 0
    BY DEF Sums
<1>5. k - 1 \in 0..n /\ k \in 1..n /\ ~(k <= k - 1)
    BY <1>4
<1>6. f[k - 1] = g[k - 1]
    BY <1>3, <1>5
<1>7. QED
    BY <1>5, <1>6 DEF Sums

\* What Sum computes: whichever sums there are, their last is the sum.
LEMMA SumIs ==
    ASSUME NEW w \in Seq(Nat)
    PROVE  /\ Sum(w) \in Nat
           /\ \A f : Sums(w, Len(w), f) => Sum(w) = f[Len(w)]
<1> DEFINE n == Len(w)
           Step(f) == [k \in 0..n |-> IF k = 0 THEN 0 ELSE f[k - 1] + w[k]]
           s == CHOOSE f : f = Step(f)
<1>1. n \in Nat
    OBVIOUS
<1>2. PICK f \in [0..n -> Nat] : Sums(w, n, f)
    BY SumsExist
<1>3. f = Step(f)
    <2>1. \A k \in 0..n : f[k] = Step(f)[k]
        BY <1>1, <1>2 DEF Sums
    <2>2. QED
        BY <2>1
<1>4. s = Step(s)
    BY <1>3
<1>5. Sums(w, n, s)
    <2> HIDE DEF s
    <2>1. \A k \in 0..n : s[k] = IF k = 0 THEN 0 ELSE s[k - 1] + w[k]
        BY <1>4
    <2>2. QED
        BY <1>1, <2>1 DEF Sums
<1>6. Sum(w) = s[n]
    BY DEF Sum
<1> HIDE DEF s
<1>7. \A g : Sums(w, n, g) => s[n] = g[n]
    BY <1>1, <1>5, SumsAgree
<1>8. QED
    BY <1>2, <1>6, <1>7

\* The sum of nothing.
LEMMA SumEmpty == Sum(<< >>) = 0
<1>1. << >> \in Seq(Nat) /\ Len(<< >>) = 0
    OBVIOUS
<1>2. Sums(<< >>, 0, [k \in 0..0 |-> 0])
    BY DEF Sums
<1>3. QED
    BY <1>1, <1>2, SumIs

\* The sum grows by what is appended.
LEMMA SumAppend ==
    ASSUME NEW w \in Seq(Nat), NEW x \in Nat
    PROVE  Sum(Append(w, x)) = Sum(w) + x
<1> DEFINE n == Len(w)
           v == Append(w, x)
<1>1. v \in Seq(Nat) /\ Len(v) = n + 1 /\ v[n + 1] = x /\ n \in Nat
      /\ \A k \in 1..n : v[k] = w[k]
    OBVIOUS
<1>2. PICK f \in [0..n -> Nat] : Sums(w, n, f)
    BY <1>1, SumsExist
<1> DEFINE g == [k \in 0..(n + 1) |-> IF k = n + 1 THEN f[n] + x ELSE f[k]]
<1> HIDE DEF v
<1>3. Sums(v, n + 1, g)
    <2>1. g[0] = 0
        BY <1>1, <1>2 DEF Sums
    <2>2. ASSUME NEW k \in 1..(n + 1) PROVE g[k] = g[k - 1] + v[k]
        <3>1. CASE k = n + 1
            BY <1>1, <3>1
        <3>2. CASE k # n + 1
            <4>1. k \in 1..n /\ k - 1 \in 0..n
                BY <1>1, <3>2
            <4>2. g[k] = f[k] /\ g[k - 1] = f[k - 1]
                BY <1>1, <3>2, <4>1
            <4>3. QED
                BY <1>1, <1>2, <4>1, <4>2 DEF Sums
        <3>3. QED
            BY <3>1, <3>2
    <2>3. QED
        BY <2>1, <2>2 DEF Sums
<1>4. Sum(v) = g[n + 1]
    BY <1>1, <1>3, SumIs
<1>5. Sum(w) = f[n]
    BY <1>2, SumIs
<1>6. QED
    BY <1>1, <1>4, <1>5 DEF v

\* The sum is the head and the sum of the tail.
LEMMA SumTail ==
    ASSUME NEW w \in Seq(Nat), w # << >>
    PROVE  Sum(w) = w[1] + Sum(Tail(w))
<1> DEFINE n == Len(w) - 1
           v == Tail(w)
<1>1. v \in Seq(Nat) /\ Len(v) = n /\ n \in Nat /\ Len(w) = n + 1
      /\ \A k \in 1..n : v[k] = w[k + 1]
    OBVIOUS
<1> HIDE DEF n, v
<1>2. PICK f \in [0..(n + 1) -> Nat] : Sums(w, n + 1, f)
    <2>1. n + 1 \in 0..Len(w)
        BY <1>1
    <2>2. QED
        BY <2>1, SumsExist
<1> DEFINE g == [k \in 0..n |-> f[k + 1] - w[1]]
<1>3. f[1] = w[1] /\ w[1] \in Nat
    BY <1>1, <1>2 DEF Sums
<1>4. Sums(v, n, g)
    <2>1. g[0] = 0
        BY <1>1, <1>3
    <2>2. ASSUME NEW k \in 1..n PROVE g[k] = g[k - 1] + v[k]
        <3>1. k + 1 \in 1..(n + 1) /\ (k + 1) - 1 = k /\ (k - 1) + 1 = k
              /\ k \in 0..n /\ k - 1 \in 0..n /\ k \in 0..(n + 1) /\ k + 1 \in 0..(n + 1)
            BY <1>1
        <3>2. f[k + 1] = f[k] + w[k + 1]
            BY <1>2, <3>1 DEF Sums
        <3>3. g[k] = f[k + 1] - w[1] /\ g[k - 1] = f[k] - w[1]
            BY <3>1
        <3>4. w[k + 1] \in Nat /\ f[k] \in Nat
            BY <1>1, <3>1
        <3>5. QED
            BY <1>1, <1>3, <3>2, <3>3, <3>4
    <2>3. QED
        BY <2>1, <2>2 DEF Sums
<1>5. Sum(v) = g[n] /\ Sum(w) = f[n + 1]
    BY <1>1, <1>2, <1>4, SumIs
<1>6. g[n] = f[n + 1] - w[1] /\ f[n + 1] \in Nat
    BY <1>1, <1>2
<1>7. QED
    BY <1>3, <1>5, <1>6 DEF v

\* The sum grows with its terms: otherwise take the least place of an excess.
LEMMA SumMonotone ==
    ASSUME NEW v \in Seq(Nat), NEW w \in Seq(Nat), Len(v) = Len(w),
           \A k \in 1..Len(w) : v[k] <= w[k]
    PROVE  Sum(v) <= Sum(w)
<1> DEFINE n == Len(w)
<1>1. n \in Nat /\ n \in 0..n
    OBVIOUS
<1>2. PICK f \in [0..n -> Nat] : Sums(v, n, f)
    BY <1>1, SumsExist
<1>3. PICK g \in [0..n -> Nat] : Sums(w, n, g)
    BY <1>1, SumsExist
<1> DEFINE B == {k \in 0..n : ~(f[k] <= g[k])}
<1>4. B = {}
    <2>1. SUFFICES ASSUME B # {} PROVE FALSE
        OBVIOUS
    <2>2. B \in SUBSET Nat
        OBVIOUS
    <2>3. PICK k \in B : \A j \in B : k <= j
        <3> HIDE DEF B
        <3>1. QED
            BY <2>1, <2>2, LeastNumber
    <2>4. k # 0
        BY <1>2, <1>3 DEF Sums
    <2>5. k - 1 \in 0..n /\ k \in 1..n /\ ~(k <= k - 1)
        BY <2>4
    <2>6. f[k - 1] <= g[k - 1]
        BY <2>3, <2>5
    <2>7. f[k] = f[k - 1] + v[k] /\ g[k] = g[k - 1] + w[k] /\ v[k] <= w[k]
        BY <1>2, <1>3, <2>5 DEF Sums
    <2>8. v[k] \in Nat /\ w[k] \in Nat /\ f[k - 1] \in Nat /\ g[k - 1] \in Nat
        <3>1. k \in 1..Len(v) /\ k \in 1..Len(w)
            BY <2>5
        <3>2. v[k] \in Nat /\ w[k] \in Nat
            BY <3>1
        <3>3. f[k - 1] \in Nat /\ g[k - 1] \in Nat
            BY <1>2, <1>3, <2>5
        <3>4. QED
            BY <3>2, <3>3
    <2>9. QED
        BY <2>6, <2>7, <2>8
<1>5. f[n] <= g[n]
    BY <1>1, <1>4
<1>6. QED
    BY <1>2, <1>3, <1>5, SumIs

-----------------------------------------------------------------------------
(* The writer: what a step does to a slot                                  *)

\* The handlers that use a slot, and those of them that have a writer.
Using == {"starting", "live", "held", "leaving", "stopping", "joining"}
Served == {"live", "held", "leaving", "stopping", "joining"}

\* Who uses a slot has one; the writer comes after the registration; a thread
\* waits at its own slot; what is sent is a message; a session has a socket.
Placed ==
    /\ \A f \in Fds : pc[f] \in Using \/ writer[f].pc # "none" => at[f] \in Slots
    /\ \A f \in Fds : pc[f] \in {"new", "starting"} => writer[f].pc = "none"
    /\ \A i \in Slots : \A w \in slot[i].waiters : writer[w].pc = "waiting" /\ at[w] = i
    /\ \A f \in Fds : writer[f].pc = "sending" => writer[f].msg \in Message
    /\ \A i \in Slots : slot[i].active => slot[i].fd \in Fds

\* What a step may leave alone of a slot, or make of it.
SameSession(s, t) ==
    t.active = s.active /\ t.fd = s.fd /\ t.started = s.started /\ t.thread = s.thread

SameQueues(s, t) == t.ctrl = s.ctrl /\ t.tap = s.tap /\ t.pending = s.pending

Empty(t) == t.ctrl = << >> /\ t.tap = << >> /\ t.pending = 0

\* Slot i, and no other, has become t.
Becomes(i, t) == i \in Slots /\ t \in Slot /\ slot' = [slot EXCEPT ![i] = t]

\* One slot has changed, the others have not.
LEMMA ChangedSlot ==
    ASSUME slot \in [Slots -> Slot], NEW i, NEW t, Becomes(i, t)
    PROVE  slot' \in [Slots -> Slot] /\ slot'[i] = t /\ \A j \in Slots : j # i => slot'[j] = slot[j]
BY DEF Becomes

\* A slot that session_register has filled.
LEMMA ClearedSlot ==
    ASSUME NEW waiters \in SUBSET Fds, NEW f \in Fds
    PROVE  LET t == [Cleared(waiters) EXCEPT !.active = TRUE, !.fd = f] IN
           /\ t \in Slot /\ Empty(t) /\ t.active /\ t.fd = f /\ t.waiters = waiters
           /\ ~t.started
<1>1. << >> \in Seq(Message)
    OBVIOUS
<1>2. QED
    BY <1>1 DEF Cleared, Slot, Empty

\* A slot whose queues its writer has emptied.
LEMMA EmptiedSlot ==
    ASSUME NEW s \in Slot
    PROVE  /\ Emptied(s) \in Slot /\ Empty(Emptied(s)) /\ SameSession(s, Emptied(s))
           /\ Emptied(s).waiters = s.waiters
           /\ LET t == [Emptied(s) EXCEPT !.stop = TRUE] IN
              t \in Slot /\ Empty(t) /\ SameSession(s, t) /\ t.waiters = s.waiters
<1>1. << >> \in Seq(Message)
    OBVIOUS
<1>2. QED
    BY <1>1 DEF Emptied, Slot, Empty, SameSession

\* The window of session_enqueue_tap touches neither session nor queues.
LEMMA WindowSlot ==
    ASSUME NEW s \in Slot, NEW flood, NEW now \in Nat
    PROVE  LET t == InWindow(s, flood, now) IN
           t \in Slot /\ SameSession(s, t) /\ SameQueues(s, t) /\ t.waiters = s.waiters
<1>1. ASSUME NEW t, t = [s EXCEPT !.winSec = now, !.winBytes = 0]
      PROVE  t \in Slot /\ SameSession(s, t) /\ SameQueues(s, t) /\ t.waiters = s.waiters
    BY <1>1 DEF Slot, SameSession, SameQueues
<1>2. QED
    BY <1>1 DEF InWindow, SameSession, SameQueues

\* The flags of a slot, one at a time.
LEMMA FlaggedSlot ==
    ASSUME NEW s \in Slot, NEW b \in BOOLEAN
    PROVE  /\ LET t == [s EXCEPT !.active = b] IN
              /\ t \in Slot /\ SameQueues(s, t) /\ t.waiters = s.waiters /\ t.active = b
              /\ t.fd = s.fd /\ t.started = s.started /\ t.thread = s.thread
           /\ LET t == [s EXCEPT !.started = b] IN
              /\ t \in Slot /\ SameQueues(s, t) /\ t.waiters = s.waiters /\ t.started = b
              /\ t.fd = s.fd /\ t.active = s.active /\ t.thread = s.thread
           /\ LET t == [s EXCEPT !.stop = b] IN
              t \in Slot /\ SameQueues(s, t) /\ t.waiters = s.waiters /\ SameSession(s, t)
BY DEF Slot, SameQueues, SameSession

\* A slot whose writer was started.
LEMMA StartedSlot ==
    ASSUME NEW s \in Slot, NEW f \in Fds
    PROVE  LET t == [s EXCEPT !.thread = f, !.started = TRUE] IN
           /\ t \in Slot /\ SameQueues(s, t) /\ t.waiters = s.waiters /\ t.started
           /\ t.fd = s.fd /\ t.active = s.active /\ t.thread = f
BY DEF Slot, SameQueues

\* A slot whose waiters changed.
LEMMA WaitersSlot ==
    ASSUME NEW s \in Slot, NEW W \in SUBSET Fds
    PROVE  LET t == [s EXCEPT !.waiters = W] IN
           t \in Slot /\ SameQueues(s, t) /\ SameSession(s, t) /\ t.waiters = W
BY DEF Slot, SameQueues, SameSession

\* A slot with one more control message.
LEMMA QueuedControl ==
    ASSUME NEW s \in Slot, NEW m \in Message
    PROVE  LET t == [s EXCEPT !.ctrl = Append(@, m)] IN
           /\ t \in Slot /\ SameSession(s, t) /\ t.waiters = s.waiters
           /\ t.ctrl = Append(s.ctrl, m) /\ t.tap = s.tap /\ t.pending = s.pending
<1>1. Append(s.ctrl, m) \in Seq(Message)
    BY DEF Slot
<1>2. QED
    BY <1>1 DEF Slot, SameSession

\* The head of two sequences one after the other.
LEMMA HeadOfBoth ==
    ASSUME NEW a \in Seq(Message), NEW b \in Seq(Message), a # << >>
    PROVE  Head(a \o b) = Head(a) /\ Head(a) \in Message /\ Tail(a) \in Seq(Message)
<1>1. Len(a) \in Nat /\ Len(a) # 0 /\ Len(b) \in Nat
    OBVIOUS
<1>2. a \o b \in Seq(Message) /\ Len(a \o b) = Len(a) + Len(b)
      /\ \A k \in 1..Len(a) : (a \o b)[k] = a[k]
    OBVIOUS
<1>3. (a \o b)[1] = a[1] /\ a \o b # << >>
    BY <1>1, <1>2
<1>4. QED
    BY <1>2, <1>3

\* A slot from which session_queue_pop_locked took the first message.
LEMMA PoppedSlot ==
    ASSUME NEW s \in Slot, s.ctrl \o s.tap # << >>
    PROVE  LET t == Popped(s)
               m == Head(s.ctrl \o s.tap) IN
           /\ t \in Slot /\ SameSession(s, t) /\ t.waiters = s.waiters /\ m \in Message
           /\ \/ /\ s.ctrl # << >> /\ m = Head(s.ctrl) /\ t.ctrl = Tail(s.ctrl)
                 /\ t.tap = s.tap /\ t.pending = s.pending
              \/ /\ s.ctrl = << >> /\ s.tap # << >> /\ m = Head(s.tap)
                 /\ t.ctrl = s.ctrl /\ t.tap = Tail(s.tap)
                 /\ t.pending = IF s.pending >= m.bytes THEN s.pending - m.bytes ELSE 0
<1>1. s.ctrl \in Seq(Message) /\ s.tap \in Seq(Message) /\ s.pending \in Nat
    BY DEF Slot
<1>2. CASE s.ctrl # << >>
    <2>1. Head(s.ctrl \o s.tap) = Head(s.ctrl) /\ Head(s.ctrl) \in Message
          /\ Tail(s.ctrl) \in Seq(Message)
        BY <1>1, <1>2, HeadOfBoth
    <2>2. Popped(s) = [s EXCEPT !.ctrl = Tail(@)]
        BY <1>2 DEF Popped
    <2>3. QED
        BY <1>2, <2>1, <2>2 DEF Slot, SameSession
<1>3. CASE s.ctrl = << >>
    <2>1. s.ctrl \o s.tap = s.tap /\ s.tap # << >>
        BY <1>1, <1>3
    <2>2. Head(s.tap) \in Message /\ Tail(s.tap) \in Seq(Message)
        BY <1>1, <2>1
    <2> DEFINE p == IF s.pending >= Head(s.tap).bytes THEN s.pending - Head(s.tap).bytes ELSE 0
    <2>3. p \in Nat
        BY <1>1, <2>2 DEF Message
    <2>4. Popped(s) = [s EXCEPT !.tap = Tail(@), !.pending = p]
        BY <1>3 DEF Popped
    <2> HIDE DEF p
    <2>5. /\ Popped(s) \in Slot /\ SameSession(s, Popped(s)) /\ Popped(s).waiters = s.waiters
          /\ Popped(s).ctrl = s.ctrl /\ Popped(s).tap = Tail(s.tap) /\ Popped(s).pending = p
        BY <2>2, <2>3, <2>4 DEF Slot, SameSession
    <2>6. QED
        BY <1>3, <2>1, <2>2, <2>5 DEF p
<1>4. QED
    BY <1>2, <1>3

\* A thread at another place.
LEMMA ChangedWriter ==
    ASSUME writer \in [Fds -> Thread], NEW f \in Fds,
           NEW l \in {"none", "loop", "waiting", "sending", "touching", "failing", "done"},
           WriterGoto(f, l)
    PROVE  /\ writer' \in [Fds -> Thread]
           /\ writer'[f].pc = l /\ writer'[f].msg = writer[f].msg
           /\ \A g \in Fds : g # f => writer'[g] = writer[g]
<1>1. writer' = [writer EXCEPT ![f] = [writer[f] EXCEPT !.pc = l]]
    BY DEF WriterGoto
<1>2. ASSUME NEW t, t = [writer[f] EXCEPT !.pc = l]
      PROVE  t \in Thread /\ t.pc = l /\ t.msg = writer[f].msg
    BY <1>2 DEF Thread
<1>3. QED
    BY <1>1, <1>2

\* The slot has become s, except that a thread that waited may run again.
LEMMA SignalledSlot ==
    ASSUME writer \in [Fds -> Thread], NEW i \in Slots, NEW s \in Slot, Signalled(i, s)
    PROVE  \E t : /\ Becomes(i, t) /\ SameSession(s, t) /\ SameQueues(s, t)
                  /\ \/ writer' = writer /\ t.waiters = s.waiters
                     \/ \E w \in s.waiters : /\ t.waiters = s.waiters \ {w}
                                             /\ WriterGoto(w, "loop")
<1>1. CASE s.waiters = {}
    BY <1>1 DEF Signalled, Becomes, SameSession, SameQueues
<1>2. ASSUME NEW w \in s.waiters,
             slot' = [slot EXCEPT ![i] = [s EXCEPT !.waiters = @ \ {w}]], WriterGoto(w, "loop")
      PROVE  \E t : /\ Becomes(i, t) /\ SameSession(s, t) /\ SameQueues(s, t)
                    /\ t.waiters = s.waiters \ {w} /\ WriterGoto(w, "loop")
    <2>1. s.waiters \ {w} \in SUBSET Fds
        BY DEF Slot
    <2>2. slot' = [slot EXCEPT ![i] = [s EXCEPT !.waiters = s.waiters \ {w}]]
        BY <1>2
    <2>3. QED
        BY <1>2, <2>1, <2>2, WaitersSlot DEF Becomes
<1>3. QED
    BY <1>1, <1>2 DEF Signalled

-----------------------------------------------------------------------------
(* The writer: what each action does                                       *)

\* One of the threads that wait at slot s is woken, if there is any.
Wakes(s, t) ==
    \/ writer' = writer /\ t.waiters = s.waiters
    \/ \E w \in s.waiters : t.waiters = s.waiters \ {w} /\ WriterGoto(w, "loop")

\* session_register takes slot i for f.
Clears(f, i, t) ==
    /\ Becomes(i, t) /\ Empty(t) /\ t.waiters = slot[i].waiters
    /\ t.active /\ t.fd = f /\ ~slot[i].active
    /\ at' = [at EXCEPT ![f] = i]
    /\ recycled' = (recycled \/ StillUses(i) # {})

\* It starts the writer.
Starts(f, t) ==
    /\ Becomes(at[f], t) /\ SameQueues(Mine(f), t) /\ t.waiters = Mine(f).waiters
    /\ t.active = Mine(f).active /\ t.fd = Mine(f).fd /\ t.started /\ t.thread = f

\* The slot is given back, by its error path or by session_unregister.
Frees(f, t) ==
    /\ Becomes(at[f], t) /\ SameQueues(Mine(f), t) /\ t.waiters = Mine(f).waiters
    /\ ~t.active /\ t.fd = Mine(f).fd /\ t.started = Mine(f).started /\ t.thread = Mine(f).thread

\* The writer has been joined.
Joins(f, t) ==
    /\ Becomes(at[f], t) /\ SameQueues(Mine(f), t) /\ t.waiters = Mine(f).waiters
    /\ t.active = Mine(f).active /\ t.fd = Mine(f).fd /\ t.thread = Mine(f).thread

\* The writer is asked to stop.
Stops(f, t) ==
    /\ Becomes(at[f], t) /\ SameQueues(Mine(f), t) /\ SameSession(Mine(f), t)
    /\ Wakes(Mine(f), t)

\* The writer leaves, or gives up.
Empties(f, t) ==
    /\ Becomes(at[f], t) /\ Empty(t) /\ SameSession(Mine(f), t) /\ t.waiters = Mine(f).waiters

\* The writer begins to wait or stops waiting.
Sleeps(f, t, W) ==
    /\ Becomes(at[f], t) /\ SameQueues(Mine(f), t) /\ SameSession(Mine(f), t) /\ t.waiters = W

\* The writer takes message m.
Pops(f, t, m) ==
    /\ Becomes(at[f], t) /\ SameSession(Mine(f), t) /\ t.waiters = Mine(f).waiters
    /\ m \in Message
    /\ \/ /\ Mine(f).ctrl # << >> /\ m = Head(Mine(f).ctrl) /\ t.ctrl = Tail(Mine(f).ctrl)
          /\ t.tap = Mine(f).tap /\ t.pending = Mine(f).pending
       \/ /\ Mine(f).tap # << >> /\ m = Head(Mine(f).tap) /\ t.tap = Tail(Mine(f).tap)
          /\ t.ctrl = Mine(f).ctrl
          /\ t.pending = IF Mine(f).pending >= m.bytes THEN Mine(f).pending - m.bytes ELSE 0
    /\ writer' = [writer EXCEPT ![f] = [pc |-> "sending", msg |-> m]]

\* Message m is queued at slot i.
Queues(i, t, m) ==
    /\ Becomes(i, t) /\ SameSession(slot[i], t) /\ Wakes(slot[i], t)
    /\ m \in Message /\ m.for = slot[i].fd /\ m.n = total /\ total' = total + 1
    /\ \/ /\ ~m.tap /\ t.ctrl = Append(slot[i].ctrl, m)
          /\ t.tap = slot[i].tap /\ t.pending = slot[i].pending
       \/ /\ m.tap /\ t.tap = Append(slot[i].tap, m)
          /\ t.ctrl = slot[i].ctrl /\ t.pending = slot[i].pending + m.bytes
          /\ m.flood => slot[i].pending + m.bytes <= Limit

\* A frame is dropped at slot i.
Drops(i, t) ==
    /\ Becomes(i, t) /\ SameSession(slot[i], t) /\ SameQueues(slot[i], t)
    /\ t.waiters = slot[i].waiters

\* A wakeup as the threads see it: those that no longer wait run again.
Woken(i, t) ==
    /\ writer' \in [Fds -> Thread]
    /\ t.waiters \subseteq slot[i].waiters
    /\ \A g \in Fds : writer'[g].msg = writer[g].msg
    /\ \A g \in Fds : \/ writer'[g] = writer[g] /\ (g \in slot[i].waiters => g \in t.waiters)
                      \/ /\ writer[g].pc = "waiting" /\ writer'[g].pc = "loop"
                         /\ at[g] = i /\ g \notin t.waiters

\* A signal is such a wakeup.
LEMMA WokenThread ==
    ASSUME TypeOK, Placed, NEW i \in Slots, NEW t, Wakes(slot[i], t)
    PROVE  Woken(i, t)
<1>0. writer \in [Fds -> Thread] /\ slot[i].waiters \subseteq Fds
    BY DEF TypeOK, Slot
<1>1. CASE writer' = writer /\ t.waiters = slot[i].waiters
    BY <1>0, <1>1 DEF Woken
<1>2. ASSUME NEW w \in slot[i].waiters, t.waiters = slot[i].waiters \ {w}, WriterGoto(w, "loop")
      PROVE  Woken(i, t)
    <2>1. w \in Fds /\ writer[w].pc = "waiting" /\ at[w] = i
        BY <1>0 DEF Placed
    <2>2. /\ writer' \in [Fds -> Thread] /\ writer'[w].pc = "loop" /\ writer'[w].msg = writer[w].msg
          /\ \A g \in Fds : g # w => writer'[g] = writer[g]
        BY <1>0, <1>2, <2>1, ChangedWriter
    <2>3. QED
        BY <1>2, <2>1, <2>2 DEF Woken
<1>3. QED
    BY <1>1, <1>2 DEF Wakes

\* Each step of a handler does to its slot what is named above ...
LEMMA HandlerEffects ==
    ASSUME TypeOK, Placed, NEW f \in Fds
    PROVE  /\ RegisterClear(f) => \E i, t : Clears(f, i, t)
           /\ RegisterStart(f) => \E t : Starts(f, t)
           /\ RegisterUndo(f) \/ Unregister(f) => \E t : Frees(f, t)
           /\ StopWriter(f) => \E t : Stops(f, t)
           /\ Join(f) => \E t : Joins(f, t)
<1>0. slot \in [Slots -> Slot] /\ writer \in [Fds -> Thread]
    BY DEF TypeOK
<1>1. ASSUME RegisterClear(f) PROVE \E i, t : Clears(f, i, t)
    <2>1. PICK i \in FreeSlots :
             /\ slot' = [slot EXCEPT ![i] =
                           [Cleared(slot[i].waiters) EXCEPT !.active = TRUE, !.fd = f]]
             /\ at' = [at EXCEPT ![f] = i]
             /\ recycled' = (recycled \/ StillUses(i) # {})
        BY <1>1 DEF RegisterClear
    <2>2. i \in Slots /\ ~slot[i].active /\ slot[i].waiters \in SUBSET Fds
        BY <1>0 DEF FreeSlots, Slot
    <2>3. QED
        BY <2>1, <2>2, ClearedSlot DEF Clears, Becomes
<1>2. ASSUME RegisterStart(f) PROVE \E t : Starts(f, t)
    <2>1. at[f] \in Slots /\ Mine(f) \in Slot
        BY <1>0, <1>2 DEF RegisterStart, Placed, Using, Mine
    <2>2. slot' = [slot EXCEPT ![at[f]] = [Mine(f) EXCEPT !.thread = f, !.started = TRUE]]
        BY <1>2 DEF RegisterStart, Mine
    <2> DEFINE t == [Mine(f) EXCEPT !.thread = f, !.started = TRUE]
    <2>3. /\ t \in Slot /\ SameQueues(Mine(f), t) /\ t.waiters = Mine(f).waiters /\ t.started
          /\ t.fd = Mine(f).fd /\ t.active = Mine(f).active /\ t.thread = f
        BY <2>1, StartedSlot
    <2> HIDE DEF t
    <2>4. Starts(f, t)
        BY <2>1, <2>2, <2>3 DEF Starts, Becomes, t
    <2>5. QED
        BY <2>4
<1>3. ASSUME RegisterUndo(f) \/ Unregister(f) PROVE \E t : Frees(f, t)
    <2>1. at[f] \in Slots /\ Mine(f) \in Slot
        BY <1>0, <1>3 DEF RegisterUndo, Unregister, Placed, Using, Mine
    <2>2. slot' = [slot EXCEPT ![at[f]] = [Mine(f) EXCEPT !.active = FALSE]]
        BY <1>3 DEF RegisterUndo, Unregister, Mine
    <2> DEFINE t == [Mine(f) EXCEPT !.active = FALSE]
    <2>3. /\ t \in Slot /\ SameQueues(Mine(f), t) /\ t.waiters = Mine(f).waiters /\ ~t.active
          /\ t.fd = Mine(f).fd /\ t.started = Mine(f).started /\ t.thread = Mine(f).thread
        BY <2>1, FlaggedSlot
    <2> HIDE DEF t
    <2>4. Frees(f, t)
        BY <2>1, <2>2, <2>3 DEF Frees, Becomes, t
    <2>5. QED
        BY <2>4
<1>4. ASSUME StopWriter(f) PROVE \E t : Stops(f, t)
    <2>1. at[f] \in Slots /\ Mine(f) \in Slot
        BY <1>0, <1>4 DEF StopWriter, Placed, Using, Mine
    <2> DEFINE s == [Mine(f) EXCEPT !.stop = TRUE]
    <2>2. s \in Slot /\ SameQueues(Mine(f), s) /\ s.waiters = Mine(f).waiters
          /\ SameSession(Mine(f), s)
        BY <2>1, FlaggedSlot
    <2>3. Signalled(at[f], s)
        BY <1>4 DEF StopWriter
    <2> HIDE DEF s
    <2>4. PICK t : /\ Becomes(at[f], t) /\ SameSession(s, t) /\ SameQueues(s, t)
                   /\ \/ writer' = writer /\ t.waiters = s.waiters
                      \/ \E w \in s.waiters : /\ t.waiters = s.waiters \ {w}
                                              /\ WriterGoto(w, "loop")
        BY <1>0, <2>1, <2>2, <2>3, SignalledSlot
    <2>5. SameSession(Mine(f), t) /\ SameQueues(Mine(f), t)
        BY <2>2, <2>4 DEF SameSession, SameQueues
    <2>6. QED
        BY <2>2, <2>4, <2>5 DEF Stops, Wakes
<1>5. ASSUME Join(f) PROVE \E t : Joins(f, t)
    <2>1. at[f] \in Slots /\ Mine(f) \in Slot
        BY <1>0, <1>5 DEF Join, Placed, Using, Mine
    <2>2. slot' = [slot EXCEPT ![at[f]] = [Mine(f) EXCEPT !.started = FALSE]]
        BY <1>5 DEF Join, Mine
    <2> DEFINE t == [Mine(f) EXCEPT !.started = FALSE]
    <2>3. /\ t \in Slot /\ SameQueues(Mine(f), t) /\ t.waiters = Mine(f).waiters
          /\ t.active = Mine(f).active /\ t.fd = Mine(f).fd /\ t.thread = Mine(f).thread
        BY <2>1, FlaggedSlot
    <2> HIDE DEF t
    <2>4. Joins(f, t)
        BY <2>1, <2>2, <2>3 DEF Joins, Becomes, t
    <2>5. QED
        BY <2>4
<1>6. QED
    BY <1>1, <1>2, <1>3, <1>4, <1>5

\* ... each step of a writer ...
LEMMA WriterEffects ==
    ASSUME TypeOK, Placed, NEW f \in Fds
    PROVE  /\ WriterStops(f) \/ WriterGivesUp(f) => \E t : Empties(f, t)
           /\ WriterWaits(f) => \E t : Sleeps(f, t, Mine(f).waiters \cup {f})
           /\ WriterWakes(f) => \E t : Sleeps(f, t, Mine(f).waiters \ {f})
           /\ WriterPops(f) => \E t, m : Pops(f, t, m)
<1>0. writer[f].pc # "none" => at[f] \in Slots /\ Mine(f) \in Slot /\ Mine(f).waiters \subseteq Fds
    BY DEF TypeOK, Placed, Mine, Slot
<1>1. ASSUME WriterStops(f) PROVE \E t : Empties(f, t)
    BY <1>0, <1>1, EmptiedSlot DEF WriterStops, Empties, Becomes, Mine
<1>2. ASSUME WriterGivesUp(f) PROVE \E t : Empties(f, t)
    BY <1>0, <1>2, EmptiedSlot DEF WriterGivesUp, Empties, Becomes, Mine
<1>3. ASSUME WriterWaits(f) PROVE \E t : Sleeps(f, t, Mine(f).waiters \cup {f})
    <2>1. slot' = [slot EXCEPT ![at[f]] = [Mine(f) EXCEPT !.waiters = Mine(f).waiters \cup {f}]]
        BY <1>3 DEF WriterWaits, Mine
    <2>2. Mine(f).waiters \cup {f} \in SUBSET Fds /\ Mine(f) \in Slot /\ at[f] \in Slots
        BY <1>0, <1>3 DEF WriterWaits
    <2>3. QED
        BY <2>1, <2>2, WaitersSlot DEF Sleeps, Becomes
<1>4. ASSUME WriterWakes(f) PROVE \E t : Sleeps(f, t, Mine(f).waiters \ {f})
    <2>1. slot' = [slot EXCEPT ![at[f]] = [Mine(f) EXCEPT !.waiters = Mine(f).waiters \ {f}]]
        BY <1>4 DEF WriterWakes, Mine
    <2>2. Mine(f).waiters \ {f} \in SUBSET Fds /\ Mine(f) \in Slot /\ at[f] \in Slots
        BY <1>0, <1>4 DEF WriterWakes
    <2>3. QED
        BY <2>1, <2>2, WaitersSlot DEF Sleeps, Becomes
<1>5. ASSUME WriterPops(f) PROVE \E t, m : Pops(f, t, m)
    <2>1. /\ at[f] \in Slots /\ Mine(f) \in Slot
          /\ Mine(f).ctrl \o Mine(f).tap # << >>
          /\ slot' = [slot EXCEPT ![at[f]] = Popped(Mine(f))]
          /\ writer' = [writer EXCEPT ![f] =
                          [pc |-> "sending", msg |-> Head(Mine(f).ctrl \o Mine(f).tap)]]
        BY <1>0, <1>5 DEF WriterPops, Mine
    <2> DEFINE t == Popped(Mine(f))
               m == Head(Mine(f).ctrl \o Mine(f).tap)
    <2>2. Pops(f, t, m)
        BY <2>1, PoppedSlot DEF Pops, Becomes
    <2>3. QED
        BY <2>2
<1>6. QED
    BY <1>1, <1>2, <1>3, <1>4, <1>5

\* ... and each message queued or dropped.
LEMMA QueueEffects ==
    ASSUME TypeOK, Placed, NEW i \in Slots
    PROVE  /\ EnqueueControl(i) => \E t, m : Queues(i, t, m)
           /\ \A flood \in BOOLEAN, now \in Seconds :
                 /\ DropTap(i, flood, now) => \E t : Drops(i, t)
                 /\ \A bytes \in Sizes :
                       EnqueueTap(i, bytes, flood, now) => \E t, m : Queues(i, t, m)
<1>0. slot[i] \in Slot /\ total \in Nat /\ writer \in [Fds -> Thread]
    BY DEF TypeOK
<1>1. Accepts(i) => slot[i].fd \in Fds
    BY DEF Accepts, Placed
<1>2. ASSUME EnqueueControl(i) PROVE \E t, m : Queues(i, t, m)
    <2> DEFINE m == [tap |-> FALSE, flood |-> FALSE, bytes |-> 0, for |-> slot[i].fd, n |-> total]
               s == [slot[i] EXCEPT !.ctrl = Append(@, m)]
    <2>1. Signalled(i, s) /\ total' = total + 1 /\ Accepts(i)
        BY <1>2 DEF EnqueueControl
    <2>2. m \in Message /\ m.for = slot[i].fd /\ m.n = total /\ ~m.tap
        BY <1>0, <1>1, <2>1 DEF Message
    <2> HIDE DEF m
    <2>3. /\ s \in Slot /\ SameSession(slot[i], s) /\ s.waiters = slot[i].waiters
          /\ s.ctrl = Append(slot[i].ctrl, m) /\ s.tap = slot[i].tap
          /\ s.pending = slot[i].pending
        BY <1>0, <2>2, QueuedControl
    <2> HIDE DEF s
    <2>4. PICK t : /\ Becomes(i, t) /\ SameSession(s, t) /\ SameQueues(s, t)
                   /\ \/ writer' = writer /\ t.waiters = s.waiters
                      \/ \E w \in s.waiters : /\ t.waiters = s.waiters \ {w}
                                              /\ WriterGoto(w, "loop")
        BY <1>0, <2>1, <2>3, SignalledSlot
    <2>5. SameSession(slot[i], t) /\ t.ctrl = s.ctrl /\ t.tap = s.tap /\ t.pending = s.pending
        BY <2>3, <2>4 DEF SameSession, SameQueues
    <2>6. QED
        BY <2>1, <2>2, <2>3, <2>4, <2>5 DEF Queues, Wakes
<1>3. ASSUME NEW flood \in BOOLEAN, NEW now \in Seconds, NEW bytes \in Sizes,
             EnqueueTap(i, bytes, flood, now)
      PROVE  \E t, m : Queues(i, t, m)
    <2> DEFINE v == InWindow(slot[i], flood, now)
               m == [tap |-> TRUE, flood |-> flood, bytes |-> bytes, for |-> v.fd, n |-> total]
               w == IF flood THEN v.winBytes + bytes ELSE v.winBytes
               s == [v EXCEPT !.tap = Append(@, m), !.pending = @ + bytes, !.winBytes = w]
    <2>0. bytes \in Nat /\ now \in Nat /\ Limit \in Nat
        BY WriterAssumption
    <2>1. /\ Signalled(i, s) /\ total' = total + 1 /\ Accepts(i)
          /\ ~(flood /\ OverBudget(v, bytes))
        BY <1>3 DEF EnqueueTap
    <2>2. v \in Slot /\ SameSession(slot[i], v) /\ SameQueues(slot[i], v)
          /\ v.waiters = slot[i].waiters
        BY <1>0, <2>0, WindowSlot
    <2> HIDE DEF v
    <2>3. v.fd = slot[i].fd /\ v.pending = slot[i].pending /\ v.pending \in Nat /\ w \in Nat
        BY <2>0, <2>2 DEF SameSession, SameQueues, Slot
    <2>4. /\ m \in Message /\ m.for = slot[i].fd /\ m.n = total /\ m.tap /\ m.bytes = bytes
          /\ m.flood = flood
        BY <1>0, <1>1, <2>0, <2>1, <2>3 DEF Message
    <2>5. m.flood => slot[i].pending + m.bytes <= Limit
        BY <2>0, <2>1, <2>3, <2>4 DEF OverBudget
    <2> HIDE DEF m, w
    <2>6. /\ s \in Slot /\ SameSession(v, s) /\ s.waiters = v.waiters
          /\ s.tap = Append(v.tap, m) /\ s.ctrl = v.ctrl /\ s.pending = v.pending + bytes
        <3>1. bytes \in Nat /\ v \in Slot /\ m \in Message /\ w \in Nat
            BY <2>0, <2>2, <2>3, <2>4
        <3>2. Append(v.tap, m) \in Seq(Message) /\ v.pending + bytes \in Nat
            BY <3>1 DEF Slot
        <3>3. QED
            BY <3>1, <3>2 DEF Slot, SameSession
    <2> HIDE DEF s
    <2>7. PICK t : /\ Becomes(i, t) /\ SameSession(s, t) /\ SameQueues(s, t)
                   /\ \/ writer' = writer /\ t.waiters = s.waiters
                      \/ \E x \in s.waiters : /\ t.waiters = s.waiters \ {x}
                                              /\ WriterGoto(x, "loop")
        BY <1>0, <2>1, <2>6, SignalledSlot
    <2>8. /\ SameSession(slot[i], t) /\ t.ctrl = slot[i].ctrl
          /\ t.tap = Append(slot[i].tap, m) /\ t.pending = slot[i].pending + m.bytes
        BY <2>2, <2>4, <2>6, <2>7 DEF SameSession, SameQueues
    <2>9. Wakes(slot[i], t)
        BY <2>2, <2>6, <2>7 DEF Wakes
    <2>10. QED
        BY <2>1, <2>4, <2>5, <2>7, <2>8, <2>9 DEF Queues
<1>4. ASSUME NEW flood \in BOOLEAN, NEW now \in Seconds, DropTap(i, flood, now)
      PROVE  \E t : Drops(i, t)
    <2>1. now \in Nat
        BY WriterAssumption
    <2>2. slot' = [slot EXCEPT ![i] = InWindow(slot[i], flood, now)]
        BY <1>4 DEF DropTap
    <2> DEFINE t == InWindow(slot[i], flood, now)
    <2>3. /\ t \in Slot /\ SameSession(slot[i], t) /\ SameQueues(slot[i], t)
          /\ t.waiters = slot[i].waiters
        BY <1>0, <2>1, WindowSlot
    <2> HIDE DEF t
    <2>4. Drops(i, t)
        BY <2>2, <2>3 DEF Drops, Becomes, t
    <2>5. QED
        BY <2>4
<1>5. QED
    BY <1>2, <1>3, <1>4

-----------------------------------------------------------------------------
(* The writer: types and places                                            *)

\* Who still waits after a wakeup waits where it did.
LEMMA WokenWaiters ==
    ASSUME TypeOK, Placed, NEW i \in Slots, NEW t, Woken(i, t), at' = at, slot'[i] = t,
           \A j \in Slots : j # i => slot'[j] = slot[j]
    PROVE  \A j \in Slots : \A w \in slot'[j].waiters : writer'[w].pc = "waiting" /\ at'[w] = j
<1>1. \A j \in Slots : slot[j].waiters \subseteq Fds
    BY DEF TypeOK, Slot
<1>2. ASSUME NEW j \in Slots, NEW w \in slot'[j].waiters
      PROVE  writer'[w].pc = "waiting" /\ at'[w] = j
    <2>1. w \in slot[j].waiters /\ w \in Fds
        BY <1>1 DEF Woken
    <2>2. writer[w].pc = "waiting" /\ at[w] = j
        BY <2>1 DEF Placed
    <2>3. writer'[w] = writer[w] \/ (at[w] = i /\ w \notin t.waiters)
        BY <2>1 DEF Woken
    <2>4. QED
        BY <1>2, <2>2, <2>3
<1>3. QED
    BY <1>2

\* Handlers keep the types and the places.
LEMMA HandlerPlaced ==
    ASSUME TypeOK, Placed, NEW f \in Fds, Register(f) \/ Loop(f) \/ Stop(f)
    PROVE  TypeOK' /\ Placed'
<1> DEFINE States == {"new", "starting", "live", "held", "leaving", "stopping", "joining",
                      "ending", "closed"}
<1>0. /\ slot \in [Slots -> Slot] /\ writer \in [Fds -> Thread] /\ pc \in [Fds -> States]
      /\ at \in [Fds -> Slots \cup {None}]
    BY DEF TypeOK
<1>9. ASSUME NEW l \in States, Goto(f, l)
      PROVE  /\ pc' \in [Fds -> States] /\ pc'[f] = l
             /\ \A g \in Fds : g # f => pc'[g] = pc[g]
    BY <1>0, <1>9 DEF Goto
<1>1. CASE RegisterClear(f)
    <2>1. PICK i, t : Clears(f, i, t)
        BY <1>1, HandlerEffects
    <2>2. /\ slot' \in [Slots -> Slot] /\ slot'[i] = t /\ i \in Slots
          /\ \A j \in Slots : j # i => slot'[j] = slot[j]
        BY <1>0, <2>1, ChangedSlot DEF Clears, Becomes
    <2>3. /\ pc[f] = "new" /\ hub' = f /\ writer' = writer /\ shut' = shut /\ wire' = wire
          /\ total' = total /\ pc' \in [Fds -> States] /\ pc'[f] = "starting"
          /\ \A g \in Fds : g # f => pc'[g] = pc[g]
        BY <1>1, <1>9 DEF RegisterClear
    <2>4. /\ at' \in [Fds -> Slots \cup {None}] /\ at'[f] = i
          /\ \A g \in Fds : g # f => at'[g] = at[g]
        BY <1>0, <2>1, <2>2 DEF Clears
    <2>5. recycled' \in BOOLEAN
        BY <2>1 DEF Clears
    <2>6. TypeOK'
        BY <2>2, <2>3, <2>4, <2>5 DEF TypeOK
    <2>7. Placed'
        BY <2>1, <2>2, <2>3, <2>4 DEF Placed, Clears
    <2>8. QED
        BY <2>6, <2>7
<1>2. CASE RegisterStart(f)
    <2>1. PICK t : Starts(f, t)
        BY <1>2, HandlerEffects
    <2>2. /\ slot' \in [Slots -> Slot] /\ slot'[at[f]] = t /\ at[f] \in Slots
          /\ \A j \in Slots : j # at[f] => slot'[j] = slot[j]
        BY <1>0, <2>1, ChangedSlot DEF Starts, Becomes
    <2>3. /\ pc[f] = "starting" /\ hub' = None /\ at' = at /\ shut' = shut /\ wire' = wire
          /\ total' = total /\ recycled' = recycled /\ pc' \in [Fds -> States] /\ pc'[f] = "live"
          /\ \A g \in Fds : g # f => pc'[g] = pc[g]
        BY <1>2, <1>9 DEF RegisterStart
    <2>4. /\ writer' \in [Fds -> Thread] /\ writer'[f].pc = "loop"
          /\ \A g \in Fds : g # f => writer'[g] = writer[g]
        BY <1>0, <1>2, ChangedWriter DEF RegisterStart
    <2>5. TypeOK'
        BY <2>2, <2>3, <2>4 DEF TypeOK
    <2>6. Placed'
        <3>1. writer[f].pc = "none" /\ t.waiters = slot[at[f]].waiters
              /\ (t.active => t.fd \in Fds)
            BY <2>1, <2>2, <2>3 DEF Placed, Starts, Mine
        <3>2. \A g \in Fds : /\ pc'[g] \in Using \/ writer'[g].pc # "none" => at'[g] \in Slots
                             /\ pc'[g] \in {"new", "starting"} => writer'[g].pc = "none"
                             /\ writer'[g].pc = "sending" => writer'[g].msg \in Message
            BY <2>2, <2>3, <2>4 DEF Placed, Using
        <3>3. \A i \in Slots : \A w \in slot'[i].waiters : w \in slot[i].waiters
            BY <2>2, <3>1
        <3>4. \A i \in Slots : \A w \in slot[i].waiters : w \in Fds /\ w # f
            BY <1>0, <3>1 DEF Placed, Slot
        <3>5. \A i \in Slots : \A w \in slot'[i].waiters : writer'[w].pc = "waiting" /\ at'[w] = i
            BY <2>3, <2>4, <3>3, <3>4 DEF Placed
        <3>6. \A i \in Slots : slot'[i].active => slot'[i].fd \in Fds
            BY <2>2, <3>1 DEF Placed
        <3>7. QED
            BY <3>2, <3>5, <3>6 DEF Placed
    <2>7. QED
        BY <2>5, <2>6
<1>3. CASE RegisterUndo(f) \/ Unregister(f)
    <2>1. PICK t : Frees(f, t)
        BY <1>3, HandlerEffects
    <2>2. /\ slot' \in [Slots -> Slot] /\ slot'[at[f]] = t /\ at[f] \in Slots
          /\ \A j \in Slots : j # at[f] => slot'[j] = slot[j]
        BY <1>0, <2>1, ChangedSlot DEF Frees, Becomes
    <2>3. /\ at' = at /\ shut' = shut /\ wire' = wire /\ writer' = writer
          /\ total' = total /\ recycled' = recycled /\ pc' \in [Fds -> States]
          /\ pc'[f] \in {"leaving", "closed"} /\ pc[f] \in {"starting", "live"}
          /\ hub' = None
          /\ \A g \in Fds : g # f => pc'[g] = pc[g]
        BY <1>3, <1>9 DEF RegisterUndo, Unregister
    <2>4. TypeOK'
        BY <2>2, <2>3 DEF TypeOK
    <2>5. Placed'
        BY <2>1, <2>2, <2>3 DEF Placed, Frees, Mine, Using
    <2>6. QED
        BY <2>4, <2>5
<1>4. CASE RegisterFull(f) \/ SendToClient(f) \/ SendEnds(f) \/ StopNothing(f) \/ ShutDown(f)
         \/ End(f)
    <2>1. /\ slot' = slot /\ at' = at /\ hub' = hub /\ shut' \subseteq Fds /\ wire' = wire
          /\ writer' = writer /\ total' = total /\ recycled' = recycled
          /\ pc' \in [Fds -> States]
          /\ pc'[f] \in {"closed", "ending"} \/ (pc'[f] \in Served /\ pc[f] \in Served)
          /\ pc[f] # "starting"
          /\ \A g \in Fds : g # f => pc'[g] = pc[g]
        <3> USE <1>0, <1>9 DEF TypeOK
        <3>1. CASE RegisterFull(f)
            BY <3>1 DEF RegisterFull
        <3>2. CASE StopNothing(f)
            BY <3>2 DEF StopNothing
        <3>6. CASE SendToClient(f) \/ SendEnds(f)
            BY <3>6 DEF SendToClient, SendEnds, Served
        <3>3. CASE ShutDown(f)
            <4>1. Mine(f).fd \in Fds \cup {None}
                BY <3>3 DEF ShutDown, Placed, Using, Mine, Slot
            <4>2. QED
                BY <3>3, <4>1 DEF ShutDown, Served
        <3>4. CASE End(f)
            BY <3>4 DEF End
        <3>5. QED
            BY <1>4, <3>1, <3>2, <3>3, <3>4, <3>6
    <2>2. TypeOK'
        BY <2>1 DEF TypeOK
    <2>3. Placed'
        BY <2>1 DEF Placed, Using, Served
    <2>4. QED
        BY <2>2, <2>3
<1>5. CASE StopWriter(f)
    <2>1. PICK t : Stops(f, t)
        BY <1>5, HandlerEffects
    <2>2. /\ slot' \in [Slots -> Slot] /\ slot'[at[f]] = t /\ at[f] \in Slots
          /\ \A j \in Slots : j # at[f] => slot'[j] = slot[j]
        BY <1>0, <2>1, ChangedSlot DEF Stops, Becomes
    <2>3. /\ pc[f] = "leaving" /\ hub' = hub /\ at' = at /\ shut' = shut /\ wire' = wire
          /\ total' = total /\ recycled' = recycled /\ pc' \in [Fds -> States]
          /\ pc'[f] = "stopping"
          /\ \A g \in Fds : g # f => pc'[g] = pc[g]
        BY <1>5, <1>9 DEF StopWriter
    <2>4. Woken(at[f], t)
        BY <1>0, <2>1, <2>2, WokenThread DEF Stops, Mine
    <2>5. TypeOK'
        BY <2>2, <2>3, <2>4 DEF TypeOK, Woken
    <2>6. Placed'
        <3>1. (t.active => t.fd \in Fds) /\ SameSession(slot[at[f]], t)
            BY <2>1, <2>2 DEF Placed, Stops, Mine, SameSession
        <3>2. \A g \in Fds : /\ pc'[g] \in Using \/ writer'[g].pc # "none" => at'[g] \in Slots
                             /\ pc'[g] \in {"new", "starting"} => writer'[g].pc = "none"
                             /\ writer'[g].pc = "sending" => writer'[g].msg \in Message
            BY <2>2, <2>3, <2>4 DEF Placed, Using, Woken
        <3>3. \A i \in Slots : \A w \in slot'[i].waiters : writer'[w].pc = "waiting" /\ at'[w] = i
            BY <1>0, <2>2, <2>3, <2>4, WokenWaiters
        <3>4. \A i \in Slots : slot'[i].active => slot'[i].fd \in Fds
            BY <2>2, <3>1 DEF Placed
        <3>5. QED
            BY <3>2, <3>3, <3>4 DEF Placed
    <2>7. QED
        BY <2>5, <2>6
<1>6. CASE Join(f)
    <2>1. PICK t : Joins(f, t)
        BY <1>6, HandlerEffects
    <2>2. /\ slot' \in [Slots -> Slot] /\ slot'[at[f]] = t /\ at[f] \in Slots
          /\ \A j \in Slots : j # at[f] => slot'[j] = slot[j]
        BY <1>0, <2>1, ChangedSlot DEF Joins, Becomes
    <2>3. /\ pc[f] = "joining" /\ hub' = hub /\ at' = at /\ shut' = shut /\ wire' = wire
          /\ writer' = writer
          /\ total' = total /\ recycled' = recycled /\ pc' \in [Fds -> States]
          /\ pc'[f] = "ending"
          /\ \A g \in Fds : g # f => pc'[g] = pc[g]
        BY <1>6, <1>9 DEF Join
    <2>5. TypeOK'
        BY <2>2, <2>3 DEF TypeOK
    <2>6. Placed'
        BY <2>1, <2>2, <2>3 DEF Placed, Joins, Mine, Using
    <2>7. QED
        BY <2>5, <2>6
<1>7. QED
    BY <1>1, <1>2, <1>3, <1>4, <1>5, <1>6 DEF Register, Loop, Stop

\* A step of a writer: its own place and slot change, the session does not.
LEMMA QuietlyPlaced ==
    ASSUME TypeOK, Placed, NEW f \in Fds, at[f] \in Slots, writer[f].pc # "none",
           pc' = pc, at' = at, slot' \in [Slots -> Slot],
           \A j \in Slots : j # at[f] => slot'[j] = slot[j],
           SameSession(slot[at[f]], slot'[at[f]]),
           writer'[f].pc \notin {"none"},
           writer'[f].pc = "sending" => writer'[f].msg \in Message,
           \A g \in Fds : g # f => writer'[g] = writer[g],
           \/ /\ slot'[at[f]].waiters = slot[at[f]].waiters
              /\ writer[f].pc # "waiting"
           \/ /\ slot'[at[f]].waiters = slot[at[f]].waiters \cup {f}
              /\ writer'[f].pc = "waiting"
           \/ slot'[at[f]].waiters = slot[at[f]].waiters \ {f}
    PROVE  Placed'
<1>1. \A i \in Slots : slot[i].waiters \subseteq Fds
    BY DEF TypeOK, Slot
<1>2. \A g \in Fds : /\ pc'[g] \in Using \/ writer'[g].pc # "none" => at'[g] \in Slots
                     /\ pc'[g] \in {"new", "starting"} => writer'[g].pc = "none"
                     /\ writer'[g].pc = "sending" => writer'[g].msg \in Message
    BY DEF Placed
<1>3. \A i \in Slots : slot'[i].active => slot'[i].fd \in Fds
    BY DEF Placed, SameSession
<1>4. ASSUME NEW i \in Slots, NEW w \in slot'[i].waiters
      PROVE  writer'[w].pc = "waiting" /\ at'[w] = i
    <2>1. CASE w # f
        BY <1>1, <1>4, <2>1 DEF Placed
    <2>2. CASE w = f
        <3>1. w \in slot[i].waiters => writer[f].pc = "waiting" /\ at[f] = i
            BY <2>2 DEF Placed
        <3>2. QED
            BY <1>4, <2>2, <3>1
    <2>3. QED
        BY <2>1, <2>2
<1>5. QED
    BY <1>2, <1>3, <1>4 DEF Placed

\* Writers keep them.
LEMMA WriterPlaced ==
    ASSUME TypeOK, Placed, NEW f \in Fds, Writer(f) \/ WriterWakes(f)
    PROVE  TypeOK' /\ Placed'
<1>0. /\ slot \in [Slots -> Slot] /\ writer \in [Fds -> Thread]
      /\ wire \in [Fds -> Seq(Message)]
    BY DEF TypeOK
<1>1. CASE WriterStops(f) \/ WriterGivesUp(f)
    <2>1. PICK t : Empties(f, t)
        BY <1>1, WriterEffects
    <2>2. /\ slot' \in [Slots -> Slot] /\ slot'[at[f]] = t /\ at[f] \in Slots
          /\ \A j \in Slots : j # at[f] => slot'[j] = slot[j]
        BY <1>0, <2>1, ChangedSlot DEF Empties, Becomes
    <2>3. /\ hub' = hub /\ pc' = pc /\ at' = at /\ shut' = shut /\ wire' = wire
          /\ total' = total /\ recycled' = recycled
          /\ writer[f].pc \in {"loop", "failing"} /\ WriterGoto(f, "done")
        BY <1>1 DEF WriterStops, WriterGivesUp
    <2>4. /\ writer' \in [Fds -> Thread] /\ writer'[f].pc = "done"
          /\ \A g \in Fds : g # f => writer'[g] = writer[g]
        BY <1>0, <2>3, ChangedWriter
    <2>5. TypeOK'
        BY <2>2, <2>3, <2>4 DEF TypeOK
    <2>6. Placed'
        <3>1. SameSession(slot[at[f]], t) /\ t.waiters = slot[at[f]].waiters
            BY <2>1 DEF Empties, Mine
        <3>2. QED
            BY <2>2, <2>3, <2>4, <3>1, QuietlyPlaced
    <2>7. QED
        BY <2>5, <2>6
<1>2. CASE WriterWaits(f)
    <2>1. PICK t : Sleeps(f, t, Mine(f).waiters \cup {f})
        BY <1>2, WriterEffects
    <2>2. /\ slot' \in [Slots -> Slot] /\ slot'[at[f]] = t /\ at[f] \in Slots
          /\ \A j \in Slots : j # at[f] => slot'[j] = slot[j]
        BY <1>0, <2>1, ChangedSlot DEF Sleeps, Becomes
    <2>3. /\ hub' = hub /\ pc' = pc /\ at' = at /\ shut' = shut /\ wire' = wire
          /\ total' = total /\ recycled' = recycled
          /\ writer[f].pc = "loop" /\ WriterGoto(f, "waiting")
        BY <1>2 DEF WriterWaits
    <2>4. /\ writer' \in [Fds -> Thread] /\ writer'[f].pc = "waiting"
          /\ \A g \in Fds : g # f => writer'[g] = writer[g]
        BY <1>0, <2>3, ChangedWriter
    <2>5. TypeOK'
        BY <2>2, <2>3, <2>4 DEF TypeOK
    <2>6. Placed'
        <3>1. SameSession(slot[at[f]], t) /\ t.waiters = slot[at[f]].waiters \cup {f}
            BY <2>1 DEF Sleeps, Mine
        <3>2. QED
            BY <2>2, <2>3, <2>4, <3>1, QuietlyPlaced
    <2>7. QED
        BY <2>5, <2>6
<1>3. CASE WriterWakes(f)
    <2>1. PICK t : Sleeps(f, t, Mine(f).waiters \ {f})
        BY <1>3, WriterEffects
    <2>2. /\ slot' \in [Slots -> Slot] /\ slot'[at[f]] = t /\ at[f] \in Slots
          /\ \A j \in Slots : j # at[f] => slot'[j] = slot[j]
        BY <1>0, <2>1, ChangedSlot DEF Sleeps, Becomes
    <2>3. /\ hub' = hub /\ pc' = pc /\ at' = at /\ shut' = shut /\ wire' = wire
          /\ total' = total /\ recycled' = recycled
          /\ writer[f].pc = "waiting" /\ WriterGoto(f, "loop")
        BY <1>3 DEF WriterWakes
    <2>4. /\ writer' \in [Fds -> Thread] /\ writer'[f].pc = "loop"
          /\ \A g \in Fds : g # f => writer'[g] = writer[g]
        BY <1>0, <2>3, ChangedWriter
    <2>5. TypeOK'
        BY <2>2, <2>3, <2>4 DEF TypeOK
    <2>6. Placed'
        <3>1. SameSession(slot[at[f]], t) /\ t.waiters = slot[at[f]].waiters \ {f}
            BY <2>1 DEF Sleeps, Mine
        <3>2. QED
            BY <2>2, <2>3, <2>4, <3>1, QuietlyPlaced
    <2>7. QED
        BY <2>5, <2>6
<1>4. CASE WriterPops(f)
    <2>1. PICK t, m : Pops(f, t, m)
        BY <1>4, WriterEffects
    <2>2. /\ slot' \in [Slots -> Slot] /\ slot'[at[f]] = t /\ at[f] \in Slots
          /\ \A j \in Slots : j # at[f] => slot'[j] = slot[j]
        BY <1>0, <2>1, ChangedSlot DEF Pops, Becomes
    <2>3. /\ hub' = hub /\ pc' = pc /\ at' = at /\ shut' = shut /\ wire' = wire
          /\ total' = total /\ recycled' = recycled /\ writer[f].pc = "loop"
        BY <1>4 DEF WriterPops
    <2>4. /\ writer' \in [Fds -> Thread] /\ writer'[f].pc = "sending" /\ writer'[f].msg \in Message
          /\ \A g \in Fds : g # f => writer'[g] = writer[g]
        BY <1>0, <2>1 DEF Pops, Thread
    <2>5. TypeOK'
        BY <2>2, <2>3, <2>4 DEF TypeOK
    <2>6. Placed'
        <3>1. SameSession(slot[at[f]], t) /\ t.waiters = slot[at[f]].waiters
            BY <2>1 DEF Pops, Mine
        <3>2. QED
            BY <2>2, <2>3, <2>4, <3>1, QuietlyPlaced
    <2>7. QED
        BY <2>5, <2>6
<1>5. CASE WriterSends(f) \/ WriterTouches(f) \/ WriterFails(f)
    <2>1. at[f] \in Slots /\ Mine(f) \in Slot
        BY <1>0, <1>5 DEF WriterSends, WriterTouches, WriterFails, Placed, Mine
    <2>2. /\ hub' = hub /\ pc' = pc /\ at' = at /\ slot' = slot
          /\ total' = total /\ recycled' = recycled /\ shut' \subseteq Fds
        BY <1>5, <2>1 DEF WriterSends, WriterTouches, WriterFails, TypeOK, Slot
    <2>3. /\ writer' \in [Fds -> Thread] /\ writer'[f].pc \in {"touching", "loop", "failing"}
          /\ \A g \in Fds : g # f => writer'[g] = writer[g]
          /\ writer[f].pc \in {"sending", "touching"}
        <3>1. CASE WriterTouches(f)
            <4>1. WriterGoto(f, "loop") /\ writer[f].pc = "touching"
                BY <3>1 DEF WriterTouches
            <4>2. QED
                BY <1>0, <4>1, ChangedWriter
        <3>2. CASE WriterSends(f)
            BY <1>0, <3>2 DEF WriterSends, Thread
        <3>3. CASE WriterFails(f)
            BY <1>0, <3>3 DEF WriterFails, Thread
        <3>4. QED
            BY <1>5, <3>1, <3>2, <3>3
    <2>4. wire' \in [Fds -> Seq(Message)]
        <3>1. CASE WriterSends(f)
            <4>1. /\ Mine(f).fd \in Fds /\ writer[f].msg \in Message
                  /\ wire' = [wire EXCEPT ![Mine(f).fd] = Append(@, writer[f].msg)]
                BY <2>1, <3>1 DEF WriterSends, Placed, Slot
            <4>2. QED
                BY <1>0, <4>1
        <3>2. QED
            BY <1>0, <1>5, <3>1 DEF WriterTouches, WriterFails
    <2>5. TypeOK'
        BY <2>2, <2>3, <2>4 DEF TypeOK
    <2>6. Placed'
        <3>1. SameSession(slot[at[f]], slot'[at[f]]) /\ slot'[at[f]].waiters = slot[at[f]].waiters
            BY <2>2 DEF SameSession
        <3>2. slot' \in [Slots -> Slot] /\ \A j \in Slots : j # at[f] => slot'[j] = slot[j]
            BY <1>0, <2>2
        <3>3. QED
            BY <2>1, <2>2, <2>3, <3>1, <3>2, QuietlyPlaced
    <2>7. QED
        BY <2>5, <2>6
<1>6. QED
    BY <1>1, <1>2, <1>3, <1>4, <1>5 DEF Writer

\* Who queues a message keeps them, and touches nothing else.
LEMMA QueuePlaced ==
    ASSUME TypeOK, Placed, NEW i \in Slots,
           \/ EnqueueControl(i)
           \/ \E flood \in BOOLEAN, now \in Seconds :
                 DropTap(i, flood, now) \/ \E bytes \in Sizes : EnqueueTap(i, bytes, flood, now)
    PROVE  /\ TypeOK' /\ Placed'
           /\ hub' = hub /\ pc' = pc /\ at' = at /\ shut' = shut /\ wire' = wire
           /\ recycled' = recycled
           /\ \/ (\E t : Drops(i, t)) /\ writer' = writer /\ total' = total
              \/ \E t, m : Queues(i, t, m)
<1>0. slot \in [Slots -> Slot] /\ total \in Nat
    BY DEF TypeOK
<1>1. /\ hub' = hub /\ pc' = pc /\ at' = at /\ shut' = shut /\ wire' = wire
      /\ recycled' = recycled
    BY DEF EnqueueControl, EnqueueTap, DropTap
<1>2. \/ (\E t : Drops(i, t)) /\ writer' = writer /\ total' = total
      \/ \E t, m : Queues(i, t, m)
    <2>1. CASE EnqueueControl(i)
        BY <2>1, QueueEffects
    <2>2. ASSUME NEW flood \in BOOLEAN, NEW now \in Seconds, DropTap(i, flood, now)
          PROVE  (\E t : Drops(i, t)) /\ writer' = writer /\ total' = total
        BY <2>2, QueueEffects DEF DropTap
    <2>3. ASSUME NEW flood \in BOOLEAN, NEW now \in Seconds, NEW bytes \in Sizes,
                 EnqueueTap(i, bytes, flood, now)
          PROVE  \E t, m : Queues(i, t, m)
        BY <2>3, QueueEffects
    <2>4. QED
        BY <2>1, <2>2, <2>3
<1>3. ASSUME NEW t, Becomes(i, t), SameSession(slot[i], t), Woken(i, t), total' \in Nat
      PROVE  TypeOK' /\ Placed'
    <2>1. /\ slot' \in [Slots -> Slot] /\ slot'[i] = t
          /\ \A j \in Slots : j # i => slot'[j] = slot[j]
        BY <1>0, <1>3, ChangedSlot
    <2>2. TypeOK'
        BY <1>1, <1>3, <2>1 DEF TypeOK, Woken
    <2>3. \A j \in Slots : \A w \in slot'[j].waiters : writer'[w].pc = "waiting" /\ at'[w] = j
        BY <1>1, <1>3, <2>1, WokenWaiters
    <2>4. \A j \in Slots : slot'[j].active => slot'[j].fd \in Fds
        BY <1>3, <2>1 DEF Placed, SameSession
    <2>5. /\ \A g \in Fds : pc'[g] \in Using \/ writer'[g].pc # "none" => at'[g] \in Slots
          /\ \A g \in Fds : pc'[g] \in {"new", "starting"} => writer'[g].pc = "none"
          /\ \A g \in Fds : writer'[g].pc = "sending" => writer'[g].msg \in Message
        BY <1>1, <1>3 DEF Placed, Woken
    <2>6. QED
        BY <2>2, <2>3, <2>4, <2>5 DEF Placed
<1>4. ASSUME NEW t, Drops(i, t), writer' = writer, total' = total
      PROVE  TypeOK' /\ Placed'
    <2>1. Wakes(slot[i], t)
        BY <1>4 DEF Drops, Wakes
    <2>2. QED
        BY <1>0, <1>3, <1>4, <2>1, WokenThread DEF Drops
<1>5. ASSUME NEW t, NEW m, Queues(i, t, m)
      PROVE  TypeOK' /\ Placed'
    BY <1>0, <1>3, <1>5, WokenThread DEF Queues
<1>6. QED
    BY <1>1, <1>2, <1>4, <1>5

\* So every step keeps them.
LEMMA NextPlaced == TypeOK /\ Placed /\ [Next]_vars => TypeOK' /\ Placed'
<1> SUFFICES ASSUME TypeOK, Placed, [Next]_vars PROVE TypeOK' /\ Placed'
    OBVIOUS
<1>1. CASE UNCHANGED vars
    BY <1>1 DEF TypeOK, Placed, vars
<1>2. ASSUME NEW f \in Fds,
             Register(f) \/ Writer(f) \/ WriterWakes(f) \/ Loop(f) \/ Stop(f)
      PROVE  TypeOK' /\ Placed'
    BY <1>2, HandlerPlaced, WriterPlaced
<1>3. ASSUME NEW i \in Slots,
             \/ EnqueueControl(i)
             \/ \E flood \in BOOLEAN, now \in Seconds :
                   DropTap(i, flood, now) \/ \E bytes \in Sizes : EnqueueTap(i, bytes, flood, now)
      PROVE  TypeOK' /\ Placed'
    BY <1>3, QueuePlaced
<1>4. QED
    BY <1>1, <1>2, <1>3 DEF Next, Finished

\* They hold at the start.
LEMMA InitPlaced == Init => TypeOK /\ Placed
<1> SUFFICES ASSUME Init PROVE TypeOK /\ Placed
    OBVIOUS
<1>1. << >> \in Seq(Message)
    OBVIOUS
<1>2. Cleared({}) \in Slot /\ ~Cleared({}).active /\ Cleared({}).waiters = {}
    BY <1>1 DEF Cleared, Slot
<1>3. [pc |-> "none", msg |-> None] \in Thread
    BY DEF Thread
<1>4. TypeOK
    BY <1>1, <1>2, <1>3 DEF Init, TypeOK
<1>5. Placed
    BY <1>2 DEF Init, Placed, Using
<1>6. QED
    BY <1>4, <1>5

-----------------------------------------------------------------------------
(* The writer: who owns a slot                                             *)

\* As long as no slot was taken too early, a handler that uses a slot finds its
\* own session there, active until it leaves, with its own thread until it has
\* joined it; after that its writer is gone.
Owned ==
    \A f \in Fds :
       /\ pc[f] \in Using => slot[at[f]].fd = f
       /\ pc[f] \in {"starting", "live", "held"} => slot[at[f]].active
       /\ pc[f] \in Served => slot[at[f]].started /\ slot[at[f]].thread = f
       /\ pc[f] \in {"ending", "closed"} => writer[f].pc \in {"none", "done"}

ThreadInv == recycled \/ Owned

\* No other handler uses the slot of one that does.
LEMMA OwnSlot ==
    ASSUME Owned, NEW f \in Fds, NEW g \in Fds, g # f, pc[f] \in Using, pc[g] \in Using
    PROVE  at[g] # at[f]
BY DEF Owned

\* Handlers keep ThreadInv: a slot that another handler still uses is taken only
\* by a step that sets `recycled'; the slot is left after the join, and not before.
LEMMA HandlerOwned ==
    ASSUME TypeOK, Placed, ThreadInv, NEW f \in Fds, Register(f) \/ Loop(f) \/ Stop(f)
    PROVE  ThreadInv'
<1> DEFINE States == {"new", "starting", "live", "held", "leaving", "stopping", "joining",
                      "ending", "closed"}
<1>0. /\ slot \in [Slots -> Slot] /\ writer \in [Fds -> Thread] /\ pc \in [Fds -> States]
      /\ at \in [Fds -> Slots \cup {None}] /\ recycled \in BOOLEAN
    BY DEF TypeOK
<1>9. ASSUME NEW l \in States, Goto(f, l)
      PROVE  pc'[f] = l /\ \A g \in Fds : g # f => pc'[g] = pc[g]
    BY <1>0, <1>9 DEF Goto
<1>1. CASE RegisterClear(f)
    <2>1. PICK i, t : Clears(f, i, t)
        BY <1>1, HandlerEffects
    <2>2. /\ slot'[i] = t /\ i \in Slots
          /\ \A j \in Slots : j # i => slot'[j] = slot[j]
        BY <1>0, <2>1, ChangedSlot DEF Clears, Becomes
    <2>3. /\ writer' = writer /\ pc'[f] = "starting"
          /\ \A g \in Fds : g # f => pc'[g] = pc[g]
          /\ at'[f] = i /\ \A g \in Fds : g # f => at'[g] = at[g]
        BY <1>0, <1>1, <1>9, <2>1, <2>2 DEF RegisterClear, Clears
    <2>4. SUFFICES ASSUME ~recycled' PROVE Owned'
        BY DEF ThreadInv
    <2>5. Owned /\ StillUses(i) = {} /\ ~slot[i].active
        BY <2>1, <2>4 DEF Clears, ThreadInv
    <2>6. \A g \in Fds : g # f /\ pc[g] \in Using => at[g] # i /\ at[g] \in Slots
        BY <2>5 DEF StillUses, Owned, Using, Placed
    <2>7. ASSUME NEW g \in Fds, g # f
          PROVE  pc'[g] \in Using => slot'[at'[g]] = slot[at[g]]
        BY <2>2, <2>3, <2>6, <2>7
    <2>8. t.fd = f /\ t.active
        BY <2>1 DEF Clears
    <2>9. QED
        BY <2>2, <2>3, <2>5, <2>7, <2>8 DEF Owned, Using, Served
<1>2. ASSUME at' = at, recycled' = recycled, at[f] \in Slots,
             NEW t, Becomes(at[f], t), t.fd = Mine(f).fd,
             pc[f] \in Using, \A g \in Fds : g # f => pc'[g] = pc[g],
             \A g \in Fds : writer'[g].pc = writer[g].pc \/ (writer'[g].pc = "loop" /\
                                (writer[g].pc = "waiting" \/ pc'[g] \in Served)),
             pc'[f] \in {"starting", "live", "held"} => t.active,
             ~recycled /\ pc'[f] \in Served => t.started /\ t.thread = f,
             ~recycled /\ pc'[f] \in {"ending", "closed"} => writer'[f].pc \in {"none", "done"}
      PROVE  ThreadInv'
    <2>1. /\ slot'[at[f]] = t
          /\ \A j \in Slots : j # at[f] => slot'[j] = slot[j]
        BY <1>0, <1>2, ChangedSlot
    <2>2. SUFFICES ASSUME ~recycled' PROVE Owned'
        BY DEF ThreadInv
    <2>3. Owned
        BY <1>2, <2>2 DEF ThreadInv
    <2>4. \A g \in Fds : g # f /\ pc[g] \in Using => at[g] # at[f] /\ at[g] \in Slots
        BY <1>2, <2>3, OwnSlot DEF Placed
    <2>5. ASSUME NEW g \in Fds, g # f
          PROVE  /\ pc'[g] = pc[g] /\ (pc'[g] \in Using => slot'[at'[g]] = slot[at[g]])
                 /\ pc'[g] \in {"ending", "closed"} => writer'[g].pc \in {"none", "done"}
        BY <1>2, <2>1, <2>3, <2>4, <2>5 DEF Owned, Served
    <2>6. /\ pc'[f] \in Using => slot'[at'[f]].fd = f
          /\ pc'[f] \in {"starting", "live", "held"} => slot'[at'[f]].active
          /\ pc'[f] \in Served => slot'[at'[f]].started /\ slot'[at'[f]].thread = f
          /\ pc'[f] \in {"ending", "closed"} => writer'[f].pc \in {"none", "done"}
        BY <1>2, <2>1, <2>2, <2>3 DEF Owned, Mine
    <2>7. QED
        BY <2>3, <2>5, <2>6 DEF Owned, Using, Served
<1>3. CASE RegisterStart(f)
    <2>1. PICK t : Starts(f, t)
        BY <1>3, HandlerEffects
    <2>2. /\ pc[f] = "starting" /\ at' = at /\ recycled' = recycled /\ pc'[f] = "live"
          /\ \A g \in Fds : g # f => pc'[g] = pc[g]
        BY <1>3, <1>9 DEF RegisterStart
    <2>3. /\ writer'[f].pc = "loop"
          /\ \A g \in Fds : g # f => writer'[g] = writer[g]
        BY <1>0, <1>3, ChangedWriter DEF RegisterStart
    <2>4. recycled \/ t.active
        BY <2>1, <2>2 DEF ThreadInv, Owned, Starts, Mine
    <2>5. CASE recycled
        BY <2>2, <2>5 DEF ThreadInv
    <2>6. CASE t.active
        BY <1>2, <2>1, <2>2, <2>3, <2>6 DEF Starts, Using, Served, Becomes
    <2>7. QED
        BY <2>4, <2>5, <2>6
<1>4. CASE RegisterUndo(f) \/ Unregister(f)
    <2>1. PICK t : Frees(f, t)
        BY <1>4, HandlerEffects
    <2>2. /\ at' = at /\ recycled' = recycled /\ writer' = writer
          /\ \/ pc[f] = "starting" /\ pc'[f] = "closed"
             \/ pc[f] = "live" /\ pc'[f] = "leaving"
          /\ \A g \in Fds : g # f => pc'[g] = pc[g]
        BY <1>4, <1>9 DEF RegisterUndo, Unregister
    <2>3. pc[f] = "starting" => writer[f].pc = "none"
        BY DEF Placed
    <2>4. ~recycled /\ pc[f] = "live" => Mine(f).started /\ Mine(f).thread = f
        BY DEF ThreadInv, Owned, Served, Mine
    <2>5. QED
        BY <1>2, <2>1, <2>2, <2>3, <2>4 DEF Frees, Using, Served, Becomes
<1>5. CASE StopWriter(f)
    <2>1. PICK t : Stops(f, t)
        BY <1>5, HandlerEffects
    <2>2. /\ pc[f] = "leaving" /\ at' = at /\ recycled' = recycled /\ pc'[f] = "stopping"
          /\ \A g \in Fds : g # f => pc'[g] = pc[g]
        BY <1>5, <1>9 DEF StopWriter
    <2>3. Woken(at[f], t)
        BY <2>1, WokenThread DEF Stops, Becomes, Mine
    <2>4. ~recycled => Mine(f).started /\ Mine(f).thread = f
        BY <2>2 DEF ThreadInv, Owned, Served, Mine
    <2>5. QED
        BY <1>2, <2>1, <2>2, <2>3, <2>4 DEF Stops, SameSession, Woken, Using, Served, Becomes
<1>6. CASE Join(f)
    <2>1. PICK t : Joins(f, t)
        BY <1>6, HandlerEffects
    <2>2. /\ pc[f] = "joining" /\ at' = at /\ recycled' = recycled /\ writer' = writer
          /\ pc'[f] = "ending" /\ writer[Mine(f).thread].pc = "done"
          /\ \A g \in Fds : g # f => pc'[g] = pc[g]
        BY <1>6, <1>9 DEF Join
    <2>3. ~recycled => writer[f].pc = "done"
        BY <2>2 DEF ThreadInv, Owned, Served, Mine
    <2>4. QED
        BY <1>2, <2>1, <2>2, <2>3 DEF Joins, Using, Served, Becomes
<1>7. CASE RegisterFull(f) \/ SendToClient(f) \/ SendEnds(f) \/ StopNothing(f) \/ ShutDown(f)
         \/ End(f)
    <2>1. /\ at' = at /\ slot' = slot /\ writer' = writer /\ recycled' = recycled
          /\ \A g \in Fds : g # f => pc'[g] = pc[g]
          /\ \/ pc[f] = "new" /\ pc'[f] = "closed"
             \/ pc[f] = "leaving" /\ ~Mine(f).started
             \/ pc[f] = "stopping" /\ pc'[f] = "joining"
             \/ {pc[f], pc'[f]} \subseteq {"live", "held"}
             \/ pc[f] = "ending" /\ pc'[f] = "closed"
        BY <1>7, <1>9 DEF RegisterFull, SendToClient, SendEnds, StopNothing, ShutDown, End
    <2>2. QED
        BY <2>1 DEF ThreadInv, Owned, Using, Served, Placed, Mine
<1>8. QED
    BY <1>1, <1>3, <1>4, <1>5, <1>6, <1>7 DEF Register, Loop, Stop

\* Steps of writers and of those who queue leave sessions and handlers alone.
SessionsStay ==
    /\ pc' = pc /\ at' = at /\ recycled' = recycled
    /\ \A i \in Slots : SameSession(slot[i], slot'[i])
    /\ \A f \in Fds : writer'[f].pc = writer[f].pc \/ writer[f].pc \notin {"none", "done"}

\* Steps that leave them alone keep ThreadInv.
LEMMA StayOwned ==
    ASSUME Placed, ThreadInv, SessionsStay
    PROVE  ThreadInv'
<1>1. SUFFICES ASSUME ~recycled' PROVE Owned'
    BY DEF ThreadInv
<1>2. Owned
    BY <1>1 DEF ThreadInv, SessionsStay
<1>3. ASSUME NEW f \in Fds
      PROVE  /\ pc'[f] \in Using => slot'[at'[f]].fd = f
             /\ pc'[f] \in {"starting", "live", "held"} => slot'[at'[f]].active
             /\ pc'[f] \in Served => slot'[at'[f]].started /\ slot'[at'[f]].thread = f
    <2>1. pc[f] \in Using => at[f] \in Slots /\ SameSession(slot[at[f]], slot'[at[f]])
        BY DEF SessionsStay, Placed
    <2>2. QED
        BY <1>2, <2>1 DEF SessionsStay, Owned, SameSession, Using, Served
<1>4. ASSUME NEW f \in Fds, pc'[f] \in {"ending", "closed"}
      PROVE  writer'[f].pc \in {"none", "done"}
    BY <1>2, <1>4 DEF SessionsStay, Owned
<1>5. QED
    BY <1>3, <1>4 DEF Owned

\* A slot that changed, with the same session in it.
LEMMA SessionStays ==
    ASSUME slot \in [Slots -> Slot], NEW i, NEW t, Becomes(i, t), SameSession(slot[i], t)
    PROVE  \A j \in Slots : SameSession(slot[j], slot'[j])
<1>1. slot'[i] = t /\ \A j \in Slots : j # i => slot'[j] = slot[j]
    BY ChangedSlot
<1>2. QED
    BY <1>1 DEF SameSession

\* Steps of writers are such steps.
LEMMA WriterStays ==
    ASSUME TypeOK, Placed, NEW f \in Fds, Writer(f) \/ WriterWakes(f)
    PROVE  SessionsStay
<1>0. slot \in [Slots -> Slot] /\ writer \in [Fds -> Thread]
    BY DEF TypeOK
<1>1. /\ pc' = pc /\ at' = at /\ recycled' = recycled
      /\ writer[f].pc \notin {"none", "done"}
      /\ \A g \in Fds : g # f => writer'[g] = writer[g]
    <2>1. ASSUME NEW l, WriterGoto(f, l) PROVE \A g \in Fds : g # f => writer'[g] = writer[g]
        BY <1>0, <2>1 DEF WriterGoto
    <2>2. QED
        BY <1>0, <2>1 DEF Writer, WriterStops, WriterWaits, WriterPops, WriterSends, WriterTouches,
            WriterFails, WriterGivesUp, WriterWakes
<1>2. slot' = slot \/ \E t : Becomes(at[f], t) /\ SameSession(slot[at[f]], t)
    <2>1. CASE WriterSends(f) \/ WriterTouches(f) \/ WriterFails(f)
        BY <2>1 DEF WriterSends, WriterTouches, WriterFails
    <2>2. CASE WriterStops(f) \/ WriterGivesUp(f)
        BY <2>2, WriterEffects DEF Empties, Mine
    <2>3. CASE WriterWaits(f)
        BY <2>3, WriterEffects DEF Sleeps, Mine
    <2>4. CASE WriterWakes(f)
        BY <2>4, WriterEffects DEF Sleeps, Mine
    <2>5. CASE WriterPops(f)
        BY <2>5, WriterEffects DEF Pops, Mine
    <2>6. QED
        BY <2>1, <2>2, <2>3, <2>4, <2>5 DEF Writer
<1>3. \A i \in Slots : SameSession(slot[i], slot'[i])
    <2>1. CASE slot' = slot
        BY <2>1 DEF SameSession
    <2>2. QED
        BY <1>0, <1>2, <2>1, SessionStays
<1>4. QED
    BY <1>1, <1>3 DEF SessionsStay

\* So are those that queue or drop a message.
LEMMA QueueStays ==
    ASSUME TypeOK, Placed, NEW i \in Slots,
           \/ EnqueueControl(i)
           \/ \E flood \in BOOLEAN, now \in Seconds :
                 DropTap(i, flood, now) \/ \E bytes \in Sizes : EnqueueTap(i, bytes, flood, now)
    PROVE  SessionsStay
<1>0. slot \in [Slots -> Slot] /\ slot' \in [Slots -> Slot]
    BY QueuePlaced DEF TypeOK
<1>1. /\ pc' = pc /\ at' = at /\ recycled' = recycled
      /\ \/ (\E t : Drops(i, t)) /\ writer' = writer
         \/ \E t, m : Queues(i, t, m)
    BY QueuePlaced
<1>2. CASE (\E t : Drops(i, t)) /\ writer' = writer
    BY <1>0, <1>1, <1>2, SessionStays DEF Drops, SessionsStay
<1>3. ASSUME NEW t, NEW m, Queues(i, t, m)
      PROVE  SessionsStay
    <2>1. Woken(i, t)
        BY <1>3, WokenThread DEF Queues
    <2>2. \A g \in Fds : writer'[g].pc = writer[g].pc \/ writer[g].pc \notin {"none", "done"}
        BY <2>1 DEF Woken
    <2>3. \A j \in Slots : SameSession(slot[j], slot'[j])
        BY <1>0, <1>3, SessionStays DEF Queues
    <2>4. QED
        BY <1>1, <2>2, <2>3 DEF SessionsStay
<1>4. QED
    BY <1>1, <1>2, <1>3

\* So every step keeps ThreadInv.
LEMMA NextOwned == TypeOK /\ Placed /\ ThreadInv /\ [Next]_vars => ThreadInv'
<1> SUFFICES ASSUME TypeOK, Placed, ThreadInv, [Next]_vars PROVE ThreadInv'
    OBVIOUS
<1>1. CASE UNCHANGED vars
    BY <1>1 DEF ThreadInv, Owned, vars
<1>2. ASSUME NEW f \in Fds, Register(f) \/ Loop(f) \/ Stop(f)
      PROVE  ThreadInv'
    BY <1>2, HandlerOwned
<1>3. ASSUME NEW f \in Fds, Writer(f) \/ WriterWakes(f)
      PROVE  ThreadInv'
    BY <1>3, WriterStays, StayOwned
<1>4. ASSUME NEW i \in Slots,
             \/ EnqueueControl(i)
             \/ \E flood \in BOOLEAN, now \in Seconds :
                   DropTap(i, flood, now) \/ \E bytes \in Sizes : EnqueueTap(i, bytes, flood, now)
      PROVE  ThreadInv'
    BY <1>4, QueueStays, StayOwned
<1>5. QED
    BY <1>1, <1>2, <1>3, <1>4 DEF Next, Finished

-----------------------------------------------------------------------------
(* The writer: the budget of floods                                        *)

\* The terms of Bytes and FloodedBytes.
Weight(q) == [k \in DOMAIN q |-> q[k].bytes]
FloodWeight(q) == [k \in DOMAIN q |-> IF q[k].flood THEN q[k].bytes ELSE 0]

\* An empty queue has no bytes.
LEMMA BytesEmpty == Bytes(<< >>) = 0 /\ FloodedBytes(<< >>) = 0
<1>1. [k \in DOMAIN << >> |-> << >>[k].bytes] = << >>
      /\ [k \in DOMAIN << >> |-> IF << >>[k].flood THEN << >>[k].bytes ELSE 0] = << >>
    OBVIOUS
<1>2. QED
    BY <1>1, SumEmpty DEF Bytes, FloodedBytes

\* The sizes of a queue's messages are numbers ...
LEMMA Weights ==
    ASSUME NEW q \in Seq(Message)
    PROVE  /\ Weight(q) \in Seq(Nat) /\ FloodWeight(q) \in Seq(Nat)
           /\ Len(Weight(q)) = Len(q) /\ Len(FloodWeight(q)) = Len(q)
           /\ \A k \in 1..Len(q) : /\ q[k] \in Message
                                   /\ Weight(q)[k] = q[k].bytes
                                   /\ FloodWeight(q)[k] = IF q[k].flood THEN q[k].bytes ELSE 0
<1>1. ASSUME NEW k \in 1..Len(q)
      PROVE  q[k] \in Message /\ q[k].bytes \in Nat
    <2>1. q[k] \in Message
        OBVIOUS
    <2>2. \A m \in Message : m.bytes \in Nat
        BY DEF Message
    <2>3. QED
        BY <2>1, <2>2
<1>2. DOMAIN q = 1..Len(q) /\ Len(q) \in Nat
    OBVIOUS
<1>3. Weight(q) \in [1..Len(q) -> Nat] /\ FloodWeight(q) \in [1..Len(q) -> Nat]
    BY <1>1, <1>2 DEF Weight, FloodWeight
<1>4. QED
    BY <1>1, <1>2, <1>3 DEF Weight, FloodWeight

\* ... namely these.
LEMMA WeightAt ==
    ASSUME NEW q \in Seq(Message), NEW k \in 1..Len(q)
    PROVE  /\ q[k] \in Message /\ q[k].bytes \in Nat
           /\ Weight(q)[k] = q[k].bytes
           /\ FloodWeight(q)[k] = IF q[k].flood THEN q[k].bytes ELSE 0
<1>1. q[k] \in Message
    OBVIOUS
<1>2. q[k].bytes \in Nat
    BY <1>1 DEF Message
<1>3. QED
    BY <1>1, <1>2, Weights

\* Sequences are equal if their elements are.
LEMMA SameNumbers ==
    ASSUME NEW v \in Seq(Nat), NEW w \in Seq(Nat), Len(v) = Len(w),
           \A k \in 1..Len(w) : v[k] = w[k]
    PROVE  v = w
<1>1. v \in [1..Len(w) -> Nat] /\ w \in [1..Len(w) -> Nat]
    OBVIOUS
<1>2. QED
    BY <1>1

\* A message more ...
LEMMA BytesAppend ==
    ASSUME NEW q \in Seq(Message), NEW m \in Message
    PROVE  /\ Bytes(Append(q, m)) = Bytes(q) + m.bytes
           /\ FloodedBytes(Append(q, m)) = FloodedBytes(q) + IF m.flood THEN m.bytes ELSE 0
<1> DEFINE r == Append(q, m)
           b == IF m.flood THEN m.bytes ELSE 0
<1>1. r \in Seq(Message) /\ Len(r) = Len(q) + 1 /\ Len(q) \in Nat /\ r[Len(q) + 1] = m
      /\ \A k \in 1..Len(q) : r[k] = q[k]
    OBVIOUS
<1>2. m.bytes \in Nat /\ b \in Nat
    BY DEF Message
<1> HIDE DEF r
<1>3. /\ Weight(q) \in Seq(Nat) /\ FloodWeight(q) \in Seq(Nat)
      /\ Weight(r) \in Seq(Nat) /\ FloodWeight(r) \in Seq(Nat)
      /\ Len(Weight(q)) = Len(q) /\ Len(FloodWeight(q)) = Len(q)
      /\ Len(Weight(r)) = Len(q) + 1 /\ Len(FloodWeight(r)) = Len(q) + 1
    BY <1>1, Weights
<1>4. /\ \A k \in 1..Len(q) : Weight(r)[k] = Weight(q)[k] /\ FloodWeight(r)[k] = FloodWeight(q)[k]
      /\ Weight(r)[Len(q) + 1] = m.bytes /\ FloodWeight(r)[Len(q) + 1] = b
    <2>1. ASSUME NEW k \in 1..Len(q)
          PROVE  Weight(r)[k] = Weight(q)[k] /\ FloodWeight(r)[k] = FloodWeight(q)[k]
        <3>1. k \in 1..Len(r) /\ r[k] = q[k]
            BY <1>1
        <3>2. Weight(r)[k] = r[k].bytes /\ FloodWeight(r)[k] = IF r[k].flood THEN r[k].bytes ELSE 0
            BY <1>1, <3>1, WeightAt
        <3>3. Weight(q)[k] = q[k].bytes /\ FloodWeight(q)[k] = IF q[k].flood THEN q[k].bytes ELSE 0
            BY WeightAt
        <3>4. QED
            BY <3>1, <3>2, <3>3
    <2>2. Weight(r)[Len(q) + 1] = m.bytes /\ FloodWeight(r)[Len(q) + 1] = b
        <3>1. Len(q) + 1 \in 1..Len(r)
            BY <1>1
        <3>2. QED
            BY <1>1, <3>1, WeightAt
    <2>3. QED
        BY <2>1, <2>2
<1>5. Weight(r) = Append(Weight(q), m.bytes)
    <2> DEFINE w == Append(Weight(q), m.bytes)
    <2>1. /\ w \in Seq(Nat) /\ Len(w) = Len(q) + 1 /\ w[Len(q) + 1] = m.bytes
          /\ \A k \in 1..Len(q) : w[k] = Weight(q)[k]
        BY <1>1, <1>2, <1>3
    <2> HIDE DEF w
    <2>2. ASSUME NEW k \in 1..Len(w) PROVE Weight(r)[k] = w[k]
        <3>1. k \in 1..Len(q) \/ k = Len(q) + 1
            BY <1>1, <2>1
        <3>2. QED
            BY <1>4, <2>1, <3>1
    <2>3. QED
        BY <1>3, <2>1, <2>2, SameNumbers DEF w
<1>6. FloodWeight(r) = Append(FloodWeight(q), b)
    <2> HIDE DEF b
    <2> DEFINE w == Append(FloodWeight(q), b)
    <2>1. /\ w \in Seq(Nat) /\ Len(w) = Len(q) + 1 /\ w[Len(q) + 1] = b
          /\ \A k \in 1..Len(q) : w[k] = FloodWeight(q)[k]
        BY <1>1, <1>2, <1>3
    <2> HIDE DEF w
    <2>2. ASSUME NEW k \in 1..Len(w) PROVE FloodWeight(r)[k] = w[k]
        <3>1. k \in 1..Len(q) \/ k = Len(q) + 1
            BY <1>1, <2>1
        <3>2. QED
            BY <1>4, <2>1, <3>1
    <2>3. QED
        BY <1>3, <2>1, <2>2, SameNumbers DEF w
<1>7. Bytes(r) = Sum(Weight(q)) + m.bytes /\ FloodedBytes(r) = Sum(FloodWeight(q)) + b
    <2>1. Bytes(r) = Sum(Weight(r)) /\ FloodedBytes(r) = Sum(FloodWeight(r))
        BY DEF Bytes, FloodedBytes, Weight, FloodWeight
    <2> HIDE DEF b
    <2>2. QED
        BY <1>2, <1>3, <1>5, <1>6, <2>1, SumAppend
<1>8. Bytes(q) = Sum(Weight(q)) /\ FloodedBytes(q) = Sum(FloodWeight(q))
    BY DEF Bytes, FloodedBytes, Weight, FloodWeight
<1>9. QED
    BY <1>7, <1>8 DEF r

\* ... and one less.
LEMMA BytesTail ==
    ASSUME NEW q \in Seq(Message), q # << >>
    PROVE  /\ Bytes(q) = Head(q).bytes + Bytes(Tail(q)) /\ Bytes(Tail(q)) \in Nat
           /\ FloodedBytes(Tail(q)) <= FloodedBytes(q) /\ FloodedBytes(Tail(q)) \in Nat
<1> DEFINE r == Tail(q)
<1>1. r \in Seq(Message) /\ Len(r) = Len(q) - 1 /\ Len(q) \in Nat /\ Len(q) >= 1
      /\ Head(q) = q[1] /\ \A k \in 1..Len(r) : r[k] = q[k + 1] /\ k + 1 \in 1..Len(q)
    OBVIOUS
<1> HIDE DEF r
<1>2. /\ Weight(r) \in Seq(Nat) /\ FloodWeight(r) \in Seq(Nat)
      /\ Weight(q) \in Seq(Nat) /\ FloodWeight(q) \in Seq(Nat)
      /\ Weight(q) # << >> /\ FloodWeight(q) # << >>
    BY <1>1, Weights
<1>3. Weight(r) = Tail(Weight(q)) /\ FloodWeight(r) = Tail(FloodWeight(q))
    <2>1. /\ Len(Weight(r)) = Len(r) /\ Len(FloodWeight(r)) = Len(r)
          /\ Len(Weight(q)) = Len(r) + 1 /\ Len(FloodWeight(q)) = Len(r) + 1
        BY <1>1, Weights
    <2>2. \A k \in 1..Len(r) : /\ Weight(r)[k] = Weight(q)[k + 1]
                              /\ FloodWeight(r)[k] = FloodWeight(q)[k + 1]
        <3> TAKE k \in 1..Len(r)
        <3>1. k + 1 \in 1..Len(q) /\ r[k] = q[k + 1]
            BY <1>1
        <3>2. Weight(r)[k] = r[k].bytes /\ FloodWeight(r)[k] = IF r[k].flood THEN r[k].bytes ELSE 0
            BY <1>1, Weights
        <3>3. /\ Weight(q)[k + 1] = q[k + 1].bytes
              /\ FloodWeight(q)[k + 1] = IF q[k + 1].flood THEN q[k + 1].bytes ELSE 0
            BY <3>1, Weights
        <3>4. QED
            BY <3>1, <3>2, <3>3
    <2>3. ASSUME NEW v \in Seq(Nat), NEW w \in Seq(Nat), w # << >>, Len(v) = Len(r),
                 Len(w) = Len(r) + 1, \A k \in 1..Len(r) : v[k] = w[k + 1]
          PROVE  v = Tail(w)
        <3> DEFINE u == Tail(w)
        <3>1. u \in Seq(Nat) /\ Len(u) = Len(r) /\ \A k \in 1..Len(u) : u[k] = w[k + 1]
            BY <1>1, <2>3
        <3> HIDE DEF u
        <3>2. v = u
            BY <2>3, <3>1, SameNumbers
        <3>3. QED
            BY <3>2 DEF u
    <2>4. QED
        BY <1>2, <2>1, <2>2, <2>3
<1>4. Weight(q)[1] = Head(q).bytes /\ FloodWeight(q)[1] \in Nat
    BY <1>1, <1>2, Weights
<1>5. /\ Sum(Weight(q)) = Weight(q)[1] + Sum(Weight(r))
      /\ Sum(FloodWeight(q)) = FloodWeight(q)[1] + Sum(FloodWeight(r))
      /\ Sum(Weight(r)) \in Nat /\ Sum(FloodWeight(r)) \in Nat
    BY <1>2, <1>3, SumTail, SumIs
<1>6. /\ Bytes(q) = Sum(Weight(q)) /\ FloodedBytes(q) = Sum(FloodWeight(q))
      /\ Bytes(r) = Sum(Weight(r)) /\ FloodedBytes(r) = Sum(FloodWeight(r))
    BY DEF Bytes, FloodedBytes, Weight, FloodWeight
<1>7. QED
    BY <1>4, <1>5, <1>6 DEF r

\* Flooded bytes are bytes.
LEMMA FloodsAreBytes ==
    ASSUME NEW q \in Seq(Message)
    PROVE  FloodedBytes(q) <= Bytes(q) /\ FloodedBytes(q) \in Nat /\ Bytes(q) \in Nat
<1>1. \A k \in 1..Len(Weight(q)) : FloodWeight(q)[k] <= Weight(q)[k]
    <2>1. Len(Weight(q)) = Len(q)
        BY Weights
    <2>2. ASSUME NEW k \in 1..Len(q) PROVE FloodWeight(q)[k] <= Weight(q)[k]
        BY WeightAt
    <2>3. QED
        BY <2>1, <2>2
<1>2. Bytes(q) = Sum(Weight(q)) /\ FloodedBytes(q) = Sum(FloodWeight(q))
    BY DEF Bytes, FloodedBytes, Weight, FloodWeight
<1>3. QED
    BY <1>1, <1>2, Weights, SumMonotone, SumIs

-----------------------------------------------------------------------------
(* The writer: what a step does to the messages                            *)

\* No message is queued, taken or written; queues may be emptied.
Quiet ==
    /\ wire' = wire /\ total' = total /\ (recycled => recycled')
    /\ \A g \in Fds : writer'[g].pc = "sending" =>
          writer[g].pc = "sending" /\ writer'[g].msg = writer[g].msg
    /\ \A i \in Slots :
          \/ Empty(slot'[i])
          \/ SameQueues(slot[i], slot'[i]) /\ slot'[i].fd = slot[i].fd
    /\ \A g \in Fds : pc'[g] \in Using =>
          \/ pc[g] \in Using /\ at'[g] = at[g]
          \/ at'[g] \in Slots /\ Empty(slot'[at'[g]])

\* No handler moves.
Unmoved == pc' = pc /\ at' = at /\ recycled' = recycled

\* One message is queued, or taken, and nothing else happens to messages.
Puts(i, t, m) == Queues(i, t, m) /\ Woken(i, t) /\ Unmoved /\ wire' = wire

Takes(f, t, m) ==
    Pops(f, t, m) /\ Unmoved /\ wire' = wire /\ total' = total /\ writer[f].pc = "loop"

\* A slot changed, with its queues as they were or emptied.
LEMMA QuietSlot ==
    ASSUME slot \in [Slots -> Slot], NEW i, NEW t, Becomes(i, t),
           Empty(t) \/ (SameQueues(slot[i], t) /\ t.fd = slot[i].fd)
    PROVE  \A j \in Slots :
              \/ Empty(slot'[j])
              \/ SameQueues(slot[j], slot'[j]) /\ slot'[j].fd = slot[j].fd
<1>1. slot'[i] = t /\ \A j \in Slots : j # i => slot'[j] = slot[j]
    BY ChangedSlot
<1>2. QED
    BY <1>1 DEF SameQueues

\* Handlers queue, take and write nothing.
LEMMA HandlerQuiet ==
    ASSUME TypeOK, Placed, NEW f \in Fds, Register(f) \/ Loop(f) \/ Stop(f)
    PROVE  Quiet
<1> DEFINE States == {"new", "starting", "live", "held", "leaving", "stopping", "joining",
                      "ending", "closed"}
<1>0. /\ slot \in [Slots -> Slot] /\ writer \in [Fds -> Thread] /\ pc \in [Fds -> States]
      /\ at \in [Fds -> Slots \cup {None}]
    BY DEF TypeOK
<1>9. ASSUME NEW l \in States, Goto(f, l)
      PROVE  pc'[f] = l /\ \A g \in Fds : g # f => pc'[g] = pc[g]
    BY <1>0, <1>9 DEF Goto
<1>1. CASE RegisterClear(f)
    <2>1. PICK i, t : Clears(f, i, t)
        BY <1>1, HandlerEffects
    <2>2. \A j \in Slots : \/ Empty(slot'[j])
                           \/ SameQueues(slot[j], slot'[j]) /\ slot'[j].fd = slot[j].fd
        BY <1>0, <2>1, QuietSlot DEF Clears
    <2>3. slot'[i] = t /\ i \in Slots /\ Empty(t)
        BY <1>0, <2>1, ChangedSlot DEF Clears, Becomes
    <2>4. /\ writer' = writer /\ wire' = wire /\ total' = total /\ (recycled => recycled')
          /\ \A g \in Fds : g # f => pc'[g] = pc[g]
          /\ at'[f] = i /\ \A g \in Fds : g # f => at'[g] = at[g]
        BY <1>0, <1>1, <1>9, <2>1, <2>3 DEF RegisterClear, Clears
    <2>5. QED
        BY <2>2, <2>3, <2>4 DEF Quiet
<1>2. CASE RegisterStart(f)
    <2>1. PICK t : Starts(f, t)
        BY <1>2, HandlerEffects
    <2>2. \A j \in Slots : \/ Empty(slot'[j])
                           \/ SameQueues(slot[j], slot'[j]) /\ slot'[j].fd = slot[j].fd
        BY <1>0, <2>1, QuietSlot DEF Starts, Mine
    <2>3. /\ wire' = wire /\ total' = total /\ recycled' = recycled /\ at' = at
          /\ \A g \in Fds : g # f => pc'[g] = pc[g]
          /\ pc[f] \in Using
        BY <1>2, <1>9 DEF RegisterStart, Using
    <2>4. writer'[f].pc = "loop" /\ \A g \in Fds : g # f => writer'[g] = writer[g]
        BY <1>0, <1>2, ChangedWriter DEF RegisterStart
    <2>5. QED
        BY <2>2, <2>3, <2>4 DEF Quiet
<1>3. CASE RegisterUndo(f) \/ Unregister(f) \/ Join(f)
    <2>1. PICK t : Frees(f, t) \/ Joins(f, t)
        BY <1>3, HandlerEffects
    <2>2. \A j \in Slots : \/ Empty(slot'[j])
                           \/ SameQueues(slot[j], slot'[j]) /\ slot'[j].fd = slot[j].fd
        BY <1>0, <2>1, QuietSlot DEF Frees, Joins, Mine
    <2>3. /\ wire' = wire /\ total' = total /\ recycled' = recycled /\ at' = at
          /\ \A g \in Fds : g # f => pc'[g] = pc[g]
          /\ pc[f] \in Using /\ writer' = writer
        BY <1>3, <1>9 DEF RegisterUndo, Unregister, Join, Using
    <2>4. QED
        BY <2>2, <2>3 DEF Quiet
<1>4. CASE StopWriter(f)
    <2>1. PICK t : Stops(f, t)
        BY <1>4, HandlerEffects
    <2>2. \A j \in Slots : \/ Empty(slot'[j])
                           \/ SameQueues(slot[j], slot'[j]) /\ slot'[j].fd = slot[j].fd
        BY <1>0, <2>1, QuietSlot DEF Stops, Mine, SameSession
    <2>3. /\ wire' = wire /\ total' = total /\ recycled' = recycled /\ at' = at
          /\ \A g \in Fds : g # f => pc'[g] = pc[g]
          /\ pc[f] \in Using
        BY <1>4, <1>9 DEF StopWriter, Using
    <2>4. Woken(at[f], t)
        BY <2>1, WokenThread DEF Stops, Becomes, Mine
    <2>5. QED
        BY <2>2, <2>3, <2>4 DEF Quiet, Woken
<1>5. CASE RegisterFull(f) \/ SendToClient(f) \/ SendEnds(f) \/ StopNothing(f) \/ ShutDown(f)
         \/ End(f)
    <2>1. /\ at' = at /\ slot' = slot /\ writer' = writer /\ recycled' = recycled
          /\ wire' = wire /\ total' = total
          /\ \A g \in Fds : g # f => pc'[g] = pc[g]
          /\ pc'[f] \in Using => pc[f] \in Using
        BY <1>5, <1>9 DEF RegisterFull, SendToClient, SendEnds, StopNothing, ShutDown, End, Using
    <2>2. QED
        BY <2>1 DEF Quiet, SameQueues
<1>6. QED
    BY <1>1, <1>2, <1>3, <1>4, <1>5 DEF Register, Loop, Stop

\* Writers take and write one message at a time.
LEMMA WriterKinds ==
    ASSUME TypeOK, Placed, NEW f \in Fds, Writer(f) \/ WriterWakes(f)
    PROVE  Quiet \/ (\E t, m : Takes(f, t, m)) \/ WriterSends(f)
<1>0. slot \in [Slots -> Slot] /\ writer \in [Fds -> Thread]
    BY DEF TypeOK
<1>1. CASE WriterStops(f) \/ WriterGivesUp(f)
    <2>1. PICK t : Empties(f, t)
        BY <1>1, WriterEffects
    <2>2. \A j \in Slots : \/ Empty(slot'[j])
                           \/ SameQueues(slot[j], slot'[j]) /\ slot'[j].fd = slot[j].fd
        BY <1>0, <2>1, QuietSlot DEF Empties
    <2>3. pc' = pc /\ at' = at /\ wire' = wire /\ total' = total /\ recycled' = recycled
          /\ WriterGoto(f, "done")
        BY <1>1 DEF WriterStops, WriterGivesUp
    <2>4. writer'[f].pc = "done" /\ \A g \in Fds : g # f => writer'[g] = writer[g]
        BY <1>0, <2>3, ChangedWriter
    <2>5. QED
        BY <2>2, <2>3, <2>4 DEF Quiet
<1>2. CASE WriterWaits(f) \/ WriterWakes(f)
    <2>1. PICK t, W : Sleeps(f, t, W)
        BY <1>2, WriterEffects
    <2>2. \A j \in Slots : \/ Empty(slot'[j])
                           \/ SameQueues(slot[j], slot'[j]) /\ slot'[j].fd = slot[j].fd
        BY <1>0, <2>1, QuietSlot DEF Sleeps, Mine, SameSession
    <2>3. pc' = pc /\ at' = at /\ wire' = wire /\ total' = total /\ recycled' = recycled
          /\ (WriterGoto(f, "waiting") \/ WriterGoto(f, "loop"))
        BY <1>2 DEF WriterWaits, WriterWakes
    <2>4. writer'[f].pc # "sending" /\ \A g \in Fds : g # f => writer'[g] = writer[g]
        BY <1>0, <2>3, ChangedWriter
    <2>5. QED
        BY <2>2, <2>3, <2>4 DEF Quiet
<1>3. CASE WriterPops(f)
    BY <1>3, WriterEffects DEF Takes, Unmoved, WriterPops
<1>4. CASE WriterTouches(f) \/ WriterFails(f)
    <2>1. pc' = pc /\ at' = at /\ wire' = wire /\ total' = total /\ recycled' = recycled
          /\ slot' = slot
        BY <1>4 DEF WriterTouches, WriterFails
    <2>2. writer'[f].pc # "sending" /\ \A g \in Fds : g # f => writer'[g] = writer[g]
        <3>1. CASE WriterTouches(f)
            <4>1. WriterGoto(f, "loop")
                BY <3>1 DEF WriterTouches
            <4>2. QED
                BY <1>0, <4>1, ChangedWriter
        <3>2. CASE WriterFails(f)
            BY <1>0, <3>2 DEF WriterFails
        <3>3. QED
            BY <1>4, <3>1, <3>2
    <2>3. QED
        BY <2>1, <2>2 DEF Quiet, SameQueues
<1>5. QED
    BY <1>1, <1>2, <1>3, <1>4 DEF Writer

\* Queueing puts one message, or drops it.
LEMMA QueueKinds ==
    ASSUME TypeOK, Placed, NEW i \in Slots,
           \/ EnqueueControl(i)
           \/ \E flood \in BOOLEAN, now \in Seconds :
                 DropTap(i, flood, now) \/ \E bytes \in Sizes : EnqueueTap(i, bytes, flood, now)
    PROVE  Quiet \/ \E t, m : Puts(i, t, m)
<1>0. slot \in [Slots -> Slot]
    BY DEF TypeOK
<1>1. /\ Unmoved /\ wire' = wire
      /\ \/ (\E t : Drops(i, t)) /\ writer' = writer /\ total' = total
         \/ \E t, m : Queues(i, t, m)
    BY QueuePlaced DEF Unmoved
<1>2. ASSUME NEW t, Drops(i, t), writer' = writer, total' = total
      PROVE  Quiet
    <2>1. \A j \in Slots : \/ Empty(slot'[j])
                           \/ SameQueues(slot[j], slot'[j]) /\ slot'[j].fd = slot[j].fd
        BY <1>0, <1>2, QuietSlot DEF Drops, SameSession
    <2>2. QED
        BY <1>1, <1>2, <2>1 DEF Quiet, Unmoved
<1>3. ASSUME NEW t, NEW m, Queues(i, t, m)
      PROVE  Puts(i, t, m)
    BY <1>1, <1>3, WokenThread DEF Puts, Queues
<1>4. QED
    BY <1>1, <1>2, <1>3

\* So there are these four kinds of steps.
LEMMA StepKinds ==
    ASSUME TypeOK, Placed, [Next]_vars
    PROVE  \/ Quiet
           \/ \E i \in Slots : \E t, m : Puts(i, t, m)
           \/ \E f \in Fds : \E t, m : Takes(f, t, m)
           \/ \E f \in Fds : WriterSends(f)
<1>1. CASE UNCHANGED vars
    BY <1>1 DEF vars, Quiet, SameQueues
<1>2. ASSUME NEW f \in Fds, Register(f) \/ Loop(f) \/ Stop(f)
      PROVE  Quiet
    BY <1>2, HandlerQuiet
<1>3. ASSUME NEW f \in Fds, Writer(f) \/ WriterWakes(f)
      PROVE  Quiet \/ (\E t, m : Takes(f, t, m)) \/ WriterSends(f)
    BY <1>3, WriterKinds
<1>4. ASSUME NEW i \in Slots,
             \/ EnqueueControl(i)
             \/ \E flood \in BOOLEAN, now \in Seconds :
                   DropTap(i, flood, now) \/ \E bytes \in Sizes : EnqueueTap(i, bytes, flood, now)
      PROVE  Quiet \/ \E t, m : Puts(i, t, m)
    BY <1>4, QueueKinds
<1>5. QED
    BY <1>1, <1>2, <1>3, <1>4 DEF Next, Finished

-----------------------------------------------------------------------------
(* The writer: the budget is kept                                          *)

\* FloodBacklog of one slot.
InBudget(s) == s.pending = Bytes(s.tap) /\ FloodedBytes(s.tap) <= Limit

\* A flooded frame is put only if all that waits, and it, are within the limit.
LEMMA PutInBudget ==
    ASSUME TypeOK, FloodBacklog, NEW i \in Slots, NEW t, NEW m, Queues(i, t, m)
    PROVE  InBudget(t)
<1>1. slot[i].tap \in Seq(Message) /\ InBudget(slot[i])
    BY DEF TypeOK, Slot, FloodBacklog, InBudget
<1>2. CASE ~m.tap /\ t.tap = slot[i].tap /\ t.pending = slot[i].pending
    BY <1>1, <1>2 DEF InBudget
<1>3. CASE /\ t.tap = Append(slot[i].tap, m)
           /\ t.pending = slot[i].pending + m.bytes
           /\ m.flood => slot[i].pending + m.bytes <= Limit
    <2>1. m \in Message /\ m.bytes \in Nat /\ m.flood \in BOOLEAN
        BY DEF Queues, Message
    <2>2. /\ Bytes(t.tap) = Bytes(slot[i].tap) + m.bytes
          /\ FloodedBytes(t.tap) = FloodedBytes(slot[i].tap) + IF m.flood THEN m.bytes ELSE 0
        BY <1>1, <1>3, <2>1, BytesAppend
    <2>3. /\ FloodedBytes(slot[i].tap) <= Bytes(slot[i].tap)
          /\ FloodedBytes(slot[i].tap) \in Nat /\ Bytes(slot[i].tap) \in Nat
        BY <1>1, FloodsAreBytes
    <2>4. QED
        BY <1>1, <1>3, <2>1, <2>2, <2>3, WriterAssumption DEF InBudget
<1>4. QED
    BY <1>2, <1>3 DEF Queues

\* What is taken is subtracted, and never more than there is.
LEMMA TakeInBudget ==
    ASSUME TypeOK, FloodBacklog, NEW f \in Fds, NEW t, NEW m, Pops(f, t, m)
    PROVE  InBudget(t)
<1>1. Mine(f).tap \in Seq(Message) /\ InBudget(Mine(f))
    BY DEF TypeOK, Slot, FloodBacklog, InBudget, Mine, Pops, Becomes
<1>2. CASE t.tap = Mine(f).tap /\ t.pending = Mine(f).pending
    BY <1>1, <1>2 DEF InBudget
<1>3. CASE /\ Mine(f).tap # << >> /\ m = Head(Mine(f).tap) /\ t.tap = Tail(Mine(f).tap)
           /\ t.pending = IF Mine(f).pending >= m.bytes THEN Mine(f).pending - m.bytes ELSE 0
    <2>1. m.bytes \in Nat
        BY DEF Pops, Message
    <2>2. /\ Bytes(Mine(f).tap) = m.bytes + Bytes(t.tap) /\ Bytes(t.tap) \in Nat
          /\ FloodedBytes(t.tap) <= FloodedBytes(Mine(f).tap) /\ FloodedBytes(t.tap) \in Nat
        BY <1>1, <1>3, BytesTail
    <2>3. FloodedBytes(Mine(f).tap) \in Nat
        BY <1>1, FloodsAreBytes
    <2>4. QED
        BY <1>1, <1>3, <2>1, <2>2, <2>3, WriterAssumption DEF InBudget
<1>4. QED
    BY <1>2, <1>3 DEF Pops

\* So every step keeps FloodBacklog.
LEMMA NextInBudget == TypeOK /\ Placed /\ FloodBacklog /\ [Next]_vars => FloodBacklog'
<1> SUFFICES ASSUME TypeOK, Placed, FloodBacklog, [Next]_vars PROVE FloodBacklog'
    OBVIOUS
<1>0. slot \in [Slots -> Slot] /\ \A i \in Slots : InBudget(slot[i])
    BY DEF TypeOK, FloodBacklog, InBudget
<1>1. SUFFICES ASSUME NEW j \in Slots PROVE InBudget(slot'[j])
    BY DEF FloodBacklog, InBudget
<1>2. CASE Quiet
    <2>1. CASE Empty(slot'[j])
        BY <2>1, BytesEmpty, WriterAssumption DEF Empty, InBudget
    <2>2. CASE SameQueues(slot[j], slot'[j])
        BY <1>0, <2>2 DEF SameQueues, InBudget
    <2>3. QED
        BY <1>2, <2>1, <2>2 DEF Quiet
<1>3. ASSUME NEW i \in Slots, NEW t, Becomes(i, t), InBudget(t)
      PROVE  InBudget(slot'[j])
    <2>1. slot'[i] = t /\ \A k \in Slots : k # i => slot'[k] = slot[k]
        BY <1>0, <1>3, ChangedSlot
    <2>2. QED
        BY <1>0, <1>3, <2>1
<1>4. ASSUME NEW i \in Slots, NEW t, NEW m, Puts(i, t, m)
      PROVE  InBudget(slot'[j])
    <2>1. Queues(i, t, m) /\ Becomes(i, t)
        BY <1>4 DEF Puts, Queues
    <2>2. InBudget(t)
        BY <2>1, PutInBudget
    <2>3. QED
        BY <1>3, <2>1, <2>2
<1>5. ASSUME NEW f \in Fds, NEW t, NEW m, Takes(f, t, m)
      PROVE  InBudget(slot'[j])
    <2>1. Pops(f, t, m) /\ Becomes(at[f], t) /\ at[f] \in Slots
        BY <1>5 DEF Takes, Pops, Becomes
    <2>2. InBudget(t)
        BY <2>1, TakeInBudget
    <2>3. QED
        BY <1>3, <2>1, <2>2
<1>6. CASE \E f \in Fds : WriterSends(f)
    BY <1>0, <1>6 DEF WriterSends
<1>7. QED
    BY <1>2, <1>4, <1>5, <1>6, StepKinds

-----------------------------------------------------------------------------
(* The writer: the order of messages                                       *)

\* Messages of the same queue keep the order of their numbers.
Before(m, k) == m.tap = k.tap => m.n < k.n

Sorted(q) == \A j, k \in 1..Len(q) : j < k => Before(q[j], q[k])

\* A queue of session fd, of messages numbered below n.
QueueOf(q, tap, fd, n) ==
    /\ Sorted(q)
    /\ \A k \in 1..Len(q) : q[k].tap = tap /\ q[k].for = fd /\ q[k].n < n

\* m comes after all messages of q and after what thread w is about to write.
After(q, w, m) ==
    /\ \A k \in 1..Len(q) : Before(q[k], m)
    /\ w.pc = "sending" => Before(w.msg, m)

\* What was written, q, and what the writer w is about to write, for session f.
Written(f, q, w, n) ==
    /\ Sorted(q)
    /\ \A k \in 1..Len(q) : q[k].for = f /\ q[k].n < n
    /\ w.pc = "sending" => /\ w.msg.for = f /\ w.msg.n < n
                           /\ \A k \in 1..Len(q) : Before(q[k], w.msg)

\* All that waits in slot s comes after that.
Follows(q, w, s) ==
    /\ \A k \in 1..Len(s.ctrl) : After(q, w, s.ctrl[k])
    /\ \A k \in 1..Len(s.tap) : After(q, w, s.tap[k])

\* So it is with every session's socket and, as long as its handler uses a slot,
\* with that slot.
Ordered ==
    \A f \in Fds : /\ Written(f, wire[f], writer[f], total)
                   /\ pc[f] \in Using => Follows(wire[f], writer[f], slot[at[f]])

\* Every slot holds messages of its session only.
Queued == \A i \in Slots : /\ QueueOf(slot[i].ctrl, FALSE, slot[i].fd, total)
                           /\ QueueOf(slot[i].tap, TRUE, slot[i].fd, total)

MessageInv == Queued /\ (recycled \/ Ordered)

\* A message that comes after all the others keeps the order ...
LEMMA SortedAppend ==
    ASSUME NEW q \in Seq(Message), NEW m \in Message, Sorted(q),
           \A k \in 1..Len(q) : Before(q[k], m)
    PROVE  Sorted(Append(q, m))
<1> DEFINE r == Append(q, m)
<1>1. Len(r) = Len(q) + 1 /\ Len(q) \in Nat /\ r[Len(q) + 1] = m
      /\ \A k \in 1..Len(q) : r[k] = q[k]
    OBVIOUS
<1> HIDE DEF r
<1>2. ASSUME NEW j \in 1..Len(r), NEW k \in 1..Len(r), j < k
      PROVE  Before(r[j], r[k])
    <2>1. j \in 1..Len(q) /\ r[j] = q[j]
        BY <1>1, <1>2
    <2>2. CASE k = Len(q) + 1
        BY <1>1, <2>1, <2>2
    <2>3. CASE k # Len(q) + 1
        <3>1. k \in 1..Len(q) /\ r[k] = q[k]
            BY <1>1, <2>3
        <3>2. QED
            BY <1>2, <2>1, <3>1 DEF Sorted
    <2>4. QED
        BY <2>2, <2>3
<1>3. QED
    BY <1>2 DEF Sorted, r

\* ... and so does taking the first.
LEMMA SortedTail ==
    ASSUME NEW q \in Seq(Message), q # << >>, Sorted(q)
    PROVE  /\ Sorted(Tail(q))
           /\ \A k \in 1..Len(Tail(q)) : Before(Head(q), Tail(q)[k])
           /\ \A k \in 1..Len(Tail(q)) : k + 1 \in 1..Len(q) /\ Tail(q)[k] = q[k + 1]
           /\ Head(q) = q[1] /\ 1 \in 1..Len(q)
<1> DEFINE r == Tail(q)
<1>1. Len(r) = Len(q) - 1 /\ Len(q) \in Nat /\ Len(q) >= 1 /\ Head(q) = q[1]
      /\ \A k \in 1..Len(r) : r[k] = q[k + 1] /\ k + 1 \in 1..Len(q)
    OBVIOUS
<1> HIDE DEF r
<1>2. ASSUME NEW j \in 1..Len(r), NEW k \in 1..Len(r), j < k
      PROVE  Before(r[j], r[k])
    <2>1. r[j] = q[j + 1] /\ r[k] = q[k + 1] /\ j + 1 \in 1..Len(q) /\ k + 1 \in 1..Len(q)
        BY <1>1
    <2>2. j + 1 < k + 1
        BY <1>1, <1>2
    <2>3. QED
        BY <2>1, <2>2 DEF Sorted
<1>3. ASSUME NEW k \in 1..Len(r)
      PROVE  Before(Head(q), r[k])
    <2>1. 1 \in 1..Len(q) /\ k + 1 \in 1..Len(q) /\ 1 < k + 1 /\ r[k] = q[k + 1]
        BY <1>1
    <2>2. QED
        BY <1>1, <2>1 DEF Sorted
<1>4. QED
    BY <1>1, <1>2, <1>3 DEF Sorted, r

\* The next message is put into the queue of its session.
LEMMA QueueOfAppend ==
    ASSUME NEW q \in Seq(Message), NEW m \in Message, NEW tap, NEW fd, NEW n \in Nat,
           QueueOf(q, tap, fd, n), m.tap = tap, m.for = fd, m.n = n
    PROVE  QueueOf(Append(q, m), tap, fd, n + 1)
<1> DEFINE r == Append(q, m)
<1>1. Len(r) = Len(q) + 1 /\ Len(q) \in Nat /\ r[Len(q) + 1] = m
      /\ \A k \in 1..Len(q) : r[k] = q[k] /\ q[k] \in Message
    OBVIOUS
<1>2. \A k \in 1..Len(q) : Before(q[k], m)
    BY DEF QueueOf, Before
<1>3. Sorted(r)
    BY <1>2, SortedAppend DEF QueueOf
<1> HIDE DEF r
<1>4. ASSUME NEW k \in 1..Len(r)
      PROVE  r[k].tap = tap /\ r[k].for = fd /\ r[k].n < n + 1
    <2>1. CASE k = Len(q) + 1
        BY <1>1, <2>1
    <2>2. CASE k # Len(q) + 1
        <3>1. k \in 1..Len(q) /\ r[k] = q[k] /\ q[k] \in Message
            BY <1>1, <2>2
        <3>2. q[k].n \in Nat
            BY <3>1 DEF Message
        <3>3. QED
            BY <3>1, <3>2 DEF QueueOf
    <2>3. QED
        BY <2>1, <2>2
<1>5. QED
    BY <1>3, <1>4 DEF QueueOf, r

\* The queues stay as they are when the number grows ...
LEMMA QueueOfMore ==
    ASSUME NEW q \in Seq(Message), NEW tap, NEW fd, NEW n \in Nat, QueueOf(q, tap, fd, n)
    PROVE  QueueOf(q, tap, fd, n + 1)
<1>1. \A m \in Message : m.n \in Nat
    BY DEF Message
<1>2. \A k \in 1..Len(q) : q[k] \in Message
    OBVIOUS
<1>3. QED
    BY <1>1, <1>2 DEF QueueOf

\* ... when the first message is taken ...
LEMMA QueueOfTail ==
    ASSUME NEW q \in Seq(Message), q # << >>, NEW tap, NEW fd, NEW n, QueueOf(q, tap, fd, n)
    PROVE  QueueOf(Tail(q), tap, fd, n)
BY SortedTail DEF QueueOf

\* ... and when they are emptied.
LEMMA QueueOfEmpty == ASSUME NEW tap, NEW fd, NEW n PROVE QueueOf(<< >>, tap, fd, n)
BY DEF QueueOf, Sorted

\* So every step keeps Queued.
LEMMA NextQueued == TypeOK /\ Placed /\ Queued /\ [Next]_vars => Queued'
<1> SUFFICES ASSUME TypeOK, Placed, Queued, [Next]_vars PROVE Queued'
    OBVIOUS
<1> DEFINE Good(s, n) == QueueOf(s.ctrl, FALSE, s.fd, n) /\ QueueOf(s.tap, TRUE, s.fd, n)
<1>0. /\ slot \in [Slots -> Slot] /\ total \in Nat /\ \A i \in Slots : Good(slot[i], total)
      /\ \A i \in Slots : slot[i].ctrl \in Seq(Message) /\ slot[i].tap \in Seq(Message)
    BY DEF TypeOK, Queued, Slot
<1>1. SUFFICES ASSUME NEW j \in Slots PROVE Good(slot'[j], total')
    BY DEF Queued
<1>2. CASE Quiet
    <2>1. total' = total
        BY <1>2 DEF Quiet
    <2>2. CASE Empty(slot'[j])
        BY <2>2, QueueOfEmpty DEF Empty
    <2>3. CASE SameQueues(slot[j], slot'[j]) /\ slot'[j].fd = slot[j].fd
        BY <1>0, <2>1, <2>3 DEF SameQueues
    <2>4. QED
        BY <1>2, <2>2, <2>3 DEF Quiet
<1>3. ASSUME NEW i \in Slots, NEW t, NEW m, Puts(i, t, m)
      PROVE  Good(slot'[j], total')
    <2>1. slot'[i] = t /\ \A k \in Slots : k # i => slot'[k] = slot[k]
        BY <1>0, <1>3, ChangedSlot DEF Puts, Queues
    <2>2. /\ total' = total + 1 /\ m \in Message /\ m.for = slot[i].fd /\ m.n = total
          /\ t.fd = slot[i].fd
        BY <1>3 DEF Puts, Queues, SameSession
    <2>3. ASSUME NEW k \in Slots PROVE Good(slot[k], total + 1)
        BY <1>0, QueueOfMore
    <2>4. Good(t, total + 1)
        <3>1. CASE ~m.tap /\ t.ctrl = Append(slot[i].ctrl, m) /\ t.tap = slot[i].tap
            <4>1. m.tap = FALSE
                BY <2>2, <3>1 DEF Message
            <4>2. QueueOf(t.ctrl, FALSE, t.fd, total + 1)
                BY <1>0, <2>2, <3>1, <4>1, QueueOfAppend
            <4>3. QED
                BY <2>2, <2>3, <3>1, <4>2
        <3>2. CASE m.tap /\ t.tap = Append(slot[i].tap, m) /\ t.ctrl = slot[i].ctrl
            <4>1. m.tap = TRUE
                BY <2>2, <3>2 DEF Message
            <4>2. QueueOf(t.tap, TRUE, t.fd, total + 1)
                BY <1>0, <2>2, <3>2, <4>1, QueueOfAppend
            <4>3. QED
                BY <2>2, <2>3, <3>2, <4>2
        <3>3. QED
            BY <1>3, <3>1, <3>2 DEF Puts, Queues
    <2>5. QED
        BY <2>1, <2>2, <2>3, <2>4
<1>4. ASSUME NEW f \in Fds, NEW t, NEW m, Takes(f, t, m)
      PROVE  Good(slot'[j], total')
    <2>1. /\ slot'[at[f]] = t /\ at[f] \in Slots /\ \A k \in Slots : k # at[f] => slot'[k] = slot[k]
        BY <1>0, <1>4, ChangedSlot DEF Takes, Pops, Becomes
    <2>2. total' = total /\ t.fd = Mine(f).fd /\ Good(Mine(f), total)
          /\ Mine(f).ctrl \in Seq(Message) /\ Mine(f).tap \in Seq(Message)
        BY <1>0, <1>4, <2>1 DEF Takes, Pops, SameSession, Mine
    <2>3. \/ Mine(f).ctrl # << >> /\ t.ctrl = Tail(Mine(f).ctrl) /\ t.tap = Mine(f).tap
          \/ Mine(f).tap # << >> /\ t.tap = Tail(Mine(f).tap) /\ t.ctrl = Mine(f).ctrl
        BY <1>4 DEF Takes, Pops
    <2>4. Good(t, total)
        BY <2>2, <2>3, QueueOfTail
    <2>5. QED
        BY <1>0, <2>1, <2>2, <2>4
<1>5. CASE \E f \in Fds : WriterSends(f)
    BY <1>0, <1>5 DEF WriterSends
<1>6. QED
    BY <1>2, <1>3, <1>4, <1>5, StepKinds

\* A thread that runs has its session in the slot it works on.
LEMMA AtWork ==
    ASSUME TypeOK, Placed, Owned, NEW f \in Fds, writer[f].pc \notin {"none", "done"}
    PROVE  pc[f] \in Using /\ at[f] \in Slots /\ Mine(f).fd = f
<1>1. pc[f] \in Using
    BY DEF TypeOK, Placed, Owned, Using
<1>2. QED
    BY <1>1 DEF Placed, Owned, Mine

\* The messages of a queue that begins with those of another one.
LEMMA InAppend ==
    ASSUME NEW q \in Seq(Message), NEW m \in Message, NEW k \in 1..Len(Append(q, m))
    PROVE  Append(q, m)[k] = m \/ (k \in 1..Len(q) /\ Append(q, m)[k] = q[k])
OBVIOUS

\* Quiet steps keep the order: what they keep waiting waited before.
LEMMA QuietOrdered ==
    ASSUME TypeOK, Placed, Ordered, Quiet
    PROVE  Ordered'
<1> SUFFICES ASSUME NEW f \in Fds
             PROVE  /\ Written(f, wire'[f], writer'[f], total')
                    /\ pc'[f] \in Using => Follows(wire'[f], writer'[f], slot'[at'[f]])
    BY DEF Ordered
<1>1. /\ wire' = wire /\ total' = total
      /\ writer'[f].pc = "sending" => writer[f].pc = "sending" /\ writer'[f].msg = writer[f].msg
    BY DEF Quiet
<1>2. Written(f, wire'[f], writer'[f], total')
    BY <1>1 DEF Ordered, Written
<1>3. ASSUME pc'[f] \in Using
      PROVE  Follows(wire'[f], writer'[f], slot'[at'[f]])
    <2>1. CASE Empty(slot'[at'[f]])
        BY <2>1 DEF Empty, Follows
    <2>2. CASE pc[f] \in Using /\ at'[f] = at[f] /\ SameQueues(slot[at[f]], slot'[at[f]])
        BY <1>1, <2>2 DEF Ordered, Follows, After, SameQueues
    <2>3. QED
        BY <1>3, <2>1, <2>2 DEF Quiet, Placed
<1>4. QED
    BY <1>2, <1>3

\* With one more message the numbers still are below the next one.
LEMMA WrittenMore ==
    ASSUME NEW f, NEW q \in Seq(Message), NEW w, w.pc = "sending" => w.msg \in Message,
           NEW n \in Nat, Written(f, q, w, n)
    PROVE  Written(f, q, w, n + 1)
<1>1. \A m \in Message : m.n \in Nat
    BY DEF Message
<1>2. \A k \in 1..Len(q) : q[k] \in Message
    OBVIOUS
<1>3. QED
    BY <1>1, <1>2 DEF Written

\* A message that is put has the largest number.
LEMMA PutOrdered ==
    ASSUME TypeOK, Placed, Owned, Ordered, NEW i \in Slots, NEW t, NEW m, Puts(i, t, m)
    PROVE  Ordered'
<1> SUFFICES ASSUME NEW f \in Fds
             PROVE  /\ Written(f, wire'[f], writer'[f], total')
                    /\ pc'[f] \in Using => Follows(wire'[f], writer'[f], slot'[at'[f]])
    BY DEF Ordered
<1>0. /\ slot \in [Slots -> Slot] /\ total \in Nat /\ wire[f] \in Seq(Message)
      /\ writer[f].pc = "sending" => writer[f].msg \in Message
    BY DEF TypeOK, Placed
<1>1. /\ wire' = wire /\ total' = total + 1 /\ m.n = total /\ m \in Message
      /\ pc' = pc /\ at' = at
      /\ writer'[f].pc = "sending" => writer[f].pc = "sending" /\ writer'[f].msg = writer[f].msg
    BY DEF Puts, Queues, Unmoved, Woken
<1>2. slot'[i] = t /\ \A k \in Slots : k # i => slot'[k] = slot[k]
    BY <1>0, ChangedSlot DEF Puts, Queues
<1>3. Written(f, wire[f], writer[f], total + 1)
    BY <1>0, WrittenMore DEF Ordered
<1>4. Written(f, wire'[f], writer'[f], total')
    BY <1>1, <1>3 DEF Written
<1>5. After(wire'[f], writer'[f], m)
    BY <1>1 DEF Ordered, Written, After, Before
<1>6. ASSUME NEW q \in Seq(Message), \A k \in 1..Len(q) : After(wire[f], writer[f], q[k])
      PROVE  /\ \A k \in 1..Len(q) : After(wire'[f], writer'[f], q[k])
             /\ \A k \in 1..Len(Append(q, m)) : After(wire'[f], writer'[f], Append(q, m)[k])
    <2>1. \A k \in 1..Len(q) : After(wire'[f], writer'[f], q[k])
        BY <1>1, <1>6 DEF After
    <2>2. QED
        BY <1>1, <1>5, <2>1, InAppend
<1>7. ASSUME pc[f] \in Using
      PROVE  Follows(wire'[f], writer'[f], slot'[at[f]])
    <2>1. at[f] \in Slots /\ Follows(wire[f], writer[f], slot[at[f]])
          /\ slot[at[f]].ctrl \in Seq(Message) /\ slot[at[f]].tap \in Seq(Message)
        BY <1>0, <1>7 DEF Placed, Ordered, Slot
    <2>2. /\ slot'[at[f]].ctrl \in {slot[at[f]].ctrl, Append(slot[at[f]].ctrl, m)}
          /\ slot'[at[f]].tap \in {slot[at[f]].tap, Append(slot[at[f]].tap, m)}
        BY <1>2, <2>1 DEF Puts, Queues
    <2>3. QED
        BY <1>6, <2>1, <2>2 DEF Follows
<1>8. QED
    BY <1>1, <1>4, <1>7

\* The message that is taken comes after those written, and before those that wait.
LEMMA TakeOrdered ==
    ASSUME TypeOK, Placed, Owned, Queued, Ordered, NEW g \in Fds, NEW t, NEW m, Takes(g, t, m)
    PROVE  Ordered'
<1>0. /\ slot \in [Slots -> Slot] /\ writer \in [Fds -> Thread]
      /\ wire' = wire /\ total' = total /\ pc' = pc /\ at' = at /\ writer[g].pc = "loop"
    BY DEF TypeOK, Takes, Unmoved
<1>1. pc[g] \in Using /\ at[g] \in Slots /\ Mine(g).fd = g
    BY <1>0, AtWork
<1>2. slot'[at[g]] = t /\ \A k \in Slots : k # at[g] => slot'[k] = slot[k]
    BY <1>0, ChangedSlot DEF Takes, Pops
<1>3. /\ writer'[g].pc = "sending" /\ writer'[g].msg = m
      /\ \A f \in Fds : f # g => writer'[f] = writer[f]
    BY <1>0 DEF Takes, Pops
<1>4. ASSUME NEW f \in Fds, f # g
      PROVE  /\ Written(f, wire'[f], writer'[f], total')
             /\ pc'[f] \in Using => Follows(wire'[f], writer'[f], slot'[at'[f]])
    <2>1. pc[f] \in Using => at[f] # at[g] /\ at[f] \in Slots
        BY <1>1, <1>4, OwnSlot DEF Placed
    <2>2. QED
        BY <1>0, <1>2, <1>3, <1>4, <2>1 DEF Ordered
<1> DEFINE c == Mine(g).ctrl
           p == Mine(g).tap
<1>5. /\ c \in Seq(Message) /\ p \in Seq(Message)
      /\ QueueOf(c, FALSE, g, total) /\ QueueOf(p, TRUE, g, total)
      /\ Written(g, wire[g], writer[g], total) /\ Follows(wire[g], writer[g], Mine(g))
    BY <1>0, <1>1 DEF Queued, Ordered, Mine, Slot
<1>6. /\ m.for = g /\ m.n < total
      /\ \A k \in 1..Len(wire[g]) : Before(wire[g][k], m)
      /\ \A k \in 1..Len(t.ctrl) : Before(m, t.ctrl[k])
                                   /\ \A j \in 1..Len(wire[g]) : Before(wire[g][j], t.ctrl[k])
      /\ \A k \in 1..Len(t.tap) : Before(m, t.tap[k])
                                  /\ \A j \in 1..Len(wire[g]) : Before(wire[g][j], t.tap[k])
    <2>1. /\ \A k \in 1..Len(c) : \A j \in 1..Len(wire[g]) : Before(wire[g][j], c[k])
          /\ \A k \in 1..Len(p) : \A j \in 1..Len(wire[g]) : Before(wire[g][j], p[k])
        BY <1>5 DEF Follows, After
    <2>2. CASE c # << >> /\ m = Head(c) /\ t.ctrl = Tail(c) /\ t.tap = p
        <3>1. /\ \A k \in 1..Len(t.ctrl) : Before(m, t.ctrl[k])
              /\ \A k \in 1..Len(t.ctrl) : k + 1 \in 1..Len(c) /\ t.ctrl[k] = c[k + 1]
              /\ m = c[1] /\ 1 \in 1..Len(c)
            BY <1>5, <2>2, SortedTail DEF QueueOf
        <3>2. m.tap = FALSE /\ m.for = g /\ m.n < total
            BY <1>5, <3>1 DEF QueueOf
        <3>3. \A k \in 1..Len(t.tap) : Before(m, t.tap[k])
            BY <1>5, <2>2, <3>2 DEF QueueOf, Before
        <3>4. QED
            BY <2>1, <2>2, <3>1, <3>2, <3>3
    <2>3. CASE p # << >> /\ m = Head(p) /\ t.tap = Tail(p) /\ t.ctrl = c
        <3>1. /\ \A k \in 1..Len(t.tap) : Before(m, t.tap[k])
              /\ \A k \in 1..Len(t.tap) : k + 1 \in 1..Len(p) /\ t.tap[k] = p[k + 1]
              /\ m = p[1] /\ 1 \in 1..Len(p)
            BY <1>5, <2>3, SortedTail DEF QueueOf
        <3>2. m.tap = TRUE /\ m.for = g /\ m.n < total
            BY <1>5, <3>1 DEF QueueOf
        <3>3. \A k \in 1..Len(t.ctrl) : Before(m, t.ctrl[k])
            BY <1>5, <2>3, <3>2 DEF QueueOf, Before
        <3>4. QED
            BY <2>1, <2>3, <3>1, <3>2, <3>3
    <2>4. QED
        BY <2>2, <2>3 DEF Takes, Pops
<1>7. /\ Written(g, wire'[g], writer'[g], total')
      /\ Follows(wire'[g], writer'[g], slot'[at'[g]])
    <2>1. Written(g, wire'[g], writer'[g], total')
        BY <1>0, <1>3, <1>5, <1>6 DEF Written
    <2>2. Follows(wire'[g], writer'[g], t)
        BY <1>0, <1>3, <1>6 DEF Follows, After
    <2>3. QED
        BY <1>0, <1>2, <2>1, <2>2
<1>8. QED
    BY <1>4, <1>7 DEF Ordered

\* It is written to the session it was queued for, after the others.
LEMMA SendOrdered ==
    ASSUME TypeOK, Placed, Owned, Ordered, NEW g \in Fds, WriterSends(g)
    PROVE  Ordered'
<1>0. /\ wire \in [Fds -> Seq(Message)] /\ writer \in [Fds -> Thread]
      /\ slot' = slot /\ total' = total /\ pc' = pc /\ at' = at /\ writer[g].pc = "sending"
      /\ writer[g].msg \in Message
    BY DEF TypeOK, Placed, WriterSends
<1> DEFINE m == writer[g].msg
<1>1. pc[g] \in Using /\ Mine(g).fd = g
    BY <1>0, AtWork
<1>2. /\ wire'[g] = Append(wire[g], m)
      /\ \A f \in Fds : f # g => wire'[f] = wire[f]
      /\ writer'[g].pc # "sending" /\ \A f \in Fds : f # g => writer'[f] = writer[f]
    BY <1>0, <1>1 DEF WriterSends
<1>3. ASSUME NEW f \in Fds, f # g
      PROVE  /\ Written(f, wire'[f], writer'[f], total')
             /\ pc'[f] \in Using => Follows(wire'[f], writer'[f], slot'[at'[f]])
    BY <1>0, <1>2, <1>3 DEF Ordered
<1>4. /\ wire[g] \in Seq(Message) /\ Written(g, wire[g], writer[g], total)
      /\ Follows(wire[g], writer[g], slot[at[g]])
    BY <1>0, <1>1 DEF Ordered
<1>5. Written(g, wire'[g], writer'[g], total')
    <2>1. Sorted(wire'[g])
        BY <1>0, <1>2, <1>4, SortedAppend DEF Written
    <2>2. \A k \in 1..Len(wire'[g]) : wire'[g][k].for = g /\ wire'[g][k].n < total
        BY <1>0, <1>2, <1>4, InAppend DEF Written
    <2>3. QED
        BY <1>0, <1>2, <2>1, <2>2 DEF Written
<1>6. Follows(wire'[g], writer'[g], slot[at[g]])
    <2>1. ASSUME NEW x, After(wire[g], writer[g], x)
          PROVE  After(wire'[g], writer'[g], x)
        <3>1. ASSUME NEW k \in 1..Len(wire'[g]) PROVE Before(wire'[g][k], x)
            <4>1. wire'[g][k] = m \/ (k \in 1..Len(wire[g]) /\ wire'[g][k] = wire[g][k])
                BY <1>0, <1>2, <1>4, InAppend
            <4>2. QED
                BY <1>0, <2>1, <4>1 DEF After
        <3>2. QED
            BY <1>2, <3>1 DEF After
    <2>2. QED
        BY <1>4, <2>1 DEF Follows
<1>7. QED
    BY <1>0, <1>3, <1>5, <1>6 DEF Ordered

\* So every step keeps MessageInv.
LEMMA NextMessages ==
    TypeOK /\ Placed /\ ThreadInv /\ MessageInv /\ [Next]_vars => MessageInv'
<1> SUFFICES ASSUME TypeOK, Placed, ThreadInv, MessageInv, [Next]_vars PROVE MessageInv'
    OBVIOUS
<1>1. Queued'
    BY NextQueued DEF MessageInv
<1>2. SUFFICES ASSUME ~recycled' PROVE Ordered'
    BY <1>1 DEF MessageInv
<1>3. CASE Quiet
    BY <1>2, <1>3, QuietOrdered DEF MessageInv, Quiet
<1>4. CASE \E i \in Slots : \E t, m : Puts(i, t, m)
    BY <1>2, <1>4, PutOrdered DEF MessageInv, ThreadInv, Puts, Unmoved
<1>5. ASSUME NEW f \in Fds, NEW t, NEW m, Takes(f, t, m)
      PROVE  Ordered'
    <2>1. recycled' = recycled
        BY <1>5 DEF Takes, Unmoved
    <2>2. Owned /\ Queued /\ Ordered
        BY <1>2, <2>1 DEF MessageInv, ThreadInv
    <2>3. QED
        BY <1>5, <2>2, TakeOrdered
<1>6. ASSUME NEW f \in Fds, WriterSends(f)
      PROVE  Ordered'
    <2>1. recycled' = recycled
        BY <1>6 DEF WriterSends
    <2>2. Owned /\ Ordered
        BY <1>2, <2>1 DEF MessageInv, ThreadInv
    <2>3. QED
        BY <1>6, <2>2, SendOrdered
<1>7. QED
    BY <1>3, <1>4, <1>5, <1>6, StepKinds

-----------------------------------------------------------------------------
(* The writer: the theorems                                                *)

WriterInv == TypeOK /\ Placed /\ ThreadInv /\ FloodBacklog /\ MessageInv

\* The invariant holds of an empty registry ...
LEMMA InitWriterInv == Init => WriterInv
<1> SUFFICES ASSUME Init PROVE WriterInv
    OBVIOUS
<1>1. TypeOK /\ Placed
    BY InitPlaced
<1>2. ThreadInv
    BY DEF Init, ThreadInv, Owned, Using, Served
<1>3. \A i \in Slots : slot[i].ctrl = << >> /\ slot[i].tap = << >> /\ slot[i].pending = 0
    BY DEF Init, Cleared
<1>4. FloodBacklog
    BY <1>3, BytesEmpty, WriterAssumption DEF FloodBacklog
<1>5. Queued
    BY <1>3, QueueOfEmpty DEF Queued
<1>6. Ordered
    BY DEF Init, Ordered, Written, Sorted, Using
<1>7. QED
    BY <1>1, <1>2, <1>4, <1>5, <1>6 DEF WriterInv, MessageInv

\* ... is kept by every step ...
LEMMA NextWriterInv == WriterInv /\ [Next]_vars => WriterInv'
BY NextPlaced, NextOwned, NextInBudget, NextMessages DEF WriterInv

\* ... and holds of every behaviour.
LEMMA WriterInvariant == Spec => []WriterInv
<1>1. Init => WriterInv
    BY InitWriterInv
<1>2. WriterInv /\ [Next]_vars => WriterInv'
    BY NextWriterInv
<1>3. QED
    BY <1>1, <1>2, PTL DEF Spec

\* The slot's fields, the threads and the sockets hold what they may hold; and
\* g_sessions_mu is held only by a handler inside session_register.
THEOREM WriterTypes == Spec => []TypeOK
<1>1. WriterInv => TypeOK
    BY DEF WriterInv
<1>2. QED
    BY <1>1, WriterInvariant, PTL

\* session_enqueue_tap and session_queue_pop_locked keep the books: what is
\* pending is what waits in the TAP queue, and flooded frames never take more of
\* it than tap_queue_limit_bytes.  This holds of every slot, recycled or not.
THEOREM FloodsBounded == Spec => []FloodBacklog
<1>1. WriterInv => FloodBacklog
    BY DEF WriterInv
<1>2. QED
    BY <1>1, WriterInvariant, PTL

\* session_stop_writer joins the writer before handle_node ends the session's row
\* and closes the socket, if no slot was taken before its last writer was joined.
THEOREM ThreadOutlived == Spec => []WriterOutlived
<1>1. WriterInv => WriterOutlived
    BY DEF WriterInv, ThreadInv, Owned, WriterOutlived
<1>2. QED
    BY <1>1, WriterInvariant, PTL

\* Under the same condition session_writer_run writes a message only to the socket
\* of the session that session_enqueue_control or session_enqueue_tap found.
THEOREM RightSocket == Spec => []NoMisdelivery
<1>1. WriterInv => NoMisdelivery
    <2> SUFFICES ASSUME Ordered, NEW f \in Fds, NEW m \in ToSet(wire[f]), wire[f] \in Seq(Message)
                 PROVE  m.for = f
        BY DEF WriterInv, MessageInv, NoMisdelivery, TypeOK
    <2>1. PICK k \in 1..Len(wire[f]) : m = wire[f][k]
        BY DEF ToSet
    <2>2. QED
        BY <2>1 DEF Ordered, Written
<1>2. QED
    BY <1>1, WriterInvariant, PTL

\* Under the same condition it writes the messages of each queue in the order in
\* which they were queued, and none twice.
THEOREM SentInOrder == Spec => []InOrder
<1>1. WriterInv => InOrder
    <2> SUFFICES ASSUME Ordered, NEW f \in Fds, NEW j \in DOMAIN wire[f], NEW k \in DOMAIN wire[f],
                        wire[f] \in Seq(Message), j < k, wire[f][j].tap = wire[f][k].tap
                 PROVE  wire[f][j].n < wire[f][k].n
        BY DEF WriterInv, MessageInv, InOrder, TypeOK
    <2>1. j \in 1..Len(wire[f]) /\ k \in 1..Len(wire[f])
        OBVIOUS
    <2>2. QED
        BY <2>1 DEF Ordered, Written, Sorted, Before
<1>2. QED
    BY <1>1, WriterInvariant, PTL
=============================================================================
