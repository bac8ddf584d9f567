----------------------------- MODULE NodeServer -----------------------------
(***************************************************************************)
(* The run of the node server, ntap_a_node_server_run of node_server.c:    *)
(* how it starts, the two accept loops, the threads they start, and how it *)
(* ends.  The main thread accepts node and TAP connections and is          *)
(* the only one that ends the run: when it has accepted as many sessions   *)
(* as it was asked for, or when an accept, an allocation or the start of a *)
(* thread fails.  A second thread accepts SOCKS clients until it sees the  *)
(* flag `stop', which the main thread sets; since it may be blocked in     *)
(* accept, the main thread then connects to the SOCKS port itself.         *)
(*                                                                         *)
(* The threads of sessions and clients use g_sessions_mu and g_socks_mu as *)
(* long as they run; what they do is the subject of the other modules.     *)
(* SOCKS clients are always detached, sessions only when their number is   *)
(* not limited, so both may outlive the run's end.                         *)
(*                                                                         *)
(* A thread that is blocked in accept keeps the listening socket alive     *)
(* after another thread has closed its descriptor, and takes connections   *)
(* from it; an accept that begins after the close fails.                   *)
(***************************************************************************)
EXTENDS Integers, Sequences, FiniteSets

CONSTANTS
    Peers,    \* connections to the node port
    Clients,  \* connections to the SOCKS port
    Asked,    \* values of --max-sessions
    Wake      \* the connection the main thread makes itself

ASSUME ServerAssumption ==
    /\ Asked \subseteq Int
    /\ Wake \notin Clients

VARIABLES
    limit,     \* max_sessions
    main,      \* where the main thread is
    mutexes,   \* "none", "live" or "destroyed"
    tapOpen,   \* the main thread listens on listen_fd
    socksOpen, \* socks_listen_fd has not been closed
    session,   \* session[p]: the connection p and its thread
    listener,  \* where the thread of socks_listener_run is
    stop,      \* socks_args->stop
    backlog,   \* connections to the SOCKS port that wait for accept
    taken,     \* the connection the listener has accepted, in a sequence
    client,    \* client[c]: the connection c and its thread
    late       \* clients whose thread was started after stop was set

serverVars ==
    <<limit, main, mutexes, tapOpen, socksOpen, session, listener, stop, backlog, taken, client,
      late>>

mainVars == <<limit, main, mutexes, tapOpen, socksOpen, stop>>
socksVars == <<listener, backlog, taken, client, late>>

\* --once is --max-sessions 1; 0 and negative numbers are no limit.
SessionLimit(once, max) == IF once THEN 1 ELSE IF max < 0 THEN 0 ELSE max

ServerInit ==
    /\ limit \in {SessionLimit(once, max) : once \in BOOLEAN, max \in Asked}
    /\ main = "init"
    /\ mutexes = "none"
    /\ tapOpen = FALSE /\ socksOpen = FALSE
    /\ session = [p \in Peers |-> "away"]
    /\ listener = "off"
    /\ stop = FALSE
    /\ backlog = <<>> /\ taken = <<>>
    /\ client = [c \in Clients \cup {Wake} |-> "away"]
    /\ late = {}

Started == {p \in Peers : session[p] \in {"running", "over"}}
Running == {p \in Peers : session[p] = "running"}

-----------------------------------------------------------------------------
(* Starting                                                                *)

\* The database and the sockets of the platform come first; then the mutexes
\* are made and the registries emptied.
Prepare ==
    /\ main = "init"
    /\ \/ main' = "tap" /\ mutexes' = "live"
       \/ main' = "done" /\ UNCHANGED mutexes
    /\ UNCHANGED <<limit, tapOpen, socksOpen, session, stop, socksVars>>

ListenTap ==
    /\ main = "tap"
    /\ tapOpen' = TRUE
    /\ main' = "socks"
    /\ UNCHANGED <<limit, mutexes, socksOpen, session, stop, socksVars>>

ListenSocks ==
    /\ main = "socks"
    /\ socksOpen' = TRUE
    /\ main' = "listener"
    /\ UNCHANGED <<limit, mutexes, tapOpen, session, stop, socksVars>>

StartListener ==
    /\ main = "listener"
    /\ listener' = "check"
    /\ main' = "accept"
    /\ UNCHANGED <<limit, mutexes, tapOpen, socksOpen, session, stop, backlog, taken, client,
                   late>>

\* Faulty variant: only the socket that was opened last is closed.
StartFails_LeavesSocket ==
    /\ main \in {"tap", "socks", "listener"}
    /\ tapOpen' = (tapOpen /\ socksOpen) /\ socksOpen' = FALSE
    /\ mutexes' = "destroyed"
    /\ main' = "done"
    /\ client' = [c \in DOMAIN client |-> IF client[c] = "queued" THEN "over" ELSE client[c]]
    /\ backlog' = <<>>
    /\ UNCHANGED <<limit, session, stop, listener, taken, late>>

\* A socket, an allocation or the thread: what was made before is undone, and
\* connections that were waiting for an accept are lost.
StartFails ==
    /\ main \in {"tap", "socks", "listener"}
    /\ tapOpen' = FALSE /\ socksOpen' = FALSE
    /\ mutexes' = "destroyed"
    /\ main' = "done"
    /\ client' = [c \in DOMAIN client |-> IF client[c] = "queued" THEN "over" ELSE client[c]]
    /\ backlog' = <<>>
    /\ UNCHANGED <<limit, session, stop, listener, taken, late>>

-----------------------------------------------------------------------------
(* The accept loop of the main thread                                      *)

\* A connection is accepted and its session started: in this thread if there
\* is to be only one, else in a thread of its own.
AcceptNode(p) ==
    /\ main = "accept"
    /\ session[p] = "away"
    /\ session' = [session EXCEPT ![p] = "running"]
    /\ main' = IF limit = 1 THEN "inline"
               ELSE IF limit = 0 \/ Cardinality(Started) + 1 < limit THEN "accept" ELSE "join"
    /\ UNCHANGED <<limit, mutexes, tapOpen, socksOpen, stop, socksVars>>

\* accept, the allocation or pthread_create fails: the run ends.
AcceptFails ==
    /\ main = "accept"
    /\ main' = "join"
    /\ UNCHANGED <<limit, mutexes, tapOpen, socksOpen, session, stop, socksVars>>

\* node_session_run returns.
SessionEnds(p) ==
    /\ session[p] = "running"
    /\ session' = [session EXCEPT ![p] = "over"]
    /\ main' = IF main = "inline" THEN "join" ELSE main
    /\ UNCHANGED <<limit, mutexes, tapOpen, socksOpen, stop, socksVars>>

-----------------------------------------------------------------------------
(* The end                                                                 *)

\* Faulty variant: nobody waits for the sessions.
JoinSessions_Detached ==
    /\ main = "join"
    /\ main' = "stop"
    /\ UNCHANGED <<limit, mutexes, tapOpen, socksOpen, session, stop, socksVars>>

\* Threads are only remembered if their number is limited.
JoinSessions ==
    /\ main = "join"
    /\ limit > 1 => Running = {}
    /\ main' = "stop"
    /\ UNCHANGED <<limit, mutexes, tapOpen, socksOpen, session, stop, socksVars>>

\* Faulty variant: the flag is left alone.
SetStop_Forgotten ==
    /\ main = "stop"
    /\ main' = "wake"
    /\ UNCHANGED <<limit, mutexes, tapOpen, socksOpen, session, stop, socksVars>>

SetStop ==
    /\ main = "stop"
    /\ stop' = TRUE
    /\ main' = "wake"
    /\ UNCHANGED <<limit, mutexes, tapOpen, socksOpen, session, socksVars>>

\* ntap_tcp_connect to the SOCKS port; its failure is ignored.
WakeListener ==
    /\ main = "wake"
    /\ \/ backlog' = Append(backlog, Wake) /\ client' = [client EXCEPT ![Wake] = "queued"]
       \/ UNCHANGED <<backlog, client>>
    /\ main' = "close"
    /\ UNCHANGED <<limit, mutexes, tapOpen, socksOpen, session, stop, listener, taken, late>>

\* Connections that wait are lost, unless an accept still holds the socket.
CloseSocks ==
    /\ main = "close"
    /\ socksOpen' = FALSE
    /\ main' = "wait"
    /\ IF listener = "accept"
       THEN UNCHANGED <<backlog, client>>
       ELSE /\ backlog' = <<>>
            /\ client' = [c \in DOMAIN client |->
                             IF client[c] = "queued" THEN "over" ELSE client[c]]
    /\ UNCHANGED <<limit, mutexes, tapOpen, session, stop, listener, taken, late>>

JoinListener ==
    /\ main = "wait"
    /\ listener = "done"
    /\ tapOpen' = FALSE
    /\ main' = "destroy"
    /\ UNCHANGED <<limit, mutexes, socksOpen, session, stop, socksVars>>

\* The mutexes go, and with main's return the process and its threads.
Destroy ==
    /\ main = "destroy"
    /\ mutexes' = "destroyed"
    /\ main' = "done"
    /\ UNCHANGED <<limit, tapOpen, socksOpen, session, stop, socksVars>>

-----------------------------------------------------------------------------
(* socks_listener_run                                                      *)

\* A client connects: the socket listens as long as its descriptor is open or
\* an accept holds it.
Connect(c) ==
    /\ socksOpen \/ listener = "accept"
    /\ client[c] = "away"
    /\ client' = [client EXCEPT ![c] = "queued"]
    /\ backlog' = Append(backlog, c)
    /\ UNCHANGED <<mainVars, session, listener, taken, late>>

\* Faulty variant: the thread keeps a copy of the flag.
Stopped_Cached == FALSE

Stopped == stop

CheckStop ==
    /\ listener = "check"
    /\ listener' = IF Stopped THEN "done" ELSE "call"
    /\ UNCHANGED <<mainVars, session, backlog, taken, client, late>>

\* accept is entered; on a closed descriptor it fails at once.
EnterAccept ==
    /\ listener = "call"
    /\ listener' = IF socksOpen THEN "accept" ELSE "done"
    /\ UNCHANGED <<mainVars, session, backlog, taken, client, late>>

TakeClient ==
    /\ listener = "accept"
    /\ backlog # <<>>
    /\ taken' = <<Head(backlog)>>
    /\ backlog' = Tail(backlog)
    /\ listener' = "recheck"
    /\ UNCHANGED <<mainVars, session, client, late>>

\* accept fails, for lack of descriptors perhaps: no more SOCKS clients.  What
\* still waits is lost if the descriptor was closed meanwhile.
TakeFails ==
    /\ listener = "accept"
    /\ listener' = "done"
    /\ IF socksOpen
       THEN UNCHANGED <<backlog, client>>
       ELSE /\ backlog' = <<>>
            /\ client' = [c \in DOMAIN client |->
                             IF client[c] = "queued" THEN "over" ELSE client[c]]
    /\ UNCHANGED <<mainVars, session, taken, late>>

\* The flag is read ...
Recheck ==
    /\ listener = "recheck"
    /\ listener' = IF Stopped THEN "leave" ELSE "start"
    /\ UNCHANGED <<mainVars, session, backlog, taken, client, late>>

\* ... and only then is the client's thread started, or cannot be started.
StartClient ==
    /\ listener = "start"
    /\ \/ client' = [client EXCEPT ![Head(taken)] = "running"]
          /\ late' = IF stop THEN late \cup {Head(taken)} ELSE late
       \/ client' = [client EXCEPT ![Head(taken)] = "over"] /\ UNCHANGED late
    /\ taken' = <<>>
    /\ listener' = "check"
    /\ UNCHANGED <<mainVars, session, backlog>>

\* The connection is closed, and so is what still waits if the descriptor was.
LeaveListener ==
    /\ listener = "leave"
    /\ taken' = <<>>
    /\ client' = [c \in DOMAIN client |->
                     IF c = Head(taken) \/ (~socksOpen /\ client[c] = "queued")
                     THEN "over" ELSE client[c]]
    /\ backlog' = IF socksOpen THEN backlog ELSE <<>>
    /\ listener' = "done"
    /\ UNCHANGED <<mainVars, session, late>>

ClientEnds(c) ==
    /\ client[c] = "running"
    /\ client' = [client EXCEPT ![c] = "over"]
    /\ UNCHANGED <<mainVars, session, listener, backlog, taken, late>>

-----------------------------------------------------------------------------
Main ==
    \/ Prepare \/ ListenTap \/ ListenSocks \/ StartListener \/ StartFails
    \/ JoinSessions \/ SetStop \/ WakeListener \/ CloseSocks \/ JoinListener \/ Destroy

Listener ==
    \/ CheckStop \/ EnterAccept \/ TakeClient \/ Recheck \/ StartClient \/ LeaveListener

\* Nobody can do anything: the run is over, or it waits for a listener that
\* nothing wakes up.
Unwoken == main = "wait" /\ listener = "accept" /\ backlog = <<>>
RunOver ==
    /\ main = "done" \/ Unwoken
    /\ UNCHANGED serverVars

ServerNext ==
    \/ Main \/ AcceptFails
    \/ \E p \in Peers : AcceptNode(p) \/ SessionEnds(p)
    \/ Listener \/ TakeFails
    \/ \E c \in Clients : Connect(c)
    \/ \E c \in DOMAIN client : ClientEnds(c)
    \/ RunOver

ServerSpec == ServerInit /\ [][ServerNext]_serverVars

\* Both threads run; nobody has to connect, to leave or to fail.
FairServerSpec == ServerSpec /\ WF_serverVars(Main) /\ WF_serverVars(Listener)

-----------------------------------------------------------------------------
(* Properties                                                              *)

ServerTypeOK ==
    /\ limit \in Nat
    /\ main \in {"init", "tap", "socks", "listener", "accept", "inline", "join", "stop", "wake",
                 "close", "wait", "destroy", "done"}
    /\ mutexes \in {"none", "live", "destroyed"}
    /\ tapOpen \in BOOLEAN /\ socksOpen \in BOOLEAN /\ stop \in BOOLEAN
    /\ session \in [Peers -> {"away", "running", "over"}]
    /\ listener \in {"off", "check", "call", "accept", "recheck", "start", "leave", "done"}
    /\ backlog \in Seq(Clients \cup {Wake})
    /\ taken \in Seq(Clients \cup {Wake}) /\ Len(taken) <= 1
    /\ client \in [Clients \cup {Wake} -> {"away", "queued", "running", "over"}]
    /\ late \subseteq Clients

\* A limited run outlives its sessions: they and the listener are over before
\* the mutexes they use are destroyed.  Without a limit the sessions are
\* detached, and only the end of the process ends them.
MutexOutlivesThreads ==
    mutexes # "live" => /\ listener \in {"off", "done"}
                        /\ limit # 0 => Running = {}

\* The main thread's own connection is closed by the listener or lost, never
\* served as a client: a flag read before accept alone would let it through.
WakeNotServed == client[Wake] # "running"

\* The flag is set while the listener may have passed both tests: that is one
\* client at most, however many are waiting.
OneLateClient == Cardinality(late) <= 1

\* However the run ends, at its start, in its loop or at its limit, no socket
\* stays open, no connection waits for an accept, and no mutex is left.
CleanEnd ==
    main = "done" => /\ ~tapOpen /\ ~socksOpen
                     /\ mutexes # "live"
                     /\ listener \in {"off", "done"}
                     /\ (listener = "done" /\ stop) => backlog = <<>>

\* The end is reached once the main thread's connection stands: the listener is
\* woken wherever it is.  (close alone does not wake it: see Unwoken.)
WokenRunEnds == (main = "close" /\ client[Wake] = "queued") ~> main = "done"
=============================================================================
