---------------------------- MODULE SessionWriter ----------------------------
(***************************************************************************)
(* The outbound side of a session of node_server.c: the slot of g_sessions *)
(* as a piece of memory, its control and TAP queues, the writer thread     *)
(* that empties them, and the handler that starts the thread and, at the   *)
(* end, stops and joins it.                                                *)
(*                                                                         *)
(* session_unregister frees the slot first and stops the writer only after *)
(* g_sessions_mu is released and socks_stream_close_node has run.  In      *)
(* between another handler may register: it takes the first free slot,     *)
(* clears it and starts a second writer on it, while the old handler and   *)
(* the old writer still hold a pointer to that slot.  `recycled' records   *)
(* that this happened.  Every step reads the slot's memory as it is then,  *)
(* so the model follows such a run too; what the program promises, it      *)
(* promises of the runs in which it did not happen, and the properties     *)
(* that need this say so.                                                  *)
(*                                                                         *)
(* Each section under writer_mu is one step.  A descriptor is used for one *)
(* connection (TapHub has the reuse of descriptors).  A message is its     *)
(* queue, its size and the session it was queued for.  Allocation may      *)
(* fail.  What the handler does in its loop is left to the other modules,  *)
(* except that it may hang in a send to a SOCKS client, which has no       *)
(* timeout.                                                                *)
(***************************************************************************)
EXTENDS Integers, Sequences, FiniteSets, SequencesExt

CONSTANTS
    Fds,         \* connections; also names the handler and the writer thread of each
    MaxSlots,    \* NTAP_A_MAX_ACTIVE_SESSIONS
    Limit,       \* tap_queue_limit_bytes
    Sizes,       \* queued_msg_bytes of the TAP frames
    Seconds,     \* values of `now' the relaying handlers have read
    MaxMessages, \* bound: messages put into queues in one behaviour
    None

Slots == 1..MaxSlots

ASSUME WriterAssumption ==
    /\ MaxSlots \in Nat \ {0}
    /\ Limit \in Nat \ {0}
    /\ Sizes \subseteq Nat \ {0}
    /\ Seconds \subseteq Nat \ {0}
    /\ None \notin Fds

VARIABLES
    hub,      \* g_sessions_mu: the handler inside session_register, or None
    pc,       \* pc[f]: where the handler of f is
    at,       \* at[f]: the slot the handler registered
    slot,     \* slot[i]: g_sessions[i]
    writer,   \* writer[f]: the writer thread the handler of f started
    shut,     \* sockets that were shut down
    wire,     \* wire[f]: the messages written to socket f
    recycled, \* a slot was taken while its last session's writer was not joined
    total     \* messages queued so far: the next message's number

vars == <<hub, pc, at, slot, writer, shut, wire, recycled, total>>

Message == [tap : BOOLEAN, flood : BOOLEAN, bytes : Nat, for : Fds, n : Nat]

Slot == [active : BOOLEAN, fd : Fds \cup {None}, started : BOOLEAN, stop : BOOLEAN,
         thread : Fds \cup {None}, ctrl : Seq(Message), tap : Seq(Message), pending : Nat,
         winSec : Nat, winBytes : Nat, waiters : SUBSET Fds]

Thread == [pc : {"none", "loop", "waiting", "sending", "touching", "failing", "done"},
           msg : Message \cup {None}]

\* memset(&g_sessions[i], 0, ...).  Threads blocked in cond_wait stay blocked.
Cleared(waiters) ==
    [active |-> FALSE, fd |-> None, started |-> FALSE, stop |-> FALSE, thread |-> None,
     ctrl |-> <<>>, tap |-> <<>>, pending |-> 0, winSec |-> 0, winBytes |-> 0,
     waiters |-> waiters]

Init ==
    /\ hub = None
    /\ pc = [f \in Fds |-> "new"]
    /\ at = [f \in Fds |-> None]
    /\ slot = [i \in Slots |-> Cleared({})]
    /\ writer = [f \in Fds |-> [pc |-> "none", msg |-> None]]
    /\ shut = {}
    /\ wire = [f \in Fds |-> <<>>]
    /\ recycled = FALSE
    /\ total = 0

Goto(f, l) == pc' = [pc EXCEPT ![f] = l]
WriterGoto(f, l) == writer' = [writer EXCEPT ![f].pc = l]

-----------------------------------------------------------------------------
(* session_register                                                        *)

FreeSlots == {i \in Slots : ~slot[i].active}

\* The handler of another connection that has yet to join the writer of slot i.
StillUses(i) == {f \in Fds : at[f] = i /\ pc[f] \in {"leaving", "stopping", "joining"}}

\* Under g_sessions_mu: the first free slot is cleared, filled and activated.
RegisterClear(f) ==
    /\ pc[f] = "new"
    /\ hub = None
    /\ \E i \in FreeSlots :
          /\ \A j \in FreeSlots : i <= j
          /\ slot' = [slot EXCEPT ![i] =
                        [Cleared(slot[i].waiters) EXCEPT !.active = TRUE, !.fd = f]]
          /\ at' = [at EXCEPT ![f] = i]
          /\ recycled' = (recycled \/ StillUses(i) # {})
    /\ hub' = f
    /\ Goto(f, "starting")
    /\ UNCHANGED <<writer, shut, wire, total>>

\* ... the writer thread is started, and g_sessions_mu released.
RegisterStart(f) ==
    /\ pc[f] = "starting"
    /\ slot' = [slot EXCEPT ![at[f]].thread = f, ![at[f]].started = TRUE]
    /\ WriterGoto(f, "loop")
    /\ hub' = None
    /\ Goto(f, "live")
    /\ UNCHANGED <<at, shut, wire, recycled, total>>

\* Faulty variant: the error path returns with g_sessions_mu held.
RegisterUndo_KeepsLock(f) ==
    /\ pc[f] = "starting"
    /\ slot' = [slot EXCEPT ![at[f]].active = FALSE]
    /\ Goto(f, "closed")
    /\ UNCHANGED <<hub, at, writer, shut, wire, recycled, total>>

\* The socket cannot be made nonblocking or the thread cannot be created.
RegisterUndo(f) ==
    /\ pc[f] = "starting"
    /\ slot' = [slot EXCEPT ![at[f]].active = FALSE]
    /\ hub' = None
    /\ Goto(f, "closed")
    /\ UNCHANGED <<at, writer, shut, wire, recycled, total>>

\* "active session limit reached"
RegisterFull(f) ==
    /\ pc[f] = "new"
    /\ hub = None
    /\ FreeSlots = {}
    /\ Goto(f, "closed")
    /\ UNCHANGED <<hub, at, slot, writer, shut, wire, recycled, total>>

-----------------------------------------------------------------------------
(* Queueing: by any handler or SOCKS thread, under g_sessions_mu           *)

\* session_find_locked returned this slot, and its writer takes messages.
Accepts(i) ==
    /\ hub = None
    /\ slot[i].active
    /\ slot[i].started
    /\ ~slot[i].stop
    /\ total < MaxMessages

\* cond_signal after the slot has become s: one of the waiting threads is woken.
Signalled(i, s) ==
    IF s.waiters = {}
    THEN slot' = [slot EXCEPT ![i] = s] /\ UNCHANGED writer
    ELSE \E w \in s.waiters :
            /\ slot' = [slot EXCEPT ![i] = [s EXCEPT !.waiters = @ \ {w}]]
            /\ WriterGoto(w, "loop")

\* Faulty variant: the writer is not signalled.
EnqueueControl_NoSignal(i) ==
    /\ Accepts(i)
    /\ slot' = [slot EXCEPT ![i].ctrl =
          Append(@, [tap |-> FALSE, flood |-> FALSE, bytes |-> 0, for |-> slot[i].fd, n |-> total])]
    /\ total' = total + 1
    /\ UNCHANGED <<hub, pc, at, writer, shut, wire, recycled>>

\* Faulty variant: queue_append makes the message the head.
EnqueueControl_AtHead(i) ==
    /\ Accepts(i)
    /\ LET m == [tap |-> FALSE, flood |-> FALSE, bytes |-> 0, for |-> slot[i].fd, n |-> total]
       IN Signalled(i, [slot[i] EXCEPT !.ctrl = <<m>> \o @])
    /\ total' = total + 1
    /\ UNCHANGED <<hub, pc, at, shut, wire, recycled>>

\* session_enqueue_control
EnqueueControl(i) ==
    /\ Accepts(i)
    /\ LET m == [tap |-> FALSE, flood |-> FALSE, bytes |-> 0, for |-> slot[i].fd, n |-> total]
       IN Signalled(i, [slot[i] EXCEPT !.ctrl = Append(@, m)])
    /\ total' = total + 1
    /\ UNCHANGED <<hub, pc, at, shut, wire, recycled>>

\* The one-second window of flooded bytes; a unicast frame leaves it alone.
InWindow(s, flood, now) ==
    IF flood /\ s.winSec # now THEN [s EXCEPT !.winSec = now, !.winBytes = 0] ELSE s

\* Faulty variant: the frame's own size is not counted.
OverBudget_IgnoresFrame(s, bytes) == s.pending > Limit \/ s.winBytes > Limit

OverBudget(s, bytes) ==
    \/ bytes > Limit
    \/ s.pending > Limit - bytes
    \/ s.winBytes > Limit - bytes

\* session_enqueue_tap.  Only flooded frames are held to the budget.
EnqueueTap(i, bytes, flood, now) ==
    /\ Accepts(i)
    /\ LET s == InWindow(slot[i], flood, now)
           m == [tap |-> TRUE, flood |-> flood, bytes |-> bytes, for |-> s.fd, n |-> total]
       IN /\ ~(flood /\ OverBudget(s, bytes))
          /\ Signalled(i, [s EXCEPT !.tap = Append(@, m),
                                    !.pending = @ + bytes,
                                    !.winBytes = IF flood THEN @ + bytes ELSE @])
    /\ total' = total + 1
    /\ UNCHANGED <<hub, pc, at, shut, wire, recycled>>

\* A flooded frame over the budget is dropped, or memory is short.
DropTap(i, flood, now) ==
    /\ Accepts(i)
    /\ slot' = [slot EXCEPT ![i] = InWindow(slot[i], flood, now)]
    /\ UNCHANGED <<hub, pc, at, writer, shut, wire, recycled, total>>

-----------------------------------------------------------------------------
(* session_writer_run, by the writer thread f; it knows its slot only      *)

Mine(f) == slot[at[f]]

\* session_queue_clear_locked
Emptied(s) == [s EXCEPT !.ctrl = <<>>, !.tap = <<>>, !.pending = 0]

WriterStops(f) ==
    /\ writer[f].pc = "loop"
    /\ Mine(f).stop
    /\ slot' = [slot EXCEPT ![at[f]] = Emptied(@)]
    /\ WriterGoto(f, "done")
    /\ UNCHANGED <<hub, pc, at, shut, wire, recycled, total>>

\* cond_wait
WriterWaits(f) ==
    /\ writer[f].pc = "loop"
    /\ ~Mine(f).stop /\ Mine(f).ctrl = <<>> /\ Mine(f).tap = <<>>
    /\ slot' = [slot EXCEPT ![at[f]].waiters = @ \cup {f}]
    /\ WriterGoto(f, "waiting")
    /\ UNCHANGED <<hub, pc, at, shut, wire, recycled, total>>

\* cond_wait may return without a signal.
WriterWakes(f) ==
    /\ writer[f].pc = "waiting"
    /\ slot' = [slot EXCEPT ![at[f]].waiters = @ \ {f}]
    /\ WriterGoto(f, "loop")
    /\ UNCHANGED <<hub, pc, at, shut, wire, recycled, total>>

\* session_queue_pop_locked: control messages first.
Popped(s) ==
    IF s.ctrl # <<>>
    THEN [s EXCEPT !.ctrl = Tail(@)]
    ELSE [s EXCEPT !.tap = Tail(@),
                   !.pending = IF @ >= Head(s.tap).bytes THEN @ - Head(s.tap).bytes ELSE 0]

WriterPops(f) ==
    /\ writer[f].pc = "loop"
    /\ ~Mine(f).stop
    /\ Mine(f).ctrl \o Mine(f).tap # <<>>
    /\ writer' = [writer EXCEPT ![f] =
                    [pc |-> "sending", msg |-> Head(Mine(f).ctrl \o Mine(f).tap)]]
    /\ slot' = [slot EXCEPT ![at[f]] = Popped(@)]
    /\ UNCHANGED <<hub, pc, at, shut, wire, recycled, total>>

\* ntap_send_msg_timeout on session->fd as the slot has it now.  A sent TAP
\* frame is added to the session's row in the database.
WriterSends(f) ==
    /\ writer[f].pc = "sending"
    /\ Mine(f).fd # None
    /\ Mine(f).fd \notin shut
    /\ pc[Mine(f).fd] # "closed"
    /\ wire' = [wire EXCEPT ![Mine(f).fd] = Append(@, writer[f].msg)]
    /\ writer' = [writer EXCEPT ![f] =
                    [pc |-> IF writer[f].msg.tap THEN "touching" ELSE "loop", msg |-> None]]
    /\ UNCHANGED <<hub, pc, at, slot, shut, recycled, total>>

WriterTouches(f) ==
    /\ writer[f].pc = "touching"
    /\ WriterGoto(f, "loop")
    /\ UNCHANGED <<hub, pc, at, slot, shut, wire, recycled, total>>

\* Faulty variant: the socket is left open.
WriterFails_KeepsSocket(f) ==
    /\ writer[f].pc = "sending"
    /\ writer' = [writer EXCEPT ![f] = [pc |-> "failing", msg |-> None]]
    /\ UNCHANGED <<hub, pc, at, slot, shut, wire, recycled, total>>

\* The peer is gone or took nothing for NTAP_A_WRITER_STALL_TIMEOUT_MS: the
\* socket is shut down, so that the handler's recv ends too.  (ntap_send_msg_-
\* timeout sends without MSG_NOSIGNAL and nothing ignores SIGPIPE, so on POSIX a
\* peer that is gone may end the process instead, which adds no step.)
WriterFails(f) ==
    /\ writer[f].pc = "sending"
    /\ shut' = shut \cup ({Mine(f).fd} \ {None})
    /\ writer' = [writer EXCEPT ![f] = [pc |-> "failing", msg |-> None]]
    /\ UNCHANGED <<hub, pc, at, slot, wire, recycled, total>>

WriterGivesUp(f) ==
    /\ writer[f].pc = "failing"
    /\ slot' = [slot EXCEPT ![at[f]] = [Emptied(@) EXCEPT !.stop = TRUE]]
    /\ WriterGoto(f, "done")
    /\ UNCHANGED <<hub, pc, at, shut, wire, recycled, total>>

-----------------------------------------------------------------------------
(* session_unregister and session_stop_writer, by the handler              *)

\* socks_stream_send_to_client: the handler of a node's session hands the data of
\* a SOCKS_DATA message to ntap_send_all, which waits for the client without a
\* timeout; shutting the session's own socket down does not end it.
SendToClient(f) ==
    /\ pc[f] = "live"
    /\ Goto(f, "held")
    /\ UNCHANGED <<hub, at, slot, writer, shut, wire, recycled, total>>

\* The client took the data, or is gone.
SendEnds(f) ==
    /\ pc[f] = "held"
    /\ Goto(f, "live")
    /\ UNCHANGED <<hub, at, slot, writer, shut, wire, recycled, total>>

\* The handler's loop ends: recv failed, or it broke off.
Unregister(f) ==
    /\ pc[f] = "live"
    /\ hub = None
    /\ slot' = [slot EXCEPT ![at[f]].active = FALSE]
    /\ Goto(f, "leaving")
    /\ UNCHANGED <<hub, at, writer, shut, wire, recycled, total>>

\* Nothing to stop: writer_started is 0 (only in a recycled slot).
StopNothing(f) ==
    /\ pc[f] = "leaving"
    /\ ~Mine(f).started
    /\ Goto(f, "ending")
    /\ UNCHANGED <<hub, at, slot, writer, shut, wire, recycled, total>>

\* Faulty variant: a waiting writer is not woken.
StopWriter_NoSignal(f) ==
    /\ pc[f] = "leaving"
    /\ Mine(f).started
    /\ slot' = [slot EXCEPT ![at[f]].stop = TRUE]
    /\ Goto(f, "stopping")
    /\ UNCHANGED <<hub, at, writer, shut, wire, recycled, total>>

StopWriter(f) ==
    /\ pc[f] = "leaving"
    /\ Mine(f).started
    /\ Signalled(at[f], [Mine(f) EXCEPT !.stop = TRUE])
    /\ Goto(f, "stopping")
    /\ UNCHANGED <<hub, at, shut, wire, recycled, total>>

ShutDown(f) ==
    /\ pc[f] = "stopping"
    /\ shut' = shut \cup ({Mine(f).fd} \ {None})
    /\ Goto(f, "joining")
    /\ UNCHANGED <<hub, at, slot, writer, wire, recycled, total>>

\* Faulty variant: the thread is not waited for.
Join_Skipped(f) ==
    /\ pc[f] = "joining"
    /\ slot' = [slot EXCEPT ![at[f]].started = FALSE]
    /\ Goto(f, "ending")
    /\ UNCHANGED <<hub, at, writer, shut, wire, recycled, total>>

\* Waits for the thread the slot names now.  (In a recycled slot it may name
\* none: the handler is stuck, or the process crashes, which adds no step.)
Join(f) ==
    /\ pc[f] = "joining"
    /\ Mine(f).thread # None
    /\ writer[Mine(f).thread].pc = "done"
    /\ slot' = [slot EXCEPT ![at[f]].started = FALSE]
    /\ Goto(f, "ending")
    /\ UNCHANGED <<hub, at, writer, shut, wire, recycled, total>>

\* The session's row is closed, then the socket.
End(f) ==
    /\ pc[f] = "ending"
    /\ Goto(f, "closed")
    /\ UNCHANGED <<hub, at, slot, writer, shut, wire, recycled, total>>

-----------------------------------------------------------------------------
Register(f) == RegisterClear(f) \/ RegisterStart(f) \/ RegisterUndo(f) \/ RegisterFull(f)

Writer(f) ==
    \/ WriterStops(f) \/ WriterWaits(f) \/ WriterPops(f) \/ WriterSends(f)
    \/ WriterTouches(f) \/ WriterFails(f) \/ WriterGivesUp(f)

Loop(f) == SendToClient(f) \/ SendEnds(f) \/ Unregister(f)

Stop(f) == StopNothing(f) \/ StopWriter(f) \/ ShutDown(f) \/ Join(f) \/ End(f)

\* Every connection has been served, or the process crashed in a recycled slot.
\* Any other state without a step is a deadlock.
Finished ==
    /\ recycled \/ \A f \in Fds : pc[f] = "closed"
    /\ UNCHANGED vars

Next ==
    \/ \E f \in Fds : Register(f) \/ Writer(f) \/ WriterWakes(f) \/ Loop(f) \/ Stop(f)
    \/ \E i \in Slots :
          \/ EnqueueControl(i)
          \/ \E flood \in BOOLEAN, now \in Seconds :
                DropTap(i, flood, now) \/ \E bytes \in Sizes : EnqueueTap(i, bytes, flood, now)
    \/ Finished

Spec == Init /\ [][Next]_vars

\* Threads run, the writer's sends end within the stall timeout, and recv on a
\* socket that was shut down returns.  Nothing makes a peer hang up or a SOCKS
\* client take what its node sends it, and cond_wait need not return without a
\* signal.
Fairness ==
    \A f \in Fds :
        /\ WF_vars(Register(f))
        /\ WF_vars(Writer(f))
        /\ WF_vars(Stop(f))
        /\ WF_vars(f \in shut /\ Unregister(f))

FairSpec == Spec /\ Fairness

-----------------------------------------------------------------------------
(* Correctness                                                             *)

TypeOK ==
    /\ hub \in {f \in Fds : pc[f] = "starting"} \cup {None}
    /\ pc \in [Fds -> {"new", "starting", "live", "held", "leaving", "stopping",
                       "joining", "ending", "closed"}]
    /\ at \in [Fds -> Slots \cup {None}]
    /\ slot \in [Slots -> Slot]
    /\ writer \in [Fds -> Thread]
    /\ shut \subseteq Fds
    /\ wire \in [Fds -> Seq(Message)]
    /\ recycled \in BOOLEAN
    /\ total \in Nat

\* The sum of a sequence of numbers.
Sum(w) ==
    LET upTo[k \in 0..Len(w)] == IF k = 0 THEN 0 ELSE upTo[k - 1] + w[k]
    IN upTo[Len(w)]

Bytes(q) == Sum([k \in DOMAIN q |-> q[k].bytes])
FloodedBytes(q) == Sum([k \in DOMAIN q |-> IF q[k].flood THEN q[k].bytes ELSE 0])

\* Flooded frames never take more of a session's queue than the limit, however
\* many unicast frames, which no limit holds back, are queued between them; and
\* tap_pending_bytes, which session_enqueue_tap tests, is what waits in the TAP
\* queue, so the budget neither leaks nor starves, even in a recycled slot.
FloodBacklog ==
    \A i \in Slots : /\ slot[i].pending = Bytes(slot[i].tap)
                     /\ FloodedBytes(slot[i].tap) <= Limit

\* A message is written only to the socket of the session it was queued for.
NoMisdelivery ==
    recycled \/ \A f \in Fds : \A m \in ToSet(wire[f]) : m.for = f

\* Within each of the two queues messages are written in the order they were
\* queued, and at most once.
InOrder ==
    recycled \/ \A f \in Fds : \A i, j \in DOMAIN wire[f] :
        i < j /\ wire[f][i].tap = wire[f][j].tap /\ wire[f][i].for = wire[f][j].for
        => wire[f][i].n < wire[f][j].n

\* The writer is gone before its handler ends the session's row, closes the
\* socket and leaves the slot's mutex destroyed.
WriterOutlived ==
    recycled \/ \A f \in Fds :
        pc[f] \in {"ending", "closed"} => writer[f].pc \in {"none", "done"}

\* A handler that starts to stop its writer gets to the end: the join returns
\* whatever the writer is doing at that moment.
StopReturns ==
    [](~recycled) => \A f \in Fds : pc[f] = "leaving" ~> pc[f] = "closed"

\* A queued control message is written or the session ends: no wakeup is lost.
ControlDrains ==
    [](~recycled) => \A i \in Slots : slot[i].ctrl # <<>> ~> slot[i].ctrl = <<>>

\* A peer that stalls the writer loses its session, unless its handler hangs, for
\* good or again and again, in sends to SOCKS clients.
StallEndsSession ==
    [](~recycled) => \A f \in Fds :
        ([]<>(pc[f] = "held")) \/ (writer[f].pc = "failing" ~> pc[f] = "closed")
=============================================================================
