------------------------------- MODULE TapHub -------------------------------
(***************************************************************************)
(* The TAP hub of NTAP-A: the registry of live sessions, the MAC table and *)
(* the per-network flood counters of node_server.c, all guarded by         *)
(* g_sessions_mu, and the handler threads that use them.                   *)
(*                                                                         *)
(* One handler thread serves one accepted socket.  It authenticates the    *)
(* peer, registers a session, relays the TAP frames it receives and, when  *)
(* its loop ends, unregisters the session and closes the socket; only then *)
(* can the operating system hand the same descriptor to a new connection.  *)
(*                                                                         *)
(* relay_tap_frame reads the clock BEFORE it takes g_sessions_mu, so the   *)
(* time it works with may be older than the time another handler already   *)
(* wrote into the tables.  Receive and the Relay actions are therefore     *)
(* separate steps; everything under the mutex is one step.                 *)
(*                                                                         *)
(* Abstracted: the slot numbers of the arrays (an entry is a member of a   *)
(* set, a free slot is spare capacity), frame contents beyond the two      *)
(* addresses, and the outbound queues (a queue may refuse a frame: see     *)
(* SessionWriter).  Frames shorter than 14 bytes return before any state   *)
(* is read and are left out.                                               *)
(***************************************************************************)
EXTENDS Integers, FiniteSets

CONSTANTS
    Fds,             \* socket descriptors of the TAP listener's connections
    Networks,        \* network ids
    Macs,            \* unicast source addresses, i.e. those that can be learned
    Groups,          \* group addresses: as a destination flooded, as a source not learned
    L2Control,       \* those of them in 01:80:c2:00:00:00..0f
    Configs,         \* the roles and runtime configurations sessions are given
    MaxSessions,     \* NTAP_A_MAX_ACTIVE_SESSIONS
    MaxMacEntries,   \* NTAP_A_MAX_MAC_ENTRIES
    MaxRateEntries,  \* NTAP_A_MAX_NETWORK_RATE_ENTRIES
    MoveWindow,      \* NTAP_A_MAC_MOVE_WINDOW_SEC
    FreezeThreshold, \* NTAP_A_MAC_MOVE_FREEZE_THRESHOLD
    FreezeSec,       \* NTAP_A_MAC_FREEZE_SEC
    MaxTime,         \* bound: the clock stops here
    MaxLag,          \* bound: seconds a handler may wait for g_sessions_mu
    None             \* a handler that has not authenticated has no network

(***************************************************************************)
(* What session_register is given: the peer's role and what a session      *)
(* takes from ntap_a_runtime_config_t.  The database layer replaces a zero *)
(* by a default, so every limit is positive.                               *)
(***************************************************************************)
Config == [client    : BOOLEAN,    \* is_tap_client
           ttl       : Nat \ {0},  \* mac_ttl_sec
           netLimit  : Nat \ {0},  \* broadcast_limit_pps
           sessLimit : Nat \ {0},  \* session_broadcast_limit_pps
           maxMac    : Nat \ {0},  \* max_mac_per_session
           c2c       : BOOLEAN,    \* allow_client_to_client
           l2        : BOOLEAN]    \* allow_l2_control

ASSUME ConstantsAssumption ==
    /\ Configs \subseteq Config /\ Configs # {}
    /\ Groups \cap Macs = {}
    /\ L2Control \subseteq Groups
    /\ None \notin Networks
    /\ {MaxSessions, MaxMacEntries, MaxRateEntries} \subseteq Nat \ {0}
    /\ FreezeThreshold \in Nat \ {0, 1}   \* a single move does not freeze an address
    /\ {MoveWindow, FreezeSec, MaxTime, MaxLag} \subseteq Nat
    /\ IsFiniteSet(Networks)

VARIABLES
    clock,     \* ntap_time_unix_sec()
    pc,        \* pc[f]: where the handler thread of socket f is
    authNet,   \* authNet[f]: the handler's auth_ok.network_id
    pending,   \* frames received, their time read, not yet under the mutex
    sessions,  \* the active slots of g_sessions
    mac,       \* the active slots of g_mac_table
    rates,     \* g_network_rates; sec = 0 says the network has no slot
    out        \* what relay_tap_frame did in the last step: mode, source, receivers

handlerVars == <<pc, authNet>>
hubVars == <<sessions, mac, rates>>
vars == <<clock, pc, authNet, pending, sessions, mac, rates, out>>

Session == [fd : Fds, net : Networks, cfg : Configs, floodSec : Nat, floodCount : Nat]
MacEntry == [fd : Fds, net : Networks, mac : Macs, ttl : Nat, seen : Nat,
             window : Nat, moves : Nat, frozen : Nat]
Frame == [fd : Fds, src : Macs \cup Groups, dst : Macs \cup Groups, now : Nat]
Window == [sec : Nat, count : Nat]
Modes == {"none", "drop_l2", "drop_mac_freeze", "drop_client", "drop_rate",
          "unicast", "flood"}

\* The last step was not a relay.
Idle == [mode |-> "none", from |-> None, to |-> {}]

Init ==
    /\ clock = 1
    /\ pc = [f \in Fds |-> "free"]
    /\ authNet = [f \in Fds |-> None]
    /\ pending = {}
    /\ sessions = {}
    /\ mac = {}
    /\ rates = [n \in Networks |-> [sec |-> 0, count |-> 0]]
    /\ out = Idle

-----------------------------------------------------------------------------
(* The clock and the life of a connection                                  *)

Tick ==
    /\ clock < MaxTime
    /\ \A p \in pending : clock + 1 - p.now <= MaxLag
    /\ clock' = clock + 1
    /\ out' = Idle
    /\ UNCHANGED <<handlerVars, pending, hubVars>>

\* accept() returned descriptor f and a handler thread was started for it.
Accept(f) ==
    /\ pc[f] = "free"
    /\ pc' = [pc EXCEPT ![f] = "opening"]
    /\ out' = Idle
    /\ UNCHANGED <<clock, authNet, pending, hubVars>>

\* handle_node gives up before a session is registered: bad handshake, failed
\* authentication, database error, no free slot, no writer thread.
GiveUp(f) ==
    /\ pc[f] = "opening"
    /\ pc' = [pc EXCEPT ![f] = "closing"]
    /\ out' = Idle
    /\ UNCHANGED <<clock, authNet, pending, hubVars>>

\* session_register: the slot is cleared, filled and made active in one
\* critical section.
Register(f, n, cfg) ==
    /\ pc[f] = "opening"
    /\ Cardinality(sessions) < MaxSessions
    /\ sessions' = sessions \cup
          {[fd |-> f, net |-> n, cfg |-> cfg, floodSec |-> 0, floodCount |-> 0]}
    /\ pc' = [pc EXCEPT ![f] = "live"]
    /\ authNet' = [authNet EXCEPT ![f] = n]
    /\ out' = Idle
    /\ UNCHANGED <<clock, pending, mac, rates>>

\* Faulty variant: the addresses are left to mac_age_locked.
Unregister_KeepsMacs(f) ==
    /\ pc[f] = "live"
    /\ \A p \in pending : p.fd # f
    /\ sessions' = {s \in sessions : s.fd # f}
    /\ pc' = [pc EXCEPT ![f] = "closing"]
    /\ out' = Idle
    /\ UNCHANGED <<clock, authNet, pending, mac, rates>>

\* session_unregister: forget every MAC entry of the descriptor and free the
\* session's slot.
Unregister(f) ==
    /\ pc[f] = "live"
    /\ \A p \in pending : p.fd # f
    /\ mac' = {e \in mac : e.fd # f}
    /\ sessions' = {s \in sessions : s.fd # f}
    /\ pc' = [pc EXCEPT ![f] = "closing"]
    /\ out' = Idle
    /\ UNCHANGED <<clock, authNet, pending, rates>>

\* node_session_run closes the socket after handle_node has returned.
Close(f) ==
    /\ pc[f] = "closing"
    /\ pc' = [pc EXCEPT ![f] = "free"]
    /\ authNet' = [authNet EXCEPT ![f] = None]
    /\ out' = Idle
    /\ UNCHANGED <<clock, pending, hubVars>>

-----------------------------------------------------------------------------
(* The MAC table                                                           *)

\* session_find_locked / session_active_locked
Sessions(f, n) == {s \in sessions : s.fd = f /\ s.net = n}

\* The table's entry for an address: at most one (MacUnique).
Binding(table, n, m) == {e \in table : e.net = n /\ e.mac = m}

Owned(table, s) == {e \in table : e.fd = s.fd /\ e.net = s.net}

Expired(e, now) == now > e.seen /\ now - e.seen > e.ttl

\* mac_age_locked
Aged(now) == {e \in mac : ~Expired(e, now) /\ Sessions(e.fd, e.net) # {}}

\* The move window is over, or the unsigned difference wrapped around because
\* the handler's time is older than the window.
WindowOver(e, now) == now < e.window \/ now - e.window > MoveWindow

\* The move counter of an entry after one more attempt to move it.
Counted(e, now) ==
    IF WindowOver(e, now) THEN [e EXCEPT !.window = now, !.moves = 1]
                          ELSE [e EXCEPT !.moves = @ + 1]

\* Faulty variant: a freeze of which less than a second is left is over.
Frozen_EndsEarly(e, now) == e.frozen > now + 1

Frozen(e, now) == e.frozen > now

\* Faulty variant: the freeze is one move late.
Refused_LateFreeze(e, s, now) ==
    /\ e.fd # s.fd
    /\ Frozen(e, now) \/ Counted(e, now).moves > FreezeThreshold

\* The session may not have the address: it is frozen, or this move freezes it.
Refused(e, s, now) ==
    /\ e.fd # s.fd
    /\ Frozen(e, now) \/ Counted(e, now).moves >= FreezeThreshold

Take(e, s, now) == [e EXCEPT !.fd = s.fd, !.ttl = s.cfg.ttl, !.seen = now]

\* An entry after session s has sent a frame from its address.
Relearn(e, s, now) ==
    IF e.fd = s.fd
    THEN Take([e EXCEPT !.frozen = IF @ <= now THEN 0 ELSE @], s, now)
    ELSE IF Frozen(e, now) THEN e
    ELSE IF Refused(e, s, now) THEN [Counted(e, now) EXCEPT !.frozen = now + FreezeSec]
    ELSE Take(Counted(e, now), s, now)

NewEntry(s, m, now) ==
    [fd |-> s.fd, net |-> s.net, mac |-> m, ttl |-> s.cfg.ttl, seen |-> now,
     window |-> now, moves |-> 0, frozen |-> 0]

HasRoom(table, s) ==
    /\ Cardinality(table) < MaxMacEntries
    /\ Cardinality(Owned(table, s)) < s.cfg.maxMac

\* mac_learn_locked.  A source that cannot be learned, or for which there is
\* no room, leaves the table alone and the frame is still relayed.
Learned(table, s, m, now) ==
    IF m \notin Macs THEN table
    ELSE IF Binding(table, s.net, m) # {}
    THEN {IF e \in Binding(table, s.net, m) THEN Relearn(e, s, now) ELSE e : e \in table}
    ELSE IF HasRoom(table, s) THEN table \cup {NewEntry(s, m, now)}
    ELSE table

MacFreeze(table, s, m, now) ==
    \E e \in Binding(table, s.net, m) : Refused(e, s, now)

\* mac_lookup_locked.  Its removal of an entry whose session is gone never
\* happens here: mac_age_locked has run in the same critical section.
Lookup(table, n, m) ==
    {t \in sessions : t.net = n /\ \E e \in Binding(table, n, m) : e.fd = t.fd}

-----------------------------------------------------------------------------
(* Flood limits: flood_allowed_locked and network_rate_entry_locked        *)

SessionWindow(s, now) ==
    IF s.floodSec = now THEN s ELSE [s EXCEPT !.floodSec = now, !.floodCount = 0]

NetWindow(n, now) ==
    IF rates[n].sec = now THEN rates[n] ELSE [sec |-> now, count |-> 0]

RateSlot(n) ==
    \/ rates[n].sec # 0
    \/ Cardinality({k \in Networks : rates[k].sec # 0}) < MaxRateEntries

\* Faulty variant: one frame too many.
NetMayFlood_OffByOne(s, now) ==
    RateSlot(s.net) /\ NetWindow(s.net, now).count <= s.cfg.netLimit

SessionMayFlood(s, now) == SessionWindow(s, now).floodCount < s.cfg.sessLimit

NetMayFlood(s, now) ==
    RateSlot(s.net) /\ NetWindow(s.net, now).count < s.cfg.netLimit

Replace(s, t) == sessions' = (sessions \ {s}) \cup {t}

-----------------------------------------------------------------------------
(* relay_tap_frame                                                         *)

\* The handler of f received a TAP_FRAME for its network and read the clock.
Receive(f, src, dst) ==
    /\ pc[f] = "live"
    /\ \A p \in pending : p.fd # f
    /\ pending' = pending \cup {[fd |-> f, src |-> src, dst |-> dst, now |-> clock]}
    /\ out' = Idle
    /\ UNCHANGED <<clock, handlerVars, hubVars>>

\* The handler of p's socket holds g_sessions_mu and s is its session.
Relaying(p, s) ==
    /\ p \in pending
    /\ s \in Sessions(p.fd, authNet[p.fd])
    /\ pending' = pending \ {p}
    /\ UNCHANGED <<clock, handlerVars>>

Result(mode, p, to) == out' = [mode |-> mode, from |-> p.fd, to |-> to]

\* L2 control frames are dropped before the source address is learned.
L2Dropped(p, s) == p.dst \in L2Control /\ ~s.cfg.l2

RelayDropL2(p, s) ==
    /\ Relaying(p, s)
    /\ L2Dropped(p, s)
    /\ mac' = Aged(p.now)
    /\ Result("drop_l2", p, {})
    /\ UNCHANGED <<sessions, rates>>

\* The table a frame is forwarded by.
TableFor(p, s) == Learned(Aged(p.now), s, p.src, p.now)

RelayDropFreeze(p, s) ==
    /\ Relaying(p, s)
    /\ ~L2Dropped(p, s)
    /\ MacFreeze(Aged(p.now), s, p.src, p.now)
    /\ mac' = TableFor(p, s)
    /\ Result("drop_mac_freeze", p, {})
    /\ UNCHANGED <<sessions, rates>>

Forwarding(p, s) ==
    /\ Relaying(p, s)
    /\ ~L2Dropped(p, s)
    /\ ~MacFreeze(Aged(p.now), s, p.src, p.now)
    /\ mac' = TableFor(p, s)

\* Clients of a network reach each other only if the sender's network allows.
ClientBarred(s, t) == s.cfg.client /\ t.cfg.client /\ ~s.cfg.c2c

\* The destination is known.  A frame for the sender's own segment goes
\* nowhere; otherwise the target's writer may be gone and refuse the frame.
RelayUnicast(p, s) ==
    /\ Forwarding(p, s)
    /\ \E t \in Lookup(TableFor(p, s), s.net, p.dst) :
          IF t.fd # s.fd /\ ClientBarred(s, t)
          THEN Result("drop_client", p, {})
          ELSE \E to \in SUBSET ({t.fd} \ {s.fd}) : Result("unicast", p, to)
    /\ UNCHANGED <<sessions, rates>>

Unknown(p, s) == Lookup(TableFor(p, s), s.net, p.dst) = {}

RelayDropRate(p, s) ==
    /\ Forwarding(p, s)
    /\ Unknown(p, s)
    /\ ~(SessionMayFlood(s, p.now) /\ NetMayFlood(s, p.now))
    /\ Replace(s, SessionWindow(s, p.now))
    /\ rates' = IF SessionMayFlood(s, p.now) /\ RateSlot(s.net)
                THEN [rates EXCEPT ![s.net] = NetWindow(s.net, p.now)] ELSE rates
    /\ Result("drop_rate", p, {})

\* Faulty variants: floods ignore the client policy, or the network.
FloodTargets_AnyClient(s) == {t.fd : t \in {u \in sessions : u.fd # s.fd /\ u.net = s.net}}
FloodTargets_AnyNetwork(s) == {t.fd : t \in {u \in sessions : u.fd # s.fd /\ ~ClientBarred(s, u)}}

FloodTargets(s) ==
    {t.fd : t \in {u \in sessions : u.fd # s.fd /\ u.net = s.net /\ ~ClientBarred(s, u)}}

\* Each target's queue takes the frame or drops it for its own budget.
RelayFlood(p, s) ==
    /\ Forwarding(p, s)
    /\ Unknown(p, s)
    /\ SessionMayFlood(s, p.now)
    /\ NetMayFlood(s, p.now)
    /\ Replace(s, [SessionWindow(s, p.now) EXCEPT !.floodCount = @ + 1])
    /\ rates' = [rates EXCEPT ![s.net] = [NetWindow(s.net, p.now) EXCEPT !.count = @ + 1]]
    /\ \E to \in SUBSET FloodTargets(s) : Result("flood", p, to)

Relay(p, s) ==
    \/ RelayDropL2(p, s)
    \/ RelayDropFreeze(p, s)
    \/ RelayUnicast(p, s)
    \/ RelayDropRate(p, s)
    \/ RelayFlood(p, s)

Next ==
    \/ Tick
    \/ \E f \in Fds :
          \/ Accept(f)
          \/ GiveUp(f)
          \/ \E n \in Networks, cfg \in Configs : Register(f, n, cfg)
          \/ Unregister(f)
          \/ Close(f)
          \/ \E src \in Macs \cup Groups, dst \in Macs \cup Groups : Receive(f, src, dst)
    \/ \E p \in pending, s \in sessions : Relay(p, s)

Spec == Init /\ [][Next]_vars

-----------------------------------------------------------------------------
(* Correctness                                                             *)

TypeOK ==
    /\ clock \in Nat
    /\ pc \in [Fds -> {"free", "opening", "live", "closing"}]
    /\ authNet \in [Fds -> Networks \cup {None}]
    /\ pending \subseteq Frame
    /\ sessions \subseteq Session
    /\ mac \subseteq MacEntry
    /\ rates \in [Networks -> Window]
    /\ out \in [mode : Modes, from : Fds \cup {None}, to : SUBSET Fds]

\* A handler is in its loop exactly while it has a session, one, of the
\* network it authenticated for: relay_tap_frame's "drop_session" and a PING
\* without a session cannot happen.
SessionOfHandler ==
    /\ \A s \in sessions : pc[s.fd] = "live" /\ authNet[s.fd] = s.net
    /\ \A s, t \in sessions : s.fd = t.fd => s = t
    /\ \A f \in Fds : pc[f] = "live" => \E s \in sessions : s.fd = f

\* The hub never keeps two entries for one address of a network, so the first
\* match of mac_learn_locked and mac_lookup_locked is the only one.
MacUnique ==
    \A d, e \in mac : d.net = e.net /\ d.mac = e.mac => d = e

\* An address is never left bound to a session that is gone, so a descriptor
\* the system reuses does not inherit the addresses of its previous owner.
MacOwnerLive ==
    \A e \in mac : \E s \in sessions : s.fd = e.fd /\ s.net = e.net

\* A frame that waits for the mutex belongs to a live handler and its time is
\* at most MaxLag old.
PendingLive ==
    \A p \in pending : pc[p.fd] = "live" /\ p.now <= clock /\ clock - p.now <= MaxLag

\* Frames stay in the sender's network, never come back to it, and do not pass
\* between clients when the sender's network forbids it, whichever of the two
\* paths of relay_tap_frame took them.
DeliveryStep ==
    \A p \in pending \ pending' : \A f \in out'.to :
        \E s \in Sessions(p.fd, authNet[p.fd]), t \in sessions :
            /\ t.fd = f
            /\ f # p.fd
            /\ t.net = s.net
            /\ ~ClientBarred(s, t)

DeliveryPolicy == [][DeliveryStep]_vars

\* A frozen address stays with its owner: while the freeze lasts the entry
\* neither moves nor, if its TTL covers the move window and the freeze, ages
\* out; it goes only with the owner's session.
FreezeStep ==
    \A e \in mac :
        (/\ e.frozen > clock
         /\ e.ttl >= MoveWindow + FreezeSec + MaxLag
         /\ \E s \in sessions' : s.fd = e.fd)
        => \E d \in mac' : d.net = e.net /\ d.mac = e.mac /\ d.fd = e.fd

FreezeEndures == [][FreezeStep]_vars

\* The hub is a learning switch.
Switch == INSTANCE L2Switch WITH
    Ports     <- Fds,
    attached  <- {[port |-> s.fd, net |-> s.net] : s \in sessions},
    owner     <- {[net |-> e.net, mac |-> e.mac, port |-> e.fd] : e \in mac},
    delivered <- [from |-> out.from, to |-> out.to]

SwitchSpec == Switch!Spec
=============================================================================
