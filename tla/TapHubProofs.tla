---------------------------- MODULE TapHubProofs ----------------------------
(***************************************************************************)
(* Proofs about TapHub for every set of sockets, networks and addresses    *)
(* and every value of the limits.  The inductive invariant is Inv: typing, *)
(* the correspondence of handlers and sessions, the frames that wait for   *)
(* the mutex, and the two facts about the MAC table.  What TapHubHistory   *)
(* observes over several seconds has an invariant each: FloodInv relates   *)
(* the frames flooded to the window a network has, DampInv the moves of an *)
(* address to the window of its entry.                                     *)
(***************************************************************************)
EXTENDS TapHubHistory, TLAPS, FiniteSetTheorems, WellFoundedInduction

Inv ==
    /\ TypeOK
    /\ SessionOfHandler
    /\ PendingLive
    /\ MacUnique
    /\ MacOwnerLive

\* No two entries of a table are for one address of a network.
Unique(table) == \A d, e \in table : d.net = e.net /\ d.mac = e.mac => d = e

-----------------------------------------------------------------------------

\* Whatever mac_learn_locked decides about an entry, it stays an entry for the
\* same address and belongs to its old owner or to the sender.
LEMMA RelearnKeepsAddress ==
    ASSUME NEW e \in MacEntry, NEW s \in Session, NEW now \in Nat
    PROVE  /\ Relearn(e, s, now) \in MacEntry
           /\ Relearn(e, s, now).net = e.net
           /\ Relearn(e, s, now).mac = e.mac
           /\ Relearn(e, s, now).fd \in {e.fd, s.fd}
<1> USE ConstantsAssumption
<1>1. Counted(e, now) \in MacEntry /\ Counted(e, now).net = e.net
      /\ Counted(e, now).mac = e.mac /\ Counted(e, now).fd = e.fd
  <2>1. ASSUME NEW d, d = [e EXCEPT !.window = now, !.moves = 1]
        PROVE  d \in MacEntry /\ d.net = e.net /\ d.mac = e.mac /\ d.fd = e.fd
    BY <2>1 DEF MacEntry
  <2>2. ASSUME NEW k \in Nat, NEW d, d = [e EXCEPT !.moves = k]
        PROVE  d \in MacEntry /\ d.net = e.net /\ d.mac = e.mac /\ d.fd = e.fd
    BY <2>2 DEF MacEntry
  <2>3. CASE WindowOver(e, now)
    BY <2>1, <2>3 DEF Counted
  <2>4. CASE ~WindowOver(e, now)
    <3>1. e.moves + 1 \in Nat
      BY DEF MacEntry
    <3>2. QED
      BY <2>2, <2>4, <3>1 DEF Counted
  <2>5. QED
    BY <2>3, <2>4
<1>2. ASSUME NEW d \in MacEntry
      PROVE  /\ Take(d, s, now) \in MacEntry
             /\ Take(d, s, now).net = d.net
             /\ Take(d, s, now).mac = d.mac
             /\ Take(d, s, now).fd = s.fd
  BY DEF Take, MacEntry, Session, Config
<1>3. [e EXCEPT !.frozen = IF @ <= now THEN 0 ELSE @] \in MacEntry
  BY DEF MacEntry
<1>4. [Counted(e, now) EXCEPT !.frozen = now + FreezeSec] \in MacEntry
  BY <1>1 DEF MacEntry
<1>5. QED
  BY <1>1, <1>2, <1>3, <1>4 DEF Relearn, MacEntry

\* Learning keeps a table a table with one entry per address, all of whose
\* owners were owners before or are the sender.
LEMMA LearnedTable ==
    ASSUME NEW table \in SUBSET MacEntry, Unique(table),
           NEW s \in Session, NEW m, NEW now \in Nat
    PROVE  /\ Learned(table, s, m, now) \subseteq MacEntry
           /\ Unique(Learned(table, s, m, now))
           /\ \A e \in Learned(table, s, m, now) :
                 \/ e.fd = s.fd /\ e.net = s.net /\ e.mac = m
                 \/ \E d \in table : d.fd = e.fd /\ d.net = e.net /\ d.mac = e.mac
<1>1. CASE m \notin Macs \/ (Binding(table, s.net, m) = {} /\ ~HasRoom(table, s))
  BY <1>1 DEF Learned
<1>2. CASE m \in Macs /\ Binding(table, s.net, m) # {}
  <2> DEFINE upd(e) == IF e \in Binding(table, s.net, m) THEN Relearn(e, s, now) ELSE e
  <2>1. Learned(table, s, m, now) = {upd(e) : e \in table}
    BY <1>2 DEF Learned
  <2>2. ASSUME NEW e \in table
        PROVE  /\ upd(e) \in MacEntry
               /\ upd(e).net = e.net
               /\ upd(e).mac = e.mac
               /\ upd(e).fd = e.fd \/ (upd(e).fd = s.fd /\ e.net = s.net /\ e.mac = m)
    BY RelearnKeepsAddress DEF Binding
  <2> HIDE DEF upd
  <2>3. QED
    BY <2>1, <2>2 DEF Unique
<1>3. CASE m \in Macs /\ Binding(table, s.net, m) = {} /\ HasRoom(table, s)
  <2>1. Learned(table, s, m, now) = table \cup {NewEntry(s, m, now)}
    BY <1>3 DEF Learned
  <2>2. /\ NewEntry(s, m, now) \in MacEntry
        /\ NewEntry(s, m, now).net = s.net
        /\ NewEntry(s, m, now).mac = m
        /\ NewEntry(s, m, now).fd = s.fd
    BY <1>3, ConstantsAssumption DEF NewEntry, MacEntry, Session, Config
  <2>3. \A e \in table : ~(e.net = s.net /\ e.mac = m)
    BY <1>3 DEF Binding
  <2> HIDE DEF NewEntry
  <2>4. QED
    BY <2>1, <2>2, <2>3 DEF Unique
<1>4. QED
  BY <1>1, <1>2, <1>3

-----------------------------------------------------------------------------

\* Ageing keeps a part of the table, and only entries of live sessions.
LEMMA AgedTable ==
    ASSUME Inv, NEW now \in Nat
    PROVE  /\ Aged(now) \subseteq MacEntry
           /\ Unique(Aged(now))
           /\ \A e \in Aged(now) : \E t \in sessions : t.fd = e.fd /\ t.net = e.net
BY DEF Inv, TypeOK, MacUnique, Aged, Sessions, Unique

\* The session a frame is relayed for, and its type.
LEMMA RelayingSession ==
    ASSUME Inv, NEW p, NEW s, Relaying(p, s)
    PROVE  /\ p \in pending /\ p \in Frame /\ p.now \in Nat
           /\ s \in sessions /\ s \in Session
           /\ s.fd = p.fd /\ s.net = authNet[p.fd]
           /\ pending' = pending \ {p}
           /\ clock' = clock /\ pc' = pc /\ authNet' = authNet
BY DEF Inv, TypeOK, Relaying, Sessions, Frame, handlerVars

\* The MAC table after any outcome of relay_tap_frame.
LEMMA RelayTable ==
    ASSUME Inv, NEW p, NEW s, Relay(p, s)
    PROVE  /\ mac' \subseteq MacEntry
           /\ Unique(mac')
           /\ \A e \in mac' : \E t \in sessions : t.fd = e.fd /\ t.net = e.net
<1>1. Relaying(p, s)
  BY DEF Relay, RelayDropL2, RelayDropFreeze, RelayUnicast, RelayDropRate, RelayFlood, Forwarding
<1>2. mac' = Aged(p.now) \/ mac' = Learned(Aged(p.now), s, p.src, p.now)
  BY DEF Relay, RelayDropL2, RelayDropFreeze, RelayUnicast, RelayDropRate, RelayFlood,
         Forwarding, TableFor
<1>3. CASE mac' = Aged(p.now)
  BY <1>1, <1>3, RelayingSession, AgedTable
<1>4. CASE mac' = Learned(Aged(p.now), s, p.src, p.now)
  BY <1>1, <1>4, RelayingSession, AgedTable, LearnedTable
<1>5. QED
  BY <1>2, <1>3, <1>4

\* Charging a flood changes only the window and the count of the session.
LEMMA SessionWindowType ==
    ASSUME NEW s \in Session, NEW now \in Nat
    PROVE  LET t == SessionWindow(s, now) IN
           /\ t \in Session /\ t.fd = s.fd /\ t.net = s.net /\ t.cfg = s.cfg
           /\ [t EXCEPT !.floodCount = @ + 1] \in Session
           /\ [t EXCEPT !.floodCount = @ + 1].fd = s.fd
           /\ [t EXCEPT !.floodCount = @ + 1].net = s.net
<1>1. ASSUME NEW t, t = [s EXCEPT !.floodSec = now, !.floodCount = 0]
      PROVE  t \in Session /\ t.fd = s.fd /\ t.net = s.net /\ t.cfg = s.cfg
  BY <1>1 DEF Session
<1>2. SessionWindow(s, now) \in Session /\ SessionWindow(s, now).fd = s.fd
      /\ SessionWindow(s, now).net = s.net /\ SessionWindow(s, now).cfg = s.cfg
  BY <1>1 DEF SessionWindow
<1>3. ASSUME NEW t \in Session
      PROVE  /\ [t EXCEPT !.floodCount = @ + 1] \in Session
             /\ [t EXCEPT !.floodCount = @ + 1].fd = t.fd
             /\ [t EXCEPT !.floodCount = @ + 1].net = t.net
  BY DEF Session
<1>4. QED
  BY <1>2, <1>3

\* The sessions after any outcome: only the sender's counters may differ.
LEMMA RelaySessions ==
    ASSUME Inv, NEW p, NEW s, Relay(p, s)
    PROVE  \E t \in Session : /\ t.fd = s.fd /\ t.net = s.net
                              /\ sessions' = (sessions \ {s}) \cup {t}
<1>1. Relaying(p, s)
  BY DEF Relay, RelayDropL2, RelayDropFreeze, RelayUnicast, RelayDropRate, RelayFlood, Forwarding
<1>2. s \in sessions /\ s \in Session /\ p.now \in Nat
  BY <1>1, RelayingSession
<1>3. CASE sessions' = sessions
  BY <1>2, <1>3
<1>4. CASE RelayDropRate(p, s)
  BY <1>2, <1>4, SessionWindowType DEF RelayDropRate, Replace
<1>5. CASE RelayFlood(p, s)
  BY <1>2, <1>5, SessionWindowType DEF RelayFlood, Replace
<1>6. QED
  BY <1>3, <1>4, <1>5 DEF Relay, RelayDropL2, RelayDropFreeze, RelayUnicast

\* Type of the counters and of the result after any outcome.
LEMMA RelayTypes ==
    ASSUME Inv, NEW p, NEW s, Relay(p, s)
    PROVE  /\ rates' \in [Networks -> Window]
           /\ out' \in [mode : Modes, from : Fds \cup {None}, to : SUBSET Fds]
<1>1. Relaying(p, s)
  BY DEF Relay, RelayDropL2, RelayDropFreeze, RelayUnicast, RelayDropRate, RelayFlood, Forwarding
<1>2. /\ p.now \in Nat /\ p.fd \in Fds
      /\ s.net \in Networks /\ s.fd \in Fds
      /\ rates \in [Networks -> Window]
      /\ \A t \in sessions : t.fd \in Fds
  BY <1>1, RelayingSession DEF Inv, TypeOK, Session, Frame
<1>3. NetWindow(s.net, p.now) \in Window
      /\ [NetWindow(s.net, p.now) EXCEPT !.count = @ + 1] \in Window
  BY <1>2 DEF NetWindow, Window
<1>4. rates' \in [Networks -> Window]
  BY <1>2, <1>3 DEF Relay, RelayDropL2, RelayDropFreeze, RelayUnicast, RelayDropRate, RelayFlood
<1>5. \E m \in Modes : \E to \in SUBSET Fds : Result(m, p, to)
  <2>1. CASE RelayDropL2(p, s) \/ RelayDropFreeze(p, s) \/ RelayDropRate(p, s)
    BY <2>1 DEF RelayDropL2, RelayDropFreeze, RelayDropRate, Modes
  <2>2. CASE RelayUnicast(p, s)
    <3>1. PICK t \in sessions :
             IF t.fd # s.fd /\ ClientBarred(s, t)
             THEN Result("drop_client", p, {})
             ELSE \E to \in SUBSET ({t.fd} \ {s.fd}) : Result("unicast", p, to)
      BY <2>2 DEF RelayUnicast, Lookup
    <3>2. SUBSET ({t.fd} \ {s.fd}) \subseteq SUBSET Fds
      BY <1>2
    <3>3. QED
      BY <3>1, <3>2 DEF Modes
  <2>3. CASE RelayFlood(p, s)
    <3>1. FloodTargets(s) \subseteq Fds
      BY <1>2 DEF FloodTargets
    <3>2. QED
      BY <2>3, <3>1 DEF RelayFlood, Modes
  <2>4. QED
    BY <2>1, <2>2, <2>3 DEF Relay
<1>6. QED
  BY <1>2, <1>4, <1>5 DEF Result

-----------------------------------------------------------------------------

LEMMA InitInv == Init => Inv
<1> SUFFICES ASSUME Init PROVE Inv
  OBVIOUS
<1>1. TypeOK
  BY ConstantsAssumption DEF Init, Idle, TypeOK, Modes, Window
<1>2. SessionOfHandler /\ PendingLive /\ MacUnique /\ MacOwnerLive
  BY DEF Init, SessionOfHandler, PendingLive, MacUnique, MacOwnerLive
<1>3. QED
  BY <1>1, <1>2 DEF Inv

\* A relay step re-establishes the invariant.
LEMMA RelayInv ==
    ASSUME Inv, NEW p, NEW s, Relay(p, s)
    PROVE  Inv'
<1>1. Relaying(p, s)
  BY DEF Relay, RelayDropL2, RelayDropFreeze, RelayUnicast, RelayDropRate, RelayFlood, Forwarding
<1>2. PICK t \in Session : /\ t.fd = s.fd /\ t.net = s.net
                          /\ sessions' = (sessions \ {s}) \cup {t}
  BY RelaySessions
<1>3. s \in sessions /\ pending' = pending \ {p} /\ UNCHANGED <<clock, pc, authNet>>
  BY <1>1, RelayingSession
<1>4. TypeOK'
  BY <1>2, <1>3, RelayTypes, RelayTable DEF Inv, TypeOK
<1>5. SessionOfHandler'
  BY <1>2, <1>3 DEF Inv, SessionOfHandler
<1>6. PendingLive'
  BY <1>3 DEF Inv, PendingLive
<1>7. MacUnique'
  BY RelayTable DEF Unique, MacUnique
<1>8. MacOwnerLive'
  BY <1>2, <1>3, RelayTable DEF MacOwnerLive
<1>9. QED
  BY <1>4, <1>5, <1>6, <1>7, <1>8 DEF Inv

LEMMA NextInv == Inv /\ [Next]_vars => Inv'
<1> SUFFICES ASSUME Inv, [Next]_vars PROVE Inv'
  OBVIOUS
<1> USE DEF Inv, TypeOK, SessionOfHandler, PendingLive, MacUnique, MacOwnerLive
<1>1. CASE Tick
  <2>1. clock + 1 \in Nat /\ \A p \in pending : p.now \in Nat
    BY DEF Frame
  <2>2. PendingLive'
    BY <1>1, <2>1, ConstantsAssumption DEF Tick, handlerVars, hubVars
  <2>3. QED
    BY <1>1, <2>1, <2>2 DEF Tick, Idle, Modes, handlerVars, hubVars
<1>2. ASSUME NEW f \in Fds, Accept(f) PROVE Inv'
  BY <1>2 DEF Accept, Idle, Modes, hubVars
<1>3. ASSUME NEW f \in Fds, GiveUp(f) PROVE Inv'
  BY <1>3 DEF GiveUp, Idle, Modes, hubVars
<1>4. ASSUME NEW f \in Fds, NEW n \in Networks, NEW cfg \in Configs, Register(f, n, cfg)
      PROVE  Inv'
  <2> DEFINE new == [fd |-> f, net |-> n, cfg |-> cfg, floodSec |-> 0, floodCount |-> 0]
  <2>1. new \in Session /\ new.fd = f /\ new.net = n
    BY DEF Session
  <2>2. \A s \in sessions : s.fd # f
    BY <1>4 DEF Register
  <2>3. sessions' = sessions \cup {new}
    BY <1>4 DEF Register
  <2> HIDE DEF new
  <2>4. TypeOK'
    BY <1>4, <2>1, <2>3 DEF Register, Idle, Modes
  <2>5. SessionOfHandler'
    BY <1>4, <2>1, <2>2, <2>3 DEF Register, Session
  <2>6. PendingLive' /\ MacUnique' /\ MacOwnerLive'
    BY <1>4, <2>3 DEF Register
  <2>7. QED
    BY <2>4, <2>5, <2>6
<1>5. ASSUME NEW f \in Fds, Unregister(f) PROVE Inv'
  <2>1. TypeOK'
    BY <1>5 DEF Unregister, Idle, Modes
  <2>2. SessionOfHandler'
    BY <1>5 DEF Unregister, Session
  <2>3. PendingLive' /\ MacUnique' /\ MacOwnerLive'
    BY <1>5 DEF Unregister, Frame
  <2>4. QED
    BY <2>1, <2>2, <2>3
<1>6. ASSUME NEW f \in Fds, Close(f) PROVE Inv'
  <2>1. TypeOK'
    BY <1>6 DEF Close, Idle, Modes, hubVars
  <2>2. SessionOfHandler'
    BY <1>6 DEF Close, Session, hubVars
  <2>3. PendingLive' /\ MacUnique' /\ MacOwnerLive'
    BY <1>6 DEF Close, Frame, hubVars
  <2>4. QED
    BY <2>1, <2>2, <2>3
<1>7. ASSUME NEW f \in Fds, NEW src \in Macs \cup Groups, NEW dst \in Macs \cup Groups,
             Receive(f, src, dst)
      PROVE  Inv'
  <2> DEFINE fr == [fd |-> f, src |-> src, dst |-> dst, now |-> clock]
  <2>1. fr \in Frame /\ fr.fd = f /\ fr.now = clock
    BY DEF Frame
  <2>2. pending' = pending \cup {fr}
    BY <1>7 DEF Receive
  <2> HIDE DEF fr
  <2>3. TypeOK'
    BY <1>7, <2>1, <2>2 DEF Receive, Idle, Modes, handlerVars, hubVars
  <2>4. PendingLive'
    BY <1>7, <2>1, <2>2, ConstantsAssumption DEF Receive, handlerVars
  <2>5. SessionOfHandler' /\ MacUnique' /\ MacOwnerLive'
    BY <1>7 DEF Receive, handlerVars, hubVars
  <2>6. QED
    BY <2>3, <2>4, <2>5
<1>8. ASSUME NEW p \in pending, NEW s \in sessions, Relay(p, s) PROVE Inv'
  BY <1>8, RelayInv DEF Inv
<1>9. CASE UNCHANGED vars
  BY <1>9 DEF vars
<1>10. QED
  BY <1>1, <1>2, <1>3, <1>4, <1>5, <1>6, <1>7, <1>8, <1>9 DEF Next

\* The types, the handlers' sessions and the MAC table are right in every
\* reachable state.
THEOREM Invariance == Spec => []Inv
BY InitInv, NextInv, PTL DEF Spec

\* No reachable state holds a value of the wrong kind.
THEOREM TypeCorrect == Spec => []TypeOK
BY Invariance, PTL DEF Inv

\* A handler is in its loop exactly while it has its one session
\* (session_register, session_unregister).
THEOREM HandlersHaveSessions == Spec => []SessionOfHandler
BY Invariance, PTL DEF Inv

\* One entry per address of a network (mac_learn_locked).
THEOREM OneEntryPerAddress == Spec => []MacUnique
BY Invariance, PTL DEF Inv

\* No address is bound to a session that is gone (session_unregister,
\* mac_forget_fd_locked), whatever descriptors the system reuses.
THEOREM OwnersAreLive == Spec => []MacOwnerLive
BY Invariance, PTL DEF Inv

-----------------------------------------------------------------------------

LEMMA RelayDelivers ==
    ASSUME Inv, NEW p, NEW s, Relay(p, s)
    PROVE  DeliveryStep
<1>1. Relaying(p, s)
  BY DEF Relay, RelayDropL2, RelayDropFreeze, RelayUnicast, RelayDropRate, RelayFlood, Forwarding
<1>2. /\ pending \ pending' \subseteq {p}
      /\ s \in Sessions(p.fd, authNet[p.fd]) /\ s \in sessions /\ s.fd = p.fd
  BY <1>1, RelayingSession DEF Relaying
<1>3. SUFFICES ASSUME NEW f \in out'.to
               PROVE  \E t \in sessions : /\ t.fd = f /\ f # p.fd /\ t.net = s.net
                                           /\ ~ClientBarred(s, t)
  BY <1>2 DEF DeliveryStep
<1>4. CASE RelayDropL2(p, s) \/ RelayDropFreeze(p, s) \/ RelayDropRate(p, s)
  BY <1>3, <1>4 DEF RelayDropL2, RelayDropFreeze, RelayDropRate, Result
<1>5. CASE RelayUnicast(p, s)
  <2>1. PICK t \in Lookup(TableFor(p, s), s.net, p.dst) :
           IF t.fd # s.fd /\ ClientBarred(s, t)
           THEN Result("drop_client", p, {})
           ELSE \E to \in SUBSET ({t.fd} \ {s.fd}) : Result("unicast", p, to)
    BY <1>5 DEF RelayUnicast
  <2>2. t \in sessions /\ t.net = s.net
    BY <2>1 DEF Lookup
  <2>3. CASE t.fd # s.fd /\ ClientBarred(s, t)
    BY <1>3, <2>1, <2>3 DEF Result
  <2>4. CASE ~(t.fd # s.fd /\ ClientBarred(s, t))
    BY <1>2, <1>3, <2>1, <2>2, <2>4 DEF Result
  <2>5. QED
    BY <2>3, <2>4
<1>6. CASE RelayFlood(p, s)
  <2>1. PICK to \in SUBSET FloodTargets(s) : Result("flood", p, to)
    BY <1>6 DEF RelayFlood
  <2>2. f \in FloodTargets(s)
    BY <1>3, <2>1 DEF Result
  <2>3. QED
    BY <1>2, <2>2 DEF FloodTargets
<1>7. QED
  BY <1>4, <1>5, <1>6 DEF Relay

\* Isolation of networks, no echo, and the client policy hold for every frame
\* relay_tap_frame delivers, by either path.
THEOREM DeliveryIsPoliced == Spec => DeliveryPolicy
<1>1. Inv /\ [Next]_vars => [DeliveryStep]_vars
  <2> SUFFICES ASSUME Inv, Next PROVE DeliveryStep
    OBVIOUS
  <2>1. CASE \E p \in pending, s \in sessions : Relay(p, s)
    BY <2>1, RelayDelivers
  <2>2. CASE pending \subseteq pending'
    BY <2>2 DEF DeliveryStep
  <2>3. QED
    BY <2>1, <2>2 DEF Next, Tick, Accept, GiveUp, Register, Unregister, Close, Receive
<1>2. QED
  BY <1>1, Invariance, PTL DEF Spec, DeliveryPolicy

-----------------------------------------------------------------------------

\* Why a freeze outlasts ageing: an entry was seen no earlier than its move
\* window began (up to the delay of a handler at the mutex), and a freeze ends
\* at most MoveWindow + FreezeSec after the window began.
FreezeInv ==
    \A e \in mac :
        /\ e.window <= clock
        /\ e.window <= e.seen + MaxLag
        /\ e.frozen <= e.window + MoveWindow + FreezeSec

LEMMA RelearnFreeze ==
    ASSUME NEW e \in MacEntry, NEW s \in Session, NEW now \in Nat,
           clock \in Nat, now <= clock, clock <= now + MaxLag,
           e.window <= clock, e.window <= e.seen + MaxLag,
           e.frozen <= e.window + MoveWindow + FreezeSec
    PROVE  LET d == Relearn(e, s, now) IN
           /\ d.window <= clock
           /\ d.window <= d.seen + MaxLag
           /\ d.frozen <= d.window + MoveWindow + FreezeSec
<1> USE ConstantsAssumption
<1>1. /\ e.window \in Nat /\ e.seen \in Nat /\ e.frozen \in Nat
      /\ MaxLag \in Nat /\ MoveWindow \in Nat /\ FreezeSec \in Nat
  BY DEF MacEntry
<1>2. CASE e.fd = s.fd
  <2>1. ASSUME NEW z \in {0, e.frozen}, NEW d, d = Take([e EXCEPT !.frozen = z], s, now)
        PROVE  d.window = e.window /\ d.seen = now /\ d.frozen = z
    BY <2>1 DEF Take, MacEntry
  <2>2. QED
    BY <1>1, <1>2, <2>1 DEF Relearn
<1>3. CASE e.fd # s.fd /\ Frozen(e, now)
  BY <1>3 DEF Relearn
<1>4. CASE e.fd # s.fd /\ ~Frozen(e, now) /\ WindowOver(e, now)
  <2>1. e.frozen <= now
    BY <1>1, <1>4 DEF Frozen
  <2>2. ASSUME NEW c, c = [e EXCEPT !.window = now, !.moves = 1], NEW d, d = Take(c, s, now)
        PROVE  /\ c.moves = 1
               /\ d.window = now /\ d.seen = now /\ d.frozen = e.frozen
    BY <2>2 DEF Take, MacEntry
  <2>3. Counted(e, now).moves = 1
    BY <1>4, <2>2 DEF Counted
  <2>4. ~Refused(e, s, now)
    BY <1>4, <2>3 DEF Refused
  <2>5. Relearn(e, s, now) = Take(Counted(e, now), s, now)
    BY <1>4, <2>4 DEF Relearn
  <2>6. Counted(e, now) = [e EXCEPT !.window = now, !.moves = 1]
    BY <1>4 DEF Counted
  <2>7. QED
    BY <1>1, <2>1, <2>2, <2>5, <2>6
<1>5. CASE e.fd # s.fd /\ ~Frozen(e, now) /\ ~WindowOver(e, now)
  <2>1. now <= e.window + MoveWindow
    BY <1>1, <1>5 DEF WindowOver
  <2>2. Counted(e, now) = [e EXCEPT !.moves = e.moves + 1]
    BY <1>5 DEF Counted
  <2>3. ASSUME NEW k, NEW c, c = [e EXCEPT !.moves = k], NEW d
        PROVE  /\ d = Take(c, s, now) =>
                     d.window = e.window /\ d.seen = now /\ d.frozen = e.frozen
               /\ d = [c EXCEPT !.frozen = now + FreezeSec] =>
                     d.window = e.window /\ d.seen = e.seen /\ d.frozen = now + FreezeSec
    BY <2>3 DEF Take, MacEntry
  <2>4. CASE Refused(e, s, now)
    <3>1. Relearn(e, s, now) = [Counted(e, now) EXCEPT !.frozen = now + FreezeSec]
      BY <1>5, <2>4 DEF Relearn
    <3>2. /\ Relearn(e, s, now).window = e.window
          /\ Relearn(e, s, now).seen = e.seen
          /\ Relearn(e, s, now).frozen = now + FreezeSec
      BY <2>2, <2>3, <3>1
    <3>3. now + FreezeSec <= e.window + MoveWindow + FreezeSec
      BY <1>1, <2>1
    <3>4. QED
      BY <3>2, <3>3
  <2>5. CASE ~Refused(e, s, now)
    <3>1. Relearn(e, s, now) = Take(Counted(e, now), s, now)
      BY <1>5, <2>5 DEF Relearn
    <3>2. /\ Relearn(e, s, now).window = e.window
          /\ Relearn(e, s, now).seen = now
          /\ Relearn(e, s, now).frozen = e.frozen
      BY <2>2, <2>3, <3>1
    <3>3. e.window <= now + MaxLag
      BY <1>1
    <3>4. QED
      BY <1>1, <3>2, <3>3
  <2>6. QED
    BY <2>4, <2>5
<1>6. QED
  BY <1>2, <1>3, <1>4, <1>5

LEMMA RelayFreeze ==
    ASSUME Inv, FreezeInv, NEW p, NEW s, Relay(p, s)
    PROVE  FreezeInv'
<1>1. Relaying(p, s)
  BY DEF Relay, RelayDropL2, RelayDropFreeze, RelayUnicast, RelayDropRate, RelayFlood, Forwarding
<1>2. /\ s \in Session /\ p.now \in Nat /\ clock \in Nat /\ clock' = clock
      /\ p.now <= clock /\ clock <= p.now + MaxLag
  BY <1>1, RelayingSession, ConstantsAssumption DEF Inv, TypeOK, PendingLive
<1>3. Aged(p.now) \subseteq mac /\ mac \subseteq MacEntry
  BY DEF Aged, Inv, TypeOK
<1>4. mac' = Aged(p.now) \/ mac' = Learned(Aged(p.now), s, p.src, p.now)
  BY DEF Relay, RelayDropL2, RelayDropFreeze, RelayUnicast, RelayDropRate, RelayFlood,
         Forwarding, TableFor
<1>5. ASSUME NEW e \in mac'
      PROVE  \/ e \in mac
             \/ \E d \in mac : e = Relearn(d, s, p.now)
             \/ e = NewEntry(s, p.src, p.now)
  <2>1. CASE mac' = Aged(p.now)
    BY <1>3, <2>1
  <2>2. CASE mac' = Learned(Aged(p.now), s, p.src, p.now)
    BY <1>3, <2>2 DEF Learned
  <2>3. QED
    BY <1>4, <2>1, <2>2
<1>6. /\ NewEntry(s, p.src, p.now).window = p.now
      /\ NewEntry(s, p.src, p.now).seen = p.now
      /\ NewEntry(s, p.src, p.now).frozen = 0
  BY DEF NewEntry
<1>7. \A d \in mac : LET e == Relearn(d, s, p.now) IN
        /\ e.window <= clock
        /\ e.window <= e.seen + MaxLag
        /\ e.frozen <= e.window + MoveWindow + FreezeSec
  BY <1>2, <1>3, RelearnFreeze DEF FreezeInv
<1>8. QED
  BY <1>2, <1>5, <1>6, <1>7, ConstantsAssumption DEF FreezeInv

LEMMA NextFreeze == Inv /\ FreezeInv /\ [Next]_vars => FreezeInv'
<1> SUFFICES ASSUME Inv, FreezeInv, [Next]_vars PROVE FreezeInv'
  OBVIOUS
<1>1. CASE Tick
  BY <1>1 DEF Tick, FreezeInv, Inv, TypeOK, MacEntry, hubVars
<1>2. CASE \E p \in pending, s \in sessions : Relay(p, s)
  BY <1>2, RelayFreeze
<1>3. CASE mac' \subseteq mac /\ clock' = clock
  BY <1>3 DEF FreezeInv
<1>4. QED
  BY <1>1, <1>2, <1>3
  DEF Next, Accept, GiveUp, Register, Unregister, Close, Receive, vars, hubVars

LEMMA RelayKeepsFrozen ==
    ASSUME Inv, FreezeInv, NEW p, NEW s, Relay(p, s)
    PROVE  FreezeStep
<1>1. Relaying(p, s)
  BY DEF Relay, RelayDropL2, RelayDropFreeze, RelayUnicast, RelayDropRate, RelayFlood, Forwarding
<1>2. /\ s \in Session /\ p.now \in Nat /\ clock \in Nat
      /\ p.now <= clock /\ clock <= p.now + MaxLag
  BY <1>1, RelayingSession, ConstantsAssumption DEF Inv, TypeOK, PendingLive
<1>3. SUFFICES ASSUME NEW e \in mac, e.frozen > clock, e.ttl >= MoveWindow + FreezeSec + MaxLag
               PROVE  \E d \in mac' : d.net = e.net /\ d.mac = e.mac /\ d.fd = e.fd
  BY DEF FreezeStep
<1>4. e \in MacEntry /\ e.frozen \in Nat /\ e.seen \in Nat /\ e.ttl \in Nat /\ e.window \in Nat
  BY DEF Inv, TypeOK, MacEntry
<1>5. e \in Aged(p.now)
  <2>1. ~Expired(e, p.now)
    BY <1>2, <1>3, <1>4, ConstantsAssumption DEF Expired, FreezeInv
  <2>2. Sessions(e.fd, e.net) # {}
    BY DEF Inv, MacOwnerLive, Sessions
  <2>3. QED
    BY <2>1, <2>2 DEF Aged
<1>6. /\ Relearn(e, s, p.now).net = e.net
      /\ Relearn(e, s, p.now).mac = e.mac
      /\ Relearn(e, s, p.now).fd = e.fd
  <2>1. Frozen(e, p.now)
    BY <1>2, <1>3, <1>4 DEF Frozen
  <2>2. CASE e.fd # s.fd
    BY <2>1, <2>2 DEF Relearn
  <2>3. CASE e.fd = s.fd
    BY <1>2, <1>4, <2>3, RelearnKeepsAddress
  <2>4. QED
    BY <2>2, <2>3
<1>7. CASE mac' = Aged(p.now)
  BY <1>5, <1>7
<1>8. CASE mac' = Learned(Aged(p.now), s, p.src, p.now)
  BY <1>5, <1>6, <1>8 DEF Learned
<1>9. QED
  BY <1>7, <1>8 DEF Relay, RelayDropL2, RelayDropFreeze, RelayUnicast, RelayDropRate, RelayFlood,
                    Forwarding, TableFor

\* A frozen address neither moves nor ages out while the freeze lasts, when its
\* TTL covers the move window, the freeze and the handlers' delay
\* (mac_learn_locked against mac_age_locked).
THEOREM FreezeHolds == Spec => FreezeEndures
<1>1. Init => FreezeInv
  BY DEF Init, FreezeInv
<1>2. Inv /\ FreezeInv /\ [Next]_vars => [FreezeStep]_vars
  <2> SUFFICES ASSUME Inv, FreezeInv, Next PROVE FreezeStep
    OBVIOUS
  <2>1. CASE \E p \in pending, s \in sessions : Relay(p, s)
    BY <2>1, RelayKeepsFrozen
  <2>2. CASE mac' = mac
    BY <2>2 DEF FreezeStep
  <2>3. CASE \E f \in Fds : Unregister(f)
    BY <2>3 DEF Unregister, FreezeStep
  <2>4. QED
    BY <2>1, <2>2, <2>3 DEF Next, Tick, Accept, GiveUp, Register, Close, Receive, hubVars
<1>3. QED
  BY <1>1, <1>2, NextFreeze, Invariance, PTL DEF Spec, FreezeEndures

-----------------------------------------------------------------------------
(* The hub implements the learning switch of L2Switch.                     *)

SwitchAttached == {[port |-> s.fd, net |-> s.net] : s \in sessions}
SwitchOwner == {[net |-> e.net, mac |-> e.mac, port |-> e.fd] : e \in mac}

\* After a frame that is not refused, its source address is the sender's or
\* nobody's (nobody's when there was no room to learn it).
LEMMA SourceIsSenders ==
    ASSUME NEW table \in SUBSET MacEntry, NEW s \in Session, NEW m, NEW now \in Nat,
           ~MacFreeze(table, s, m, now),
           NEW e \in Learned(table, s, m, now), e.net = s.net, e.mac = m
    PROVE  e.fd = s.fd
<1>1. CASE m \notin Macs \/ (Binding(table, s.net, m) = {} /\ ~HasRoom(table, s))
  <2>1. e \in table
    BY <1>1 DEF Learned
  <2>2. m \in Macs /\ e \in Binding(table, s.net, m)
    BY <2>1 DEF Binding, MacEntry
  <2>3. QED
    BY <1>1, <2>2
<1>2. CASE m \in Macs /\ Binding(table, s.net, m) # {}
  <2>1. PICK d \in table : e = IF d \in Binding(table, s.net, m) THEN Relearn(d, s, now) ELSE d
    BY <1>2 DEF Learned
  <2>2. d \in Binding(table, s.net, m) /\ e = Relearn(d, s, now)
    BY <2>1 DEF Binding
  <2>3. ~Refused(d, s, now)
    BY <2>2 DEF MacFreeze
  <2>4. CASE d.fd = s.fd
    BY <2>1, <2>2, <2>4, RelearnKeepsAddress
  <2>5. CASE d.fd # s.fd
    <3>1. e = Take(Counted(d, now), s, now)
      BY <2>2, <2>3, <2>5 DEF Relearn, Refused
    <3>2. Counted(d, now) \in MacEntry
      <4>1. ASSUME NEW c, c = [d EXCEPT !.window = now, !.moves = 1] PROVE c \in MacEntry
        BY <2>1, <4>1 DEF MacEntry
      <4>2. [d EXCEPT !.moves = @ + 1] \in MacEntry
        BY <2>1 DEF MacEntry
      <4>3. QED
        BY <4>1, <4>2 DEF Counted
    <3>3. ASSUME NEW c \in MacEntry PROVE Take(c, s, now).fd = s.fd
      BY DEF Take, MacEntry
    <3>4. QED
      BY <3>1, <3>2, <3>3
  <2>6. QED
    BY <2>4, <2>5
<1>3. CASE m \in Macs /\ Binding(table, s.net, m) = {} /\ HasRoom(table, s)
  <2>1. e \in table \/ e = NewEntry(s, m, now)
    BY <1>3 DEF Learned
  <2>2. e \notin table
    BY <1>3 DEF Binding
  <2>3. QED
    BY <2>1, <2>2 DEF NewEntry
<1>4. QED
  BY <1>1, <1>2, <1>3

\* A frame the hub delivers goes where the switch may send it.
LEMMA RelayReach ==
    ASSUME Inv, NEW p, NEW s, Relay(p, s), NEW f \in out'.to
    PROVE  /\ f # s.fd
           /\ \/ \E e \in mac' : e.net = s.net /\ e.mac = p.dst /\ e.fd = f
              \/ /\ \A e \in mac' : ~(e.net = s.net /\ e.mac = p.dst)
                 /\ \E t \in sessions : t.fd = f /\ t.net = s.net
           /\ \A e \in mac' : e.net = s.net /\ e.mac = p.src => e.fd = s.fd
<1>1. Relaying(p, s)
  BY DEF Relay, RelayDropL2, RelayDropFreeze, RelayUnicast, RelayDropRate, RelayFlood, Forwarding
<1>2. RelayUnicast(p, s) \/ RelayFlood(p, s)
  BY DEF Relay, RelayDropL2, RelayDropFreeze, RelayDropRate, Result
<1>3. mac' = TableFor(p, s) /\ ~MacFreeze(Aged(p.now), s, p.src, p.now)
  BY <1>2 DEF RelayUnicast, RelayFlood, Forwarding
<1>4. \A e \in mac' : e.net = s.net /\ e.mac = p.src => e.fd = s.fd
  BY <1>1, <1>3, AgedTable, RelayingSession, SourceIsSenders DEF TableFor
<1>5. CASE RelayUnicast(p, s)
  <2>1. PICK t \in Lookup(TableFor(p, s), s.net, p.dst) :
           IF t.fd # s.fd /\ ClientBarred(s, t)
           THEN Result("drop_client", p, {})
           ELSE \E to \in SUBSET ({t.fd} \ {s.fd}) : Result("unicast", p, to)
    BY <1>5 DEF RelayUnicast
  <2>2. f = t.fd /\ f # s.fd
    BY <2>1 DEF Result
  <2>3. \E e \in mac' : e.net = s.net /\ e.mac = p.dst /\ e.fd = f
    BY <1>3, <2>1, <2>2 DEF Lookup, Binding
  <2>4. QED
    BY <1>4, <2>2, <2>3
<1>6. CASE RelayFlood(p, s)
  <2>1. f \in FloodTargets(s)
    BY <1>6 DEF RelayFlood, Result
  <2>2. Lookup(mac', s.net, p.dst) = {}
    BY <1>3, <1>6 DEF RelayFlood, Unknown
  <2>3. \A e \in mac' : ~(e.net = s.net /\ e.mac = p.dst)
    BY <2>2, RelayTable DEF Lookup, Binding
  <2>4. QED
    BY <1>4, <2>1, <2>3 DEF FloodTargets
<1>7. QED
  BY <1>2, <1>5, <1>6

\* Every entry after a relay was there before or is the sender's new claim.
LEMMA RelayOwners ==
    ASSUME Inv, NEW p, NEW s, Relay(p, s), NEW e \in mac'
    PROVE  \/ e.fd = s.fd /\ e.net = s.net /\ e.mac = p.src
           \/ \E d \in mac : d.fd = e.fd /\ d.net = e.net /\ d.mac = e.mac
<1>1. Relaying(p, s)
  BY DEF Relay, RelayDropL2, RelayDropFreeze, RelayUnicast, RelayDropRate, RelayFlood, Forwarding
<1>2. mac' = Aged(p.now) \/ mac' = Learned(Aged(p.now), s, p.src, p.now)
  BY DEF Relay, RelayDropL2, RelayDropFreeze, RelayUnicast, RelayDropRate, RelayFlood,
         Forwarding, TableFor
<1>3. Aged(p.now) \subseteq mac
  BY DEF Aged
<1>4. CASE mac' = Aged(p.now)
  BY <1>3, <1>4
<1>5. CASE mac' = Learned(Aged(p.now), s, p.src, p.now)
  BY <1>1, <1>3, <1>5, RelayingSession, AgedTable, LearnedTable
<1>6. QED
  BY <1>2, <1>4, <1>5

\* A relay step is a Forward step of the switch.
LEMMA RelayForwards ==
    ASSUME Inv, NEW p, NEW s, Relay(p, s)
    PROVE  Switch!Next
<1> DEFINE a == [port |-> s.fd, net |-> s.net]
<1> DEFINE me == [net |-> s.net, mac |-> p.src, port |-> s.fd]
<1>1. Relaying(p, s)
  BY DEF Relay, RelayDropL2, RelayDropFreeze, RelayUnicast, RelayDropRate, RelayFlood, Forwarding
<1>2. /\ s \in sessions /\ s.fd = p.fd /\ p.src \in Macs \cup Groups /\ p.dst \in Macs \cup Groups
      /\ a \in SwitchAttached
  BY <1>1, RelayingSession DEF Frame, SwitchAttached
<1>3. SwitchAttached' = SwitchAttached
  BY <1>2, RelaySessions DEF SwitchAttached
<1>4. SwitchOwner' \subseteq SwitchOwner \cup {me}
  BY RelayOwners DEF SwitchOwner
<1>5. \A o, w \in SwitchOwner' : o.net = w.net /\ o.mac = w.mac => o = w
  <2>1. \A d, e \in mac' : d.net = e.net /\ d.mac = e.mac => d = e
    BY RelayTable DEF Unique
  <2>2. QED
    BY <2>1 DEF SwitchOwner
<1>6. out'.from = s.fd
  BY <1>2 DEF Relay, RelayDropL2, RelayDropFreeze, RelayUnicast, RelayDropRate, RelayFlood, Result
<1>7. ASSUME NEW f \in out'.to
      PROVE  /\ f # s.fd
             /\ \/ \E o \in SwitchOwner' : o.net = s.net /\ o.mac = p.dst /\ o.port = f
                \/ /\ \A o \in SwitchOwner' : ~(o.net = s.net /\ o.mac = p.dst)
                   /\ \E c \in SwitchAttached : c.port = f /\ c.net = s.net
             /\ \A o \in SwitchOwner' : o.net = s.net /\ o.mac = p.src => o.port = s.fd
  <2>1. f # s.fd
    BY <1>7, RelayReach
  <2>2. ASSUME NEW e \in mac', e.net = s.net, e.mac = p.dst, e.fd = f
        PROVE  \E o \in SwitchOwner' : o.net = s.net /\ o.mac = p.dst /\ o.port = f
    <3>1. [net |-> e.net, mac |-> e.mac, port |-> e.fd] \in SwitchOwner'
      BY DEF SwitchOwner
    <3>2. QED
      BY <3>1, <2>2
  <2>3. ASSUME \A e \in mac' : ~(e.net = s.net /\ e.mac = p.dst)
        PROVE  \A o \in SwitchOwner' : ~(o.net = s.net /\ o.mac = p.dst)
    BY <2>3 DEF SwitchOwner
  <2>4. ASSUME NEW t \in sessions, t.fd = f, t.net = s.net
        PROVE  \E c \in SwitchAttached : c.port = f /\ c.net = s.net
    <3>1. [port |-> t.fd, net |-> t.net] \in SwitchAttached
      BY DEF SwitchAttached
    <3>2. QED
      BY <3>1, <2>4
  <2>5. \A o \in SwitchOwner' : o.net = s.net /\ o.mac = p.src => o.port = s.fd
    <3>1. \A e \in mac' : e.net = s.net /\ e.mac = p.src => e.fd = s.fd
      BY <1>7, RelayReach
    <3>2. QED
      BY <3>1 DEF SwitchOwner
  <2>6. \/ \E e \in mac' : e.net = s.net /\ e.mac = p.dst /\ e.fd = f
        \/ /\ \A e \in mac' : ~(e.net = s.net /\ e.mac = p.dst)
           /\ \E t \in sessions : t.fd = f /\ t.net = s.net
    BY <1>7, RelayReach
  <2>7. QED
    BY <2>1, <2>2, <2>3, <2>4, <2>5, <2>6
<1>8. Switch!MayLearn(a, p.src, SwitchOwner')
  BY <1>4, <1>5 DEF Switch!MayLearn, SwitchOwner
<1>9. out'.to \subseteq Switch!Reach(a, SwitchOwner', p.dst)
  BY <1>7 DEF Switch!Reach, SwitchAttached
<1>10. out'.to = {} \/ \A o \in SwitchOwner' : o.net = a.net /\ o.mac = p.src => o.port = a.port
  BY <1>7
<1>11. Switch!Forward(a, p.src, p.dst)
  BY <1>2, <1>3, <1>6, <1>8, <1>9, <1>10
  DEF Switch!Forward, Switch!NoDelivery, SwitchAttached, SwitchOwner
<1>12. QED
  BY <1>2, <1>11 DEF Switch!Next, SwitchAttached

\* The other steps of the hub attach, detach or leave the switch alone.
LEMMA StepForwards ==
    ASSUME Inv, Next
    PROVE  Switch!Next
<1> USE DEF Idle
<1>1. ASSUME NEW f \in Fds, NEW n \in Networks, NEW cfg \in Configs, Register(f, n, cfg)
      PROVE  Switch!Next
  <2> DEFINE new == [fd |-> f, net |-> n, cfg |-> cfg, floodSec |-> 0, floodCount |-> 0]
  <2>1. \A a \in SwitchAttached : a.port # f
    BY <1>1 DEF Register, SwitchAttached, Inv, SessionOfHandler
  <2>2. SwitchAttached' = SwitchAttached \cup {[port |-> f, net |-> n]}
    <3>1. sessions' = sessions \cup {new}
      BY <1>1 DEF Register
    <3>2. new.fd = f /\ new.net = n
      OBVIOUS
    <3>3. SwitchAttached' = {[port |-> s.fd, net |-> s.net] : s \in sessions \cup {new}}
      BY <3>1 DEF SwitchAttached
    <3> HIDE DEF new
    <3>4. {[port |-> s.fd, net |-> s.net] : s \in sessions \cup {new}}
             = SwitchAttached \cup {[port |-> new.fd, net |-> new.net]}
      BY Zenon DEF SwitchAttached
    <3>5. QED
      BY <3>2, <3>3, <3>4
  <2>3. SwitchOwner' = SwitchOwner
    BY <1>1 DEF Register, SwitchOwner
  <2>4. Switch!NoDelivery([from |-> out.from, to |-> out.to])'
    BY <1>1 DEF Register, Switch!NoDelivery
  <2>5. Switch!Attach(f, n)
    BY <2>1, <2>2, <2>3, <2>4 DEF Switch!Attach, SwitchAttached, SwitchOwner
  <2>6. QED
    BY <2>5 DEF Switch!Next
<1>2. ASSUME NEW f \in Fds, Unregister(f) PROVE Switch!Next
  <2>1. \E a \in SwitchAttached : a.port = f
    <3>1. PICK s \in sessions : s.fd = f
      BY <1>2 DEF Unregister, Inv, SessionOfHandler
    <3>2. [port |-> s.fd, net |-> s.net] \in SwitchAttached
      BY DEF SwitchAttached
    <3>3. QED
      BY <3>1, <3>2
  <2>2. SwitchAttached' = {a \in SwitchAttached : a.port # f}
    BY <1>2 DEF Unregister, SwitchAttached
  <2>3. SwitchOwner' = {o \in SwitchOwner : o.port # f}
    BY <1>2 DEF Unregister, SwitchOwner
  <2>4. Switch!NoDelivery([from |-> out.from, to |-> out.to])'
    BY <1>2 DEF Unregister, Switch!NoDelivery
  <2>5. Switch!Detach(f)
    BY <2>1, <2>2, <2>3, <2>4 DEF Switch!Detach, SwitchAttached, SwitchOwner
  <2>6. QED
    BY <2>5 DEF Switch!Next
<1>3. ASSUME out' = Idle, UNCHANGED <<sessions, mac>> PROVE Switch!Next
  BY <1>3 DEF Switch!Next, Switch!Rest, Switch!NoDelivery
<1>4. ASSUME NEW f \in Fds, Accept(f) \/ GiveUp(f) \/ Close(f) PROVE Switch!Next
  BY <1>3, <1>4 DEF Accept, GiveUp, Close, hubVars
<1>5. ASSUME NEW f \in Fds, NEW src, NEW dst, Receive(f, src, dst) PROVE Switch!Next
  BY <1>3, <1>5 DEF Receive, hubVars
<1>6. CASE Tick
  BY <1>3, <1>6 DEF Tick, hubVars
<1>7. ASSUME NEW p \in pending, NEW s \in sessions, Relay(p, s) PROVE Switch!Next
  BY <1>7, RelayForwards
<1>8. QED
  BY <1>1, <1>2, <1>4, <1>5, <1>6, <1>7 DEF Next

\* node_server.c's hub implements a learning switch: every frame reaches the
\* owner of its destination or, if nobody owns it, ports of its network only,
\* and addresses are owned by ports that sent from them.
THEOREM HubIsASwitch == Spec => SwitchSpec
<1>1. Init => Switch!Init
  BY DEF Init, Idle, Switch!Init, Switch!NoDelivery
<1>2. Inv /\ [Next]_vars => [Switch!Next]_(Switch!vars)
  <2>1. CASE Inv /\ Next
    BY <2>1, StepForwards
  <2>2. CASE UNCHANGED vars
    BY <2>2 DEF vars, Switch!vars
  <2>3. QED
    BY <2>1, <2>2
<1>3. QED
  BY <1>1, <1>2, Invariance, PTL DEF Spec, SwitchSpec, Switch!Spec

-----------------------------------------------------------------------------
(* The history variables                                                   *)

\* Record only observes: every behaviour of HistorySpec is one of Spec.
LEMMA HistoryIsSpec == HistorySpec => Spec
<1>1. HistoryInit => Init
    BY DEF HistoryInit
<1>2. [Next /\ Record]_<<vars, history>> => [Next]_vars
    BY DEF vars
<1>3. QED
    BY <1>1, <1>2, PTL DEF HistorySpec, Spec

LEMMA HistoryInvariance == HistorySpec => []Inv
BY HistoryIsSpec, Invariance, PTL

-----------------------------------------------------------------------------
(* The history variables: how much a network is flooded                    *)

\* A budget that covers every session's: broadcast_limit_pps at most.
Covers(L) == L \in Nat /\ \A c \in Configs : c.netLimit <= L

\* What a budget of L frames allows in second t, with the window where it is.
WithinWindow(L, n, t) ==
    LET w == rates[n]
        past == L * rewinds[n]
    IN /\ w.count <= L
       /\ t > w.sec => floods[n][t] <= past
       /\ t = w.sec => floods[n][t] <= past + w.count
       /\ t < w.sec => floods[n][t] <= past + L

FloodInv ==
    /\ floods \in [Networks -> [Times -> Nat]]
    /\ rewinds \in [Networks -> Nat]
    /\ \A n \in Networks, t \in Times : \A L \in Nat : Covers(L) => WithinWindow(L, n, t)

LEMMA Budgets ==
    ASSUME NEW L \in Nat, NEW r \in Nat
    PROVE  L * r \in Nat /\ L * (r + 1) = L * r + L /\ L * (1 + r) = L * r + L
OBVIOUS

\* The least number principle: initial segments are finite, and strict inclusion
\* of finite sets is well-founded.
LEMMA LeastNumber ==
    ASSUME NEW B \in SUBSET Nat, B # {}
    PROVE  \E k \in B : \A j \in B : k <= j
<1> DEFINE R == StrictSubsetOrdering(Nat)
           S == FiniteSubsetsOf(Nat)
           T == {0..k : k \in B}
<1>1. IsWellFoundedOn(R, S)
    BY FS_StrictSubsetOrderingWellFounded
<1>2. T \subseteq S /\ T # {}
    <2>1. \A k \in Nat : IsFiniteSet(0..k) /\ 0..k \in SUBSET Nat
        BY FS_Interval
    <2>2. QED
        BY <2>1 DEF FiniteSubsetsOf
<1>3. PICK x \in T : \A y \in T : <<y, x>> \notin R
    <2> HIDE DEF R, S, T
    <2>1. QED
        BY <1>1, <1>2, WFMin
<1>4. PICK k \in B : x = 0..k
    OBVIOUS
<1>5. ASSUME NEW j \in B, ~(k <= j)
      PROVE  FALSE
    <2>1. 0..j \subseteq 0..k /\ 0..j # 0..k /\ 0..j \in SUBSET Nat /\ 0..k \in SUBSET Nat
        <3>1. k \in 0..k /\ k \notin 0..j
            BY <1>5
        <3>2. QED
            BY <1>5, <3>1
    <2>2. 0..j \in T
        OBVIOUS
    <2>3. <<0..j, x>> \in R
        BY <1>4, <2>1 DEF StrictSubsetOrdering
    <2>4. QED
        BY <1>3, <2>2, <2>3
<1>6. QED
    BY <1>5

\* If any budget covers every session's, the largest of theirs does.
LEMMA LargestBudget ==
    ASSUME NEW L \in Nat, Covers(L)
    PROVE  \E c \in Configs : Covers(c.netLimit)
<1> DEFINE B == {k \in Nat : Covers(k)}
<1>1. PICK k \in B : \A j \in B : k <= j
    BY LeastNumber
<1>2. \A c \in Configs : c.netLimit \in Nat \ {0} /\ c.netLimit <= k
    BY ConstantsAssumption DEF Covers, Config
<1>3. ASSUME \A c \in Configs : c.netLimit # k
      PROVE  FALSE
    <2>1. k # 0
        BY <1>2, ConstantsAssumption
    <2>2. k - 1 \in Nat /\ \A c \in Configs : c.netLimit <= k - 1
        BY <1>2, <1>3, <2>1
    <2>3. k - 1 \in B
        BY <2>2 DEF Covers
    <2>4. QED
        BY <1>1, <2>3
<1>4. QED
    BY <1>3

\* The frames a step flooded in network n in second t.
FloodedIn(n, t) == {p \in Flooded : authNet[p.fd] = n /\ p.now = t}

\* A step moves at most one window, that of the network it floods: to another
\* second, or a frame further.
LEMMA RelayWindow ==
    ASSUME Inv, Next, NEW n \in Networks
    PROVE  \/ /\ rates'[n] = rates[n] \/ \E now \in Nat : rates'[n] = NetWindow(n, now)
              /\ \A t \in Times : FloodedIn(n, t) = {}
           \/ \E now \in Nat :
                 /\ rates'[n] = [NetWindow(n, now) EXCEPT !.count = @ + 1]
                 /\ \E c \in Configs : NetWindow(n, now).count < c.netLimit
                 /\ \E p : \A t \in Times : FloodedIn(n, t) = IF t = now THEN {p} ELSE {}
<1> USE DEF FloodedIn
<1>1. CASE ~\E p \in pending, s \in sessions : RelayFlood(p, s) \/ RelayDropRate(p, s)
    <2>1. rates' = rates /\ out'.mode # "flood"
        BY <1>1 DEF Next, Tick, Accept, GiveUp, Register, Unregister, Close, Receive, hubVars, Idle,
            Relay, RelayDropL2, RelayDropFreeze, RelayUnicast, Result
    <2>2. QED
        BY <2>1 DEF Flooded
<1>2. ASSUME NEW p \in pending, NEW s \in sessions, RelayDropRate(p, s)
      PROVE  /\ rates'[n] = rates[n] \/ \E now \in Nat : rates'[n] = NetWindow(n, now)
             /\ Flooded = {}
    <2>1. Relaying(p, s)
        BY <1>2 DEF RelayDropRate, Forwarding
    <2>2. p.now \in Nat /\ s.net \in Networks /\ rates \in [Networks -> Window]
        BY <2>1, RelayingSession DEF Session, Inv, TypeOK
    <2>3. rates' = rates \/ rates' = [rates EXCEPT ![s.net] = NetWindow(s.net, p.now)]
        BY <1>2 DEF RelayDropRate
    <2>4. Flooded = {}
        BY <1>2 DEF RelayDropRate, Result, Flooded
    <2>5. QED
        BY <2>2, <2>3, <2>4
<1>3. ASSUME NEW p \in pending, NEW s \in sessions, RelayFlood(p, s)
      PROVE  \/ rates'[n] = rates[n] /\ \A t \in Times : FloodedIn(n, t) = {}
             \/ /\ p.now \in Nat
                /\ rates'[n] = [NetWindow(n, p.now) EXCEPT !.count = @ + 1]
                /\ \E c \in Configs : NetWindow(n, p.now).count < c.netLimit
                /\ \A t \in Times : FloodedIn(n, t) = IF t = p.now THEN {p} ELSE {}
    <2>1. Relaying(p, s)
        BY <1>3 DEF RelayFlood, Forwarding
    <2>2. /\ p.now \in Nat /\ s.net \in Networks /\ rates \in [Networks -> Window]
          /\ s.cfg \in Configs /\ p \in pending /\ pending' = pending \ {p}
          /\ s.net = authNet[p.fd]
        BY <2>1, RelayingSession DEF Session, Inv, TypeOK
    <2>3. /\ rates' = [rates EXCEPT ![s.net] = [NetWindow(s.net, p.now) EXCEPT !.count = @ + 1]]
          /\ NetWindow(s.net, p.now).count < s.cfg.netLimit
          /\ out'.mode = "flood"
        BY <1>3 DEF RelayFlood, NetMayFlood, Result
    <2>4. Flooded = {p}
        BY <2>2, <2>3 DEF Flooded
    <2>5. CASE n = s.net
        BY <2>2, <2>3, <2>4, <2>5
    <2>6. CASE n # s.net
        BY <2>2, <2>3, <2>4, <2>6
    <2>7. QED
        BY <2>5, <2>6
<1>4. CASE \E p \in pending, s \in sessions : RelayDropRate(p, s)
    <2>1. /\ Flooded = {}
          /\ rates'[n] = rates[n] \/ \E now \in Nat : rates'[n] = NetWindow(n, now)
        BY <1>2, <1>4
    <2>2. QED
        BY <2>1
<1>5. CASE \E p \in pending, s \in sessions : RelayFlood(p, s)
    <2>1. PICK p \in pending, s \in sessions : RelayFlood(p, s)
        BY <1>5
    <2> HIDE DEF FloodedIn
    <2>2. QED
        BY <1>3, <2>1
<1>6. QED
    BY <1>1, <1>4, <1>5

LEMMA FloodStep ==
    ASSUME Inv, FloodInv, Next, Record
    PROVE  FloodInv'
<1>0. /\ rates \in [Networks -> Window] /\ rates' \in [Networks -> Window]
      /\ floods \in [Networks -> [Times -> Nat]] /\ rewinds \in [Networks -> Nat]
      /\ \A n \in Networks : rates[n].sec \in Nat /\ rates[n].count \in Nat
                             /\ rates'[n].sec \in Nat /\ rates'[n].count \in Nat
    BY NextInv DEF Inv, TypeOK, FloodInv, Window
<1> DEFINE more(n, t) == Cardinality(FloodedIn(n, t))
           back(n) == IF rates'[n].sec < rates[n].sec THEN 1 ELSE 0
<1>1. ASSUME NEW n \in Networks
      PROVE  \/ /\ rates'[n] = rates[n] \/ \E u \in Nat : rates'[n] = NetWindow(n, u)
                /\ \A t \in Times : more(n, t) = 0
             \/ \E u \in Nat :
                   /\ rates'[n] = [NetWindow(n, u) EXCEPT !.count = @ + 1]
                   /\ \E c \in Configs : NetWindow(n, u).count < c.netLimit
                   /\ \A t \in Times : more(n, t) = IF t = u THEN 1 ELSE 0
    <2>1. Cardinality({}) = 0 /\ \A p : Cardinality({p}) = 1
        BY FS_EmptySet, FS_Singleton
    <2>2. ASSUME \A t \in Times : FloodedIn(n, t) = {}
          PROVE  \A t \in Times : more(n, t) = 0
        BY <2>1, <2>2
    <2>3. ASSUME NEW p, NEW u \in Nat,
                 \A t \in Times : FloodedIn(n, t) = IF t = u THEN {p} ELSE {}
          PROVE  \A t \in Times : more(n, t) = IF t = u THEN 1 ELSE 0
        BY <2>1, <2>3
    <2>4. ASSUME NEW u \in Nat,
                 /\ rates'[n] = [NetWindow(n, u) EXCEPT !.count = @ + 1]
                 /\ \E c \in Configs : NetWindow(n, u).count < c.netLimit
                 /\ \E p : \A t \in Times : FloodedIn(n, t) = IF t = u THEN {p} ELSE {}
          PROVE  \A t \in Times : more(n, t) = IF t = u THEN 1 ELSE 0
        BY <2>3, <2>4
    <2> HIDE DEF more
    <2>5. QED
        BY <2>2, <2>4, RelayWindow
<1>2. /\ floods' = [n \in Networks |-> [t \in Times |-> floods[n][t] + more(n, t)]]
      /\ rewinds' = [n \in Networks |-> rewinds[n] + back(n)]
    BY DEF Record, FloodedIn
<1> HIDE DEF more
<1>3. \A n \in Networks, t \in Times : more(n, t) \in {0, 1}
    BY <1>1
<1>4. floods' \in [Networks -> [Times -> Nat]] /\ rewinds' \in [Networks -> Nat]
    <2>1. ASSUME NEW n \in Networks, NEW t \in Times
          PROVE  floods[n][t] + more(n, t) \in Nat
        <3>1. floods[n][t] \in Nat /\ more(n, t) \in Nat
            BY <1>0, <1>3
        <3>2. QED
            BY <3>1
    <2>2. ASSUME NEW n \in Networks
          PROVE  rewinds[n] + back(n) \in Nat
        <3>1. rewinds[n] \in Nat /\ back(n) \in Nat
            BY <1>0
        <3> HIDE DEF back
        <3>2. QED
            BY <3>1
    <2> HIDE DEF back
    <2>3. QED
        BY <1>2, <2>1, <2>2
<1>5. ASSUME NEW n \in Networks, NEW t \in Times, NEW L \in Nat, Covers(L)
      PROVE  WithinWindow(L, n, t)'
    <2> DEFINE past == L * rewinds[n]
    <2>1. /\ floods'[n][t] = floods[n][t] + more(n, t) /\ floods[n][t] \in Nat
          /\ rewinds'[n] = rewinds[n] + back(n) /\ rewinds[n] \in Nat /\ t \in Nat
        BY <1>0, <1>2, ConstantsAssumption DEF Times
    <2>0. past \in Nat
        BY <2>1, Budgets
    <2>2. L * (rewinds[n] + 0) = past /\ L * (rewinds[n] + 1) = past + L
        BY <2>1, Budgets
    <2>3. L * rewinds'[n] = IF rates'[n].sec < rates[n].sec THEN past + L ELSE past
        BY <2>1, <2>2
    <2>4. /\ rates[n].count <= L
          /\ t > rates[n].sec => floods[n][t] <= past
          /\ t = rates[n].sec => floods[n][t] <= past + rates[n].count
          /\ t < rates[n].sec => floods[n][t] <= past + L
        BY <1>5 DEF FloodInv, WithinWindow
    <2> DEFINE now == rates'[n].sec
               base == IF now < rates[n].sec THEN past + L ELSE past
    <2>5. SUFFICES /\ rates'[n].count <= L
                   /\ t > now => floods'[n][t] <= base
                   /\ t = now => floods'[n][t] <= base + rates'[n].count
                   /\ t < now => floods'[n][t] <= base + L
        BY <2>3 DEF WithinWindow
    <2> HIDE DEF past
    <2>10. /\ floods[n][t] \in Nat /\ t \in Nat
           /\ rates[n].sec \in Nat /\ rates[n].count \in Nat
        BY <1>0, <2>1
    <2>6. CASE rates'[n] = rates[n] /\ more(n, t) = 0
        BY <1>0, <2>0, <2>1, <2>4, <2>6
    <2>7. ASSUME NEW u \in Nat, rates'[n] = NetWindow(n, u), more(n, t) = 0
          PROVE  /\ rates'[n].count <= L
                 /\ t > now => floods'[n][t] <= base
                 /\ t = now => floods'[n][t] <= base + rates'[n].count
                 /\ t < now => floods'[n][t] <= base + L
        <3>1. now = u /\ rates'[n].count = IF rates[n].sec = u THEN rates[n].count ELSE 0
            BY <1>0, <2>7 DEF NetWindow
        <3>2. floods'[n][t] = floods[n][t]
            BY <2>1, <2>7
        <3>3. QED
            BY <2>0, <2>10, <2>4, <3>1, <3>2
    <2>8. ASSUME NEW u \in Nat, rates'[n] = [NetWindow(n, u) EXCEPT !.count = @ + 1],
                 NEW c \in Configs, NetWindow(n, u).count < c.netLimit,
                 more(n, t) = IF t = u THEN 1 ELSE 0
          PROVE  /\ rates'[n].count <= L
                 /\ t > now => floods'[n][t] <= base
                 /\ t = now => floods'[n][t] <= base + rates'[n].count
                 /\ t < now => floods'[n][t] <= base + L
        <3>1. NetWindow(n, u).sec = u /\ NetWindow(n, u) \in Window
              /\ NetWindow(n, u).count = IF rates[n].sec = u THEN rates[n].count ELSE 0
            BY <1>0 DEF NetWindow, Window
        <3>2. now = u /\ rates'[n].count = NetWindow(n, u).count + 1
            BY <2>8, <3>1 DEF Window
        <3>3. NetWindow(n, u).count < L
            BY <1>5, <2>8, <3>1, ConstantsAssumption DEF Covers, Config, Window
        <3>4. /\ rates'[n].count <= L
              /\ rates'[n].count = IF rates[n].sec = u THEN rates[n].count + 1 ELSE 1
            BY <1>0, <3>1, <3>2, <3>3
        <3>5. floods'[n][t] = IF t = u THEN floods[n][t] + 1 ELSE floods[n][t]
            BY <2>1, <2>8
        <3>6. QED
            BY <2>0, <2>10, <2>4, <3>2, <3>4, <3>5
    <2>9. QED
        BY <1>1, <2>6, <2>7, <2>8
<1>6. QED
    BY <1>4, <1>5 DEF FloodInv, Covers

LEMMA FloodInvariance == HistorySpec => []FloodInv
<1>1. HistoryInit => FloodInv
    <2> SUFFICES ASSUME HistoryInit PROVE FloodInv
        OBVIOUS
    <2>1. /\ floods = [n \in Networks |-> [t \in Times |-> 0]]
          /\ rewinds = [n \in Networks |-> 0]
          /\ rates = [n \in Networks |-> [sec |-> 0, count |-> 0]]
        BY DEF HistoryInit, Init
    <2>2. ASSUME NEW n \in Networks, NEW t \in Times, NEW L \in Nat
          PROVE  WithinWindow(L, n, t)
        <3>1. L * 0 = 0 /\ t \in Nat
            BY ConstantsAssumption DEF Times
        <3>2. rewinds[n] = 0 /\ floods[n][t] = 0 /\ rates[n].sec = 0 /\ rates[n].count = 0
            BY <2>1
        <3>3. QED
            BY <3>1, <3>2 DEF WithinWindow
    <2>3. QED
        BY <2>1, <2>2 DEF FloodInv
<1>2. FloodInv /\ UNCHANGED <<vars, history>> => FloodInv'
    BY DEF FloodInv, Covers, WithinWindow, vars, history
<1>3. Inv /\ FloodInv /\ [Next /\ Record]_<<vars, history>> => FloodInv'
    BY FloodStep, <1>2
<1>4. QED
    BY <1>1, <1>3, HistoryInvariance, PTL DEF HistorySpec

\* flood_allowed_locked: however late handlers come to the mutex, in any second
\* a network is flooded with at most broadcast_limit_pps frames, and as many
\* again for each time its window was set back.
THEOREM FloodBudget == HistorySpec => []NetworkFloodBudget
<1>1. ASSUME Inv, FloodInv
      PROVE  NetworkFloodBudget
    <2> SUFFICES ASSUME NEW n \in Networks, NEW t \in Times
                 PROVE  \E c \in Configs : floods[n][t] <= c.netLimit * (1 + rewinds[n])
        BY DEF NetworkFloodBudget
    <2>1. floods[n][t] \in Nat /\ rewinds[n] \in Nat
        BY <1>1 DEF FloodInv
    <2>0. rates[n].sec \in Nat /\ rates[n].count \in Nat /\ t \in Nat
        BY <1>1, ConstantsAssumption DEF Inv, TypeOK, Window, Times
    <2>2. \A c \in Configs : c.netLimit \in Nat
        BY ConstantsAssumption DEF Config
    <2>3. CASE \E L \in Nat : Covers(L)
        <3>1. PICK c \in Configs : Covers(c.netLimit)
            BY <2>3, LargestBudget
        <3> DEFINE L == c.netLimit
                   past == L * rewinds[n]
        <3>2. WithinWindow(L, n, t) /\ L \in Nat
            BY <1>1, <2>2, <3>1 DEF FloodInv
        <3>3. past \in Nat /\ L * (1 + rewinds[n]) = past + L
            BY <2>1, <3>2, Budgets
        <3>4. floods[n][t] <= past + L
            <4>1. /\ rates[n].count <= L
                  /\ t > rates[n].sec => floods[n][t] <= past
                  /\ t = rates[n].sec => floods[n][t] <= past + rates[n].count
                  /\ t < rates[n].sec => floods[n][t] <= past + L
                BY <3>2 DEF WithinWindow
            <4> HIDE DEF past, L
            <4>2. QED
                BY <2>0, <2>1, <3>2, <3>3, <4>1
        <3>5. QED
            BY <3>3, <3>4
    <2>4. CASE ~\E L \in Nat : Covers(L)
        <3>1. PICK c \in Configs : ~(c.netLimit <= floods[n][t])
            BY <2>1, <2>4 DEF Covers
        <3>2. c.netLimit * rewinds[n] \in Nat
              /\ c.netLimit * (1 + rewinds[n]) = c.netLimit * rewinds[n] + c.netLimit
            BY <2>1, <2>2, Budgets
        <3> DEFINE past == c.netLimit * rewinds[n]
                   all == c.netLimit * (1 + rewinds[n])
        <3>3. past \in Nat /\ all = past + c.netLimit
            BY <3>2
        <3> HIDE DEF past, all
        <3>4. floods[n][t] <= all
            BY <2>1, <2>2, <3>1, <3>3
        <3>5. QED
            BY <3>4 DEF all
    <2>5. QED
        BY <2>3, <2>4
<1>2. QED
    BY <1>1, HistoryInvariance, FloodInvariance, PTL

-----------------------------------------------------------------------------
(* The history variables: how often an address moves                       *)

\* As many moves as one window of mac_learn_locked lets through.
PerWindow == FreezeThreshold - 1

\* The moves the entry's window has let through.
LetThrough(e) == IF e.moves < PerWindow THEN e.moves ELSE PerWindow

\* How often an address whose entry is e may have moved in the span from s on,
\* if its window was set back over the span b times: none of this budget is used
\* while the window ends before the span begins, and with a window that begins
\* in the span the one before it may have let moves through as well.
Allowed(e, s, b) ==
    LET past == TwoWindows * b IN
    IF e.window + MoveWindow < s THEN past
    ELSE IF e.window <= s THEN past + LetThrough(e)
    ELSE IF e.window <= s + MoveWindow THEN past + PerWindow + LetThrough(e)
    ELSE past + TwoWindows

DampInv ==
    /\ moved \in [Addresses -> [Times -> Nat]]
    /\ setBacks \in [Addresses -> [Times -> Nat]]
    /\ \A a \in Addresses, s \in Times :
          /\ (\A e \in Binding(mac, a[1], a[2]) : e.moves = 0) => moved[a][s] = 0
          /\ \A e \in Binding(mac, a[1], a[2]) : moved[a][s] <= Allowed(e, s, setBacks[a][s])

LEMMA Windows == PerWindow \in Nat \ {0} /\ TwoWindows = PerWindow + PerWindow /\ MoveWindow \in Nat
BY ConstantsAssumption DEF PerWindow, TwoWindows

\* What mac_learn_locked may do to an entry, as far as its moves go: leave its
\* owner and window alone, or let it move.
Stays(e, d) ==
    /\ d.fd = e.fd
    /\ d.window = e.window
    /\ d.moves = e.moves \/ (e.moves >= PerWindow /\ d.moves >= PerWindow)

Moves(e, d, now) ==
    /\ d.fd # e.fd
    /\ d.seen = now
    /\ \/ WindowOver(e, now) /\ d.window = now /\ d.moves = 1
       \/ /\ ~WindowOver(e, now)
          /\ d.window = e.window /\ d.moves = e.moves + 1 /\ d.moves <= PerWindow

LEMMA RelearnMoves ==
    ASSUME NEW e \in MacEntry, NEW s \in Session, NEW now \in Nat
    PROVE  Stays(e, Relearn(e, s, now)) \/ Moves(e, Relearn(e, s, now), now)
<1> DEFINE c == Counted(e, now)
<1> USE Windows
<1>1. e.moves \in Nat /\ e.window \in Nat /\ e.frozen \in Nat /\ FreezeThreshold = PerWindow + 1
    BY ConstantsAssumption DEF MacEntry, PerWindow
<1>2. /\ c.fd = e.fd /\ c.seen = e.seen
      /\ IF WindowOver(e, now) THEN c.window = now /\ c.moves = 1
                               ELSE c.window = e.window /\ c.moves = e.moves + 1
    BY DEF Counted, MacEntry
<1>3. c \in MacEntry
    <2>1. ASSUME NEW k \in Nat PROVE [e EXCEPT !.moves = k] \in MacEntry
        BY DEF MacEntry
    <2>2. [e EXCEPT !.window = now, !.moves = 1] \in MacEntry
        BY DEF MacEntry
    <2>3. e.moves + 1 \in Nat
        BY <1>1
    <2>4. QED
        BY <2>1, <2>2, <2>3 DEF Counted
<1>4. \A x \in MacEntry : /\ Take(x, s, now).fd = s.fd
                          /\ Take(x, s, now).seen = now
                          /\ Take(x, s, now).window = x.window
                          /\ Take(x, s, now).moves = x.moves
    BY DEF Take, MacEntry
<1>5. CASE e.fd = s.fd
    <2> DEFINE u == [e EXCEPT !.frozen = IF @ <= now THEN 0 ELSE @]
    <2>1. u \in MacEntry /\ u.window = e.window /\ u.moves = e.moves
        BY <1>1 DEF MacEntry
    <2>2. Relearn(e, s, now) = Take(u, s, now)
        BY <1>5 DEF Relearn
    <2> HIDE DEF u
    <2>3. QED
        BY <1>4, <1>5, <2>1, <2>2 DEF Stays
<1>6. CASE e.fd # s.fd /\ Frozen(e, now)
    BY <1>6 DEF Relearn, Stays
<1>7. CASE e.fd # s.fd /\ ~Frozen(e, now) /\ Refused(e, s, now)
    <2>1. c.moves >= FreezeThreshold
        BY <1>7 DEF Refused
    <2>2. Relearn(e, s, now) = [c EXCEPT !.frozen = now + FreezeSec]
        BY <1>7 DEF Relearn
    <2> HIDE DEF c
    <2>3. /\ Relearn(e, s, now).fd = c.fd /\ Relearn(e, s, now).window = c.window
          /\ Relearn(e, s, now).moves = c.moves
        BY <1>3, <2>2 DEF MacEntry
    <2>4. c.window = e.window /\ c.moves = e.moves + 1
        BY <1>1, <1>2, <2>1
    <2>5. QED
        BY <1>1, <1>2, <2>1, <2>3, <2>4 DEF Stays
<1>8. CASE e.fd # s.fd /\ ~Frozen(e, now) /\ ~Refused(e, s, now)
    <2>1. Relearn(e, s, now) = Take(c, s, now)
        BY <1>8 DEF Relearn
    <2>2. ~(c.moves >= FreezeThreshold)
        BY <1>8 DEF Refused
    <2> HIDE DEF c
    <2>3. /\ Relearn(e, s, now).fd = s.fd /\ Relearn(e, s, now).seen = now
          /\ Relearn(e, s, now).window = c.window /\ Relearn(e, s, now).moves = c.moves
        BY <1>3, <1>4, <2>1
    <2>4. QED
        BY <1>1, <1>2, <1>8, <2>2, <2>3 DEF Moves
<1>9. QED
    BY <1>5, <1>6, <1>7, <1>8

\* After a step an entry is a new one, or what became of the one before.
LEMMA StepMoves ==
    ASSUME Inv, Next, NEW d \in mac'
    PROVE  \/ d.moves = 0
           \/ \E e \in mac : /\ e.net = d.net /\ e.mac = d.mac
                             /\ Stays(e, d) \/ (\E now \in Nat : Moves(e, d, now))
<1>0. mac \subseteq MacEntry
    BY DEF Inv, TypeOK
<1>1. CASE ~\E p \in pending, s \in sessions : Relay(p, s)
    <2>1. mac' \subseteq mac
        BY <1>1 DEF Next, Tick, Accept, GiveUp, Register, Unregister, Close, Receive, hubVars
    <2>2. QED
        BY <2>1 DEF Stays
<1>2. ASSUME NEW p \in pending, NEW s \in sessions, Relay(p, s)
      PROVE  \/ d.moves = 0
             \/ \E e \in mac : /\ e.net = d.net /\ e.mac = d.mac
                               /\ Stays(e, d) \/ \E now \in Nat : Moves(e, d, now)
    <2>1. Relaying(p, s)
        BY <1>2 DEF Relay, RelayDropL2, RelayDropFreeze, RelayUnicast, RelayDropRate, RelayFlood,
            Forwarding
    <2>2. p.now \in Nat /\ s \in Session
        BY <2>1, RelayingSession
    <2>3. mac' = Aged(p.now) \/ mac' = Learned(Aged(p.now), s, p.src, p.now)
        BY <1>2 DEF Relay, RelayDropL2, RelayDropFreeze, RelayUnicast, RelayDropRate, RelayFlood,
            Forwarding, TableFor
    <2>4. Aged(p.now) \subseteq mac
        BY DEF Aged
    <2>5. CASE d \in mac
        BY <2>5 DEF Stays
    <2>6. CASE d = NewEntry(s, p.src, p.now)
        BY <2>6 DEF NewEntry
    <2>7. ASSUME NEW e \in Aged(p.now), d = Relearn(e, s, p.now)
          PROVE  \E x \in mac : /\ x.net = d.net /\ x.mac = d.mac
                                /\ Stays(x, d) \/ \E now \in Nat : Moves(x, d, now)
        BY <1>0, <2>2, <2>4, <2>7, RelearnKeepsAddress, RelearnMoves
    <2>8. QED
        BY <2>3, <2>4, <2>5, <2>6, <2>7 DEF Learned
<1>3. QED
    BY <1>1, <1>2

\* A move that is let through keeps the address within what its entry allows,
\* whether the entry's window stays, is over, or is set back by a late handler.
LEMMA DampedMove ==
    ASSUME NEW d \in MacEntry, NEW e \in MacEntry, NEW now \in Nat, Moves(d, e, now),
           NEW s \in Nat, NEW b \in Nat, NEW m \in Nat, m <= Allowed(d, s, b)
    PROVE  (IF now \in Span(s) THEN m + 1 ELSE m)
              <= Allowed(e, s, IF SetBackOver(<<d, e>>, s) THEN b + 1 ELSE b)
<1> DEFINE W == MoveWindow
           P == PerWindow
           T == TwoWindows
           w == d.window
           k == LetThrough(d)
           X == T * b
           n == IF now \in Span(s) THEN m + 1 ELSE m
<1>1. /\ W \in Nat /\ P \in Nat \ {0} /\ T = P + P
      /\ w \in Nat /\ e.window \in Nat /\ d.moves \in Nat /\ e.moves \in Nat
      /\ k \in Nat /\ k <= P /\ n \in Nat
    BY Windows DEF MacEntry, LetThrough
<1>2. X \in Nat /\ T * (b + 1) = X + T
    BY <1>1, Budgets
<1>3. now \in Span(s) <=> s <= now /\ now <= s + W
    BY <1>1 DEF Span
<1>4. SetBackOver(<<d, e>>, s) <=> e.window < w /\ s <= w + W /\ e.window <= s + W
    BY DEF SetBackOver
<1>5. /\ w + W < s => m <= X
      /\ w + W >= s /\ w <= s => m <= X + k
      /\ s < w /\ w <= s + W => m <= X + P + k
      /\ m <= X + T
    BY <1>1, <1>2 DEF Allowed
<1>6. n <= m + 1 /\ (~(s <= now /\ now <= s + W) => n = m)
    BY <1>3
<1>7. CASE ~WindowOver(d, now)
    <2>1. e.window = w /\ LetThrough(e) = k + 1 /\ k + 1 <= P
        BY <1>1, <1>7 DEF Moves, LetThrough
    <2>2. w <= now /\ now <= w + W
        BY <1>1, <1>7 DEF WindowOver
    <2>3. ~SetBackOver(<<d, e>>, s)
        BY <1>1, <1>4, <2>1
    <2> HIDE DEF W, P, T, w, k, X, n
    <2>4. /\ w + W < s => n <= X
          /\ w + W >= s /\ w <= s => n <= X + (k + 1)
          /\ s < w /\ w <= s + W => n <= X + P + (k + 1)
          /\ s + W < w => n <= X + T
        BY <1>1, <1>2, <1>5, <1>6, <2>2
    <2>5. Allowed(e, s, b) = IF w + W < s THEN X ELSE IF w <= s THEN X + (k + 1)
                             ELSE IF w <= s + W THEN X + P + (k + 1) ELSE X + T
        BY <2>1 DEF Allowed, W, P, T, X
    <2>6. n <= Allowed(e, s, b)
        BY <1>1, <2>4, <2>5
    <2>7. QED
        BY <2>3, <2>6 DEF n
<1>8. CASE WindowOver(d, now)
    <2>1. e.window = now /\ LetThrough(e) = 1
        BY <1>1, <1>8 DEF Moves, LetThrough
    <2>2. now < w \/ w + W < now
        BY <1>1, <1>8 DEF WindowOver
    <2> HIDE DEF W, P, T, w, k, X, n
    <2>3. \A c \in Nat : Allowed(e, s, c) = IF now + W < s THEN T * c
                                          ELSE IF now <= s THEN T * c + 1
                                          ELSE IF now <= s + W THEN T * c + P + 1 ELSE T * c + T
        BY <2>1 DEF Allowed, W, P, T
    <2>4. CASE SetBackOver(<<d, e>>, s)
        <3>1. Allowed(e, s, b + 1) >= X + T + (IF now + W < s THEN 0 ELSE 1)
            BY <1>1, <1>2, <2>3
        <3>2. now + W < s => n = m
            BY <1>1, <1>6
        <3>3. n <= Allowed(e, s, b + 1)
            BY <1>1, <1>2, <1>5, <1>6, <2>3, <3>1, <3>2
        <3>4. QED
            BY <2>4, <3>3 DEF n
    <2>5. CASE ~SetBackOver(<<d, e>>, s)
        <3>1. ~(now < w /\ s <= w + W /\ now <= s + W)
            BY <1>4, <2>1, <2>5
        <3>2. /\ now + W < s => n <= X
              /\ now + W >= s /\ now <= s => n <= X + 1
              /\ s < now /\ now <= s + W => n <= X + P + 1
              /\ s + W < now => n <= X + T
            BY <1>1, <1>2, <1>5, <1>6, <2>2, <3>1
        <3>3. n <= Allowed(e, s, b)
            BY <1>1, <1>2, <2>3, <3>2 DEF X
        <3>4. QED
            BY <2>5, <3>3 DEF n
    <2>6. QED
        BY <2>4, <2>5
<1>9. QED
    BY <1>7, <1>8

LEMMA DampStep ==
    ASSUME Inv, DampInv, Next, Record
    PROVE  DampInv'
<1>1. /\ mac \subseteq MacEntry /\ mac' \subseteq MacEntry
      /\ \A x, y \in mac : x.net = y.net /\ x.mac = y.mac => x = y
      /\ \A x, y \in mac' : x.net = y.net /\ x.mac = y.mac => x = y
    BY NextInv DEF Inv, TypeOK, MacUnique
<1>2. ASSUME NEW a \in Addresses, NEW s \in Times
      PROVE  /\ moved'[a][s] = Tally(a, moved[a][s], \E c \in Kept(a) : MovedIn(c, s))
             /\ setBacks'[a][s] = Tally(a, setBacks[a][s], \E c \in Kept(a) : SetBackOver(c, s))
             /\ moved[a][s] \in Nat /\ setBacks[a][s] \in Nat /\ s \in Nat
    BY ConstantsAssumption DEF Record, DampInv, Times
<1>3. /\ moved' \in [Addresses -> [Times -> Nat]]
      /\ setBacks' \in [Addresses -> [Times -> Nat]]
    <2>1. \A a \in Addresses, s \in Times : moved'[a][s] \in Nat /\ setBacks'[a][s] \in Nat
        BY <1>2 DEF Tally
    <2>2. QED
        BY <2>1 DEF Record
<1>4. ASSUME NEW a \in Addresses, NEW s \in Times,
             \A e \in Binding(mac', a[1], a[2]) : e.moves = 0
      PROVE  moved'[a][s] = 0 /\ setBacks'[a][s] = 0
    <2>1. Kept(a) = {}
        BY <1>4 DEF Kept
    <2>2. QED
        BY <1>2, <2>1 DEF Tally
<1>5. ASSUME NEW a \in Addresses, NEW s \in Times, NEW e \in Binding(mac', a[1], a[2])
      PROVE  moved'[a][s] <= Allowed(e, s, setBacks'[a][s])
    <2>1. e \in mac' /\ e \in MacEntry /\ e.net = a[1] /\ e.mac = a[2] /\ e.moves \in Nat
        BY <1>1 DEF Binding, MacEntry
    <2>2. CASE e.moves = 0
        <3>1. Binding(mac', a[1], a[2]) = {e}
            BY <1>1, <2>1 DEF Binding
        <3>2. moved'[a][s] = 0 /\ setBacks'[a][s] = 0
            BY <1>4, <2>2, <3>1
        <3>3. LetThrough(e) \in Nat /\ TwoWindows * 0 = 0
            BY <2>1, Windows DEF LetThrough
        <3>4. QED
            BY <1>2, <2>1, <3>2, <3>3, Windows DEF Allowed, MacEntry
    <2>3. CASE e.moves # 0
        <3>1. PICK d \in mac : /\ d.net = e.net /\ d.mac = e.mac
                               /\ Stays(d, e) \/ (\E now \in Nat : Moves(d, e, now))
            BY <2>1, <2>3, StepMoves
        <3>2. d \in MacEntry /\ Binding(mac, a[1], a[2]) = {d} /\ Binding(mac', a[1], a[2]) = {e}
            BY <1>1, <2>1, <3>1 DEF Binding
        <3>3. Kept(a) = {<<d, e>>}
            BY <2>1, <2>3, <3>2 DEF Kept
        <3>4. moved[a][s] <= Allowed(d, s, setBacks[a][s])
            BY <3>2 DEF DampInv
        <3>5. /\ moved'[a][s] = IF MovedIn(<<d, e>>, s) THEN moved[a][s] + 1 ELSE moved[a][s]
              /\ setBacks'[a][s] = IF SetBackOver(<<d, e>>, s) THEN setBacks[a][s] + 1
                                   ELSE setBacks[a][s]
            BY <1>2, <3>3 DEF Tally
        <3>6. CASE Stays(d, e)
            <4>1. d.moves \in Nat /\ d.window \in Nat /\ PerWindow \in Nat
                BY <3>2, Windows DEF MacEntry
            <4>2. e.window = d.window /\ LetThrough(e) = LetThrough(d)
                BY <2>1, <3>6, <4>1 DEF Stays, LetThrough
            <4>3. moved'[a][s] = moved[a][s] /\ setBacks'[a][s] = setBacks[a][s]
                BY <3>5, <3>6, <4>1, <4>2 DEF Stays, MovedIn, SetBackOver
            <4>4. QED
                BY <3>4, <4>2, <4>3 DEF Allowed
        <3>7. ASSUME NEW now \in Nat, Moves(d, e, now)
              PROVE  moved'[a][s] <= Allowed(e, s, setBacks'[a][s])
            <4>1. MovedIn(<<d, e>>, s) <=> now \in Span(s)
                BY <3>7 DEF Moves, MovedIn
            <4>2. moved'[a][s] = IF now \in Span(s) THEN moved[a][s] + 1 ELSE moved[a][s]
                BY <3>5, <4>1
            <4>3. (IF now \in Span(s) THEN moved[a][s] + 1 ELSE moved[a][s])
                     <= Allowed(e, s, IF SetBackOver(<<d, e>>, s) THEN setBacks[a][s] + 1
                                      ELSE setBacks[a][s])
                BY <1>2, <2>1, <3>2, <3>4, <3>7, DampedMove
            <4>4. QED
                BY <3>5, <4>2, <4>3
        <3>8. QED
            BY <3>1, <3>6, <3>7
    <2>4. QED
        BY <2>2, <2>3
<1>6. QED
    BY <1>3, <1>4, <1>5 DEF DampInv

LEMMA DampInvariance == HistorySpec => []DampInv
<1>1. HistoryInit => DampInv
    BY DEF HistoryInit, Init, DampInv, Binding
<1>2. DampInv /\ UNCHANGED <<vars, history>> => DampInv'
    BY DEF DampInv, vars, history
<1>3. Inv /\ DampInv /\ [Next /\ Record]_<<vars, history>> => DampInv'
    BY DampStep, <1>2
<1>4. QED
    BY <1>1, <1>3, HistoryInvariance, PTL DEF HistorySpec

\* The freeze of mac_learn_locked: however the sessions that claim an address
\* interleave, and however late their handlers come to the mutex, no span of
\* MoveWindow seconds contains more of its moves than two windows let through,
\* and as many again for each time its window was set back over the span.
THEOREM FlappingIsDamped == HistorySpec => []MoveDamping
<1>1. ASSUME Inv, DampInv
      PROVE  MoveDamping
    <2> SUFFICES ASSUME NEW a \in Addresses, NEW s \in Times
                 PROVE  moved[a][s] <= TwoWindows * (1 + setBacks[a][s])
        BY DEF MoveDamping
    <2> DEFINE m == moved[a][s]
               X == TwoWindows * setBacks[a][s]
    <2>1. m \in Nat /\ setBacks[a][s] \in Nat /\ s \in Nat
        BY <1>1, ConstantsAssumption DEF DampInv, Times
    <2>2. X \in Nat /\ TwoWindows * (1 + setBacks[a][s]) = X + TwoWindows
        <3>1. TwoWindows \in Nat
            BY Windows
        <3>2. QED
            BY <2>1, <3>1, Budgets
    <2>3. CASE \A e \in Binding(mac, a[1], a[2]) : e.moves = 0
        <3>1. m = 0
            BY <1>1, <2>3 DEF DampInv
        <3> HIDE DEF m, X
        <3>2. m <= X + TwoWindows
            BY <2>2, <3>1, Windows
        <3>3. QED
            BY <2>2, <3>2 DEF m
    <2>4. ASSUME NEW e \in Binding(mac, a[1], a[2])
          PROVE  m <= X + TwoWindows
        <3>1. e.moves \in Nat /\ e.window \in Nat /\ LetThrough(e) \in 0..PerWindow
            BY <1>1, Windows DEF Inv, TypeOK, Binding, MacEntry, LetThrough
        <3>2. m <= Allowed(e, s, setBacks[a][s])
            BY <1>1 DEF DampInv
        <3> DEFINE k == LetThrough(e)
        <3>3. Allowed(e, s, setBacks[a][s]) \in {X, X + k, X + PerWindow + k, X + TwoWindows}
            BY DEF Allowed
        <3> HIDE DEF m, X, k
        <3>4. k \in 0..PerWindow
            BY <3>1 DEF k
        <3>5. QED
            BY <2>1, <2>2, <3>2, <3>3, <3>4, Windows
    <2>5. QED
        BY <2>2, <2>3, <2>4
<1>2. QED
    BY <1>1, HistoryInvariance, DampInvariance, PTL
=============================================================================
