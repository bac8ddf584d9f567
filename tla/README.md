# NTAP-A in TLA+

A model of NTAP-A, the control and relay server of NTAP (`src/`), with TLC runs
that check it on small instances and TLAPS proofs for every instance. Paths
below are relative to the repository; `node_server.c` is
`src/src/a/node_server.c`.

## The system and its parts

NTAP-A is one C program with two long-running commands. `serve` runs the node
server: two listeners (nodes and TAP users on one port, SOCKS clients on the
other) with one thread per connection, plus one writer thread per session. `api`
runs the management API: one thread, one request at a time. The two processes
share only the SQLite file. Direct access has no listener here: the server signs
tokens, and the nodes accept them.

| Part | State | Operations | Hard behaviour | What makes it correct |
|---|---|---|---|---|
| TAP hub (`relay_tap_frame`, registry, MAC table, rate table) | `g_sessions`, `g_mac_table`, `g_network_rates` under `g_sessions_mu` | register, unregister, relay, learn, age, lookup, flood limits | handler threads meet at one mutex; the clock is read before the mutex; descriptors are reused | networks stay apart, the client policy holds, one owner per address, freezes and budgets hold |
| Session writer | control and TAP queue of a slot, byte budget, `writer_*` fields under `writer_mu` | enqueue, pop, send, stall, stop and join | slot memory outlives the session; condition variable; a peer that does not read | order and addressee of messages, budget, the join returns, no lost wakeup |
| SOCKS streams | `g_socks_streams` under `g_socks_mu`, rows of `socks_streams` | open, data, both FINs, close, loss of the node | a stream can be ended by three threads; the chosen node session may be gone | one end per row, no stranded stream, the node is told, everything removed ends |
| Node handshake (`handle_node` up to `session_register`) | none of its own | hello, authentication, configuration | no read timeout | only authenticated peers register |
| Node presence and session rows (`nodes.online`, `sessions`) | rows in SQLite | online, offline, touch, start, end | two sessions of a node, a renamed node, failing statements, process restart | only connected nodes are shown as online, every open row has its session |
| Administration (`db_sqlite.c` add/edit/delete/grant) | rows in SQLite | one SQL statement or a short transaction each | two processes write, foreign keys, limits | references between rows stay intact |
| SOCKS users, grants and stream rows | rows in SQLite | login, start, touch and end of a row, management | rows go with their user or node while the stream runs; two threads write one row; stream numbers start again with the process | rows name the right session, stay ended, and have somebody who will end them |
| Direct access (`direct_token.c`, strategies) | rows in SQLite; tokens in the hands of users | probe, issue a token, attach a strategy to a login, verify | nobody can take a token back; names, keys, ports and networks of nodes change; keys may be shared; users expire | a token works only for a node that was given its name, key and network together, and at most one life after its basis is gone |
| Message framing (`net.c`, `proto.c`) | the bytes under way, the writer's message | send and receive in parts, with or without a limit of time | short counts, full buffers, stalls; handler, then writer, send on one socket | messages arrive whole, in order, handshake first |
| Server run (`ntap_a_node_server_run`) | listening sockets, stop flag, mutexes, threads | start, two accept loops, end | an accept that blocks while another thread closes; detached threads | no socket, thread or mutex is left behind or used too late |
| API (`api_server.c`) | `g_nonce_cache` | signature and time check, nonce cache, routing | full cache, expiry, restart | a signed request is executed once |
| Payloads of single messages (`wire.c`) | none | encode, decode | lengths at their limits | what one side encodes the other accepts |
| TAP device, hash, log, buffers, configuration | none, or none that outlives a call | | | |

How they interact: a handler thread of the node listener authenticates through
the store, registers a session in the hub, which starts the writer, and then
loops on `recv`: TAP frames go through `relay_tap_frame` into other sessions'
queues, SOCKS messages go to the stream table and to the client's socket. A
SOCKS client's thread finds a session of its node in the registry, enters the
stream table and sends to the node through that session's queue. At the end of
a session its handler unregisters it, takes its streams off the table, stops
and joins the writer and marks the node offline.

The hazards are listed in `PROJECT.json`, each with the line where it bites and
the properties that cover it.

## Plan

1. `TapHub` with its abstract specification `L2Switch`, its history properties
   and its proofs: the relay is what the program is for. *Done.*
2. `SessionWriter`: what happens to a message after the hub has queued it, and
   the end of a session, with proofs of all its invariants. *Done.*
3. `SocksStreams` and its proofs. *Done.*
4. `ApiNonceCache` and its proofs. *Done.*
5. `ControlPlane`: networks, nodes, TAP users and grants, authentication against
   them, the `online` flag, session rows, failing statements and restarts, with
   proofs. *Done; left: options of networks and nodes and their limits.*
6. `NodeServer` and its proofs: start, accept loops and end of the server. *Done.*
7. `DirectAccess` and its proofs. *Done.*
8. `MessageStream` with its abstract specification `MessageChannel` and its
   proofs: framing, the header's length rules, who sends when. *Done.*
9. `SocksAccess` and its proofs: SOCKS users, grants, and the rows of streams.
   *Done; left: byte counts.*
10. Left for the proofs: every safety property of the runs is a theorem now.
    What would add to them is a specification of a session's queues as two FIFO
    channels, implemented by `SessionWriter`.

## Modules

| Module | Models |
|---|---|
| `L2Switch` | abstract: a learning switch that keeps networks apart |
| `TapHub` | the hub: sessions, MAC table, flood limits, `relay_tap_frame`, handlers |
| `TapHubHistory` | `TapHub` with history variables for properties over several seconds |
| `TapHubProofs` | theorems about `TapHub`, among them that it implements `L2Switch` |
| `SessionWriter` | a slot's queues, its writer thread, stop and join, reuse of the slot |
| `ThreadProofs` | theorems about `SessionWriter` and about `NodeServer` |
| `SocksStreams` | stream table, client threads and what node handlers do with streams |
| `SocksStreamsProofs` | theorems about `SocksStreams` |
| `ApiNonceCache` | the management API's decision which signed request is executed |
| `ApiNonceCacheProofs` | theorems about `ApiNonceCache` |
| `ControlPlane` | the database's tables, the management that changes them, and the handlers that read them and record themselves there |
| `ControlPlaneProofs` | theorems about `ControlPlane` |
| `NodeServer` | the server's run: sockets, accept loops, threads, stop flag, mutexes |
| `DirectAccess` | settings of nodes for direct access, probes, the three ways a token is made, and its use |
| `DirectAccessProofs` | theorems about `DirectAccess` |
| `MessageChannel` | abstract: messages between two parties, lost only from the end |
| `MessageStream` | one direction of a session's socket, in units of the stream: handler, writer, receiver |
| `MessageStreamProofs` | theorems about `MessageStream`, among them that it implements `MessageChannel` |
| `SocksAccess` | SOCKS tables, the management that changes them, and the threads that write rows of streams |
| `SocksAccessProofs` | theorems about `SocksAccess` |
| `MC*` | constants and symmetries for TLC |

### TapHub

`sessions`, `mac` and `rates` are the active slots of `g_sessions`,
`g_mac_table` and `g_network_rates`; slot numbers are abstracted because every
search is for a key and `MacUnique` says that there is at most one match.
`Receive` is the moment a handler has a frame and reads the clock;
`RelayDropL2`, `RelayDropFreeze`, `RelayUnicast`, `RelayDropRate` and
`RelayFlood` are the five ways through the critical section, each with the
ageing and learning that precede it. `pending` holds frames between the two
steps. A target's queue may refuse a frame, so the receivers are any subset of
the targets.

`TapHubHistory` counts, for each address and each span of a move window's
length, the moves made by handlers whose time was in the span, and how often a
late handler set the entry's window back over it. `mac_learn_locked` starts a
new window for a late handler, with a new budget of moves, so moves at the
seconds 2, 3 and 2 again can all be accepted; `MoveDamping` counts them together
and grants the budget of two windows once, and once more for each set-back.

The abstract switch has `attached`, `owner` and `delivered`. A session is an
attached port, a MAC entry an owner, `out` the delivery. Registration is
`Attach`, unregistration `Detach`, a relay `Forward`, everything else `Rest`.

### SessionWriter

`slot[i]` is the memory of `g_sessions[i]`; a handler and a writer keep the
number of their slot, as the C code keeps a pointer, and read whatever is there.
`session_unregister` frees the slot before the writer is joined, so another
connection can take and clear it in between. The model contains those runs, and
`recycled` records them; in them a message for one peer can be written to
another and the old handler can stop the new session's writer. `NoMisdelivery`,
`InOrder`, `WriterOutlived` and the liveness properties are stated for runs
without such reuse. `FloodBacklog`, which says that the byte budget is exact and
kept, holds in all runs.

A handler may be `held` in a send to a SOCKS client (`node_server.c:930`,
`net.c:490`), which has no timeout and does not notice that the session's own
socket was shut down. A send to a peer that is gone is an error here. (`net.c:496`
and `516` send without `MSG_NOSIGNAL`, and `src/` ignores `SIGPIPE` nowhere: on
POSIX the process may be killed instead, after which there is nothing to model.)

### SocksStreams

`stream[c]` is the entry a client's thread makes in `g_socks_streams`, `row[c]`
its row in the database, `work[n]` the jobs the handler of session `n` has left
after it let the mutex go: send to a client, shut it down, end its row. The node
is external: it may send anything about streams it was asked to open. The model shows behaviours that no document rules out and
that the properties therefore leave room for: a stream closed by the node before
`socks_stream_set_db_id` leaves a row that nobody ends; with two sessions of one
node, messages about a stream go to whichever session is found first; a client
whose session left may have its stream opened on the next session, which is not
told of the end; a CLOSE that no queue had memory for is not sent (`unsaid`);
DATA for a stream that is gone ends the node's session.

### ApiNonceCache

`cache` is `g_nonce_cache`, slot by slot, since the scan's order decides which
entry is found, freed and reused. `Execute`, `Replay` and `Refuse` are the three
outcomes of `api_handle_client`; `log` records what one process executed and
when. `ExecutedOnce` says how far the cache's protection reaches. It does not
cover a request whose stamp was ahead of the server's clock (the nonce expires
by the time of arrival, the request by its stamp), one whose nonce a full cache
gave up, a clock that is set back, or a restart.

### ControlPlane

Each function of `db_sqlite.c` is one step, because it runs one statement or
one transaction; `handle_node` is the sequence of the steps it calls, and
management steps and other handlers come in between. `pc[c]` is where the handler
of connection `c` is. A node's row is found by its `node_id`, which the management may
change, while the handler keeps the one it authenticated with.

Three history variables name the runs in which the code leaves the database out
of step with the connections, so that the properties say exactly when it may be:
`stray` (a node that was renamed while it was online, whose reset failed, or
that was online at a restart, stays online), `doubt` (a node that was disabled,
added again or renamed, or whose other session ended, is connected but shown as
offline until its next PING; the PING also sets the flag of a disabled node) and
`lost` (open rows after a restart or a failed `session_end`). `GetTapAuth` keeps
the query's `ORDER BY ... LIMIT 1` with the test of `enabled` after it: a user
who asks for no network and whose first grant is revoked is refused although
another grant would do.

### NodeServer

`main` and `listener` are where the two accepting threads are in
`ntap_a_node_server_run` and `socks_listener_run`; every call that may block or
fail is a step. `session` and `client` are the threads they start, `backlog` the
connections that wait at the SOCKS port. A thread blocked in `accept` keeps
taking connections after another thread has closed the descriptor, so the flag
`stop` and the connection the main thread makes itself (`Wake`) are what ends
the listener; if that connection fails, it may stay for ever, and
`WokenRunEnds` speaks of the runs in which it stands. With an unlimited number
of sessions their threads are detached, and the mutexes may be destroyed under
them: `MutexOutlivesThreads` says what a limited run guarantees.

### DirectAccess

`row[k]` is what matters of a node's row, `local[k]` the name, key and network
the node itself works with, `tokens` what was signed and is still in somebody's
hands. `IssueToken`, `IssueStrategy` and `Attach` are the three functions of
`db_sqlite.c` that make a token, each with the conditions of its own query;
`login` holds the login that has been authenticated and not yet been given its
strategy. `entitled` abstracts user, network and grant into one relation.
`Verify` is `ntap_direct_token_verify` at the node.

Nothing keeps the management from giving one key to two nodes
(`node_key_secret` has no UNIQUE), or a name and a key that another node has
had. So `given[k]` records every identity (name, key and network) the row of `k`
has had, and `TokenForNode` says that a node takes only tokens of an identity
it was given as a whole. `expireAt` is the user's `expire_at`. A login tests it
twice, when the user is authenticated and again when the strategy is attached;
the management's two paths (`db_sqlite.c:2201-2247`, `2331-2378`) do not.
Nothing in `src/` writes the column, so `SetExpiry` is external. `lastOK[u, k]`
is when `u` last met what every path demands of a token for `k`, `lastValid[u, k]`
when he had not expired either: `RevocationBound` and `LoginBound` measure from
them how long a token outlives its basis.

`EditNode` may write `direct_port` while `direct_reachable` stays as the probe
of the old port left it; `OfferWasReached` is about the address only. A node
whose name holds a `|` can be chosen for a login, but no token can be made for
it: the login then fails, although it could be relayed.

### MessageStream

A header and a payload go out in `HeaderParts` and `BodyParts` units; a send or
a receive moves one unit or more, as the socket's buffers (`Window`) allow.
`out[s]` is the message handler or writer is sending and how much of it is out,
`stream` the units on their way with the first `read` of them taken by the peer,
`got` what the peer has assembled. `phase` and `step` are the handler's place,
`thread` the writer's. The handler sends `AUTH_OK`, `CONFIG_PUSH` or `AUTH_FAIL`
itself; after registration the writer sends, and gives up after a stall. Lengths
in headers are the real ones, so `Allowed` is
`ntap_payload_length_allowed` with its numbers. `MessageChannel` has only
messages sent, messages received and whether the channel is broken; the
refinement forgets the units.

The receiving side always allows frames of the default MTU (1400), whatever the
network's is. `stream_mtu` shows what follows: on a network of MTU 1500, which
the tools accept (576 to 1500, `main.c:118`), a full frame ends the session it
comes from. `DefaultMtuFits` says that networks of the default are served.

### SocksAccess

`users`, `nodes`, `grants`, `sessions` and `rows` are tables; deletion takes the
rows that refer to a key with it (`ON DELETE CASCADE`). A client's thread is
`pc[c]` with the locals of `socks_client_run`; `entry[c]` is its entry in
`g_socks_streams`. `todo[h]` holds the statements a node's handler runs after it
has let the mutex go. Each statement may meet a row that is gone or ended.
`lost` names the rows nobody will end: those of a stream the node closed before
`socks_stream_set_db_id`, those whose final statement failed, and those a
restart leaves open. Which granted node a login takes depends on PINGs, which
are `ControlPlane`'s, so here it may be any; a node keeps its name. A CLOSE
without FIN takes any stream by its number (`node_server.c:828` compares no
descriptor), but nodes are taken to close streams of their own. Byte counts are
left out; they are added to a row that has ended as well
(`db_sqlite.c:2661-2665`), so `EndIsFinal` is about `ended_at` and `last_active`.
`SocksStreams` has the same threads with both ends' FINs and messages, but one user and
one node that are never deleted.

## Runs

| Run | Question | Bounds |
|---|---|---|
| `hub_policy` | isolation, client policy, owners of addresses, the network's flood budget and refinement of `L2Switch`, with descriptors reused | 2 descriptors, 2 networks, 1 address, 1 group address, 2 seconds, lag 1, 1 rate window |
| `hub_moves` | how often an address can move, late handlers included; how long a freeze lasts | 3 descriptors, 2 sessions, 1 network, 6 seconds, lag 1 |
| `writer` | budget, order, addressee, end of the writer; join returns, no lost wakeup, a stall ends the session unless a SOCKS client holds its handler | 2 connections, 1 slot, 2 messages of size 2, limit 3, 2 seconds |
| `socks_safe` | table, rows and node agree | 2 clients, 2 node sessions, 1 stream at a time |
| `socks_live` | removed or half-closed streams end | 1 client, 2 node sessions |
| `api_nonce` | which requests are executed twice or refused as a replay | 2 slots, 3 nonces, window of 1 second, 3 seconds, 5 requests |
| `control` | online flag and session rows against who is connected; a node nobody serves goes offline | 2 handlers, 2 connections, 1 node, 2 names, 1 user, 1 network |
| `direct` | which node accepts a token, how long it works after a revocation or the user's expiry | 2 nodes, 2 names (one that no token can carry), 2 keys, 1 user, 1 token, life 3, of a login 2, 4 ticks; constraint `Bounded`, view `View` |
| `socks_rows` | what a row says of its stream, and that it keeps the end it was given | 2 clients, 2 handlers, 1 user, 1 node, 2 sessions, 2 streams, 2 seconds |
| `stream` | framing, order, refinement of `MessageChannel`; a peer that does not read does not hold the writer, what is sent to one that reads arrives | headers of 2 units, payloads of 3, window 3, 3 messages, five MTUs |
| `stream_mtu` | frames of a network of MTU 1500 (violated) | headers and payloads of 2 units, 1 message |
| `server` | what the end of a run leaves behind; the run ends once its listener was woken | 3 connections, 2 SOCKS clients, limits -1, 0, 1, 2 |

Why the bounds are enough: three connections are two claimants of an address and
a third that comes with a used descriptor; six seconds hold a move window, a
freeze and the time after it; a lag of one second lets a late handler set a
window back. Policy and isolation need a sender and one possible receiver, in
two networks; one rate window for two networks is the full table. In
`SessionWriter` two connections on one slot are the smallest instance in which a
slot is reused, and two messages fill the control or the TAP queue twice or
each once, or overrun the budget. In `SocksStreams` two clients compete for a
single place, and two node sessions follow or overlap each other. In
`ApiNonceCache` three nonces overfill two slots, five requests fill the cache
twice over, and three seconds let entries of the first expire; `Start` empties
the log, so longer runs are covered as well. In `ControlPlane` two handlers serve
a node in turn or at once, under one of its names or both, or a node and a user;
that two nodes take over each other's name, and that sessions stay in their
network, is proved for every number of them. In `NodeServer` three connections
exceed a limit of two, and two SOCKS clients are one that is taken late and one
behind it. In `DirectAccess` a request asks for one second or for four, and gets
one or the cap of three; four ticks let a token of the cap end, and its basis be
lost before, after or while it is made. The constraint keeps to two kinds of
runs. In one there is one node of one identity while time passes, as the bounds
of time need. In the other two nodes take names and keys from each other, each with at most two identities, within a second, with tokens
the management made: when a token was made does not matter to which node takes
it. The proofs are of all runs. The view leaves out what a login was told and
what probes have reached, which no step reads, nor any property of the run.
In `MessageStream` header, payload and window are such that each
can be cut by the other's end, and the MTUs are the least, the default, the
largest whose frames fit, the next, and the largest. In `SocksAccess` two
streams of one process and two sessions let a number come again after a restart
and a second session of a node overlap the first; the run starts with full
tables (`InitServed`) and keeps only deletion of the management (`NextServed`),
because additions and switches do not reach a stream's row. `MaxTime`, `MaxLag`,
`MaxMessages`, `MaxRequests`, `MaxNets`, `MaxAccepts`, `MaxTokens`, `MaxClock`,
`MaxOffers`, `MaxSessions` and `MaxStreams` of `SocksAccess` are, with `Bounded`, the
only artificial bounds.

The runs of the hub and of `MessageStream` switch deadlock checking off: the
former because the clock is bounded, the latter because a connection that has
ended does nothing more. The other runs check deadlock: where they have final
states, these are those of `Finished`, in which everybody has left.

### Fairness

`SessionWriter` assumes weak fairness of each thread (register, write, stop) and
that `recv` on a socket that was shut down returns; the writer's sends end
because the code gives up after a stall timeout. A handler's send to a SOCKS
client has no such limit, so `SendEnds` is not fair, and `StallEndsSession`
excepts a handler that such sends hold for good or again and again. No peer is
made to hang up or to read, and `cond_wait` need not wake up by itself.
`SocksStreams` assumes weak fairness of the client threads' own steps and of
those of the handlers that wait for no peer (`HandlerRuns` leaves out the send to
a client); the FIN wait ends at its deadline, and no client, node or idle timeout
is forced. `ControlPlane` assumes weak fairness of the
handlers' own steps after authentication; no peer has to send or to leave, and
the management and restarts are not forced. A statement may fail every time.
`NodeServer` assumes weak fairness of the two accepting threads; no peer has to
connect or to leave. In `MessageStream` only the writer's own steps are fair, since
`ntap_send_msg_timeout` always comes to an end. That the peer reads is no
assumption of the specification: `Delivered` is stated for peers that do
(`PeerReads`), so that `WriterNotHeld` holds for the others as well.

## Proofs

`TapHubProofs` proves, for all constants that satisfy `ConstantsAssumption`:
`TypeCorrect`, `HandlersHaveSessions`, `OneEntryPerAddress`, `OwnersAreLive`,
`DeliveryIsPoliced`, `FreezeHolds` and `HubIsASwitch` (`Spec => SwitchSpec`), and
of the history `FloodBudget` and `FlappingIsDamped`.

The inductive invariant is the conjunction of `TypeOK`, `SessionOfHandler`,
`MacUnique`, `MacOwnerLive` and `PendingLive`. No part is inductive alone:
`MacUnique` needs the types; `MacOwnerLive` survives `Unregister` only because a
handler has one session (`SessionOfHandler`); and a relay takes the address for
a live session only because waiting frames belong to live handlers
(`PendingLive`). `PendingLive` also bounds how old a handler's time is, which
`FreezeHolds` needs: a freeze can only outlast ageing if the TTL covers window,
freeze and lag. `HubIsASwitch` maps each action to an action of `L2Switch`; the
lemmas about `Aged`, `Learned` and `Lookup` give the owners after a relay and the
ports it may reach.

The two history properties count over several seconds, and need more than those
parts. `NetworkFloodBudget` rests on `FloodInv`: the counter of a network's window
never exceeds a limit that covers all sessions' (`Covers`), and the frames
flooded in a second are at most one such limit for each time the window was set
back, and as much of another as the window has used if it is at that second, or
all of it if it is past it. `MoveDamping` rests on `DampInv`: what a span may
have seen of an address's moves depends on where the entry's window stands to it
(`Allowed`): nothing yet while the window ends before the span, what the window
has let through while it covers the span's begin, one window more while it
begins inside, two when it is past the span; and two more for each time it was
set back over the span. Both speak of `HistorySpec`; the lemma
`HistoryIsSpec` says that each of its behaviours is one of `Spec`, so the
invariant above holds there too.

`ApiNonceCacheProofs` proves all invariants of `ApiNonceCache` under
`CacheAssumption`, for any number of requests: `TypeCorrect`, `NoncesAreSpaced`,
`RequestsExecutedOnce`, `ReplaysAreRepeated` and `NoncesAreUnique`. `NonceSpaced`
needs `Kept`: an executed request that is still in the window has its nonce in
the cache, or more requests than the cache holds were executed since its time.
When a full cache gives up an entry, all slots are live and none is older;
they hold different nonces (`SlotsDiffer`), hence different executed requests,
and the pigeonhole principle counts them (`FullCache`). `ExecutedOnce` follows
from `NonceSpaced`, because a request is in time at each execution (`Ordered`).

`ControlPlaneProofs` proves, under `ControlAssumption`, `TypeCorrect`,
`ConfigIsOfNetwork`, `RowsHaveHandlers`, `OnlineNodesAreConnected` and
`ConnectedNodesAreOnline`. `TypeOK` is inductive with `HandlerOK`: a handler
that has authenticated its peer knows a network, and a peer is a node or a user,
not both. `ConfigOfNetwork` is strengthened to `ConfigKnown`, which also holds
before the node comes online. `OpenRowHasHandler` and the two presence
properties are inductive together with the types: row numbers are never used
twice, and `stray` and `doubt` record every step that takes the `online` flag
away from the connections. The lemma `ManagePresence` covers the management,
`NextPresence` the handlers.

`DirectAccessProofs` proves, under `DirectAssumption`, `TypeCorrect`,
`TokensForTheirNode`, `RevocationBounded`, `LoginsBounded` and
`OffersWereReached`. The invariant adds to `TypeOK` that the identity in a row is
in its history, as is the address it says was reached (`RowHistory`), that a node
works with an identity its row has had (`LocalGiven`), that the times remembered
are now as long as a user is allowed (`Watched`), and of a token that its
identity is in the history of the row it was made from, and that it ends within
its life of the last moment it was allowed (`TokenHistory`). That moment, not the
one it was made at, is what a revocation has to be counted from.

`MessageStreamProofs` proves, under the named assumption on the units,
`TypeCorrect`, `FramingIsAChannel` (`Spec => FramedChannel`),
`HandshakeComesFirst` and `DefaultMtuIsServed`. The invariant says that at most
one thread sends (`Alone`), that what is on the stream is the units of the
messages sent, in order (`Runs`, `Carried`), where the first and the last of
them are (`First`, `Last`), and that the receiver has a prefix (`Received`).
`Begun` adds which messages the handler has sent at each of its places. The
lemmas about sequences of units are arithmetic on their places: a unit's
predecessor and successor decide its message and part.

`SocksAccessProofs` proves, under `SocksAssumption`, all six properties of
the module: `TypeCorrect`, `RowsNameTheirNode`, `NumbersAreFree`,
`LiveStreamsHaveRows`, `OpenRowsHaveEnders` and `EndsAreFinal`. `TypeOK` is
inductive with what has been authenticated and given out (`Types`); `Carriers`
says that a client that has found a session still names one of its node,
`Numbers` that a session which can still get streams has only numbers of this
process, `Owners` that a row is one client's and that whoever is about to end
it has freed the client's entry. `ManageFacts` covers the management at once: it takes
rows away only with their user or node.

`SocksStreamsProofs` proves, under `StreamsAssumption` and for any number of
clients and sessions, `TypeCorrect`, `EntriesHaveClients` (`StreamHasClient`),
`FinishedStreamsLeave` (`BothFinsEnd`), `QuotaHolds` (`StreamQuota`),
`NoStreamStranded` (`NoStrandedStream`), `SessionsAreTold` (`NodeIsTold`) and
`RowsEndOnce` (`RowEndedOnce`). Each step either makes one entry, after it has
counted them (`Registers`), or makes none (`Shrinks`); the number of entries is
then a matter of finite sets. `Stranding` adds to `NoStrandedStream` that the
session a client has found, or whose stream it is, has once been up. `ToldInv`
says that a session which was asked to open its own stream, and has not been
told of the end though a queue took every message, still has the stream on the table, with a client's thread on
its way to tell it (`Telling`). `RowInv` says of a row whose entry is over that
it has been ended once, or that one thread has still to do it: its client's, or
a handler with exactly one job for it (`Ends`).

`ThreadProofs` proves of `NodeServer`, under `ServerAssumption`, `ServerTypes`,
`MutexesOutliveThreads`, `WakeIsNotServed`, `OneClientIsLate` and `EndsAreClean`,
for any number of connections and any limit. The invariant says for every place
of the main thread which mutexes, sockets and threads there are (`Listening`,
`Guarded`, `Opened`, `Joined`), and for every place of the listener what it holds
(`Held`) and whether a closed socket can still have connections (`Drained`).
`LateLast` is why one client is the most: after a late client the listener is
before its first test of the flag, which is set.

Of `SessionWriter` it proves, under `WriterAssumption`, `WriterTypes`,
`FloodsBounded` (`FloodBacklog`), `ThreadOutlived`, `RightSocket`
(`NoMisdelivery`) and `SentInOrder` (`InOrder`). `Placed` says where the threads
are, and that a slot's waiters wait there. `ThreadInv` says that, unless a slot
was recycled too early, a handler that uses a slot finds its own session in it
with its own thread, and that the thread is over when the handler has joined it;
so no two handlers share a slot (`OwnSlot`). `FloodBacklog` is inductive with the
types; that the books stay right when a frame is queued or taken is a matter of
sums over sequences, whose three laws (`SumAppend`, `SumTail`, `SumMonotone`) are
proved from the definition of `Sum` by the least number principle. The order of
messages is a chain: what was written to a session's socket comes before what its
writer is about to write, and that before what waits in its slot (`Written`,
`Follows`); each step adds at one end of the chain or moves its middle (`Quiet`,
`Puts`, `Takes`, `WriterSends` are all the kinds of steps: `StepKinds`). A writer
that is sending has its own session in the slot (`AtWork`), which is why what it
writes goes to the right socket; in a recycled slot exactly this fails.

Some of these theorems state invariants that no run checks any more, because the
instances on which they were checked would add nothing to the proof: the types
of every module but `SessionWriter`, and `MacUnique`, `SessionOfHandler`,
`NonceSpaced`, `NonceInOneSlot`, `ConfigOfNetwork`, `OfferWasReached`,
`RowOfItsNode`, `DefaultMtuFits`, `StreamHasClient`, `BothFinsEnd`, `StreamQuota`
and `WakeNotServed`.

Model-checked only: liveness (`StopReturns`, `ControlDrains`,
`StallEndsSession`, `RemovedStreamEnds`, `FinBounded`, `OfflineInTheEnd`,
`Delivered`, `WriterNotHeld`, `WokenRunEnds`), which is beyond the prover, as is
`ENABLED`. The library's induction theorems are of no use here (they take an
operator as parameter); where a fact about all lengths was needed, it is proved
by taking the least counterexample (`LeastNumber`, from the well-foundedness of
inclusion of finite sets).

## Not modelled

Parsing and formatting of payloads, JSON and HTTP, hashing, logging, the Linux
TAP device and configuration files: no state, or pure I/O. The client programs
of this repository's protocol are not part of it, so a node is whatever the
server's code lets it do. HELLO, nonces and signatures of the handshake are a
peer that may give up. Options of networks and nodes (limits, MTU, ages) are
constants where a model needs them. Byte counts of streams and the 32-bit wrap
of stream numbers are left out. SQLite is external. The Windows branches of the portability
wrappers are taken to behave as the POSIX ones. See the notes in `PROJECT.json`.
