---------------------------- MODULE MessageStream ----------------------------
(***************************************************************************)
(* Messages over the byte stream of one session, from the server to its    *)
(* peer: ntap_send_msg, ntap_send_msg_timeout and ntap_recv_msg of         *)
(* common/net.c, with the header rules of common/proto.c, and the threads  *)
(* of node_server.c that send.  The handler sends the handshake itself, on *)
(* the blocking socket; registration makes the socket nonblocking and      *)
(* starts the writer thread, and from then on only the writer sends.       *)
(*                                                                         *)
(* A message goes out as a header and a payload, each in as many parts as  *)
(* the socket takes, and comes in the same way: the receiver knows where a *)
(* message ends from the header alone.  One missing part shifts everything *)
(* behind it, so neither end may go on after an error.                     *)
(*                                                                         *)
(* A header is HeaderParts and a payload BodyParts units of the stream;    *)
(* unit `at' of message `n' stands for its bytes.  Lengths in headers are  *)
(* the real ones.  The peer receives with the same ntap_recv_msg.  Which   *)
(* message a queue gives next, and how a writer is stopped, SessionWriter  *)
(* has in detail.                                                          *)
(***************************************************************************)
EXTENDS Integers, Sequences, FiniteSets

CONSTANTS
    HeaderParts, \* units of a header on the stream
    BodyParts,   \* units of a payload
    Window,      \* units the two socket buffers hold
    Mtus,        \* MTUs of networks
    MaxOffers,   \* bound: messages given to the writer in one behaviour
    None

DefaultMtu == 1400      \* NTAP_DEFAULT_MTU
MinMtu == 576           \* NTAP_MIN_MTU
MaxMtu == 1500          \* NTAP_MAX_MTU
TapExtra == 32          \* NTAP_TAP_PAYLOAD_EXTRA
MaxSocks == 16384       \* NTAP_PAYLOAD_MAX_SOCKS
MaxControl == 65536     \* NTAP_PAYLOAD_MAX_CONTROL
TapOverhead == 6        \* NTAP_TAP_FRAME_OVERHEAD
SocksOverhead == 4      \* NTAP_SOCKS_DATA_OVERHEAD
ReadChunk == 8192       \* NTAP_A_SOCKS_READ_CHUNK
EthernetHeader == 14

Types == {"HELLO", "AUTH_OK", "AUTH_FAIL", "CONFIG_PUSH", "TAP_FRAME", "PONG",
          "SOCKS_STREAM_DATA"}
Message == [type : Types, length : Nat]

ASSUME StreamAssumption ==
    /\ HeaderParts \in Nat \ {0}
    /\ BodyParts \in Nat \ {0}
    /\ Window \in Nat \ {0}
    /\ Mtus \subseteq MinMtu..MaxMtu
    /\ MaxOffers \in Nat
    /\ None \notin Message

\* The server's side of the handshake; CONFIG_PUSH with names of a usual length.
Handshake == << [type |-> "HELLO", length |-> 33],
                [type |-> "AUTH_OK", length |-> 20],
                [type |-> "CONFIG_PUSH", length |-> 60] >>

AuthFail == [type |-> "AUTH_FAIL", length |-> 0]
Pong == [type |-> "PONG", length |-> 0]
SocksData == [type |-> "SOCKS_STREAM_DATA", length |-> SocksOverhead + ReadChunk]
\* The largest frame the TAP device of a network with this MTU gives.
FullFrame(mtu) == [type |-> "TAP_FRAME", length |-> TapOverhead + EthernetHeader + mtu]

VARIABLES
    mtu,     \* the network's MTU, as CONFIG_PUSH told the peers
    phase,   \* the handler: "handshake", "refusing", "serving", "leaving", "closed"
    step,    \* handshake messages the handler has sent
    thread,  \* the writer thread: "off", "loop", "sending", "over"
    stop,    \* writer_stop
    next,    \* the message the queues give next, or None
    offers,  \* messages given to the writer so far
    out,     \* out[s]: the message sender s is sending, and how many units are out
    sent,    \* messages of which the socket took at least one unit
    stream,  \* units sent and not yet part of a received message
    read,    \* how many of them the receiver has read
    open,    \* FALSE once the socket is shut down or the connection is lost
    rx,      \* the receiver: "reading", "over"
    got,     \* messages received
    cut      \* a session of this network was ended for a frame's length

vars == <<mtu, phase, step, thread, stop, next, offers, out, sent, stream, read, open, rx, got, cut>>
sending == <<mtu, phase, step, thread, stop, next, offers, out, cut>>

Senders == {"handler", "writer"}
Idle == [msg |-> None, n |-> 0, at |-> 0]
Garbled == [type |-> "GARBLED", length |-> 0]

Init ==
    /\ mtu \in Mtus
    /\ phase = "handshake"
    /\ step = 0
    /\ thread = "off"
    /\ stop = FALSE
    /\ next = None
    /\ offers = 0
    /\ out = [s \in Senders |-> Idle]
    /\ sent = <<>>
    /\ stream = <<>>
    /\ read = 0
    /\ open = TRUE
    /\ rx = "reading"
    /\ got = <<>>
    /\ cut = FALSE

Parts(m) == HeaderParts + (IF m.length = 0 THEN 0 ELSE BodyParts)

-----------------------------------------------------------------------------
(* ntap_send_all, ntap_send_all_timeout                                    *)

\* What is left to send after one more unit of the message of s.
Sent(s) ==
    LET n == IF out[s].at = 0 THEN Len(sent) + 1 ELSE out[s].n IN
    IF out[s].at + 1 = Parts(out[s].msg) THEN Idle
    ELSE [msg |-> out[s].msg, n |-> n, at |-> out[s].at + 1]

\* send() takes one more unit of the message of s, if there is room.
Put(s) ==
    /\ out[s] # Idle
    /\ open
    /\ Len(stream) - read < Window
    /\ sent' = IF out[s].at = 0 THEN Append(sent, out[s].msg) ELSE sent
    /\ stream' = Append(stream, [n |-> IF out[s].at = 0 THEN Len(sent) + 1 ELSE out[s].n,
                                 at |-> out[s].at + 1])
    /\ out' = [out EXCEPT ![s] = Sent(s)]

Begin(s, m) == out' = [out EXCEPT ![s] = [msg |-> m, n |-> 0, at |-> 0]]
Drop(s) == out' = [out EXCEPT ![s] = Idle]

-----------------------------------------------------------------------------
(* The handler: handshake, registration, end                               *)

SendsHandshake ==
    /\ phase = "handshake"
    /\ out["handler"] = Idle
    /\ step < Len(Handshake)
    /\ step' = step + 1
    /\ Begin("handler", Handshake[step + 1])
    /\ UNCHANGED <<mtu, phase, thread, stop, next, offers, sent, stream, read, open, rx, got, cut>>

\* Authentication failed: AUTH_FAIL in place of AUTH_OK, and the end.
SendsRefusal ==
    /\ phase = "handshake"
    /\ out["handler"] = Idle
    /\ step = 1
    /\ phase' = "refusing"
    /\ Begin("handler", AuthFail)
    /\ UNCHANGED <<mtu, step, thread, stop, next, offers, sent, stream, read, open, rx, got, cut>>

HandlerSends ==
    /\ Put("handler")
    /\ UNCHANGED <<mtu, phase, step, thread, stop, next, offers, read, open, rx, got, cut>>

\* Faulty variant: registration before CONFIG_PUSH is out.
Registers_Early ==
    /\ phase = "handshake"
    /\ step = Len(Handshake)
    /\ phase' = "serving"
    /\ thread' = "loop"
    /\ UNCHANGED <<mtu, step, stop, next, offers, out, sent, stream, read, open, rx, got, cut>>

\* session_register starts the writer.
Registers ==
    /\ phase = "handshake"
    /\ out["handler"] = Idle
    /\ step = Len(Handshake)
    /\ phase' = "serving"
    /\ thread' = "loop"
    /\ UNCHANGED <<mtu, step, stop, next, offers, out, sent, stream, read, open, rx, got, cut>>

\* The handshake is over without a session: AUTH_FAIL is out, a send fails, or
\* between two sends the peer, the database, a text too long for CONFIG_PUSH
\* or the registration makes the handler return.
HandshakeEnds ==
    /\ phase \in {"handshake", "refusing"}
    /\ out["handler"] = Idle \/ ~open \/ rx = "over"
    /\ phase' = "closed"
    /\ open' = FALSE
    /\ Drop("handler")
    /\ UNCHANGED <<mtu, step, thread, stop, next, offers, sent, stream, read, rx, got, cut>>

\* Its receive loop ends, for whatever reason: session_stop_writer.
Leaves ==
    /\ phase = "serving"
    /\ phase' = "leaving"
    /\ stop' = TRUE
    /\ open' = FALSE
    /\ UNCHANGED <<mtu, step, thread, next, offers, out, sent, stream, read, rx, got, cut>>

Joins ==
    /\ phase = "leaving"
    /\ thread = "over"
    /\ phase' = "closed"
    /\ UNCHANGED <<mtu, step, thread, stop, next, offers, out, sent, stream, read, open, rx, got, cut>>

-----------------------------------------------------------------------------
(* ntap_payload_length_allowed, as ntap_recv_msg calls it                  *)

\* Always with the default MTU, whatever the network's.
Allowed(m) ==
    CASE m.type = "TAP_FRAME" -> m.length <= DefaultMtu + TapExtra
      [] m.type = "SOCKS_STREAM_DATA" -> m.length <= MaxSocks
      [] OTHER -> m.length <= MaxControl

\* A PONG, data of a SOCKS client, or a frame to relay gets into the queues.  A
\* frame comes from another session of the network, by way of ntap_recv_msg.
Offer(m) ==
    /\ phase = "serving"
    /\ ~stop
    /\ next = None
    /\ offers < MaxOffers
    /\ Allowed(m)
    /\ next' = m
    /\ offers' = offers + 1
    /\ UNCHANGED <<mtu, phase, step, thread, stop, out, sent, stream, read, open, rx, got, cut>>

\* ... which ends the session the frame came from, if it is too long.
Cut(m) ==
    /\ ~Allowed(m)
    /\ ~cut
    /\ cut' = TRUE
    /\ UNCHANGED <<mtu, phase, step, thread, stop, next, offers, out, sent, stream, read, open, rx, got>>

-----------------------------------------------------------------------------
(* session_writer_run                                                      *)

WriterTakes ==
    /\ thread = "loop"
    /\ ~stop
    /\ next # None
    /\ thread' = "sending"
    /\ Begin("writer", next)
    /\ next' = None
    /\ UNCHANGED <<mtu, phase, step, stop, offers, sent, stream, read, open, rx, got, cut>>

WriterSends ==
    /\ thread = "sending"
    /\ Put("writer")
    /\ thread' = IF Sent("writer") = Idle THEN "loop" ELSE "sending"
    /\ UNCHANGED <<mtu, phase, step, stop, next, offers, read, open, rx, got, cut>>

WriterEnds ==
    /\ thread' = "over"
    /\ Drop("writer")
    /\ stop' = TRUE
    /\ open' = FALSE
    /\ next' = None
    /\ UNCHANGED <<mtu, phase, step, offers, sent, stream, read, rx, got, cut>>

Full == Len(stream) - read >= Window

\* Faulty variant: the message is given up and the next one begun.
WriterStalls_GoesOn ==
    /\ thread = "sending"
    /\ open
    /\ Full
    /\ thread' = "loop"
    /\ Drop("writer")
    /\ UNCHANGED <<mtu, phase, step, stop, next, offers, sent, stream, read, open, rx, got, cut>>

\* Faulty variant: select without a timeout.
WriterStalls_Waits ==
    /\ thread = "sending"
    /\ open
    /\ Full
    /\ UNCHANGED vars

\* No room for NTAP_A_WRITER_STALL_TIMEOUT_MS: the socket is shut down.
WriterStalls ==
    /\ thread = "sending"
    /\ open
    /\ Full
    /\ WriterEnds

WriterFails ==
    /\ thread = "sending"
    /\ ~open \/ rx = "over"
    /\ WriterEnds

WriterStops ==
    /\ thread = "loop"
    /\ stop
    /\ WriterEnds

-----------------------------------------------------------------------------
(* ntap_recv_msg                                                           *)

\* The units read so far when one more is read.
Units == SubSeq(stream, 1, read + 1)

\* They begin with a header: magic, version and type in their places.
Header == \A j \in 1..HeaderParts : Units[j] = [n |-> Units[1].n, at |-> j]

\* Its message, with the type and length it states.
Stated == sent[Units[1].n]

\* Faulty variant: a unit too many is asked for.
Complete_OneMore == read + 1 > Parts(Stated)

Complete == read + 1 = Parts(Stated)

\* A part of a header, a header that is accepted, or a part of its payload.
ReadsOn ==
    /\ rx = "reading"
    /\ read < Len(stream)
    /\ \/ read + 1 < HeaderParts
       \/ /\ read + 1 >= HeaderParts
          /\ Header
          /\ Allowed(Stated)
          /\ ~Complete
    /\ read' = read + 1
    /\ UNCHANGED <<sending, sent, stream, open, rx, got>>

\* The last part: the caller has the message.
ReadsMessage ==
    /\ rx = "reading"
    /\ read < Len(stream)
    /\ read + 1 >= HeaderParts
    /\ Header
    /\ Allowed(Stated)
    /\ Complete
    /\ got' = Append(got, IF \A j \in 1..read + 1 : Units[j] = [n |-> Units[1].n, at |-> j]
                          THEN Stated ELSE Garbled)
    /\ stream' = SubSeq(stream, read + 2, Len(stream))
    /\ read' = 0
    /\ UNCHANGED <<sending, sent, open, rx>>

\* The end of the stream, in a message or between two; a header that is not
\* accepted; a message the session does not expect; or the peer's own end.
\* There is no way back: nothing looks for the next header.
GivesUp ==
    /\ rx = "reading"
    /\ rx' = "over"
    /\ stream' = <<>>
    /\ read' = 0
    /\ UNCHANGED <<sending, sent, open, got>>

\* The connection is lost with all that was not read.
Lost ==
    /\ open
    /\ open' = FALSE
    /\ stream' = SubSeq(stream, 1, read)
    /\ UNCHANGED <<sending, sent, read, rx, got>>

-----------------------------------------------------------------------------

Handler == \/ SendsHandshake \/ SendsRefusal \/ HandlerSends \/ Registers \/ HandshakeEnds
           \/ Leaves \/ Joins
Hub == \E m \in {Pong, SocksData, FullFrame(MinMtu), FullFrame(mtu)} : Offer(m) \/ Cut(m)
WriterMoves == WriterSends \/ WriterStalls \/ WriterFails
Writer == WriterTakes \/ WriterMoves \/ WriterStops
Reads == ReadsOn \/ ReadsMessage
Receiver == Reads \/ GivesUp

Next == Handler \/ Hub \/ Writer \/ Receiver \/ Lost

Spec == Init /\ [][Next]_vars

\* The writer thread runs.  A peer need not read: what depends on one that does
\* says so.
FairSpec == Spec /\ WF_vars(WriterMoves)
PeerReads == WF_vars(WriterTakes) /\ WF_vars(Reads)

-----------------------------------------------------------------------------
(* Properties                                                              *)

TypeOK ==
    /\ mtu \in Mtus
    /\ phase \in {"handshake", "refusing", "serving", "leaving", "closed"}
    /\ step \in 0..Len(Handshake)
    /\ thread \in {"off", "loop", "sending", "over"}
    /\ stop \in BOOLEAN /\ open \in BOOLEAN /\ cut \in BOOLEAN
    /\ next \in Message \cup {None}
    /\ offers \in 0..MaxOffers
    /\ out \in [Senders -> [msg : Message \cup {None}, n : Nat, at : Nat]]
    /\ (thread = "sending") = (out["writer"] # Idle)
    /\ sent \in Seq(Message)
    /\ got \in Seq(Message \cup {Garbled})
    /\ stream \in Seq([n : Nat \ {0}, at : Nat \ {0}])
    /\ read \in 0..Len(stream)
    /\ rx \in {"reading", "over"}

\* Short counts of send and recv, a full buffer, the change from the blocking
\* handler to the writer thread and a connection lost at any byte: what is
\* received is what was sent, whole and in order, and after the first error
\* nothing more is sent.
Channel == INSTANCE MessageChannel WITH up <- open
FramedChannel == Channel!ChannelSpec

\* The handshake messages are the first ones a peer receives, and a peer that
\* is refused receives nothing after AUTH_FAIL: no frame of the network, queued
\* for the session as soon as it is registered, overtakes its CONFIG_PUSH.
HandshakeFirst ==
    \A i \in DOMAIN got :
        /\ i <= Len(Handshake) => got[i] \in {Handshake[i], AuthFail}
        /\ got[i] = AuthFail => i = Len(got)

\* No session ends for a frame of its own network as long as the network has
\* no more than the default MTU: the limit leaves room for both headers.
DefaultMtuFits == cut => mtu > DefaultMtu

\* The same for every MTU the tools accept for a network: "--mtu must be between
\* 576 and 1500", says ntap-a.
ConfiguredMtuFits == ~cut

\* A peer that takes nothing does not hold the writer, and with it the end of
\* the session: what the writer is sending goes out or is given up.
WriterNotHeld == thread = "sending" ~> thread # "sending"

\* What was sent on a connection that stays up and is read arrives, the last
\* message too, with nothing behind it that would push it out.
Delivered ==
    PeerReads => \A n \in 1..(Len(Handshake) + MaxOffers) :
        (Len(sent) = n /\ \A s \in Senders : out[s] = Idle)
            ~> (Len(got) >= n \/ ~open \/ rx = "over")
=============================================================================
