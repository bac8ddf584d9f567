------------------------- MODULE MessageStreamProofs -------------------------
(***************************************************************************)
(* Proofs about MessageStream, for any number of units a header and a      *)
(* payload take, any room in the socket buffers and any number of          *)
(* messages: the framing implements MessageChannel, and the handshake      *)
(* comes first.                                                            *)
(*                                                                         *)
(* The strengthening says what is on the stream while somebody reads it:   *)
(* every unit that begins a message is followed by the rest of that        *)
(* message and then by the beginning of the next (Runs), the first unit    *)
(* begins the message to be received next (First), and the last units are  *)
(* those of the message sent last, as far as its sender got (Last).  It    *)
(* stands on there being one sender at a time (Alone).                     *)
(***************************************************************************)
EXTENDS MessageStream, SequenceTheorems, TLAPS

\* The handler sends in the handshake only, the writer when it is over.
Alone ==
    /\ out["handler"] # Idle => phase \in {"handshake", "refusing"}
    /\ phase \in {"handshake", "refusing"} => thread = "off"

\* What a sender is sending is the message sent last, once a unit is out.
Carried ==
    \A s \in Senders : out[s] # Idle =>
        /\ out[s].msg \in Message
        /\ out[s].at < Parts(out[s].msg)
        /\ out[s].at # 0 => /\ Len(sent) > 0
                            /\ out[s].n = Len(sent)
                            /\ out[s].msg = sent[Len(sent)]

Unit(n, at) == [n |-> n, at |-> at]

\* Every unit on the stream is one of a message that was sent.
Known == \A i \in 1..Len(stream) : stream[i].n \in 1..Len(sent)

Size(i) == Parts(sent[stream[i].n])

Runs ==
    \A i \in 1..Len(stream) : stream[i].at = 1 =>
        \A j \in i..Len(stream) :
            /\ j < i + Size(i) => stream[j] = Unit(stream[i].n, j - i + 1)
            /\ j = i + Size(i) => stream[j] = Unit(stream[i].n + 1, 1)

First == stream # <<>> => stream[1] = Unit(Len(got) + 1, 1)

Quiet == \A s \in Senders : out[s].at = 0

\* The message sent last begins at unit b of the stream.
LastFrom(b) ==
    /\ stream[b] = Unit(Len(sent), 1)
    /\ \/ Quiet /\ Len(stream) + 1 = b + Parts(sent[Len(sent)])
       \/ \E s \in Senders : out[s].at # 0 /\ Len(stream) + 1 = b + out[s].at

Last ==
    \/ stream = <<>> /\ Len(got) = Len(sent) /\ Quiet
    \/ \E b \in 1..Len(stream) : LastFrom(b)

InStep == rx = "reading" => Known /\ Runs /\ First /\ (open => Last)

\* What was received is what was sent.
Received == /\ Len(got) <= Len(sent)
            /\ \A i \in 1..Len(got) : got[i] = sent[i]

IInv == TypeOK /\ Alone /\ Carried /\ InStep /\ Received

-----------------------------------------------------------------------------
(* Lemmas                                                                  *)

\* A message takes at least the unit of a header.
LEMMA PartsType == \A m : Parts(m) \in Nat \ {0}
BY StreamAssumption DEF Parts

\* A sender that sends nothing has nothing on the stream.
LEMMA IdleAt == Idle.at = 0 /\ Idle.n = 0 /\ Idle.msg = None
BY DEF Idle

\* The other sender is idle while one puts a unit on the stream.
LEMMA OtherIdle ==
    ASSUME TypeOK, Alone, NEW s \in Senders, out[s] # Idle, NEW t \in Senders, t # s
    PROVE  out[t] = Idle
BY DEF TypeOK, Alone, Senders

\* Two messages on the stream do not overlap.
LEMMA Apart ==
    ASSUME TypeOK, Known, Runs,
           NEW i \in 1..Len(stream), NEW j \in 1..Len(stream),
           stream[i].at = 1, stream[j].at = 1, i < j
    PROVE  i + Size(i) <= j
<1>1. Size(i) \in Nat \ {0}
    BY PartsType DEF Size
<1>2. SUFFICES ASSUME j < i + Size(i) PROVE FALSE
    BY <1>1
<1>3. stream[j] = Unit(stream[i].n, j - i + 1)
    BY <1>2 DEF Runs
<1>4. stream[j].at = j - i + 1
    BY <1>3 DEF Unit
<1>5. QED
    BY <1>4

\* One more unit: what Put does, written out.
LEMMA PutFacts ==
    ASSUME IInv, NEW s \in Senders, Put(s)
    PROVE  LET m == out[s].msg
               a == out[s].at
               n == IF a = 0 THEN Len(sent) + 1 ELSE Len(sent)
           IN  /\ m \in Message /\ a \in Nat /\ a < Parts(m)
               /\ stream' = Append(stream, Unit(n, a + 1))
               /\ sent' = IF a = 0 THEN Append(sent, m) ELSE sent
               /\ sent' \in Seq(Message)
               /\ Len(sent') = n
               /\ n \in Nat \ {0}
               /\ sent'[n] = m
               /\ \A i \in 1..Len(sent) : sent'[i] = sent[i]
               /\ out' = [out EXCEPT ![s] = Sent(s)]
               /\ Sent(s) = IF a + 1 = Parts(m) THEN Idle ELSE [msg |-> m, n |-> n, at |-> a + 1]
               /\ \A t \in Senders \ {s} : out[t] = Idle /\ out'[t] = Idle
<1> DEFINE m == out[s].msg
           a == out[s].at
           n == IF a = 0 THEN Len(sent) + 1 ELSE Len(sent)
<1>1. /\ out \in [Senders -> [msg : Message \cup {None}, n : Nat, at : Nat]]
      /\ sent \in Seq(Message)
      /\ out[s] # Idle
    BY DEF IInv, TypeOK, Put
<1>2. m \in Message /\ a \in Nat /\ a < Parts(m)
    BY <1>1 DEF IInv, Carried
<1>3. a # 0 => Len(sent) > 0 /\ out[s].n = Len(sent) /\ m = sent[Len(sent)]
    BY <1>1 DEF IInv, Carried
<1>4. stream' = Append(stream, Unit(n, a + 1))
    BY <1>3 DEF Put, Unit
<1>5. sent' = IF a = 0 THEN Append(sent, m) ELSE sent
    BY DEF Put
<1>6. /\ sent' \in Seq(Message)
      /\ Len(sent') = n
      /\ n \in Nat \ {0}
      /\ sent'[n] = m
      /\ \A i \in 1..Len(sent) : sent'[i] = sent[i]
    <2>1. CASE a = 0
        BY <2>1, <1>1, <1>2, <1>5
    <2>2. CASE a # 0
        BY <2>2, <1>1, <1>2, <1>3, <1>5
    <2>3. QED
        BY <2>1, <2>2
<1>7. out' = [out EXCEPT ![s] = Sent(s)]
    BY DEF Put
<1>8. Sent(s) = IF a + 1 = Parts(m) THEN Idle ELSE [msg |-> m, n |-> n, at |-> a + 1]
    BY <1>3 DEF Sent
<1>9. ASSUME NEW t \in Senders \ {s} PROVE out[t] = Idle /\ out'[t] = Idle
    BY <1>1, <1>7, OtherIdle DEF IInv
<1>10. QED
    BY <1>2, <1>4, <1>5, <1>6, <1>7, <1>8, <1>9

\* It leaves what is on the stream in step.
LEMMA PutInStep ==
    ASSUME IInv, NEW s \in Senders, Put(s), rx = "reading", rx' = rx, got' = got
    PROVE  Known' /\ Runs' /\ First' /\ Last'
<1> DEFINE m == out[s].msg
           a == out[s].at
           n == IF a = 0 THEN Len(sent) + 1 ELSE Len(sent)
           L == Len(stream)
<1>1. /\ m \in Message /\ a \in Nat /\ a < Parts(m)
      /\ stream' = Append(stream, Unit(n, a + 1))
      /\ Len(sent') = n
      /\ n \in Nat \ {0}
      /\ sent'[n] = m
      /\ \A i \in 1..Len(sent) : sent'[i] = sent[i]
      /\ out' = [out EXCEPT ![s] = Sent(s)]
      /\ Sent(s) = IF a + 1 = Parts(m) THEN Idle ELSE [msg |-> m, n |-> n, at |-> a + 1]
      /\ \A t \in Senders \ {s} : out[t] = Idle /\ out'[t] = Idle
      /\ sent' = IF a = 0 THEN Append(sent, m) ELSE sent
    BY PutFacts
<1>2. /\ TypeOK /\ Known /\ Runs /\ First /\ Last
      /\ stream \in Seq([n : Nat \ {0}, at : Nat \ {0}])
      /\ out \in [Senders -> [msg : Message \cup {None}, n : Nat, at : Nat]]
      /\ Len(sent) \in Nat /\ Len(got) \in Nat /\ L \in Nat
    <2>1. TypeOK /\ Known /\ Runs /\ First /\ Last
        BY DEF IInv, InStep, Put
    <2>2. /\ stream \in Seq([n : Nat \ {0}, at : Nat \ {0}])
          /\ out \in [Senders -> [msg : Message \cup {None}, n : Nat, at : Nat]]
          /\ sent \in Seq(Message) /\ got \in Seq(Message \cup {Garbled})
        BY DEF IInv, TypeOK
    <2>3. QED
        BY <2>1, <2>2
<1>n. L \in Nat /\ a \in Nat
    BY <1>1, <1>2
<1>3. /\ Len(stream') = L + 1
      /\ stream'[L + 1] = Unit(n, a + 1)
      /\ \A i \in 1..L : stream'[i] = stream[i]
    BY <1>1, <1>2
<1>4. Unit(n, a + 1).n = n /\ Unit(n, a + 1).at = a + 1
    BY DEF Unit
<1> HIDE DEF n
<1>5. n = IF a = 0 THEN Len(sent) + 1 ELSE Len(sent)
    BY DEF n
<1>6. Known'
    <2> SUFFICES ASSUME NEW i \in 1..Len(stream') PROVE stream'[i].n \in 1..Len(sent')
        BY DEF Known
    <2>n. n \in Nat \ {0} /\ Len(sent) \in Nat /\ Len(sent') = n
        BY <1>1, <1>2
    <2>0. n \in 1..Len(sent') /\ \A k \in 1..Len(sent) : k \in 1..Len(sent')
        BY <2>n, <1>5
    <2>1. CASE i = L + 1
        <3>1. stream'[i] = Unit(n, a + 1)
            BY <2>1, <1>3
        <3>2. stream'[i].n = n
            BY <3>1, <1>4
        <3>3. QED
            BY <3>2, <2>0
    <2>2. CASE i # L + 1
        <3>1. i \in 1..L
            BY <2>2, <1>3, <1>n
        <3>2. stream'[i] = stream[i] /\ stream[i].n \in 1..Len(sent)
            BY <3>1, <1>2, <1>3 DEF Known
        <3>3. QED
            BY <3>2, <2>0
    <2>3. QED
        BY <2>1, <2>2
<1>7. \A i \in 1..L : /\ stream[i].n \in 1..Len(sent)
                       /\ Size(i)' = Size(i)
                       /\ Size(i) \in Nat \ {0}
    <2>1. \A i \in 1..L : stream[i].n \in 1..Len(sent)
        BY <1>2 DEF Known
    <2>2. \A i \in 1..L : sent'[stream[i].n] = sent[stream[i].n]
        BY <2>1, <1>1
    <2>3. \A i \in 1..L : Size(i)' = Size(i)
        BY <2>2, <1>3 DEF Size, Parts
    <2>4. QED
        BY <2>1, <2>3, PartsType DEF Size
\* The message sent last begins at b, if there is anything on the stream.
<1> DEFINE LastAt(b) == /\ stream[b] = Unit(Len(sent), 1)
                        /\ a = 0 => L + 1 = b + Size(b)
                        /\ a # 0 => L + 1 = b + a /\ n = Len(sent) /\ Size(b) = Parts(m)
<1>8. \/ L = 0 /\ Len(got) = Len(sent) /\ a = 0
      \/ \E b \in 1..L : LastAt(b)
    <2>1. CASE stream = <<>> /\ Len(got) = Len(sent) /\ Quiet
        BY <2>1, <1>2 DEF Quiet
    <2>2. ASSUME NEW b \in 1..L, LastFrom(b) PROVE LastAt(b)
        <3>1. stream[b] = Unit(Len(sent), 1) /\ stream[b].n = Len(sent)
            BY <2>2 DEF LastFrom, Unit
        <3>2. Size(b) = Parts(sent[Len(sent)])
            BY <3>1 DEF Size
        <3>3. \A t \in Senders \ {s} : out[t].at = 0
            BY <1>1, IdleAt
        <3>4. a = 0 => L + 1 = b + Size(b)
            BY <2>2, <3>2, <3>3 DEF LastFrom
        <3>5. a # 0 => L + 1 = b + a
            BY <2>2, <3>3 DEF LastFrom, Quiet
        <3>6. a # 0 => n = Len(sent) /\ m = sent[Len(sent)]
            BY <1>5 DEF IInv, Carried, Put
        <3>7. QED
            BY <3>1, <3>2, <3>4, <3>5, <3>6
    <2>3. QED
        BY <2>1, <2>2, <1>2 DEF Last
<1> HIDE DEF LastAt
<1>9. First'
    <2>1. CASE L = 0 /\ Len(got) = Len(sent) /\ a = 0
        <3>1. stream'[1] = Unit(Len(got) + 1, 1)
            BY <2>1, <1>3, <1>5
        <3>2. QED
            BY <3>1 DEF First
    <2>2. CASE L # 0
        <3>1. stream'[1] = stream[1] /\ stream # <<>>
            BY <2>2, <1>2, <1>3
        <3>2. QED
            BY <3>1, <1>2 DEF First
    <2>3. QED
        BY <2>1, <2>2, <1>2, <1>8
<1>10. ASSUME NEW i \in 1..L, stream[i].at = 1
       PROVE  /\ L + 1 < i + Size(i) => Unit(n, a + 1) = Unit(stream[i].n, L + 1 - i + 1)
              /\ L + 1 = i + Size(i) => Unit(n, a + 1) = Unit(stream[i].n + 1, 1)
    <2>0. L # 0
        BY <1>2
    <2>1. PICK b \in 1..L : LastAt(b)
        BY <1>8, <2>0
    <2>2. stream[b].at = 1 /\ stream[b].n = Len(sent)
        BY <2>1 DEF LastAt, Unit
    <2>3. Size(i) \in Nat \ {0} /\ Size(b) \in Nat \ {0}
        BY <1>7
    <2>4. CASE i < b
        <3>1. i + Size(i) <= b
            BY <2>2, <2>4, <1>2, <1>10, Apart
        <3>2. QED
            BY <3>1, <2>3
    <2>5. CASE i = b
        <3>1. CASE a = 0
            <4>1. L + 1 = i + Size(i) /\ n = stream[i].n + 1 /\ a + 1 = 1
                BY <3>1, <2>1, <2>2, <2>5, <1>5 DEF LastAt
            <4>2. ~(L + 1 < i + Size(i))
                BY <4>1, <2>3, <1>n
            <4>3. Unit(n, a + 1) = Unit(stream[i].n + 1, 1)
                BY <4>1
            <4>4. QED
                BY <4>2, <4>3
        <3>2. CASE a # 0
            <4>1. L + 1 = i + a /\ n = stream[i].n /\ a < Size(i) /\ a \in Nat
                BY <3>2, <2>1, <2>2, <2>5, <1>1 DEF LastAt
            <4>2. L + 1 # i + Size(i) /\ L + 1 - i + 1 = a + 1
                BY <4>1, <2>3, <1>n
            <4>3. Unit(n, a + 1) = Unit(stream[i].n, L + 1 - i + 1)
                BY <4>1, <4>2
            <4>4. QED
                BY <4>2, <4>3
        <3>3. QED
            BY <3>1, <3>2
    <2>6. CASE b < i
        <3>1. b + Size(b) <= i
            BY <2>2, <2>6, <1>2, <1>10, Apart
        <3>2. a = 0 => L + 1 = b + Size(b)
            BY <2>1 DEF LastAt
        <3>3. a # 0 => L + 1 = b + a /\ a < Size(b) /\ a \in Nat
            BY <2>1, <1>1 DEF LastAt
        <3>4. L + 1 <= b + Size(b)
            <4>1. CASE a = 0
                BY <4>1, <3>2, <2>3
            <4>2. CASE a # 0
                BY <4>2, <3>3, <2>3
            <4>3. QED
                BY <4>1, <4>2
        <3>5. FALSE
            BY <3>1, <3>4, <2>3, <1>n
        <3>6. QED
            BY <3>5
    <2>7. QED
        BY <2>4, <2>5, <2>6
<1>11. Runs'
    <2> SUFFICES ASSUME NEW i \in 1..(L + 1), stream'[i].at = 1, NEW j \in i..(L + 1)
                 PROVE  /\ j < i + Size(i)' => stream'[j] = Unit(stream'[i].n, j - i + 1)
                        /\ j = i + Size(i)' => stream'[j] = Unit(stream'[i].n + 1, 1)
        BY <1>3 DEF Runs
    <2>1. CASE i = L + 1
        <3>1. j = i /\ Size(i)' \in Nat \ {0}
            BY <2>1, <1>2, PartsType DEF Size
        <3>2. a + 1 = 1
            BY <2>1, <1>3, <1>4
        <3>3. stream'[i] = Unit(n, 1) /\ stream'[i].n = n
            BY <2>1, <3>2, <1>3, <1>4
        <3>4. j # i + Size(i)' /\ j - i + 1 = 1
            BY <3>1, <1>2
        <3>5. QED
            BY <3>1, <3>3, <3>4
    <2>2. CASE i # L + 1 /\ j = L + 1
        <3>1. i \in 1..L /\ stream[i].at = 1
            BY <2>2, <1>2, <1>3
        <3>2. Size(i)' = Size(i) /\ stream'[i] = stream[i] /\ stream'[j] = Unit(n, a + 1)
            BY <2>2, <3>1, <1>3, <1>7
        <3>3. QED
            BY <2>2, <3>1, <3>2, <1>10
    <2>3. CASE i # L + 1 /\ j # L + 1
        <3>1. i \in 1..L /\ j \in i..L /\ j \in 1..L
            BY <2>3, <1>2
        <3>2. Size(i)' = Size(i) /\ stream'[i] = stream[i] /\ stream'[j] = stream[j]
            BY <3>1, <1>3, <1>7
        <3>3. QED
            BY <3>1, <3>2, <1>2 DEF Runs
    <2>4. QED
        BY <2>1, <2>2, <2>3
<1>12. Last'
    <2>1. out'[s] = Sent(s) /\ Sent(s).at \in {0, a + 1}
        BY <1>1, <1>2, IdleAt
    <2>2. \A t \in Senders \ {s} : out'[t].at = 0
        BY <1>1, IdleAt
    <2>3. ASSUME NEW b \in 1..(L + 1), stream'[b] = Unit(n, 1), L + 2 = b + (a + 1)
          PROVE  Last'
        <3>1. Parts(sent'[Len(sent')]) = Parts(m)
            BY <1>1
        <3>2. CASE a + 1 = Parts(m)
            <4>1. Quiet'
                BY <3>2, <2>1, <2>2, <1>1, IdleAt DEF Quiet
            <4>2. Len(stream') + 1 = b + Parts(sent'[Len(sent')])
                BY <3>1, <3>2, <2>3, <1>2, <1>3
            <4>3. LastFrom(b)'
                BY <4>1, <4>2, <2>3, <1>1 DEF LastFrom
            <4>4. QED
                BY <4>3, <1>3 DEF Last
        <3>3. CASE a + 1 # Parts(m)
            <4>1. out'[s].at = a + 1 /\ a + 1 # 0
                BY <3>3, <2>1, <1>1
            <4>2. Len(stream') + 1 = b + out'[s].at
                BY <4>1, <2>3, <1>2, <1>3
            <4>3. LastFrom(b)'
                BY <4>1, <4>2, <2>3, <1>1 DEF LastFrom
            <4>4. QED
                BY <4>3, <1>3 DEF Last
        <3>4. QED
            BY <3>2, <3>3
    <2>4. CASE a = 0
        <3>1. stream'[L + 1] = Unit(n, 1) /\ L + 2 = (L + 1) + (a + 1) /\ L + 1 \in 1..(L + 1)
            BY <2>4, <1>2, <1>3
        <3>2. QED
            BY <3>1, <2>3
    <2>5. CASE a # 0
        <3>1. PICK b \in 1..L : LastAt(b)
            BY <2>5, <1>8
        <3>2. b \in 1..(L + 1) /\ stream'[b] = Unit(n, 1) /\ L + 2 = b + (a + 1)
            <4>1. n = Len(sent) /\ L + 1 = b + a /\ stream[b] = Unit(n, 1)
                BY <2>5, <3>1 DEF LastAt
            <4>2. b \in 1..(L + 1) /\ stream'[b] = stream[b]
                BY <1>2, <1>3
            <4>3. b \in 1..(L + 1) /\ L + 2 = b + (a + 1)
                <5> HIDE DEF L, a
                <5> QED
                    BY <4>1, <1>n
            <4>4. QED
                BY <4>1, <4>2, <4>3
        <3>3. QED
            BY <3>2, <2>3
    <2>6. QED
        BY <2>4, <2>5
<1>13. QED
    BY <1>6, <1>9, <1>11, <1>12

\* A step that puts nothing on the stream and takes nothing from it, and
\* either leaves the senders where they are or finds or makes the end of it.
LEMMA StreamKept ==
    ASSUME IInv, UNCHANGED <<sent, stream, rx, got>>,
           open' => open /\ \A s \in Senders : out'[s].at = out[s].at
    PROVE  InStep' /\ Received'
<1>1. Received'
    BY DEF IInv, Received
<1>2. ASSUME rx' = "reading" PROVE Known' /\ Runs' /\ First'
    <2>1. Known /\ Runs /\ First
        BY <1>2 DEF IInv, InStep
    <2>2. QED
        BY <2>1 DEF Known, Runs, First, Size, Parts
<1>3. ASSUME rx' = "reading", open' PROVE Last'
    <2>1. Last /\ Quiet' = Quiet
        BY <1>3 DEF IInv, InStep, Quiet
    <2>2. \A b \in 1..Len(stream) : LastFrom(b) => LastFrom(b)'
        BY <2>1, <1>3 DEF LastFrom, Parts
    <2>3. QED
        BY <2>1, <2>2 DEF Last
<1>4. QED
    BY <1>1, <1>2, <1>3 DEF InStep

\* The same when the step is the handler's or the hub's and touches no sender.
LEMMA NothingSent ==
    ASSUME IInv, UNCHANGED <<sent, stream, rx, got, out>>, open' => open
    PROVE  InStep' /\ Received' /\ Carried'
<1>1. InStep' /\ Received'
    BY StreamKept
<1>2. Carried'
    BY DEF IInv, Carried, Parts
<1>3. QED
    BY <1>1, <1>2

\* A sender that begins a message, or gives one up.
LEMMA SenderSet ==
    ASSUME IInv, NEW s \in Senders, NEW r,
           r = Idle \/ (r.msg \in Message /\ r.n = 0 /\ r.at = 0 /\ r = [msg |-> r.msg, n |-> 0, at |-> 0]),
           out' = [out EXCEPT ![s] = r],
           UNCHANGED <<sent, stream, rx, got>>,
           open' => open /\ out[s] = Idle
    PROVE  /\ InStep' /\ Received' /\ Carried'
           /\ out' \in [Senders -> [msg : Message \cup {None}, n : Nat, at : Nat]]
           /\ out'[s] = r
           /\ \A t \in Senders \ {s} : out'[t] = out[t]
<1>1. out \in [Senders -> [msg : Message \cup {None}, n : Nat, at : Nat]]
    BY DEF IInv, TypeOK
<1>2. r \in [msg : Message \cup {None}, n : Nat, at : Nat] /\ r.at = 0
    BY DEF Idle
<1>3. /\ out'[s] = r
      /\ \A t \in Senders \ {s} : out'[t] = out[t]
      /\ out' \in [Senders -> [msg : Message \cup {None}, n : Nat, at : Nat]]
    BY <1>1, <1>2
<1>4. InStep' /\ Received'
    BY <1>2, <1>3, StreamKept, IdleAt
<1>5. ASSUME NEW t \in Senders, out'[t] # Idle
      PROVE  /\ out'[t].msg \in Message
             /\ out'[t].at < Parts(out'[t].msg)
             /\ out'[t].at # 0 => /\ Len(sent') > 0
                                  /\ out'[t].n = Len(sent')
                                  /\ out'[t].msg = sent'[Len(sent')]
    <2>1. CASE t = s
        BY <2>1, <1>2, <1>3, <1>5, PartsType
    <2>2. CASE t # s
        BY <2>2, <1>3, <1>5 DEF IInv, Carried
    <2>3. QED
        BY <2>1, <2>2
<1>6. Carried'
    BY <1>5 DEF Carried, Parts
<1>7. QED
    BY <1>3, <1>4, <1>6

\* A unit put on the stream keeps everything that is said of it.
LEMMA PutKeeps ==
    ASSUME IInv, NEW s \in Senders, Put(s), UNCHANGED <<read, rx, got, open>>
    PROVE  /\ InStep' /\ Received' /\ Carried'
           /\ out' \in [Senders -> [msg : Message \cup {None}, n : Nat, at : Nat]]
           /\ stream' \in Seq([n : Nat \ {0}, at : Nat \ {0}])
           /\ sent' \in Seq(Message)
           /\ read' \in 0..Len(stream')
           /\ out'[s] = Sent(s)
           /\ \A t \in Senders \ {s} : out[t] = Idle /\ out'[t] = Idle
<1> DEFINE m == out[s].msg
           a == out[s].at
           n == IF a = 0 THEN Len(sent) + 1 ELSE Len(sent)
<1>1. /\ m \in Message /\ a \in Nat /\ a < Parts(m)
      /\ stream' = Append(stream, Unit(n, a + 1))
      /\ sent' \in Seq(Message)
      /\ Len(sent') = n
      /\ n \in Nat \ {0}
      /\ sent'[n] = m
      /\ \A i \in 1..Len(sent) : sent'[i] = sent[i]
      /\ out' = [out EXCEPT ![s] = Sent(s)]
      /\ Sent(s) = IF a + 1 = Parts(m) THEN Idle ELSE [msg |-> m, n |-> n, at |-> a + 1]
      /\ \A t \in Senders \ {s} : out[t] = Idle /\ out'[t] = Idle
    BY PutFacts
<1>2. /\ out \in [Senders -> [msg : Message \cup {None}, n : Nat, at : Nat]]
      /\ stream \in Seq([n : Nat \ {0}, at : Nat \ {0}])
      /\ sent \in Seq(Message)
      /\ got \in Seq(Message \cup {Garbled})
      /\ read \in 0..Len(stream)
    BY DEF IInv, TypeOK
<1>3. Len(sent) <= n
    BY <1>2
<1> HIDE DEF n
<1>4. /\ Sent(s) \in [msg : Message \cup {None}, n : Nat, at : Nat]
    BY <1>1 DEF Idle
<1>5. out' \in [Senders -> [msg : Message \cup {None}, n : Nat, at : Nat]] /\ out'[s] = Sent(s)
    BY <1>1, <1>2, <1>4
<1>6. stream' \in Seq([n : Nat \ {0}, at : Nat \ {0}]) /\ Len(stream') = Len(stream) + 1
    BY <1>1, <1>2 DEF Unit
<1>7. read' \in 0..Len(stream')
    BY <1>2, <1>6
<1>8. InStep'
    BY PutInStep DEF InStep
<1>9. Received'
    <2>1. Len(got) <= Len(sent) /\ \A i \in 1..Len(got) : got[i] = sent[i]
        BY DEF IInv, Received
    <2>2. QED
        BY <2>1, <1>1, <1>2, <1>3 DEF Received
<1>10. Carried'
    <2>1. ASSUME NEW t \in Senders, out'[t] # Idle PROVE t = s
        BY <2>1, <1>1
    <2>2. ASSUME out'[s] # Idle
          PROVE  /\ out'[s].msg = m /\ out'[s].n = n /\ out'[s].at = a + 1
                 /\ a + 1 < Parts(m)
        BY <2>2, <1>1, <1>5, PartsType
    <2>3. QED
        BY <2>1, <2>2, <1>1 DEF Carried, Parts
<1>11. QED
    BY <1>1, <1>5, <1>6, <1>7, <1>8, <1>9, <1>10

\* The units of the stream are units.
LEMMA StreamType ==
    ASSUME TypeOK, NEW i \in 1..Len(stream)
    PROVE  stream[i] \in [n : Nat \ {0}, at : Nat \ {0}]
<1> DEFINE S == [n : Nat \ {0}, at : Nat \ {0}]
<1>1. stream \in Seq(S)
    BY DEF TypeOK
<1> HIDE DEF S
<1>2. stream[i] \in S
    BY <1>1
<1>3. QED
    BY <1>2 DEF S

\* The receiver takes the message that comes next, as it was sent.
LEMMA TakesNext ==
    ASSUME IInv, ReadsMessage
    PROVE  /\ Len(got) < Len(sent)
           /\ got' = Append(got, sent[Len(got) + 1])
           /\ stream[1] = Unit(Len(got) + 1, 1)
           /\ read + 1 = Size(1)
           /\ read + 1 \in 1..Len(stream)
<1>1. /\ stream \in Seq([n : Nat \ {0}, at : Nat \ {0}])
      /\ sent \in Seq(Message)
      /\ got \in Seq(Message \cup {Garbled})
      /\ read \in 0..Len(stream)
    BY DEF IInv, TypeOK
<1>2. Known /\ Runs /\ First
    BY DEF IInv, InStep, ReadsMessage
<1>3. read + 1 \in 1..Len(stream) /\ 1 \in 1..Len(stream)
    BY <1>1 DEF ReadsMessage
<1>4. stream[1] = Unit(Len(got) + 1, 1) /\ stream[1].n = Len(got) + 1 /\ stream[1].at = 1
    BY <1>1, <1>2, <1>3 DEF First, Unit
<1>5. \A j \in 1..(read + 1) : Units[j] = stream[j]
    BY <1>1, <1>3 DEF Units
<1>6. Stated = sent[Len(got) + 1] /\ read + 1 = Size(1)
    BY <1>3, <1>4, <1>5 DEF Stated, ReadsMessage, Complete, Size
<1>7. \A j \in 1..(read + 1) : stream[j] = Unit(Len(got) + 1, j)
    <2>1. \A j \in 1..Len(stream) : j < 1 + Size(1) => stream[j] = Unit(stream[1].n, j - 1 + 1)
        BY <1>2, <1>3, <1>4 DEF Runs
    <2>2. \A j \in 1..(read + 1) : j \in 1..Len(stream) /\ j < 1 + Size(1) /\ j - 1 + 1 = j
        BY <1>1, <1>3, <1>6
    <2>3. QED
        BY <2>1, <2>2, <1>4
<1>8. \A j \in 1..(read + 1) : Units[j] = [n |-> Units[1].n, at |-> j]
    BY <1>3, <1>4, <1>5, <1>7 DEF Unit
<1>9. got' = Append(got, sent[Len(got) + 1])
    BY <1>6, <1>8 DEF ReadsMessage
<1>10. Len(got) < Len(sent)
    BY <1>1, <1>2, <1>3, <1>4 DEF Known
<1>11. QED
    BY <1>3, <1>4, <1>6, <1>9, <1>10

\* What is left on the stream is in step again.
LEMMA TakeInStep ==
    ASSUME IInv, ReadsMessage
    PROVE  InStep' /\ Received' /\ stream' \in Seq([n : Nat \ {0}, at : Nat \ {0}])
<1> DEFINE P == read + 1
           L == Len(stream)
<1>1. /\ stream \in Seq([n : Nat \ {0}, at : Nat \ {0}])
      /\ sent \in Seq(Message)
      /\ got \in Seq(Message \cup {Garbled})
      /\ out \in [Senders -> [msg : Message \cup {None}, n : Nat, at : Nat]]
      /\ TypeOK
    BY DEF IInv, TypeOK
<1>2. Known /\ Runs /\ First /\ (open => Last) /\ Carried
    BY DEF IInv, InStep, ReadsMessage
<1>3. /\ Len(got) < Len(sent)
      /\ got' = Append(got, sent[Len(got) + 1])
      /\ stream[1] = Unit(Len(got) + 1, 1)
      /\ P = Size(1)
      /\ P \in 1..L
    BY TakesNext
<1>4. L \in Nat /\ P \in Nat /\ L - P \in Nat /\ 1 \in 1..L /\ Len(got) \in Nat /\ Len(sent) \in Nat
    BY <1>1, <1>3
<1>5. /\ stream' = SubSeq(stream, P + 1, L)
      /\ UNCHANGED <<sent, out, open, rx>>
    <2>1. read \in Nat
        BY DEF IInv, TypeOK
    <2>2. read + 2 = P + 1
        BY <2>1
    <2>3. QED
        BY <2>2 DEF ReadsMessage, sending
<1>6. /\ stream' \in Seq([n : Nat \ {0}, at : Nat \ {0}])
      /\ Len(stream') = L - P
      /\ \A i \in 1..(L - P) : i + P \in 1..L /\ stream'[i] = stream[i + P]
    <2>0. \A i \in (P + 1)..L : i \in 1..Len(stream)
        <3> HIDE DEF P
        <3>1. QED
            BY <1>4
    <2>1. \A i \in (P + 1)..L : stream[i] \in [n : Nat \ {0}, at : Nat \ {0}]
        BY <1>1, <2>0, StreamType
    <2>2. P + 1 \in Int /\ L \in Int
        BY <1>4
    <2>3. /\ stream' \in Seq([n : Nat \ {0}, at : Nat \ {0}])
          /\ Len(stream') = IF P + 1 <= L THEN L - (P + 1) + 1 ELSE 0
          /\ \A i \in 1..(L - (P + 1) + 1) : stream'[i] = stream[P + 1 + i - 1]
        BY <2>1, <2>2, <1>5, SubSeqProperties
    <2>4. L - (P + 1) + 1 = L - P /\ (~(P + 1 <= L) => L - P = 0)
        BY <1>4
    <2>5. \A i \in 1..(L - P) : i + P \in 1..L /\ P + 1 + i - 1 = i + P
        BY <1>4
    <2>6. QED
        BY <2>3, <2>4, <2>5
<1>7. stream[1].at = 1 /\ stream[1].n = Len(got) + 1
    BY <1>3 DEF Unit
<1> HIDE DEF P, L
<1>8. \A i \in 1..(L - P) : Size(i)' = Size(i + P) /\ Size(i + P) \in Nat \ {0}
    BY <1>5, <1>6, PartsType DEF Size, Parts
<1>9. Known'
    BY <1>2, <1>5, <1>6 DEF Known, L
<1>10. Runs'
    <2> SUFFICES ASSUME NEW i \in 1..(L - P), stream'[i].at = 1, NEW j \in i..(L - P)
                 PROVE  /\ j < i + Size(i)' => stream'[j] = Unit(stream'[i].n, j - i + 1)
                        /\ j = i + Size(i)' => stream'[j] = Unit(stream'[i].n + 1, 1)
        BY <1>6 DEF Runs
    <2>1. /\ i + P \in 1..L /\ j + P \in (i + P)..L /\ j \in 1..(L - P)
          /\ (j + P) - (i + P) + 1 = j - i + 1
        BY <1>4, <1>6
    <2>2. stream'[i] = stream[i + P] /\ stream'[j] = stream[j + P] /\ Size(i)' = Size(i + P)
        BY <2>1, <1>6, <1>8
    <2>3. /\ j + P < (i + P) + Size(i + P) => stream[j + P] = Unit(stream[i + P].n, (j + P) - (i + P) + 1)
          /\ j + P = (i + P) + Size(i + P) => stream[j + P] = Unit(stream[i + P].n + 1, 1)
        BY <2>1, <2>2, <1>2 DEF Runs, L
    <2>4. /\ j < i + Size(i + P) <=> j + P < (i + P) + Size(i + P)
          /\ j = i + Size(i + P) <=> j + P = (i + P) + Size(i + P)
        BY <1>4, <1>8
    <2>5. QED
        BY <2>1, <2>2, <2>3, <2>4
<1>11. First'
    <2>1. CASE L = P
        BY <2>1, <1>4, <1>6 DEF First
    <2>2. CASE L # P
        <3>1. 1 + P \in 1..L /\ 1 + P = 1 + Size(1) /\ 1 \in 1..(L - P)
            BY <2>2, <1>3, <1>4 DEF P, L
        <3>2. stream[1 + P] = Unit(Len(got) + 2, 1)
            BY <3>1, <1>2, <1>4, <1>7 DEF Runs, L
        <3>3. stream'[1] = Unit(Len(got') + 1, 1)
            <4>1. Len(got') + 1 = Len(got) + 2
                BY <1>1, <1>3, <1>4
            <4>2. stream'[1] = stream[1 + P]
                BY <3>1, <1>6
            <4>3. QED
                BY <3>2, <4>1, <4>2
        <3>4. QED
            BY <3>3 DEF First
    <2>3. QED
        BY <2>1, <2>2
<1>12. ASSUME open PROVE Last'
    <2>1. PICK b \in 1..L : LastFrom(b)
        BY <1>2, <1>4, <1>12 DEF Last, L
    <2>2. stream[b].at = 1 /\ stream[b].n = Len(sent) /\ Size(b) = Parts(sent[Len(sent)])
        BY <2>1 DEF LastFrom, Unit, Size
    <2>3. Size(b) \in Nat \ {0}
        BY <2>2, PartsType
    <2>4. CASE b = 1
        <3>1. Len(sent) = Len(got) + 1 /\ Size(b) = P
            BY <2>2, <2>4, <1>3, <1>7 DEF P
        <3>2. CASE Quiet /\ L + 1 = b + Parts(sent[Len(sent)])
            <4>1. L = P
                BY <2>2, <2>4, <3>1, <3>2, <1>4
            <4>2. stream' = <<>>
                BY <4>1, <1>4, <1>6
            <4>3. Len(got') = Len(sent')
                BY <3>1, <1>1, <1>3, <1>5
            <4>4. QED
                BY <3>2, <4>2, <4>3, <1>5 DEF Last, Quiet
        <3>3. ASSUME NEW s \in Senders, out[s].at # 0, L + 1 = b + out[s].at PROVE FALSE
            <4>1. out[s].at < Parts(sent[Len(sent)]) /\ out[s].at \in Nat
                BY <3>3, <1>1, <1>2, IdleAt DEF Carried
            <4>2. L < P
                BY <2>2, <2>4, <3>1, <3>3, <4>1, <1>4
            <4>3. QED
                BY <4>2, <1>3, <1>4 DEF P, L
        <3>4. QED
            BY <2>1, <3>2, <3>3 DEF LastFrom, L
    <2>5. CASE b # 1
        <3>1. 1 < b
            BY <2>5, <1>4
        <3>2. 1 + P <= b
            BY <2>2, <3>1, <1>1, <1>2, <1>3, <1>4, <1>7, Apart DEF L, P
        <3>3. PICK c \in 1..(L - P) : c + P = b /\ c = b - P
            BY <3>2, <1>4
        <3>4. stream'[c] = stream[b]
            BY <3>3, <1>6
        <3>5. LastFrom(c)'
            <4>1. stream'[c] = Unit(Len(sent'), 1)
                BY <2>1, <3>4, <1>5 DEF LastFrom
            <4>2. CASE Quiet /\ L + 1 = b + Parts(sent[Len(sent)])
                <5>1. Quiet'
                    BY <4>2, <1>5 DEF Quiet
                <5>2. Len(stream') + 1 = c + Parts(sent'[Len(sent')])
                    BY <4>2, <2>2, <2>3, <3>3, <1>4, <1>5, <1>6 DEF Parts
                <5>3. QED
                    BY <4>1, <5>1, <5>2 DEF LastFrom
            <4>3. ASSUME NEW s \in Senders, out[s].at # 0, L + 1 = b + out[s].at
                  PROVE  LastFrom(c)'
                <5>1. out[s].at \in Nat /\ out'[s] = out[s]
                    BY <1>1, <1>5
                <5>2. Len(stream') + 1 = c + out'[s].at
                    <6>1. L - P + 1 = c + out[s].at
                        <7>1. PICK d \in Nat : d = out[s].at
                            BY <5>1
                        <7>2. b \in Nat /\ c \in Nat /\ L \in Nat /\ P \in Nat
                            BY <1>4, <3>3
                        <7>3. L + 1 = b + d /\ c + P = b
                            BY <7>1, <4>3, <3>3
                        <7>4. L - P + 1 = c + d
                            BY <7>2, <7>3
                        <7>5. QED
                            BY <7>1, <7>4
                    <6>2. Len(stream') = L - P /\ out'[s].at = out[s].at
                        BY <5>1, <1>6
                    <6>3. QED
                        BY <6>1, <6>2
                <5>3. QED
                    BY <4>1, <4>3, <5>1, <5>2 DEF LastFrom
            <4>4. QED
                BY <2>1, <4>2, <4>3 DEF LastFrom, L
        <3>6. QED
            BY <3>3, <3>5, <1>6 DEF Last
    <2>6. QED
        BY <2>4, <2>5
<1>13. Received'
    <2>1. /\ Len(got') = Len(got) + 1 /\ got'[Len(got) + 1] = sent[Len(got) + 1]
          /\ \A i \in 1..Len(got) : got'[i] = got[i]
        BY <1>1, <1>3
    <2>2. Len(got') <= Len(sent)
        BY <2>1, <1>3, <1>4
    <2>3. ASSUME NEW i \in 1..Len(got') PROVE got'[i] = sent[i]
        <3>1. CASE i = Len(got) + 1
            BY <3>1, <2>1
        <3>2. CASE i # Len(got) + 1
            <4>1. i \in 1..Len(got)
                BY <3>2, <2>1, <1>4
            <4>2. QED
                BY <4>1, <2>1 DEF IInv, Received
        <3>3. QED
            BY <3>1, <3>2
    <2>4. QED
        BY <2>2, <2>3, <1>5 DEF Received
<1>14. QED
    BY <1>5, <1>6, <1>9, <1>10, <1>11, <1>12, <1>13 DEF InStep

\* A lost connection leaves what was read.
LEMMA LostInStep ==
    ASSUME IInv, Lost
    PROVE  InStep' /\ Received' /\ stream' \in Seq([n : Nat \ {0}, at : Nat \ {0}])
           /\ Len(stream') = read
<1>1. /\ stream \in Seq([n : Nat \ {0}, at : Nat \ {0}])
      /\ read \in 0..Len(stream)
    BY DEF IInv, TypeOK
<1>2. /\ stream' = SubSeq(stream, 1, read)
      /\ ~open' /\ UNCHANGED <<sent, rx, got>>
    BY DEF Lost
<1>3. /\ stream' \in Seq([n : Nat \ {0}, at : Nat \ {0}])
      /\ Len(stream') = read
      /\ \A i \in 1..read : i \in 1..Len(stream) /\ stream'[i] = stream[i]
    <2>0. \A i \in 1..read : i \in 1..Len(stream)
        BY <1>1
    <2>1. \A i \in 1..read : i \in 1..Len(stream) /\ stream[i] \in [n : Nat \ {0}, at : Nat \ {0}]
        BY <2>0, StreamType DEF IInv
    <2>2. read \in Int /\ 1 \in Int /\ read - 1 + 1 = read /\ (~(1 <= read) => read = 0)
        BY <1>1
    <2>3. /\ stream' \in Seq([n : Nat \ {0}, at : Nat \ {0}])
          /\ Len(stream') = IF 1 <= read THEN read - 1 + 1 ELSE 0
          /\ \A i \in 1..(read - 1 + 1) : stream'[i] = stream[1 + i - 1]
        BY <2>1, <2>2, <1>2, SubSeqProperties
    <2>4. \A i \in 1..read : 1 + i - 1 = i
        BY <1>1
    <2>5. QED
        BY <2>1, <2>2, <2>3, <2>4
<1>4. Received'
    BY <1>2 DEF IInv, Received
<1>5. ASSUME rx = "reading" PROVE Known' /\ Runs' /\ First'
    <2>1. Known /\ Runs /\ First
        BY <1>5 DEF IInv, InStep
    <2>2. Known'
        BY <2>1, <1>2, <1>3 DEF Known
    <2>3. \A i \in 1..read : Size(i)' = Size(i)
        BY <1>2, <1>3 DEF Size, Parts
    <2>4. \A i \in 1..read : \A j \in i..read : j \in i..Len(stream) /\ j \in 1..read
        BY <1>1
    <2>5. Runs'
        <3> SUFFICES ASSUME NEW i \in 1..Len(stream'), stream'[i].at = 1,
                            NEW j \in i..Len(stream')
                     PROVE  /\ j < i + Size(i)' => stream'[j] = Unit(stream'[i].n, j - i + 1)
                            /\ j = i + Size(i)' => stream'[j] = Unit(stream'[i].n + 1, 1)
            BY DEF Runs
        <3>1. i \in 1..read /\ j \in i..read
            BY <1>3
        <3>2. i \in 1..Len(stream) /\ j \in i..Len(stream) /\ j \in 1..read
            BY <3>1, <2>4, <1>1
        <3>3. stream'[i] = stream[i] /\ stream'[j] = stream[j] /\ Size(i)' = Size(i)
            BY <3>1, <3>2, <2>3, <1>3
        <3>4. /\ j < i + Size(i) => stream[j] = Unit(stream[i].n, j - i + 1)
              /\ j = i + Size(i) => stream[j] = Unit(stream[i].n + 1, 1)
            BY <3>2, <3>3, <2>1 DEF Runs
        <3>5. QED
            BY <3>3, <3>4
    <2>6. First'
        BY <2>1, <1>1, <1>2, <1>3 DEF First
    <2>7. QED
        BY <2>2, <2>5, <2>6
<1>6. QED
    BY <1>2, <1>3, <1>4, <1>5 DEF InStep

-----------------------------------------------------------------------------
(* The invariant                                                           *)

\* The messages of the program are messages.
LEMMA Messages ==
    /\ \A i \in 1..Len(Handshake) : Handshake[i] \in Message
    /\ Len(Handshake) = 3
    /\ AuthFail \in Message /\ Pong \in Message /\ SocksData \in Message
    /\ \A k \in MinMtu..MaxMtu : FullFrame(k) \in Message
BY DEF Handshake, Message, Types, AuthFail, Pong, SocksData, FullFrame, SocksOverhead,
       ReadChunk, TapOverhead, EthernetHeader, MinMtu, MaxMtu

\* The handler's steps of the handshake that send nothing yet.
LEMMA BeginStep ==
    ASSUME IInv, SendsHandshake \/ SendsRefusal
    PROVE  IInv'
<1>1. PICK m \in Message : /\ out["handler"] = Idle
                           /\ Begin("handler", m)
                           /\ UNCHANGED <<mtu, thread, stop, next, offers, sent, stream, read, open, rx, got, cut>>
                           /\ phase \in {"handshake", "refusing"} /\ phase' \in {"handshake", "refusing"}
                           /\ step' \in 0..Len(Handshake)
    <2>1. CASE SendsHandshake
        <3>1. step + 1 \in 1..Len(Handshake) /\ step' = step + 1
            BY <2>1, Messages DEF SendsHandshake, IInv, TypeOK
        <3>2. Handshake[step + 1] \in Message
            BY <3>1, Messages
        <3>3. QED
            BY <2>1, <3>1, <3>2, Messages DEF SendsHandshake
    <2>2. CASE SendsRefusal
        BY <2>2, Messages DEF SendsRefusal, IInv, TypeOK
    <2>3. QED
        BY <2>1, <2>2
<1> DEFINE r == [msg |-> m, n |-> 0, at |-> 0]
<1>2. /\ r.msg \in Message /\ r.n = 0 /\ r.at = 0 /\ r = [msg |-> r.msg, n |-> 0, at |-> 0]
      /\ out' = [out EXCEPT !["handler"] = r] /\ "handler" \in Senders /\ "writer" \in Senders \ {"handler"}
    BY <1>1 DEF Begin, Senders
<1> HIDE DEF r
<1>3. /\ InStep' /\ Received' /\ Carried'
      /\ out' \in [Senders -> [msg : Message \cup {None}, n : Nat, at : Nat]]
      /\ out'["writer"] = out["writer"]
    BY <1>1, <1>2, SenderSet
<1>4. TypeOK'
    BY <1>1, <1>3 DEF IInv, TypeOK
<1>5. Alone'
    BY <1>1 DEF IInv, Alone
<1>6. QED
    BY <1>3, <1>4, <1>5 DEF IInv

\* A unit goes out, the handler's or the writer's.
LEMMA PutStep ==
    ASSUME IInv, HandlerSends \/ WriterSends
    PROVE  IInv'
<1>1. CASE HandlerSends
    <2>1. /\ InStep' /\ Received' /\ Carried'
          /\ out' \in [Senders -> [msg : Message \cup {None}, n : Nat, at : Nat]]
          /\ stream' \in Seq([n : Nat \ {0}, at : Nat \ {0}])
          /\ sent' \in Seq(Message)
          /\ read' \in 0..Len(stream')
          /\ out["writer"] = Idle /\ out'["writer"] = Idle
        BY <1>1, PutKeeps DEF HandlerSends, Senders
    <2>2. TypeOK'
        BY <1>1, <2>1 DEF IInv, TypeOK, HandlerSends
    <2>3. Alone'
        BY <1>1 DEF IInv, Alone, HandlerSends, Put
    <2>4. QED
        BY <2>1, <2>2, <2>3 DEF IInv
<1>2. CASE WriterSends
    <2>1. /\ InStep' /\ Received' /\ Carried'
          /\ out' \in [Senders -> [msg : Message \cup {None}, n : Nat, at : Nat]]
          /\ stream' \in Seq([n : Nat \ {0}, at : Nat \ {0}])
          /\ sent' \in Seq(Message)
          /\ read' \in 0..Len(stream')
          /\ out'["writer"] = Sent("writer")
          /\ out["handler"] = Idle /\ out'["handler"] = Idle
        BY <1>2, PutKeeps DEF WriterSends, Senders
    <2>2. TypeOK'
        BY <1>2, <2>1 DEF IInv, TypeOK, WriterSends
    <2>3. Alone'
        BY <1>2, <2>1 DEF IInv, Alone, WriterSends
    <2>4. QED
        BY <2>1, <2>2, <2>3 DEF IInv
<1>3. QED
    BY <1>1, <1>2

\* A message is given up: the connection ends with it.
LEMMA DropStep ==
    ASSUME IInv, HandshakeEnds \/ WriterStalls \/ WriterFails \/ WriterStops
    PROVE  IInv'
<1>1. PICK s \in Senders :
          /\ out' = [out EXCEPT ![s] = Idle]
          /\ UNCHANGED <<mtu, step, offers, sent, stream, read, rx, got, cut>>
          /\ open' = FALSE
          /\ \/ /\ s = "handler" /\ phase \in {"handshake", "refusing"} /\ phase' = "closed"
                /\ UNCHANGED <<thread, stop, next>>
             \/ /\ s = "writer" /\ thread \in {"loop", "sending"} /\ thread' = "over"
                /\ stop' = TRUE /\ next' = None /\ phase' = phase
    <2>1. CASE HandshakeEnds
        BY <2>1 DEF HandshakeEnds, Drop, Senders
    <2>2. CASE WriterStalls \/ WriterFails \/ WriterStops
        BY <2>2 DEF WriterStalls, WriterFails, WriterStops, WriterEnds, Drop, Senders
    <2>3. QED
        BY <2>1, <2>2
<1>2. /\ InStep' /\ Received' /\ Carried'
      /\ out' \in [Senders -> [msg : Message \cup {None}, n : Nat, at : Nat]]
      /\ out'[s] = Idle
      /\ \A t \in Senders \ {s} : out'[t] = out[t]
    BY <1>1, SenderSet
<1>3. TypeOK' /\ Alone'
    <2>1. CASE s = "handler"
        <3>1. out'["writer"] = out["writer"] /\ out'["handler"] = Idle
            BY <1>2, <2>1 DEF Senders
        <3>2. TypeOK'
            BY <1>1, <1>2, <2>1, <3>1 DEF IInv, TypeOK
        <3>3. Alone'
            BY <1>1, <2>1, <3>1 DEF IInv, Alone
        <3>4. QED
            BY <3>2, <3>3
    <2>2. CASE s = "writer"
        <3>1. out'["handler"] = out["handler"] /\ out'["writer"] = Idle
            BY <1>2, <2>2 DEF Senders
        <3>2. TypeOK'
            BY <1>1, <1>2, <2>2, <3>1 DEF IInv, TypeOK
        <3>3. Alone'
            BY <1>1, <2>2, <3>1 DEF IInv, Alone
        <3>4. QED
            BY <3>2, <3>3
    <2>3. QED
        BY <2>1, <2>2 DEF Senders
<1>4. QED
    BY <1>2, <1>3 DEF IInv

\* The writer takes the next message.
LEMMA TakeStep ==
    ASSUME IInv, WriterTakes
    PROVE  IInv'
<1> DEFINE r == [msg |-> next, n |-> 0, at |-> 0]
<1>1. next \in Message /\ next # None /\ out["writer"] = Idle
    BY DEF WriterTakes, IInv, TypeOK
<1>2. /\ r.msg \in Message /\ r.n = 0 /\ r.at = 0 /\ r = [msg |-> r.msg, n |-> 0, at |-> 0]
      /\ r # Idle
      /\ out' = [out EXCEPT !["writer"] = r] /\ "writer" \in Senders /\ "handler" \in Senders \ {"writer"}
    BY <1>1 DEF WriterTakes, Begin, Senders, Idle
<1> HIDE DEF r
<1>3. /\ InStep' /\ Received' /\ Carried'
      /\ out' \in [Senders -> [msg : Message \cup {None}, n : Nat, at : Nat]]
      /\ out'["handler"] = out["handler"] /\ out'["writer"] = r
    BY <1>1, <1>2, SenderSet DEF WriterTakes
<1>4. TypeOK'
    BY <1>2, <1>3 DEF IInv, TypeOK, WriterTakes
<1>5. Alone'
    BY <1>3 DEF IInv, Alone, WriterTakes
<1>6. QED
    BY <1>3, <1>4, <1>5 DEF IInv

\* The handler registers, leaves or joins, or the hub offers or cuts.
LEMMA ControlStep ==
    ASSUME IInv,
           \/ Registers \/ Leaves \/ Joins
           \/ \E m \in {Pong, SocksData, FullFrame(MinMtu), FullFrame(mtu)} : Offer(m) \/ Cut(m)
    PROVE  IInv'
<1>0. ASSUME NEW m \in {Pong, SocksData, FullFrame(MinMtu), FullFrame(mtu)} PROVE m \in Message
    <2>1. mtu \in MinMtu..MaxMtu /\ MinMtu \in MinMtu..MaxMtu
        BY StreamAssumption DEF IInv, TypeOK, MinMtu, MaxMtu
    <2>2. QED
        BY <2>1, Messages
<1>1. UNCHANGED <<sent, stream, read, rx, got, out>> /\ (open' => open)
    BY DEF Registers, Leaves, Joins, Offer, Cut
<1>2. InStep' /\ Received' /\ Carried'
    BY <1>1, NothingSent
<1>3. Alone'
    BY <1>1 DEF IInv, Alone, Registers, Leaves, Joins, Offer, Cut
<1>4. TypeOK'
    <2>1. CASE Registers
        BY <2>1 DEF IInv, TypeOK, Alone, Registers
    <2>2. CASE Leaves
        BY <2>2 DEF IInv, TypeOK, Leaves
    <2>3. CASE Joins
        BY <2>3 DEF IInv, TypeOK, Joins
    <2>4. ASSUME NEW m \in {Pong, SocksData, FullFrame(MinMtu), FullFrame(mtu)}, Offer(m)
          PROVE  TypeOK'
        <3>1. m \in Message
            BY <1>0
        <3>2. offers' \in 0..MaxOffers
            BY <2>4, StreamAssumption DEF IInv, TypeOK, Offer
        <3>3. QED
            BY <2>4, <3>1, <3>2 DEF IInv, TypeOK, Offer
    <2>5. ASSUME NEW m \in {Pong, SocksData, FullFrame(MinMtu), FullFrame(mtu)}, Cut(m)
          PROVE  TypeOK'
        BY <2>5 DEF IInv, TypeOK, Cut
    <2>6. QED
        BY <2>1, <2>2, <2>3, <2>4, <2>5
<1>5. QED
    BY <1>2, <1>3, <1>4 DEF IInv

\* The receiver's steps, and the loss of the connection.
LEMMA ReceiveStep ==
    ASSUME IInv, Receiver \/ Lost
    PROVE  IInv'
<1>1. UNCHANGED <<mtu, phase, step, thread, stop, next, offers, out, cut>>
    BY DEF Receiver, Reads, ReadsOn, ReadsMessage, GivesUp, Lost, sending
<1>2. Alone'
    BY <1>1 DEF IInv, Alone
<1>3. CASE ReadsOn
    <2>1. UNCHANGED <<sent, stream, rx, got, out, open>> /\ read' \in 0..Len(stream')
        BY <1>3 DEF ReadsOn, sending, IInv, TypeOK
    <2>2. InStep' /\ Received' /\ Carried'
        BY <2>1, NothingSent
    <2>3. TypeOK'
        BY <1>1, <2>1 DEF IInv, TypeOK
    <2>4. QED
        BY <1>2, <2>2, <2>3 DEF IInv
<1>4. CASE ReadsMessage
    <2>1. InStep' /\ Received' /\ stream' \in Seq([n : Nat \ {0}, at : Nat \ {0}])
        BY <1>4, TakeInStep
    <2>2. got' = Append(got, sent[Len(got) + 1]) /\ Len(got) < Len(sent)
        BY <1>4, TakesNext
    <2>3. got' \in Seq(Message \cup {Garbled})
        <3>1. sent \in Seq(Message) /\ got \in Seq(Message \cup {Garbled})
            BY DEF IInv, TypeOK
        <3>2. Len(got) + 1 \in 1..Len(sent)
            BY <3>1, <2>2
        <3>3. sent[Len(got) + 1] \in Message
            BY <3>1, <3>2
        <3>4. QED
            BY <3>1, <3>3, <2>2
    <2>4. UNCHANGED <<sent, out, open, rx>> /\ read' = 0
        BY <1>4 DEF ReadsMessage, sending
    <2>5. Carried'
        BY <2>4 DEF IInv, Carried, Parts
    <2>6. read' \in 0..Len(stream')
        BY <2>1, <2>4
    <2>7. TypeOK'
        BY <1>1, <2>1, <2>3, <2>4, <2>6 DEF IInv, TypeOK
    <2>8. QED
        BY <1>2, <2>1, <2>5, <2>7 DEF IInv
<1>5. CASE GivesUp
    <2>1. UNCHANGED <<sent, got, out, open>> /\ rx' = "over" /\ stream' = <<>> /\ read' = 0
        BY <1>5 DEF GivesUp, sending
    <2>2. InStep' /\ Received' /\ Carried'
        BY <2>1 DEF IInv, InStep, Received, Carried, Parts
    <2>3. TypeOK'
        BY <1>1, <2>1 DEF IInv, TypeOK
    <2>4. QED
        BY <1>2, <2>2, <2>3 DEF IInv
<1>6. CASE Lost
    <2>1. /\ InStep' /\ Received' /\ stream' \in Seq([n : Nat \ {0}, at : Nat \ {0}])
          /\ Len(stream') = read
        BY <1>6, LostInStep
    <2>2. UNCHANGED <<sent, got, out, rx, read>> /\ open' = FALSE
        BY <1>6 DEF Lost, sending
    <2>3. Carried'
        BY <2>2 DEF IInv, Carried, Parts
    <2>4. read' \in 0..Len(stream')
        BY <2>1, <2>2 DEF IInv, TypeOK
    <2>5. TypeOK'
        BY <1>1, <2>1, <2>2, <2>4 DEF IInv, TypeOK
    <2>6. QED
        BY <1>2, <2>1, <2>3, <2>5 DEF IInv
<1>7. QED
    BY <1>3, <1>4, <1>5, <1>6 DEF Receiver, Reads

LEMMA IInvInit == Init => IInv
<1> SUFFICES ASSUME Init PROVE IInv
    OBVIOUS
<1>1. TypeOK
    <2>1. /\ out \in [Senders -> [msg : Message \cup {None}, n : Nat, at : Nat]]
          /\ out["writer"] = Idle
        BY DEF Init, Idle, Senders
    <2>2. sent \in Seq(Message) /\ got \in Seq(Message \cup {Garbled})
        BY DEF Init
    <2>3. stream \in Seq([n : Nat \ {0}, at : Nat \ {0}]) /\ read \in 0..Len(stream)
        BY DEF Init
    <2>4. offers \in 0..MaxOffers /\ step \in 0..Len(Handshake)
        BY StreamAssumption, Messages DEF Init
    <2>5. QED
        BY <2>1, <2>2, <2>3, <2>4 DEF Init, TypeOK
<1>2. Alone /\ Carried /\ Received
    BY DEF Init, Alone, Carried, Received, Senders
<1>3. InStep
    BY IdleAt DEF Init, InStep, Known, Runs, First, Last, Quiet
<1>4. QED
    BY <1>1, <1>2, <1>3 DEF IInv

LEMMA IInvStep == IInv /\ [Next]_vars => IInv'
<1> SUFFICES ASSUME IInv, [Next]_vars PROVE IInv'
    OBVIOUS
<1>1. CASE SendsHandshake \/ SendsRefusal
    BY <1>1, BeginStep
<1>2. CASE HandlerSends \/ WriterSends
    BY <1>2, PutStep
<1>3. CASE HandshakeEnds \/ WriterStalls \/ WriterFails \/ WriterStops
    BY <1>3, DropStep
<1>4. CASE WriterTakes
    BY <1>4, TakeStep
<1>5. CASE Registers \/ Leaves \/ Joins \/ Hub
    BY <1>5, ControlStep DEF Hub
<1>6. CASE Receiver \/ Lost
    BY <1>6, ReceiveStep
<1>7. CASE UNCHANGED vars
    <2>1. InStep' /\ Received' /\ Carried'
        BY <1>7, NothingSent DEF vars
    <2>2. TypeOK' /\ Alone'
        BY <1>7 DEF IInv, TypeOK, Alone, vars
    <2>3. QED
        BY <2>1, <2>2 DEF IInv
<1>8. QED
    BY <1>1, <1>2, <1>3, <1>4, <1>5, <1>6, <1>7 DEF Next, Handler, Writer, WriterMoves

\* The inductive invariant: at most one thread sends, what is on the stream is
\* the units of the messages sent, in order, and the receiver has a prefix.
THEOREM Invariance == Spec => []IInv
BY IInvInit, IInvStep, PTL DEF Spec

\* The variables have their types, and the writer thread holds a message
\* exactly while it sends.
THEOREM TypeCorrect == Spec => []TypeOK
BY Invariance, PTL DEF IInv

-----------------------------------------------------------------------------
(* The framing implements MessageChannel                                   *)

LEMMA PutSends ==
    ASSUME IInv, NEW s \in Senders, Put(s), UNCHANGED <<got, open>>
    PROVE  Channel!Send \/ UNCHANGED <<sent, got, open>>
<1>1. CASE out[s].at = 0
    <2>1. /\ Len(sent') = Len(sent) + 1
          /\ \A i \in 1..Len(sent) : sent'[i] = sent[i]
        BY <1>1, PutFacts
    <2>2. DOMAIN sent = 1..Len(sent)
        BY DEF IInv, TypeOK
    <2>3. QED
        BY <2>1, <2>2 DEF Channel!Send, Put
<1>2. CASE out[s].at # 0
    BY <1>2 DEF Put
<1>3. QED
    BY <1>1, <1>2

LEMMA StepMaps ==
    ASSUME IInv, [Next]_vars
    PROVE  Channel!ChannelNext \/ UNCHANGED <<sent, got, open>>
<1>1. CASE HandlerSends
    <2>1. "handler" \in Senders
        BY DEF Senders
    <2>2. QED
        BY <1>1, <2>1, PutSends DEF HandlerSends, Channel!ChannelNext
<1>2. CASE WriterSends
    <2>1. "writer" \in Senders
        BY DEF Senders
    <2>2. QED
        BY <1>2, <2>1, PutSends DEF WriterSends, Channel!ChannelNext
<1>3. CASE HandshakeEnds \/ WriterStalls \/ WriterFails \/ WriterStops \/ Leaves \/ Lost
    BY <1>3 DEF HandshakeEnds, WriterStalls, WriterFails, WriterStops, WriterEnds, Leaves, Lost,
                sending, Channel!Break, Channel!ChannelNext
<1>4. CASE ReadsMessage
    BY <1>4, TakesNext DEF ReadsMessage, sending, Channel!Receive, Channel!ChannelNext
<1>5. CASE SendsHandshake \/ SendsRefusal \/ Registers \/ Joins \/ Hub \/ WriterTakes
    BY <1>5 DEF SendsHandshake, SendsRefusal, Registers, Joins, Hub, Offer, Cut, WriterTakes
<1>6. CASE ReadsOn \/ GivesUp
    BY <1>6 DEF ReadsOn, GivesUp, sending
<1>7. CASE UNCHANGED vars
    BY <1>7 DEF vars
<1>8. QED
    BY <1>1, <1>2, <1>3, <1>4, <1>5, <1>6, <1>7
    DEF Next, Handler, Writer, WriterMoves, Receiver, Reads

\* Whatever counts send and recv return, wherever a buffer fills, a send stalls
\* or the connection is lost: the messages received are the messages sent,
\* whole and in order, and nothing is sent after the first error.
THEOREM FramingIsAChannel == Spec => FramedChannel
<1>1. Init => Channel!ChannelInit
    BY DEF Init, Channel!ChannelInit
<1>2. IInv /\ [Next]_vars => [Channel!ChannelNext]_<<sent, got, open>>
    BY StepMaps
<1>3. QED
    BY <1>1, <1>2, Invariance, PTL DEF Spec, FramedChannel, Channel!ChannelSpec

-----------------------------------------------------------------------------
(* The handshake comes first                                               *)

\* What the handler has sent at each of its points, and that AUTH_FAIL is its
\* last word; the writer never sends it.
Begun ==
    /\ \A i \in 1..Len(sent) : i <= 3 => sent[i] \in {Handshake[i], AuthFail}
    /\ \A i \in 1..Len(sent) : sent[i] = AuthFail => i = Len(sent) /\ phase \in {"refusing", "closed"}
    /\ phase = "handshake" =>
          /\ out["handler"] = Idle => Len(sent) = step
          /\ out["handler"] # Idle =>
                /\ step \in 1..3
                /\ out["handler"].msg = Handshake[step]
                /\ Len(sent) = IF out["handler"].at = 0 THEN step - 1 ELSE step
    /\ phase = "refusing" /\ out["handler"] # Idle =>
          /\ out["handler"].msg = AuthFail
          /\ out["handler"].at = 0 => Len(sent) = 1 /\ sent[1] # AuthFail
    /\ phase \in {"serving", "leaving"} => Len(sent) >= 3
    /\ phase = "closed" => thread \in {"off", "over"}
    /\ next # None => next # AuthFail
    /\ thread = "sending" => out["writer"].msg # AuthFail

LEMMA NotRefusals ==
    /\ \A i \in 1..3 : Handshake[i] # AuthFail
    /\ Pong # AuthFail /\ SocksData # AuthFail
    /\ \A k : FullFrame(k) # AuthFail
BY DEF Handshake, AuthFail, Pong, SocksData, FullFrame

\* A unit of the handler's.
LEMMA BegunHandlerSends ==
    ASSUME IInv, Begun, HandlerSends
    PROVE  Begun'
<1> DEFINE m == out["handler"].msg
           a == out["handler"].at
           n == IF a = 0 THEN Len(sent) + 1 ELSE Len(sent)
<1>1. /\ m \in Message /\ a \in Nat /\ a < Parts(m)
      /\ sent' = IF a = 0 THEN Append(sent, m) ELSE sent
      /\ Len(sent') = n /\ sent'[n] = m
      /\ \A i \in 1..Len(sent) : sent'[i] = sent[i]
      /\ out' = [out EXCEPT !["handler"] = Sent("handler")]
      /\ Sent("handler") = IF a + 1 = Parts(m) THEN Idle ELSE [msg |-> m, n |-> n, at |-> a + 1]
      /\ out'["writer"] = Idle
    BY PutFacts DEF HandlerSends, Senders
<1>2. /\ UNCHANGED <<phase, step, thread, next>>
      /\ out["handler"] # Idle
      /\ phase \in {"handshake", "refusing"} /\ thread = "off"
    BY DEF HandlerSends, Put, IInv, Alone
<1>3. Len(sent) \in Nat /\ out'["handler"] = Sent("handler") /\ step \in Nat
    BY <1>1 DEF IInv, TypeOK, Senders
<1>4. out'["handler"] # Idle => out'["handler"].msg = m /\ out'["handler"].at = a + 1
    BY <1>1, <1>3
<1> HIDE DEF m, a
<1>5. CASE phase = "handshake"
    <2>1. /\ step \in 1..3 /\ m = Handshake[step]
          /\ Len(sent) = IF a = 0 THEN step - 1 ELSE step
          /\ \A i \in 1..Len(sent) : i <= 3 => sent[i] \in {Handshake[i], AuthFail}
          /\ \A i \in 1..Len(sent) : sent[i] # AuthFail
        BY <1>2, <1>5 DEF Begun, m, a
    <2>2. Len(sent') = step /\ n = step
        BY <2>1, <1>1, <1>3
    <2>3. \A i \in 1..step : i = step \/ i \in 1..Len(sent)
        BY <2>1, <1>3
    <2>4. \A i \in 1..step : sent'[i] # AuthFail /\ (i <= 3 => sent'[i] \in {Handshake[i], AuthFail})
        BY <2>1, <2>2, <2>3, <1>1, NotRefusals
    <2>5. a + 1 # 0
        BY <1>1
    <2>6. QED
        BY <2>1, <2>2, <2>4, <2>5, <1>2, <1>4, <1>5 DEF Begun
<1>6. CASE phase = "refusing"
    <2>1. /\ m = AuthFail
          /\ a = 0 => Len(sent) = 1 /\ sent[1] # AuthFail
          /\ \A i \in 1..Len(sent) : i <= 3 => sent[i] \in {Handshake[i], AuthFail}
          /\ \A i \in 1..Len(sent) : sent[i] = AuthFail => i = Len(sent)
        BY <1>2, <1>6 DEF Begun, m, a
    <2>2. /\ \A i \in 1..Len(sent') : i <= 3 => sent'[i] \in {Handshake[i], AuthFail}
          /\ \A i \in 1..Len(sent') : sent'[i] = AuthFail => i = Len(sent')
        <3>1. CASE a = 0
            <4>1. Len(sent') = 2 /\ sent'[2] = AuthFail /\ sent'[1] = sent[1] /\ 1 \in 1..Len(sent)
                <5>1. Len(sent) = 1
                    BY <2>1, <3>1
                <5>2. n = 2
                    BY <5>1, <3>1
                <5>3. 1 \in 1..Len(sent)
                    BY <5>1
                <5>4. sent'[1] = sent[1]
                    BY <1>1, <5>3
                <5>5. Len(sent') = 2 /\ sent'[2] = m
                    BY <1>1, <5>2
                <5>6. QED
                    BY <5>3, <5>4, <5>5, <2>1
            <4>2. \A i \in 1..Len(sent') : i = 1 \/ i = 2
                BY <4>1
            <4>3. sent[1] \in {Handshake[1], AuthFail} /\ sent[1] # AuthFail
                BY <4>1, <2>1, <3>1
            <4>4. /\ sent'[1] \in {Handshake[1], AuthFail} /\ sent'[1] # AuthFail
                  /\ sent'[2] \in {Handshake[2], AuthFail}
                BY <4>1, <4>3
            <4>5. ASSUME NEW i \in 1..Len(sent')
                  PROVE  /\ i <= 3 => sent'[i] \in {Handshake[i], AuthFail}
                         /\ sent'[i] = AuthFail => i = Len(sent')
                <5>1. CASE i = 1
                    BY <5>1, <4>4
                <5>2. CASE i = 2
                    BY <5>2, <4>4, <4>1
                <5>3. QED
                    BY <5>1, <5>2, <4>2
            <4>6. QED
                BY <4>5
        <3>2. CASE a # 0
            BY <2>1, <3>2, <1>1
        <3>3. QED
            BY <3>1, <3>2
    <2>3. a + 1 # 0
        BY <1>1
    <2>4. QED
        BY <2>1, <2>2, <2>3, <1>2, <1>4, <1>6 DEF Begun
<1>7. QED
    BY <1>2, <1>5, <1>6

\* A unit of the writer's.
LEMMA BegunWriterSends ==
    ASSUME IInv, Begun, WriterSends
    PROVE  Begun'
<1> DEFINE m == out["writer"].msg
           a == out["writer"].at
           n == IF a = 0 THEN Len(sent) + 1 ELSE Len(sent)
<1>1. /\ m \in Message /\ a \in Nat /\ a < Parts(m)
      /\ sent' = IF a = 0 THEN Append(sent, m) ELSE sent
      /\ Len(sent') = n /\ sent'[n] = m
      /\ \A i \in 1..Len(sent) : sent'[i] = sent[i]
      /\ out' = [out EXCEPT !["writer"] = Sent("writer")]
      /\ Sent("writer") = IF a + 1 = Parts(m) THEN Idle ELSE [msg |-> m, n |-> n, at |-> a + 1]
      /\ out'["handler"] = Idle
    BY PutFacts DEF WriterSends, Senders
<1>2. /\ UNCHANGED <<phase, step, next>>
      /\ thread = "sending"
      /\ phase \notin {"handshake", "refusing"}
    BY DEF WriterSends, IInv, Alone
<1>3. Len(sent) \in Nat /\ out'["writer"] = Sent("writer") /\ phase \in {"serving", "leaving"}
    BY <1>1, <1>2 DEF IInv, TypeOK, Begun, Senders
<1>4. /\ Len(sent) >= 3 /\ m # AuthFail
      /\ \A i \in 1..Len(sent) : i <= 3 => sent[i] \in {Handshake[i], AuthFail}
      /\ \A i \in 1..Len(sent) : sent[i] # AuthFail
    BY <1>2, <1>3 DEF Begun
<1>5. thread' = "sending" => out'["writer"].msg = m
    BY <1>1, <1>3 DEF WriterSends
<1> HIDE DEF m, a
<1>6. /\ Len(sent') >= 3
      /\ \A i \in 1..Len(sent') : i \in 1..Len(sent) \/ (i = n /\ i > 3 /\ a = 0) \/ (i = n /\ a # 0)
    BY <1>1, <1>3, <1>4
<1>7. /\ \A i \in 1..Len(sent') : i <= 3 => sent'[i] \in {Handshake[i], AuthFail}
      /\ \A i \in 1..Len(sent') : sent'[i] # AuthFail
    BY <1>1, <1>3, <1>4, <1>6
<1>8. QED
    BY <1>2, <1>3, <1>4, <1>5, <1>6, <1>7 DEF Begun

LEMMA BegunStep == IInv /\ Begun /\ [Next]_vars => Begun'
<1> SUFFICES ASSUME IInv, Begun, [Next]_vars PROVE Begun'
    OBVIOUS
<1>0. /\ out \in [Senders -> [msg : Message \cup {None}, n : Nat, at : Nat]]
      /\ Len(sent) \in Nat /\ step \in Nat
      /\ "handler" \in Senders /\ "writer" \in Senders
    BY DEF IInv, TypeOK, Senders
<1>1. CASE SendsHandshake
    <2>1. /\ phase = "handshake" /\ Len(sent) = step /\ step < 3 /\ step' = step + 1
          /\ step' \in 1..3 /\ step' - 1 = step
        BY <1>0, <1>1, Messages DEF SendsHandshake, Begun
    <2>2. /\ out'["handler"].msg = Handshake[step'] /\ out'["handler"].at = 0
          /\ out'["writer"] = out["writer"]
        BY <1>0, <1>1, <2>1 DEF SendsHandshake, Begin
    <2>3. out'["handler"] # Idle
        BY <2>1, <2>2, Messages, StreamAssumption, IdleAt
    <2>4. QED
        BY <1>1, <2>1, <2>2, <2>3 DEF SendsHandshake, Begun
<1>2. CASE SendsRefusal
    <2>1. /\ phase = "handshake" /\ Len(sent) = 1 /\ phase' = "refusing"
          /\ \A i \in 1..Len(sent) : sent[i] # AuthFail
        BY <1>0, <1>2 DEF SendsRefusal, Begun
    <2>2. out'["handler"].msg = AuthFail /\ out'["writer"] = out["writer"] /\ 1 \in 1..Len(sent)
        BY <1>0, <1>2, <2>1 DEF SendsRefusal, Begin
    <2>3. QED
        BY <1>2, <2>1, <2>2 DEF SendsRefusal, Begun
<1>3. CASE HandlerSends
    BY <1>3, BegunHandlerSends
<1>4. CASE WriterSends
    BY <1>4, BegunWriterSends
<1>5. CASE HandshakeEnds
    <2>1. phase' = "closed" /\ thread' \in {"off", "over"} /\ thread' # "sending"
        BY <1>5 DEF HandshakeEnds, IInv, Alone
    <2>2. QED
        BY <1>5, <2>1 DEF HandshakeEnds, Begun
<1>6. CASE Registers
    <2>1. Len(sent) = 3 /\ phase = "handshake" /\ phase' = "serving" /\ thread' # "sending"
        BY <1>6, Messages DEF Registers, Begun
    <2>2. \A i \in 1..Len(sent) : sent[i] # AuthFail
        BY <2>1 DEF Begun
    <2>3. QED
        BY <1>6, <2>1, <2>2 DEF Registers, Begun
<1>7. CASE Leaves
    BY <1>7 DEF Leaves, Begun
<1>8. CASE Joins
    BY <1>8 DEF Joins, Begun
<1>9. CASE Hub
    BY <1>9, NotRefusals DEF Hub, Offer, Cut, Begun
<1>10. CASE WriterTakes
    <2>1. /\ out'["handler"] = out["handler"] /\ out'["writer"].msg = next
          /\ next # None /\ thread' = "sending" /\ phase # "closed" /\ phase' = phase
          /\ next' = None /\ UNCHANGED <<sent, step>>
        BY <1>0, <1>10 DEF WriterTakes, Begin, Begun
    <2>2. QED
        BY <2>1 DEF Begun
<1>11. CASE WriterStalls \/ WriterFails \/ WriterStops
    <2>1. /\ out'["handler"] = out["handler"] /\ thread' = "over" /\ next' = None
          /\ UNCHANGED <<sent, step, phase>>
        BY <1>0, <1>11 DEF WriterStalls, WriterFails, WriterStops, WriterEnds, Drop
    <2>2. QED
        BY <2>1 DEF Begun
<1>12. CASE Receiver \/ Lost
    <2>1. UNCHANGED <<out, thread, next, sent, step, phase>>
        BY <1>12 DEF Receiver, Reads, ReadsOn, ReadsMessage, GivesUp, Lost, sending
    <2>2. QED
        BY <2>1 DEF Begun
<1>13. CASE UNCHANGED vars
    BY <1>13 DEF vars, Begun
<1>14. QED
    BY <1>1, <1>2, <1>3, <1>4, <1>5, <1>6, <1>7, <1>8, <1>9, <1>10, <1>11, <1>12, <1>13
    DEF Next, Handler, Writer, WriterMoves

\* A peer receives the handshake before anything else, in its order, and
\* nothing after AUTH_FAIL: no frame of the network overtakes CONFIG_PUSH.
THEOREM HandshakeComesFirst == Spec => []HandshakeFirst
<1>1. Init => Begun
    <2> SUFFICES ASSUME Init PROVE Begun
        OBVIOUS
    <2>1. /\ Len(sent) = 0 /\ step = 0 /\ phase = "handshake" /\ thread = "off"
          /\ next = None /\ out["handler"] = Idle
        BY DEF Init, Senders
    <2>2. \A i \in 1..Len(sent) : FALSE
        BY <2>1
    <2>3. QED
        BY <2>1, <2>2 DEF Begun
<1>2. IInv /\ Begun => HandshakeFirst
    <2> SUFFICES ASSUME IInv, Begun PROVE HandshakeFirst
        OBVIOUS
    <2>1. /\ Len(got) \in Nat /\ Len(sent) \in Nat /\ DOMAIN got = 1..Len(got)
          /\ Len(got) <= Len(sent)
          /\ \A i \in 1..Len(got) : got[i] = sent[i] /\ i \in 1..Len(sent)
        BY DEF IInv, TypeOK, Received
    <2>2. QED
        BY <2>1, Messages DEF Begun, HandshakeFirst
<1>3. QED
    BY <1>1, <1>2, BegunStep, Invariance, PTL DEF Spec

\* A network of the default MTU or less loses no session to the length check:
\* the room it leaves covers the Ethernet header and the frame's own.
THEOREM DefaultMtuIsServed == Spec => []DefaultMtuFits
<1>1. Init => DefaultMtuFits
    BY DEF Init, DefaultMtuFits
<1>2. IInv /\ DefaultMtuFits /\ [Next]_vars => DefaultMtuFits'
    <2> SUFFICES ASSUME IInv, DefaultMtuFits, [Next]_vars PROVE DefaultMtuFits'
        OBVIOUS
    <2>1. ASSUME NEW m \in {Pong, SocksData, FullFrame(MinMtu), FullFrame(mtu)}, Cut(m)
          PROVE  DefaultMtuFits'
        <3>1. mtu \in MinMtu..MaxMtu
            BY StreamAssumption DEF IInv, TypeOK
        <3>2. mtu > DefaultMtu
            BY <2>1, <3>1 DEF Cut, Allowed, Pong, SocksData, FullFrame, MinMtu, MaxMtu, DefaultMtu,
                TapExtra, TapOverhead, EthernetHeader, SocksOverhead, ReadChunk, MaxSocks, MaxControl
        <3>3. QED
            BY <2>1, <3>2 DEF Cut, DefaultMtuFits
    <2>2. CASE UNCHANGED <<mtu, cut>>
        BY <2>2 DEF DefaultMtuFits
    <2>3. QED
        BY <2>1, <2>2
        DEF Next, Handler, Hub, Writer, WriterMoves, Receiver, Reads, vars, sending, Offer, SendsHandshake,
            SendsRefusal, HandlerSends, Registers, HandshakeEnds, Leaves, Joins, WriterTakes,
            WriterSends, WriterEnds, WriterStalls, WriterFails, WriterStops, ReadsOn, ReadsMessage,
            GivesUp, Lost
<1>3. QED
    BY <1>1, <1>2, Invariance, PTL DEF Spec
=============================================================================
