-------------------------- MODULE ApiNonceCacheProofs --------------------------
(***************************************************************************)
(* Proofs about ApiNonceCache for every size of the cache, every window    *)
(* and any number of requests.  That a nonce is not accepted twice rests   *)
(* on Kept: an executed request that could still be repeated has its nonce *)
(* in the cache, or more requests than the cache holds were executed since *)
(* its time.  Kept survives a full cache because its slots hold different  *)
(* nonces, hence different executed requests, none older than the one that *)
(* is given up.                                                            *)
(***************************************************************************)
EXTENDS ApiNonceCache, FiniteSetTheorems, TLAPS

\* No two slots in use hold one nonce, whether they have expired or not.
SlotsDiffer ==
    \A i, j \in Slots :
        cache[i].active /\ cache[j].active /\ cache[i].nonce = cache[j].nonce => i = j

\* Times of execution: since the clock was set back none is in the future, and
\* none is after the request has become too old.
Ordered ==
    /\ \A i \in DOMAIN log : base < i => log[i].at <= clock
    /\ \A i \in DOMAIN log : log[i].at <= log[i].req.stamp + Skew

\* Requests executed at time t or later, of the first n.
Since(n, t) == {k \in 1..n : log[k].at >= t}

InCache(r) ==
    \E s \in Slots : cache[s].active /\ cache[s].seen = r.at /\ cache[s].nonce = r.req.nonce

Kept ==
    \A i \in DOMAIN log :
        base < i /\ clock <= log[i].at + Skew
        => InCache(log[i]) \/ Cardinality(Since(Len(log), log[i].at)) > Size

Inv == TypeOK /\ SlotsDiffer /\ Ordered /\ Kept

-----------------------------------------------------------------------------

LEMMA InitInv == Init => Inv /\ NonceSpaced /\ ReplayIsRepeated
<1> SUFFICES ASSUME Init PROVE Inv /\ NonceSpaced /\ ReplayIsRepeated
  OBVIOUS
<1>1. TypeOK /\ SlotsDiffer
  BY DEF Init, Empty, TypeOK, SlotsDiffer, Entry, Quiet
<1>2. log = <<>> /\ answer.code = "none"
  BY DEF Init, Quiet
<1>3. QED
  BY <1>1, <1>2 DEF Inv, Ordered, Kept, NonceSpaced, ReplayIsRepeated

\* Times and stamps of executed requests are numbers.
LEMMA LogTypes ==
    ASSUME TypeOK
    PROVE  /\ DOMAIN log = 1..Len(log) /\ Len(log) \in Nat
           /\ \A k \in DOMAIN log : log[k].at \in Nat /\ log[k].req.stamp \in Nat
<1> DEFINE Logged == [req : Request, at : Nat \ {0}]
<1>1. log \in Seq(Logged)
  BY DEF TypeOK
<1>2. /\ DOMAIN log = 1..Len(log) /\ Len(log) \in Nat
      /\ \A k \in DOMAIN log : log[k] \in Logged
  <2> HIDE DEF Logged
  <2> QED
    BY <1>1
<1>3. \A e \in Logged : e.at \in Nat /\ e.req.stamp \in Nat
  BY DEF Request, Times
<1>4. QED
  BY <1>2, <1>3

\* Slots that are swept are those that have expired.
LEMMA SweptFacts ==
    ASSUME TypeOK, NEW S
    PROVE  /\ Swept(S) \in [Slots -> Entry]
           /\ \A s \in Slots : /\ Swept(S)[s].active => cache[s].active
                               /\ Swept(S)[s].seen = cache[s].seen
                               /\ Swept(S)[s].nonce = cache[s].nonce
                               /\ Live(s) => Swept(S)[s] = cache[s]
                               /\ s \in S /\ Swept(S)[s].active => Live(s)
BY DEF Swept, TypeOK, Entry, Freed, Live

\* A request that is appended does not change what was counted before.
LEMMA SinceGrows ==
    ASSUME TypeOK, NEW r \in Request, log' = Append(log, [req |-> r, at |-> clock]), NEW t \in Nat
    PROVE  /\ IsFiniteSet(Since(Len(log), t)) /\ IsFiniteSet(Since(Len(log), t)')
           /\ Cardinality(Since(Len(log), t)) \in Nat
           /\ Cardinality(Since(Len(log), t)') \in Nat
           /\ Cardinality(Since(Len(log), t)') >= Cardinality(Since(Len(log), t))
           /\ t <= clock => Cardinality(Since(Len(log), t)') = Cardinality(Since(Len(log), t)) + 1
<1> DEFINE S == Since(Len(log), t)
<1> DEFINE T == Since(Len(log), t)'
<1>1. log \in Seq([req : Request, at : Nat \ {0}]) /\ clock \in Nat \ {0}
  BY DEF TypeOK
<1>2. IsFiniteSet(1..Len(log)) /\ S \subseteq 1..Len(log)
  BY <1>1, FS_Interval DEF Since
<1>3. IsFiniteSet(S)
  BY <1>2, FS_Subset
<1>4. Len(log') = Len(log) + 1 /\ log'[Len(log) + 1].at = clock
      /\ \A k \in 1..Len(log) : log'[k] = log[k]
  BY <1>1
<1>5. T = IF t <= clock THEN S \cup {Len(log) + 1} ELSE S
  BY <1>1, <1>4 DEF Since
<1>6. Len(log) + 1 \notin S
  BY <1>1 DEF Since
<1>7. Cardinality(S) \in Nat
  BY <1>3, FS_CardinalityType
<1>8. CASE t <= clock
  <2>1. T = S \cup {Len(log) + 1}
    BY <1>5, <1>8
  <2>2. IsFiniteSet(S \cup {Len(log) + 1})
        /\ Cardinality(S \cup {Len(log) + 1}) = Cardinality(S) + 1
    BY <1>3, <1>6, FS_AddElement
  <2>3. IsFiniteSet(T) /\ Cardinality(T) = Cardinality(S) + 1
    BY <2>1, <2>2, Zenon
  <2>4. QED
    BY <1>3, <1>7, <2>3
<1>9. CASE ~(t <= clock)
  <2>1. T = S
    BY <1>5, <1>9
  <2>2. IsFiniteSet(T) /\ Cardinality(T) = Cardinality(S)
    BY <1>3, <2>1, Zenon
  <2>3. QED
    BY <1>3, <1>7, <1>9, <2>2
<1>10. QED
  BY <1>8, <1>9

\* If all slots are live and none is older than t, the cache's size many
\* requests were executed at t or later.
LEMMA FullCache ==
    ASSUME TypeOK, SlotsDiffer, NEW t \in Nat,
           \A s \in Slots : cache[s].active /\ cache[s].seen >= t
    PROVE  Cardinality(Since(Len(log), t)) >= Size
<1> DEFINE T == Since(Len(log), t)
<1> DEFINE f == [s \in Slots |-> CHOOSE k \in DOMAIN log : log[k].req.nonce = cache[s].nonce
                                                         /\ log[k].at = cache[s].seen]
<1>1. log \in Seq([req : Request, at : Nat \ {0}])
  BY DEF TypeOK
<1>2. \A s \in Slots : /\ f[s] \in DOMAIN log /\ log[f[s]].req.nonce = cache[s].nonce
                       /\ log[f[s]].at = cache[s].seen
  BY DEF TypeOK
<1>3. f \in [Slots -> T]
  <2>1. DOMAIN log = 1..Len(log)
    BY LogTypes
  <2>2. \A s \in Slots : f[s] \in T
    BY <1>2, <2>1 DEF Since
  <2>3. QED
    BY <2>2
<1>4. IsFiniteSet(1..Len(log)) /\ T \subseteq 1..Len(log)
  BY <1>1, FS_Interval DEF Since
<1>5. IsFiniteSet(T)
  BY <1>4, FS_Subset
<1>6. IsFiniteSet(Slots) /\ Cardinality(Slots) = Size
  BY CacheAssumption, FS_Interval DEF Slots
<1>7. Cardinality(T) \in Nat
  BY <1>5, FS_CardinalityType
<1>8. ASSUME Cardinality(T) < Size PROVE FALSE
  <2>1. PICK x, y \in Slots : x # y /\ f[x] = f[y]
    <3> HIDE DEF f, T
    <3> QED
      BY <1>3, <1>5, <1>6, <1>8, FS_PigeonHole
  <2>2. cache[x].nonce = cache[y].nonce
    BY <1>2, <2>1
  <2>3. QED
    BY <2>1, <2>2 DEF SlotsDiffer
<1>9. QED
  BY <1>7, <1>8, CacheAssumption

-----------------------------------------------------------------------------
(* Steps                                                                   *)

LEMMA ExecuteKept ==
    ASSUME Inv, NEW r \in Request, Execute(r)
    PROVE  Inv'
<1> USE DEF Inv
<1>1. log \in Seq([req : Request, at : Nat \ {0}]) /\ clock \in Nat \ {0} /\ clock' = clock
      /\ base' = base /\ base \in 0..Len(log) /\ Skew \in Nat /\ Size \in Nat
  BY CacheAssumption DEF TypeOK, Execute
<1>2. PICK i \in Slots :
         /\ Target(i)
         /\ cache' = [Swept(Slots) EXCEPT ![i] = [active |-> TRUE, seen |-> clock, nonce |-> r.nonce]]
  BY DEF Execute
<1>3. log' = Append(log, [req |-> r, at |-> clock])
  BY DEF Execute
<1>4. /\ Len(log') = Len(log) + 1 /\ DOMAIN log' = 1..(Len(log) + 1)
      /\ log' \in Seq([req : Request, at : Nat \ {0}])
      /\ log'[Len(log) + 1] = [req |-> r, at |-> clock]
      /\ \A k \in DOMAIN log : log'[k] = log[k]
  BY <1>1, <1>3
<1>5. /\ cache'[i] = [active |-> TRUE, seen |-> clock, nonce |-> r.nonce]
      /\ \A s \in Slots \ {i} : cache'[s] = Swept(Slots)[s]
      /\ cache' \in [Slots -> Entry]
  <2>1. [active |-> TRUE, seen |-> clock, nonce |-> r.nonce] \in Entry
    BY <1>1 DEF Entry, Request
  <2>2. QED
    BY <1>2, <2>1, SweptFacts
<1>6. TypeOK'
  <2>1. \A s \in Slots : cache'[s].active =>
          \E k \in DOMAIN log' : log'[k].req.nonce = cache'[s].nonce /\ log'[k].at = cache'[s].seen
    <3>1. ASSUME NEW s \in Slots \ {i}, cache'[s].active
          PROVE  \E k \in DOMAIN log' : log'[k].req.nonce = cache'[s].nonce
                                       /\ log'[k].at = cache'[s].seen
      <4>1. cache[s].active /\ cache'[s].seen = cache[s].seen /\ cache'[s].nonce = cache[s].nonce
        BY <1>5, <3>1, SweptFacts
      <4>2. PICK k \in DOMAIN log : log[k].req.nonce = cache[s].nonce /\ log[k].at = cache[s].seen
        BY <4>1 DEF TypeOK
      <4>3. k \in DOMAIN log'
        BY <1>1, <1>4
      <4>4. QED
        BY <1>4, <4>1, <4>2, <4>3
    <3>2. Len(log) + 1 \in DOMAIN log'
      BY <1>1, <1>4
    <3>3. QED
      BY <1>4, <1>5, <3>1, <3>2
  <2>2. answer' \in [code : {"none", "refused", "replay", "done"}, nonce : Nonces \cup {None}]
    BY DEF Execute, Request
  <2>3. QED
    BY <1>1, <1>4, <1>5, <2>1, <2>2 DEF TypeOK
<1>7. SlotsDiffer'
  <2>1. ASSUME NEW s \in Slots \ {i}, cache'[s].active
        PROVE  cache'[s].nonce # r.nonce /\ cache[s].active /\ cache'[s].nonce = cache[s].nonce
    <3>1. Live(s) /\ cache'[s] = cache[s]
      BY <1>5, <2>1, SweptFacts
    <3>2. QED
      BY <3>1 DEF Execute, Holds, Live
  <2>2. QED
    BY <1>5, <2>1 DEF SlotsDiffer
<1>8. Ordered'
  <2>1. clock <= r.stamp + Skew /\ r.stamp \in Nat
    BY <1>1 DEF Execute, Timely, Request, Times
  <2>2. \A k \in DOMAIN log' : k = Len(log) + 1 \/ (k \in DOMAIN log /\ log'[k] = log[k])
    BY <1>1, <1>4, SMTT(30)
  <2>3. (Len(log) + 1 \in DOMAIN log') /\ log'[Len(log) + 1].at <= clock
        /\ log'[Len(log) + 1].at <= log'[Len(log) + 1].req.stamp + Skew
    BY <1>1, <1>4, <2>1
  <2>4. \A k \in DOMAIN log' : /\ base < k => log'[k].at <= clock
                               /\ log'[k].at <= log'[k].req.stamp + Skew
    BY <2>2, <2>3 DEF Ordered
  <2>5. QED
    BY <1>1, <2>4 DEF Ordered
<1>9. Kept'
  <2> SUFFICES ASSUME NEW j \in DOMAIN log', base < j, clock <= log'[j].at + Skew,
                      ~(Cardinality(Since(Len(log), log[j].at)') > Size)
               PROVE  InCache(log[j])'
    BY <1>1 DEF Kept
  <2>1. CASE j = Len(log) + 1
    BY <1>4, <1>5, <2>1 DEF InCache
  <2>2. CASE j \in DOMAIN log
    <3> DEFINE t == log[j].at
    <3>1. log'[j] = log[j] /\ t \in Nat /\ t <= clock
      <4>1. log[j].at \in Nat /\ log[j].req.stamp \in Nat
        BY <2>2, LogTypes
      <4>2. QED
        BY <1>4, <2>2, <4>1 DEF Ordered
    <3>2. /\ Cardinality(Since(Len(log), t)) \in Nat
          /\ Cardinality(Since(Len(log), t)) < Size
      <4>1. UNCHANGED t
        BY <3>1
      <4>2. Cardinality(Since(Len(log), t)') = Cardinality(Since(Len(log), t)) + 1
            /\ Cardinality(Since(Len(log), t)) \in Nat
        BY <1>3, <3>1, <4>1, SinceGrows
      <4>3. QED
        BY <1>1, <4>2
    <3>3. PICK s \in Slots : cache[s].active /\ cache[s].seen = t /\ cache[s].nonce = log[j].req.nonce
      BY <1>1, <2>2, <3>1, <3>2, SMTT(30) DEF Kept, InCache
    <3>4. Live(s)
      BY <1>1, <3>1, <3>3 DEF Live, Expired
    <3>5. s # i
      <4> SUFFICES ASSUME s = i PROVE FALSE
        OBVIOUS
      <4>1. \A x \in Slots : Live(x) /\ cache[x].seen >= t
        BY <1>2, <3>3, <3>4 DEF Target, First, Oldest, TypeOK, Entry
      <4>2. Cardinality(Since(Len(log), t)) >= Size
        BY <3>1, <4>1, FullCache DEF Live
      <4>3. QED
        BY <1>1, <3>2, <4>2
    <3>6. cache'[s] = cache[s]
      BY <1>5, <3>4, <3>5, SweptFacts
    <3>7. QED
      BY <3>1, <3>3, <3>6 DEF InCache
  <2>3. QED
    BY <1>1, <1>4, <2>1, <2>2
<1>10. QED
  BY <1>6, <1>7, <1>8, <1>9

\* Two requests with one nonce: the earlier one is no longer in the cache,
\* although it is not old enough, so the cache was overrun.
LEMMA ExecuteSpaced ==
    ASSUME Inv, NonceSpaced, NEW r \in Request, Execute(r)
    PROVE  NonceSpaced'
<1>1. /\ TypeOK /\ clock \in Nat /\ Skew \in Nat /\ base' = base
      /\ DOMAIN log = 1..Len(log) /\ Len(log) \in Nat
      /\ \A k \in DOMAIN log : log[k].at \in Nat
  BY CacheAssumption, LogTypes DEF Inv, TypeOK, Execute
<1>2. /\ DOMAIN log' = 1..(Len(log) + 1)
      /\ log'[Len(log) + 1] = [req |-> r, at |-> clock]
      /\ \A k \in DOMAIN log : log'[k] = log[k]
  BY DEF Inv, TypeOK, Execute
<1> SUFFICES ASSUME NEW i \in DOMAIN log', NEW j \in DOMAIN log', base < i, i < j,
                    log'[i].req.nonce = log'[j].req.nonce,
                    log'[j].at <= log'[i].at + Skew
             PROVE  Overrun(i, j)'
  BY <1>1 DEF NonceSpaced
<1>3. i \in DOMAIN log /\ log'[i] = log[i] /\ i \in Nat /\ j \in Nat
  BY <1>1, <1>2
<1>4. \A k \in 1..(j - 1) : log'[k] = log[k]
  BY <1>1, <1>2
<1>5. {k \in 1..(j - 1) : log'[k].at >= log'[i].at} = {k \in 1..(j - 1) : log[k].at >= log[i].at}
  BY <1>3, <1>4
<1>6. Overrun(i, j)' = Overrun(i, j)
  BY <1>5, Zenon DEF Overrun
<1>7. CASE j \in DOMAIN log
  <2>1. log'[j] = log[j]
    BY <1>2, <1>7
  <2>2. QED
    BY <1>3, <1>6, <1>7, <2>1 DEF NonceSpaced
<1>8. CASE j = Len(log) + 1
  <2>1. log[i].req.nonce = r.nonce /\ clock <= log[i].at + Skew
    BY <1>2, <1>3, <1>8
  <2>2. ~InCache(log[i])
    <3> SUFFICES ASSUME NEW s \in Slots, cache[s].active, cache[s].seen = log[i].at,
                        cache[s].nonce = log[i].req.nonce
                 PROVE  FALSE
      BY DEF InCache
    <3>1. Live(s)
      BY <1>1, <1>3, <2>1 DEF Live, Expired
    <3>2. QED
      BY <2>1, <3>1 DEF Execute, Holds
  <2>3. Cardinality(Since(Len(log), log[i].at)) > Size
    BY <1>3, <2>1, <2>2 DEF Inv, Kept
  <2>4. j - 1 = Len(log)
    BY <1>1, <1>8
  <2>5. QED
    BY <1>6, <2>3, <2>4 DEF Overrun, Since
<1>9. QED
  BY <1>1, <1>2, <1>7, <1>8

\* Steps that execute nothing: some expired entries may be given up, and the
\* clock advances or is set back.
LEMMA OtherSteps ==
    ASSUME Inv, NonceSpaced, NEW S, cache' = Swept(S), log' = log,
           clock' \in Nat \ {0}, base' \in 0..Len(log),
           answer' \in [code : {"none", "refused", "replay", "done"}, nonce : Nonces \cup {None}],
           (base' = base /\ clock <= clock') \/ base' = Len(log)
    PROVE  Inv' /\ NonceSpaced'
<1>1. /\ TypeOK /\ clock \in Nat /\ Skew \in Nat /\ base \in 0..Len(log)
      /\ DOMAIN log = 1..Len(log) /\ Len(log) \in Nat
      /\ \A k \in DOMAIN log : log[k].at \in Nat /\ log[k].req.stamp \in Nat
  BY CacheAssumption, LogTypes DEF Inv, TypeOK
<1>2. base <= base'
  BY <1>1
<1>3. TypeOK'
  <2>1. ASSUME NEW s \in Slots, cache'[s].active
        PROVE  \E k \in DOMAIN log : log[k].req.nonce = cache'[s].nonce /\ log[k].at = cache'[s].seen
    <3>1. cache[s].active /\ cache'[s].seen = cache[s].seen /\ cache'[s].nonce = cache[s].nonce
      BY <1>1, <2>1, SweptFacts
    <3>2. QED
      BY <1>1, <3>1 DEF TypeOK
  <2>2. cache' \in [Slots -> Entry]
    BY <1>1, SweptFacts
  <2>3. log' \in Seq([req : Request, at : Nat \ {0}]) /\ base' \in 0..Len(log')
    BY <1>1 DEF TypeOK
  <2>4. \A s \in Slots : cache'[s].active =>
          \E k \in DOMAIN log' : log'[k].req.nonce = cache'[s].nonce /\ log'[k].at = cache'[s].seen
    BY <2>1
  <2>5. QED
    BY <2>2, <2>3, <2>4 DEF TypeOK
<1>4. SlotsDiffer'
  <2>1. \A s \in Slots : cache'[s].active => cache[s].active /\ cache'[s].nonce = cache[s].nonce
    BY <1>1, SweptFacts
  <2>2. QED
    BY <2>1 DEF Inv, SlotsDiffer
<1>5. Ordered'
  BY <1>1 DEF Inv, Ordered
<1>6. Kept'
  <2> SUFFICES ASSUME NEW i \in DOMAIN log, base' < i, clock' <= log[i].at + Skew,
                      ~(Cardinality(Since(Len(log), log[i].at)) > Size)
               PROVE  InCache(log[i])'
    BY DEF Kept, Since
  <2>1. base < i /\ clock <= log[i].at + Skew
    BY <1>1
  <2>2. PICK s \in Slots : cache[s].active /\ cache[s].seen = log[i].at /\ cache[s].nonce = log[i].req.nonce
    BY <2>1 DEF Inv, Kept, InCache
  <2>3. Live(s)
    BY <1>1, <2>1, <2>2 DEF Live, Expired
  <2>4. cache'[s] = cache[s]
    BY <1>1, <2>3, SweptFacts
  <2>5. QED
    BY <2>2, <2>4 DEF InCache
<1>7. NonceSpaced'
  <2>1. \A i, j \in DOMAIN log : Overrun(i, j)' = Overrun(i, j)
    <3> TAKE i, j \in DOMAIN log
    <3>1. {k \in 1..(j - 1) : log'[k].at >= log'[i].at} = {k \in 1..(j - 1) : log[k].at >= log[i].at}
      OBVIOUS
    <3>2. QED
      BY <3>1, Zenon DEF Overrun
  <2>2. QED
    BY <1>1, <1>2, <2>1, SMTT(30) DEF NonceSpaced
<1>8. QED
  BY <1>3, <1>4, <1>5, <1>6, <1>7 DEF Inv

\* A replay was found in a live slot, and that slot holds an executed request.
LEMMA ReplayFound ==
    ASSUME Inv, NEW r \in Request, Replay(r)
    PROVE  ReplayIsRepeated'
<1>1. PICK k \in Slots : k \in Holds(r.nonce)
  BY DEF Replay, First
<1>2. cache[k].active /\ clock <= cache[k].seen + Skew /\ cache[k].nonce = r.nonce
  BY <1>1, CacheAssumption DEF Holds, Live, Expired, Inv, TypeOK, Entry
<1>3. PICK n \in DOMAIN log : log[n].req.nonce = cache[k].nonce /\ log[n].at = cache[k].seen
  BY <1>2 DEF Inv, TypeOK
<1>4. log' = log /\ clock' = clock /\ answer'.nonce = r.nonce
  BY DEF Replay
<1>5. QED
  BY <1>2, <1>3, <1>4 DEF ReplayIsRepeated

LEMMA NextInv ==
    ASSUME Inv, NonceSpaced, ReplayIsRepeated, [Next]_vars
    PROVE  Inv' /\ NonceSpaced' /\ ReplayIsRepeated'
<1>1. /\ clock \in Nat \ {0} /\ base \in 0..Len(log) /\ Len(log) \in Nat
      /\ cache \in [Slots -> Entry]
      /\ answer \in [code : {"none", "refused", "replay", "done"}, nonce : Nonces \cup {None}]
  BY LogTypes DEF Inv, TypeOK
<1>2. cache = Swept({})
  BY <1>1 DEF Swept
<1>3. Quiet \in [code : {"none", "refused", "replay", "done"}, nonce : Nonces \cup {None}]
      /\ Quiet.code # "replay"
  BY DEF Quiet
<1>4. ASSUME NEW r \in Request, Refuse(r)
      PROVE  Inv' /\ NonceSpaced' /\ ReplayIsRepeated'
  <2>1. Inv' /\ NonceSpaced'
    BY <1>1, <1>2, <1>4, OtherSteps DEF Refuse, Request
  <2>2. QED
    BY <1>4, <2>1 DEF Refuse, ReplayIsRepeated
<1>5. ASSUME NEW r \in Request, Replay(r)
      PROVE  Inv' /\ NonceSpaced' /\ ReplayIsRepeated'
  <2>1. Inv' /\ NonceSpaced'
    BY <1>1, <1>5, OtherSteps DEF Replay, Request
  <2>2. QED
    BY <1>5, <2>1, ReplayFound
<1>6. ASSUME NEW r \in Request, Execute(r)
      PROVE  Inv' /\ NonceSpaced' /\ ReplayIsRepeated'
  <2>1. ReplayIsRepeated'
    BY <1>6 DEF Execute, ReplayIsRepeated
  <2>2. QED
    BY <1>6, <2>1, ExecuteKept, ExecuteSpaced
<1>7. CASE Start
  <2>1. /\ cache' = [i \in Slots |-> Empty] /\ log' = <<>> /\ base' = 0 /\ clock' = clock
        /\ answer' = Quiet
    BY <1>7 DEF Start
  <2>2. TypeOK' /\ SlotsDiffer'
    BY <1>1, <1>3, <2>1 DEF TypeOK, SlotsDiffer, Entry, Empty
  <2>3. QED
    BY <1>3, <2>1, <2>2 DEF Inv, Ordered, Kept, NonceSpaced, ReplayIsRepeated
<1>8. CASE Tick
  <2>1. Inv' /\ NonceSpaced'
    BY <1>1, <1>2, <1>3, <1>8, OtherSteps DEF Tick
  <2>2. QED
    BY <1>3, <1>8, <2>1 DEF Tick, ReplayIsRepeated
<1>9. CASE SetBack
  <2>1. clock' \in Nat \ {0}
    BY <1>9 DEF SetBack, Times
  <2>2. base' = Len(log) /\ base' \in 0..Len(log) /\ cache' = Swept({}) /\ log' = log /\ answer' = Quiet
    BY <1>1, <1>2, <1>9 DEF SetBack
  <2>3. Inv' /\ NonceSpaced'
    BY <1>3, <2>1, <2>2, OtherSteps
  <2>4. QED
    BY <1>3, <2>2, <2>3 DEF ReplayIsRepeated
<1>10. CASE UNCHANGED vars
  <2>1. Inv' /\ NonceSpaced'
    BY <1>1, <1>2, <1>10, OtherSteps DEF vars
  <2>2. QED
    BY <1>10, <2>1 DEF vars, ReplayIsRepeated
<1>11. QED
  BY <1>4, <1>5, <1>6, <1>7, <1>8, <1>9, <1>10 DEF Next

LEMMA Invariant == Spec => [](Inv /\ NonceSpaced /\ ReplayIsRepeated)
<1>1. (Inv /\ NonceSpaced /\ ReplayIsRepeated) /\ [Next]_vars
      => (Inv /\ NonceSpaced /\ ReplayIsRepeated)'
  BY NextInv
<1>2. QED
  BY InitInv, <1>1, PTL DEF Spec

-----------------------------------------------------------------------------
(* Theorems                                                                *)

\* Every slot in use holds the nonce and the time of an executed request.
THEOREM TypeCorrect == Spec => []TypeOK
<1>1. Inv => TypeOK
  BY DEF Inv
<1>2. QED
  BY <1>1, Invariant, PTL

\* api_nonce_record keeps requests with one nonce more than Skew seconds
\* apart, unless the cache was overrun.
THEOREM NoncesAreSpaced == Spec => []NonceSpaced
BY Invariant, PTL

\* A signed request is not executed twice, unless its stamp was ahead of the
\* server's clock or the cache was overrun: if it is executed again, it is in
\* time both times, hence at most Skew seconds apart.
THEOREM RequestsExecutedOnce == Spec => []ExecutedOnce
<1>1. Inv /\ NonceSpaced => ExecutedOnce
  <2> SUFFICES ASSUME Inv, NonceSpaced, NEW i \in DOMAIN log, NEW j \in DOMAIN log,
                      base < i, i < j, log[i].req = log[j].req, log[i].req.stamp <= log[i].at
               PROVE  Overrun(i, j)
    BY DEF ExecutedOnce
  <2>1. /\ log[i].at \in Nat /\ log[j].at \in Nat /\ Skew \in Nat
        /\ log[j].req.stamp \in Nat
    BY CacheAssumption, LogTypes DEF Inv
  <2>2. log[j].at <= log[j].req.stamp + Skew
    BY DEF Inv, Ordered
  <2>3. log[j].at <= log[i].at + Skew
    BY <2>1, <2>2
  <2>4. QED
    BY <2>3 DEF NonceSpaced
<1>2. QED
  BY <1>1, Invariant, PTL

\* A request is called a replay only if one with its nonce was executed at
\* most Skew seconds ago.
THEOREM ReplaysAreRepeated == Spec => []ReplayIsRepeated
BY Invariant, PTL

\* The scan and the choice of the slot never leave a nonce in two live slots.
THEOREM NoncesAreUnique == Spec => []NonceInOneSlot
<1>1. Inv => NonceInOneSlot
  BY DEF Inv, SlotsDiffer, NonceInOneSlot, Live
<1>2. QED
  BY <1>1, Invariant, PTL
=============================================================================
