---------------------------- MODULE ApiNonceCache ----------------------------
(***************************************************************************)
(* The management API of api_server.c: which signed requests it executes.  *)
(* The server answers one request after the other.  A request carries a    *)
(* time stamp and a nonce; it is executed if the stamp is at most Skew     *)
(* seconds away from the server's clock and the nonce is not one of those  *)
(* kept in g_nonce_cache.  The cache is an array that is scanned from the  *)
(* front; it forgets a nonce after Skew seconds or, when it is full, the   *)
(* oldest first, where ages are whole seconds.                             *)
(*                                                                         *)
(* The server's process may be started again, with an empty cache, and the *)
(* clock is the wall clock, which may be set back.  Clients are external:  *)
(* anybody may send a request again that was sent before.  A request is    *)
(* its nonce and its stamp; what it asks for is left out.                  *)
(***************************************************************************)
EXTENDS Integers, Sequences, FiniteSets

CONSTANTS
    Size,        \* NTAP_A_API_NONCE_CACHE_SIZE
    Skew,        \* NTAP_A_API_TIME_SKEW_SEC
    Nonces,      \* nonces of the clients' requests
    MaxTime,     \* bound: the clock's last second
    MaxRequests, \* bound: requests executed by one process
    None

ASSUME CacheAssumption ==
    /\ Size \in Nat \ {0}
    /\ Skew \in Nat
    /\ MaxTime \in Nat
    /\ None \notin Nonces

Slots == 1..Size
Times == 1..MaxTime
Request == [nonce : Nonces, stamp : Times]

VARIABLES
    clock,   \* ntap_time_unix_sec()
    cache,   \* g_nonce_cache
    log,     \* requests this process has executed, each with its time
    base,    \* how many of them before the clock was last set back
    answer   \* the last answer, and to which request

vars == <<clock, cache, log, base, answer>>

Entry == [active : BOOLEAN, seen : Nat, nonce : Nonces \cup {None}]
Empty == [active |-> FALSE, seen |-> 0, nonce |-> None]
Quiet == [code |-> "none", nonce |-> None]

Init ==
    /\ clock = 1
    /\ cache = [i \in Slots |-> Empty]
    /\ log = <<>>
    /\ base = 0
    /\ answer = Quiet

-----------------------------------------------------------------------------
(* api_nonce_record                                                        *)

\* Faulty variant: nothing expires.
Expired_Never(e) == FALSE

Expired(e) == e.seen + Skew < clock

Live(i) == cache[i].active /\ ~Expired(cache[i])

\* Slots that hold the nonce.
Holds(nonce) == {i \in Slots : Live(i) /\ cache[i].nonce = nonce}

Freed(e) == [active |-> FALSE, seen |-> e.seen, nonce |-> e.nonce]

\* Expired entries are given up as the scan meets them.
Swept(slots) ==
    [i \in Slots |-> IF i \in slots /\ ~Live(i) THEN Freed(cache[i]) ELSE cache[i]]

First(slots, i) == i \in slots /\ \A j \in slots : i <= j

Oldest == {i \in Slots : \A j \in Slots : cache[i].seen <= cache[j].seen}

\* Where a new nonce goes: the first free slot or, if all are live, the first
\* of the oldest.
Target(i) ==
    LET free == {j \in Slots : ~Live(j)}
    IN First(IF free # {} THEN free ELSE Oldest, i)

-----------------------------------------------------------------------------
(* api_handle_client                                                       *)

\* Faulty variant: a second longer than the cache remembers.
Timely_Late(r) == r.stamp >= clock - Skew - 1 /\ r.stamp <= clock + Skew

Timely(r) == r.stamp >= clock - Skew /\ r.stamp <= clock + Skew

\* The request cannot be read, is a GET for a page, has another method, lacks
\* a field, or its stamp, body hash or signature is wrong.
Refuse(r) ==
    /\ answer' = [code |-> "refused", nonce |-> r.nonce]
    /\ UNCHANGED <<clock, cache, log, base>>

\* The scan stops at the slot that holds the nonce.
Replay(r) ==
    /\ Timely(r)
    /\ \E k \in Slots :
          /\ First(Holds(r.nonce), k)
          /\ cache' = Swept(1..(k - 1))
    /\ answer' = [code |-> "replay", nonce |-> r.nonce]
    /\ UNCHANGED <<clock, log, base>>

\* The nonce is recorded and the request goes to its endpoint.
Execute(r) ==
    /\ Timely(r)
    /\ Holds(r.nonce) = {}
    /\ Len(log) < MaxRequests
    /\ \E i \in Slots :
          /\ Target(i)
          /\ cache' = [Swept(Slots) EXCEPT
                         ![i] = [active |-> TRUE, seen |-> clock, nonce |-> r.nonce]]
    /\ log' = Append(log, [req |-> r, at |-> clock])
    /\ answer' = [code |-> "done", nonce |-> r.nonce]
    /\ UNCHANGED <<clock, base>>

\* ntap_a_api_server_run: a new process starts with an empty cache.
Start ==
    /\ cache' = [i \in Slots |-> Empty]
    /\ log' = <<>>
    /\ base' = 0
    /\ answer' = Quiet
    /\ UNCHANGED clock

Tick ==
    /\ clock < MaxTime
    /\ clock' = clock + 1
    /\ answer' = Quiet
    /\ UNCHANGED <<cache, log, base>>

SetBack ==
    /\ \E t \in Times : t < clock /\ clock' = t
    /\ base' = Len(log)
    /\ answer' = Quiet
    /\ UNCHANGED <<cache, log>>

Next ==
    \/ \E r \in Request : Refuse(r) \/ Replay(r) \/ Execute(r)
    \/ Start
    \/ Tick
    \/ SetBack

Spec == Init /\ [][Next]_vars

-----------------------------------------------------------------------------
(* Correctness                                                             *)

\* Every slot in use holds a request this process executed.
TypeOK ==
    /\ clock \in Nat \ {0}
    /\ cache \in [Slots -> Entry]
    /\ log \in Seq([req : Request, at : Nat \ {0}])
    /\ base \in 0..Len(log)
    /\ answer \in [code : {"none", "refused", "replay", "done"}, nonce : Nonces \cup {None}]
    /\ \A i \in Slots : cache[i].active =>
          \E k \in DOMAIN log : log[k].req.nonce = cache[i].nonce /\ log[k].at = cache[i].seen

\* Since the time of entry i, more requests were executed than the cache holds.
Overrun(i, j) == Cardinality({k \in 1..(j - 1) : log[k].at >= log[i].at}) > Size

\* A request sent again is not executed again, as long as the process runs and
\* its clock is not set back, unless its stamp was ahead of the server's clock
\* (it is then still in time when its nonce has expired), or so many requests
\* came in the meantime that the cache had to give its nonce up.
ExecutedOnce ==
    \A i, j \in DOMAIN log :
        /\ base < i /\ i < j
        /\ log[i].req = log[j].req
        /\ log[i].req.stamp <= log[i].at
        => Overrun(i, j)

\* Requests with one nonce are executed more than Skew seconds apart, whatever
\* their stamps, with the same exception.
NonceSpaced ==
    \A i, j \in DOMAIN log :
        /\ base < i /\ i < j
        /\ log[i].req.nonce = log[j].req.nonce
        /\ log[j].at <= log[i].at + Skew
        => Overrun(i, j)

\* A nonce is called a replay only if this process executed a request with it
\* that is at most Skew seconds old: nothing that was given up comes back.
ReplayIsRepeated ==
    answer.code = "replay" =>
        \E k \in DOMAIN log : log[k].req.nonce = answer.nonce /\ clock <= log[k].at + Skew

\* However entries expire and slots are reused, no nonce has two live entries.
NonceInOneSlot ==
    \A i, j \in Slots : Live(i) /\ Live(j) /\ cache[i].nonce = cache[j].nonce => i = j
=============================================================================
