---------------------------- MODULE DirectAccess ----------------------------
(***************************************************************************)
(* Direct access: a TAP user may be sent to a node itself instead of being *)
(* relayed.  The server keeps no session for that.  It signs a token with  *)
(* the node's key, and the node, which shares that key, accepts the token  *)
(* until it expires, without asking anybody (ntap_direct_token_verify).    *)
(* So what the management changes takes effect only for tokens that are    *)
(* still to be made: the bound on their life is all the revocation there   *)
(* is.                                                                     *)
(*                                                                         *)
(* Tokens are made on three paths: for the management (a token, or a       *)
(* strategy for one node), and for a user who logs in, by                  *)
(* ntap_a_db_attach_tap_direct_strategy, some time after the user was      *)
(* authenticated.  Each path reads everything it demands in one statement, *)
(* and what they demand differs: a login tests the user's expire_at, and   *)
(* the management's paths do not.                                          *)
(*                                                                         *)
(* A row is the part of a row of nodes that matters here; `port' says that *)
(* direct_port is not 0.  `entitled' holds a user and a network when the   *)
(* user, the network and the grant of one to the other are enabled.        *)
(* Nothing keeps the management from giving one key to several nodes, or a *)
(* name and a key that another node had.  Signatures are perfect.  A       *)
(* token's nonce is left out: nobody remembers it.                         *)
(***************************************************************************)
EXTENDS Integers, FiniteSets

CONSTANTS
    Nodes,     \* keys of rows of nodes
    Users,     \* TAP users
    Nets,      \* networks
    Names,     \* node_id
    BadNames,  \* those that contain '|'
    Keys,      \* node_key_secret
    Addrs,     \* direct_addr, when it is not empty
    Asked,     \* ttl_sec of requests
    Expiries,  \* expire_at of users, 0 for never
    MaxTtl,    \* 600
    LoginTtl,  \* 60
    MaxTokens, \* bound: tokens ever made
    MaxClock,  \* bound: seconds
    None

ASSUME DirectAssumption ==
    /\ Asked \subseteq Nat \ {0}
    /\ Expiries \subseteq Nat
    /\ MaxTtl \in Nat /\ LoginTtl \in 1..MaxTtl
    /\ MaxTokens \in Nat /\ MaxClock \in Nat
    /\ BadNames \subseteq Names
    /\ None \notin Nodes \cup Addrs

VARIABLES
    row,      \* row[k]: the row of the node k
    entitled, \* <<user, network>> pairs that may log in
    expireAt, \* expireAt[u]: expire_at of the user u
    local,    \* local[k]: what the process of the node k works with
    tokens,   \* tokens made so far
    login,    \* the login between authentication and strategy, in a set
    answer,   \* what the last login or strategy was told
    clock,
    reached,  \* <<node, address>> pairs a probe has ever reached
    given,    \* given[k]: the identities that the row of k has ever had
    lastOK,   \* lastOK[u, k]: when u was last allowed to reach k directly
    lastValid \* lastValid[u, k]: and had not expired

vars == <<row, entitled, expireAt, local, tokens, login, answer, clock, reached,
          given, lastOK, lastValid>>

Identity == [name : Names, key : Keys, net : Nets]
Row == [name : Names, key : Keys, net : Nets, enabled : BOOLEAN, online : BOOLEAN,
        direct : BOOLEAN, port : BOOLEAN, reachable : BOOLEAN, addr : Addrs \cup {None}]
Token == [user : Users, name : Names, key : Keys, net : Nets, expire : Nat,
          by : Nodes, login : BOOLEAN]
Answer == [code : {"none", "relay", "direct", "as asked", "failed"}, node : Nodes \cup {None},
           addr : Addrs \cup {None}]

\* The identity in a row or a token.
IdentityOf(r) == [name |-> r.name, key |-> r.key, net |-> r.net]

NoRow == [enabled |-> FALSE]
NoLocal == [name |-> None]
Listed(k) == row[k] # NoRow

Init ==
    /\ row = [k \in Nodes |-> NoRow]
    /\ entitled = {}
    /\ expireAt = [u \in Users |-> 0]
    /\ local = [k \in Nodes |-> NoLocal]
    /\ tokens = {} /\ login = {}
    /\ answer = [code |-> "none", node |-> None, addr |-> None]
    /\ clock = 0
    /\ reached = {}
    /\ given = [k \in Nodes |-> {}]
    /\ lastOK = [p \in Users \X Nodes |-> 0 - MaxTtl]
    /\ lastValid = [p \in Users \X Nodes |-> 0 - MaxTtl]

-----------------------------------------------------------------------------
(* What a token demands                                                    *)

\* Of every path.
Allows(rows, pairs, u, k) ==
    /\ rows[k].enabled
    /\ rows[k].direct /\ rows[k].port
    /\ <<u, rows[k].net>> \in pairs

Allowed(u, k) == Allows(row, entitled, u, k)

\* Of a login.
Current(at, now) == at = 0 \/ now <= at

\* History: nothing in the code keeps this.
Watch ==
    /\ lastOK' = [p \in Users \X Nodes |->
                     IF Allows(row', entitled', p[1], p[2]) THEN clock' ELSE lastOK[p]]
    /\ lastValid' = [p \in Users \X Nodes |->
                        IF Allows(row', entitled', p[1], p[2]) /\ Current(expireAt'[p[1]], clock')
                        THEN clock' ELSE lastValid[p]]

-----------------------------------------------------------------------------
(* The management                                                          *)

Managed == UNCHANGED <<local, tokens, login, answer, clock>> /\ Watch

OfUsers == UNCHANGED <<row, reached, given>> /\ Managed
OfNodes == UNCHANGED <<entitled, expireAt>> /\ Managed

Entitle(u, n) ==
    /\ entitled' = entitled \cup {<<u, n>>}
    /\ UNCHANGED expireAt /\ OfUsers

Forbid(u, n) ==
    /\ entitled' = entitled \ {<<u, n>>}
    /\ UNCHANGED expireAt /\ OfUsers

\* Nothing in src/ writes expire_at: it is what the schema says, 0, until
\* somebody sets it in the database.
SetExpiry(u, at) ==
    /\ expireAt' = [expireAt EXCEPT ![u] = at]
    /\ UNCHANGED entitled /\ OfUsers

\* UNIQUE(node_id)
NameFree(k, name) == \A j \in Nodes \ {k} : Listed(j) => row[j].name # name

\* The row of k becomes r, perhaps with another identity.
Give(k, r) ==
    /\ NameFree(k, r.name)
    /\ row' = [row EXCEPT ![k] = r]
    /\ given' = [given EXCEPT ![k] = @ \cup {IdentityOf(r)}]
    /\ UNCHANGED reached /\ OfNodes

\* AUTOINCREMENT: the id of a node that was deleted is not used again.
AddNode(k, i, port) ==
    /\ given[k] = {}
    /\ Give(k, [name |-> i.name, key |-> i.key, net |-> i.net, enabled |-> TRUE,
                online |-> FALSE, direct |-> FALSE, port |-> port,
                reachable |-> FALSE, addr |-> None])

\* The name, the network, the port and perhaps the key change; what a probe
\* found stays.
EditNode(k, i, port) ==
    /\ Listed(k)
    /\ Give(k, [name |-> i.name, key |-> i.key, net |-> i.net,
                enabled |-> row[k].enabled, online |-> row[k].online,
                direct |-> row[k].direct, port |-> port,
                reachable |-> row[k].reachable, addr |-> row[k].addr])

SetNodeEnabled(k, b) ==
    /\ Listed(k)
    /\ row' = [row EXCEPT ![k].enabled = b, ![k].online = b /\ @]
    /\ UNCHANGED <<reached, given>> /\ OfNodes

SetNodeDirect(k, b) ==
    /\ Listed(k)
    /\ row' = [row EXCEPT ![k].direct = b]
    /\ UNCHANGED <<reached, given>> /\ OfNodes

\* The address comes with the request and is stored with the result.
Probe(k, a, ok) ==
    /\ Listed(k)
    /\ row' = [row EXCEPT ![k].reachable = ok, ![k].addr = a]
    /\ reached' = IF ok THEN reached \cup {<<k, a>>} ELSE reached
    /\ UNCHANGED given /\ OfNodes

DeleteNode(k) ==
    /\ Listed(k)
    /\ row' = [row EXCEPT ![k] = NoRow]
    /\ UNCHANGED <<reached, given>> /\ OfNodes

-----------------------------------------------------------------------------
(* Tokens                                                                  *)

\* Faulty variant: a request gets what it asks for.
Ttl_Uncapped(asked) == asked

Ttl(asked) == IF asked > MaxTtl THEN MaxTtl ELSE asked

\* ntap_direct_token_make: the fields are separated by '|', so a name must not
\* contain one.
Makeable(k) == row[k].name \notin BadNames

Make(u, k, ttl, atLogin) ==
    /\ Cardinality(tokens) < MaxTokens
    /\ tokens' = tokens \cup {[user |-> u, name |-> row[k].name, key |-> row[k].key,
                               net |-> row[k].net, expire |-> clock + ttl,
                               by |-> k, login |-> atLogin]}

Served == UNCHANGED <<row, entitled, expireAt, local, clock, reached, given>> /\ Watch

\* ntap_a_db_issue_direct_token
IssueToken(u, k, asked) ==
    /\ Allowed(u, k) /\ Makeable(k)
    /\ Make(u, k, Ttl(asked), FALSE)
    /\ Served /\ UNCHANGED <<login, answer>>

\* ntap_a_db_issue_direct_strategy: an address in the request goes before the
\* stored one, but it is the stored one that was probed.
IssueStrategy(u, k, asked, a) ==
    LET addr == IF a = None THEN row[k].addr ELSE a
    IN /\ row[k].enabled /\ <<u, row[k].net>> \in entitled
       /\ IF row[k].direct /\ row[k].port /\ addr # None /\ row[k].reachable
          THEN /\ Makeable(k)
               /\ Make(u, k, Ttl(asked), FALSE)
               /\ answer' = [code |-> IF a = None THEN "direct" ELSE "as asked",
                             node |-> k, addr |-> addr]
          ELSE /\ answer' = [code |-> "relay", node |-> None, addr |-> None]
               /\ UNCHANGED tokens
       /\ Served /\ UNCHANGED login

-----------------------------------------------------------------------------
(* A TAP user logs in                                                      *)

\* ntap_a_db_get_tap_auth and ntap_a_db_get_tap_runtime_config
Authenticate(u, n) ==
    /\ login = {}
    /\ <<u, n>> \in entitled /\ Current(expireAt[u], clock)
    /\ login' = {<<u, n>>}
    /\ Served /\ UNCHANGED <<tokens, answer>>

\* Faulty variant: expire_at is left to the authentication.
Candidates_Expired(u, n) ==
    {k \in Nodes : /\ Listed(k) /\ row[k].net = n
                   /\ Allowed(u, k)
                   /\ row[k].online /\ row[k].reachable /\ row[k].addr # None}

Candidates(u, n) ==
    {k \in Nodes : /\ Listed(k) /\ row[k].net = n
                   /\ Allowed(u, k) /\ Current(expireAt[u], clock)
                   /\ row[k].online /\ row[k].reachable /\ row[k].addr # None}

\* ntap_a_db_attach_tap_direct_strategy: of the nodes, the one that was seen
\* last.  If no token can be made for it, the login fails.
Attach(u, n) ==
    /\ <<u, n>> \in login
    /\ login' = {}
    /\ \/ /\ Candidates(u, n) = {}
          /\ answer' = [code |-> "relay", node |-> None, addr |-> None]
          /\ UNCHANGED tokens
       \/ \E k \in Candidates(u, n) :
             /\ answer' = [code |-> IF Makeable(k) THEN "direct" ELSE "failed",
                           node |-> k, addr |-> row[k].addr]
             /\ IF Makeable(k) THEN Make(u, k, LoginTtl, TRUE) ELSE UNCHANGED tokens
    /\ Served

\* The peer gives up, or a statement fails.
LoginLost ==
    /\ login # {}
    /\ login' = {}
    /\ Served /\ UNCHANGED <<tokens, answer>>

-----------------------------------------------------------------------------
(* The node's side                                                         *)

\* A node connects with the name and the key of its row, and is told its
\* network; it keeps them until it connects again.
NodeConnects(k) ==
    /\ Listed(k) /\ row[k].enabled
    /\ local' = [local EXCEPT ![k] = IdentityOf(row[k])]
    /\ row' = [row EXCEPT ![k].online = TRUE]
    /\ UNCHANGED <<entitled, expireAt, tokens, login, answer, clock, reached, given>>
    /\ Watch

NodeLeaves(k) ==
    /\ Listed(k)
    /\ row' = [row EXCEPT ![k].online = FALSE]
    /\ UNCHANGED <<entitled, expireAt, local, tokens, login, answer, clock, reached, given>>
    /\ Watch

\* Faulty variant: the signature is not compared.
Signed_Unchecked(t, x) == TRUE

\* direct_token_sign and direct_token_hex_equal_ci
Signed(t, x) == t.key = x

\* ntap_direct_token_verify
Verify(k, t) ==
    /\ local[k] # NoLocal
    /\ t.name = local[k].name
    /\ t.net = local[k].net
    /\ clock < t.expire
    /\ Signed(t, local[k].key)

Tick ==
    /\ clock < MaxClock
    /\ clock' = clock + 1
    /\ UNCHANGED <<row, entitled, expireAt, local, tokens, login, answer, reached, given>>
    /\ Watch

-----------------------------------------------------------------------------
Manage ==
    \/ \E u \in Users, n \in Nets : Entitle(u, n) \/ Forbid(u, n)
    \/ \E u \in Users, at \in Expiries : SetExpiry(u, at)
    \/ \E k \in Nodes, i \in Identity, port \in BOOLEAN :
          AddNode(k, i, port) \/ EditNode(k, i, port)
    \/ \E k \in Nodes, b \in BOOLEAN : SetNodeEnabled(k, b) \/ SetNodeDirect(k, b)
    \/ \E k \in Nodes, a \in Addrs, ok \in BOOLEAN : Probe(k, a, ok)
    \/ \E k \in Nodes : DeleteNode(k)

Issue == \E u \in Users, k \in Nodes, asked \in Asked :
            \/ IssueToken(u, k, asked)
            \/ \E a \in Addrs \cup {None} : IssueStrategy(u, k, asked, a)

Login ==
    \/ \E u \in Users, n \in Nets : Authenticate(u, n) \/ Attach(u, n)
    \/ LoginLost

Next ==
    \/ Manage \/ Issue \/ Login
    \/ \E k \in Nodes : NodeConnects(k) \/ NodeLeaves(k)
    \/ Tick

Spec == Init /\ [][Next]_vars

-----------------------------------------------------------------------------
(* Properties                                                              *)

TypeOK ==
    /\ row \in [Nodes -> Row \cup {NoRow}]
    /\ entitled \subseteq Users \X Nets
    /\ expireAt \in [Users -> Nat]
    /\ local \in [Nodes -> Identity \cup {NoLocal}]
    /\ tokens \subseteq Token
    /\ login \subseteq Users \X Nets
    /\ answer \in Answer
    /\ clock \in Nat
    /\ reached \subseteq Nodes \X Addrs
    /\ given \in [Nodes -> SUBSET Identity]
    /\ lastOK \in [Users \X Nodes -> Int]
    /\ lastValid \in [Users \X Nodes -> Int]
    /\ \A t \in tokens : t.expire <= clock + MaxTtl

\* A node takes a token made for another one only if the management once gave
\* it that node's name, key and network, all three at once; not when they are
\* put together from what it had at different times, though names go from one
\* row to another, keys are shared and replaced, and the node's own idea of
\* them may be old.
TokenForNode ==
    \A t \in tokens, k \in Nodes :
        Verify(k, t) => IdentityOf(t) \in given[t.by] \cap given[k]

\* Whatever is taken away from a user or a node (the grant, the user, the
\* network, the node, its direct access) is out of force MaxTtl seconds later,
\* though nobody tells the node and whatever life a request asks for: a token
\* is only accepted within MaxTtl of a moment at which every path's demands
\* were met.
RevocationBound ==
    \A t \in tokens, k \in Nodes :
        Verify(k, t) => clock < lastOK[<<t.user, t.by>>] + MaxTtl

\* A token from a login is only accepted within LoginTtl of a moment at which
\* the user was allowed to reach the node and had not expired, though the user
\* was authenticated earlier than the token was made.
LoginBound ==
    \A t \in tokens, k \in Nodes :
        Verify(k, t) /\ t.login => clock < lastValid[<<t.user, t.by>>] + LoginTtl

\* A user is only sent to an address that a probe for this very node has once
\* reached, though the node's row is edited and probed at other addresses.
\* This is about direct_addr: direct_port is edited apart from it and from
\* direct_reachable, and no probe looks at it.  (An address that the request
\* itself names may never have been probed.)
OfferWasReached == answer.code = "direct" => <<answer.node, answer.addr>> \in reached
=============================================================================
