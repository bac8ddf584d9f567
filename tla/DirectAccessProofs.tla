------------------------- MODULE DirectAccessProofs -------------------------
(***************************************************************************)
(* Proofs about DirectAccess: the invariants that its runs check, for any  *)
(* number of nodes, users, networks, keys, addresses and tokens, and any   *)
(* bound on a token's life.                                                *)
(*                                                                         *)
(* Two strengthenings carry them.  Whatever names a node (its row, a token *)
(* made from it, what its process works with) has an identity that the row *)
(* had as a whole, at some moment.  And a token's life is measured from    *)
(* the last moment at which its user was allowed to reach its node, not    *)
(* from the moment it was made.                                            *)
(***************************************************************************)
EXTENDS DirectAccess, TLAPS

\* A row's identity is in its history, and so is the address it says was reached.
RowHistory ==
    \A k \in Nodes :
        Listed(k) => /\ IdentityOf(row[k]) \in given[k]
                     /\ row[k].reachable => <<k, row[k].addr>> \in reached

\* A node works with an identity that was once its row's.
LocalGiven == \A k \in Nodes : local[k] # NoLocal => local[k] \in given[k]

\* While a user is allowed to reach a node, the moment is now.
Watched ==
    \A u \in Users, k \in Nodes :
        /\ lastOK[<<u, k>>] <= clock /\ lastValid[<<u, k>>] <= clock
        /\ Allowed(u, k) => lastOK[<<u, k>>] = clock
        /\ Allowed(u, k) /\ Current(expireAt[u], clock) => lastValid[<<u, k>>] = clock

\* A token carries an identity of the row it was made from, and its life is
\* counted from the last moment it was allowed.
TokenHistory ==
    \A t \in tokens :
        /\ IdentityOf(t) \in given[t.by]
        /\ t.expire <= lastOK[<<t.user, t.by>>] + MaxTtl
        /\ t.login => t.expire <= lastValid[<<t.user, t.by>>] + LoginTtl

IInv ==
    /\ TypeOK /\ RowHistory /\ LocalGiven /\ Watched /\ TokenHistory
    /\ OfferWasReached

\* No identity is ever taken out of the history.
GivenGrows == /\ given' \in [Nodes -> SUBSET Identity]
              /\ \A k \in Nodes : given[k] \subseteq given'[k]

\* What a step leaves of the tokens.
TokensOK == /\ tokens \subseteq Token
            /\ \A t \in tokens : t.expire <= clock + MaxTtl
            /\ TokenHistory

-----------------------------------------------------------------------------
(* Lemmas                                                                  *)

\* The histories of moments never go back, and stay exact.
LEMMA WatchFacts ==
    ASSUME TypeOK, Watched, Watch, clock' \in Nat, clock <= clock'
    PROVE  /\ lastOK' \in [Users \X Nodes -> Int]
           /\ lastValid' \in [Users \X Nodes -> Int]
           /\ Watched'
           /\ \A u \in Users, k \in Nodes : /\ lastOK[<<u, k>>] <= lastOK'[<<u, k>>]
                                            /\ lastValid[<<u, k>>] <= lastValid'[<<u, k>>]
<1>0. /\ lastOK \in [Users \X Nodes -> Int] /\ lastValid \in [Users \X Nodes -> Int]
      /\ clock \in Nat
      /\ \A u \in Users, k \in Nodes :
            lastOK[<<u, k>>] <= clock /\ lastValid[<<u, k>>] <= clock
    BY DEF TypeOK, Watched
<1>1. lastOK' \in [Users \X Nodes -> Int] /\ lastValid' \in [Users \X Nodes -> Int]
    BY <1>0 DEF Watch
<1>2. ASSUME NEW u \in Users, NEW k \in Nodes
      PROVE  /\ lastOK'[<<u, k>>] <= clock'
             /\ lastValid'[<<u, k>>] <= clock'
             /\ Allows(row', entitled', u, k) => lastOK'[<<u, k>>] = clock'
             /\ (Allows(row', entitled', u, k) /\ Current(expireAt'[u], clock')) =>
                   lastValid'[<<u, k>>] = clock'
             /\ lastOK[<<u, k>>] <= lastOK'[<<u, k>>]
             /\ lastValid[<<u, k>>] <= lastValid'[<<u, k>>]
    <2>1. <<u, k>> \in Users \X Nodes /\ <<u, k>>[1] = u /\ <<u, k>>[2] = k
        OBVIOUS
    <2>2. lastOK'[<<u, k>>] = IF Allows(row', entitled', u, k) THEN clock' ELSE lastOK[<<u, k>>]
        BY <2>1 DEF Watch
    <2>3. lastValid'[<<u, k>>] =
              IF Allows(row', entitled', u, k) /\ Current(expireAt'[u], clock')
              THEN clock' ELSE lastValid[<<u, k>>]
        BY <2>1 DEF Watch
    <2>4. /\ lastOK[<<u, k>>] \in Int /\ lastOK[<<u, k>>] <= clock
          /\ lastValid[<<u, k>>] \in Int /\ lastValid[<<u, k>>] <= clock
        BY <1>0, <2>1
    <2> QED BY <1>0, <2>2, <2>3, <2>4
<1>3. Watched'
    BY <1>2 DEF Watched, Allowed
<1> QED BY <1>1, <1>2, <1>3

\* Steps that make no token keep what is known of the old ones.
LEMMA TokensKept ==
    ASSUME IInv, tokens' = tokens, clock' \in Nat, clock <= clock', Watch, GivenGrows
    PROVE  TokensOK'
<1> USE DirectAssumption
<1>1. /\ tokens \subseteq Token /\ clock \in Nat
      /\ lastOK \in [Users \X Nodes -> Int] /\ lastValid \in [Users \X Nodes -> Int]
      /\ \A t \in tokens : t.expire <= clock + MaxTtl
    BY DEF IInv, TypeOK
<1>2. /\ lastOK' \in [Users \X Nodes -> Int] /\ lastValid' \in [Users \X Nodes -> Int]
      /\ \A u \in Users, k \in Nodes : /\ lastOK[<<u, k>>] <= lastOK'[<<u, k>>]
                                       /\ lastValid[<<u, k>>] <= lastValid'[<<u, k>>]
    BY WatchFacts DEF IInv
<1>3. ASSUME NEW t \in tokens
      PROVE  /\ t.expire <= clock' + MaxTtl
             /\ IdentityOf(t) \in given'[t.by]
             /\ t.expire <= lastOK'[<<t.user, t.by>>] + MaxTtl
             /\ t.login => t.expire <= lastValid'[<<t.user, t.by>>] + LoginTtl
    <2>1. t.expire \in Nat /\ t.by \in Nodes /\ t.user \in Users
        BY <1>1 DEF Token
    <2>2. /\ t.expire <= clock + MaxTtl
          /\ IdentityOf(t) \in given[t.by]
          /\ t.expire <= lastOK[<<t.user, t.by>>] + MaxTtl
          /\ t.login => t.expire <= lastValid[<<t.user, t.by>>] + LoginTtl
        BY <1>1 DEF IInv, TokenHistory
    <2>3. /\ lastOK[<<t.user, t.by>>] \in Int /\ lastOK'[<<t.user, t.by>>] \in Int
          /\ lastValid[<<t.user, t.by>>] \in Int /\ lastValid'[<<t.user, t.by>>] \in Int
        BY <1>1, <1>2, <2>1
    <2>4. /\ lastOK[<<t.user, t.by>>] <= lastOK'[<<t.user, t.by>>]
          /\ lastValid[<<t.user, t.by>>] <= lastValid'[<<t.user, t.by>>]
        BY <1>2, <2>1
    <2>5. IdentityOf(t) \in given'[t.by]
        BY <2>1, <2>2 DEF GivenGrows
    <2> QED BY <1>1, <2>1, <2>2, <2>3, <2>4, <2>5
<1> QED BY <1>1, <1>3 DEF TokensOK, TokenHistory, IdentityOf

\* A step that makes a token, for an allowed user.
LEMMA TokenMade ==
    ASSUME IInv, Served, NEW u \in Users, NEW k \in Nodes, NEW ttl \in 0..MaxTtl,
           NEW atLogin \in BOOLEAN, Allowed(u, k),
           atLogin => ttl <= LoginTtl /\ Current(expireAt[u], clock),
           Make(u, k, ttl, atLogin)
    PROVE  TokensOK'
<1> USE DirectAssumption
<1> DEFINE new == [user |-> u, name |-> row[k].name, key |-> row[k].key,
                   net |-> row[k].net, expire |-> clock + ttl, by |-> k, login |-> atLogin]
<1>1. /\ tokens \subseteq Token /\ clock \in Nat
      /\ lastOK \in [Users \X Nodes -> Int] /\ lastValid \in [Users \X Nodes -> Int]
      /\ row \in [Nodes -> Row \cup {NoRow}]
      /\ \A t \in tokens : t.expire <= clock + MaxTtl
    BY DEF IInv, TypeOK
<1>2. tokens' = tokens \cup {new} /\ clock' = clock /\ given' = given /\ Watch
    BY DEF Make, Served
<1>3. row[k] \in Row /\ Listed(k)
    BY <1>1 DEF Allowed, Allows, NoRow, Listed
<1>4. new \in Token
    BY <1>1, <1>3 DEF Row, Token
<1>5. IdentityOf(new) \in given[new.by]
    BY <1>3 DEF IInv, RowHistory, IdentityOf
<1>6. lastOK[<<u, k>>] = clock /\ (atLogin => lastValid[<<u, k>>] = clock)
    BY DEF IInv, Watched
<1>7. /\ lastOK' \in [Users \X Nodes -> Int] /\ lastValid' \in [Users \X Nodes -> Int]
      /\ \A v \in Users, j \in Nodes : /\ lastOK[<<v, j>>] <= lastOK'[<<v, j>>]
                                       /\ lastValid[<<v, j>>] <= lastValid'[<<v, j>>]
    BY <1>1, <1>2, WatchFacts DEF IInv
<1>8. /\ new.expire = clock + ttl /\ new.user = u /\ new.by = k /\ new.login = atLogin
    OBVIOUS
<1> HIDE DEF new
<1>9. ASSUME NEW t \in tokens'
      PROVE  /\ t.expire <= clock' + MaxTtl
             /\ IdentityOf(t) \in given'[t.by]
             /\ t.expire <= lastOK'[<<t.user, t.by>>] + MaxTtl
             /\ t.login => t.expire <= lastValid'[<<t.user, t.by>>] + LoginTtl
    <2>1. t.expire \in Nat /\ t.by \in Nodes /\ t.user \in Users
        BY <1>1, <1>2, <1>4 DEF Token
    <2>2. /\ t.expire <= clock + MaxTtl
          /\ IdentityOf(t) \in given[t.by]
          /\ t.expire <= lastOK[<<t.user, t.by>>] + MaxTtl
          /\ t.login => t.expire <= lastValid[<<t.user, t.by>>] + LoginTtl
        <3>1. CASE t \in tokens
            BY <3>1, <1>1 DEF IInv, TokenHistory
        <3>2. CASE t = new
            BY <1>1, <1>5, <1>6, <1>8, <3>2
        <3> QED BY <3>1, <3>2, <1>2
    <2>3. /\ lastOK[<<t.user, t.by>>] \in Int /\ lastOK'[<<t.user, t.by>>] \in Int
          /\ lastValid[<<t.user, t.by>>] \in Int /\ lastValid'[<<t.user, t.by>>] \in Int
        BY <1>1, <1>7, <2>1
    <2>4. /\ lastOK[<<t.user, t.by>>] <= lastOK'[<<t.user, t.by>>]
          /\ lastValid[<<t.user, t.by>>] <= lastValid'[<<t.user, t.by>>]
        BY <1>7, <2>1
    <2> QED BY <1>1, <1>2, <2>1, <2>2, <2>3, <2>4
<1> QED BY <1>1, <1>2, <1>4, <1>9 DEF TokensOK, TokenHistory, IdentityOf

\* A step that changes one row, within its history.
LEMMA RowSet ==
    ASSUME IInv, NEW k \in Nodes, NEW r \in Row,
           row' = [row EXCEPT ![k] = r], GivenGrows, reached \subseteq reached',
           IdentityOf(r) \in given'[k],
           r.reachable => <<k, r.addr>> \in reached'
    PROVE  row' \in [Nodes -> Row \cup {NoRow}] /\ RowHistory'
<1>1. row \in [Nodes -> Row \cup {NoRow}]
    BY DEF IInv, TypeOK
<1>2. row' \in [Nodes -> Row \cup {NoRow}]
    BY <1>1
<1>3. \A j \in Nodes : row'[j] = IF j = k THEN r ELSE row[j]
    BY <1>1
<1>4. ASSUME NEW j \in Nodes, row'[j] # NoRow
      PROVE  /\ IdentityOf(row'[j]) \in given'[j]
             /\ row'[j].reachable => <<j, row'[j].addr>> \in reached'
    <2>1. CASE j = k
        BY <1>3, <2>1
    <2>2. CASE j # k
        <3>1. row'[j] = row[j] /\ Listed(j)
            BY <1>3, <1>4, <2>2 DEF Listed
        <3>2. /\ IdentityOf(row[j]) \in given[j]
              /\ row[j].reachable => <<j, row[j].addr>> \in reached
            BY <3>1 DEF IInv, RowHistory
        <3> QED BY <3>1, <3>2 DEF GivenGrows
    <2> QED BY <2>1, <2>2
<1> QED BY <1>2, <1>4 DEF RowHistory, Listed, IdentityOf

\* What the management has to keep up for everything to hold after its step.
LEMMA ManagedKeeps ==
    ASSUME IInv, Managed,
           row' \in [Nodes -> Row \cup {NoRow}], RowHistory',
           entitled' \subseteq Users \X Nets, expireAt' \in [Users -> Nat],
           reached' \subseteq Nodes \X Addrs, reached \subseteq reached', GivenGrows
    PROVE  IInv'
<1>1. /\ local' = local /\ tokens' = tokens /\ login' = login /\ answer' = answer
      /\ clock' = clock /\ Watch
    BY DEF Managed
<1>2. clock \in Nat
    BY DEF IInv, TypeOK
<1>3. /\ lastOK' \in [Users \X Nodes -> Int] /\ lastValid' \in [Users \X Nodes -> Int]
      /\ Watched'
    BY <1>1, <1>2, WatchFacts DEF IInv
<1>4. TokensOK'
    BY <1>1, <1>2, TokensKept
<1>5. TypeOK'
    BY <1>1, <1>3, <1>4 DEF IInv, TypeOK, TokensOK, GivenGrows
<1>6. LocalGiven'
    BY <1>1 DEF IInv, LocalGiven, GivenGrows
<1>7. OfferWasReached'
    BY <1>1 DEF IInv, OfferWasReached
<1> QED BY <1>3, <1>4, <1>5, <1>6, <1>7 DEF IInv, TokensOK

-----------------------------------------------------------------------------
(* The steps                                                               *)

\* A row gets an identity, with the rest of it new or as it was.
LEMMA GiveStep ==
    ASSUME IInv, NEW k \in Nodes, NEW r \in Row, Give(k, r),
           r.reachable => Listed(k) /\ row[k].reachable /\ r.addr = row[k].addr
    PROVE  IInv'
<1>1. /\ row' = [row EXCEPT ![k] = r]
      /\ given' = [given EXCEPT ![k] = @ \cup {IdentityOf(r)}]
      /\ reached' = reached /\ entitled' = entitled /\ expireAt' = expireAt /\ Managed
    BY DEF Give, OfNodes
<1>2. /\ given \in [Nodes -> SUBSET Identity] /\ entitled \subseteq Users \X Nets
      /\ reached \subseteq Nodes \X Addrs /\ expireAt \in [Users -> Nat]
    BY DEF IInv, TypeOK
<1>3. IdentityOf(r) \in Identity
    BY DEF Row, Identity, IdentityOf
<1>4. GivenGrows /\ IdentityOf(r) \in given'[k]
    BY <1>1, <1>2, <1>3 DEF GivenGrows
<1>5. r.reachable => <<k, r.addr>> \in reached'
    BY <1>1 DEF IInv, RowHistory
<1>6. row' \in [Nodes -> Row \cup {NoRow}] /\ RowHistory'
    BY <1>1, <1>4, <1>5, RowSet
<1> QED BY <1>1, <1>2, <1>4, <1>6, ManagedKeeps

LEMMA ManageStep == ASSUME IInv, Manage PROVE IInv'
<1>0. /\ row \in [Nodes -> Row \cup {NoRow}] /\ given \in [Nodes -> SUBSET Identity]
      /\ entitled \subseteq Users \X Nets /\ expireAt \in [Users -> Nat]
      /\ reached \subseteq Nodes \X Addrs /\ RowHistory
    BY DEF IInv, TypeOK
<1>g. given' = given => GivenGrows
    BY <1>0 DEF GivenGrows
<1>1. ASSUME NEW u \in Users, NEW n \in Nets, Entitle(u, n) \/ Forbid(u, n)
      PROVE  IInv'
    <2>1. /\ row' = row /\ reached' = reached /\ given' = given /\ expireAt' = expireAt
          /\ Managed /\ entitled' \subseteq Users \X Nets
        BY <1>0, <1>1 DEF Entitle, Forbid, OfUsers
    <2>2. RowHistory'
        BY <1>0, <2>1 DEF RowHistory, Listed
    <2> QED BY <1>0, <1>g, <2>1, <2>2, ManagedKeeps
<1>2. ASSUME NEW u \in Users, NEW at \in Expiries, SetExpiry(u, at)
      PROVE  IInv'
    <2>1. /\ row' = row /\ reached' = reached /\ given' = given /\ entitled' = entitled
          /\ Managed /\ expireAt' \in [Users -> Nat]
        BY <1>0, <1>2, DirectAssumption DEF SetExpiry, OfUsers
    <2>2. RowHistory'
        BY <1>0, <2>1 DEF RowHistory, Listed
    <2> QED BY <1>0, <1>g, <2>1, <2>2, ManagedKeeps
<1>3. ASSUME NEW k \in Nodes, NEW i \in Identity, NEW port \in BOOLEAN, AddNode(k, i, port)
      PROVE  IInv'
    <2> DEFINE r == [name |-> i.name, key |-> i.key, net |-> i.net, enabled |-> TRUE,
                     online |-> FALSE, direct |-> FALSE, port |-> port,
                     reachable |-> FALSE, addr |-> None]
    <2>1. r \in Row /\ r.reachable = FALSE
        BY DEF Row, Identity
    <2>2. Give(k, r)
        BY <1>3 DEF AddNode
    <2> HIDE DEF r
    <2> QED BY <2>1, <2>2, GiveStep
<1>4. ASSUME NEW k \in Nodes, NEW i \in Identity, NEW port \in BOOLEAN, EditNode(k, i, port)
      PROVE  IInv'
    <2> DEFINE r == [name |-> i.name, key |-> i.key, net |-> i.net,
                     enabled |-> row[k].enabled, online |-> row[k].online,
                     direct |-> row[k].direct, port |-> port,
                     reachable |-> row[k].reachable, addr |-> row[k].addr]
    <2>1. Listed(k) /\ row[k] \in Row
        BY <1>0, <1>4 DEF EditNode, Listed
    <2>2. r \in Row /\ r.reachable = row[k].reachable /\ r.addr = row[k].addr
        BY <2>1 DEF Row, Identity
    <2>3. Give(k, r)
        BY <1>4 DEF EditNode
    <2> HIDE DEF r
    <2> QED BY <2>1, <2>2, <2>3, GiveStep
<1>5. ASSUME NEW k \in Nodes, NEW b \in BOOLEAN, SetNodeEnabled(k, b) \/ SetNodeDirect(k, b)
      PROVE  IInv'
    <2>1. row[k] \in Row /\ Listed(k)
        BY <1>0, <1>5 DEF SetNodeEnabled, SetNodeDirect, Listed
    <2>2. PICK r \in Row : /\ row' = [row EXCEPT ![k] = r]
                           /\ IdentityOf(r) = IdentityOf(row[k])
                           /\ r.reachable = row[k].reachable /\ r.addr = row[k].addr
        <3>1. CASE SetNodeEnabled(k, b)
            <4> DEFINE r == [row[k] EXCEPT !.enabled = b, !.online = b /\ row[k].online]
            <4>1. r \in Row /\ IdentityOf(r) = IdentityOf(row[k])
                  /\ r.reachable = row[k].reachable /\ r.addr = row[k].addr
                BY <2>1 DEF Row, IdentityOf
            <4>2. row' = [row EXCEPT ![k] = r]
                BY <1>0, <3>1 DEF SetNodeEnabled
            <4> QED BY <4>1, <4>2
        <3>2. CASE SetNodeDirect(k, b)
            <4> DEFINE r == [row[k] EXCEPT !.direct = b]
            <4>1. r \in Row /\ IdentityOf(r) = IdentityOf(row[k])
                  /\ r.reachable = row[k].reachable /\ r.addr = row[k].addr
                BY <2>1 DEF Row, IdentityOf
            <4>2. row' = [row EXCEPT ![k] = r]
                BY <1>0, <3>2 DEF SetNodeDirect
            <4> QED BY <4>1, <4>2
        <3> QED BY <1>5, <3>1, <3>2
    <2>3. /\ entitled' = entitled /\ expireAt' = expireAt /\ reached' = reached
          /\ given' = given /\ Managed
        BY <1>5 DEF SetNodeEnabled, SetNodeDirect, OfNodes
    <2>4. IdentityOf(r) \in given'[k] /\ (r.reachable => <<k, r.addr>> \in reached')
        BY <1>0, <2>1, <2>2, <2>3 DEF RowHistory
    <2>5. row' \in [Nodes -> Row \cup {NoRow}] /\ RowHistory'
        BY <1>g, <2>2, <2>3, <2>4, RowSet
    <2> QED BY <1>0, <1>g, <2>3, <2>5, ManagedKeeps
<1>6. ASSUME NEW k \in Nodes, NEW a \in Addrs, NEW ok \in BOOLEAN, Probe(k, a, ok)
      PROVE  IInv'
    <2> DEFINE r == [row[k] EXCEPT !.reachable = ok, !.addr = a]
    <2>1. row[k] \in Row /\ Listed(k)
        BY <1>0, <1>6 DEF Probe, Listed
    <2>2. r \in Row /\ IdentityOf(r) = IdentityOf(row[k]) /\ r.reachable = ok /\ r.addr = a
        BY <2>1 DEF Row, IdentityOf
    <2>3. row' = [row EXCEPT ![k] = r]
        BY <1>0, <1>6 DEF Probe
    <2>4. /\ entitled' = entitled /\ expireAt' = expireAt /\ given' = given /\ Managed
          /\ reached' = IF ok THEN reached \cup {<<k, a>>} ELSE reached
        BY <1>6 DEF Probe, OfNodes
    <2> HIDE DEF r
    <2>5. reached \subseteq reached' /\ reached' \subseteq Nodes \X Addrs
        BY <1>0, <2>4
    <2>6. IdentityOf(r) \in given'[k] /\ (r.reachable => <<k, r.addr>> \in reached')
        BY <1>0, <2>1, <2>2, <2>4 DEF RowHistory
    <2>7. row' \in [Nodes -> Row \cup {NoRow}] /\ RowHistory'
        BY <1>g, <2>2, <2>3, <2>4, <2>5, <2>6, RowSet
    <2> QED BY <1>0, <1>g, <2>4, <2>5, <2>7, ManagedKeeps
<1>7. ASSUME NEW k \in Nodes, DeleteNode(k)
      PROVE  IInv'
    <2>1. /\ row' = [row EXCEPT ![k] = NoRow] /\ entitled' = entitled
          /\ expireAt' = expireAt /\ reached' = reached /\ given' = given /\ Managed
        BY <1>7 DEF DeleteNode, OfNodes
    <2>2. row' \in [Nodes -> Row \cup {NoRow}]
        BY <1>0, <2>1
    <2>3. \A j \in Nodes : row'[j] # NoRow => row'[j] = row[j]
        BY <1>0, <2>1
    <2>4. RowHistory'
        BY <1>0, <2>1, <2>3 DEF RowHistory, Listed, IdentityOf
    <2> QED BY <1>0, <1>g, <2>1, <2>2, <2>4, ManagedKeeps
<1> QED BY <1>1, <1>2, <1>3, <1>4, <1>5, <1>6, <1>7 DEF Manage

\* What a step that serves a request or a login still has to show.
LEMMA ServedKeeps ==
    ASSUME IInv, Served, TokensOK',
           login' \subseteq Users \X Nets,
           answer' \in Answer, OfferWasReached'
    PROVE  IInv'
<1>1. /\ row' = row /\ entitled' = entitled /\ expireAt' = expireAt /\ local' = local
      /\ clock' = clock /\ reached' = reached /\ given' = given /\ Watch
    BY DEF Served
<1>2. clock \in Nat
    BY DEF IInv, TypeOK
<1>3. /\ lastOK' \in [Users \X Nodes -> Int] /\ lastValid' \in [Users \X Nodes -> Int]
      /\ Watched'
    BY <1>1, <1>2, WatchFacts DEF IInv
<1>4. TypeOK'
    BY <1>1, <1>3 DEF IInv, TypeOK, TokensOK
<1>5. RowHistory' /\ LocalGiven'
    BY <1>1 DEF IInv, RowHistory, LocalGiven, Listed
<1> QED BY <1>3, <1>4, <1>5 DEF IInv, TokensOK

\* A step that serves without making a token.
LEMMA NoTokenMade ==
    ASSUME IInv, Served, tokens' = tokens
    PROVE  TokensOK'
<1>1. given' = given /\ clock' = clock /\ Watch
    BY DEF Served
<1>2. clock \in Nat /\ GivenGrows
    BY <1>1 DEF IInv, TypeOK, GivenGrows
<1> QED BY <1>1, <1>2, TokensKept

LEMMA IssueStep == ASSUME IInv, Issue PROVE IInv'
<1> USE DirectAssumption
<1>0. /\ login \subseteq Users \X Nets /\ answer \in Answer
      /\ row \in [Nodes -> Row \cup {NoRow}]
      /\ OfferWasReached /\ RowHistory
    BY DEF IInv, TypeOK
<1>1. PICK u \in Users, k \in Nodes, asked \in Asked, a \in Addrs \cup {None} :
          IssueToken(u, k, asked) \/ IssueStrategy(u, k, asked, a)
    BY DEF Issue
<1>2. Served /\ login' = login
    BY <1>1 DEF IssueToken, IssueStrategy
<1>3. Ttl(asked) \in 0..MaxTtl
    BY DEF Ttl
<1>4. reached' = reached
    BY <1>2 DEF Served
<1> DEFINE addr == IF a = None THEN row[k].addr ELSE a
<1>5. ASSUME Allowed(u, k), Make(u, k, Ttl(asked), FALSE)
      PROVE  TokensOK'
    BY <1>2, <1>3, <1>5, TokenMade
<1>6. CASE Allowed(u, k) /\ Make(u, k, Ttl(asked), FALSE) /\ answer' = answer
    <2>1. OfferWasReached'
        BY <1>0, <1>4, <1>6 DEF OfferWasReached
    <2> QED BY <1>0, <1>2, <1>5, <1>6, <2>1, ServedKeeps
<1>7. CASE /\ Allowed(u, k) /\ Make(u, k, Ttl(asked), FALSE) /\ row[k].reachable
           /\ answer' = [code |-> IF a = None THEN "direct" ELSE "as asked",
                         node |-> k, addr |-> addr]
    <2>1. Listed(k) /\ row[k] \in Row
        <3>1. row[k].enabled
            BY <1>7 DEF Allowed, Allows
        <3>2. row[k] # NoRow
            BY <3>1 DEF NoRow
        <3> QED BY <1>0, <3>2 DEF Listed
    <2>2. answer' \in Answer
        BY <1>7, <2>1 DEF Row, Answer
    <2>3. OfferWasReached'
        BY <1>0, <1>4, <1>7, <2>1 DEF OfferWasReached, RowHistory
    <2> QED BY <1>0, <1>2, <1>5, <1>7, <2>2, <2>3, ServedKeeps
<1>8. CASE tokens' = tokens /\ answer' = [code |-> "relay", node |-> None, addr |-> None]
    <2>1. answer' \in Answer /\ OfferWasReached'
        BY <1>8 DEF Answer, OfferWasReached
    <2> QED BY <1>0, <1>2, <1>8, <2>1, NoTokenMade, ServedKeeps
<1>9. CASE IssueToken(u, k, asked)
    BY <1>6, <1>9 DEF IssueToken
<1>10. CASE IssueStrategy(u, k, asked, a)
    BY <1>7, <1>8, <1>10 DEF IssueStrategy, Allowed, Allows
<1> QED BY <1>1, <1>9, <1>10

LEMMA LoginStep == ASSUME IInv, Login PROVE IInv'
<1> USE DirectAssumption
<1>0. /\ login \subseteq Users \X Nets /\ answer \in Answer
      /\ row \in [Nodes -> Row \cup {NoRow}]
      /\ OfferWasReached /\ RowHistory
    BY DEF IInv, TypeOK
<1>1. CASE LoginLost \/ \E u \in Users, n \in Nets : Authenticate(u, n)
    <2>0. Served /\ tokens' = tokens /\ answer' = answer
        BY <1>1 DEF LoginLost, Authenticate
    <2>1. reached' = reached /\ login' \subseteq Users \X Nets
        <3>1. reached' = reached
            BY <2>0 DEF Served
        <3>2. login' = {} \/ \E u \in Users, n \in Nets : login' = {<<u, n>>}
            BY <1>1 DEF LoginLost, Authenticate
        <3> QED BY <3>1, <3>2
    <2>2. OfferWasReached'
        BY <1>0, <2>0, <2>1 DEF OfferWasReached
    <2> QED BY <1>0, <2>0, <2>1, <2>2, NoTokenMade, ServedKeeps
<1>2. ASSUME NEW u \in Users, NEW n \in Nets, Attach(u, n)
      PROVE  IInv'
    <2>1. Served /\ login' = {} /\ reached' = reached
        BY <1>2 DEF Attach, Served
    <2>2. CASE tokens' = tokens
               /\ answer' = [code |-> "relay", node |-> None, addr |-> None]
        <3>1. answer' \in Answer /\ OfferWasReached'
            BY <2>2 DEF Answer, OfferWasReached
        <3> QED BY <2>1, <2>2, <3>1, NoTokenMade, ServedKeeps
    <2>3. ASSUME NEW k \in Candidates(u, n),
                 answer' = [code |-> IF Makeable(k) THEN "direct" ELSE "failed",
                            node |-> k, addr |-> row[k].addr],
                 IF Makeable(k) THEN Make(u, k, LoginTtl, TRUE) ELSE UNCHANGED tokens
          PROVE  IInv'
        <3>1. /\ k \in Nodes /\ Listed(k) /\ Allowed(u, k) /\ Current(expireAt[u], clock)
              /\ row[k].reachable
            BY DEF Candidates
        <3>2. row[k] \in Row
            BY <1>0, <3>1 DEF Listed
        <3>3. row[k].addr \in Addrs \cup {None}
            BY <3>2 DEF Row
        <3>4. answer' \in Answer
            BY <2>3, <3>1, <3>3 DEF Answer
        <3>5. OfferWasReached'
            BY <1>0, <2>1, <2>3, <3>1 DEF OfferWasReached, RowHistory
        <3>6. LoginTtl \in 0..MaxTtl /\ LoginTtl <= LoginTtl
            OBVIOUS
        <3>7. CASE Makeable(k)
            <4>1. Make(u, k, LoginTtl, TRUE)
                BY <2>3, <3>7
            <4>2. TokensOK'
                BY <2>1, <3>1, <3>6, <4>1, TokenMade
            <4> QED BY <2>1, <3>4, <3>5, <4>2, ServedKeeps
        <3>8. CASE ~Makeable(k)
            <4>1. tokens' = tokens
                BY <2>3, <3>8
            <4> QED BY <2>1, <3>4, <3>5, <4>1, NoTokenMade, ServedKeeps
        <3> QED BY <3>7, <3>8
    <2> QED BY <1>2, <2>2, <2>3 DEF Attach
<1> QED BY <1>1, <1>2 DEF Login

\* What is left: the node's process connects or leaves, or a second passes.
LEMMA NodeStep ==
    ASSUME IInv, NEW k \in Nodes, NodeConnects(k) \/ NodeLeaves(k)
    PROVE  IInv'
<1>0. /\ row \in [Nodes -> Row \cup {NoRow}]
      /\ local \in [Nodes -> Identity \cup {NoLocal}]
      /\ given \in [Nodes -> SUBSET Identity]
      /\ clock \in Nat /\ RowHistory /\ LocalGiven
    BY DEF IInv, TypeOK
<1>1. row[k] \in Row /\ Listed(k)
    BY <1>0 DEF NodeConnects, NodeLeaves, Listed
<1>2. PICK b \in BOOLEAN : row' = [row EXCEPT ![k] = [row[k] EXCEPT !.online = b]]
    <2>1. CASE NodeConnects(k)
        BY <1>0, <2>1 DEF NodeConnects
    <2>2. CASE NodeLeaves(k)
        BY <1>0, <2>2 DEF NodeLeaves
    <2> QED BY <2>1, <2>2
<1> DEFINE r == [row[k] EXCEPT !.online = b]
<1>3. /\ r \in Row /\ IdentityOf(r) = IdentityOf(row[k])
      /\ r.reachable = row[k].reachable /\ r.addr = row[k].addr
    BY <1>1 DEF Row, IdentityOf
<1>4. /\ entitled' = entitled /\ expireAt' = expireAt /\ tokens' = tokens
      /\ login' = login /\ answer' = answer /\ clock' = clock /\ reached' = reached
      /\ given' = given /\ Watch
    BY DEF NodeConnects, NodeLeaves
<1>5. row' = [row EXCEPT ![k] = r]
    BY <1>2
<1> HIDE DEF r
<1>6. GivenGrows
    BY <1>0, <1>4 DEF GivenGrows
<1>7. IdentityOf(row[k]) \in given[k]
    BY <1>0, <1>1 DEF RowHistory
<1>8. row' \in [Nodes -> Row \cup {NoRow}] /\ RowHistory'
    <2>1. IdentityOf(r) \in given'[k] /\ (r.reachable => <<k, r.addr>> \in reached')
        BY <1>0, <1>1, <1>3, <1>4 DEF RowHistory
    <2> QED BY <1>3, <1>4, <1>5, <1>6, <2>1, RowSet
<1>9. /\ lastOK' \in [Users \X Nodes -> Int] /\ lastValid' \in [Users \X Nodes -> Int]
      /\ Watched'
    BY <1>0, <1>4, WatchFacts DEF IInv
<1>10. TokensOK'
    BY <1>0, <1>4, <1>6, TokensKept
<1>11. local' \in [Nodes -> Identity \cup {NoLocal}] /\ LocalGiven'
    <2>1. CASE NodeConnects(k)
        <3>1. IdentityOf(row[k]) \in Identity
            BY <1>1 DEF Row, Identity, IdentityOf
        <3>2. local' = [local EXCEPT ![k] = IdentityOf(row[k])]
            BY <2>1 DEF NodeConnects
        <3> QED BY <1>0, <1>4, <1>7, <3>1, <3>2 DEF LocalGiven
    <2>2. CASE NodeLeaves(k)
        BY <1>0, <1>4, <2>2 DEF NodeLeaves, LocalGiven
    <2> QED BY <2>1, <2>2
<1>12. TypeOK'
    BY <1>4, <1>8, <1>9, <1>10, <1>11 DEF IInv, TypeOK, TokensOK
<1>13. OfferWasReached'
    BY <1>4 DEF IInv, OfferWasReached
<1> QED BY <1>8, <1>9, <1>10, <1>11, <1>12, <1>13 DEF IInv, TokensOK

LEMMA TickStep == ASSUME IInv, Tick PROVE IInv'
<1>1. /\ row' = row /\ entitled' = entitled /\ expireAt' = expireAt /\ local' = local
      /\ tokens' = tokens /\ login' = login /\ answer' = answer /\ reached' = reached
      /\ given' = given /\ clock' = clock + 1 /\ Watch
    BY DEF Tick
<1>2. clock \in Nat
    BY DEF IInv, TypeOK
<1>3. clock' \in Nat /\ clock <= clock'
    BY <1>1, <1>2
<1>4. GivenGrows
    BY <1>1 DEF IInv, TypeOK, GivenGrows
<1>5. /\ lastOK' \in [Users \X Nodes -> Int] /\ lastValid' \in [Users \X Nodes -> Int]
      /\ Watched'
    BY <1>1, <1>3, WatchFacts DEF IInv
<1>6. TokensOK'
    BY <1>1, <1>3, <1>4, TokensKept
<1>7. TypeOK'
    BY <1>1, <1>3, <1>5, <1>6 DEF IInv, TypeOK, TokensOK
<1>8. RowHistory' /\ LocalGiven' /\ OfferWasReached'
    BY <1>1 DEF IInv, RowHistory, LocalGiven, Listed, OfferWasReached
<1> QED BY <1>5, <1>6, <1>7, <1>8 DEF IInv, TokensOK

-----------------------------------------------------------------------------
(* The theorems                                                            *)

\* The server's start: no node, no token, nothing offered.
LEMMA InitInv == Init => IInv
<1> USE DirectAssumption
<1> SUFFICES ASSUME Init PROVE IInv
    OBVIOUS
<1>1. TypeOK
    BY DEF Init, TypeOK, Answer
<1>2. RowHistory /\ LocalGiven
    BY DEF Init, RowHistory, LocalGiven, Listed
<1>3. ASSUME NEW u \in Users, NEW k \in Nodes
      PROVE  /\ lastOK[<<u, k>>] <= clock /\ lastValid[<<u, k>>] <= clock
             /\ ~Allowed(u, k)
    <2>1. lastOK[<<u, k>>] = 0 - MaxTtl /\ lastValid[<<u, k>>] = 0 - MaxTtl /\ clock = 0
        BY DEF Init
    <2>2. row[k].enabled = FALSE
        BY DEF Init, NoRow
    <2> QED BY <2>1, <2>2 DEF Allowed, Allows
<1>4. Watched /\ TokenHistory
    BY <1>3 DEF Watched, TokenHistory, Init
<1>5. OfferWasReached
    BY DEF Init, OfferWasReached
<1> QED BY <1>1, <1>2, <1>4, <1>5 DEF IInv

LEMMA NextInv == IInv /\ [Next]_vars => IInv'
<1> SUFFICES ASSUME IInv, [Next]_vars PROVE IInv'
    OBVIOUS
<1>1. CASE Next
    BY <1>1, ManageStep, IssueStep, LoginStep, NodeStep, TickStep DEF Next
<1>2. CASE UNCHANGED vars
    BY <1>2 DEF vars, IInv, TypeOK, RowHistory, LocalGiven, Watched, TokenHistory, Allowed,
                Listed, OfferWasReached
<1> QED BY <1>1, <1>2

\* The inductive invariant holds in every behaviour.
THEOREM Invariance == Spec => []IInv
BY InitInv, NextInv, PTL DEF Spec

\* Every variable keeps its shape, and no token has more than MaxTtl to live.
THEOREM TypeCorrect == Spec => []TypeOK
<1>1. IInv => TypeOK
    BY DEF IInv
<1> QED BY <1>1, Invariance, PTL

\* A node accepts a token made for another one only if its own row once had that
\* node's name, key and network together, however the management moves them
\* about: what the node compares is one identity, read from its row at once.
THEOREM TokensForTheirNode == Spec => []TokenForNode
<1>1. IInv => TokenForNode
    <2> SUFFICES ASSUME IInv, NEW t \in tokens, NEW k \in Nodes, Verify(k, t)
                 PROVE  IdentityOf(t) \in given[t.by] \cap given[k]
        BY DEF TokenForNode
    <2>1. local[k] \in Identity /\ local[k] \in given[k]
        BY DEF IInv, TypeOK, LocalGiven, Verify
    <2>2. IdentityOf(t) = local[k]
        BY <2>1 DEF Identity, IdentityOf, Verify, Signed
    <2>3. IdentityOf(t) \in given[t.by]
        BY DEF IInv, TokenHistory
    <2> QED BY <2>1, <2>2, <2>3
<1> QED BY <1>1, Invariance, PTL

\* A revocation of any kind is in force after MaxTtl seconds at the latest,
\* though the node is never told and a request may ask for any life.
THEOREM RevocationBounded == Spec => []RevocationBound
<1>1. IInv => RevocationBound
    <2> SUFFICES ASSUME IInv, NEW t \in tokens, NEW k \in Nodes, Verify(k, t)
                 PROVE  clock < lastOK[<<t.user, t.by>>] + MaxTtl
        BY DEF RevocationBound
    <2>1. /\ t \in Token /\ clock \in Nat /\ lastOK \in [Users \X Nodes -> Int]
        BY DEF IInv, TypeOK
    <2>2. t.user \in Users /\ t.by \in Nodes /\ t.expire \in Nat
        BY <2>1 DEF Token
    <2>3. lastOK[<<t.user, t.by>>] \in Int
        BY <2>1, <2>2
    <2>4. clock < t.expire /\ t.expire <= lastOK[<<t.user, t.by>>] + MaxTtl
        BY DEF IInv, TokenHistory, Verify
    <2> QED BY <2>1, <2>2, <2>3, <2>4, DirectAssumption
<1> QED BY <1>1, Invariance, PTL

\* A login's token is of no use LoginTtl seconds after its user was last allowed
\* and had not expired: expire_at is tested again when the token is made.
THEOREM LoginsBounded == Spec => []LoginBound
<1>1. IInv => LoginBound
    <2> SUFFICES ASSUME IInv, NEW t \in tokens, NEW k \in Nodes, Verify(k, t), t.login
                 PROVE  clock < lastValid[<<t.user, t.by>>] + LoginTtl
        BY DEF LoginBound
    <2>1. /\ t \in Token /\ clock \in Nat /\ lastValid \in [Users \X Nodes -> Int]
        BY DEF IInv, TypeOK
    <2>2. t.user \in Users /\ t.by \in Nodes /\ t.expire \in Nat
        BY <2>1 DEF Token
    <2>3. lastValid[<<t.user, t.by>>] \in Int
        BY <2>1, <2>2
    <2>4. clock < t.expire /\ t.expire <= lastValid[<<t.user, t.by>>] + LoginTtl
        BY DEF IInv, TokenHistory, Verify
    <2> QED BY <2>1, <2>2, <2>3, <2>4, DirectAssumption
<1> QED BY <1>1, Invariance, PTL

\* An address that is offered was reached by a probe for the node it is
\* offered for.
THEOREM OffersWereReached == Spec => []OfferWasReached
<1>1. IInv => OfferWasReached
    BY DEF IInv
<1> QED BY <1>1, Invariance, PTL
=============================================================================
