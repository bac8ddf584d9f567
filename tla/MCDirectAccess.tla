-------------------------- MODULE MCDirectAccess --------------------------
(***************************************************************************)
(* Instances of DirectAccess for TLC.                                      *)
(***************************************************************************)
EXTENDS DirectAccess, TLC

MCAsked == {1, 4}
MCExpiries == {0, 1}

Symmetry == Permutations(Nodes) \cup Permutations(Users) \cup Permutations(Nets)
            \cup Permutations(Keys) \cup Permutations(Addrs)

\* No step and no property of the run reads what a login was told, or what
\* probes ever reached.
View == <<row, entitled, expireAt, local, tokens, login, clock, given, lastOK, lastValid>>

\* One node with one identity, while time passes, or several that take names and
\* keys from each other within a second, with tokens that the management made.
OneNode ==
    /\ Cardinality({k \in Nodes : given[k] # {}}) <= 1
    /\ \A k \in Nodes : Cardinality(given[k]) <= 1
OneSecond ==
    /\ clock = 0 /\ login = {}
    /\ \A k \in Nodes : Cardinality(given[k]) <= 2 /\ (Listed(k) => row[k].addr = None)
    /\ \A u \in Users : expireAt[u] = 0
Bounded == OneNode \/ OneSecond
=============================================================================
