--------------------------- MODULE TapHubHistory ----------------------------
(***************************************************************************)
(* TapHub with history variables, for the properties that speak of what    *)
(* happened over several seconds: how often an address moved between       *)
(* sessions and how much a network was flooded.  Record only observes the  *)
(* steps of TapHub; it never restricts them.                               *)
(***************************************************************************)
EXTENDS TapHub

VARIABLES
    moved,     \* moved[a][s]: moves of a's entry by handlers whose time was in Span(s)
    setBacks,  \* setBacks[a][s]: how often a late handler set its window back over Span(s)
    floods,    \* floods[n][t]: frames flooded in network n by handlers whose time was t
    rewinds    \* how often a late handler set a network's rate window back

history == <<moved, setBacks, floods, rewinds>>

Addresses == Networks \X Macs
Times == 1..MaxTime

\* As many moves as two adjacent move windows can hold.
TwoWindows == 2 * (FreezeThreshold - 1)

\* The seconds from s on that are no further than a move window apart.
Span(s) == s..(s + MoveWindow)

HistoryInit ==
    /\ Init
    /\ moved = [a \in Addresses |-> [s \in Times |-> 0]]
    /\ setBacks = [a \in Addresses |-> [s \in Times |-> 0]]
    /\ floods = [n \in Networks |-> [t \in Times |-> 0]]
    /\ rewinds = [n \in Networks |-> 0]

\* The entry of address a before and after a step, if it has moved since it was
\* made: an entry that was forgotten and learned again starts from nothing.
Kept(a) ==
    {c \in Binding(mac, a[1], a[2]) \X Binding(mac', a[1], a[2]) : c[2].moves > 0}

\* The entry moved, by a handler whose time was in the span from s on.
MovedIn(c, s) == c[1].fd # c[2].fd /\ c[2].seen \in Span(s)

\* The entry's move window went back, from one that ended no earlier than the
\* span from s on begins to one that begins no later than the span ends.
SetBackOver(c, s) ==
    /\ c[2].window < c[1].window
    /\ s <= c[1].window + MoveWindow
    /\ c[2].window <= s + MoveWindow

\* A count of address a after the step, which is one more if it hit.
Tally(a, count, hit) == IF Kept(a) = {} THEN 0 ELSE IF hit THEN count + 1 ELSE count

\* The frame a flood step relayed.
Flooded == IF out'.mode = "flood" THEN pending \ pending' ELSE {}

Record ==
    /\ moved' = [a \in Addresses |-> [s \in Times |->
          Tally(a, moved[a][s], \E c \in Kept(a) : MovedIn(c, s))]]
    /\ setBacks' = [a \in Addresses |-> [s \in Times |->
          Tally(a, setBacks[a][s], \E c \in Kept(a) : SetBackOver(c, s))]]
    /\ floods' = [n \in Networks |-> [t \in Times |->
          floods[n][t] + Cardinality({p \in Flooded : authNet[p.fd] = n /\ p.now = t})]]
    /\ rewinds' = [n \in Networks |->
          rewinds[n] + IF rates'[n].sec < rates[n].sec THEN 1 ELSE 0]

HistorySpec == HistoryInit /\ [][Next /\ Record]_<<vars, history>>

-----------------------------------------------------------------------------

\* The freeze really damps a flapping address.  However the sessions that claim
\* it interleave, in no span of MoveWindow seconds is its entry moved more often
\* than two windows of mac_learn_locked allow (one is not the bound: windows are
\* fixed, not sliding), plus as often again for every time a handler that had
\* read the clock before the window began set the window back over the span.
MoveDamping ==
    \A a \in Addresses, s \in Times : moved[a][s] <= TwoWindows * (1 + setBacks[a][s])

\* In any second a network is flooded with at most broadcast_limit_pps frames,
\* plus one further budget for every time a handler that had read the clock
\* before the second ended came late to the mutex and set the window back.
NetworkFloodBudget ==
    \A n \in Networks, t \in Times :
        \E c \in Configs : floods[n][t] <= c.netLimit * (1 + rewinds[n])
=============================================================================
