---------------------------- MODULE RateLimiter ----------------------------
(***************************************************************************)
(* The fixed-window rate limiter of the security gate: a map from key to   *)
(* the window it is in, consulted by every gated request, and swept of     *)
(* expired windows by setInterval.  check and sweep run to completion in   *)
(* one turn; the clock moves between turns, forwards only.  Time is counted *)
(* in ticks: the clock stops at MaxTime, and requests stop one window      *)
(* earlier, or when MaxRequests have been made.                            *)
(***************************************************************************)
EXTENDS Naturals

CONSTANTS
    Key,          \* actor names, and addr:<ip> for public paths
    Max,          \* RATE_LIMIT_MAX
    WindowMs,     \* RATE_LIMIT_WINDOW_MS, in ticks
    MaxTime,      \* bound: the clock stops here
    MaxRequests   \* bound: requests in a behaviour

ASSUME RateLimiterAssumption ==
    /\ Key # {}
    /\ Max \in Nat \ {0}
    /\ WindowMs \in Nat \ {0}
    /\ MaxTime \in Nat
    /\ MaxRequests \in Nat

VARIABLES
    now,       \* Date.now()
    windows,   \* the window of each key, NoWindow when the map has no entry
    verdict,   \* what the last check decided, and for which key
    requests   \* history: how many requests have been checked

vars == <<now, windows, verdict, requests>>

Window == [windowStartedAt : 0..MaxTime, count : 1..MaxRequests]

NoWindow == [windowStartedAt |-> 0, count |-> 0]

TypeOK ==
    /\ now \in 0..MaxTime
    /\ windows \in [Key -> Window \cup {NoWindow}]
    /\ verdict \in [key : Key, allowed : BOOLEAN]
    /\ requests \in 0..MaxRequests

Init ==
    /\ now = 0
    /\ windows = [k \in Key |-> NoWindow]
    /\ verdict = [key |-> CHOOSE k \in Key : TRUE, allowed |-> TRUE]
    /\ requests = 0

-----------------------------------------------------------------------------

IsOver(w) == now >= w.windowStartedAt + WindowMs

IsLive(k) == windows[k] # NoWindow /\ ~IsOver(windows[k])

\* The two answers.
Allows(k) == verdict' = [key |-> k, allowed |-> TRUE]

Refuses(k) == verdict' = [key |-> k, allowed |-> FALSE]

\* Mutant: the request that opens a window is not counted in it.
CheckOpensAtZero(k) ==
    /\ requests < MaxRequests
    /\ now + WindowMs <= MaxTime
    /\ requests' = requests + 1
    /\ IF ~IsLive(k)
       THEN /\ windows' = [windows EXCEPT ![k] = [windowStartedAt |-> now, count |-> 0]]
            /\ Allows(k)
       ELSE /\ windows' = [windows EXCEPT ![k].count = @ + 1]
            /\ IF windows[k].count < Max THEN Allows(k) ELSE Refuses(k)
    /\ UNCHANGED now

\* The first request of a window is always served; the others are counted,
\* served or not, and served up to Max.
Check(k) ==
    /\ requests < MaxRequests
    /\ now + WindowMs <= MaxTime
    /\ requests' = requests + 1
    /\ IF ~IsLive(k)
       THEN /\ windows' = [windows EXCEPT ![k] = [windowStartedAt |-> now, count |-> 1]]
            /\ Allows(k)
       ELSE /\ windows' = [windows EXCEPT ![k].count = @ + 1]
            /\ IF windows[k].count < Max THEN Allows(k) ELSE Refuses(k)
    /\ UNCHANGED now

\* Mutant: the sweep passes over the keys that were refused.
SweepSkipsRefused ==
    /\ windows' = [k \in Key |-> IF IsOver(windows[k]) /\ windows[k].count <= Max
                                 THEN NoWindow ELSE windows[k]]
    /\ UNCHANGED <<now, verdict, requests>>

\* The timer's sweep: every expired window leaves the map.
Sweep ==
    /\ windows' = [k \in Key |-> IF IsOver(windows[k]) THEN NoWindow ELSE windows[k]]
    /\ UNCHANGED <<now, verdict, requests>>

Tick ==
    /\ now < MaxTime
    /\ now' = now + 1
    /\ UNCHANGED <<windows, verdict, requests>>

-----------------------------------------------------------------------------

Next == Tick \/ Sweep \/ \E k \in Key : Check(k)

Spec == Init /\ [][Next]_vars

\* The clock advances and the timer keeps firing; requests need not come.
FairSpec == Spec /\ WF_vars(Tick) /\ WF_vars(Sweep)

-----------------------------------------------------------------------------
(* Properties.                                                             *)

\* The map does not keep one entry per key for ever: when requests stop, it
\* drains.
MapDrains == <>[](\A k \in Key : windows[k] = NoWindow)

\* The limiter is a Quota of its live windows: entries that have expired and
\* have not been swept, and counts beyond Max, make no difference.
Used(k) ==
    IF IsLive(k) THEN IF windows[k].count < Max THEN windows[k].count ELSE Max
                 ELSE 0

ClosesAt(k) == IF IsLive(k) THEN windows[k].windowStartedAt + WindowMs ELSE 0

Q == INSTANCE Quota WITH used <- [k \in Key |-> Used(k)],
                         closesAt <- [k \in Key |-> ClosesAt(k)]

\* Every decision of the limiter is one the abstract quota makes: it serves a
\* key while its window has room and refuses it only when the window is full
\* of that key's own requests.
KeepsQuota == Q!Spec

=============================================================================
