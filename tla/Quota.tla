------------------------------- MODULE Quota -------------------------------
(***************************************************************************)
(* What the rate limiter promises each actor: once it is served, a window  *)
(* opens for it; Max requests are served in a window and the rest of them  *)
(* refused; a window closes when its time is up, and closed windows leave  *)
(* nothing behind.  Actors do not share a window.                          *)
(***************************************************************************)
EXTENDS Naturals

CONSTANTS
    Key,       \* the actors and source addresses requests are counted under
    Max,       \* RATE_LIMIT_MAX
    WindowMs   \* RATE_LIMIT_WINDOW_MS, in ticks

VARIABLES
    now,       \* the clock
    used,      \* requests served in the open window of each key, 0 if none
    closesAt,  \* when that window closes, 0 if there is none
    verdict    \* the last decision: which key, and whether it is served

vars == <<now, used, closesAt, verdict>>

Init ==
    /\ now = 0
    /\ used = [k \in Key |-> 0]
    /\ closesAt = [k \in Key |-> 0]
    /\ verdict = [key |-> CHOOSE k \in Key : TRUE, allowed |-> TRUE]

Serve(k) ==
    /\ used[k] < Max
    /\ used' = [used EXCEPT ![k] = @ + 1]
    /\ closesAt' = [closesAt EXCEPT ![k] = IF used[k] = 0 THEN now + WindowMs ELSE @]
    /\ verdict' = [key |-> k, allowed |-> TRUE]
    /\ UNCHANGED now

Refuse(k) ==
    /\ used[k] = Max
    /\ verdict' = [key |-> k, allowed |-> FALSE]
    /\ UNCHANGED <<now, used, closesAt>>

Tick ==
    /\ now' = now + 1
    /\ used' = [k \in Key |-> IF now' < closesAt[k] THEN used[k] ELSE 0]
    /\ closesAt' = [k \in Key |-> IF now' < closesAt[k] THEN closesAt[k] ELSE 0]
    /\ UNCHANGED verdict

Next == Tick \/ \E k \in Key : Serve(k) \/ Refuse(k)

Spec == Init /\ [][Next]_vars

=============================================================================
