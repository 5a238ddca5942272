---------------------------- MODULE GateProofs ----------------------------
(***************************************************************************)
(* Theorems of RateLimiter and of Gate, which extends it, for any          *)
(* operators, addresses and tokens and any bounds.  The limiter implements *)
(* Quota, for which one has to know that no window starts in the future;   *)
(* the gate uses it as its specification allows, so that what is proved of *)
(* the limiter holds of the gate, and the retry-after that it answers is   *)
(* enough.                                                                 *)
(***************************************************************************)
EXTENDS Gate, SequenceTheorems, FiniteSetTheorems, WellFoundedInduction, TLAPS

-----------------------------------------------------------------------------
(* The limiter by itself.                                                  *)

\* A window is as old as its first request, and counts no request twice.
WindowInv ==
    \A k \in Key : /\ windows[k].windowStartedAt <= now
                   /\ windows[k].count <= requests

IInv == TypeOK /\ WindowInv

LEMMA InvInit == Init => IInv
<1> SUFFICES ASSUME Init PROVE IInv
  OBVIOUS
<1>1. (CHOOSE k \in Key : TRUE) \in Key
  BY RateLimiterAssumption
<1> QED
  BY <1>1, RateLimiterAssumption DEF Init, IInv, TypeOK, WindowInv, NoWindow

LEMMA InvStep == IInv /\ [Next]_vars => IInv'
<1> SUFFICES ASSUME IInv, [Next]_vars PROVE IInv'
  OBVIOUS
<1> USE RateLimiterAssumption DEF IInv, TypeOK, WindowInv, Window, NoWindow
<1>1. ASSUME NEW k \in Key, Check(k) PROVE IInv'
  <2>1. /\ requests' = requests + 1 /\ requests < MaxRequests
        /\ now' = now
        /\ Allows(k) \/ Refuses(k)
    BY <1>1 DEF Check
  <2>2. PICK w \in Window :
          /\ windows' = [windows EXCEPT ![k] = w]
          /\ w.windowStartedAt <= now /\ w.count <= requests + 1
    <3>1. CASE ~IsLive(k)
      <4> DEFINE w == [windowStartedAt |-> now, count |-> 1]
      <4>1. w \in Window /\ w.windowStartedAt <= now /\ w.count <= requests + 1
        BY <2>1
      <4>2. windows' = [windows EXCEPT ![k] = w]
        BY <1>1, <3>1 DEF Check
      <4> HIDE DEF w
      <4> QED
        BY <4>1, <4>2
    <3>2. CASE IsLive(k)
      <4> DEFINE w == [windowStartedAt |-> windows[k].windowStartedAt,
                       count |-> windows[k].count + 1]
      <4>1. windows[k] \in Window
        BY <3>2 DEF IsLive
      <4>2. w \in Window /\ w.windowStartedAt <= now /\ w.count <= requests + 1
        BY <2>1, <4>1
      <4>3. windows' = [windows EXCEPT ![k] = w]
        BY <1>1, <3>2, <4>1 DEF Check
      <4> HIDE DEF w
      <4> QED
        BY <4>2, <4>3
    <3> QED
      BY <3>1, <3>2
  <2>3. verdict' \in [key : Key, allowed : BOOLEAN]
    <3>1. CASE Allows(k)
      BY <3>1 DEF Allows
    <3>2. CASE Refuses(k)
      BY <3>2 DEF Refuses
    <3> QED
      BY <2>1, <3>1, <3>2
  <2> QED
    BY <2>1, <2>2, <2>3
<1>2. ASSUME Sweep PROVE IInv'
  BY <1>2 DEF Sweep
<1>3. ASSUME Tick PROVE IInv'
  BY <1>3 DEF Tick
<1>4. CASE UNCHANGED vars
  BY <1>4 DEF vars
<1> QED
  BY <1>1, <1>2, <1>3, <1>4 DEF Next

LEMMA Invariance == Spec => []IInv
  BY InvInit, InvStep, PTL DEF Spec

\* Every variable keeps its type, whatever requests come and whenever the
\* timer sweeps.
THEOREM TypeCorrect == Spec => []TypeOK
<1>1. IInv => TypeOK
  BY DEF IInv
<1> QED
  BY <1>1, Invariance, PTL

-----------------------------------------------------------------------------
\* The quota starts with every window closed.
LEMMA RefinesInit == Init => Q!Init
  BY DEF Init, Q!Init, Used, ClosesAt, IsLive, NoWindow

\* A request is served or refused as the quota would.
LEMMA RefinesCheck ==
  ASSUME IInv, NEW k \in Key, Check(k)
  PROVE  Q!Serve(k) \/ Q!Refuse(k)
<1>1. /\ \A j \in Key \ {k} : windows'[j] = windows[j]
      /\ now' = now /\ now \in Nat
      /\ windows \in [Key -> Window \cup {NoWindow}]
  BY RateLimiterAssumption DEF Check, IInv, TypeOK
<1>2. \A j \in Key \ {k} : Used(j)' = Used(j) /\ ClosesAt(j)' = ClosesAt(j)
  BY <1>1 DEF Used, ClosesAt, IsLive, IsOver
<1>3. CASE ~IsLive(k)
  <2>1. windows'[k] = [windowStartedAt |-> now, count |-> 1] /\ Allows(k)
    BY <1>1, <1>3 DEF Check
  <2>2. Used(k) = 0 /\ Used(k)' = 1 /\ ClosesAt(k)' = now + WindowMs
    BY <1>1, <1>3, <2>1, RateLimiterAssumption DEF Used, ClosesAt, IsLive, IsOver, NoWindow
  <2>3. Used(k) < Max /\ Used(k)' = Used(k) + 1
    BY <2>2, RateLimiterAssumption
  <2> QED
    BY <1>1, <1>2, <2>1, <2>2, <2>3 DEF Q!Serve, Allows
<1>4. CASE IsLive(k)
  <2>1. /\ windows'[k].windowStartedAt = windows[k].windowStartedAt
        /\ windows'[k].count = windows[k].count + 1
        /\ windows[k] \in Window
        /\ IF windows[k].count < Max THEN Allows(k) ELSE Refuses(k)
    BY <1>1, <1>4 DEF Check, IsLive, Window
  <2>2. IsLive(k)'
    BY <1>1, <1>4, <2>1 DEF IsLive, IsOver, Window, NoWindow
  <2>3. ClosesAt(k)' = ClosesAt(k)
    BY <1>4, <2>1, <2>2 DEF ClosesAt
  <2>4. CASE windows[k].count < Max
    <3>1. Used(k) < Max /\ Used(k) # 0 /\ Used(k)' = Used(k) + 1
      BY <1>4, <2>1, <2>2, <2>4, RateLimiterAssumption DEF Used, Window
    <3>2. Allows(k)
      BY <2>1, <2>4
    <3> QED
      BY <1>1, <1>2, <2>3, <3>1, <3>2 DEF Q!Serve, Allows
  <2>5. CASE ~(windows[k].count < Max)
    <3>1. Used(k) = Max /\ Used(k)' = Used(k)
      BY <1>4, <2>1, <2>2, <2>5, RateLimiterAssumption DEF Used, Window
    <3>2. Refuses(k)
      BY <2>1, <2>5
    <3> QED
      BY <1>1, <1>2, <2>3, <3>1, <3>2 DEF Q!Refuse, Refuses
  <2> QED
    BY <2>4, <2>5
<1> QED
  BY <1>3, <1>4

\* Sweeping an expired window changes nothing the quota can see.
LEMMA RefinesSweep ==
  ASSUME IInv, Sweep
  PROVE  UNCHANGED Q!vars
<1>1. \A k \in Key : Used(k)' = Used(k) /\ ClosesAt(k)' = ClosesAt(k)
  BY DEF IInv, TypeOK, Sweep, Used, ClosesAt, IsLive, IsOver, NoWindow
<1>2. UNCHANGED <<now, verdict>>
  BY DEF Sweep
<1> QED
  BY <1>1, <1>2 DEF Q!vars

\* When the clock moves, exactly the windows whose time is up close.
LEMMA RefinesTick ==
  ASSUME IInv, Tick
  PROVE  Q!Tick
<1>1. /\ now' = now + 1
      /\ UNCHANGED <<windows, verdict>>
      /\ now \in Nat
  BY DEF Tick, IInv, TypeOK
<1>2. ASSUME NEW k \in Key
      PROVE  /\ Used(k)' = IF now' < ClosesAt(k) THEN Used(k) ELSE 0
             /\ ClosesAt(k)' = IF now' < ClosesAt(k) THEN ClosesAt(k) ELSE 0
  BY <1>1, RateLimiterAssumption
     DEF IInv, TypeOK, Window, NoWindow, Used, ClosesAt, IsLive, IsOver
<1> QED
  BY <1>1, <1>2 DEF Q!Tick

LEMMA RefinesStep == IInv /\ [Next]_vars => [Q!Next]_(Q!vars)
<1> SUFFICES ASSUME IInv, [Next]_vars PROVE [Q!Next]_(Q!vars)
  OBVIOUS
<1>1. CASE UNCHANGED vars
  BY <1>1 DEF vars, Q!vars, Used, ClosesAt, IsLive, IsOver
<1> QED
  BY <1>1, RefinesCheck, RefinesSweep, RefinesTick DEF Next, Q!Next

\* The limiter implements the abstract quota: neither entries that have
\* expired and wait for a sweep, nor the sweep, nor counts beyond Max can be
\* told from the decisions it makes.
THEOREM ImplementsQuota == Spec => KeepsQuota
  BY RefinesInit, RefinesStep, Invariance, PTL DEF Spec, KeepsQuota, Q!Spec

-----------------------------------------------------------------------------
(* The key a request is counted under.                                     *)

LEMMA LessThanIsWellFounded ==
  \A x, y \in Nat : x < y <=> <<x, y>> \in OpToRel(<, Nat)
  BY DEF OpToRel

LEMMA SmallestElement ==
  ASSUME NEW T, T \subseteq Nat, T # {}
  PROVE  \E x \in T : \A y \in T : x <= y
<1>1. PICK x \in T : \A y \in T : ~(<<y, x>> \in OpToRel(<, Nat))
  BY NatLessThanWellFounded, WFMin
<1>2. ASSUME NEW y \in T PROVE x <= y
  <2>1. x \in Nat /\ y \in Nat
    OBVIOUS
  <2>2. ~(y < x)
    BY <1>1, <2>1, LessThanIsWellFounded
  <2> QED
    BY <2>1, <2>2
<1> QED
  BY <1>2

LEMMA LargestElement ==
  ASSUME NEW n \in Nat, NEW T, T \subseteq 1..n, T # {}
  PROVE  \E x \in T : \A y \in T : y <= x
<1> DEFINE D == {n - x : x \in T}
<1>1. D \subseteq Nat /\ D # {}
  <2>1. \A x \in T : x \in Nat /\ n - x \in Nat
    OBVIOUS
  <2>2. D \subseteq Nat
    BY <2>1
  <2>3. PICK x \in T : TRUE
    OBVIOUS
  <2>4. n - x \in D
    BY <2>3
  <2> QED
    BY <2>2, <2>4
<1>2. PICK d \in D : \A e \in D : d <= e
  BY <1>1, SmallestElement
<1>3. PICK x \in T : d = n - x
  BY <1>2
<1>4. ASSUME NEW y \in T PROVE y <= x
  <2>1. n - y \in D
    OBVIOUS
  <2> HIDE DEF D
  <2>2. n - x <= n - y
    BY <1>2, <1>3, <2>1
  <2> QED
    BY <2>2
<1> QED
  BY <1>4

\* A token that somebody has names an operator.
LEMMA ActorIsKey ==
  ASSUME NEW supplied, actorFor(supplied) # Absent
  PROVE  actorFor(supplied) \in Actor
<1> DEFINE matches == {i \in DOMAIN tokens : tokens[i].value = supplied}
<1>1. matches # {}
  BY DEF actorFor
<1>2. Len(tokens) \in Nat /\ DOMAIN tokens = 1..Len(tokens)
  BY GateAssumption
<1>3. \E i \in matches : \A j \in matches : j <= i
  <2> HIDE DEF matches
  <2>1. matches \subseteq 1..Len(tokens)
    BY <1>2 DEF matches
  <2> QED
    BY <1>1, <1>2, <2>1, LargestElement
<1> DEFINE last == CHOOSE i \in matches : \A j \in matches : j <= i
<1>4. last \in matches /\ last \in DOMAIN tokens
  BY <1>3
<1>5. actorFor(supplied) = tokens[last].name
  BY <1>1 DEF actorFor
<1> HIDE DEF last
<1>6. tokens[last] \in [name : Actor, value : Token]
  BY <1>4, ElementOfSeq, <1>2, GateAssumption
<1> QED
  BY <1>5, <1>6

\* What is counted is counted under a key of the limiter, and that is who
\* sent it.
LEMMA KeyIsCaller ==
  ASSUME NEW r \in Request, r.path = "api" => actorFor(r.token) # Absent,
         r.path # "asset"
  PROVE  KeyOf(r) \in Key /\ Caller(r) = KeyOf(r)
<1>1. CASE r.path = "ping"
  BY <1>1, GateAssumption DEF Request, KeyOf, Caller
<1>2. CASE r.path = "api"
  BY <1>2, ActorIsKey, GateAssumption DEF KeyOf, Caller
<1> QED
  BY <1>1, <1>2 DEF Request

-----------------------------------------------------------------------------
(* The gate and the limiter.                                               *)

\* The ways through the hook.
LEMMA OnRequestCases ==
  ASSUME NEW r \in Request, onRequest(r)
  PROVE  \/ UNCHANGED <<vars, retryAt, admitted>>
         \/ Counts(r) /\ KeyOf(r) \in Key /\ Caller(r) = KeyOf(r)
  BY KeyIsCaller DEF onRequest, Uncounted

LEMMA GateStepIsStep == [GateNext]_gateVars => [Next]_vars
<1> SUFFICES ASSUME [GateNext]_gateVars PROVE [Next]_vars
  OBVIOUS
<1>1. CASE Clock
  BY <1>1 DEF Clock, Next
<1>2. CASE Sweeper
  BY <1>2 DEF Sweeper, Next
<1>3. ASSUME NEW r \in Request, onRequest(r) PROVE [Next]_vars
  BY <1>3, OnRequestCases DEF Counts, Next
<1>4. CASE UNCHANGED gateVars
  BY <1>4 DEF gateVars
<1> QED
  BY <1>1, <1>2, <1>3, <1>4 DEF GateNext

LEMMA GateUsesLimiter == GateSpec => Spec
<1>1. GateInit => Init
  BY DEF GateInit
<1> QED
  BY <1>1, GateStepIsStep, PTL DEF GateSpec, Spec

\* The gate keeps the quota of every operator and every address: whatever
\* headers requests carry, each decision is one of the abstract quota.
THEOREM GateImplementsQuota == GateSpec => KeepsQuota
  BY GateUsesLimiter, ImplementsQuota, PTL

-----------------------------------------------------------------------------
(* The retry-after header.                                                 *)

\* Rounded up and waited for, a wait covers what is left of the window.
LEMMA CeilingCovers ==
  ASSUME NEW left \in Nat, NEW second \in Nat \ {0}
  PROVE  /\ (left + second - 1) \div second \in Nat
         /\ left <= second * ((left + second - 1) \div second)
<1> DEFINE a == left + second - 1
           q == a \div second
<1>1. a \in Nat
  OBVIOUS
<1>2. a = second * q + (a % second) /\ a % second \in 0..second - 1 /\ q \in Nat
  BY <1>1, Z3
<1> QED
  BY <1>2

\* No wait that was answered ends before the window it was answered in.
RetryInv ==
    /\ retryAt \in [Key -> Nat]
    /\ \A c \in Key :
          retryAt[c] # 0 /\ IsLive(c) =>
              windows[c].windowStartedAt + WindowMs <= retryAt[c]

LEMMA RetryInit == GateInit => RetryInv
  BY DEF GateInit, RetryInv

\* A refusal is one of a live window, which it does not move.
LEMMA RefusedIsLive ==
  ASSUME IInv, NEW k \in Key, Check(k), ~verdict'.allowed
  PROVE  /\ IsLive(k)
         /\ windows'[k].windowStartedAt = windows[k].windowStartedAt
         /\ windows[k].windowStartedAt + WindowMs - now \in Nat
<1>1. IsLive(k)
  BY DEF Check, Allows
<1>2. windows[k] \in Window /\ windows \in [Key -> Window \cup {NoWindow}]
  BY <1>1 DEF IInv, TypeOK, IsLive
<1>3. windows'[k].windowStartedAt = windows[k].windowStartedAt
  BY <1>1, <1>2 DEF Check, Window
<1>4. /\ now \in Nat /\ WindowMs \in Nat
      /\ windows[k].windowStartedAt \in Nat
  BY <1>2, RateLimiterAssumption DEF IInv, TypeOK, Window
<1>5. now < windows[k].windowStartedAt + WindowMs
  BY <1>1, <1>4 DEF IsLive, IsOver
<1> QED
  BY <1>1, <1>3, <1>4, <1>5

\* The answer of a refusal covers what is left of the window.
LEMMA RetryAfterCovers ==
  ASSUME IInv, NEW k \in Key, Check(k), ~verdict'.allowed
  PROVE  /\ RetryAfter(k) \in Nat
         /\ windows[k].windowStartedAt + WindowMs
              <= now + Second * RetryAfter(k)
<1> DEFINE left == windows[k].windowStartedAt + WindowMs - now
<1>1. left \in Nat /\ left = windows'[k].windowStartedAt + WindowMs - now
  BY RefusedIsLive
<1>2. now \in Nat /\ Second \in Nat \ {0}
  BY GateAssumption DEF IInv, TypeOK
<1>3. windows[k].windowStartedAt + WindowMs = now + left
  <2>1. windows[k].windowStartedAt \in Nat /\ WindowMs \in Nat
    <3>1. windows[k] \in Window
      BY RefusedIsLive DEF IInv, TypeOK, IsLive
    <3> QED
      BY <3>1, RateLimiterAssumption DEF Window
  <2> QED
    BY <1>2, <2>1
<1>4. RetryAfter(k) = IF left < Second THEN 1
                      ELSE (left + Second - 1) \div Second
  BY <1>1 DEF RetryAfter
<1> HIDE DEF left
<1>5. RetryAfter(k) \in Nat /\ left <= Second * RetryAfter(k)
  <2>1. CASE left < Second
    BY <1>1, <1>2, <1>4, <2>1
  <2>2. CASE ~(left < Second)
    BY <1>1, <1>2, <1>4, <2>2, CeilingCovers
  <2> QED
    BY <2>1, <2>2
<1>6. Second * RetryAfter(k) \in Nat
  BY <1>2, <1>5
<1> QED
  BY <1>1, <1>2, <1>3, <1>5, <1>6

LEMMA RetryStep == IInv /\ RetryInv /\ [GateNext]_gateVars => RetryInv'
<1> SUFFICES ASSUME IInv, RetryInv, [GateNext]_gateVars PROVE RetryInv'
  OBVIOUS
<1>1. CASE Clock
  <2>1. now' = now + 1 /\ now \in Nat /\ UNCHANGED <<windows, retryAt>>
    BY <1>1 DEF Clock, Tick, IInv, TypeOK
  <2>2. ASSUME NEW c \in Key, IsLive(c)' PROVE IsLive(c)
    <3>1. windows[c] # NoWindow /\ ~(now + 1 >= windows[c].windowStartedAt + WindowMs)
      BY <2>1, <2>2 DEF IsLive, IsOver
    <3>2. windows[c].windowStartedAt + WindowMs \in Nat
      BY <3>1, RateLimiterAssumption DEF IInv, TypeOK, Window
    <3> QED
      BY <2>1, <3>1, <3>2 DEF IsLive, IsOver
  <2> QED
    BY <2>1, <2>2 DEF RetryInv
<1>2. CASE Sweeper
  <2>1. UNCHANGED <<now, retryAt>>
    BY <1>2 DEF Sweeper, Sweep
  <2>2. ASSUME NEW c \in Key, IsLive(c)'
        PROVE  IsLive(c) /\ windows'[c] = windows[c]
    BY <1>2, <2>1, <2>2 DEF Sweeper, Sweep, IsLive, IsOver
  <2> QED
    BY <2>1, <2>2 DEF RetryInv
<1>3. ASSUME NEW r \in Request, onRequest(r) PROVE RetryInv'
  <2>1. CASE UNCHANGED <<vars, retryAt, admitted>>
    BY <2>1 DEF RetryInv, vars, IsLive, IsOver
  <2>2. CASE Counts(r) /\ KeyOf(r) \in Key /\ Caller(r) = KeyOf(r)
    <3> DEFINE k == KeyOf(r)
    <3>1. k \in Key /\ Check(k) /\ Caller(r) = k
      BY <2>2 DEF Counts
    <3>2. \/ retryAt' = [retryAt EXCEPT ![k] = 0]
          \/ /\ ~verdict'.allowed
             /\ retryAt' = [retryAt EXCEPT ![k] = now + Second * RetryAfter(k)]
      BY <2>2 DEF Counts
    <3> HIDE DEF k
    <3>3. /\ now' = now
          /\ \A c \in Key \ {k} : windows'[c] = windows[c]
      BY <3>1 DEF Check, IInv, TypeOK
    <3>4. ASSUME NEW c \in Key \ {k}, retryAt' \in [Key -> Nat],
                 retryAt'[c] = retryAt[c], retryAt'[c] # 0, IsLive(c)'
          PROVE  windows'[c].windowStartedAt + WindowMs <= retryAt'[c]
      BY <3>3, <3>4 DEF RetryInv, IsLive, IsOver
    <3>5. CASE retryAt' = [retryAt EXCEPT ![k] = 0]
      <4>1. retryAt' \in [Key -> Nat] /\ retryAt'[k] = 0
        BY <3>1, <3>5 DEF RetryInv
      <4>2. \A c \in Key \ {k} : retryAt'[c] = retryAt[c]
        BY <3>5 DEF RetryInv
      <4> QED
        BY <3>4, <4>1, <4>2 DEF RetryInv
    <3>6. CASE /\ ~verdict'.allowed
               /\ retryAt' = [retryAt EXCEPT ![k] = now + Second * RetryAfter(k)]
      <4>1. /\ RetryAfter(k) \in Nat
            /\ windows[k].windowStartedAt + WindowMs
                 <= now + Second * RetryAfter(k)
            /\ windows'[k].windowStartedAt = windows[k].windowStartedAt
        BY <3>1, <3>6, RetryAfterCovers, RefusedIsLive
      <4>2. now + Second * RetryAfter(k) \in Nat
        BY <4>1, GateAssumption DEF IInv, TypeOK
      <4>3. /\ retryAt' \in [Key -> Nat]
            /\ retryAt'[k] = now + Second * RetryAfter(k)
            /\ \A c \in Key \ {k} : retryAt'[c] = retryAt[c]
        BY <3>1, <3>6, <4>2 DEF RetryInv
      <4>4. windows'[k].windowStartedAt + WindowMs <= retryAt'[k]
        BY <4>1, <4>3
      <4> QED
        BY <3>4, <4>3, <4>4 DEF RetryInv
    <3> QED
      BY <3>2, <3>5, <3>6
  <2> QED
    BY <1>3, <2>1, <2>2, OnRequestCases
<1>4. CASE UNCHANGED gateVars
  BY <1>4 DEF gateVars, vars, RetryInv, IsLive, IsOver
<1> QED
  BY <1>1, <1>2, <1>3, <1>4 DEF GateNext

\* Whoever comes back when the 429 answer said finds a new window, for every
\* length of a window, also one that is no whole number of seconds.
THEOREM RetryAfterSuffices == GateSpec => []RetryAfterIsEnough
<1>1. IInv /\ RetryInv => RetryAfterIsEnough
  <2> SUFFICES ASSUME IInv, RetryInv, NEW c \in Key, retryAt[c] # 0,
                      now >= retryAt[c], IsLive(c)
               PROVE  FALSE
    BY DEF RetryAfterIsEnough
  <2>1. windows[c] \in Window
    BY DEF IInv, TypeOK, IsLive
  <2>2. /\ now \in Nat /\ retryAt[c] \in Nat
        /\ windows[c].windowStartedAt + WindowMs \in Nat
    BY <2>1, RateLimiterAssumption DEF IInv, TypeOK, RetryInv, Window
  <2>3. windows[c].windowStartedAt + WindowMs <= retryAt[c]
    BY DEF RetryInv
  <2> QED
    BY <2>2, <2>3 DEF IsLive, IsOver
<1>2. GateSpec => []IInv
  BY GateUsesLimiter, Invariance, PTL
<1> QED
  BY <1>1, <1>2, RetryInit, RetryStep, PTL DEF GateSpec

-----------------------------------------------------------------------------
(* Counting under one's own name.                                          *)

\* What the limiter and the gate do with a request that is counted.
LEMMA CheckFacts ==
  ASSUME IInv, NEW k \in Key, Check(k)
  PROVE  /\ now' = now /\ requests' = requests + 1 /\ requests' \in 1..MaxRequests
         /\ now + WindowMs <= MaxTime
         /\ \A c \in Key \ {k} : windows'[c] = windows[c]
         /\ \/ /\ ~IsLive(k) /\ verdict'.allowed
               /\ windows'[k] = [windowStartedAt |-> now, count |-> 1]
            \/ /\ IsLive(k) /\ windows[k] \in Window
               /\ windows'[k].windowStartedAt = windows[k].windowStartedAt
               /\ windows'[k].count = windows[k].count + 1
               /\ verdict'.allowed <=> windows[k].count < Max
<1>1. /\ now' = now /\ requests' = requests + 1 /\ requests' \in 1..MaxRequests
      /\ now + WindowMs <= MaxTime
      /\ windows \in [Key -> Window \cup {NoWindow}]
  BY RateLimiterAssumption DEF Check, IInv, TypeOK
<1>2. CASE ~IsLive(k)
  <2>1. windows' = [windows EXCEPT ![k] = [windowStartedAt |-> now, count |-> 1]]
    BY <1>2 DEF Check
  <2>2. verdict'.allowed
    BY <1>2 DEF Check, Allows
  <2> QED
    BY <1>1, <1>2, <2>1, <2>2
<1>3. CASE IsLive(k)
  <2>1. windows[k] \in Window
    BY <1>1, <1>3 DEF IsLive
  <2>2. windows' = [windows EXCEPT ![k].count = windows[k].count + 1]
    BY <1>3 DEF Check
  <2>3. verdict'.allowed <=> windows[k].count < Max
    BY <1>3 DEF Check, Allows, Refuses
  <2>4. /\ windows'[k].windowStartedAt = windows[k].windowStartedAt
        /\ windows'[k].count = windows[k].count + 1
    BY <1>1, <2>1, <2>2 DEF Window
  <2>5. \A c \in Key \ {k} : windows'[c] = windows[c]
    BY <1>1, <2>2
  <2> QED
    BY <1>1, <1>3, <2>1, <2>3, <2>4, <2>5
<1> QED
  BY <1>2, <1>3

LEMMA CountsFacts ==
  ASSUME NEW r \in Request, Counts(r), KeyOf(r) \in Key, Caller(r) = KeyOf(r)
  PROVE  \E k \in Key :
            /\ Check(k)
            /\ \/ /\ verdict'.allowed
                  /\ answer' = [caller |-> k, status |-> "passed"]
                  /\ retryAt' = [retryAt EXCEPT ![k] = 0]
                  /\ admitted' = [admitted EXCEPT
                        ![k] = admitted[k] \cup {[number |-> requests', at |-> now]}]
               \/ /\ ~verdict'.allowed
                  /\ answer' = [caller |-> k, status |-> "rate_limited"]
                  /\ retryAt' = [retryAt EXCEPT ![k] = now + Second * RetryAfter(k)]
                  /\ admitted' = admitted
<1> DEFINE k == KeyOf(r)
<1>1. k \in Key /\ Caller(r) = k /\ Check(k)
  BY DEF Counts
<1>2. \/ /\ verdict'.allowed
         /\ answer' = [caller |-> k, status |-> "passed"]
         /\ retryAt' = [retryAt EXCEPT ![k] = 0]
         /\ admitted' = [admitted EXCEPT
               ![k] = admitted[k] \cup {[number |-> requests', at |-> now]}]
      \/ /\ ~verdict'.allowed
         /\ answer' = [caller |-> k, status |-> "rate_limited"]
         /\ retryAt' = [retryAt EXCEPT ![k] = now + Second * RetryAfter(k)]
         /\ admitted' = admitted
  BY DEF Counts
<1> HIDE DEF k
<1> QED
  BY <1>1, <1>2

\* A window that is over does not come back, and one that stays is the same.
LEMMA LiveBefore ==
  ASSUME IInv, Clock \/ Sweeper, NEW c \in Key, IsLive(c)'
  PROVE  IsLive(c) /\ windows'[c] = windows[c] /\ windows[c] \in Window
<1>1. CASE Clock
  <2>1. now' = now + 1 /\ now \in Nat /\ windows' = windows
    BY <1>1 DEF Clock, Tick, IInv, TypeOK
  <2>2. windows[c] # NoWindow /\ ~(now + 1 >= windows[c].windowStartedAt + WindowMs)
    BY <2>1 DEF IsLive, IsOver
  <2>3. windows[c] \in Window /\ windows[c].windowStartedAt + WindowMs \in Nat
    BY <2>2, RateLimiterAssumption DEF IInv, TypeOK, Window
  <2> QED
    BY <2>1, <2>2, <2>3 DEF IsLive, IsOver
<1>2. CASE Sweeper
  <2>1. now' = now
    BY <1>2 DEF Sweeper, Sweep
  <2>2. IsLive(c) /\ windows'[c] = windows[c]
    BY <1>2, <2>1 DEF Sweeper, Sweep, IsLive, IsOver
  <2> QED
    BY <2>2 DEF IInv, TypeOK, IsLive
<1> QED
  BY <1>1, <1>2

\* What got through for c since its window was opened.
InWindow(c) == {x \in admitted[c] : x.at >= windows[c].windowStartedAt}

\* What a window has counted, up to the maximum, got through for its own key
\* and is still remembered.
OwnInv ==
    /\ admitted \in [Key -> SUBSET Admission]
    /\ \A c \in Key :
          /\ IsFiniteSet(admitted[c])
          /\ \A x \in admitted[c] : x.number <= requests
          /\ IsLive(c) => \/ windows[c].count <= Cardinality(InWindow(c))
                          \/ Max <= Cardinality(InWindow(c))

LEMMA OwnInit == GateInit => OwnInv
<1> SUFFICES ASSUME GateInit PROVE OwnInv
  OBVIOUS
<1>1. \A c \in Key : admitted[c] = {} /\ ~IsLive(c)
  BY DEF GateInit, Init, IsLive
<1> QED
  BY <1>1, FS_EmptySet DEF GateInit, OwnInv

\* A request that gets through is one more.
LEMMA AdmittedIsMore ==
  ASSUME IInv, OwnInv, NEW k \in Key, Check(k), verdict'.allowed,
         admitted' = [admitted EXCEPT
            ![k] = admitted[k] \cup {[number |-> requests', at |-> now]}]
  PROVE  OwnInv'
<1> DEFINE x == [number |-> requests', at |-> now]
<1>1. /\ now' = now /\ requests' = requests + 1 /\ requests' \in 1..MaxRequests
      /\ requests \in Nat /\ now \in 0..MaxTime /\ now \in Nat
      /\ \A c \in Key \ {k} : windows'[c] = windows[c]
  BY CheckFacts DEF IInv, TypeOK
<1>2. x \in Admission /\ x \notin admitted[k] /\ x.number = requests' /\ x.at = now
  BY <1>1 DEF OwnInv, Admission
<1> HIDE DEF x
<1>3. /\ admitted' \in [Key -> SUBSET Admission]
      /\ admitted'[k] = admitted[k] \cup {x}
      /\ \A c \in Key \ {k} : admitted'[c] = admitted[c]
  BY <1>2 DEF OwnInv, x
<1>4. ASSUME NEW c \in Key PROVE IsFiniteSet(admitted'[c])
  BY <1>3, <1>4, FS_AddElement DEF OwnInv
<1>5. ASSUME NEW c \in Key, NEW y \in admitted'[c] PROVE y.number <= requests'
  <2>1. y \in admitted[c] \/ y.number = requests'
    BY <1>2, <1>3, <1>5
  <2>2. y \in Admission
    BY <1>3, <1>5
  <2>3. y.number \in Nat
    BY <2>2, RateLimiterAssumption DEF Admission
  <2> QED
    BY <1>1, <2>1, <2>3 DEF OwnInv
<1>6. ASSUME NEW c \in Key \ {k}, IsLive(c)'
      PROVE  \/ windows'[c].count <= Cardinality(InWindow(c)')
             \/ Max <= Cardinality(InWindow(c)')
  <2>1. IsLive(c) /\ windows'[c] = windows[c] /\ InWindow(c)' = InWindow(c)
    BY <1>1, <1>3, <1>6 DEF IsLive, IsOver, InWindow
  <2> QED
    BY <2>1 DEF OwnInv
<1>7. \/ windows'[k].count <= Cardinality(InWindow(k)')
      \/ Max <= Cardinality(InWindow(k)')
  <2>1. IsFiniteSet(InWindow(k)') /\ Cardinality(InWindow(k)') \in Nat
    <3>1. InWindow(k)' \subseteq admitted'[k]
      BY DEF InWindow
    <3> QED
      BY <1>4, <3>1, FS_Subset, FS_CardinalityType
  <2>2. CASE /\ ~IsLive(k)
             /\ windows'[k] = [windowStartedAt |-> now, count |-> 1]
    <3>1. x \in InWindow(k)'
      BY <1>1, <1>2, <1>3, <2>2 DEF InWindow
    <3>2. Cardinality(InWindow(k)') # 0
      BY <2>1, <3>1, FS_EmptySet
    <3> QED
      BY <2>1, <2>2, <3>2
  <2>3. CASE /\ IsLive(k) /\ windows[k] \in Window
             /\ windows'[k].windowStartedAt = windows[k].windowStartedAt
             /\ windows'[k].count = windows[k].count + 1
    <3>1. windows[k].windowStartedAt <= now /\ windows[k].count \in Nat
      BY <2>3, RateLimiterAssumption DEF IInv, WindowInv, Window
    <3>2. InWindow(k)' = InWindow(k) \cup {x}
      BY <1>2, <1>3, <2>3, <3>1 DEF InWindow
    <3>3. IsFiniteSet(InWindow(k)) /\ x \notin InWindow(k)
      <4>1. InWindow(k) \subseteq admitted[k] /\ IsFiniteSet(admitted[k])
        BY DEF OwnInv, InWindow
      <4> QED
        BY <1>2, <4>1, FS_Subset
    <3>4. /\ Cardinality(InWindow(k)) \in Nat
          /\ Cardinality(InWindow(k)') = Cardinality(InWindow(k)) + 1
      BY <3>2, <3>3, FS_AddElement, FS_CardinalityType
    <3>5. \/ windows[k].count <= Cardinality(InWindow(k))
          \/ Max <= Cardinality(InWindow(k))
      BY <2>3 DEF OwnInv
    <3> QED
      BY <2>3, <3>1, <3>4, <3>5, RateLimiterAssumption
  <2> QED
    BY <2>2, <2>3, CheckFacts
<1> QED
  BY <1>3, <1>4, <1>5, <1>6, <1>7 DEF OwnInv

\* A request that is refused finds its window full.
LEMMA RefusedIsFull ==
  ASSUME IInv, OwnInv, NEW k \in Key, Check(k), ~verdict'.allowed
  PROVE  Max <= Cardinality(InWindow(k))
<1>1. IsLive(k) /\ windows[k] \in Window /\ ~(windows[k].count < Max)
  BY CheckFacts
<1>2. IsFiniteSet(InWindow(k)) /\ Cardinality(InWindow(k)) \in Nat
  <2>1. InWindow(k) \subseteq admitted[k] /\ IsFiniteSet(admitted[k])
    BY DEF OwnInv, InWindow
  <2> QED
    BY <2>1, FS_Subset, FS_CardinalityType
<1> QED
  BY <1>1, <1>2, RateLimiterAssumption DEF OwnInv, Window

\* Nobody else's window or requests are touched by a refusal.
LEMMA RefusedIsNotMore ==
  ASSUME IInv, OwnInv, NEW k \in Key, Check(k), ~verdict'.allowed, admitted' = admitted
  PROVE  OwnInv'
<1>1. /\ now' = now /\ requests' = requests + 1 /\ requests \in Nat
      /\ \A c \in Key \ {k} : windows'[c] = windows[c]
      /\ windows'[k].windowStartedAt = windows[k].windowStartedAt
  BY CheckFacts DEF IInv, TypeOK
<1>2. \A c \in Key : InWindow(c)' = InWindow(c)
  BY <1>1 DEF InWindow
<1>3. ASSUME NEW c \in Key, NEW y \in admitted[c] PROVE y.number <= requests'
  <2>1. y.number \in Nat
    BY <1>3, RateLimiterAssumption DEF OwnInv, Admission
  <2> QED
    BY <1>1, <1>3, <2>1 DEF OwnInv
<1>4. \A c \in Key \ {k} : IsLive(c)' => IsLive(c)
  BY <1>1 DEF IsLive, IsOver
<1>5. Max <= Cardinality(InWindow(k))
  BY RefusedIsFull
<1> QED
  BY <1>1, <1>2, <1>3, <1>4, <1>5 DEF OwnInv

\* The clock forgets nothing that a live window has counted.
LEMMA ClockForgetsTheOld ==
  ASSUME IInv, OwnInv, Clock
  PROVE  OwnInv'
<1>1. /\ now' = now + 1 /\ now \in Nat /\ windows' = windows /\ requests' = requests
      /\ admitted' = [c \in Key |-> {x \in admitted[c] : x.at + WindowMs > now'}]
  BY DEF Clock, Tick, IInv, TypeOK
<1>2. \A c \in Key : admitted'[c] \subseteq admitted[c]
  BY <1>1
<1>3. admitted' \in [Key -> SUBSET Admission]
  BY <1>1 DEF OwnInv
<1>4. \A c \in Key : IsFiniteSet(admitted'[c])
  BY <1>2, FS_Subset DEF OwnInv
<1>5. ASSUME NEW c \in Key, IsLive(c)'
      PROVE  IsLive(c) /\ InWindow(c)' = InWindow(c)
  <2>1. IsLive(c) /\ windows[c] \in Window
    BY <1>5, LiveBefore
  <2>2. /\ ~(now' >= windows[c].windowStartedAt + WindowMs)
        /\ windows[c].windowStartedAt \in Nat /\ WindowMs \in Nat /\ now' \in Nat
    BY <1>1, <1>5, <2>1, RateLimiterAssumption DEF IsLive, IsOver, Window
  <2>3. ASSUME NEW x \in admitted[c], x.at >= windows[c].windowStartedAt
        PROVE  x.at + WindowMs > now'
    <3>1. x.at \in Nat
      BY <2>3, RateLimiterAssumption DEF OwnInv, Admission
    <3> QED
      BY <2>2, <2>3, <3>1
  <2>4. InWindow(c)' = {x \in admitted'[c] : x.at >= windows[c].windowStartedAt}
    BY <1>1 DEF InWindow
  <2> QED
    BY <1>1, <2>1, <2>3, <2>4 DEF InWindow
<1> QED
  BY <1>1, <1>2, <1>3, <1>4, <1>5 DEF OwnInv

LEMMA OwnStep == IInv /\ OwnInv /\ [GateNext]_gateVars => OwnInv'
<1> SUFFICES ASSUME IInv, OwnInv, [GateNext]_gateVars PROVE OwnInv'
  OBVIOUS
<1>1. ASSUME UNCHANGED <<vars, admitted>> PROVE OwnInv'
  BY <1>1 DEF OwnInv, InWindow, vars, IsLive, IsOver
<1>2. CASE Clock
  BY <1>2, ClockForgetsTheOld
<1>3. CASE Sweeper
  <2>1. requests' = requests /\ admitted' = admitted
    BY <1>3 DEF Sweeper, Sweep
  <2>2. \A c \in Key : IsLive(c)' => IsLive(c) /\ windows'[c] = windows[c]
    BY <1>3, LiveBefore
  <2>3. \A c \in Key : IsLive(c)' => InWindow(c)' = InWindow(c)
    BY <2>1, <2>2 DEF InWindow
  <2> QED
    BY <2>1, <2>2, <2>3 DEF OwnInv
<1>4. ASSUME NEW r \in Request, Counts(r), KeyOf(r) \in Key, Caller(r) = KeyOf(r)
      PROVE  OwnInv'
  BY <1>4, CountsFacts, AdmittedIsMore, RefusedIsNotMore
<1>5. ASSUME NEW r \in Request, onRequest(r) PROVE OwnInv'
  BY <1>1, <1>4, <1>5, OnRequestCases
<1>6. CASE UNCHANGED gateVars
  BY <1>1, <1>6 DEF gateVars
<1> QED
  BY <1>2, <1>3, <1>5, <1>6 DEF GateNext

\* Whoever is refused has had Max requests of its own let through within the
\* last window, for any operators behind any addresses: no request is counted
\* under another's key, and none that was not let through.
THEOREM OnlyOwnBudget == GateSpec => OwnBudgetOnly
<1>1. IInv /\ OwnInv /\ [GateNext]_gateVars =>
        [requests' # requests /\ answer'.status = "rate_limited" =>
            Cardinality(admitted[answer'.caller]) >= Max]_gateVars
  <2> SUFFICES ASSUME IInv, OwnInv, [GateNext]_gateVars,
                      requests' # requests, answer'.status = "rate_limited"
               PROVE  Cardinality(admitted[answer'.caller]) >= Max
    OBVIOUS
  <2>1. ASSUME NEW r \in Request, Counts(r), KeyOf(r) \in Key, Caller(r) = KeyOf(r)
        PROVE  Cardinality(admitted[answer'.caller]) >= Max
    <3>1. PICK k \in Key : /\ Check(k) /\ ~verdict'.allowed
                           /\ answer'.caller = k
      BY <2>1, CountsFacts
    <3>2. Max <= Cardinality(InWindow(k))
      BY <3>1, RefusedIsFull
    <3>3. InWindow(k) \subseteq admitted[k] /\ IsFiniteSet(admitted[k])
      BY DEF OwnInv, InWindow
    <3>4. /\ Cardinality(InWindow(k)) <= Cardinality(admitted[k])
          /\ Cardinality(InWindow(k)) \in Nat /\ Cardinality(admitted[k]) \in Nat
      BY <3>3, FS_Subset, FS_CardinalityType
    <3> QED
      BY <3>1, <3>2, <3>4, RateLimiterAssumption
  <2>2. CASE Clock
    BY <2>2 DEF Clock, Tick
  <2>3. CASE Sweeper
    BY <2>3 DEF Sweeper, Sweep
  <2>4. ASSUME NEW r \in Request, onRequest(r)
        PROVE  Cardinality(admitted[answer'.caller]) >= Max
    BY <2>1, <2>4, OnRequestCases DEF vars
  <2>5. CASE UNCHANGED gateVars
    BY <2>5 DEF gateVars, vars
  <2> QED
    BY <2>2, <2>3, <2>4, <2>5 DEF GateNext
<1>2. GateSpec => []IInv
  BY GateUsesLimiter, Invariance, PTL
<1> QED
  BY <1>1, <1>2, OwnInit, OwnStep, PTL DEF GateSpec, OwnBudgetOnly

-----------------------------------------------------------------------------
(* The types of the gate.                                                  *)

\* The last window closes before the clock stops, so that a wait that is
\* answered is no longer than that.
AnswerInv ==
    /\ GateTypeOK
    /\ \A c \in Key : windows[c] # NoWindow =>
                         windows[c].windowStartedAt + WindowMs <= MaxTime

LEMMA CeilingExceeds ==
  ASSUME NEW left \in Nat, NEW second \in Nat \ {0}
  PROVE  second * ((left + second - 1) \div second) <= left + second - 1
<1> DEFINE a == left + second - 1
           q == a \div second
<1>1. a \in Nat
  OBVIOUS
<1>2. a = second * q + (a % second) /\ a % second \in 0..second - 1 /\ q \in Nat
  BY <1>1, Z3
<1> QED
  BY <1>2

\* The longest wait.
LEMMA RetryAfterBounded ==
  ASSUME IInv, AnswerInv, NEW k \in Key, Check(k), ~verdict'.allowed
  PROVE  now + Second * RetryAfter(k) \in 0..MaxTime + Second
<1> DEFINE left == windows[k].windowStartedAt + WindowMs - now
<1>1. left \in Nat /\ left = windows'[k].windowStartedAt + WindowMs - now
  BY RefusedIsLive
<1>2. now \in 0..MaxTime /\ Second \in Nat \ {0} /\ MaxTime \in Nat
  BY GateAssumption, RateLimiterAssumption DEF IInv, TypeOK
<1>3. now + left <= MaxTime
  <2>1. windows[k] # NoWindow /\ windows[k] \in Window
    BY RefusedIsLive DEF IInv, TypeOK, IsLive
  <2>2. windows[k].windowStartedAt \in Nat /\ WindowMs \in Nat
    BY <2>1, RateLimiterAssumption DEF Window
  <2> QED
    BY <1>2, <2>1, <2>2 DEF AnswerInv
<1>4. RetryAfter(k) = IF left < Second THEN 1
                      ELSE (left + Second - 1) \div Second
  BY <1>1 DEF RetryAfter
<1>5. RetryAfter(k) \in Nat
  BY RetryAfterCovers
<1> HIDE DEF left
<1>6. Second * RetryAfter(k) <= left + Second
  <2>1. CASE left < Second
    BY <1>1, <1>2, <1>4, <2>1
  <2>2. CASE ~(left < Second)
    <3>1. Second * ((left + Second - 1) \div Second) <= left + Second - 1
      BY <1>1, <1>2, CeilingExceeds
    <3>2. Second * RetryAfter(k) <= left + Second - 1
      BY <1>4, <2>2, <3>1
    <3>3. Second * RetryAfter(k) \in Nat
      BY <1>2, <1>5
    <3> HIDE DEF RetryAfter
    <3> QED
      BY <1>1, <1>2, <3>2, <3>3
  <2> QED
    BY <2>1, <2>2
<1>7. Second * RetryAfter(k) \in Nat
  BY <1>2, <1>5
<1> QED
  BY <1>1, <1>2, <1>3, <1>6, <1>7

LEMMA AnswerInit == GateInit => AnswerInv
<1> SUFFICES ASSUME GateInit PROVE AnswerInv
  OBVIOUS
<1>1. TypeOK
  BY InvInit DEF GateInit, IInv
<1>2. 0 \in 0..MaxTime + Second
  BY RateLimiterAssumption, GateAssumption
<1>3. \A c \in Key : windows[c] = NoWindow
  BY DEF GateInit, Init
<1> QED
  BY <1>1, <1>2, <1>3 DEF GateInit, AnswerInv, GateTypeOK

LEMMA AnswerStep == IInv /\ OwnInv' /\ AnswerInv /\ [GateNext]_gateVars => AnswerInv'
<1> SUFFICES ASSUME IInv, OwnInv', AnswerInv, [GateNext]_gateVars PROVE AnswerInv'
  OBVIOUS
<1>1. TypeOK' /\ admitted' \in [Key -> SUBSET Admission]
  BY InvStep, GateStepIsStep DEF IInv, OwnInv
<1>2. /\ answer \in [caller : Key \cup {Absent},
                     status : {"passed", "forbidden", "unauthorized", "rate_limited"}]
      /\ retryAt \in [Key -> 0..MaxTime + Second]
  BY DEF AnswerInv, GateTypeOK
<1>3. ASSUME answer' = answer, retryAt' = retryAt,
             \A c \in Key : windows'[c] = windows[c] \/ windows'[c] = NoWindow
      PROVE  AnswerInv'
  BY <1>1, <1>2, <1>3 DEF AnswerInv, GateTypeOK
<1>4. CASE Clock
  BY <1>3, <1>4 DEF Clock, Tick
<1>5. CASE Sweeper
  BY <1>3, <1>5 DEF Sweeper, Sweep
<1>6. ASSUME NEW status \in {"passed", "forbidden", "unauthorized"}, Uncounted(status)
      PROVE  AnswerInv'
  <2>1. /\ answer' \in [caller : Key \cup {Absent},
                        status : {"passed", "forbidden", "unauthorized", "rate_limited"}]
        /\ retryAt' = retryAt /\ windows' = windows
    BY <1>6 DEF Uncounted, vars
  <2> QED
    BY <1>1, <1>2, <2>1 DEF AnswerInv, GateTypeOK
<1>7. ASSUME NEW r \in Request, Counts(r), KeyOf(r) \in Key, Caller(r) = KeyOf(r)
      PROVE  AnswerInv'
  <2>1. PICK k \in Key :
            /\ Check(k)
            /\ answer' \in [caller : Key \cup {Absent},
                            status : {"passed", "forbidden", "unauthorized", "rate_limited"}]
            /\ \/ retryAt' = [retryAt EXCEPT ![k] = 0]
               \/ /\ ~verdict'.allowed
                  /\ retryAt' = [retryAt EXCEPT ![k] = now + Second * RetryAfter(k)]
    BY <1>7, CountsFacts
  <2>2. 0 \in 0..MaxTime + Second
    BY RateLimiterAssumption, GateAssumption
  <2>3. retryAt' \in [Key -> 0..MaxTime + Second]
    BY <1>2, <2>1, <2>2, RetryAfterBounded
  <2>4. ASSUME NEW c \in Key, windows'[c] # NoWindow
        PROVE  windows'[c].windowStartedAt + WindowMs <= MaxTime
    BY <2>1, <2>4, CheckFacts DEF AnswerInv, IsLive
  <2> QED
    BY <1>1, <2>1, <2>3, <2>4 DEF AnswerInv, GateTypeOK
<1>8. ASSUME NEW r \in Request, onRequest(r) PROVE AnswerInv'
  BY <1>6, <1>7, <1>8, KeyIsCaller DEF onRequest
<1>9. CASE UNCHANGED gateVars
  BY <1>3, <1>9 DEF gateVars, vars
<1> QED
  BY <1>4, <1>5, <1>8, <1>9 DEF GateNext

\* The gate's answers and what it remembers of them keep their types: a wait
\* that is answered ends within a second of the last window.
THEOREM GateTypesCorrect == GateSpec => []GateTypeOK
<1>1. GateSpec => [](IInv /\ OwnInv)
  <2>1. GateSpec => []IInv
    BY GateUsesLimiter, Invariance, PTL
  <2> QED
    BY <2>1, OwnInit, OwnStep, PTL DEF GateSpec
<1>2. AnswerInv => GateTypeOK
  BY DEF AnswerInv
<1> QED
  BY <1>1, <1>2, AnswerInit, AnswerStep, PTL DEF GateSpec

=============================================================================
