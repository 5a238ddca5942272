-------------------------------- MODULE Gate --------------------------------
(***************************************************************************)
(* The security gate: the onRequest hook that every request passes, and    *)
(* that charges the rate limiter.  The hook runs to completion in one      *)
(* turn, so a request is one action: it is turned away for its Host or its *)
(* Origin, passes because nothing under /api/ is asked for, is turned away *)
(* for its token, or is counted under the operator whose token it carries, *)
(* or under its source address if its path is public.                      *)
(***************************************************************************)
EXTENDS RateLimiter, Sequences, FiniteSets

CONSTANTS
    Actor,         \* the names in AUTH_TOKENS
    Addr,          \* source addresses
    Host,          \* what Host and Origin headers may name
    AllowedHost,   \* the loopback names and ALLOWED_HOSTS
    Token,         \* token values a request may carry
    tokens,        \* the NamedTokens, in the order in which they are configured
    Second,        \* ticks in a second
    Absent         \* no such header; no actor

\* resolveTokens refuses two equal names, and a name with a colon, so that no
\* name is the key addr:<ip> of an address.  Two names may share a value.
ASSUME GateAssumption ==
    /\ Key = Actor \cup Addr
    /\ Actor \cap Addr = {}
    /\ AllowedHost \subseteq Host
    /\ tokens \in Seq([name : Actor, value : Token])
    /\ \A i, j \in DOMAIN tokens : tokens[i].name = tokens[j].name => i = j
    /\ Absent \notin Host \cup Token \cup Key
    /\ Second \in Nat \ {0}

VARIABLES
    answer,    \* how the gate answered the last request, and whom it counted
    retryAt,   \* history: when a caller told to wait may come back, 0 if none
    admitted   \* history: which requests of each caller got through in the
               \* last window, by their number, and when

gateVars == <<vars, answer, retryAt, admitted>>

\* The token is that of the Authorization header or, without one, of the
\* subprotocol an upgrade offers.
Request ==
    [host : Host, origin : Host \cup {Absent},
     path : {"asset", "ping", "api"}, token : Token \cup {Absent}, addr : Addr]

Admission == [number : 1..MaxRequests, at : 0..MaxTime]

GateTypeOK ==
    /\ TypeOK
    /\ answer \in [caller : Key \cup {Absent},
                   status : {"passed", "forbidden", "unauthorized",
                             "rate_limited"}]
    /\ retryAt \in [Key -> 0..MaxTime + Second]
    /\ admitted \in [Key -> SUBSET Admission]

GateInit ==
    /\ Init
    /\ answer = [caller |-> Absent, status |-> "passed"]
    /\ retryAt = [c \in Key |-> 0]
    /\ admitted = [c \in Key |-> {}]

-----------------------------------------------------------------------------

isAllowedHost(host) == host \in AllowedHost

\* A browser's "null" origin is a name that is not allowed.
isAllowedOrigin(origin) == origin = Absent \/ origin \in AllowedHost

\* The last name whose value matches.
actorFor(supplied) ==
    LET matches == {i \in DOMAIN tokens : tokens[i].value = supplied}
    IN  IF matches = {} THEN Absent
        ELSE tokens[CHOOSE i \in matches : \A j \in matches : j <= i].name

\* Mutant: requests are counted under their source address.
KeyByAddress(r) == r.addr

\* What a request is counted under.
KeyOf(r) == IF r.path = "ping" THEN r.addr ELSE actorFor(r.token)

\* Mutant: the wait is rounded down.
RetryAfterFloor(k) ==
    LET left == windows'[k].windowStartedAt + WindowMs - now
    IN  IF left < Second THEN 1 ELSE left \div Second

\* The seconds in the retry-after header: what is left of the window, rounded
\* up, and one at least.
RetryAfter(k) ==
    LET left == windows'[k].windowStartedAt + WindowMs - now
    IN  IF left < Second THEN 1 ELSE (left + Second - 1) \div Second

\* A request that is answered without asking the limiter.
Uncounted(status) ==
    /\ answer' = [caller |-> Absent, status |-> status]
    /\ UNCHANGED <<vars, retryAt, admitted>>

\* Who sent a request, as its operator would put it: one actor per token, and
\* a source address when no token is asked for.
Caller(r) == IF r.path = "ping" THEN r.addr ELSE actorFor(r.token)

Counts(r) ==
    LET c == Caller(r) IN
    /\ Check(KeyOf(r))
    /\ \/ /\ verdict'.allowed
          /\ answer' = [caller |-> c, status |-> "passed"]
          /\ retryAt' = [retryAt EXCEPT ![c] = 0]
          /\ admitted' = [admitted EXCEPT
                              ![c] = @ \cup {[number |-> requests', at |-> now]}]
       \/ /\ ~verdict'.allowed
          /\ answer' = [caller |-> c, status |-> "rate_limited"]
          /\ retryAt' = [retryAt EXCEPT
                             ![c] = now + Second * RetryAfter(KeyOf(r))]
          /\ UNCHANGED admitted

onRequest(r) ==
    IF ~isAllowedHost(r.host) \/ ~isAllowedOrigin(r.origin)
    THEN Uncounted("forbidden")
    ELSE \/ /\ r.path = "asset"
            /\ Uncounted("passed")
         \/ /\ r.path = "api" /\ actorFor(r.token) = Absent
            /\ Uncounted("unauthorized")
         \/ /\ r.path = "api" => actorFor(r.token) # Absent
            /\ r.path # "asset"
            /\ Counts(r)

\* The clock; the history forgets what is older than a window.
Clock ==
    /\ Tick
    /\ admitted' = [c \in Key |->
                       {x \in admitted[c] : x.at + WindowMs > now'}]
    /\ UNCHANGED <<answer, retryAt>>

\* The interval that sweeps the limiter.
Sweeper == Sweep /\ UNCHANGED <<answer, retryAt, admitted>>

-----------------------------------------------------------------------------

GateNext == Clock \/ Sweeper \/ \E r \in Request : onRequest(r)

GateSpec == GateInit /\ [][GateNext]_gateVars

GateFairSpec == GateSpec /\ WF_gateVars(Clock) /\ WF_gateVars(Sweeper)

-----------------------------------------------------------------------------
(* Properties.                                                             *)

\* Who is refused has had its own Max requests within the last window: what
\* other operators, other addresses and requests without a token do costs it
\* nothing, whatever address it shares with them.
OwnBudgetOnly ==
    [][requests' # requests /\ answer'.status = "rate_limited" =>
         Cardinality(admitted[answer'.caller]) >= Max]_gateVars

\* Who waits as long as the 429 answer says finds the window over that it was
\* refused in, whenever in the window it was told so and whatever the sweep
\* did meanwhile.
RetryAfterIsEnough ==
    \A c \in Key : retryAt[c] # 0 /\ now >= retryAt[c] => ~IsLive(c)

=============================================================================
