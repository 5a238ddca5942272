------------------------------ MODULE Sessions ------------------------------
(***************************************************************************)
(* The life of a Firebird attachment in the Plamenix server: it is opened  *)
(* by the native driver for POST /api/connect, recorded in the in-memory   *)
(* SessionStore, named by later requests, and given back either by         *)
(* POST /api/close or by the idle reaper that setInterval starts every     *)
(* SESSION_SWEEP_MS.                                                       *)
(*                                                                         *)
(* A JavaScript turn runs to its next await without interruption, so every *)
(* action below is one such turn, or one completion inside the native      *)
(* driver.  Two sweeps overlap when a close outlives the sweep interval,   *)
(* because the timer discards the promise of the previous sweep.           *)
(*                                                                         *)
(* Time is counted in ticks since a session's last use, which is all that  *)
(* idleFor compares; a count stops at IdleLimit, beyond which no           *)
(* comparison tells two counts apart.                                      *)
(***************************************************************************)
EXTENDS Naturals

CONSTANTS
    Session,     \* the session ids the driver hands out, each at most once
    Request,     \* HTTP requests that may be in flight at the same time
    Sweep,       \* reaper sweeps that may be in flight at the same time
    NoSession,   \* the session of a call that has none yet
    IdleLimit    \* SESSION_IDLE_MS, in ticks

ASSUME SessionsAssumption ==
    /\ NoSession \notin Session
    /\ Request \cap Sweep = {}
    /\ IdleLimit \in Nat \ {0}

VARIABLES
    attachment,   \* the driver's registry: is this session open there?
    store,        \* the ids SessionStore has a record of
    idleTicks,    \* ticks since the record's lastUsedAt
    call,         \* the native call each request or sweep is awaiting
    expired,      \* the ids a running sweep found idle when it started
    todo,         \* those of them its loop has not reached yet
    acknowledged, \* history: sessions whose client was answered closed: true
    announced,    \* history: sessions a session/expired event was sent for
    abandoned     \* history: open attachments a sweep failed to close

vars == <<attachment, store, idleTicks, call, expired, todo,
          acknowledged, announced, abandoned>>

Actor == Request \cup Sweep

Call == [op      : {"none", "connect", "use", "close"},
         session : Session \cup {NoSession},
         outcome : {"pending", "ok", "failed"}]

NoCall == [op |-> "none", session |-> NoSession, outcome |-> "pending"]

Pending(op, s) == [op |-> op, session |-> s, outcome |-> "pending"]

\* The call of a has taken effect on s; its handler has not resumed yet.
Settles(a, s, outcome) ==
    call' = [call EXCEPT ![a] = [op |-> @.op, session |-> s, outcome |-> outcome]]

Awaiting(a, op) == call[a].op = op /\ call[a].outcome = "pending"
Settled(a, op, outcome) == call[a].op = op /\ call[a].outcome = outcome

TypeOK ==
    /\ attachment \in [Session -> {"none", "open", "gone"}]
    /\ store \subseteq Session
    /\ idleTicks \in [Session -> 0..IdleLimit]
    /\ call \in [Actor -> Call]
    /\ expired \in [Sweep -> SUBSET Session]
    /\ todo \in [Sweep -> SUBSET Session]
    /\ acknowledged \subseteq Session
    /\ announced \subseteq Session
    /\ abandoned \subseteq Session

Init ==
    /\ attachment = [s \in Session |-> "none"]
    /\ store = {}
    /\ idleTicks = [s \in Session |-> 0]
    /\ call = [a \in Actor |-> NoCall]
    /\ expired = [w \in Sweep |-> {}]
    /\ todo = [w \in Sweep |-> {}]
    /\ acknowledged = {}
    /\ announced = {}
    /\ abandoned = {}

-----------------------------------------------------------------------------
(* The native driver: a call takes effect at one moment between being      *)
(* issued and the promise resuming the handler.                            *)

\* Attaching either yields a session id never seen before or fails.
DriverConnects(r) ==
    /\ Awaiting(r, "connect")
    /\ \/ \E s \in Session :
             /\ attachment[s] = "none"
             /\ attachment' = [attachment EXCEPT ![s] = "open"]
             /\ Settles(r, s, "ok")
       \/ /\ Settles(r, NoSession, "failed")
          /\ UNCHANGED attachment
    /\ UNCHANGED <<store, idleTicks, expired, todo,
                   acknowledged, announced, abandoned>>

\* Detaching succeeds, or fails with the attachment lost or still open; a
\* session the driver no longer knows is an error.
DriverCloses(a) ==
    /\ Awaiting(a, "close")
    /\ LET s == call[a].session IN
       \/ /\ attachment[s] = "open"
          /\ attachment' = [attachment EXCEPT ![s] = "gone"]
          /\ \E o \in {"ok", "failed"} : Settles(a, s, o)
          /\ UNCHANGED abandoned
       \/ /\ Settles(a, s, "failed")
          /\ abandoned' = IF a \in Sweep /\ attachment[s] = "open"
                          THEN abandoned \cup {s} ELSE abandoned
          /\ UNCHANGED attachment
    /\ UNCHANGED <<store, idleTicks, expired, todo, acknowledged, announced>>

-----------------------------------------------------------------------------
(* The routes.                                                             *)

\* An id a client can name: connect has answered with it.
Known(s) ==
    /\ attachment[s] # "none"
    /\ \A r \in Request : call[r].op = "connect" => call[r].session # s

\* The preHandler hook: lastUsedAt moves to now when there is a record.
Touch(s) ==
    idleTicks' = IF s \in store THEN [idleTicks EXCEPT ![s] = 0] ELSE idleTicks

Connect(r) ==
    /\ call[r] = NoCall
    /\ call' = [call EXCEPT ![r] = Pending("connect", NoSession)]
    /\ UNCHANGED <<attachment, store, idleTicks, expired, todo,
                   acknowledged, announced, abandoned>>

\* Mutant: whatever the driver answered is registered.
ConnectReturnsUnchecked(r) ==
    /\ call[r].op = "connect" /\ call[r].outcome # "pending"
    /\ store' = store \cup {call[r].session}
    /\ call' = [call EXCEPT ![r] = NoCall]
    /\ UNCHANGED <<attachment, idleTicks, expired, todo,
                   acknowledged, announced, abandoned>>

\* The rest of the connect route: register the session, or answer 502.
ConnectReturns(r) ==
    /\ \/ /\ Settled(r, "connect", "ok")
          /\ store' = store \cup {call[r].session}
          /\ idleTicks' = [idleTicks EXCEPT ![call[r].session] = 0]
       \/ /\ Settled(r, "connect", "failed")
          /\ UNCHANGED <<store, idleTicks>>
    /\ call' = [call EXCEPT ![r] = NoCall]
    /\ UNCHANGED <<attachment, expired, todo,
                   acknowledged, announced, abandoned>>

\* Every route that works on a session: touch, refuse an id without a
\* record (which changes nothing), then await the native call.
Use(r, s) ==
    /\ call[r] = NoCall
    /\ Known(s)
    /\ s \in store
    /\ Touch(s)
    /\ call' = [call EXCEPT ![r] = Pending("use", s)]
    /\ UNCHANGED <<attachment, store, expired, todo,
                   acknowledged, announced, abandoned>>

\* The statement has run, or has failed, and the response is sent.
UseReturns(r) ==
    /\ Awaiting(r, "use")
    /\ call' = [call EXCEPT ![r] = NoCall]
    /\ UNCHANGED <<attachment, store, idleTicks, expired, todo,
                   acknowledged, announced, abandoned>>

\* The close route does not ask the store first.
Close(r, s) ==
    /\ call[r] = NoCall
    /\ Known(s)
    /\ Touch(s)
    /\ call' = [call EXCEPT ![r] = Pending("close", s)]
    /\ UNCHANGED <<attachment, store, expired, todo,
                   acknowledged, announced, abandoned>>

\* Mutant: the record is dropped whatever became of the close.
CloseReturnsDropsAlways(r) ==
    /\ call[r].op = "close" /\ call[r].outcome # "pending"
    /\ store' = store \ {call[r].session}
    /\ acknowledged' = IF call[r].outcome = "ok"
                       THEN acknowledged \cup {call[r].session} ELSE acknowledged
    /\ call' = [call EXCEPT ![r] = NoCall]
    /\ UNCHANGED <<attachment, idleTicks, expired, todo, announced, abandoned>>

\* Mutant: an error of the driver is answered closed: true as well.
CloseReturnsIgnoresError(r) ==
    /\ call[r].op = "close" /\ call[r].outcome # "pending"
    /\ store' = store \ {call[r].session}
    /\ acknowledged' = acknowledged \cup {call[r].session}
    /\ call' = [call EXCEPT ![r] = NoCall]
    /\ UNCHANGED <<attachment, idleTicks, expired, todo, announced, abandoned>>

\* The record is dropped only after the driver has closed; a failed close
\* answers 502 and keeps the record.
CloseReturns(r) ==
    /\ \/ /\ Settled(r, "close", "ok")
          /\ store' = store \ {call[r].session}
          /\ acknowledged' = acknowledged \cup {call[r].session}
       \/ /\ Settled(r, "close", "failed")
          /\ UNCHANGED <<store, acknowledged>>
    /\ call' = [call EXCEPT ![r] = NoCall]
    /\ UNCHANGED <<attachment, idleTicks, expired, todo, announced, abandoned>>

-----------------------------------------------------------------------------
(* The reaper.                                                             *)

idleFor == {s \in store : idleTicks[s] >= IdleLimit}

\* Mutant: the loop closes attachments and leaves their records.
SweepContinuesKeepsRecord(w, found, left) ==
    /\ UNCHANGED store
    /\ \/ /\ left = {}
          /\ announced' = announced \cup found
          /\ call' = [call EXCEPT ![w] = NoCall]
          /\ expired' = [expired EXCEPT ![w] = {}]
          /\ todo' = [todo EXCEPT ![w] = {}]
       \/ \E s \in left :
          /\ call' = [call EXCEPT ![w] = Pending("close", s)]
          /\ expired' = [expired EXCEPT ![w] = found]
          /\ todo' = [todo EXCEPT ![w] = left \ {s}]
          /\ UNCHANGED announced

\* Mutant: only the ids the loop has not reached yet are kept to announce.
SweepContinuesForgetsReached(w, found, left) ==
    \/ /\ left = {}
       /\ announced' = announced \cup found
       /\ call' = [call EXCEPT ![w] = NoCall]
       /\ expired' = [expired EXCEPT ![w] = {}]
       /\ todo' = [todo EXCEPT ![w] = {}]
       /\ UNCHANGED store
    \/ \E s \in left :
       /\ store' = store \ {s}
       /\ call' = [call EXCEPT ![w] = Pending("close", s)]
       /\ expired' = [expired EXCEPT ![w] = left]
       /\ todo' = [todo EXCEPT ![w] = left \ {s}]
       /\ UNCHANGED announced

\* The sweep's loop, from one await to the next: drop the record of the
\* next expired id and start closing it or, after the last one, announce
\* every id the sweep started with.  The ids are taken in any order (the
\* code's is the order of registration).
SweepContinues(w, found, left) ==
    \/ /\ left = {}
       /\ announced' = announced \cup found
       /\ call' = [call EXCEPT ![w] = NoCall]
       /\ expired' = [expired EXCEPT ![w] = {}]
       /\ todo' = [todo EXCEPT ![w] = {}]
       /\ UNCHANGED store
    \/ \E s \in left :
       /\ store' = store \ {s}
       /\ call' = [call EXCEPT ![w] = Pending("close", s)]
       /\ expired' = [expired EXCEPT ![w] = found]
       /\ todo' = [todo EXCEPT ![w] = left \ {s}]
       /\ UNCHANGED announced

\* The timer fires; a sweep that finds nothing idle does nothing.
SweepStarts(w) ==
    /\ call[w] = NoCall
    /\ idleFor # {}
    /\ SweepContinues(w, idleFor, idleFor)
    /\ UNCHANGED <<attachment, idleTicks, acknowledged, abandoned>>

\* Mutant: no catch around the close, so that an error ends the sweep.
SweepResumesUncaught(w) ==
    /\ Settled(w, "close", "ok")
    /\ SweepContinues(w, expired[w], todo[w])
    /\ UNCHANGED <<attachment, idleTicks, acknowledged, abandoned>>

\* The close of one id has settled; an error is only logged.
SweepResumes(w) ==
    /\ call[w].op = "close"
    /\ call[w].outcome # "pending"
    /\ SweepContinues(w, expired[w], todo[w])
    /\ UNCHANGED <<attachment, idleTicks, acknowledged, abandoned>>

Tick ==
    /\ idleTicks' = [s \in Session |-> IF idleTicks[s] < IdleLimit
                                       THEN idleTicks[s] + 1 ELSE IdleLimit]
    /\ UNCHANGED <<attachment, store, call, expired, todo,
                   acknowledged, announced, abandoned>>

-----------------------------------------------------------------------------

Next ==
    \/ \E r \in Request :
          \/ Connect(r) \/ DriverConnects(r) \/ ConnectReturns(r)
          \/ \E s \in Session : Use(r, s) \/ Close(r, s)
          \/ UseReturns(r) \/ CloseReturns(r)
    \/ \E w \in Sweep : SweepStarts(w) \/ SweepResumes(w)
    \/ \E a \in Actor : DriverCloses(a)
    \/ Tick

Spec == Init /\ [][Next]_vars

\* Time passes, the timer keeps firing, native calls settle and settled
\* promises resume their handlers.  Nothing obliges a client to do anything.
Fairness ==
    /\ WF_vars(Tick)
    /\ \A w \in Sweep : WF_vars(SweepStarts(w)) /\ WF_vars(SweepResumes(w))
    /\ \A a \in Actor : WF_vars(DriverCloses(a))
    /\ \A r \in Request :
          WF_vars(DriverConnects(r)) /\ WF_vars(ConnectReturns(r))
          /\ WF_vars(UseReturns(r)) /\ WF_vars(CloseReturns(r))

FairSpec == Spec /\ Fairness

-----------------------------------------------------------------------------
(* Properties.                                                             *)

Connecting(s) == \E r \in Request : Settled(r, "connect", "ok") /\ call[r].session = s
Reaping(s) == \E w \in Sweep : Awaiting(w, "close") /\ call[w].session = s

\* No attachment is held that nobody will give back: an open one has a
\* record the reaper can find, or is about to get it, or is being closed by
\* a sweep that has already dropped the record; only an attachment that the
\* driver itself failed to detach is abandoned (store.ts says such a close
\* is not retried).
NoOrphanAttachment ==
    \A s \in Session :
        attachment[s] = "open" =>
            s \in store \/ Connecting(s) \/ Reaping(s) \/ s \in abandoned

\* A client that was answered closed: true will not find the session alive
\* again, whatever sweeps and other requests were doing with it.
AcknowledgedCloseIsFinal ==
    \A s \in acknowledged : attachment[s] = "gone" /\ s \notin store

\* A session never leaves the store unnoticed: its client was answered
\* closed: true, or the session/expired event has been sent, or a sweep that
\* is still running will send it.
NoSilentExpiry ==
    \A s \in Session :
        Known(s) /\ s \notin store =>
            \/ s \in acknowledged \cup announced
            \/ \E w \in Sweep : s \in expired[w]

\* Every id a sweep found idle is announced in the end, even when closing it
\* or another id of the same sweep fails.
ExpiryIsAnnounced ==
    \A s \in Session : (\E w \in Sweep : s \in expired[w]) ~> (s \in announced)

\* A session that clients have stopped naming loses its record for good, a
\* record left behind by a failed close included.
UnusedSessionIsReleased ==
    \A s \in Session :
        <>[](\A r \in Request : call[r].session # s) => <>[](s \notin store)

\* What app.ts says of the preHandler hook: it keeps a session alive for as
\* long as it is being used.  No sweep takes a session from a statement that
\* is still running on it.
KeptAliveWhileUsed ==
    [][\A s \in store \ store' :
          \/ s \in acknowledged'
          \/ \A r \in Request : ~(Awaiting(r, "use") /\ call[r].session = s)]_vars

=============================================================================
