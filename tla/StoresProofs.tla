---------------------------- MODULE StoresProofs ----------------------------
(***************************************************************************)
(* Theorems of the server's two stores: of Sessions, the one in memory, for *)
(* any number of sessions, requests and sweeps and any idle limit, and of  *)
(* ProfileStore, the one on disk, for any number of profiles and of        *)
(* operations in flight and any files.                                     *)
(*                                                                         *)
(* The three invariants of Sessions are not inductive: that a record is    *)
(* never made for a session somebody has already closed rests on ids being *)
(* handed out once (FreshInv) and on nobody knowing an id before it is     *)
(* registered (ConnectInv).                                                *)
(*                                                                         *)
(* ProfileStore does not serialise its operations, and its promises fail   *)
(* when they overlap.  The theorems say how much of an operation must not  *)
(* overlap for which promise to hold, with crashes anywhere.               *)
(***************************************************************************)
EXTENDS Sessions, ProfileStore, TLAPS

-----------------------------------------------------------------------------
(* The session store.                                                      *)

\* What a request or a sweep may be awaiting, and that an acknowledged or
\* settled close has closed.
CallInv ==
    \A a \in Actor :
        /\ call[a].op \in {"use", "close"} => call[a].session \in Session
        /\ call[a].op = "connect" =>
              IF call[a].outcome = "ok" THEN call[a].session \in Session
                                        ELSE call[a].session = NoSession
        /\ Settled(a, "close", "ok") => attachment[call[a].session] = "gone"
        /\ a \in Sweep => call[a].op \in {"none", "close"}

\* The driver hands out each id once, and nobody has one it has not handed out.
FreshInv ==
    \A s \in Session : attachment[s] = "none" =>
        /\ s \notin store
        /\ s \notin acknowledged
        /\ \A a \in Actor : call[a].session # s
        /\ \A w \in Sweep : s \notin expired[w]

\* Between the driver's answer and the registration the connect handler is
\* the only one that knows the session, and the session is open.
ConnectInv ==
    \A r \in Request : Settled(r, "connect", "ok") =>
        /\ attachment[call[r].session] = "open"
        /\ call[r].session \notin store
        /\ \A a \in Actor : a # r => call[a].session # call[r].session
        /\ \A w \in Sweep : call[r].session \notin expired[w]

\* A sweep owes an announcement only for what it set out with, and nothing
\* when it is not running.
SweepInv ==
    \A w \in Sweep :
        /\ todo[w] \subseteq expired[w]
        /\ call[w].op = "none" => expired[w] = {}

TypedInv == TypeOK /\ CallInv

IInv ==
    /\ TypedInv
    /\ FreshInv
    /\ ConnectInv
    /\ SweepInv
    /\ NoOrphanAttachment
    /\ AcknowledgedCloseIsFinal
    /\ NoSilentExpiry

-----------------------------------------------------------------------------
LEMMA TypedInit == Init => TypedInv
  BY SessionsAssumption DEF Init, TypedInv, TypeOK, CallInv, Settled, NoCall,
     Call

\* One turn of the sweep's loop, for whatever it still has to close.
LEMMA SweepContinuesTyped ==
  ASSUME TypedInv, NEW w \in Sweep,
         NEW found \in SUBSET Session, NEW left \in SUBSET Session,
         SweepContinues(w, found, left),
         UNCHANGED <<attachment, idleTicks, acknowledged, abandoned>>
  PROVE  TypedInv'
<1> USE SessionsAssumption DEF TypedInv, TypeOK, CallInv, Actor, Call, Settled
<1>1. PICK c \in Call :
        /\ call' = [call EXCEPT ![w] = c]
        /\ c = NoCall \/ \E s \in Session : c = Pending("close", s)
  BY DEF SweepContinues, NoCall, Pending
<1>2. /\ store' \subseteq Session
      /\ announced' \subseteq Session
      /\ expired' \in [Sweep -> SUBSET Session]
      /\ todo' \in [Sweep -> SUBSET Session]
  <2>1. CASE /\ announced' = announced \cup found
             /\ expired' = [expired EXCEPT ![w] = {}]
             /\ todo' = [todo EXCEPT ![w] = {}]
             /\ UNCHANGED store
    BY <2>1
  <2>2. ASSUME NEW s \in left,
               store' = store \ {s},
               expired' = [expired EXCEPT ![w] = found],
               todo' = [todo EXCEPT ![w] = left \ {s}],
               UNCHANGED announced
        PROVE  <1>2!:
    BY <2>2
  <2> QED
    BY <2>1, <2>2 DEF SweepContinues
<1>3. TypeOK'
  BY <1>1, <1>2
<1>4. CallInv'
  BY <1>1 DEF NoCall, Pending
<1> QED
  BY <1>3, <1>4

LEMMA TypedStep == TypedInv /\ [Next]_vars => TypedInv'
<1> SUFFICES ASSUME TypedInv, [Next]_vars PROVE TypedInv'
  OBVIOUS
<1> USE SessionsAssumption DEF TypeOK, CallInv, Actor, Call, Awaiting, Settled, TypedInv
<1>1. ASSUME NEW r \in Request, Connect(r) PROVE TypedInv'
  BY <1>1 DEF Connect, Pending
<1>2. ASSUME NEW r \in Request, DriverConnects(r) PROVE TypedInv'
  <2>1. PICK x \in Session \cup {NoSession}, o \in {"ok", "failed"} :
          /\ Settles(r, x, o)
          /\ IF o = "ok" THEN x \in Session /\ attachment[x] = "none"
                         ELSE x = NoSession
          /\ \/ o = "ok" /\ attachment' = [attachment EXCEPT ![x] = "open"]
             \/ attachment' = attachment
    BY <1>2 DEF DriverConnects
  <2>2. call' \in [Actor -> Call] /\ call[r].op = "connect"
    BY <1>2, <2>1 DEF DriverConnects, Settles
  <2>3. TypeOK'
    BY <1>2, <2>1, <2>2 DEF DriverConnects
  <2>4. CallInv'
    BY <2>1, <2>2 DEF Settles
  <2> QED
    BY <2>3, <2>4
<1>3. ASSUME NEW r \in Request, ConnectReturns(r) PROVE TypedInv'
  BY <1>3 DEF ConnectReturns, NoCall
<1>4. ASSUME NEW r \in Request, NEW s \in Session, Use(r, s) PROVE TypedInv'
  BY <1>4 DEF Use, Touch, Pending
<1>5. ASSUME NEW r \in Request, NEW s \in Session, Close(r, s) PROVE TypedInv'
  BY <1>5 DEF Close, Touch, Pending
<1>6. ASSUME NEW r \in Request, UseReturns(r) PROVE TypedInv'
  BY <1>6 DEF UseReturns, NoCall
<1>7. ASSUME NEW r \in Request, CloseReturns(r) PROVE TypedInv'
  BY <1>7 DEF CloseReturns, NoCall
<1>8. ASSUME NEW w \in Sweep, SweepStarts(w) PROVE TypedInv'
  <2>1. idleFor \subseteq Session
    BY DEF idleFor
  <2> QED
    BY <1>8, <2>1, SweepContinuesTyped DEF SweepStarts
<1>9. ASSUME NEW w \in Sweep, SweepResumes(w) PROVE TypedInv'
  BY <1>9, SweepContinuesTyped DEF SweepResumes
<1>10. ASSUME NEW a \in Actor, DriverCloses(a) PROVE TypedInv'
  <2>1. PICK o \in {"ok", "failed"} :
          /\ Settles(a, call[a].session, o)
          /\ o = "ok" => attachment'[call[a].session] = "gone"
    BY <1>10 DEF DriverCloses
  <2>2. call[a].op = "close" /\ call[a].session \in Session
    BY <1>10 DEF DriverCloses
  <2>3. /\ attachment' \in [Session -> {"none", "open", "gone"}]
        /\ \A s \in Session : attachment[s] = "gone" => attachment'[s] = "gone"
        /\ abandoned' \subseteq Session
    BY <1>10, <2>2 DEF DriverCloses
  <2>4. call' \in [Actor -> Call]
    BY <2>1, <2>2 DEF Settles
  <2>5. TypeOK'
    BY <1>10, <2>4 DEF DriverCloses
  <2>6. CallInv'
    BY <2>1, <2>2, <2>3 DEF Settles
  <2> QED
    BY <2>5, <2>6
<1>11. ASSUME Tick PROVE TypedInv'
  BY <1>11 DEF Tick
<1>12. CASE UNCHANGED vars
  BY <1>12 DEF vars
<1> QED
  BY <1>1, <1>2, <1>3, <1>4, <1>5, <1>6, <1>7, <1>8, <1>9, <1>10, <1>11, <1>12
     DEF Next

\* Every variable keeps its type, whatever the clients, the driver and the
\* sweeps do.
THEOREM TypeCorrect == Spec => []TypeOK
<1>1. TypedInv => TypeOK
  BY DEF TypedInv
<1> QED
  BY TypedInit, TypedStep, <1>1, PTL DEF Spec

-----------------------------------------------------------------------------
LEMMA InvInit == Init => IInv
<1> SUFFICES ASSUME Init PROVE IInv
  OBVIOUS
<1>1. TypedInv
  BY TypedInit
<1>2. FreshInv /\ ConnectInv /\ SweepInv
  BY SessionsAssumption DEF Init, FreshInv, ConnectInv, SweepInv, NoCall,
     Actor, Settled
<1>3. NoOrphanAttachment /\ AcknowledgedCloseIsFinal /\ NoSilentExpiry
  BY DEF Init, NoOrphanAttachment, AcknowledgedCloseIsFinal, NoSilentExpiry,
     Known
<1> QED
  BY <1>1, <1>2, <1>3 DEF IInv

LEMMA InvStep == IInv /\ [Next]_vars => IInv'
<1> SUFFICES ASSUME IInv, [Next]_vars PROVE IInv'
  OBVIOUS
<1> USE SessionsAssumption DEF IInv, Actor, Awaiting, Settled
<1>0. TypedInv'
  BY TypedStep
<1>1. ASSUME NEW r \in Request, Connect(r) PROVE IInv'
  <2>1. /\ \A x \in Session : Connecting(x) => Connecting(x)'
        /\ \A x \in Session : Reaping(x) => Reaping(x)'
        /\ \A x \in Session : Known(x)' => Known(x)
    BY <1>1 DEF Connect, Connecting, Reaping, Known, NoCall
  <2>2. FreshInv'
    BY <1>1 DEF Connect, Pending, FreshInv
  <2>3. ConnectInv'
    BY <1>1 DEF Connect, Pending, ConnectInv, TypedInv, CallInv
  <2>4. SweepInv'
    BY <1>1 DEF Connect, SweepInv
  <2>5. NoOrphanAttachment'
    BY <1>1, <2>1 DEF Connect, NoOrphanAttachment
  <2>6. AcknowledgedCloseIsFinal'
    BY <1>1 DEF Connect, AcknowledgedCloseIsFinal
  <2>7. NoSilentExpiry'
    BY <1>1, <2>1 DEF Connect, NoSilentExpiry
  <2> QED
    BY <1>0, <2>2, <2>3, <2>4, <2>5, <2>6, <2>7
<1>2. ASSUME NEW r \in Request, DriverConnects(r) PROVE IInv'
  <2>1. \A x \in Session : Known(x)' => Known(x)
    <3>1. CASE UNCHANGED attachment
      BY <1>2 DEF DriverConnects, Settles, TypedInv, TypeOK, CallInv, Known
    <3>2. ASSUME NEW y \in Session, Settles(r, y, "ok"),
                 attachment' = [attachment EXCEPT ![y] = "open"]
          PROVE  \A x \in Session : Known(x)' => Known(x)
      BY <1>2 DEF DriverConnects, Settles, TypedInv, TypeOK, CallInv, Known
    <3> QED
      BY <1>2, <3>1, <3>2 DEF DriverConnects
  <2>2. FreshInv'
    BY <1>2 DEF DriverConnects, Settles, FreshInv, TypedInv, TypeOK
  <2>3. ConnectInv'
    BY <1>2 DEF DriverConnects, Settles, FreshInv, ConnectInv, TypedInv,
       TypeOK, CallInv
  <2>4. SweepInv'
    BY <1>2 DEF DriverConnects, Settles, SweepInv, TypedInv, TypeOK
  <2>5. NoOrphanAttachment'
    BY <1>0, <1>2 DEF DriverConnects, Settles, FreshInv, ConnectInv, SweepInv,
       TypedInv, TypeOK, CallInv, NoOrphanAttachment, Connecting, Reaping
  <2>6. AcknowledgedCloseIsFinal'
    BY <1>2 DEF DriverConnects, TypedInv, TypeOK, AcknowledgedCloseIsFinal
  <2>7. NoSilentExpiry'
    BY <1>2, <2>1 DEF DriverConnects, NoSilentExpiry
  <2> QED
    BY <1>0, <2>2, <2>3, <2>4, <2>5, <2>6, <2>7
<1>3. ASSUME NEW r \in Request, ConnectReturns(r) PROVE IInv'
  <2>1. \A x \in Session : Known(x)' => Known(x) \/ x \in store'
    BY <1>3 DEF ConnectReturns, TypedInv, CallInv, Known
  <2>2. store \subseteq store'
    BY <1>3 DEF ConnectReturns
  <2>3. FreshInv'
    BY <1>3 DEF ConnectReturns, NoCall, FreshInv
  <2>4. ConnectInv'
    BY <1>3 DEF ConnectReturns, NoCall, ConnectInv, TypedInv, TypeOK, CallInv
  <2>5. SweepInv'
    BY <1>3 DEF ConnectReturns, SweepInv
  <2>6. NoOrphanAttachment'
    BY <1>3 DEF ConnectReturns, NoOrphanAttachment, Connecting, Reaping
  <2>7. AcknowledgedCloseIsFinal'
    BY <1>3 DEF ConnectReturns, ConnectInv, AcknowledgedCloseIsFinal
  <2>8. NoSilentExpiry'
    BY <1>3, <2>1 DEF ConnectReturns, NoSilentExpiry
  <2> QED
    BY <1>0, <2>3, <2>4, <2>5, <2>6, <2>7, <2>8
<1>4. ASSUME NEW r \in Request, NEW s \in Session, Use(r, s) PROVE IInv'
  <2>1. /\ \A x \in Session : Connecting(x) => Connecting(x)'
        /\ \A x \in Session : Reaping(x) => Reaping(x)'
        /\ \A x \in Session : Known(x)' => Known(x)
    BY <1>4 DEF Use, Connecting, Reaping, Known, NoCall
  <2>2. FreshInv'
    BY <1>4 DEF Use, Pending, FreshInv
  <2>3. ConnectInv'
    BY <1>4 DEF Use, Pending, ConnectInv
  <2>4. SweepInv'
    BY <1>4 DEF Use, SweepInv
  <2>5. NoOrphanAttachment'
    BY <1>4, <2>1 DEF Use, NoOrphanAttachment
  <2>6. AcknowledgedCloseIsFinal'
    BY <1>4 DEF Use, AcknowledgedCloseIsFinal
  <2>7. NoSilentExpiry'
    BY <1>4, <2>1 DEF Use, NoSilentExpiry
  <2> QED
    BY <1>0, <2>2, <2>3, <2>4, <2>5, <2>6, <2>7
<1>5. ASSUME NEW r \in Request, NEW s \in Session, Close(r, s) PROVE IInv'
  <2>1. /\ \A x \in Session : Connecting(x) => Connecting(x)'
        /\ \A x \in Session : Reaping(x) => Reaping(x)'
        /\ \A x \in Session : Known(x)' => Known(x)
    BY <1>5 DEF Close, Connecting, Reaping, Known, NoCall
  <2>2. FreshInv'
    BY <1>5 DEF Known, Close, Pending, FreshInv
  <2>3. ConnectInv'
    BY <1>5 DEF Known, Close, Pending, ConnectInv
  <2>4. SweepInv'
    BY <1>5 DEF Close, SweepInv
  <2>5. NoOrphanAttachment'
    BY <1>5, <2>1 DEF Close, NoOrphanAttachment
  <2>6. AcknowledgedCloseIsFinal'
    BY <1>5 DEF Close, AcknowledgedCloseIsFinal
  <2>7. NoSilentExpiry'
    BY <1>5, <2>1 DEF Close, NoSilentExpiry
  <2> QED
    BY <1>0, <2>2, <2>3, <2>4, <2>5, <2>6, <2>7
<1>6. ASSUME NEW r \in Request, UseReturns(r) PROVE IInv'
  <2>1. FreshInv'
    BY <1>6 DEF UseReturns, NoCall, FreshInv
  <2>2. ConnectInv'
    BY <1>6 DEF UseReturns, NoCall, ConnectInv, TypedInv, CallInv
  <2>3. SweepInv'
    BY <1>6 DEF UseReturns, SweepInv
  <2>4. NoOrphanAttachment'
    BY <1>6 DEF UseReturns, NoOrphanAttachment, Connecting, Reaping
  <2>5. AcknowledgedCloseIsFinal'
    BY <1>6 DEF UseReturns, AcknowledgedCloseIsFinal
  <2>6. NoSilentExpiry'
    BY <1>6 DEF UseReturns, NoSilentExpiry, Known
  <2> QED
    BY <1>0, <2>1, <2>2, <2>3, <2>4, <2>5, <2>6
<1>7. ASSUME NEW r \in Request, CloseReturns(r) PROVE IInv'
  <2>1. FreshInv'
    BY <1>7 DEF CloseReturns, NoCall, FreshInv
  <2>2. ConnectInv'
    BY <1>7 DEF CloseReturns, NoCall, ConnectInv, TypedInv, CallInv
  <2>3. SweepInv'
    BY <1>7 DEF CloseReturns, SweepInv
  <2>4. NoOrphanAttachment'
    BY <1>7 DEF CloseReturns, TypedInv, CallInv, NoOrphanAttachment,
       Connecting, Reaping
  <2>5. AcknowledgedCloseIsFinal'
    BY <1>7 DEF CloseReturns, TypedInv, CallInv, AcknowledgedCloseIsFinal
  <2>6. NoSilentExpiry'
    BY <1>7 DEF CloseReturns, NoSilentExpiry, Known
  <2> QED
    BY <1>0, <2>1, <2>2, <2>3, <2>4, <2>5, <2>6
<1>8. ASSUME NEW w \in Sweep, SweepStarts(w) PROVE IInv'
  <2>1. idleFor \subseteq store
    BY DEF idleFor
  <2>2. \A x \in Session : Known(x)' => Known(x)
    BY <1>8 DEF SweepStarts, SweepContinues, TypedInv, TypeOK, Known
  <2>3. /\ expired[w] = {}
        /\ idleFor # {} /\ idleFor \subseteq Session
    BY <1>8, <2>1 DEF SweepStarts, SweepInv, NoCall, TypedInv, TypeOK
  <2>4. PICK x \in idleFor :
           /\ store' = store \ {x}
           /\ call' = [call EXCEPT ![w] = Pending("close", x)]
           /\ expired' = [expired EXCEPT ![w] = idleFor]
           /\ todo' = [todo EXCEPT ![w] = idleFor \ {x}]
           /\ UNCHANGED <<announced, attachment, acknowledged, abandoned>>
    BY <1>8, <2>3 DEF SweepStarts, SweepContinues
  <2>5. /\ \A y \in Session : Connecting(y) => Connecting(y)'
        /\ \A y \in Session : Reaping(y) \/ y = x => Reaping(y)'
    BY <1>8, <2>4 DEF SweepStarts, NoCall, Pending, Connecting, Reaping,
       TypedInv, TypeOK
  <2>6. FreshInv'
    BY <2>1, <2>4 DEF FreshInv, Pending
  <2>7. ConnectInv'
    BY <2>1, <2>4 DEF ConnectInv, Pending
  <2>8. SweepInv'
    BY <2>4 DEF SweepInv, Pending, TypedInv, TypeOK
  <2>9. NoOrphanAttachment'
    BY <2>4, <2>5 DEF NoOrphanAttachment
  <2>10. AcknowledgedCloseIsFinal'
    BY <1>8 DEF SweepStarts, SweepContinues, AcknowledgedCloseIsFinal
  <2>11. NoSilentExpiry'
    BY <2>2, <2>3, <2>4 DEF NoSilentExpiry, TypedInv, TypeOK
  <2> QED
    BY <1>0, <2>6, <2>7, <2>8, <2>9, <2>10, <2>11
<1>9. ASSUME NEW w \in Sweep, SweepResumes(w) PROVE IInv'
  <2>1. /\ \A y \in Session : Connecting(y) => Connecting(y)'
        /\ \A y \in Session : Reaping(y) => Reaping(y)'
    BY <1>9 DEF SweepResumes, SweepContinues, Connecting, Reaping, TypedInv,
       TypeOK
  <2>2. \A y \in store \ store' : Reaping(y)'
    BY <1>9 DEF SweepResumes, SweepContinues, Pending, Reaping, TypedInv, TypeOK
  <2>3. FreshInv'
    BY <1>9 DEF SweepResumes, SweepContinues, NoCall, Pending, FreshInv,
       SweepInv, TypedInv, TypeOK
  <2>4. ConnectInv'
    BY <1>0, <1>9 DEF SweepResumes, SweepContinues, NoCall, Pending, FreshInv,
       ConnectInv, SweepInv, TypedInv, TypeOK, CallInv
  <2>5. SweepInv'
    BY <1>9 DEF SweepResumes, SweepContinues, Pending, SweepInv, TypedInv,
       TypeOK
  <2>6. NoOrphanAttachment'
    BY <1>9, <2>1, <2>2 DEF SweepResumes, NoOrphanAttachment
  <2>7. AcknowledgedCloseIsFinal'
    BY <1>9 DEF SweepResumes, SweepContinues, AcknowledgedCloseIsFinal
  <2>8. NoSilentExpiry'
    BY <1>9 DEF SweepResumes, SweepContinues, NoCall, Pending, ConnectInv,
       SweepInv, TypedInv, TypeOK, NoSilentExpiry, Known
  <2> QED
    BY <1>0, <2>3, <2>4, <2>5, <2>6, <2>7, <2>8
<1>10. ASSUME NEW a \in Actor, DriverCloses(a) PROVE IInv'
  <2>1. FreshInv'
    BY <1>10 DEF DriverCloses, Settles, FreshInv, TypedInv, TypeOK
  <2>2. ConnectInv'
    BY <1>10 DEF DriverCloses, Settles, ConnectInv, TypedInv, TypeOK, CallInv
  <2>3. SweepInv'
    BY <1>10 DEF DriverCloses, Settles, SweepInv, TypedInv, TypeOK
  <2>4. NoOrphanAttachment'
    BY <1>0, <1>10 DEF DriverCloses, Settles, FreshInv, ConnectInv, SweepInv,
       TypedInv, TypeOK, CallInv, NoOrphanAttachment, Connecting, Reaping
  <2>5. AcknowledgedCloseIsFinal'
    BY <1>10 DEF DriverCloses, TypedInv, TypeOK, AcknowledgedCloseIsFinal
  <2>6. NoSilentExpiry'
    BY <1>10 DEF DriverCloses, Settles, TypedInv, TypeOK, NoSilentExpiry, Known
  <2> QED
    BY <1>0, <2>1, <2>2, <2>3, <2>4, <2>5, <2>6
<1>11. ASSUME Tick PROVE IInv'
  <2>1. FreshInv'
    BY <1>11 DEF Tick, FreshInv
  <2>2. ConnectInv'
    BY <1>11 DEF Tick, ConnectInv
  <2>3. SweepInv'
    BY <1>11 DEF Tick, SweepInv
  <2>4. NoOrphanAttachment'
    BY <1>11 DEF Tick, NoOrphanAttachment, Connecting, Reaping
  <2>5. AcknowledgedCloseIsFinal'
    BY <1>11 DEF Tick, AcknowledgedCloseIsFinal
  <2>6. NoSilentExpiry'
    BY <1>11 DEF Tick, NoSilentExpiry, Known
  <2> QED
    BY <1>0, <2>1, <2>2, <2>3, <2>4, <2>5, <2>6
<1>12. CASE UNCHANGED vars
  BY <1>12, <1>0 DEF vars, FreshInv, ConnectInv, SweepInv, NoOrphanAttachment,
     Connecting, Reaping, AcknowledgedCloseIsFinal, NoSilentExpiry, Known
<1> QED
  BY <1>1, <1>2, <1>3, <1>4, <1>5, <1>6, <1>7, <1>8, <1>9, <1>10, <1>11, <1>12
     DEF Next

LEMMA Invariance == Spec => []IInv
  BY InvInit, InvStep, PTL DEF Spec

-----------------------------------------------------------------------------
\* Every open attachment has somebody who will give it back, unless the
\* driver itself failed to detach it.
THEOREM NoOrphan == Spec => []NoOrphanAttachment
<1>1. IInv => NoOrphanAttachment
  BY DEF IInv
<1> QED
  BY <1>1, Invariance, PTL

\* An answer closed: true is final.
THEOREM AcknowledgedClose == Spec => []AcknowledgedCloseIsFinal
<1>1. IInv => AcknowledgedCloseIsFinal
  BY DEF IInv
<1> QED
  BY <1>1, Invariance, PTL

\* No record disappears without the client or the push channel being told,
\* however many sweeps overlap and whichever closes fail.
THEOREM NoSilentRemoval == Spec => []NoSilentExpiry
<1>1. IInv => NoSilentExpiry
  BY DEF IInv
<1> QED
  BY <1>1, Invariance, PTL

\* An id that a client knows and that has no record, whether its session was
\* closed or has expired.
Lost(s) == Known(s) /\ s \notin store

\* Such an id never gets a record again: the answer that a session has expired
\* is final, whatever connects, closes and sweeps are still under way.
THEOREM LostForGood ==
  ASSUME NEW s \in Session
  PROVE  Spec => [](Lost(s) => []Lost(s))
<1>1. TypeOK /\ Lost(s) /\ [Next]_vars => Lost(s)'
  <2> SUFFICES ASSUME TypeOK, Lost(s), [Next]_vars PROVE Lost(s)'
    OBVIOUS
  <2> USE SessionsAssumption DEF Lost, Known, Actor
  <2>a. /\ call \in [Actor -> Call]
        /\ attachment \in [Session -> {"none", "open", "gone"}]
    BY DEF TypeOK
  <2>1. ASSUME NEW r \in Request, Connect(r) PROVE Lost(s)'
    BY <2>a, <2>1 DEF Connect, Pending
  <2>2. ASSUME NEW r \in Request, DriverConnects(r) PROVE Lost(s)'
    BY <2>a, <2>2 DEF DriverConnects, Settles
  <2>3. ASSUME NEW r \in Request, ConnectReturns(r) PROVE Lost(s)'
    BY <2>a, <2>3 DEF ConnectReturns, Settled, NoCall
  <2>4. ASSUME NEW r \in Request, NEW t \in Session, Use(r, t) \/ Close(r, t)
        PROVE  Lost(s)'
    BY <2>a, <2>4 DEF Use, Close, Pending
  <2>5. ASSUME NEW r \in Request, UseReturns(r) \/ CloseReturns(r)
        PROVE  Lost(s)'
    BY <2>a, <2>5 DEF UseReturns, CloseReturns, NoCall
  <2>6. ASSUME NEW w \in Sweep, SweepStarts(w) \/ SweepResumes(w)
        PROVE  Lost(s)'
    BY <2>a, <2>6 DEF SweepStarts, SweepResumes, SweepContinues, Pending, NoCall
  <2>7. ASSUME NEW a \in Actor, DriverCloses(a) PROVE Lost(s)'
    BY <2>a, <2>7 DEF DriverCloses, Settles, Awaiting
  <2>8. CASE Tick \/ UNCHANGED vars
    BY <2>8 DEF Tick, vars
  <2> QED
    BY <2>1, <2>2, <2>3, <2>4, <2>5, <2>6, <2>7, <2>8 DEF Next
<1> QED
  BY <1>1, TypeCorrect, PTL DEF Spec

-----------------------------------------------------------------------------
(* The profile store: when its operations overlap.                         *)

\* The file is being replaced: from the open of <path>.tmp to its rename.
Publishing(w) == ~Idle(w) /\ op[w].step \in {"write", "rename"}

PublishesOneAtATime ==
    \A v, w \in Writer : Publishing(v) /\ Publishing(w) => v = w

OperationsOneAtATime ==
    \A v, w \in Writer : Idle(v) \/ Idle(w) \/ v = w

\* What is about to be published is complete, and is its writer's own file.
FilesInv ==
    /\ ListIsReadable
    /\ \A w \in Writer : Publishing(w) =>
          /\ tmp # NoInode
          /\ op[w].step = "write" => op[w].fd = tmp /\ disk[tmp].state = "empty"
          /\ op[w].step = "rename" => disk[tmp].state = "whole"

Computed(w) == ~Idle(w) /\ op[w].step # "read"

\* The list that w is going to publish has everything that was saved, and
\* differs from the published one in the profile of w only.
Carries(w) ==
    /\ \A p \in saved : op[w].list[p] # Absent
    /\ \A p \in Profile \ {op[w].id} : op[w].list[p] = list[p]
    /\ op[w].kind = "save" => op[w].list[op[w].id] # Absent
    /\ op[w].kind \in {"touch", "touchDisconnected"} => list[op[w].id] # Absent
    /\ op[w].step = "rename" => disk[tmp].list = op[w].list

ListsInv ==
    /\ \A p \in saved : list[p] # Absent
    /\ \A w \in Writer : op[w].kind = "delete" => op[w].id \notin saved
    /\ \A w \in Writer : Computed(w) => Carries(w)

OperationsInv == ProfilesTypeOK /\ FilesInv /\ ListsInv

-----------------------------------------------------------------------------
(* Types.                                                                  *)

\* What each operation makes of a list: a list that differs in its own
\* profile only, which only a delete removes and a stamp never adds.
LEMMA UpdatedType ==
  ASSUME ProfilesTypeOK, NEW all \in List, NEW id \in Profile,
         NEW kind \in {"save", "touch", "touchDisconnected", "delete"},
         WritesBack(kind, all, id)
  PROVE  /\ Updated(kind, all, id) \in List
         /\ \A p \in Profile \ {id} : Updated(kind, all, id)[p] = all[p]
         /\ kind # "delete" => Updated(kind, all, id)[id] # Absent
         /\ kind \in {"touch", "touchDisconnected"} => all[id] # Absent
<1> DEFINE r == Updated(kind, all, id)
<1>1. /\ all \in [Profile -> Entry \cup {Absent}]
      /\ Absent \notin Entry
      /\ now \in 0..MaxTime
  BY ProfileStoreAssumption DEF List, ProfilesTypeOK
<1>2. PICK e \in Entry \cup {Absent} :
        r = [all EXCEPT ![id] = e] /\ (kind # "delete" => e # Absent)
  <2>1. CASE kind = "save"
    <3> DEFINE stamp == IF all[id] # Absent /\ all[id].createdAt > 0
                        THEN all[id].createdAt ELSE now
               e == [createdAt          |-> stamp,
                     lastUsedAt         |-> all[id] # Absent /\ all[id].lastUsedAt,
                     lastDisconnectedAt |->
                         all[id] # Absent /\ all[id].lastDisconnectedAt]
    <3>1. r = [all EXCEPT ![id] = e]
      BY <2>1 DEF Updated, Save
    <3>2. all[id] # Absent => all[id] \in Entry
      BY <1>1
    <3>3. e \in Entry
      <4>1. stamp \in 0..MaxTime
        BY <1>1, <3>2 DEF Entry
      <4>2. (all[id] # Absent /\ all[id].lastUsedAt) \in BOOLEAN
        BY <3>2 DEF Entry
      <4>3. (all[id] # Absent /\ all[id].lastDisconnectedAt) \in BOOLEAN
        BY <3>2 DEF Entry
      <4> QED
        BY <4>1, <4>2, <4>3 DEF Entry
    <3> HIDE DEF e
    <3> QED
      BY <1>1, <3>1, <3>3
  <2>2. CASE kind = "touch"
    <3>1. all[id] \in Entry
      BY <1>1, <2>2 DEF WritesBack
    <3>2. [all[id] EXCEPT !.lastUsedAt = TRUE] \in Entry
      BY <3>1 DEF Entry
    <3>3. r = [all EXCEPT ![id] = [all[id] EXCEPT !.lastUsedAt = TRUE]]
      BY <2>2 DEF Updated, TouchConnected
    <3> QED
      BY <1>1, <3>2, <3>3
  <2>3. CASE kind = "touchDisconnected"
    <3>1. all[id] \in Entry
      BY <1>1, <2>3 DEF WritesBack
    <3>2. [all[id] EXCEPT !.lastDisconnectedAt = TRUE] \in Entry
      BY <3>1 DEF Entry
    <3>3. r = [all EXCEPT ![id] = [all[id] EXCEPT !.lastDisconnectedAt = TRUE]]
      BY <2>3 DEF Updated, TouchDisconnected
    <3> QED
      BY <1>1, <3>2, <3>3
  <2>4. CASE kind = "delete"
    BY <2>4 DEF Updated, Delete
  <2> QED
    BY <2>1, <2>2, <2>3, <2>4
<1>3. kind \in {"touch", "touchDisconnected"} => all[id] # Absent
  BY DEF WritesBack
<1> HIDE DEF r
<1>4. r \in List
  BY <1>1, <1>2 DEF List
<1>5. \A p \in Profile \ {id} : r[p] = all[p]
  BY <1>1, <1>2
<1>6. kind # "delete" => r[id] # Absent
  BY <1>1, <1>2
<1> QED
  BY <1>3, <1>4, <1>5, <1>6 DEF r

LEMMA ListType ==
  ASSUME ProfilesTypeOK PROVE list \in List
<1>1. NoProfiles \in List
  BY DEF NoProfiles, List
<1>2. path # NoInode => disk[path].list \in List
  BY DEF ProfilesTypeOK, File
<1> QED
  BY <1>1, <1>2 DEF list

LEMMA NoOpType ==
  ASSUME NEW id \in Profile PROVE NoOp(id) \in Op
  BY DEF NoOp, Op, NoProfiles, List

LEMMA AnyProfileType == AnyProfile \in Profile
  BY ProfileStoreAssumption DEF AnyProfile

LEMMA EmptyFileType == EmptyFile \in File
  BY DEF EmptyFile, File, NoProfiles, List

LEMMA ProfileTypesInit == ProfilesInit => ProfilesTypeOK
<1> SUFFICES ASSUME ProfilesInit PROVE ProfilesTypeOK
  OBVIOUS
<1>1. NoOp(AnyProfile) \in Op
  BY NoOpType, AnyProfileType
<1>2. now \in 1..MaxTime
  BY ProfileStoreAssumption DEF ProfilesInit
<1> QED
  BY <1>1, <1>2, EmptyFileType DEF ProfilesInit, ProfilesTypeOK

LEMMA ProfileTypesStep ==
  ProfilesTypeOK /\ [ProfilesNext]_profileVars => ProfilesTypeOK'
<1> SUFFICES ASSUME ProfilesTypeOK, [ProfilesNext]_profileVars
             PROVE  ProfilesTypeOK'
  OBVIOUS
<1>a. NoInode \notin Inode /\ MaxTime \in Nat \ {0}
  BY ProfileStoreAssumption
<1>1. ASSUME NEW w \in Writer, NEW id \in Profile,
             NEW kind \in {"save", "delete", "touch", "touchDisconnected"},
             Begin(w, kind, id)
      PROVE  ProfilesTypeOK'
  <2>1. [NoOp(id) EXCEPT !.kind = kind] \in Op
    BY NoOpType DEF Op
  <2> QED
    BY <1>1, <2>1 DEF Begin, ProfilesTypeOK
<1>2. ASSUME NEW w \in Writer, Read(w) PROVE ProfilesTypeOK'
  <2>1. CASE Ends(w) /\ UNCHANGED now
    <3>1. NoOp(AnyProfile) \in Op
      BY NoOpType, AnyProfileType
    <3> QED
      BY <1>2, <2>1, <3>1 DEF Read, Ends, ProfilesTypeOK
  <2>2. CASE /\ WritesBack(op[w].kind, list, op[w].id)
             /\ op[w].kind = "save" => now < MaxTime
             /\ now' = IF op[w].kind = "save" THEN now + 1 ELSE now
             /\ op' = [op EXCEPT ![w].step = "open",
                              ![w].list = Updated(op[w].kind, list, op[w].id)]
    <3>1. op[w] \in Op /\ op[w].kind # "none"
      BY <1>2 DEF ProfilesTypeOK, Read, At, Idle
    <3>2. op[w].id \in Profile
          /\ op[w].kind \in {"save", "touch", "touchDisconnected", "delete"}
      BY <3>1 DEF Op
    <3> DEFINE l == Updated(op[w].kind, list, op[w].id)
    <3>3. l \in List
      BY <2>2, <3>2, UpdatedType, ListType
    <3>5. op' = [op EXCEPT ![w] = [op[w] EXCEPT !.step = "open", !.list = l]]
      BY <2>2
    <3> HIDE DEF l
    <3>4. [op[w] EXCEPT !.step = "open", !.list = l] \in Op
      BY <3>1, <3>3 DEF Op
    <3>6. op' \in [Writer -> Op]
      BY <3>4, <3>5 DEF ProfilesTypeOK
    <3>7. now' \in 1..MaxTime
      BY <1>a, <2>2 DEF ProfilesTypeOK
    <3> QED
      BY <1>2, <3>6, <3>7 DEF Read, ProfilesTypeOK
  <2> QED
    BY <1>2, <2>1, <2>2 DEF Read
<1>3. ASSUME NEW w \in Writer, OpenTmp(w) PROVE ProfilesTypeOK'
  <2>1. PICK i \in Inode :
          /\ IF tmp = NoInode THEN ~InUse(i) ELSE i = tmp
          /\ tmp' = i
          /\ disk' = [disk EXCEPT ![i] = EmptyFile]
          /\ op' = [op EXCEPT ![w].step = "write", ![w].fd = i]
    BY <1>3 DEF OpenTmp
  <2>2. op' = [op EXCEPT ![w] = [op[w] EXCEPT !.step = "write", !.fd = i]]
    BY <2>1
  <2>3. [op[w] EXCEPT !.step = "write", !.fd = i] \in Op
    BY DEF ProfilesTypeOK, Op
  <2>4. op' \in [Writer -> Op]
    BY <2>2, <2>3 DEF ProfilesTypeOK
  <2>5. path' = tmp' => path' = NoInode
    BY <1>3, <2>1 DEF OpenTmp, InUse, ProfilesTypeOK
  <2>6. disk' \in [Inode -> File]
    BY <2>1, EmptyFileType DEF ProfilesTypeOK
  <2> QED
    BY <1>3, <2>1, <2>4, <2>5, <2>6 DEF OpenTmp, ProfilesTypeOK
<1>4. ASSUME NEW w \in Writer, WriteTmp(w) PROVE ProfilesTypeOK'
  <2>1. PICK f \in {[state |-> "whole", list |-> op[w].list],
                    [state |-> "torn", list |-> NoProfiles]} :
          disk' = [disk EXCEPT ![op[w].fd] = f]
    BY <1>4 DEF WriteTmp
  <2>2. op[w] \in Op
    BY DEF ProfilesTypeOK
  <2>3. f \in File
    BY <2>1, <2>2 DEF File, Op, NoProfiles, List
  <2>4. disk' \in [Inode -> File]
    BY <2>1, <2>3 DEF ProfilesTypeOK
  <2>5. op' = [op EXCEPT ![w] = [op[w] EXCEPT !.step = "rename", !.fd = NoInode]]
    BY <1>4 DEF WriteTmp
  <2>6. [op[w] EXCEPT !.step = "rename", !.fd = NoInode] \in Op
    BY <2>2 DEF Op
  <2>7. op' \in [Writer -> Op]
    BY <2>5, <2>6 DEF ProfilesTypeOK
  <2> QED
    BY <1>4, <2>4, <2>7 DEF WriteTmp, ProfilesTypeOK
<1>5. ASSUME NEW w \in Writer, Rename(w) PROVE ProfilesTypeOK'
  <2>1. op' \in [Writer -> Op]
    BY <1>5, NoOpType, AnyProfileType DEF Rename, Ends, ProfilesTypeOK
  <2>2. disk' \in [Inode -> File]
    <3>1. CASE tmp = NoInode
      BY <1>5, <3>1 DEF Rename, ProfilesTypeOK
    <3>2. CASE tmp # NoInode
      BY <1>5, <3>2, EmptyFileType DEF Rename, ProfilesTypeOK
    <3> QED
      BY <3>1, <3>2
  <2>3. saved' \subseteq Profile
    <3>1. op[w].id \in Profile
      BY DEF ProfilesTypeOK, Op
    <3> QED
      BY <1>5, <3>1 DEF Rename, ProfilesTypeOK
  <2>4. /\ path' \in Inode \cup {NoInode} /\ tmp' \in Inode \cup {NoInode}
        /\ path' = tmp' => path' = NoInode
    BY <1>5 DEF Rename, ProfilesTypeOK
  <2>5. now' = now
    BY <1>5 DEF Rename
  <2> QED
    BY <2>1, <2>2, <2>3, <2>4, <2>5 DEF ProfilesTypeOK
<1>6. ASSUME Crash PROVE ProfilesTypeOK'
  BY <1>6, NoOpType, AnyProfileType DEF Crash, ProfilesTypeOK
<1>7. CASE UNCHANGED profileVars
  BY <1>7 DEF profileVars, ProfilesTypeOK
<1> QED
  BY <1>1, <1>2, <1>3, <1>4, <1>5, <1>6, <1>7 DEF ProfilesNext

\* Lists, files and operations keep their types, whatever overlaps; the two
\* names never lead to the same file.
THEOREM ProfilesTyped == ProfilesSpec => []ProfilesTypeOK
<1>1. ProfilesInit => ProfilesTypeOK
  BY ProfileTypesInit
<1>2. ProfilesTypeOK /\ [ProfilesNext]_profileVars => ProfilesTypeOK'
  BY ProfileTypesStep
<1> QED
  BY <1>1, <1>2, PTL DEF ProfilesSpec

-----------------------------------------------------------------------------
(* One replacement of the file at a time.                                  *)

LEMMA FilesInit == ProfilesInit => FilesInv
  BY DEF ProfilesInit, FilesInv, ListIsReadable, Publishing, Idle, NoOp

LEMMA FilesStep ==
  /\ ProfilesTypeOK /\ FilesInv
  /\ PublishesOneAtATime /\ PublishesOneAtATime' /\ [ProfilesNext]_profileVars
  => FilesInv'
<1> SUFFICES ASSUME ProfilesTypeOK, FilesInv, PublishesOneAtATime,
                    PublishesOneAtATime', [ProfilesNext]_profileVars
             PROVE  FilesInv'
  OBVIOUS
<1>a. NoInode \notin Inode
  BY ProfileStoreAssumption
<1>b. \A w \in Writer : op[w] \in Op
  BY DEF ProfilesTypeOK
<1>1. ASSUME NEW w \in Writer, NEW id \in Profile, NEW kind, Begin(w, kind, id)
      PROVE  FilesInv'
  <2>1. ~Publishing(w)'
    BY <1>1 DEF Begin, NoOp, Publishing, ProfilesTypeOK
  <2>2. \A v \in Writer \ {w} : op'[v] = op[v]
    BY <1>1 DEF Begin, ProfilesTypeOK
  <2> QED
    BY <1>1, <2>1, <2>2 DEF Begin, FilesInv, ListIsReadable, Publishing, Idle
<1>2. ASSUME NEW w \in Writer, Read(w) PROVE FilesInv'
  <2>1. ~Publishing(w)'
    <3>1. CASE Ends(w)
      BY <3>1 DEF Ends, NoOp, Publishing, Idle, ProfilesTypeOK
    <3>2. CASE op' = [op EXCEPT ![w].step = "open",
                        ![w].list = Updated(op[w].kind, list, op[w].id)]
      <4>1. op'[w].step = "open"
        BY <1>b, <3>2 DEF ProfilesTypeOK, Op
      <4> QED
        BY <4>1 DEF Publishing
    <3> QED
      BY <1>2, <3>1, <3>2 DEF Read
  <2>2. \A v \in Writer \ {w} : op'[v] = op[v]
    BY <1>2 DEF Read, Ends, ProfilesTypeOK
  <2> QED
    BY <1>2, <2>1, <2>2 DEF Read, FilesInv, ListIsReadable, Publishing, Idle
<1>3. ASSUME NEW w \in Writer, OpenTmp(w) PROVE FilesInv'
  <2>1. PICK i \in Inode :
          /\ IF tmp = NoInode THEN ~InUse(i) ELSE i = tmp
          /\ tmp' = i
          /\ disk' = [disk EXCEPT ![i] = EmptyFile]
          /\ op' = [op EXCEPT ![w].step = "write", ![w].fd = i]
    BY <1>3 DEF OpenTmp
  <2>2. op' = [op EXCEPT ![w] = [op[w] EXCEPT !.step = "write", !.fd = i]]
    BY <2>1
  <2>3. /\ op'[w].step = "write" /\ op'[w].fd = i /\ op'[w].kind = op[w].kind
        /\ \A v \in Writer \ {w} : op'[v] = op[v]
    BY <1>b, <2>2 DEF ProfilesTypeOK, Op
  <2>4. Publishing(w)'
    BY <1>3, <2>3 DEF OpenTmp, At, Idle, Publishing
  <2>5. \A v \in Writer \ {w} : ~Publishing(v)'
    BY <2>4 DEF PublishesOneAtATime
  <2>6. path # NoInode => i # path
    BY <2>1 DEF InUse, ProfilesTypeOK
  <2>7. ListIsReadable'
    BY <1>3, <2>1, <2>6 DEF OpenTmp, FilesInv, ListIsReadable, ProfilesTypeOK
  <2>8. tmp' # NoInode /\ disk'[tmp'].state = "empty"
    BY <1>a, <2>1 DEF EmptyFile, ProfilesTypeOK
  <2> QED
    BY <2>1, <2>3, <2>5, <2>7, <2>8 DEF FilesInv
<1>4. ASSUME NEW w \in Writer, WriteTmp(w) PROVE FilesInv'
  <2>1. PICK f \in {[state |-> "whole", list |-> op[w].list],
                    [state |-> "torn", list |-> NoProfiles]} :
          /\ disk[op[w].fd].state = "empty" => f.state = "whole"
          /\ disk' = [disk EXCEPT ![op[w].fd] = f]
    BY <1>4 DEF WriteTmp
  <2>2. Publishing(w)
    BY <1>4 DEF WriteTmp, At, Publishing
  <2>3. /\ op[w].fd = tmp /\ tmp \in Inode /\ tmp # path
        /\ f.state = "whole"
    BY <1>4, <2>1, <2>2 DEF WriteTmp, At, FilesInv, ProfilesTypeOK
  <2>4. op' = [op EXCEPT ![w] = [op[w] EXCEPT !.step = "rename", !.fd = NoInode]]
    BY <1>4 DEF WriteTmp
  <2>5. /\ op'[w].step = "rename" /\ op'[w].kind = op[w].kind
        /\ \A v \in Writer \ {w} : op'[v] = op[v]
    BY <1>b, <2>4 DEF ProfilesTypeOK, Op
  <2>6. Publishing(w)'
    BY <2>2, <2>5 DEF Publishing, Idle
  <2>7. \A v \in Writer \ {w} : ~Publishing(v)'
    BY <2>6 DEF PublishesOneAtATime
  <2>8. disk'[tmp].state = "whole" /\ tmp' = tmp /\ tmp # NoInode
    BY <1>4, <1>a, <2>1, <2>3 DEF WriteTmp, ProfilesTypeOK
  <2>9. ListIsReadable'
    BY <1>4, <2>1, <2>3 DEF WriteTmp, FilesInv, ListIsReadable, ProfilesTypeOK
  <2> QED
    BY <2>5, <2>7, <2>8, <2>9 DEF FilesInv
<1>5. ASSUME NEW w \in Writer, Rename(w) PROVE FilesInv'
  <2>1. Publishing(w)
    BY <1>5 DEF Rename, At, Publishing
  <2>2. tmp \in Inode /\ tmp # path /\ disk[tmp].state = "whole"
    BY <1>5, <2>1 DEF Rename, At, FilesInv, ProfilesTypeOK
  <2>3. path' = tmp /\ disk'[tmp] = disk[tmp]
    BY <1>5, <1>a, <2>2 DEF Rename
  <2>4. ListIsReadable'
    BY <2>2, <2>3 DEF ListIsReadable
  <2>5. \A v \in Writer \ {w} : op'[v] = op[v]
    BY <1>5 DEF Rename, Ends, ProfilesTypeOK
  <2>6. \A v \in Writer : ~Publishing(v)'
    <3>1. ~Publishing(w)'
      BY <1>5 DEF Rename, Ends, NoOp, Publishing, Idle, ProfilesTypeOK
    <3> QED
      BY <2>1, <2>5, <3>1 DEF PublishesOneAtATime, Publishing, Idle
  <2> QED
    BY <2>4, <2>6 DEF FilesInv
<1>6. ASSUME Crash PROVE FilesInv'
  BY <1>6 DEF Crash, FilesInv, ListIsReadable, Publishing, Idle, NoOp
<1>7. CASE UNCHANGED profileVars
  BY <1>7 DEF profileVars, FilesInv, ListIsReadable, Publishing, Idle
<1> QED
  BY <1>1, <1>2, <1>3, <1>4, <1>5, <1>6, <1>7 DEF ProfilesNext

\* As long as no two operations replace the file at the same time, every
\* reader finds the complete text of one list, also after a crash that left
\* a temporary file behind.  Reading and computing may overlap with anything.
THEOREM ProfilesWhole ==
  ProfilesSpec /\ []PublishesOneAtATime => []PublishedIsWhole
<1> DEFINE FInv == ProfilesTypeOK /\ FilesInv
<1>1. ProfilesInit => FInv
  BY ProfileTypesInit, FilesInit
<1>2. /\ FInv /\ PublishesOneAtATime /\ PublishesOneAtATime'
      /\ [ProfilesNext]_profileVars
      => FInv'
  BY ProfileTypesStep, FilesStep
<1>3. FInv => PublishedIsWhole
  BY DEF FilesInv, PublishedIsWhole
<1> HIDE DEF FInv
<1> QED
  BY <1>1, <1>2, <1>3, PTL DEF ProfilesSpec

-----------------------------------------------------------------------------
(* One operation at a time.                                                *)

LEMMA ListsInit == ProfilesInit => ListsInv
  BY DEF ProfilesInit, ListsInv, Computed, Idle, NoOp

LEMMA ListsStep ==
  /\ ProfilesTypeOK /\ FilesInv /\ ListsInv
  /\ OperationsOneAtATime /\ OperationsOneAtATime' /\ [ProfilesNext]_profileVars
  => ListsInv'
<1> SUFFICES ASSUME ProfilesTypeOK, FilesInv, ListsInv, OperationsOneAtATime,
                    OperationsOneAtATime', [ProfilesNext]_profileVars
             PROVE  ListsInv'
  OBVIOUS
<1>a. NoInode \notin Inode /\ list \in List
  BY ListType, ProfileStoreAssumption
<1>b. \A w \in Writer : op[w] \in Op
  BY DEF ProfilesTypeOK
<1>1. ASSUME NEW w \in Writer, NEW id \in Profile,
             NEW kind \in {"save", "delete", "touch", "touchDisconnected"},
             Begin(w, kind, id)
      PROVE  ListsInv'
  <2>1. /\ op'[w] = [NoOp(id) EXCEPT !.kind = kind]
        /\ \A v \in Writer \ {w} : op'[v] = op[v]
    BY <1>1 DEF Begin, ProfilesTypeOK
  <2>2. op'[w].kind = kind /\ op'[w].id = id /\ op'[w].step = "read"
    BY <2>1 DEF NoOp
  <2>3. ~Idle(w)' /\ ~Computed(w)'
    BY <2>2 DEF Idle, Computed
  <2>4. \A v \in Writer \ {w} : ~Computed(v)'
    BY <2>3 DEF OperationsOneAtATime, Computed
  <2>5. list' = list /\ saved' \subseteq saved
        /\ (kind = "delete" => id \notin saved')
    BY <1>1 DEF Begin, list
  <2>6. \A v \in Writer : op'[v].kind = "delete" => op'[v].id \notin saved'
    BY <2>1, <2>2, <2>5 DEF ListsInv
  <2>7. \A p \in saved' : list'[p] # Absent
    BY <2>5 DEF ListsInv
  <2> QED
    BY <2>3, <2>4, <2>6, <2>7 DEF ListsInv
<1>2. ASSUME NEW w \in Writer, Read(w) PROVE ListsInv'
  <2>1. list' = list /\ saved' = saved /\ disk' = disk /\ tmp' = tmp
    BY <1>2 DEF Read, list
  <2>2. \A v \in Writer \ {w} : op'[v] = op[v] /\ Idle(v)
    BY <1>2 DEF Read, At, Ends, ProfilesTypeOK, OperationsOneAtATime
  <2>3. CASE Ends(w)
    <3>1. op'[w] = NoOp(AnyProfile)
      BY <2>3 DEF Ends, ProfilesTypeOK
    <3>2. op'[w].kind = "none"
      BY <3>1 DEF NoOp
    <3> QED
      BY <2>1, <2>2, <3>2 DEF ListsInv, Computed, Idle
  <2>4. CASE /\ WritesBack(op[w].kind, list, op[w].id)
             /\ op' = [op EXCEPT ![w].step = "open",
                              ![w].list = Updated(op[w].kind, list, op[w].id)]
    <3> DEFINE l == Updated(op[w].kind, list, op[w].id)
    <3>1. op[w] \in Op /\ op[w].kind # "none"
      BY <1>2, <1>b DEF Read, At, Idle
    <3>2. op[w].id \in Profile
          /\ op[w].kind \in {"save", "touch", "touchDisconnected", "delete"}
      BY <3>1 DEF Op
    <3>3. /\ l \in List
          /\ \A p \in Profile \ {op[w].id} : l[p] = list[p]
          /\ op[w].kind # "delete" => l[op[w].id] # Absent
          /\ op[w].kind \in {"touch", "touchDisconnected"} => list[op[w].id] # Absent
      BY <1>a, <2>4, <3>2, UpdatedType
    <3>4. op' = [op EXCEPT ![w] = [op[w] EXCEPT !.step = "open", !.list = l]]
      BY <2>4
    <3> HIDE DEF l
    <3>5. /\ op'[w].kind = op[w].kind /\ op'[w].id = op[w].id
          /\ op'[w].step = "open" /\ op'[w].list = l
      BY <3>1, <3>4 DEF ProfilesTypeOK, Op
    <3>6. \A p \in saved : l[p] # Absent
      BY <3>2, <3>3 DEF ListsInv, ProfilesTypeOK
    <3>7. Carries(w)'
      BY <2>1, <3>2, <3>3, <3>5, <3>6 DEF Carries
    <3> QED
      BY <2>1, <2>2, <3>5, <3>7 DEF ListsInv, Computed, Idle
  <2> QED
    BY <1>2, <2>3, <2>4 DEF Read
<1>3. ASSUME NEW w \in Writer, OpenTmp(w) PROVE ListsInv'
  <2>1. PICK i \in Inode :
          /\ IF tmp = NoInode THEN ~InUse(i) ELSE i = tmp
          /\ tmp' = i
          /\ disk' = [disk EXCEPT ![i] = EmptyFile]
          /\ op' = [op EXCEPT ![w].step = "write", ![w].fd = i]
    BY <1>3 DEF OpenTmp
  <2>2. op' = [op EXCEPT ![w] = [op[w] EXCEPT !.step = "write", !.fd = i]]
    BY <2>1
  <2>3. /\ op'[w].step = "write" /\ op'[w].kind = op[w].kind
        /\ op'[w].id = op[w].id /\ op'[w].list = op[w].list
    BY <1>b, <2>2 DEF ProfilesTypeOK, Op
  <2>4. \A v \in Writer \ {w} : op'[v] = op[v] /\ Idle(v)
    BY <1>3, <2>2 DEF OpenTmp, At, ProfilesTypeOK, OperationsOneAtATime
  <2>5. path # NoInode => i # path
    BY <2>1 DEF InUse, ProfilesTypeOK
  <2>6. list' = list /\ saved' = saved
    BY <1>3, <2>1, <2>5 DEF OpenTmp, list, ProfilesTypeOK
  <2>7. Carries(w)
    BY <1>3 DEF OpenTmp, At, Computed, ListsInv
  <2>8. Carries(w)'
    BY <2>3, <2>6, <2>7 DEF Carries
  <2> QED
    BY <2>3, <2>4, <2>6, <2>8 DEF ListsInv, Computed, Idle
<1>4. ASSUME NEW w \in Writer, WriteTmp(w) PROVE ListsInv'
  <2>1. PICK f \in {[state |-> "whole", list |-> op[w].list],
                    [state |-> "torn", list |-> NoProfiles]} :
          /\ disk[op[w].fd].state = "empty" => f.state = "whole"
          /\ disk' = [disk EXCEPT ![op[w].fd] = f]
    BY <1>4 DEF WriteTmp
  <2>2. /\ op[w].fd = tmp /\ tmp \in Inode /\ tmp # path
        /\ f.list = op[w].list
    BY <1>4, <2>1 DEF WriteTmp, At, Publishing, FilesInv, ProfilesTypeOK
  <2>3. op' = [op EXCEPT ![w] = [op[w] EXCEPT !.step = "rename", !.fd = NoInode]]
    BY <1>4 DEF WriteTmp
  <2>4. /\ op'[w].step = "rename" /\ op'[w].kind = op[w].kind
        /\ op'[w].id = op[w].id /\ op'[w].list = op[w].list
    BY <1>b, <2>3 DEF ProfilesTypeOK, Op
  <2>5. \A v \in Writer \ {w} : op'[v] = op[v] /\ Idle(v)
    BY <1>4, <2>3 DEF WriteTmp, At, ProfilesTypeOK, OperationsOneAtATime
  <2>6. list' = list /\ saved' = saved /\ disk'[tmp'].list = op[w].list
    BY <1>4, <2>1, <2>2 DEF WriteTmp, list, ProfilesTypeOK
  <2>7. Carries(w)
    BY <1>4 DEF WriteTmp, At, Computed, ListsInv
  <2>8. Carries(w)'
    BY <2>4, <2>6, <2>7 DEF Carries
  <2> QED
    BY <2>4, <2>5, <2>6, <2>8 DEF ListsInv, Computed, Idle
<1>5. ASSUME NEW w \in Writer, Rename(w) PROVE ListsInv'
  <2>1. Publishing(w) /\ Computed(w) /\ op[w].step = "rename"
    BY <1>5 DEF Rename, At, Publishing, Computed
  <2>2. tmp \in Inode /\ tmp # path
    BY <2>1 DEF FilesInv, ProfilesTypeOK
  <2>3. /\ path' = tmp /\ disk'[tmp] = disk[tmp]
        /\ saved' = IF op[w].kind = "save" THEN saved \cup {op[w].id} ELSE saved
    BY <1>5, <1>a, <2>2 DEF Rename
  <2>4. Carries(w)
    BY <2>1 DEF ListsInv
  <2>5. list' = op[w].list
    BY <1>a, <2>1, <2>2, <2>3, <2>4 DEF list, Carries
  <2>6. \A p \in saved' : list'[p] # Absent
    BY <2>3, <2>4, <2>5 DEF Carries
  <2>7. op'[w].kind = "none"
    BY <1>5 DEF Rename, Ends, NoOp, ProfilesTypeOK
  <2>8. \A v \in Writer \ {w} : op'[v] = op[v] /\ Idle(v)
    BY <1>5 DEF Rename, At, Ends, ProfilesTypeOK, OperationsOneAtATime
  <2> QED
    BY <2>6, <2>7, <2>8 DEF ListsInv, Computed, Idle
<1>6. ASSUME Crash PROVE ListsInv'
  <2>1. list' = list /\ saved' = saved /\ \A w \in Writer : op'[w].kind = "none"
    BY <1>6 DEF Crash, list, NoOp
  <2> QED
    BY <2>1 DEF ListsInv, Computed, Idle
<1>7. CASE UNCHANGED profileVars
  <2>1. list' = list
    BY <1>7 DEF profileVars, list
  <2> QED
    BY <1>7, <2>1 DEF profileVars, ListsInv, Computed, Carries, Idle
<1> QED
  BY <1>1, <1>2, <1>3, <1>4, <1>5, <1>6, <1>7 DEF ProfilesNext

LEMMA OneAtATime == OperationsOneAtATime => PublishesOneAtATime
  BY DEF OperationsOneAtATime, PublishesOneAtATime, Publishing

LEMMA SerialInit == ProfilesInit => OperationsInv
  BY ProfileTypesInit, FilesInit, ListsInit DEF OperationsInv

LEMMA SerialStep ==
  /\ OperationsInv
  /\ OperationsOneAtATime /\ OperationsOneAtATime' /\ [ProfilesNext]_profileVars
  => OperationsInv'
<1> SUFFICES ASSUME OperationsInv, OperationsOneAtATime,
                    OperationsOneAtATime', [ProfilesNext]_profileVars
             PROVE  OperationsInv'
  OBVIOUS
<1>1. PublishesOneAtATime /\ PublishesOneAtATime'
  BY OneAtATime DEF OperationsOneAtATime, PublishesOneAtATime, Publishing, Idle
<1> QED
  BY <1>1, ProfileTypesStep, FilesStep, ListsStep DEF OperationsInv

LEMMA SerialInv ==
  ProfilesSpec /\ []OperationsOneAtATime => []OperationsInv
<1>1. ProfilesInit => OperationsInv
  BY SerialInit
<1>2. /\ OperationsInv /\ OperationsOneAtATime /\ OperationsOneAtATime'
      /\ [ProfilesNext]_profileVars
      => OperationsInv'
  BY SerialStep
<1> QED
  BY <1>1, <1>2, PTL DEF ProfilesSpec

\* As long as operations do not overlap, a profile whose save was answered
\* is listed until somebody deletes it, whatever crashes.
THEOREM ProfilesKept ==
  ProfilesSpec /\ []OperationsOneAtATime => []SavedIsListed
<1>1. OperationsInv => SavedIsListed
  BY DEF OperationsInv, ListsInv, SavedIsListed
<1> QED
  BY <1>1, SerialInv, PTL

\* No operation undoes what another one wrote: the list changes only when
\* an operation is published, and only in that operation's profile.
OnlyOwnProfileChanges ==
    [][\A p \in Profile : list'[p] # list[p] =>
          \E w \in Writer : /\ At(w, "rename") /\ op[w].id = p
                            /\ op'[w].kind = "none"]_profileVars

\* As long as operations do not overlap, none of them loses the update of
\* another.
THEOREM ProfilesNotLost ==
  ProfilesSpec /\ []OperationsOneAtATime => OnlyOwnProfileChanges
<1> DEFINE Owned == \A p \in Profile : list'[p] # list[p] =>
          \E w \in Writer : /\ At(w, "rename") /\ op[w].id = p
                            /\ op'[w].kind = "none"
<1>1. OperationsInv /\ OperationsOneAtATime /\ [ProfilesNext]_profileVars
      => Owned \/ UNCHANGED profileVars
  <2> SUFFICES ASSUME OperationsInv, OperationsOneAtATime, ProfilesNext
               PROVE  Owned
    OBVIOUS
  <2>a. ProfilesTypeOK /\ FilesInv /\ ListsInv /\ NoInode \notin Inode
    BY ProfileStoreAssumption DEF OperationsInv
  <2>1. ASSUME NEW w \in Writer, NEW id \in Profile, NEW kind, Begin(w, kind, id)
        PROVE  list' = list
    BY <2>1 DEF Begin, list
  <2>2. ASSUME NEW w \in Writer, Read(w) PROVE list' = list
    BY <2>2 DEF Read, list
  <2>3. ASSUME NEW w \in Writer, OpenTmp(w) PROVE list' = list
    BY <2>3, <2>a DEF OpenTmp, InUse, list, ProfilesTypeOK
  <2>4. ASSUME NEW w \in Writer, WriteTmp(w) PROVE list' = list
    <3>1. op[w].fd = tmp /\ tmp \in Inode /\ tmp # path
      BY <2>4, <2>a DEF WriteTmp, At, Publishing, FilesInv, ProfilesTypeOK
    <3> QED
      BY <2>4, <2>a, <3>1 DEF WriteTmp, list, ProfilesTypeOK
  <2>5. ASSUME NEW w \in Writer, Rename(w) PROVE Owned
    <3>1. At(w, "rename") /\ Carries(w) /\ tmp # NoInode
      BY <2>5, <2>a DEF Rename, At, Publishing, Computed, FilesInv, ListsInv
    <3>2. list' = op[w].list
      BY <2>5, <2>a, <3>1 DEF Rename, At, list, Carries, ProfilesTypeOK
    <3>3. op'[w].kind = "none"
      BY <2>5, <2>a DEF Rename, Ends, NoOp, ProfilesTypeOK
    <3> QED
      BY <3>1, <3>2, <3>3 DEF Carries
  <2>6. ASSUME Crash PROVE list' = list
    BY <2>6 DEF Crash, list
  <2> QED
    BY <2>1, <2>2, <2>3, <2>4, <2>5, <2>6 DEF ProfilesNext
<1> HIDE DEF Owned
<1>2. ProfilesSpec /\ []OperationsOneAtATime => [][Owned]_profileVars
  BY <1>1, SerialInv, PTL DEF ProfilesSpec
<1> QED
  BY <1>2 DEF OnlyOwnProfileChanges, Owned

\* What the run ProfilesOneWriter checks, for any number of profiles and
\* files: with one operation in flight both promises hold.
COROLLARY ProfilesOneWriter ==
  ASSUME NEW w, Writer = {w}
  PROVE  ProfilesSpec => [](PublishedIsWhole /\ SavedIsListed)
<1>1. OperationsOneAtATime /\ PublishesOneAtATime
  BY DEF OperationsOneAtATime, PublishesOneAtATime
<1>2. ProfilesSpec => []PublishedIsWhole
  BY <1>1, ProfilesWhole, PTL
<1>3. ProfilesSpec => []SavedIsListed
  BY <1>1, ProfilesKept, PTL
<1> QED
  BY <1>2, <1>3, PTL

=============================================================================
