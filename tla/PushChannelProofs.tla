------------------------- MODULE PushChannelProofs -------------------------
(***************************************************************************)
(* Theorems of PushChannel, for any connections, tokens and bounds: the    *)
(* types, one connection at a time, silence after the disposer, and the    *)
(* order of events across reconnections.                                   *)
(***************************************************************************)
EXTENDS PushChannel, SequenceTheorems, TLAPS

-----------------------------------------------------------------------------
(* Sequences that a frame is put behind or taken from.                     *)

LEMMA AppendAt ==
  ASSUME NEW S, NEW s \in Seq(S), NEW x \in S
  PROVE  /\ Append(s, x) \in Seq(S)
         /\ Len(Append(s, x)) = Len(s) + 1
         /\ \A i \in 1..Len(s) : Append(s, x)[i] = s[i]
         /\ Append(s, x)[Len(s) + 1] = x
  BY AppendProperties, LenProperties

LEMMA HeadTailAt ==
  ASSUME NEW S, NEW s \in Seq(S), s # <<>>
  PROVE  /\ Head(s) \in S
         /\ Tail(s) \in Seq(S)
         /\ Len(s) \in Nat \ {0}
         /\ Len(Tail(s)) = Len(s) - 1
         /\ Head(s) = s[1]
         /\ \A i \in 1..Len(s) - 1 : Tail(s)[i] = s[i + 1]
<1>1. Len(s) \in Nat \ {0}
  BY LenProperties, EmptySeq
<1> QED
  BY <1>1, HeadTailProperties

-----------------------------------------------------------------------------
(* The types.                                                              *)

LinkState == {"upgrading", "accepted", "open", "ended", "none"}

LEMMA TypeInit == Init => TypeOK
<1>1. <<>> \in Seq(1..MaxEvents)
  OBVIOUS
<1>2. 0 \in 0..AttemptCap /\ 0 \in 0..MaxEvents /\ 0 \in 0..MaxFailures
      /\ 0 \in 0..MaxRestarts
  BY PushChannelAssumption
<1>3. Init => link \in [Connection -> LinkState]
  BY DEF Init, LinkState
<1> QED
  BY <1>1, <1>2, <1>3 DEF Init, TypeOK, LinkState

\* Connections that break keep their types.
LEMMA BreaksTyped ==
  ASSUME NEW cs, TypeOK, Breaks(cs)
  PROVE  /\ link' \in [Connection -> LinkState]
         /\ frames' \in [Connection -> Seq(1..MaxEvents)]
<1>1. <<>> \in Seq(1..MaxEvents)
  OBVIOUS
<1> QED
  BY <1>1 DEF TypeOK, Breaks, LinkState

LEMMA TypeStep == TypeOK /\ [Next]_vars => TypeOK'
<1> SUFFICES ASSUME TypeOK, [Next]_vars PROVE TypeOK'
  OBVIOUS
<1> USE PushChannelAssumption DEF TypeOK, LinkState, page, server, history
<1>1. CASE TimerFires
  BY <1>1 DEF TimerFires
<1>2. CASE Dispose
  BY <1>2, BreaksTyped DEF Dispose
<1>3. CASE broadcast
  <2>1. sent + 1 \in 1..MaxEvents
    BY <1>3 DEF broadcast
  <2>2. \A c \in Connection : Append(frames[c], sent + 1) \in Seq(1..MaxEvents)
    BY <2>1, AppendAt
  <2>3. frames' \in [Connection -> Seq(1..MaxEvents)]
    BY <1>3, <2>2 DEF broadcast
  <2> QED
    BY <1>3, <2>1, <2>3 DEF broadcast
<1>4. CASE Stop
  <2>1. restarts' \in 0..MaxRestarts
    BY <1>4 DEF Stop
  <2> QED
    BY <1>4, <2>1, BreaksTyped DEF Stop
<1>5. CASE Start
  BY <1>5 DEF Start
<1>6. ASSUME NEW c \in Connection, OnOpen(c) PROVE TypeOK'
  BY <1>6 DEF OnOpen
<1>7. ASSUME NEW c \in Connection, OnMessage(c) PROVE TypeOK'
  <2>1. /\ Head(frames[c]) \in 1..MaxEvents
        /\ Tail(frames[c]) \in Seq(1..MaxEvents)
    BY <1>7, HeadTailAt DEF OnMessage
  <2>2. received' \in Seq(1..MaxEvents)
    BY <1>7, <2>1, AppendAt DEF OnMessage
  <2>3. frames' \in [Connection -> Seq(1..MaxEvents)]
    BY <1>7, <2>1 DEF OnMessage
  <2> QED
    BY <1>7, <2>2, <2>3 DEF OnMessage
<1>8. ASSUME NEW c \in Connection, OnClose(c) PROVE TypeOK'
  <2>1. \/ UNCHANGED <<timer, attempt>>
        \/ /\ timer' = TRUE
           /\ \/ attempt < AttemptCap /\ attempt' = attempt + 1
              \/ attempt' = AttemptCap
    BY <1>8 DEF OnClose, schedule, retry
  <2>2. attempt' \in 0..AttemptCap
    BY <2>1
  <2> QED
    BY <1>8, <2>1, <2>2 DEF OnClose
<1>9. ASSUME NEW c \in Connection, Upgrade(c) PROVE TypeOK'
  BY <1>9, BreaksTyped DEF Upgrade
<1>10. ASSUME NEW c \in Connection, OnSocketGone(c) PROVE TypeOK'
  BY <1>10 DEF OnSocketGone
<1>11. ASSUME NEW c \in Connection, ConnectionFails(c) PROVE TypeOK'
  <2>1. failures' \in 0..MaxFailures
    BY <1>11 DEF ConnectionFails
  <2> QED
    BY <1>11, <2>1, BreaksTyped DEF ConnectionFails
<1>12. CASE UNCHANGED vars
  BY <1>12 DEF vars
<1> QED
  BY <1>1, <1>2, <1>3, <1>4, <1>5, <1>6, <1>7, <1>8, <1>9, <1>10, <1>11, <1>12
     DEF Next

-----------------------------------------------------------------------------
(* One connection.                                                         *)

\* A connection that has ended has nothing under way.
EndedIsEmpty == \A c \in Connection \ Live : frames[c] = <<>>

\* Until the disposer runs, the page waits for the close event of a socket
\* before it opens another: only the current one is known to it at all.
OneKnown == ~stopped => \A c \in Connection \ {socket} : link[c] = "none"

ConnectionInv ==
    /\ OneKnown
    /\ Live \subseteq {socket}
    /\ timer => socket = NoConnection
    /\ DisposedIsQuiet
    /\ EndedIsEmpty

LEMMA ConnectionInit == Init => ConnectionInv
  BY DEF Init, ConnectionInv, OneKnown, DisposedIsQuiet, EndedIsEmpty, Live

\* A connection that breaks disturbs nothing but what is under way on it.
LEMMA BreaksQuietly ==
  ASSUME NEW cs, TypeOK, ConnectionInv, Breaks(cs)
  PROVE  /\ Live' \subseteq Live /\ Live' \cap cs = {} /\ EndedIsEmpty'
         /\ \A c \in Connection : link[c] = "none" => link'[c] = "none"
  BY DEF TypeOK, ConnectionInv, EndedIsEmpty, Live, Breaks

LEMMA ConnectionStep == TypeOK /\ ConnectionInv /\ [Next]_vars => ConnectionInv'
<1> SUFFICES ASSUME TypeOK, ConnectionInv, [Next]_vars PROVE ConnectionInv'
  OBVIOUS
<1> USE PushChannelAssumption DEF DisposedIsQuiet, page, server
<1>1. CASE TimerFires
  <2>1. Live = {}
    BY <1>1 DEF TimerFires, ConnectionInv, Live
  <2>2. CASE stopped
    BY <1>1, <2>1, <2>2 DEF TimerFires, ConnectionInv, EndedIsEmpty, OneKnown, Live
  <2>3. CASE ~stopped
    <3>1. PICK c \in Connection :
             socket' = c /\ link' = [link EXCEPT ![c] = "upgrading"]
      BY <1>1, <2>3 DEF TimerFires
    <3>2. Live' \subseteq {c}
      BY <2>1, <3>1 DEF TypeOK, Live
    <3>3. EndedIsEmpty'
      BY <1>1, <2>1, <3>1 DEF TimerFires, TypeOK, ConnectionInv, EndedIsEmpty
    <3>4. OneKnown'
      BY <1>1, <2>3, <3>1 DEF TimerFires, TypeOK, ConnectionInv, OneKnown
    <3> QED
      BY <1>1, <2>3, <3>1, <3>2, <3>3, <3>4 DEF TimerFires, ConnectionInv
  <2> QED
    BY <2>2, <2>3
<1>2. CASE Dispose
  <2>1. Breaks({socket} \cap Connection)
    BY <1>2 DEF Dispose
  <2>2. Live' = {}
    BY <2>1, BreaksQuietly DEF ConnectionInv, Live
  <2> QED
    BY <1>2, <2>1, <2>2, BreaksQuietly DEF Dispose, ConnectionInv, OneKnown
<1>3. CASE broadcast
  <2>1. EndedIsEmpty'
    BY <1>3 DEF broadcast, Attached, ConnectionInv, EndedIsEmpty, Live
  <2> QED
    BY <1>3, <2>1 DEF broadcast, ConnectionInv, OneKnown, Live
<1>4. CASE Stop
  BY <1>4, BreaksQuietly DEF Stop, ConnectionInv, OneKnown
<1>5. CASE Start
  BY <1>5 DEF Start, ConnectionInv, EndedIsEmpty, OneKnown, Live
<1>6. ASSUME NEW c \in Connection, OnOpen(c) PROVE ConnectionInv'
  BY <1>6 DEF OnOpen, TypeOK, ConnectionInv, EndedIsEmpty, OneKnown, Live
<1>7. ASSUME NEW c \in Connection, OnMessage(c) PROVE ConnectionInv'
  BY <1>7 DEF OnMessage, TypeOK, ConnectionInv, EndedIsEmpty, OneKnown, Live
<1>8. ASSUME NEW c \in Connection, OnClose(c) PROVE ConnectionInv'
  <2>1. Live' = Live /\ EndedIsEmpty'
    BY <1>8 DEF OnClose, TypeOK, ConnectionInv, EndedIsEmpty, Live
  <2>2. CASE stopped
    BY <1>8, <2>1, <2>2 DEF OnClose, ConnectionInv, OneKnown
  <2>3. CASE ~stopped
    <3>1. c = socket
      BY <1>8, <2>3 DEF OnClose, ConnectionInv, OneKnown
    <3>2. Live = {}
      BY <1>8, <3>1 DEF OnClose, ConnectionInv, Live
    <3>3. OneKnown'
      BY <1>8, <2>3, <3>1 DEF OnClose, TypeOK, ConnectionInv, OneKnown
    <3> QED
      BY <1>8, <2>1, <2>3, <3>2, <3>3 DEF OnClose, ConnectionInv
  <2> QED
    BY <2>2, <2>3
<1>9. ASSUME NEW c \in Connection, Upgrade(c) PROVE ConnectionInv'
  <2>1. CASE pageToken = serverToken
    BY <1>9, <2>1 DEF Upgrade, TypeOK, ConnectionInv, EndedIsEmpty, OneKnown, Live
  <2>2. CASE pageToken # serverToken
    BY <1>9, <2>2, BreaksQuietly DEF Upgrade, ConnectionInv, OneKnown
  <2> QED
    BY <2>1, <2>2
<1>10. ASSUME NEW c \in Connection, OnSocketGone(c) PROVE ConnectionInv'
  BY <1>10 DEF OnSocketGone, ConnectionInv, EndedIsEmpty, OneKnown, Live
<1>11. ASSUME NEW c \in Connection, ConnectionFails(c) PROVE ConnectionInv'
  BY <1>11, BreaksQuietly DEF ConnectionFails, ConnectionInv, OneKnown
<1>12. CASE UNCHANGED vars
  BY <1>12 DEF vars, ConnectionInv, EndedIsEmpty, OneKnown, Live
<1> QED
  BY <1>1, <1>2, <1>3, <1>4, <1>5, <1>6, <1>7, <1>8, <1>9, <1>10, <1>11, <1>12
     DEF Next

-----------------------------------------------------------------------------
(* The order of events.                                                    *)

\* A sequence of event numbers that rises and does not exceed n.
Rises(s, n) ==
    /\ \A i \in 1..Len(s) : s[i] <= n
    /\ \A i, j \in 1..Len(s) : i < j => s[i] < s[j]

\* What the page has received, with what is under way on any connection, is in
\* the order of the broadcasts.
OrderInv ==
    /\ Rises(received, sent)
    /\ \A c \in Connection :
          /\ Rises(frames[c], sent)
          /\ \A i \in 1..Len(received), j \in 1..Len(frames[c]) :
                received[i] < frames[c][j]

LEMMA OrderInit == Init => OrderInv
<1>1. Len(<<>>) = 0 /\ 1..0 = {}
  OBVIOUS
<1> QED
  BY <1>1 DEF Init, OrderInv, Rises

\* What breaks, or has nothing under way, keeps the order.
LEMMA OrderKept ==
  ASSUME OrderInv, UNCHANGED <<received, sent>>,
         \A c \in Connection : frames'[c] \in {frames[c], <<>>}
  PROVE  OrderInv'
<1>1. Len(<<>>) = 0 /\ 1..0 = {}
  OBVIOUS
<1>2. ASSUME NEW c \in Connection
      PROVE  /\ Rises(frames[c], sent)'
             /\ (\A i \in 1..Len(received), j \in 1..Len(frames[c]) :
                   received[i] < frames[c][j])'
  <2>1. CASE frames'[c] = frames[c]
    BY <2>1 DEF OrderInv, Rises
  <2>2. CASE frames'[c] = <<>>
    BY <1>1, <2>2 DEF Rises
  <2> QED
    BY <2>1, <2>2
<1> QED
  BY <1>2 DEF OrderInv, Rises

LEMMA OrderStep == TypeOK /\ ConnectionInv /\ OrderInv /\ [Next]_vars => OrderInv'
<1> SUFFICES ASSUME TypeOK, ConnectionInv, OrderInv, [Next]_vars PROVE OrderInv'
  OBVIOUS
<1>1. CASE broadcast
  <2>1. /\ sent \in Nat /\ sent' = sent + 1 /\ UNCHANGED received
        /\ received \in Seq(Nat) /\ \A c \in Connection : frames[c] \in Seq(Nat)
    BY <1>1, PushChannelAssumption DEF broadcast, TypeOK
  <2>2. \A i \in 1..Len(received) : received[i] \in Nat /\ received[i] <= sent
    BY <2>1 DEF OrderInv, Rises
  <2>3. Rises(received, sent)'
    BY <2>1, <2>2 DEF OrderInv, Rises
  <2>4. ASSUME NEW c \in Connection
        PROVE  /\ Rises(frames[c], sent)'
               /\ (\A i \in 1..Len(received), j \in 1..Len(frames[c]) :
                     received[i] < frames[c][j])'
    <3> DEFINE s == frames[c]
    <3>1. /\ s \in Seq(Nat) /\ Len(s) \in Nat
          /\ \A i \in 1..Len(s) : s[i] \in Nat /\ s[i] <= sent
          /\ \A i, j \in 1..Len(s) : i < j => s[i] < s[j]
          /\ \A i \in 1..Len(received), j \in 1..Len(s) : received[i] < s[j]
      BY <2>1, LenProperties DEF OrderInv, Rises
    <3>2. CASE frames'[c] = s
      <4> HIDE DEF s
      <4> QED
        BY <2>1, <3>1, <3>2 DEF Rises
    <3>3. CASE frames'[c] = Append(s, sent + 1)
      <4> DEFINE t == Append(s, sent + 1)
      <4>1. /\ Len(t) = Len(s) + 1
            /\ \A i \in 1..Len(s) : t[i] = s[i]
            /\ t[Len(s) + 1] = sent + 1
        BY <2>1, <3>1, AppendAt
      <4>2. \A i \in 1..Len(t) : i \in 1..Len(s) \/ i = Len(s) + 1
        BY <3>1, <4>1
      <4> HIDE DEF s, t
      <4>3. \A i \in 1..Len(t) : t[i] <= sent + 1
        BY <2>1, <3>1, <4>1, <4>2
      <4>4. ASSUME NEW i \in 1..Len(t), NEW j \in 1..Len(t), i < j
            PROVE  t[i] < t[j]
        <5>1. i \in 1..Len(s)
          BY <3>1, <4>1, <4>4
        <5>2. t[i] = s[i] /\ s[i] \in Nat /\ s[i] <= sent
          BY <3>1, <4>1, <5>1
        <5> QED
          BY <2>1, <3>1, <4>1, <4>2, <4>4, <5>1, <5>2
      <4>5. ASSUME NEW i \in 1..Len(received), NEW j \in 1..Len(t)
            PROVE  received[i] < t[j]
        <5>1. received[i] \in Nat /\ received[i] < sent + 1
          BY <2>1, <2>2
        <5>2. CASE j \in 1..Len(s)
          BY <3>1, <4>1, <5>2
        <5> QED
          BY <4>1, <4>2, <5>1, <5>2
      <4>6. frames'[c] = t
        BY <3>3 DEF s, t
      <4> QED
        BY <2>1, <4>3, <4>4, <4>5, <4>6 DEF Rises
    <3> QED
      BY <1>1, <3>2, <3>3 DEF broadcast
  <2> QED
    BY <2>3, <2>4 DEF OrderInv
<1>2. ASSUME NEW c \in Connection, OnMessage(c) PROVE OrderInv'
  <2> DEFINE s == frames[c]
             r == received
  <2>1. /\ s # <<>> /\ received' = Append(r, Head(s)) /\ UNCHANGED sent
        /\ frames' = [frames EXCEPT ![c] = Tail(s)] /\ link[c] = "open"
    BY <1>2 DEF OnMessage
  <2>2. sent \in Nat /\ r \in Seq(Nat) /\ \A d \in Connection : frames[d] \in Seq(Nat)
    BY PushChannelAssumption DEF TypeOK
  <2>3. /\ Head(s) \in Nat /\ Len(s) \in Nat \ {0} /\ Head(s) = s[1]
        /\ Tail(s) \in Seq(Nat) /\ Len(Tail(s)) = Len(s) - 1
        /\ \A i \in 1..Len(s) - 1 : Tail(s)[i] = s[i + 1]
    BY <2>1, <2>2, HeadTailAt
  <2>4. /\ Len(r) \in Nat
        /\ Len(received') = Len(r) + 1
        /\ \A i \in 1..Len(r) : received'[i] = r[i]
        /\ received'[Len(r) + 1] = s[1]
    BY <2>1, <2>2, <2>3, AppendAt, LenProperties
  <2>5. /\ \A i \in 1..Len(r) : r[i] \in Nat /\ r[i] <= sent /\ r[i] < s[1]
        /\ \A i, j \in 1..Len(r) : i < j => r[i] < r[j]
        /\ \A i \in 1..Len(s) : s[i] \in Nat /\ s[i] <= sent
        /\ \A i, j \in 1..Len(s) : i < j => s[i] < s[j]
        /\ \A i \in 1..Len(r), j \in 1..Len(s) : r[i] < s[j]
    <3>1. /\ \A i \in 1..Len(r) : r[i] \in Nat
          /\ \A i \in 1..Len(s) : s[i] \in Nat
          /\ 1 \in 1..Len(s)
      BY <2>2, <2>3, ElementOfSeq
    <3>2. /\ Rises(r, sent) /\ Rises(s, sent)
          /\ \A i \in 1..Len(r), j \in 1..Len(s) : r[i] < s[j]
      BY DEF OrderInv
    <3> HIDE DEF r, s
    <3> QED
      BY <3>1, <3>2 DEF Rises
  <2>6. \A i \in 1..Len(received') : i \in 1..Len(r) \/ i = Len(r) + 1
    BY <2>4
  <2>7. \A d \in Connection \ {c} : frames'[d] = <<>>
    <3>1. \A d \in Connection \ {c} : d \notin Live
      BY <2>1 DEF ConnectionInv, Live
    <3> QED
      BY <2>1, <3>1 DEF TypeOK, ConnectionInv, EndedIsEmpty
  <2>8. frames'[c] = Tail(s)
    BY <2>1 DEF TypeOK
  <2> HIDE DEF s, r
  <2>9. Rises(received, sent)'
    <3>1. \A i \in 1..Len(received') : received'[i] <= sent
      <4>1. s[1] <= sent
        BY <2>3, <2>5
      <4> QED
        BY <2>4, <2>5, <2>6, <4>1
    <3>2. ASSUME NEW i \in 1..Len(received'), NEW j \in 1..Len(received'), i < j
          PROVE  received'[i] < received'[j]
      <4>1. i \in 1..Len(r) /\ received'[i] = r[i]
        BY <2>4, <3>2
      <4> QED
        BY <2>4, <2>5, <2>6, <3>2, <4>1
    <3> QED
      BY <2>1, <3>1, <3>2 DEF Rises
  <2>10. Rises(frames[c], sent)'
    <3> DEFINE t == Tail(s)
    <3>1. \A i \in 1..Len(t) : i + 1 \in 1..Len(s) /\ t[i] = s[i + 1]
      BY <2>3
    <3>2. \A i, j \in 1..Len(t) : i < j => i + 1 < j + 1
      BY <2>3
    <3> HIDE DEF t
    <3>3. Rises(t, sent)
      BY <2>5, <3>1, <3>2 DEF Rises
    <3> QED
      BY <2>1, <2>8, <3>3 DEF Rises, t
  <2>11. ASSUME NEW i \in 1..Len(received'), NEW j \in 1..Len(Tail(s))
         PROVE  received'[i] < Tail(s)[j]
    <3>1. j + 1 \in 1..Len(s) /\ Tail(s)[j] = s[j + 1] /\ 1 \in 1..Len(s) /\ 1 < j + 1
      BY <2>3, <2>11
    <3>2. s[1] < s[j + 1]
      BY <2>5, <3>1
    <3> QED
      BY <2>4, <2>5, <2>6, <3>1, <3>2
  <2>12. ASSUME NEW d \in Connection, d # c
         PROVE  /\ Rises(frames[d], sent)'
                /\ (\A i \in 1..Len(received), j \in 1..Len(frames[d]) :
                      received[i] < frames[d][j])'
    <3>1. Len(<<>>) = 0 /\ 1..0 = {}
      OBVIOUS
    <3> QED
      BY <2>7, <2>12, <3>1 DEF Rises
  <2> QED
    BY <2>8, <2>9, <2>10, <2>11, <2>12 DEF OrderInv
<1>3. CASE TimerFires \/ Start \/ UNCHANGED vars
  BY <1>3, OrderKept DEF TimerFires, Start, vars, server, page, history
<1>4. CASE Dispose \/ Stop
  BY <1>4, OrderKept DEF Dispose, Stop, Breaks, history
<1>5. ASSUME NEW c \in Connection,
             OnOpen(c) \/ OnClose(c) \/ OnSocketGone(c)
      PROVE  OrderInv'
  BY <1>5, OrderKept DEF OnOpen, OnClose, OnSocketGone, history
<1>6. ASSUME NEW c \in Connection, Upgrade(c) \/ ConnectionFails(c) PROVE OrderInv'
  BY <1>6, OrderKept DEF Upgrade, ConnectionFails, Breaks
<1> QED
  BY <1>1, <1>2, <1>3, <1>4, <1>5, <1>6 DEF Next

-----------------------------------------------------------------------------
(* The theorems.                                                           *)

\* The inductive invariant that the three properties rest on.
IInv == TypeOK /\ ConnectionInv /\ OrderInv

LEMMA Invariance == Spec => []IInv
<1>1. Init => IInv
  BY TypeInit, ConnectionInit, OrderInit DEF IInv
<1>2. IInv /\ [Next]_vars => IInv'
  BY TypeStep, ConnectionStep, OrderStep DEF IInv
<1> QED
  BY <1>1, <1>2, PTL DEF Spec

\* Every variable of page and server keeps its type; the attempt counter of the
\* backoff stays at its ceiling.
THEOREM TypeCorrect == Spec => []TypeOK
<1>1. IInv => TypeOK
  BY DEF IInv
<1> QED
  BY Invariance, <1>1, PTL

\* connectEventChannel never has two live WebSockets, nor one and a timer that
\* will open another, however connections fail and servers restart.
THEOREM PageHoldsOneConnection == Spec => []OneConnection
<1>1. IInv => OneConnection
  BY DEF IInv, ConnectionInv, OneConnection
<1> QED
  BY Invariance, <1>1, PTL

\* After the disposer no timer runs and no connection is live, whichever state
\* it found: connecting, open, waiting to reconnect, or with a close event under
\* way; nor does the close event that its own close() causes start one.
THEOREM DisposerEndsTheChannel == Spec => []DisposedIsQuiet
<1>1. IInv => DisposedIsQuiet
  BY DEF IInv, ConnectionInv
<1> QED
  BY Invariance, <1>1, PTL

\* The page's bus sees the events of the server in the order of their
\* broadcasts, none twice, across any number of reconnections.
THEOREM BusSeesEventsInOrder == Spec => []EventsInOrder
<1>1. IInv => EventsInOrder
  <2> SUFFICES ASSUME IInv, NEW i \in 1..(Len(received) - 1)
               PROVE  received[i] < received[i + 1]
    BY DEF EventsInOrder
  <2>1. Len(received) \in Nat
    BY LenProperties DEF IInv, TypeOK
  <2>2. i \in 1..Len(received) /\ i + 1 \in 1..Len(received) /\ i < i + 1
    BY <2>1
  <2> QED
    BY <2>2 DEF IInv, OrderInv, Rises
<1> QED
  BY Invariance, <1>1, PTL

=============================================================================
