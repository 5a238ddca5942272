---------------------------- MODULE ExportProofs ----------------------------
(***************************************************************************)
(* Theorems of Export, for any limits, sizes and numbers of statements: a  *)
(* saved file is the first rows of its statements, byte for byte, and the  *)
(* socket's buffer is bounded.                                             *)
(***************************************************************************)
EXTENDS Export, SequenceTheorems, TLAPS

-----------------------------------------------------------------------------
(* The budget.                                                             *)

\* What is taken is what there is, or what is left.
LEMMA TakenIsLesser ==
  ASSUME budget \in Nat, NEW rows \in Nat, NEW limited \in BOOLEAN
  PROVE  /\ Taken(rows, limited) \in 0..budget
         /\ Taken(rows, limited) <= rows
         /\ Taken(rows, limited) # rows => Taken(rows, limited) = budget
  BY DEF Taken, Lesser

\* The budget is what is left of MaxRows; as long as some is left nothing has
\* been cut, and statements are passed over only when none is.
BudgetInv ==
    /\ route \in {"idle", "querying", "writing", "draining", "ended", "refused"}
    /\ page \in {"idle", "waiting", "saved", "failed", "gone"}
    /\ route = "idle" <=> page = "idle"
    /\ session \in BOOLEAN
    /\ todo \in 0..MaxStatements
    /\ {budget, parts, exported, produced} \subseteq Nat
    /\ exported + budget = MaxRows
    /\ exported <= produced
    /\ budget > 0 => exported = produced
    /\ route \in {"writing", "draining", "ended"} /\ todo > 0 => budget = 0
    /\ route = "idle" => parts = 0

LEMMA BudgetInit == Init => BudgetInv
  BY ExportAssumption DEF Init, BudgetInv

LEMMA BudgetStep == BudgetInv /\ [Next]_vars => BudgetInv'
<1> SUFFICES ASSUME BudgetInv, [Next]_vars PROVE BudgetInv'
  OBVIOUS
<1> USE ExportAssumption DEF BudgetInv
<1>1. CASE handleStreamedExport
  BY <1>1 DEF handleStreamedExport
<1>2. CASE SessionGoes
  BY <1>2 DEF SessionGoes
<1>3. CASE ExecutesNext
  <2>1. /\ route = "querying" /\ todo > 0 /\ todo' = todo - 1
        /\ UNCHANGED <<session, page>>
        /\ ExecutesQuery \/ ExecutesUpdate
    BY <1>3 DEF ExecutesNext
  <2>2. CASE ExecutesQuery
    <3>1. PICK rows \in 0..MaxResult, limited \in BOOLEAN :
             /\ produced' = produced + rows
             /\ exported' = exported + Taken(rows, limited)
             /\ budget' = budget - Taken(rows, limited)
             /\ parts' = parts + 1
             /\ route' = IF Last \/ budget' = 0 THEN "writing" ELSE route
      BY <2>2 DEF ExecutesQuery
    <3>2. /\ Taken(rows, limited) \in 0..budget
          /\ Taken(rows, limited) <= rows
          /\ Taken(rows, limited) # rows => Taken(rows, limited) = budget
      BY TakenIsLesser
    <3> HIDE DEF BudgetInv
    <3>3. /\ {budget', parts', exported', produced'} \subseteq Nat
          /\ exported' + budget' = MaxRows
          /\ exported' <= produced'
          /\ budget' > 0 => exported' = produced'
      BY <3>1, <3>2 DEF BudgetInv
    <3>4. /\ todo' \in 0..MaxStatements
          /\ route' = "writing" \/ route' = "querying"
          /\ route' = "writing" /\ todo' > 0 => budget' = 0
      BY <2>1, <3>1 DEF BudgetInv, Last
    <3> QED
      BY <2>1, <3>3, <3>4 DEF BudgetInv
  <2>3. CASE ExecutesUpdate
    BY <2>1, <2>3 DEF ExecutesUpdate, Last
  <2> QED
    BY <2>1, <2>2, <2>3
<1>4. CASE ExecutesNothing
  BY <1>4 DEF ExecutesNothing, query
<1>5. CASE ExecuteFails
  BY <1>5 DEF ExecuteFails, query
<1>6. CASE Writes
  BY <1>6 DEF Writes, AfterWrite, query
<1>7. CASE Ends
  BY <1>7 DEF Ends, query
<1>8. CASE Drains
  BY <1>8 DEF Drains, query
<1>9. CASE Delivers
  BY <1>9 DEF Delivers, query
<1>10. CASE Answered
  BY <1>10 DEF Answered, query
<1>11. CASE PageGoes
  BY <1>11 DEF PageGoes, query
<1>12. CASE UNCHANGED vars
  BY <1>12 DEF vars, query
<1> QED
  BY <1>1, <1>2, <1>3, <1>4, <1>5, <1>6, <1>7, <1>8, <1>9, <1>10, <1>11, <1>12
     DEF Next, Server, Network

LEMMA BudgetInvariance == Spec => []BudgetInv
  BY BudgetInit, BudgetStep, PTL DEF Spec

-----------------------------------------------------------------------------
(* The bytes.                                                              *)

LEMMA TextIsNat ==
  ASSUME parts \in Nat, exported \in Nat PROVE Text \in Nat
<1>1. \A a, b \in Nat : a * b \in Nat
  OBVIOUS
<1>2. parts * HeaderBytes \in Nat /\ exported * RowBytes \in Nat
  BY <1>1, ExportAssumption
<1> QED
  BY <1>2 DEF Text

\* The page has the first bytes of the text, and the socket holds the next.
InOrder(received, sent) ==
    /\ received \in Seq(Nat) /\ sent \in Seq(Nat)
    /\ \A i \in 1..Len(received) : received[i] = i
    /\ \A i \in 1..Len(sent) : sent[i] = Len(received) + i

\* Every byte handed to the socket is with the page or under way to it, as long
\* as there is a page; the route writes only to a socket below its mark.
SocketInv ==
    /\ offset \in 0..Text
    /\ route \in {"idle", "querying", "refused"} =>
         offset = 0 /\ wire = <<>> /\ file = <<>>
    /\ route = "ended" => offset = Text
    /\ InOrder(file, wire)
    /\ page # "gone" => Len(file) + Len(wire) = offset
    /\ page = "gone" => wire = <<>>
    /\ page = "saved" => route = "ended" /\ wire = <<>>
    /\ route = "writing" => Len(wire) < HighWater
    /\ SocketBufferBounded

LEMMA SocketInit == Init => SocketInv
<1> SUFFICES ASSUME Init PROVE SocketInv
  OBVIOUS
<1>1. Text \in Nat
  BY TextIsNat DEF Init
<1>2. <<>> \in Seq(Nat) /\ Len(<<>>) = 0
  OBVIOUS
<1> QED
  BY <1>1, <1>2, ExportAssumption
     DEF Init, SocketInv, InOrder, SocketBufferBounded

\* The elements of two sequences one after the other.
LEMMA ConcatAt ==
  ASSUME NEW p \in Seq(Nat), NEW q \in Seq(Nat)
  PROVE  /\ p \o q \in Seq(Nat)
         /\ Len(p) \in Nat /\ Len(q) \in Nat
         /\ Len(p \o q) = Len(p) + Len(q)
         /\ \A i \in 1..Len(p) : (p \o q)[i] = p[i]
         /\ \A i \in 1..Len(q) : (p \o q)[Len(p) + i] = q[i]
         /\ \A k \in 1..Len(p) + Len(q) :
              \/ k \in 1..Len(p)
              \/ \E i \in 1..Len(q) : k = Len(p) + i
<1>1. Len(p) \in Nat /\ Len(q) \in Nat
  BY LenProperties
<1>2. ASSUME NEW i \in 1..Len(q) PROVE (p \o q)[Len(p) + i] = q[i]
  BY <1>1
<1>3. ASSUME NEW k \in 1..Len(p) + Len(q), k \notin 1..Len(p)
      PROVE  \E i \in 1..Len(q) : k = Len(p) + i
  <2>1. k - Len(p) \in 1..Len(q) /\ k = Len(p) + (k - Len(p))
    BY <1>1, <1>3
  <2> QED
    BY <2>1
<1>4. p \o q \in Seq(Nat) /\ Len(p \o q) = Len(p) + Len(q)
  BY <1>1
<1>5. \A i \in 1..Len(p) : (p \o q)[i] = p[i]
  BY <1>1
<1> QED
  BY <1>1, <1>2, <1>3, <1>4, <1>5

\* A slice put behind what the socket holds keeps the bytes in order.
LEMMA SliceInOrder ==
  ASSUME InOrder(file, wire), NEW from \in Nat, NEW to \in Nat, from <= to,
         Len(file) + Len(wire) = from
  PROVE  /\ InOrder(file, wire \o Slice(from, to))
         /\ Len(wire \o Slice(from, to)) = Len(wire) + (to - from)
<1> DEFINE s == Slice(from, to)
           w == wire \o s
<1>1. to - from \in Nat
  OBVIOUS
<1>2. /\ s \in Seq(Nat) /\ Len(s) = to - from
      /\ \A i \in 1..Len(s) : s[i] = from + i
  BY <1>1 DEF Slice
<1>3. wire \in Seq(Nat) /\ file \in Seq(Nat) /\ Len(file) \in Nat
  BY LenProperties DEF InOrder
<1> HIDE DEF s
<1>4. ASSUME NEW k \in 1..Len(wire) + Len(s) PROVE w[k] = Len(file) + k
  <2>1. CASE k \in 1..Len(wire)
    <3>1. w[k] = wire[k]
      BY <1>2, <1>3, <2>1, ConcatAt
    <3> QED
      BY <2>1, <3>1 DEF InOrder
  <2>2. CASE \E i \in 1..Len(s) : k = Len(wire) + i
    <3>1. PICK i \in 1..Len(s) : k = Len(wire) + i
      BY <2>2
    <3>2. w[Len(wire) + i] = s[i] /\ s[i] = from + i
      BY <1>2, <1>3, ConcatAt
    <3>3. Len(wire) \in Nat /\ Len(s) \in Nat
      BY <1>2, <1>3, ConcatAt
    <3>4. from + i = Len(file) + k
      BY <1>3, <3>1, <3>3
    <3> QED
      BY <3>1, <3>2, <3>4
  <2> QED
    BY <1>2, <1>3, <2>1, <2>2, ConcatAt
<1>5. w \in Seq(Nat) /\ Len(w) = Len(wire) + Len(s)
  BY <1>2, <1>3, ConcatAt
<1> HIDE DEF w
<1>6. InOrder(file, w)
  BY <1>3, <1>4, <1>5 DEF InOrder
<1> QED
  BY <1>2, <1>5, <1>6 DEF s, w

\* So does what the network takes from the socket to the page.
LEMMA DeliveryInOrder ==
  ASSUME InOrder(file, wire), NEW n \in 1..Len(wire)
  PROVE  LET received == file \o SubSeq(wire, 1, n)
             sent == SubSeq(wire, n + 1, Len(wire))
         IN  /\ InOrder(received, sent)
             /\ Len(received) + Len(sent) = Len(file) + Len(wire)
             /\ Len(sent) < Len(wire)
<1> DEFINE p == SubSeq(wire, 1, n)
           r == file \o p
           s == SubSeq(wire, n + 1, Len(wire))
<1>1. /\ wire \in Seq(Nat) /\ file \in Seq(Nat)
      /\ Len(wire) \in Nat /\ Len(file) \in Nat /\ n \in Nat /\ n <= Len(wire)
  BY LenProperties DEF InOrder
<1>2. p \in Seq(Nat) /\ Len(p) = n /\ \A i \in 1..n : p[i] = wire[i]
  BY <1>1
<1>3. /\ s \in Seq(Nat) /\ Len(s) = Len(wire) - n
      /\ \A i \in 1..Len(wire) - n : s[i] = wire[n + i]
  BY <1>1
<1> HIDE DEF p, s
<1>4. ASSUME NEW k \in 1..Len(file) + Len(p) PROVE r[k] = k
  <2>1. CASE k \in 1..Len(file)
    <3>1. r[k] = file[k]
      BY <1>1, <1>2, <2>1, ConcatAt
    <3> QED
      BY <2>1, <3>1 DEF InOrder
  <2>2. CASE \E i \in 1..Len(p) : k = Len(file) + i
    <3>1. PICK i \in 1..Len(p) : k = Len(file) + i
      BY <2>2
    <3>2. r[Len(file) + i] = p[i]
      BY <1>1, <1>2, ConcatAt
    <3>3. i \in 1..Len(wire) /\ p[i] = wire[i]
      BY <1>1, <1>2
    <3> HIDE DEF r
    <3>4. wire[i] = Len(file) + i
      BY <3>3 DEF InOrder
    <3> QED
      BY <3>1, <3>2, <3>3, <3>4
  <2> QED
    BY <1>1, <1>2, <2>1, <2>2, ConcatAt
<1>5. r \in Seq(Nat) /\ Len(r) = Len(file) + n
  BY <1>1, <1>2, ConcatAt
<1> HIDE DEF r
<1>6. ASSUME NEW i \in 1..Len(wire) - n PROVE s[i] = Len(r) + i
  <2>1. n + i \in 1..Len(wire)
    BY <1>1
  <2>2. s[i] = wire[n + i]
    BY <1>3
  <2>3. wire[n + i] = Len(file) + (n + i)
    BY <2>1 DEF InOrder
  <2>4. Len(file) + (n + i) = Len(r) + i
    BY <1>1, <1>5
  <2> QED
    BY <2>2, <2>3, <2>4
<1>7. InOrder(r, s)
  BY <1>2, <1>3, <1>4, <1>5, <1>6 DEF InOrder
<1>8. Len(r) + Len(s) = Len(file) + Len(wire) /\ Len(s) < Len(wire)
  BY <1>1, <1>3, <1>5
<1> QED
  BY <1>7, <1>8 DEF r, s, p

LEMMA SocketStep ==
  BudgetInv /\ BudgetInv' /\ SocketInv /\ [Next]_vars => SocketInv'
<1> SUFFICES ASSUME BudgetInv, BudgetInv', SocketInv, [Next]_vars
             PROVE  SocketInv'
  OBVIOUS
<1>1. Text \in Nat
  BY TextIsNat DEF BudgetInv
<1>2. Text' \in Nat
  <2>1. \A a, b \in Nat : a * b \in Nat
    OBVIOUS
  <2>2. parts' * HeaderBytes \in Nat /\ exported' * RowBytes \in Nat
    BY <2>1, ExportAssumption DEF BudgetInv
  <2> QED
    BY <2>2 DEF Text
<1>3. /\ wire \in Seq(Nat) /\ file \in Seq(Nat)
      /\ Len(wire) \in Nat /\ Len(file) \in Nat
      /\ HighWater \in Nat \ {0} /\ ChunkBytes \in Nat \ {0}
  BY LenProperties, ExportAssumption DEF SocketInv, InOrder
<1>4. ASSUME UNCHANGED socket, route \in {"idle", "querying"},
             route' \in {"idle", "querying", "refused", "writing"},
             page' # "saved"
      PROVE  SocketInv'
  <2>1. offset' = 0 /\ wire' = <<>> /\ file' = <<>>
    BY <1>4 DEF SocketInv, socket
  <2>2. InOrder(file', wire') /\ Len(wire') = 0 /\ Len(file') = 0
    BY <2>1 DEF InOrder
  <2> QED
    BY <1>2, <1>3, <1>4, <2>1, <2>2
       DEF SocketInv, InOrder, SocketBufferBounded
<1>5. ASSUME UNCHANGED query PROVE Text' = Text
  BY <1>5 DEF Text, query
<1>6. CASE handleStreamedExport
  BY <1>4, <1>6 DEF handleStreamedExport, BudgetInv
<1>7. CASE SessionGoes
  BY <1>7 DEF SessionGoes, socket, SocketInv, InOrder, SocketBufferBounded, Text
<1>8. CASE ExecutesNext
  <2>1. route = "querying" /\ UNCHANGED <<socket, page>>
    BY <1>8 DEF ExecutesNext
  <2>2. route' \in {"querying", "writing"}
    BY <1>8, <2>1 DEF ExecutesNext, ExecutesQuery, ExecutesUpdate
  <2>3. page # "saved"
    BY <2>1 DEF SocketInv
  <2> QED
    BY <1>4, <2>1, <2>2, <2>3
<1>9. CASE ExecutesNothing \/ ExecuteFails
  <2>1. route = "querying" /\ UNCHANGED <<socket, page>>
    BY <1>9 DEF ExecutesNothing, ExecuteFails
  <2>2. route' \in {"writing", "refused"} /\ page # "saved"
    BY <1>9, <2>1 DEF ExecutesNothing, ExecuteFails, SocketInv
  <2> QED
    BY <1>4, <2>1, <2>2
<1>10. CASE Writes
  <2> DEFINE end == Lesser(offset + ChunkBytes, Text)
  <2>1. /\ route = "writing" /\ offset < Text /\ offset' = end
        /\ wire' = IF page = "gone" THEN wire ELSE wire \o Slice(offset, end)
        /\ needDrain' = (page # "gone" /\ Len(wire') >= HighWater)
        /\ route' = AfterWrite(page # "gone" /\ ~needDrain')
        /\ UNCHANGED <<query, file, page>>
    BY <1>10 DEF Writes
  <2>2. /\ offset \in Nat /\ end \in Nat /\ offset <= end /\ end <= Text
        /\ end <= offset + ChunkBytes
    BY <1>1, <1>3, <2>1 DEF SocketInv, Lesser
  <2>3. Text' = Text
    BY <1>5, <2>1
  <2> HIDE DEF end
  <2>4. CASE page = "gone"
    BY <1>1, <1>3, <2>1, <2>2, <2>3, <2>4
       DEF SocketInv, InOrder, SocketBufferBounded, AfterWrite
  <2>5. CASE page # "gone"
    <3>1. /\ InOrder(file, wire') /\ Len(wire') = Len(wire) + (end - offset)
      <4>1. InOrder(file, wire) /\ Len(file) + Len(wire) = offset
        BY <2>5 DEF SocketInv
      <4>2. wire' = wire \o Slice(offset, end)
        BY <2>1, <2>5
      <4>3. /\ InOrder(file, wire \o Slice(offset, end))
            /\ Len(wire \o Slice(offset, end)) = Len(wire) + (end - offset)
        BY <2>2, <4>1, SliceInOrder
      <4> QED
        BY <4>2, <4>3
    <3>2. Len(file) + Len(wire') = end /\ Len(wire') < HighWater + ChunkBytes
      <4>1. Len(wire) < HighWater /\ Len(file) + Len(wire) = offset
        BY <2>1, <2>5 DEF SocketInv
      <4> QED
        BY <1>3, <2>2, <3>1, <4>1
    <3>3. route' \in {"writing", "draining"}
      BY <2>1 DEF AfterWrite
    <3>4. route' = "writing" => Len(wire') < HighWater
      <4>1. Len(wire') \in Nat
        BY <1>3, <2>2, <3>1
      <4>2. route' = "writing" => ~(Len(wire') >= HighWater)
        BY <2>1, <2>5 DEF AfterWrite
      <4> QED
        BY <1>3, <4>1, <4>2
    <3>5. page' # "saved"
      BY <2>1 DEF SocketInv
    <3> QED
      BY <2>1, <2>2, <2>3, <2>5, <3>1, <3>2, <3>3, <3>4, <3>5
         DEF SocketInv, InOrder, SocketBufferBounded
  <2> QED
    BY <2>4, <2>5
<1>11. CASE Ends
  BY <1>1, <1>5, <1>11
     DEF Ends, socket, SocketInv, InOrder, SocketBufferBounded
<1>12. CASE Drains
  BY <1>1, <1>3, <1>5, <1>12
     DEF Drains, SocketInv, InOrder, SocketBufferBounded
<1>13. CASE Delivers
  <2>1. PICK n \in 1..Len(wire) :
           /\ file' = file \o SubSeq(wire, 1, n)
           /\ wire' = SubSeq(wire, n + 1, Len(wire))
           /\ UNCHANGED <<route, query, offset, needDrain, page>>
    BY <1>13 DEF Delivers
  <2>2. /\ InOrder(file', wire')
        /\ Len(file') + Len(wire') = Len(file) + Len(wire)
        /\ Len(wire') < Len(wire)
    BY <2>1, DeliveryInOrder DEF SocketInv
  <2>3. wire # <<>> /\ Len(wire') \in Nat
    BY <1>3, <2>1, <2>2 DEF InOrder
  <2>4. Text' = Text /\ UNCHANGED <<route, offset, page>>
    BY <1>5, <2>1
  <2>5. /\ route' = "writing" => Len(wire') < HighWater
        /\ Len(wire') < HighWater + ChunkBytes
    BY <1>3, <2>2, <2>3, <2>4 DEF SocketInv, SocketBufferBounded
  <2> QED
    BY <2>2, <2>3, <2>4, <2>5 DEF SocketInv, SocketBufferBounded
<1>14. CASE Answered
  BY <1>5, <1>14 DEF Answered, socket, SocketInv, InOrder, SocketBufferBounded
<1>15. CASE PageGoes
  <2>1. /\ wire' = <<>> /\ Len(wire') = 0 /\ page' = "gone"
        /\ UNCHANGED <<route, query, offset, file>>
    BY <1>15 DEF PageGoes
  <2>2. InOrder(file', wire')
    BY <2>1 DEF SocketInv, InOrder
  <2> QED
    BY <1>3, <1>5, <2>1, <2>2 DEF SocketInv, InOrder, SocketBufferBounded
<1>16. CASE UNCHANGED vars
  BY <1>5, <1>16 DEF vars, socket, SocketInv, InOrder, SocketBufferBounded
<1> QED
  BY <1>6, <1>7, <1>8, <1>9, <1>10, <1>11, <1>12, <1>13, <1>14, <1>15, <1>16
     DEF Next, Server, Network

LEMMA SocketInvariance == Spec => []SocketInv
<1>1. BudgetInv /\ SocketInv /\ [Next]_vars => (BudgetInv /\ SocketInv)'
  BY BudgetStep, SocketStep
<1> QED
  BY BudgetInit, SocketInit, <1>1, PTL DEF Spec

-----------------------------------------------------------------------------
(* The sizes.                                                              *)

LEMMA ProductGrows ==
  ASSUME NEW a \in Nat, NEW b \in Nat, NEW c \in Nat, a <= b
  PROVE  a * c \in Nat /\ b * c \in Nat /\ a * c <= b * c
<1>1. b - a \in Nat /\ b = a + (b - a)
  OBVIOUS
<1>2. a * c \in Nat /\ b * c \in Nat /\ (b - a) * c \in Nat
  BY <1>1
<1>3. b * c = a * c + (b - a) * c
  BY <1>1
<1> QED
  BY <1>2, <1>3

\* What is left to execute and what was make no more than the tables of a
\* scope; no byte is with the page or under way to it that was not written.
SizeInv ==
    /\ needDrain \in BOOLEAN
    /\ parts + todo <= MaxStatements
    /\ produced <= parts * MaxResult
    /\ Len(file) + Len(wire) <= offset

LEMMA SizeInit == Init => SizeInv
<1> SUFFICES ASSUME Init PROVE SizeInv
  OBVIOUS
<1>1. 0 <= 0 * MaxResult /\ Len(<<>>) = 0 /\ 0 + 0 <= MaxStatements
  BY ExportAssumption
<1>2. /\ parts = 0 /\ todo = 0 /\ produced = 0 /\ needDrain = FALSE
      /\ file = <<>> /\ wire = <<>> /\ offset = 0
  BY DEF Init
<1>3. produced <= parts * MaxResult /\ parts + todo <= MaxStatements
  BY <1>1, <1>2
<1>4. Len(file) + Len(wire) <= offset
  BY <1>1, <1>2
<1> QED
  BY <1>2, <1>3, <1>4 DEF SizeInv

LEMMA SizeStep ==
  BudgetInv /\ SocketInv /\ SocketInv' /\ SizeInv /\ [Next]_vars => SizeInv'
<1> SUFFICES ASSUME BudgetInv, SocketInv, SocketInv', SizeInv, [Next]_vars
             PROVE  SizeInv'
  OBVIOUS
<1>1. /\ parts \in Nat /\ produced \in Nat /\ todo \in Nat
      /\ MaxResult \in Nat /\ MaxStatements \in Nat
  BY ExportAssumption DEF BudgetInv
<1>2. /\ parts' + todo' <= MaxStatements
      /\ produced' <= parts' * MaxResult
  <2>1. ASSUME UNCHANGED <<parts, produced>>, parts + todo' <= MaxStatements
        PROVE  /\ parts' + todo' <= MaxStatements
               /\ produced' <= parts' * MaxResult
    BY <2>1 DEF SizeInv
  <2>2. CASE handleStreamedExport
    <3>1. todo' \in 0..MaxStatements /\ UNCHANGED <<parts, produced>>
      BY <2>2 DEF handleStreamedExport
    <3>2. parts = 0
      BY <2>2 DEF handleStreamedExport, BudgetInv
    <3>3. \A n \in 0..MaxStatements : 0 + n <= MaxStatements
      BY <1>1
    <3>4. parts + todo' <= MaxStatements
      BY <3>1, <3>2, <3>3
    <3> QED
      BY <2>1, <3>1, <3>4
  <2>3. CASE ExecutesNext
    <3>1. todo > 0 /\ todo' = todo - 1 /\ (ExecutesQuery \/ ExecutesUpdate)
      BY <2>3 DEF ExecutesNext
    <3>2. CASE ExecutesQuery
      <4>1. PICK rows \in 0..MaxResult : produced' = produced + rows /\ parts' = parts + 1
        BY <3>2 DEF ExecutesQuery
      <4>2. (parts + 1) * MaxResult = parts * MaxResult + MaxResult
        BY <1>1
      <4>3. parts * MaxResult \in Nat
        BY <1>1, ProductGrows
      <4>4. produced + rows <= parts * MaxResult + MaxResult
        BY <1>1, <4>1, <4>3 DEF SizeInv
      <4>5. parts' + todo' <= MaxStatements
        BY <1>1, <3>1, <4>1 DEF SizeInv
      <4> QED
        BY <4>1, <4>2, <4>4, <4>5
    <3>3. CASE ExecutesUpdate
      BY <1>1, <2>1, <3>1, <3>3 DEF ExecutesUpdate, SizeInv
    <3> QED
      BY <3>1, <3>2, <3>3
  <2>4. CASE UNCHANGED <<todo, parts, produced>>
    BY <2>1, <2>4 DEF SizeInv
  <2> QED
    BY <2>2, <2>3, <2>4 DEF Next, Server, Network, SessionGoes, ExecutesNothing,
       ExecuteFails, Writes, Ends, Drains, Delivers, Answered, PageGoes, query, vars
<1>3. needDrain' \in BOOLEAN
  <2>1. UNCHANGED needDrain => needDrain' \in BOOLEAN
    BY DEF SizeInv
  <2>2. CASE Writes
    BY <2>2 DEF Writes
  <2> QED
    BY <2>1, <2>2 DEF Next, Server, Network, handleStreamedExport, SessionGoes,
       ExecutesNext, ExecutesNothing, ExecuteFails, Ends, Drains, Delivers, Answered,
       PageGoes, socket, vars
<1>4. Len(file') + Len(wire') <= offset'
  <2>1. CASE page' # "gone"
    <3>1. Len(file') + Len(wire') = offset' /\ offset' \in Nat
      <4>1. offset' \in 0..Text'
        BY DEF SocketInv
      <4> QED
        BY <2>1, <4>1 DEF SocketInv
    <3> QED
      BY <3>1
  <2>2. CASE page' = "gone" /\ page # "gone"
    <3>1. PageGoes
      BY <2>2 DEF Next, Server, Network, handleStreamedExport, SessionGoes,
         ExecutesNext, ExecutesNothing, ExecuteFails, Writes, Ends, Drains, Delivers,
         Answered, vars
    <3>2. wire' = <<>> /\ Len(wire') = 0 /\ file' = file /\ offset' = offset
      BY <3>1 DEF PageGoes
    <3>3. Len(wire) \in Nat /\ Len(file) \in Nat /\ offset \in Nat
      BY LenProperties, <2>2 DEF SocketInv, InOrder
    <3> QED
      BY <3>2, <3>3 DEF SizeInv
  <2>3. CASE page' = "gone" /\ page = "gone"
    <3>1. wire = <<>> /\ Len(wire) = 0 /\ Len(file) \in Nat
      BY <2>3, LenProperties DEF SocketInv, InOrder
    <3>2. UNCHANGED <<file, wire>>
      BY <2>3, <3>1 DEF Next, Server, Network, handleStreamedExport, SessionGoes,
         ExecutesNext, ExecutesNothing, ExecuteFails, Writes, Ends, Drains, Delivers,
         Answered, PageGoes, socket, vars
    <3>3. CASE UNCHANGED offset
      BY <3>2, <3>3 DEF SizeInv
    <3>4. CASE Writes
      <4>1. offset' = Lesser(offset + ChunkBytes, Text) /\ offset < Text
        BY <3>4 DEF Writes
      <4>2. Text \in Nat /\ offset \in 0..Text /\ ChunkBytes \in Nat
        BY TextIsNat, ExportAssumption DEF BudgetInv, SocketInv
      <4>3. offset <= offset' /\ offset \in Nat /\ offset' \in Nat
        BY <4>1, <4>2 DEF Lesser
      <4> QED
        BY <3>1, <3>2, <4>3 DEF SizeInv
    <3> QED
      BY <3>3, <3>4 DEF Next, Server, Network, handleStreamedExport, SessionGoes,
         ExecutesNext, ExecutesNothing, ExecuteFails, Ends, Drains, Delivers,
         Answered, PageGoes, socket, vars
  <2> QED
    BY <2>1, <2>2, <2>3
<1> QED
  BY <1>2, <1>3, <1>4 DEF SizeInv

\* No text is longer than that of every part and row there may be.
LEMMA TextBounded ==
  ASSUME BudgetInv, SizeInv
  PROVE  MaxText \in Nat /\ Text \in Nat /\ Text <= MaxText
<1>1. /\ parts \in Nat /\ todo \in Nat /\ exported \in Nat /\ budget \in Nat
      /\ {MaxStatements, MaxRows, HeaderBytes, RowBytes} \subseteq Nat
  BY ExportAssumption DEF BudgetInv
<1>2. parts <= MaxStatements /\ exported <= MaxRows
  BY <1>1 DEF BudgetInv, SizeInv
<1>3. /\ parts * HeaderBytes \in Nat /\ MaxStatements * HeaderBytes \in Nat
      /\ parts * HeaderBytes <= MaxStatements * HeaderBytes
  BY <1>1, <1>2, ProductGrows
<1>4. /\ exported * RowBytes \in Nat /\ MaxRows * RowBytes \in Nat
      /\ exported * RowBytes <= MaxRows * RowBytes
  BY <1>1, <1>2, ProductGrows
<1> DEFINE a == parts * HeaderBytes
           b == MaxStatements * HeaderBytes
           c == exported * RowBytes
           d == MaxRows * RowBytes
<1>5. Text = a + c /\ MaxText = b + d
  BY DEF Text, MaxText
<1> HIDE DEF a, b, c, d
<1>6. /\ a \in Nat /\ b \in Nat /\ c \in Nat /\ d \in Nat
      /\ a <= b /\ c <= d
  BY <1>3, <1>4 DEF a, b, c, d
<1> QED
  BY <1>5, <1>6

LEMMA SizesAreTypes == BudgetInv /\ SocketInv /\ SizeInv => TypeOK
<1> SUFFICES ASSUME BudgetInv, SocketInv, SizeInv PROVE TypeOK
  OBVIOUS
<1>1. MaxText \in Nat /\ Text \in Nat /\ Text <= MaxText
  BY TextBounded
<1>2. /\ parts \in Nat /\ todo \in Nat /\ exported \in Nat /\ budget \in Nat
      /\ produced \in Nat
      /\ {MaxStatements, MaxRows, MaxResult} \subseteq Nat
  BY ExportAssumption DEF BudgetInv
<1>3. /\ parts \in 0..MaxStatements /\ exported \in 0..MaxRows /\ budget \in 0..MaxRows
  BY <1>2 DEF BudgetInv, SizeInv
<1>4. produced \in 0..MaxStatements * MaxResult
  <2>1. /\ parts * MaxResult \in Nat /\ MaxStatements * MaxResult \in Nat
        /\ parts * MaxResult <= MaxStatements * MaxResult
    BY <1>2, <1>3, ProductGrows
  <2> DEFINE a == parts * MaxResult
             b == MaxStatements * MaxResult
  <2>2. produced <= a
    BY DEF SizeInv
  <2>3. a \in Nat /\ b \in Nat /\ a <= b
    BY <2>1
  <2> HIDE DEF a, b
  <2>4. produced \in 0..b
    BY <1>2, <2>2, <2>3
  <2> QED
    BY <2>4 DEF b
<1>5. offset \in 0..Text
  BY DEF SocketInv
<1>6. offset \in 0..MaxText
  BY <1>1, <1>5
<1>7. /\ wire \in Seq(Nat) /\ file \in Seq(Nat)
      /\ Len(wire) \in Nat /\ Len(file) \in Nat
      /\ Len(file) + Len(wire) <= MaxText
  <2>1. wire \in Seq(Nat) /\ file \in Seq(Nat) /\ Len(wire) \in Nat /\ Len(file) \in Nat
    BY LenProperties DEF SocketInv, InOrder
  <2> QED
    BY <1>1, <1>5, <2>1 DEF SizeInv
<1>8. ASSUME NEW i \in 1..Len(file) PROVE file[i] \in 1..MaxText
  <2>1. file[i] = i
    BY DEF SocketInv, InOrder
  <2> QED
    BY <1>1, <1>7, <2>1
<1>9. ASSUME NEW i \in 1..Len(wire) PROVE wire[i] \in 1..MaxText
  <2>1. wire[i] = Len(file) + i
    BY DEF SocketInv, InOrder
  <2> QED
    BY <1>1, <1>7, <2>1
<1>10. wire \in Seq(1..MaxText) /\ file \in Seq(1..MaxText)
  <2>1. ASSUME NEW s \in Seq(Nat), \A i \in 1..Len(s) : s[i] \in 1..MaxText
        PROVE  s \in Seq(1..MaxText)
    <3>1. Len(s) \in Nat /\ s \in [1..Len(s) -> Nat]
      BY LenProperties
    <3>2. s \in [1..Len(s) -> 1..MaxText]
      BY <2>1, <3>1
    <3>3. \A T : \A n \in Nat : [1..n -> T] \subseteq Seq(T)
      BY SeqDef
    <3> QED
      BY <3>1, <3>2, <3>3
  <2> QED
    BY <1>7, <1>8, <1>9, <2>1
<1> QED
  BY <1>3, <1>4, <1>6, <1>10 DEF TypeOK, BudgetInv, SizeInv

LEMMA SizeInvariance == Spec => [](BudgetInv /\ SocketInv /\ SizeInv)
  BY BudgetInvariance, SocketInvariance, SizeInit, SizeStep, PTL DEF Spec

-----------------------------------------------------------------------------
(* The theorems.                                                           *)

\* Rows, parts and bytes stay within what the statements of a scope can give,
\* for any limits and sizes.
THEOREM TypeCorrect == Spec => []TypeOK
  BY SizeInvariance, SizesAreTypes, PTL

\* However slow the page is, the socket holds less than a chunk beyond its
\* high-water mark: the route writes only to a socket below the mark.
THEOREM BufferBounded == Spec => []SocketBufferBounded
<1>1. SocketInv => SocketBufferBounded
  BY DEF SocketInv
<1> QED
  BY SocketInvariance, <1>1, PTL

\* A saved file is the first MaxRows rows that its statements returned, every
\* byte once and in order, whatever the sizes of rows, chunks and buffer.
THEOREM FileIsFirstRows == Spec => []ExportIsFirstRows
<1>1. BudgetInv /\ SocketInv => ExportIsFirstRows
  <2> SUFFICES ASSUME BudgetInv, SocketInv, page = "saved"
               PROVE  /\ exported = Lesser(produced, MaxRows)
                      /\ todo > 0 => exported = MaxRows
                      /\ file = [i \in 1..Text |-> i]
    BY DEF ExportIsFirstRows
  <2>1. route = "ended" /\ wire = <<>> /\ offset = Text
    BY DEF SocketInv
  <2>2. exported = Lesser(produced, MaxRows)
    BY ExportAssumption DEF BudgetInv, Lesser
  <2>3. todo > 0 => exported = MaxRows
    BY <2>1, ExportAssumption DEF BudgetInv
  <2>4. Len(file) = Text
    <3>1. Len(file) \in Nat /\ Len(wire) = 0
      BY <2>1, LenProperties DEF SocketInv, InOrder
    <3> QED
      BY <2>1, <3>1 DEF SocketInv
  <2>5. file \in Seq(Nat) /\ \A i \in 1..Text : file[i] = i
    BY <2>4 DEF SocketInv, InOrder
  <2>6. file = [i \in 1..Len(file) |-> file[i]]
    BY <2>5
  <2> QED
    BY <2>2, <2>3, <2>4, <2>5, <2>6
<1> QED
  BY BudgetInvariance, SocketInvariance, <1>1, PTL

=============================================================================
