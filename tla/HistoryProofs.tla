---------------------------- MODULE HistoryProofs ----------------------------
(***************************************************************************)
(* Theorems of History, for any profiles, requests and caps and any number *)
(* of records: the types, the retention cap, that what it keeps is the     *)
(* newest, and that the panel agrees with the database.                    *)
(***************************************************************************)
EXTENDS History, FiniteSetTheorems, WellFoundedInduction, TLAPS

-----------------------------------------------------------------------------
(* The inductive invariant.                                                *)

\* A row is inserted once; what a request names, or was answered, was stored.
FormInv ==
    /\ TypeOK
    /\ \A n \in Row :
          /\ record[n].step # "unused" => record[n].profile \in Profile
          /\ record[n].step \in {"insert", "insertOnly"} => n \notin inserted
    /\ \A r \in Request :
          /\ DOMAIN request[r].answer \subseteq inserted
          /\ request[r].ids \subseteq inserted
          /\ request[r].kind = "label" => \E n \in inserted : request[r].ids = {n}

\* What the cap would keep of all that was ever stored is there, but for what
\* the user removed.
KeptInv ==
    \A p \in Profile \ pruned : Newest(Limit, Of(p, inserted)) \subseteq stored

\* As many newer rows as the cap have come.
Superseded(n) ==
    Cardinality({m \in Of(record[n].profile, inserted) : m > n}) >= Limit

\* Rows as a list or the panel has them, against those of the database.
Agrees(n, label) == IF n \in stored THEN label = rows[n] ELSE Superseded(n)

\* The effect of request r is done, and its answer on the way to the panel.
Done(r, kind) == request[r].kind = kind /\ request[r].step = "ok"

\* Row n waits for the answer of request r, which is on the way to the panel.
Waits(n, r) ==
    \/ n \in stored /\ Done(r, "label") /\ n \in request[r].ids
    \/ n \notin stored /\ Done(r, "clear")
    \/ n \notin stored /\ Done(r, "remove") /\ n \in request[r].ids

Awaited(n) == \E r \in Request : Waits(n, r)

\* A list flies alone, and labels are of different rows.
FlightsApart ==
    \A r, q \in Flying : r # q =>
        /\ request[r].kind # "list"
        /\ request[r].kind = "label" /\ request[q].kind = "label" =>
              request[r].ids # request[q].ids

\* Each row of the panel agrees with the database, or will when an answer has
\* come.
PanelWill == \A n \in shown : Agrees(n, panel[n]) \/ Awaited(n)

\* So does each row of a list that is on its way, and each label.
ListsAgree ==
    \A r \in Request : Done(r, "list") =>
        \A n \in DOMAIN request[r].answer : Agrees(n, request[r].answer[n])

LabelsStored ==
    \A r \in Request : Done(r, "label") =>
        \A n \in request[r].ids \cap stored : rows[n] = Normalized(request[r].label)

\* What holds while requests do not conflict and no answer is lost.
AgreeInv == FlightsApart /\ PanelWill /\ ListsAgree /\ LabelsStored

IInv ==
    /\ FormInv
    /\ RetentionHolds
    /\ KeptInv
    /\ ~astray => AgreeInv

-----------------------------------------------------------------------------
(* The newest of a set of rows.                                            *)

LEMMA SmallestElement ==
  ASSUME NEW T, T \subseteq Nat, T # {}
  PROVE  \E x \in T : \A y \in T : x <= y
<1>1. PICK x \in T : \A y \in T : ~(<<y, x>> \in OpToRel(<, Nat))
  BY NatLessThanWellFounded, WFMin
<1>2. ASSUME NEW y \in T PROVE x <= y
  <2>1. x \in Nat /\ y \in Nat
    OBVIOUS
  <2>2. \A a, b \in Nat : a < b <=> <<a, b>> \in OpToRel(<, Nat)
    BY DEF OpToRel
  <2>3. ~(y < x)
    BY <1>1, <2>1, <2>2
  <2> QED
    BY <2>1, <2>3
<1> QED
  BY <1>2

LEMMA LargestElement ==
  ASSUME NEW T, T \subseteq Row, T # {}
  PROVE  \E x \in T : \A y \in T : y <= x
<1> DEFINE D == {MaxRecords - x : x \in T}
<1>0. \A x \in T : x \in Nat /\ MaxRecords - x \in Nat
  BY HistoryAssumption DEF Row
<1>1. D \subseteq Nat /\ D # {}
  BY <1>0
<1>2. PICK d \in D : \A e \in D : d <= e
  BY <1>1, SmallestElement
<1>3. PICK x \in T : d = MaxRecords - x
  BY <1>2
<1>4. ASSUME NEW y \in T PROVE y <= x
  <2>1. MaxRecords - y \in D
    OBVIOUS
  <2> HIDE DEF D
  <2>2. MaxRecords - x <= MaxRecords - y
    BY <1>2, <1>3, <2>1
  <2> QED
    BY <1>0, <2>2, HistoryAssumption
<1> QED
  BY <1>4

LEMMA RowsAreFinite ==
  ASSUME NEW S, S \subseteq Row
  PROVE  IsFiniteSet(S) /\ Cardinality(S) \in Nat /\ S \subseteq Nat
<1>1. IsFiniteSet(Row) /\ Row \subseteq Nat
  BY HistoryAssumption, FS_Interval DEF Row
<1>2. IsFiniteSet(S)
  BY <1>1, FS_Subset
<1> QED
  BY <1>1, <1>2, FS_CardinalityType

LEMMA CountGrows ==
  ASSUME NEW S, NEW T, S \subseteq T, T \subseteq Row
  PROVE  Cardinality(S) \in Nat /\ Cardinality(T) \in Nat /\ Cardinality(S) <= Cardinality(T)
<1>1. IsFiniteSet(T) /\ Cardinality(T) \in Nat /\ Cardinality(S) \in Nat
  BY RowsAreFinite
<1> QED
  BY <1>1, FS_Subset

\* Of more rows, no other of the former ones are the newest.
LEMMA NewestShrinks ==
  ASSUME NEW k \in Nat, NEW S, NEW T, S \subseteq T, T \subseteq Row
  PROVE  Newest(k, T) \cap S \subseteq Newest(k, S)
<1> SUFFICES ASSUME NEW n \in S, Cardinality({m \in T : m > n}) < k
             PROVE  Cardinality({m \in S : m > n}) < k
  BY DEF Newest
<1>1. /\ {m \in S : m > n} \subseteq {m \in T : m > n}
      /\ {m \in T : m > n} \subseteq Row
  OBVIOUS
<1> QED
  BY <1>1, CountGrows

LEMMA NewestBounded ==
  ASSUME NEW k \in Nat, NEW S, S \subseteq Row
  PROVE  Cardinality(Newest(k, S)) <= k
<1> DEFINE N == Newest(k, S)
<1>0. N \subseteq S /\ N \subseteq Row
  BY DEF Newest
<1>1. CASE N = {}
  BY <1>1, FS_EmptySet
<1>2. CASE N # {}
  <2>1. IsFiniteSet(N) /\ Cardinality(N) \in Nat /\ N \subseteq Nat
    BY <1>0, RowsAreFinite
  <2>2. PICK x \in N : \A y \in N : x <= y
    BY <1>2, <2>1, SmallestElement
  <2>3. N \ {x} \subseteq {m \in S : m > x} /\ {m \in S : m > x} \subseteq Row
    BY <1>0, <2>1, <2>2
  <2>4. Cardinality({m \in S : m > x}) < k
    BY <2>2 DEF Newest
  <2>5. Cardinality(N \ {x}) = Cardinality(N) - 1
    BY <2>1, <2>2, FS_RemoveElement
  <2> HIDE DEF N
  <2> QED
    BY <2>1, <2>3, <2>4, <2>5, CountGrows DEF N
<1> QED
  BY <1>1, <1>2

\* Where one is not among the newest, they are as many as can be.
LEMMA NewestFull ==
  ASSUME NEW k \in Nat, NEW S, S \subseteq Row, S \ Newest(k, S) # {}
  PROVE  Cardinality(Newest(k, S)) >= k
<1> DEFINE N == Newest(k, S)
<1>0. N \subseteq S /\ N \subseteq Row
  BY DEF Newest
<1>1. PICK y \in S \ N : \A z \in S \ N : z <= y
  BY LargestElement
<1>2. ~(Cardinality({m \in S : m > y}) < k)
  BY <1>1 DEF Newest
<1>3. {m \in S : m > y} \subseteq N
  <2>1. ASSUME NEW m \in S, m > y PROVE m \in N
    <3>1. m \in Nat /\ y \in Nat
      BY <1>1, RowsAreFinite
    <3> HIDE DEF N
    <3> QED
      BY <1>1, <2>1, <3>1
  <2> QED
    BY <2>1
<1> HIDE DEF N
<1>4. /\ Cardinality({m \in S : m > y}) \in Nat /\ Cardinality(N) \in Nat
      /\ Cardinality({m \in S : m > y}) <= Cardinality(N)
  BY <1>0, <1>3, CountGrows
<1> QED
  BY <1>2, <1>4 DEF N

\* A set within the cap that has all of the newest has nothing else.
LEMMA KeptIsNewest ==
  ASSUME NEW U, U \subseteq Row, NEW W, W \subseteq U, Newest(Limit, U) \subseteq W,
         Cardinality(W) <= Limit
  PROVE  W = Newest(Limit, U)
<1> DEFINE N == Newest(Limit, U)
<1>0. Limit \in Nat /\ N \subseteq W /\ W \subseteq Row
  BY HistoryAssumption
<1>1. ASSUME NEW x \in W, x \notin N PROVE FALSE
  <2>1. Cardinality(N) >= Limit
    BY <1>0, <1>1, NewestFull
  <2>2. IsFiniteSet(W) /\ Cardinality(W) \in Nat /\ Cardinality(N) \in Nat
    BY <1>0, RowsAreFinite
  <2>3. Cardinality(W \ {x}) = Cardinality(W) - 1
    BY <2>2, FS_RemoveElement
  <2> HIDE DEF N
  <2>4. Cardinality(N) <= Cardinality(W \ {x})
    BY <1>0, <1>1, CountGrows
  <2> QED
    BY <1>0, <2>1, <2>2, <2>3, <2>4
<1> HIDE DEF N
<1> QED
  BY <1>0, <1>1 DEF N

-----------------------------------------------------------------------------
(* Requests.                                                               *)

\* The step changes one request only.
Turns(r) ==
    /\ request' \in [Request -> Asked]
    /\ \A q \in Request \ {r} : request'[q] = request[q]

LEMMA NothingKnown ==
  /\ DOMAIN Nothing = {} /\ Nothing \in Labels({})
  /\ Nothing \in UNION {Labels(S) : S \in SUBSET Row}
<1>1. DOMAIN Nothing = {} /\ Nothing \in Labels({})
  BY DEF Nothing, Labels
<1>2. Labels({}) \in {Labels(S) : S \in SUBSET Row}
  OBVIOUS
<1> QED
  BY <1>1, <1>2

LEMMA IdleKnown ==
  /\ Idle \in Asked
  /\ Idle.kind = "none" /\ Idle.step = "sent" /\ Idle.profile = NoProfile
  /\ Idle.ids = {} /\ Idle.label = "blank" /\ Idle.answer = Nothing
<1>1. /\ Idle.kind = "none" /\ Idle.step = "sent" /\ Idle.profile = NoProfile
      /\ Idle.ids = {} /\ Idle.label = "blank" /\ Idle.answer = Nothing
  BY DEF Idle
<1>2. Idle \in Asked
  <2>1. {} \in SUBSET Row /\ "blank" \in Typed /\ NoProfile \in Profile \cup {NoProfile}
    BY DEF Typed
  <2> QED
    BY <2>1, NothingKnown DEF Idle, Asked
<1> QED
  BY <1>1, <1>2

LEMMA RequestKnown ==
  ASSUME FormInv, NEW r \in Request
  PROVE  /\ request \in [Request -> Asked] /\ request[r] \in Asked
         /\ request[r].kind \in {"none", "list", "clear", "remove", "label"}
         /\ request[r].step \in {"sent", "ok", "failed"}
         /\ request[r].profile \in Profile \cup {NoProfile}
         /\ request[r].ids \subseteq inserted /\ request[r].label \in Typed
         /\ request[r].answer \in [DOMAIN request[r].answer -> {"none", "text"}]
         /\ DOMAIN request[r].answer \subseteq inserted
<1>1. request \in [Request -> Asked] /\ request[r] \in Asked
  BY DEF FormInv, TypeOK
<1>2. PICK S \in SUBSET Row : request[r].answer \in [S -> {"none", "text"}]
  BY <1>1 DEF Asked, Labels
<1>3. request[r].answer \in [DOMAIN request[r].answer -> {"none", "text"}]
  BY <1>2
<1> QED
  BY <1>1, <1>3 DEF FormInv, Asked

LEMMA SendsFacts ==
  ASSUME FormInv, NEW r \in Request, NEW kind \in {"list", "clear", "remove", "label"},
         NEW p \in Profile \cup {NoProfile}, NEW ids \in SUBSET Row, NEW l \in Typed,
         Sends(r, kind, p, ids, l)
  PROVE  /\ Turns(r) /\ request[r].kind = "none"
         /\ request'[r].kind = kind /\ request'[r].step = "sent"
         /\ request'[r].profile = p /\ request'[r].ids = ids /\ request'[r].label = l
         /\ request'[r].answer = Nothing
         /\ astray' = (astray \/ Conflicts(kind, ids))
<1> DEFINE a == [Idle EXCEPT !.kind = kind, !.profile = p, !.ids = ids, !.label = l]
<1>1. /\ a.kind = kind /\ a.step = "sent" /\ a.profile = p /\ a.ids = ids /\ a.label = l
      /\ a.answer = Nothing /\ a \in Asked
  BY IdleKnown DEF Asked
<1>2. request' = [request EXCEPT ![r] = a] /\ request \in [Request -> Asked]
  BY DEF Sends, FormInv, TypeOK
<1>3. request[r].kind = "none" /\ astray' = (astray \/ Conflicts(kind, ids))
  BY DEF Sends, Flying
<1> HIDE DEF a
<1>4. request'[r] = a /\ Turns(r)
  BY <1>1, <1>2 DEF Turns
<1> QED
  BY <1>1, <1>3, <1>4

\* A request keeps what it asked for.
Keeps(r) ==
    /\ Turns(r) /\ request'[r].kind = request[r].kind
    /\ request'[r].ids = request[r].ids /\ request'[r].label = request[r].label

LEMMA AnswersFacts ==
  ASSUME FormInv, NEW r \in Request, NEW S \in SUBSET Row, NEW answer \in Labels(S),
         Answers(r, answer)
  PROVE  /\ Keeps(r)
         /\ \/ request'[r].step = "ok" /\ request'[r].answer = answer /\ astray' = astray
            \/ /\ request'[r].step = "failed" /\ request'[r].answer = request[r].answer
               /\ astray' = TRUE
<1>1. request \in [Request -> Asked] /\ request[r] \in Asked
  BY DEF FormInv, TypeOK
<1>2. answer \in UNION {Labels(T) : T \in SUBSET Row}
  OBVIOUS
<1>3. CASE /\ request' = [request EXCEPT ![r].step = "ok", ![r].answer = answer]
           /\ UNCHANGED astray
  <2> DEFINE a == [request[r] EXCEPT !.step = "ok", !.answer = answer]
  <2>1. /\ a.kind = request[r].kind /\ a.step = "ok" /\ a.ids = request[r].ids
        /\ a.label = request[r].label /\ a.answer = answer /\ a \in Asked
    BY <1>1, <1>2 DEF Asked
  <2>2. request' = [request EXCEPT ![r] = a]
    BY <1>3
  <2> HIDE DEF a
  <2>3. request'[r] = a /\ Turns(r)
    BY <1>1, <2>1, <2>2 DEF Turns
  <2> QED
    BY <1>3, <2>1, <2>3 DEF Keeps
<1>4. CASE /\ request' = [request EXCEPT ![r].step = "failed"]
           /\ astray' = TRUE
  <2> DEFINE a == [request[r] EXCEPT !.step = "failed"]
  <2>1. /\ a.kind = request[r].kind /\ a.step = "failed" /\ a.ids = request[r].ids
        /\ a.label = request[r].label /\ a.answer = request[r].answer /\ a \in Asked
    BY <1>1 DEF Asked
  <2>2. request' = [request EXCEPT ![r] = a]
    BY <1>4
  <2> HIDE DEF a
  <2>3. request'[r] = a /\ Turns(r)
    BY <1>1, <2>1, <2>2 DEF Turns
  <2> QED
    BY <1>4, <2>1, <2>3 DEF Keeps
<1> QED
  BY <1>3, <1>4 DEF Answers

LEMMA RefusedFacts ==
  ASSUME FormInv, NEW r \in Request, Refused(r)
  PROVE  /\ Keeps(r) /\ request'[r].step = "failed"
         /\ request'[r].answer = request[r].answer /\ request[r].step = "sent"
<1>1. request \in [Request -> Asked] /\ request[r] \in Asked
  BY DEF FormInv, TypeOK
<1> DEFINE a == [request[r] EXCEPT !.step = "failed"]
<1>2. /\ a.kind = request[r].kind /\ a.step = "failed" /\ a.ids = request[r].ids
      /\ a.label = request[r].label /\ a.answer = request[r].answer /\ a \in Asked
  BY <1>1 DEF Asked
<1>3. request' = [request EXCEPT ![r] = a] /\ request[r].step = "sent"
  BY DEF Refused
<1> HIDE DEF a
<1>4. request'[r] = a /\ Turns(r)
  BY <1>1, <1>2, <1>3 DEF Turns
<1> QED
  BY <1>2, <1>3, <1>4 DEF Keeps

LEMMA ReturnsFacts ==
  ASSUME FormInv, NEW r \in Request, Returns(r)
  PROVE  Turns(r) /\ request'[r] = Idle /\ request[r].kind # "none"
  BY IdleKnown DEF Returns, Turns, FormInv, TypeOK

-----------------------------------------------------------------------------
(* Records and rows.                                                       *)

\* Who a record is for does not change once it is numbered; so the rows of a
\* profile are those they were.
LEMMA SameOwners ==
  ASSUME FormInv, \A n \in 1..recorded : record'[n].profile = record[n].profile
  PROVE  /\ \A p, S : S \subseteq inserted => Of(p, S)' = Of(p, S)
         /\ \A n \in inserted : record'[n].profile = record[n].profile
<1>1. inserted \subseteq 1..recorded
  BY DEF FormInv, TypeOK
<1> QED
  BY <1>1 DEF Of

LEMMA BatchFacts ==
  ASSUME FormInv, recordOutcomeBatch
  PROVE  /\ record' \in [Row -> Record] /\ recorded' \in 0..MaxRecords
         /\ recorded + 1 \in Row /\ recorded + 1 \notin inserted
         /\ record'[recorded + 1].profile \in Profile
         /\ record'[recorded + 1].step \in {"insert", "insertOnly"}
         /\ \A n \in Row \ {recorded + 1} : record'[n] = record[n]
         /\ \A n \in 1..recorded : record'[n].profile = record[n].profile
<1>1. /\ recorded < MaxRecords /\ recorded' = recorded + 1 /\ recorded \in 0..MaxRecords
      /\ MaxRecords \in Nat /\ record \in [Row -> Record] /\ inserted \subseteq 1..recorded
  BY HistoryAssumption DEF recordOutcomeBatch, FormInv, TypeOK
<1>2. PICK p \in Profile, step \in {"insert", "insertOnly"} :
         record' = [record EXCEPT ![recorded + 1] = [profile |-> p, step |-> step]]
  BY DEF recordOutcomeBatch
<1>3. recorded + 1 \in Row /\ recorded + 1 \notin inserted /\ recorded' \in 0..MaxRecords
  BY <1>1 DEF Row
<1>4. record' \in [Row -> Record]
  BY <1>1, <1>2 DEF Record
<1>5. \A n \in 1..recorded : n \in Row \ {recorded + 1}
  BY <1>1 DEF Row
<1>6. \A n \in Row \ {recorded + 1} : record'[n] = record[n]
  BY <1>1, <1>2
<1>7. record'[recorded + 1] = [profile |-> p, step |-> step]
  BY <1>1, <1>2, <1>3
<1>8. \A n \in 1..recorded : record'[n].profile = record[n].profile
  BY <1>5, <1>6
<1> QED
  BY <1>3, <1>4, <1>6, <1>7, <1>8

\* A record goes a step on, for the profile that it is for.
Proceeds(n, step) ==
    /\ record' \in [Row -> Record]
    /\ record'[n].step = step /\ \A m \in Row \ {n} : record'[m] = record[m]
    /\ \A m \in Row : record'[m].profile = record[m].profile

LEMMA ProceedsFacts ==
  ASSUME FormInv, NEW n \in Row, NEW step \in {"trim", "done"},
         record[n].step # "unused", record' = [record EXCEPT ![n].step = step]
  PROVE  /\ Proceeds(n, step)
         /\ n \in 1..recorded /\ record[n].profile \in Profile
         /\ \A m \in 1..recorded : record'[m].profile = record[m].profile
<1>1. record \in [Row -> Record] /\ recorded \in 0..MaxRecords /\ MaxRecords \in Nat
  BY HistoryAssumption DEF FormInv, TypeOK
<1>2. n \in 1..recorded /\ record[n].profile \in Profile
  BY <1>1 DEF FormInv, TypeOK, Row
<1>3. Proceeds(n, step)
  BY <1>1 DEF Proceeds, Record
<1>4. \A m \in 1..recorded : m \in Row
  BY <1>1 DEF Row
<1> QED
  BY <1>2, <1>3, <1>4 DEF Proceeds

LEMMA InsertFacts ==
  ASSUME FormInv, NEW n \in Row, record_history(n)
  PROVE  /\ n \in 1..recorded /\ record[n].profile \in Profile /\ n \notin inserted
         /\ record[n].step # "trim"
         /\ \A m \in 1..recorded : record'[m].profile = record[m].profile
         /\ \/ /\ stored' = stored \cup {n} /\ inserted' = inserted \cup {n}
               /\ rows' \in [stored' -> {"none", "text"}]
               /\ \A m \in stored : rows'[m] = rows[m]
               /\ \/ Proceeds(n, "trim") /\ untrimmed' = untrimmed
                  \/ /\ Proceeds(n, "done")
                     /\ untrimmed' = untrimmed \cup {record[n].profile}
            \/ /\ Proceeds(n, "done")
               /\ UNCHANGED <<rows, inserted, untrimmed>>
<1>1. record[n].step \in {"insert", "insertOnly"} /\ n \notin inserted
  BY DEF record_history, FormInv
<1>2. rows \in [stored -> {"none", "text"}] /\ n \notin stored
  BY <1>1 DEF FormInv, TypeOK, Labels
<1>3. \E step \in {"trim", "done"} : record' = [record EXCEPT ![n].step = step]
  BY DEF record_history
<1>4. /\ n \in 1..recorded /\ record[n].profile \in Profile
      /\ \A m \in 1..recorded : record'[m].profile = record[m].profile
  BY <1>1, <1>3, ProceedsFacts
<1>5. CASE /\ rows' = [m \in stored \cup {n} |-> IF m = n THEN "none" ELSE rows[m]]
           /\ inserted' = inserted \cup {n}
           /\ IF record[n].step = "insert"
              THEN /\ record' = [record EXCEPT ![n].step = "trim"]
                   /\ UNCHANGED untrimmed
              ELSE /\ record' = [record EXCEPT ![n].step = "done"]
                   /\ untrimmed' = untrimmed \cup {record[n].profile}
  <2>1. /\ stored' = stored \cup {n} /\ rows' \in [stored' -> {"none", "text"}]
        /\ \A m \in stored : rows'[m] = rows[m]
    BY <1>2, <1>5 DEF stored
  <2>2. \/ Proceeds(n, "trim") /\ untrimmed' = untrimmed
        \/ Proceeds(n, "done") /\ untrimmed' = untrimmed \cup {record[n].profile}
    BY <1>1, <1>5, ProceedsFacts
  <2> QED
    BY <1>1, <1>4, <1>5, <2>1, <2>2
<1>6. CASE /\ record' = [record EXCEPT ![n].step = "done"]
           /\ UNCHANGED <<rows, inserted, untrimmed>>
  BY <1>1, <1>4, <1>6, ProceedsFacts
<1> QED
  BY <1>5, <1>6 DEF record_history

LEMMA WithoutKnown ==
  ASSUME rows \in [stored -> {"none", "text"}], NEW S, rows' = Without(rows, S)
  PROVE  /\ stored' = stored \ S /\ rows' \in [stored' -> {"none", "text"}]
         /\ \A m \in stored' : rows'[m] = rows[m]
  BY DEF Without, stored

LEMMA TrimFacts ==
  ASSUME FormInv, NEW n \in Row, trim_history(n)
  PROVE  /\ Proceeds(n, "done") /\ record[n].step = "trim"
         /\ n \in 1..recorded /\ record[n].profile \in Profile
         /\ \A m \in 1..recorded : record'[m].profile = record[m].profile
         /\ \/ /\ stored' = stored \ Excess(record[n].profile)
               /\ rows' \in [stored' -> {"none", "text"}]
               /\ \A m \in stored' : rows'[m] = rows[m]
               /\ untrimmed' = untrimmed \ {record[n].profile}
            \/ /\ untrimmed' = untrimmed \cup {record[n].profile} /\ rows' = rows
<1>1. /\ record[n].step = "trim" /\ record' = [record EXCEPT ![n].step = "done"]
      /\ rows \in [stored -> {"none", "text"}]
  BY DEF trim_history, FormInv, TypeOK, Labels
<1>2. /\ Proceeds(n, "done")
      /\ n \in 1..recorded /\ record[n].profile \in Profile
      /\ \A m \in 1..recorded : record'[m].profile = record[m].profile
  BY <1>1, ProceedsFacts
<1> QED
  BY <1>1, <1>2, WithoutKnown DEF trim_history

-----------------------------------------------------------------------------
(* The form is kept.                                                       *)

\* The part of the form that is about records and rows.
StoreForm ==
    /\ record \in [Row -> Record] /\ recorded \in 0..MaxRecords
    /\ \A n \in Row :
          /\ record[n].step = "unused" <=> n > recorded
          /\ record[n].step # "unused" => record[n].profile \in Profile
          /\ record[n].step \in {"insert", "insertOnly"} => n \notin inserted
    /\ inserted \subseteq 1..recorded /\ stored \subseteq inserted
    /\ rows \in [stored -> {"none", "text"}]
    /\ untrimmed \subseteq Profile /\ pruned \subseteq Profile

\* The part that is about one request.
RequestForm(r) ==
    /\ DOMAIN request[r].answer \subseteq inserted
    /\ request[r].ids \subseteq inserted
    /\ request[r].kind = "label" => \E n \in inserted : request[r].ids = {n}

PanelForm == shown \subseteq inserted /\ panel \in [shown -> {"none", "text"}]

LEMMA FormParts ==
  FormInv <=> /\ StoreForm /\ PanelForm /\ astray \in BOOLEAN
              /\ request \in [Request -> Asked]
              /\ \A r \in Request : RequestForm(r)
  BY DEF FormInv, TypeOK, StoreForm, PanelForm, RequestForm, Labels

LEMMA FormPartsNext ==
  FormInv' <=> /\ StoreForm' /\ PanelForm' /\ astray' \in BOOLEAN
               /\ request' \in [Request -> Asked]
               /\ \A r \in Request : RequestForm(r)'
  BY DEF FormInv, TypeOK, StoreForm, PanelForm, RequestForm, Labels

\* A record's step leaves the requests and the panel.
LEMMA RecordStepForm ==
  ASSUME FormInv, StoreForm', inserted \subseteq inserted',
         UNCHANGED <<request, panel, astray>>
  PROVE  FormInv'
<1>1. \A r \in Request : RequestForm(r)'
  BY FormParts DEF RequestForm
<1>2. PanelForm'
  BY FormParts DEF PanelForm, shown
<1> QED
  BY <1>1, <1>2, FormParts, FormPartsNext

\* A request's step leaves the records.
LEMMA RequestStepForm ==
  ASSUME FormInv, NEW r \in Request, Turns(r), RequestForm(r)',
         StoreForm', PanelForm', inserted' = inserted, astray' \in BOOLEAN
  PROVE  FormInv'
<1>1. \A q \in Request : RequestForm(q)'
  BY FormParts DEF RequestForm, Turns
<1> QED
  BY <1>1, FormPartsNext DEF Turns

LEMMA SameStore ==
  ASSUME FormInv, UNCHANGED <<record, recorded, rows, inserted, untrimmed, pruned>>
  PROVE  StoreForm'
  BY FormParts DEF StoreForm, stored

LEMMA SendsForm ==
  ASSUME FormInv, NEW r \in Request, NEW kind \in {"list", "clear", "remove", "label"},
         NEW p \in Profile \cup {NoProfile}, NEW ids \in SUBSET inserted, NEW l \in Typed,
         kind = "label" => \E n \in inserted : ids = {n},
         Sends(r, kind, p, ids, l)
  PROVE  FormInv'
<1>0. inserted \subseteq Row
  <2>1. recorded \in 0..MaxRecords /\ MaxRecords \in Nat /\ inserted \subseteq 1..recorded
    BY HistoryAssumption DEF FormInv, TypeOK
  <2> QED
    BY <2>1 DEF Row
<1>1. /\ UNCHANGED <<record, recorded, rows, panel, inserted, untrimmed, pruned>>
  BY DEF Sends
<1>2. /\ Turns(r) /\ request'[r].kind = kind /\ request'[r].ids = ids
      /\ request'[r].answer = Nothing /\ astray' \in BOOLEAN
  <2>1. ids \in SUBSET Row
    BY <1>0
  <2>2. /\ Turns(r) /\ request'[r].kind = kind /\ request'[r].ids = ids
        /\ request'[r].answer = Nothing /\ astray' = (astray \/ Conflicts(kind, ids))
    BY <2>1, SendsFacts
  <2> QED
    BY <2>2
<1>3. RequestForm(r)'
  BY <1>1, <1>2, NothingKnown DEF RequestForm
<1>4. StoreForm' /\ PanelForm'
  BY <1>1, SameStore, FormParts DEF PanelForm, shown
<1> QED
  BY <1>1, <1>2, <1>3, <1>4, RequestStepForm

\* What a label is stored as.
LEMMA NormalizedKnown == \A l : Normalized(l) \in {"none", "text"}
  BY DEF Normalized

LEMMA LabelledKnown ==
  ASSUME NEW f, f \in [DOMAIN f -> {"none", "text"}], NEW S, NEW l \in {"none", "text"}
  PROVE  /\ DOMAIN Labelled(f, S, l) = DOMAIN f
         /\ Labelled(f, S, l) \in [DOMAIN f -> {"none", "text"}]
         /\ \A n \in DOMAIN f : Labelled(f, S, l)[n] = IF n \in S THEN l ELSE f[n]
  BY DEF Labelled

\* The rows that clear_history takes.
Cleared(r) == Of(request[r].profile, stored)

LEMMA RemovesFacts ==
  ASSUME FormInv, NEW r \in Request, NEW S, Removes(r, S)
  PROVE  /\ Keeps(r)
         /\ \/ request'[r].step = "ok" /\ astray' = astray
            \/ request'[r].step = "failed" /\ astray' = TRUE
         /\ DOMAIN request'[r].answer \subseteq inserted
         /\ stored' = stored \ S /\ rows' \in [stored' -> {"none", "text"}]
         /\ \A m \in stored' : rows'[m] = rows[m]
         /\ \A m \in S \cap stored : record[m].profile \in pruned'
         /\ pruned \subseteq pruned' /\ pruned' \subseteq Profile
         /\ UNCHANGED <<record, recorded, panel, inserted, untrimmed>>
<1>1. rows \in [stored -> {"none", "text"}] /\ StoreForm
  BY FormParts DEF StoreForm
<1>2. /\ rows' = Without(rows, S) /\ Answers(r, Nothing)
      /\ pruned' = pruned \cup {record[n].profile : n \in S \cap stored}
      /\ UNCHANGED <<record, recorded, panel, inserted, untrimmed>>
  BY DEF Removes
<1>3. /\ Keeps(r)
      /\ \/ request'[r].step = "ok" /\ request'[r].answer = Nothing /\ astray' = astray
         \/ /\ request'[r].step = "failed" /\ request'[r].answer = request[r].answer
            /\ astray' = TRUE
  BY <1>2, NothingKnown, AnswersFacts
<1>4. DOMAIN request'[r].answer \subseteq inserted
  BY <1>3, NothingKnown, RequestKnown
<1>5. \A n \in stored : record[n].profile \in Profile
  BY <1>1, HistoryAssumption DEF StoreForm, Row
<1>6. /\ stored' = stored \ S /\ rows' \in [stored' -> {"none", "text"}]
      /\ \A m \in stored' : rows'[m] = rows[m]
  BY <1>1, <1>2, WithoutKnown
<1>7. /\ \A m \in S \cap stored : record[m].profile \in pruned'
      /\ pruned \subseteq pruned' /\ pruned' \subseteq Profile
  BY <1>1, <1>2, <1>5 DEF StoreForm
<1> QED
  BY <1>2, <1>3, <1>4, <1>6, <1>7

LEMMA RemovesForm ==
  ASSUME FormInv, NEW r \in Request, NEW S, Removes(r, S)
  PROVE  FormInv'
<1>1. /\ Keeps(r) /\ DOMAIN request'[r].answer \subseteq inserted
      /\ UNCHANGED <<record, recorded, panel, inserted, untrimmed>>
      /\ stored' \subseteq stored /\ rows' \in [stored' -> {"none", "text"}]
      /\ pruned' \subseteq Profile
  BY RemovesFacts
<1>2. astray' \in BOOLEAN
  BY RemovesFacts, FormParts
<1>3. StoreForm'
  BY <1>1, FormParts DEF StoreForm
<1>4. PanelForm'
  BY <1>1, FormParts DEF PanelForm, shown
<1>5. RequestForm(r)'
  BY <1>1, FormParts DEF RequestForm, Keeps
<1> QED
  BY <1>1, <1>2, <1>3, <1>4, <1>5, RequestStepForm DEF Keeps

LEMMA ListFacts ==
  ASSUME FormInv, NEW r \in Request, list_history(r)
  PROVE  /\ Keeps(r) /\ request[r].kind = "list"
         /\ \/ /\ request'[r].step = "ok" /\ astray' = astray
               /\ DOMAIN request'[r].answer \subseteq stored
               /\ \A n \in DOMAIN request'[r].answer : request'[r].answer[n] = rows[n]
            \/ /\ request'[r].step = "failed" /\ request'[r].answer = request[r].answer
               /\ astray' = TRUE
         /\ UNCHANGED <<record, recorded, rows, panel, inserted, untrimmed, pruned>>
<1>1. rows \in [stored -> {"none", "text"}] /\ stored \subseteq Row
  BY FormParts, HistoryAssumption DEF StoreForm, Row
<1> DEFINE D == stored \cap Newest(ListLimit, Of(request[r].profile, stored))
           answer == [n \in D |-> rows[n]]
<1>2. /\ Answers(r, answer) /\ request[r].kind = "list"
      /\ UNCHANGED <<record, recorded, rows, panel, inserted, untrimmed, pruned>>
  BY DEF list_history, Only, stored, Sent
<1>3. D \in SUBSET Row /\ answer \in Labels(D) /\ DOMAIN answer = D /\ D \subseteq stored
  BY <1>1 DEF Labels
<1>4. \A n \in D : answer[n] = rows[n]
  OBVIOUS
<1> HIDE DEF answer, D
<1>5. /\ Keeps(r)
      /\ \/ request'[r].step = "ok" /\ request'[r].answer = answer /\ astray' = astray
         \/ /\ request'[r].step = "failed" /\ request'[r].answer = request[r].answer
            /\ astray' = TRUE
  BY <1>2, <1>3, AnswersFacts
<1> QED
  BY <1>2, <1>3, <1>4, <1>5

LEMMA LabelFacts ==
  ASSUME FormInv, NEW r \in Request, set_history_label(r)
  PROVE  /\ Keeps(r) /\ request[r].kind = "label" /\ request[r].step = "sent"
         /\ \/ request'[r].step = "ok" /\ astray' = astray
            \/ request'[r].step = "failed" /\ astray' = TRUE
         /\ DOMAIN request'[r].answer \subseteq inserted
         /\ stored' = stored /\ rows' \in [stored -> {"none", "text"}]
         /\ \A n \in stored : rows'[n] = IF n \in request[r].ids
                                          THEN Normalized(request[r].label) ELSE rows[n]
         /\ UNCHANGED <<record, recorded, panel, inserted, untrimmed, pruned>>
<1>1. rows \in [stored -> {"none", "text"}]
  BY FormParts DEF StoreForm
<1>2. /\ rows' = Labelled(rows, request[r].ids, Normalized(request[r].label))
      /\ Answers(r, Nothing) /\ request[r].kind = "label" /\ request[r].step = "sent"
      /\ UNCHANGED <<record, recorded, panel, inserted, untrimmed, pruned>>
  BY DEF set_history_label, Sent
<1>3. /\ Keeps(r)
      /\ \/ request'[r].step = "ok" /\ request'[r].answer = Nothing /\ astray' = astray
         \/ /\ request'[r].step = "failed" /\ request'[r].answer = request[r].answer
            /\ astray' = TRUE
  BY <1>2, NothingKnown, AnswersFacts
<1>4. DOMAIN request'[r].answer \subseteq inserted
  BY <1>3, NothingKnown, RequestKnown
<1>5. /\ stored' = stored /\ rows' \in [stored -> {"none", "text"}]
      /\ \A n \in stored : rows'[n] = IF n \in request[r].ids
                                       THEN Normalized(request[r].label) ELSE rows[n]
  BY <1>1, <1>2, LabelledKnown, NormalizedKnown DEF stored
<1> QED
  BY <1>2, <1>3, <1>4, <1>5

\* The panel that an answer leaves.
LEMMA PanelFacts ==
  ASSUME FormInv, NEW r \in Request, Returns(r)
  PROVE  /\ PanelForm'
         /\ request[r].step # "ok" => panel' = panel \/ panel' = Nothing
         /\ request[r].step = "ok" =>
              /\ request[r].kind = "list" => panel' = request[r].answer
              /\ request[r].kind = "clear" => panel' = Nothing
              /\ request[r].kind = "remove" =>
                    /\ shown' = shown \ request[r].ids
                    /\ \A n \in shown' : panel'[n] = panel[n]
              /\ request[r].kind = "label" =>
                    /\ shown' = shown
                    /\ \A n \in shown : panel'[n] =
                          IF n \in request[r].ids THEN Normalized(request[r].label)
                          ELSE panel[n]
<1> DEFINE q == request[r]
<1>0. /\ PanelForm /\ inserted' = inserted /\ q.kind # "none"
      /\ q.kind \in {"none", "list", "clear", "remove", "label"}
  BY FormParts, RequestKnown DEF Returns
<1>1. ASSUME panel' = Nothing PROVE PanelForm'
  BY <1>1, NothingKnown DEF PanelForm, shown, Labels
<1>2. CASE q.step # "ok"
  <2>1. panel' = panel \/ panel' = Nothing
    BY <1>2 DEF Returns
  <2> QED
    BY <1>0, <1>1, <1>2, <2>1 DEF PanelForm, shown
<1>3. CASE q.step = "ok"
  <2>0. panel' = Shown(q)
    BY <1>3 DEF Returns
  <2>1. CASE q.kind = "list"
    <3>1. panel' = q.answer
      BY <2>0, <2>1 DEF Shown
    <3> QED
      BY <1>0, <1>3, <2>1, <3>1, RequestKnown DEF PanelForm, shown
  <2>2. CASE q.kind = "clear"
    <3>1. panel' = Nothing
      BY <2>0, <2>2 DEF Shown
    <3> QED
      BY <1>1, <1>3, <2>2, <3>1
  <2>3. CASE q.kind = "remove"
    <3>1. panel' = [n \in DOMAIN panel \ q.ids |-> panel[n]]
      BY <2>0, <2>3 DEF Shown, Without
    <3>2. shown' = shown \ q.ids /\ \A n \in shown' : panel'[n] = panel[n]
      BY <3>1 DEF shown
    <3>3. PanelForm'
      BY <1>0, <3>1, <3>2 DEF PanelForm, shown
    <3> QED
      BY <1>3, <2>3, <3>2, <3>3
  <2>4. CASE q.kind = "label"
    <3>1. panel' = Labelled(panel, q.ids, Normalized(q.label))
      BY <2>0, <2>4 DEF Shown
    <3>2. /\ shown' = shown /\ panel' \in [shown -> {"none", "text"}]
          /\ \A n \in shown : panel'[n] = IF n \in q.ids THEN Normalized(q.label)
                                           ELSE panel[n]
      BY <1>0, <3>1, LabelledKnown, NormalizedKnown DEF PanelForm, shown
    <3>3. PanelForm'
      BY <1>0, <3>2 DEF PanelForm
    <3> QED
      BY <1>3, <2>4, <3>2, <3>3
  <2> QED
    BY <1>0, <2>1, <2>2, <2>3, <2>4
<1> QED
  BY <1>2, <1>3

\* The panel's requests, as they are sent.
Opens(r) ==
    openHistory(r) \/ clearHistory(r) \/ deleteHistoryEntries(r) \/ setHistoryLabel(r)

LEMMA OpensFacts ==
  ASSUME FormInv, NEW r \in Request, Opens(r)
  PROVE  \E kind \in {"list", "clear", "remove", "label"}, p \in Profile \cup {NoProfile},
            ids \in SUBSET inserted, l \in Typed :
               /\ kind = "label" => \E n \in inserted : ids = {n}
               /\ Sends(r, kind, p, ids, l)
<1>1. shown \subseteq inserted /\ "blank" \in Typed
  BY FormParts DEF PanelForm, Typed
<1>2. CASE openHistory(r)
  <2>1. PICK p \in Profile : Sends(r, "list", p, {}, "blank")
    BY <1>2 DEF openHistory
  <2> QED
    BY <1>1, <2>1
<1>3. CASE clearHistory(r)
  <2>1. PICK p \in Profile : Sends(r, "clear", p, {}, "blank")
    BY <1>3 DEF clearHistory
  <2> QED
    BY <1>1, <2>1
<1>4. CASE deleteHistoryEntries(r)
  <2>1. PICK ids \in SUBSET shown : Sends(r, "remove", NoProfile, ids, "blank")
    BY <1>4 DEF deleteHistoryEntries
  <2>2. ids \in SUBSET inserted
    BY <1>1
  <2> QED
    BY <1>1, <2>1, <2>2
<1>5. CASE setHistoryLabel(r)
  <2>1. PICK n \in shown, l \in Typed : Sends(r, "label", NoProfile, {n}, l)
    BY <1>5 DEF setHistoryLabel
  <2>2. n \in inserted /\ {n} \in SUBSET inserted
    BY <1>1
  <2> QED
    BY <2>1, <2>2
<1> QED
  BY <1>2, <1>3, <1>4, <1>5 DEF Opens

\* What becomes of the records and rows.
Records ==
    recordOutcomeBatch \/ \E n \in Row : record_history(n) \/ trim_history(n)

LEMMA NextCases ==
  Next <=> \/ Records
           \/ \E r \in Request :
                 \/ Opens(r) \/ list_history(r) \/ clear_history(r)
                 \/ delete_history_many(r) \/ set_history_label(r)
                 \/ Refused(r) \/ Returns(r)
  BY DEF Next, Records, Opens

LEMMA RecordsForm ==
  ASSUME FormInv, Records
  PROVE  FormInv'
<1>0. StoreForm
  BY FormParts
<1>1. CASE recordOutcomeBatch
  <2>1. /\ UNCHANGED <<rows, panel, request, inserted, untrimmed, pruned, astray>>
        /\ recorded' = recorded + 1
    BY <1>1 DEF recordOutcomeBatch
  <2>2. StoreForm'
    <3>1. /\ record' \in [Row -> Record] /\ recorded' \in 0..MaxRecords
          /\ stored' = stored /\ inserted' \subseteq 1..recorded'
      BY <1>0, <1>1, <2>1, BatchFacts, HistoryAssumption DEF StoreForm, stored
    <3>2. ASSUME NEW n \in Row
          PROVE  /\ record'[n].step = "unused" <=> n > recorded'
                 /\ record'[n].step # "unused" => record'[n].profile \in Profile
                 /\ record'[n].step \in {"insert", "insertOnly"} => n \notin inserted'
      BY <1>0, <1>1, <2>1, BatchFacts, HistoryAssumption DEF StoreForm, Row
    <3> QED
      BY <1>0, <2>1, <3>1, <3>2 DEF StoreForm
  <2> QED
    BY <2>1, <2>2, RecordStepForm
<1>2. ASSUME NEW n \in Row, record_history(n)
      PROVE  FormInv'
  <2>1. UNCHANGED <<recorded, panel, request, pruned, astray>>
    BY <1>2 DEF record_history
  <2>2. StoreForm' /\ inserted \subseteq inserted'
    <3>1. ASSUME NEW step \in {"trim", "done"}, Proceeds(n, step), NEW m \in Row,
                 inserted' \in {inserted, inserted \cup {n}}
          PROVE  /\ record'[m].step = "unused" <=> m > recorded'
                 /\ record'[m].step # "unused" => record'[m].profile \in Profile
                 /\ record'[m].step \in {"insert", "insertOnly"} => m \notin inserted'
      <4>1. record[n].step # "unused"
        BY <1>2 DEF record_history
      <4> QED
        BY <1>0, <2>1, <3>1, <4>1 DEF StoreForm, Proceeds
    <3>2. CASE /\ stored' = stored \cup {n} /\ inserted' = inserted \cup {n}
               /\ rows' \in [stored' -> {"none", "text"}]
               /\ \/ Proceeds(n, "trim") /\ untrimmed' = untrimmed
                  \/ /\ Proceeds(n, "done")
                     /\ untrimmed' = untrimmed \cup {record[n].profile}
      <4>1. /\ inserted' \subseteq 1..recorded' /\ untrimmed' \subseteq Profile
            /\ stored' \subseteq inserted'
        <5>1. n \in 1..recorded /\ record[n].profile \in Profile
          BY <1>2, InsertFacts
        <5>2. untrimmed' \subseteq Profile
          BY <1>0, <3>2, <5>1 DEF StoreForm
        <5> QED
          BY <1>0, <2>1, <3>2, <5>1, <5>2 DEF StoreForm
      <4>2. record' \in [Row -> Record]
        BY <3>2 DEF Proceeds
      <4> QED
        BY <1>0, <2>1, <3>1, <3>2, <4>1, <4>2 DEF StoreForm
    <3>3. CASE Proceeds(n, "done") /\ UNCHANGED <<rows, inserted, untrimmed>>
      <4>1. record' \in [Row -> Record] /\ stored' = stored
        BY <3>3 DEF Proceeds, stored
      <4> QED
        BY <1>0, <2>1, <3>1, <3>3, <4>1 DEF StoreForm
    <3> QED
      BY <1>2, <3>2, <3>3, InsertFacts
  <2> QED
    BY <2>1, <2>2, RecordStepForm
<1>3. ASSUME NEW n \in Row, trim_history(n)
      PROVE  FormInv'
  <2>1. UNCHANGED <<recorded, panel, request, inserted, pruned, astray>>
    BY <1>3 DEF trim_history
  <2>2. /\ Proceeds(n, "done") /\ record[n].step = "trim" /\ record[n].profile \in Profile
        /\ stored' \subseteq stored /\ rows' \in [stored' -> {"none", "text"}]
        /\ untrimmed' \subseteq Profile
    <3>1. rows' = rows => stored' = stored
      BY DEF stored
    <3> QED
      BY <1>0, <1>3, <3>1, TrimFacts DEF StoreForm
  <2>3. ASSUME NEW m \in Row
        PROVE  /\ record'[m].step = "unused" <=> m > recorded'
               /\ record'[m].step # "unused" => record'[m].profile \in Profile
               /\ record'[m].step \in {"insert", "insertOnly"} => m \notin inserted'
    BY <1>0, <2>1, <2>2 DEF StoreForm, Proceeds
  <2>4. StoreForm'
    BY <1>0, <2>1, <2>2, <2>3 DEF StoreForm, Proceeds
  <2> QED
    BY <2>1, <2>4, RecordStepForm
<1> QED
  BY <1>1, <1>2, <1>3 DEF Records

LEMMA FormStep ==
  ASSUME FormInv, [Next]_vars
  PROVE  FormInv'
<1>1. CASE Records
  BY <1>1, RecordsForm
<1>2. ASSUME NEW r \in Request, Opens(r)
      PROVE  FormInv'
  BY <1>2, OpensFacts, SendsForm
<1>3. ASSUME NEW r \in Request, list_history(r)
      PROVE  FormInv'
  <2>1. StoreForm' /\ PanelForm' /\ astray' \in BOOLEAN /\ inserted' = inserted
    BY <1>3, ListFacts, SameStore, FormParts DEF PanelForm, shown
  <2>2. RequestForm(r)' /\ Turns(r)
    <3>1. stored \subseteq inserted
      BY FormParts DEF StoreForm
    <3> QED
      BY <1>3, <2>1, <3>1, ListFacts, RequestKnown DEF Keeps, RequestForm
  <2> QED
    BY <2>1, <2>2, RequestStepForm
<1>4. ASSUME NEW r \in Request, clear_history(r) \/ delete_history_many(r)
      PROVE  FormInv'
  BY <1>4, RemovesForm DEF clear_history, delete_history_many
<1>5. ASSUME NEW r \in Request, set_history_label(r)
      PROVE  FormInv'
  <2>1. /\ Keeps(r) /\ DOMAIN request'[r].answer \subseteq inserted
        /\ stored' = stored /\ rows' \in [stored -> {"none", "text"}]
        /\ UNCHANGED <<record, recorded, panel, inserted, untrimmed, pruned>>
        /\ astray' \in BOOLEAN
    BY <1>5, LabelFacts, FormParts
  <2>2. StoreForm' /\ PanelForm'
    BY <2>1, FormParts DEF StoreForm, PanelForm, shown
  <2>3. RequestForm(r)'
    BY <2>1, FormParts DEF Keeps, RequestForm
  <2> QED
    BY <2>1, <2>2, <2>3, RequestStepForm DEF Keeps
<1>6. ASSUME NEW r \in Request, Refused(r)
      PROVE  FormInv'
  <2>1. UNCHANGED <<record, recorded, rows, panel, inserted, untrimmed, pruned, astray>>
    BY <1>6 DEF Refused
  <2>2. StoreForm' /\ PanelForm' /\ astray' \in BOOLEAN
    BY <2>1, SameStore, FormParts DEF PanelForm, shown
  <2>3. RequestForm(r)' /\ Turns(r)
    BY <1>6, <2>1, RefusedFacts, FormParts DEF Keeps, RequestForm
  <2> QED
    BY <2>1, <2>2, <2>3, RequestStepForm
<1>7. ASSUME NEW r \in Request, Returns(r)
      PROVE  FormInv'
  <2>1. UNCHANGED <<record, recorded, rows, inserted, untrimmed, pruned, astray>>
    BY <1>7 DEF Returns
  <2>2. StoreForm' /\ PanelForm' /\ astray' \in BOOLEAN
    BY <1>7, <2>1, SameStore, PanelFacts, FormParts
  <2>3. RequestForm(r)' /\ Turns(r)
    BY <1>7, ReturnsFacts, IdleKnown, NothingKnown DEF RequestForm
  <2> QED
    BY <2>1, <2>2, <2>3, RequestStepForm
<1>8. CASE UNCHANGED vars
  BY <1>8 DEF vars, FormInv, TypeOK, stored, shown
<1> QED
  BY <1>1, <1>2, <1>3, <1>4, <1>5, <1>6, <1>7, <1>8, NextCases

-----------------------------------------------------------------------------
(* The cap, and what it keeps.                                             *)

\* What a request does to records and rows: it takes rows away, at most.
Takes ==
    /\ UNCHANGED <<record, recorded, inserted, untrimmed>>
    /\ stored' \subseteq stored /\ pruned \subseteq pruned'
    /\ \A m \in stored \ stored' : record[m].profile \in pruned'

LEMMA RequestsTake ==
  ASSUME FormInv, [Next]_vars, ~Records
  PROVE  Takes
<1>1. ASSUME UNCHANGED <<record, recorded, rows, inserted, untrimmed, pruned>>
      PROVE  Takes
  BY <1>1 DEF Takes, stored
<1>2. ASSUME NEW r \in Request, NEW S, Removes(r, S)
      PROVE  Takes
  BY <1>2, RemovesFacts DEF Takes
<1>3. ASSUME NEW r \in Request, Opens(r)
      PROVE  Takes
  BY <1>1, <1>3, OpensFacts DEF Sends
<1>4. ASSUME NEW r \in Request, list_history(r) \/ Refused(r) \/ Returns(r)
      PROVE  Takes
  BY <1>1, <1>4 DEF list_history, Refused, Returns
<1>5. ASSUME NEW r \in Request, set_history_label(r)
      PROVE  Takes
  BY <1>5, LabelFacts DEF Takes
<1>6. ASSUME NEW r \in Request, clear_history(r) \/ delete_history_many(r)
      PROVE  Takes
  BY <1>2, <1>6 DEF clear_history, delete_history_many
<1>7. CASE UNCHANGED vars
  BY <1>1, <1>7 DEF vars
<1> QED
  BY <1>3, <1>4, <1>5, <1>6, <1>7, NextCases

LEMMA StoredAreRows ==
  ASSUME FormInv
  PROVE  /\ inserted \subseteq Row /\ stored \subseteq inserted
         /\ recorded \in Nat /\ inserted \subseteq 1..recorded
         /\ 1..recorded \subseteq Row
         /\ \A p, S : S \subseteq Row => Of(p, S) \subseteq Row
<1>1. /\ recorded \in 0..MaxRecords /\ MaxRecords \in Nat /\ inserted \subseteq 1..recorded
      /\ stored \subseteq inserted
  BY HistoryAssumption DEF FormInv, TypeOK
<1> QED
  BY <1>1 DEF Row, Of

\* The cap is kept for one profile.
Retained(p) == Settled(p) => Cardinality(Of(p, stored)) <= Limit

LEMMA RetainedKept ==
  ASSUME FormInv, NEW p \in Profile, Retained(p),
         \A n \in stored' : record'[n].profile = p =>
            n \in stored /\ record[n].profile = p,
         Settled(p)' => Settled(p)
  PROVE  Retained(p)'
<1>1. Of(p, stored)' \subseteq Of(p, stored) /\ Of(p, stored) \subseteq Row
  BY StoredAreRows DEF Of
<1>2. /\ Cardinality(Of(p, stored)') \in Nat /\ Cardinality(Of(p, stored)) \in Nat
      /\ Cardinality(Of(p, stored)') <= Cardinality(Of(p, stored))
  BY <1>1, CountGrows
<1>3. Limit \in Nat
  BY HistoryAssumption
<1> QED
  BY <1>2, <1>3 DEF Retained

LEMMA RetentionStep ==
  ASSUME FormInv, RetentionHolds, [Next]_vars
  PROVE  RetentionHolds'
<1> SUFFICES ASSUME NEW p \in Profile
             PROVE  Retained(p)'
  BY DEF RetentionHolds, Retained
<1>0. Retained(p)
  BY DEF RetentionHolds, Retained
<1>1. CASE recordOutcomeBatch
  <2>1. UNCHANGED <<rows, untrimmed>> /\ stored' = stored /\ recorded' = recorded + 1
    BY <1>1 DEF recordOutcomeBatch, stored
  <2>2. \A n \in 1..recorded : n \in Row /\ record'[n] = record[n]
    <3>1. \A n \in 1..recorded : n \in Row /\ n # recorded + 1
      BY StoredAreRows
    <3> QED
      BY <1>1, <3>1, BatchFacts
  <2>3. \A n \in 1..recorded : n \in 1..recorded'
    BY <2>1, StoredAreRows
  <2>4. Settled(p)' => Settled(p)
    BY <2>1, <2>2, <2>3 DEF Settled, Of
  <2> QED
    BY <1>0, <2>1, <2>2, <2>4, RetainedKept, StoredAreRows
<1>2. ASSUME NEW n \in Row, record_history(n)
      PROVE  Retained(p)'
  <2>1. /\ recorded' = recorded /\ n \in 1..recorded /\ record[n].step # "trim"
        /\ \A m \in 1..recorded : record'[m].profile = record[m].profile
        /\ \A m \in 1..recorded : m \in Row
    BY <1>2, InsertFacts, StoredAreRows DEF record_history
  <2>2. CASE /\ stored' = stored \cup {n}
             /\ \/ Proceeds(n, "trim") /\ untrimmed' = untrimmed
                \/ /\ Proceeds(n, "done")
                   /\ untrimmed' = untrimmed \cup {record[n].profile}
    <3>1. CASE record[n].profile = p
      BY <2>1, <2>2, <3>1 DEF Retained, Settled, Of, Proceeds
    <3>2. CASE record[n].profile # p
      <4>1. Settled(p)' => Settled(p)
        BY <2>1, <2>2, <3>2 DEF Settled, Of, Proceeds
      <4> QED
        BY <1>0, <2>1, <2>2, <3>2, <4>1, RetainedKept, StoredAreRows
    <3> QED
      BY <3>1, <3>2
  <2>3. CASE Proceeds(n, "done") /\ UNCHANGED <<rows, untrimmed>>
    <3>1. Settled(p)' => Settled(p)
      BY <2>1, <2>3 DEF Settled, Of, Proceeds
    <3>2. stored' = stored
      BY <2>3 DEF stored
    <3> QED
      BY <1>0, <2>1, <3>1, <3>2, RetainedKept, StoredAreRows
  <2> QED
    BY <1>2, <2>2, <2>3, InsertFacts
<1>3. ASSUME NEW n \in Row, trim_history(n)
      PROVE  Retained(p)'
  <2>1. /\ recorded' = recorded /\ n \in 1..recorded /\ Proceeds(n, "done")
        /\ \A m \in 1..recorded : record'[m].profile = record[m].profile
        /\ \A m \in 1..recorded : m \in Row
    BY <1>3, TrimFacts, StoredAreRows DEF trim_history
  <2>2. CASE record[n].profile = p /\ stored' = stored \ Excess(p)
    <3>1. Of(p, stored)' \subseteq Newest(Limit, Of(p, stored))
      BY <2>1, <2>2, StoredAreRows DEF Of, Excess
    <3>2. Of(p, stored) \subseteq Row /\ Limit \in Nat
      BY StoredAreRows, HistoryAssumption
    <3>3. Newest(Limit, Of(p, stored)) \subseteq Row
      BY <3>2 DEF Newest
    <3>4. /\ Cardinality(Of(p, stored)') \in Nat
          /\ Cardinality(Newest(Limit, Of(p, stored))) \in Nat
          /\ Cardinality(Of(p, stored)') <= Cardinality(Newest(Limit, Of(p, stored)))
          /\ Cardinality(Newest(Limit, Of(p, stored))) <= Limit
      BY <3>1, <3>2, <3>3, CountGrows, NewestBounded
    <3> QED
      BY <3>2, <3>4 DEF Retained
  <2>3. CASE record[n].profile = p /\ p \in untrimmed'
    BY <2>3 DEF Retained, Settled
  <2>4. CASE record[n].profile # p
    <3>1. stored' \subseteq stored /\ (p \in untrimmed => p \in untrimmed')
      BY <1>3, <2>4, TrimFacts DEF stored
    <3>2. Settled(p)' => Settled(p)
      BY <2>1, <2>4, <3>1 DEF Settled, Of, Proceeds
    <3> QED
      BY <1>0, <2>1, <3>1, <3>2, RetainedKept, StoredAreRows
  <2> QED
    BY <1>3, <2>2, <2>3, <2>4, TrimFacts
<1>4. CASE ~Records
  <2>1. /\ UNCHANGED <<record, recorded, untrimmed>> /\ stored' \subseteq stored
    BY <1>4, RequestsTake DEF Takes
  <2>2. Settled(p)' => Settled(p)
    BY <2>1 DEF Settled, Of
  <2> QED
    BY <1>0, <2>1, <2>2, RetainedKept
<1> QED
  BY <1>1, <1>2, <1>3, <1>4 DEF Records

\* The newest of what was ever stored stay, while rows come and the others go.
LEMMA KeptStep ==
  ASSUME FormInv, KeptInv, [Next]_vars
  PROVE  KeptInv'
<1> SUFFICES ASSUME NEW p \in Profile, p \notin pruned'
             PROVE  Newest(Limit, Of(p, inserted))' \subseteq stored'
  BY DEF KeptInv
<1>0. Limit \in Nat /\ Of(p, inserted) \subseteq Row /\ Of(p, stored) \subseteq Of(p, inserted)
  BY HistoryAssumption, StoredAreRows DEF Of
<1>1. CASE recordOutcomeBatch
  <2>1. UNCHANGED <<inserted, pruned>> /\ stored' = stored
    BY <1>1 DEF recordOutcomeBatch, stored
  <2>2. Of(p, inserted)' = Of(p, inserted)
    BY <1>1, <2>1, BatchFacts, StoredAreRows DEF Of
  <2> QED
    BY <2>1, <2>2 DEF KeptInv, Newest
<1>2. ASSUME NEW n \in Row, record_history(n)
      PROVE  Newest(Limit, Of(p, inserted))' \subseteq stored'
  <2>1. /\ pruned' = pruned /\ n \in 1..recorded
        /\ \A m \in 1..recorded : record'[m].profile = record[m].profile
    BY <1>2, InsertFacts DEF record_history
  <2>2. CASE UNCHANGED <<rows, inserted>>
    <3>1. Of(p, inserted)' = Of(p, inserted) /\ stored' = stored
      BY <2>1, <2>2, StoredAreRows DEF Of, stored
    <3> QED
      BY <2>1, <3>1 DEF KeptInv, Newest
  <2>3. CASE stored' = stored \cup {n} /\ inserted' = inserted \cup {n}
    <3> DEFINE T == Of(p, inserted)'
    <3>1. /\ T \subseteq Of(p, inserted) \cup {n} /\ Of(p, inserted) \subseteq T
          /\ T \subseteq Row
      BY <2>1, <2>3, StoredAreRows DEF Of
    <3>2. Newest(Limit, T) \cap Of(p, inserted) \subseteq Newest(Limit, Of(p, inserted))
      BY <1>0, <3>1, NewestShrinks
    <3>3. Newest(Limit, Of(p, inserted)) \subseteq stored
      BY <2>1 DEF KeptInv
    <3>4. Newest(Limit, Of(p, inserted))' = Newest(Limit, T) /\ Newest(Limit, T) \subseteq T
      BY DEF Newest
    <3> HIDE DEF T
    <3> QED
      BY <2>3, <3>1, <3>2, <3>3, <3>4
  <2> QED
    BY <1>2, <2>2, <2>3, InsertFacts
<1>3. ASSUME NEW n \in Row, trim_history(n)
      PROVE  Newest(Limit, Of(p, inserted))' \subseteq stored'
  <2>1. /\ UNCHANGED <<inserted, pruned>>
        /\ \A m \in 1..recorded : record'[m].profile = record[m].profile
    BY <1>3, TrimFacts DEF trim_history
  <2>2. /\ Of(p, inserted)' = Of(p, inserted)
        /\ Newest(Limit, Of(p, inserted))' = Newest(Limit, Of(p, inserted))
    BY <2>1, StoredAreRows DEF Of, Newest
  <2>3. Newest(Limit, Of(p, inserted)) \subseteq Of(p, stored)
    <3>1. Newest(Limit, Of(p, inserted)) \subseteq stored
      BY <2>1 DEF KeptInv
    <3> QED
      BY <3>1 DEF Newest, Of
  <2>4. Newest(Limit, Of(p, inserted)) \subseteq Newest(Limit, Of(p, stored))
    BY <1>0, <2>3, NewestShrinks
  <2>5. \/ stored' = stored \ Excess(record[n].profile)
        \/ stored' = stored
    BY <1>3, TrimFacts DEF stored
  <2>6. Newest(Limit, Of(p, inserted)) \cap Excess(record[n].profile) = {}
    <3>1. CASE record[n].profile = p
      BY <2>4, <3>1 DEF Excess
    <3>2. CASE record[n].profile # p
      BY <2>3, <3>2 DEF Excess, Of
    <3> QED
      BY <3>1, <3>2
  <2>7. Of(p, stored) \subseteq stored
    BY DEF Of
  <2> QED
    BY <2>2, <2>3, <2>5, <2>6, <2>7
<1>4. CASE ~Records
  <2>1. /\ UNCHANGED <<record, inserted>> /\ pruned \subseteq pruned'
        /\ \A m \in stored \ stored' : record[m].profile \in pruned'
    BY <1>4, RequestsTake DEF Takes
  <2>2. Newest(Limit, Of(p, inserted))' = Newest(Limit, Of(p, inserted))
    BY <2>1 DEF Of, Newest
  <2>3. Newest(Limit, Of(p, inserted)) \subseteq stored
    BY <2>1 DEF KeptInv
  <2>4. \A m \in Newest(Limit, Of(p, inserted)) : record[m].profile = p
    BY DEF Newest, Of
  <2> QED
    BY <2>1, <2>2, <2>3, <2>4
<1> QED
  BY <1>1, <1>2, <1>3, <1>4 DEF Records

-----------------------------------------------------------------------------
(* The panel and the database.                                             *)

\* Newer rows do not get fewer.
LEMMA SupersededStays ==
  ASSUME FormInv, inserted \subseteq inserted', inserted' \subseteq Row,
         \A n \in 1..recorded : record'[n].profile = record[n].profile,
         NEW n \in inserted, Superseded(n)
  PROVE  Superseded(n)'
<1> DEFINE S == {m \in Of(record[n].profile, inserted) : m > n}
           T == {m \in Of(record[n].profile, inserted)' : m > n}
<1>1. record'[n].profile = record[n].profile
  BY StoredAreRows
<1>2. S \subseteq T /\ T \subseteq Row
  BY <1>1, StoredAreRows DEF Of
<1>3. Cardinality(S) >= Limit
  BY DEF Superseded
<1>4. Superseded(n)' <=> Cardinality(T) >= Limit
  BY <1>1 DEF Superseded, Of
<1> HIDE DEF S, T
<1>5. Cardinality(S) \in Nat /\ Cardinality(T) \in Nat /\ Cardinality(S) <= Cardinality(T)
  BY <1>2, CountGrows
<1> QED
  BY <1>3, <1>4, <1>5, HistoryAssumption

\* What is trimmed away has been superseded.
LEMMA ExcessIsSuperseded ==
  ASSUME FormInv, NEW p, NEW n \in Excess(p)
  PROVE  n \in inserted /\ Superseded(n)
<1>1. n \in Of(p, stored) /\ n \notin Newest(Limit, Of(p, stored))
  BY DEF Excess
<1>2. n \in inserted /\ record[n].profile = p
  BY <1>1, StoredAreRows DEF Of
<1> DEFINE S == {m \in Of(p, stored) : m > n}
           T == {m \in Of(p, inserted) : m > n}
<1>3. ~(Cardinality(S) < Limit)
  BY <1>1 DEF Newest
<1>4. S \subseteq T /\ T \subseteq Row
  BY StoredAreRows DEF Of
<1>5. Superseded(n) <=> Cardinality(T) >= Limit
  BY <1>2 DEF Superseded
<1> HIDE DEF S, T
<1>6. Cardinality(S) \in Nat /\ Cardinality(T) \in Nat /\ Cardinality(S) <= Cardinality(T)
  BY <1>4, CountGrows
<1> QED
  BY <1>2, <1>3, <1>5, <1>6, HistoryAssumption

\* What records do to the rows that there were.
LEMMA RecordsKeepRows ==
  ASSUME FormInv, Records, NEW n \in inserted
  PROVE  /\ n \in stored' => n \in stored /\ rows'[n] = rows[n]
         /\ n \in stored \ stored' => Superseded(n)'
         /\ Superseded(n) => Superseded(n)'
<1>0. inserted' \subseteq Row
  <2>1. FormInv'
    BY RecordsForm
  <2>2. /\ recorded' \in 0..MaxRecords /\ MaxRecords \in Nat
        /\ inserted' \subseteq 1..recorded'
    BY <2>1, HistoryAssumption DEF FormInv, TypeOK
  <2> QED
    BY <2>2 DEF Row
<1>1. /\ inserted \subseteq inserted'
      /\ \A m \in 1..recorded : record'[m].profile = record[m].profile
  <2>1. CASE recordOutcomeBatch
    BY <2>1, BatchFacts DEF recordOutcomeBatch
  <2>2. ASSUME NEW m \in Row, record_history(m)
        PROVE  /\ inserted \subseteq inserted'
               /\ \A k \in 1..recorded : record'[k].profile = record[k].profile
    BY <2>2, InsertFacts
  <2>3. ASSUME NEW m \in Row, trim_history(m)
        PROVE  /\ inserted \subseteq inserted'
               /\ \A k \in 1..recorded : record'[k].profile = record[k].profile
    BY <2>3, TrimFacts DEF trim_history
  <2> QED
    BY <2>1, <2>2, <2>3 DEF Records
<1>2. Superseded(n) => Superseded(n)'
  BY <1>0, <1>1, SupersededStays
<1>3. CASE recordOutcomeBatch
  BY <1>2, <1>3 DEF recordOutcomeBatch, stored
<1>4. ASSUME NEW m \in Row, record_history(m)
      PROVE  /\ n \in stored' => n \in stored /\ rows'[n] = rows[n]
             /\ n \in stored \ stored' => Superseded(n)'
  <2>0. m \notin inserted
    BY <1>4, InsertFacts
  <2>1. CASE rows' = rows
    BY <2>1 DEF stored
  <2>2. CASE stored' = stored \cup {m} /\ \A k \in stored : rows'[k] = rows[k]
    BY <2>0, <2>2
  <2> QED
    BY <1>4, <2>1, <2>2, InsertFacts
<1>5. ASSUME NEW m \in Row, trim_history(m)
      PROVE  /\ n \in stored' => n \in stored /\ rows'[n] = rows[n]
             /\ n \in stored \ stored' => Superseded(n)'
  <2>1. CASE rows' = rows
    BY <2>1 DEF stored
  <2>2. CASE /\ stored' = stored \ Excess(record[m].profile)
             /\ \A k \in stored' : rows'[k] = rows[k]
    <3>1. n \in Excess(record[m].profile) => Superseded(n)
      BY ExcessIsSuperseded
    <3> QED
      BY <1>2, <2>2, <3>1
  <2> QED
    BY <1>5, <2>1, <2>2, TrimFacts
<1>6. /\ n \in stored' => n \in stored /\ rows'[n] = rows[n]
      /\ n \in stored \ stored' => Superseded(n)'
  BY <1>3, <1>4, <1>5 DEF Records
<1> QED
  BY <1>2, <1>6

-----------------------------------------------------------------------------
(* The panel agrees with the database.                                     *)

\* What has come of a row does not hang on the panel or on its requests.
LEMMA SupersededSame ==
  ASSUME UNCHANGED <<record, inserted>>, NEW n
  PROVE  Superseded(n)' <=> Superseded(n)
  BY DEF Superseded, Of

\* Records overtake no answer: a row they take away has been superseded.
LEMMA RecordsAgree ==
  ASSUME FormInv, AgreeInv, Records, UNCHANGED <<panel, request>>
  PROVE  AgreeInv'
<1>1. ASSUME NEW n \in inserted, NEW l, Agrees(n, l)
      PROVE  Agrees(n, l)'
  BY <1>1, RecordsKeepRows DEF Agrees
<1>2. ASSUME NEW n \in inserted, Awaited(n), NEW l
      PROVE  Agrees(n, l)' \/ Awaited(n)'
  <2>1. PICK r \in Request : Waits(n, r)
    BY <1>2 DEF Awaited
  <2>2. CASE n \in stored \ stored'
    BY <2>2, RecordsKeepRows DEF Agrees
  <2>3. CASE n \in stored <=> n \in stored'
    <3>1. Waits(n, r)'
      BY <2>1, <2>3 DEF Waits, Done
    <3> QED
      BY <3>1 DEF Awaited
  <2> QED
    BY <2>2, <2>3, RecordsKeepRows
<1>3. shown \subseteq inserted
  BY FormParts DEF PanelForm
<1>4. \A r \in Request : DOMAIN request[r].answer \subseteq inserted
                         /\ request[r].ids \subseteq inserted
  BY RequestKnown
<1>5. FlightsApart'
  BY DEF AgreeInv, FlightsApart, Flying
<1>6. PanelWill'
  BY <1>1, <1>2, <1>3 DEF AgreeInv, PanelWill, shown
<1>7. ListsAgree'
  BY <1>1, <1>4 DEF AgreeInv, ListsAgree, Done
<1>8. LabelsStored'
  BY <1>4, RecordsKeepRows DEF AgreeInv, LabelsStored, Done
<1> QED
  BY <1>5, <1>6, <1>7, <1>8 DEF AgreeInv

\* One request's step leaves the others as they fly.
LEMMA FlightsStay ==
  ASSUME FlightsApart, NEW r \in Request, Turns(r),
         request'[r].kind # "none" =>
            request'[r].kind = request[r].kind /\ request'[r].ids = request[r].ids
  PROVE  FlightsApart'
  BY DEF FlightsApart, Flying, Turns

LEMMA OthersDone ==
  ASSUME NEW r \in Request, Turns(r), NEW q \in Request, q # r
  PROVE  /\ request'[q] = request[q]
         /\ \A kind : Done(q, kind)' <=> Done(q, kind)
  BY DEF Turns, Done

LEMMA OthersWait ==
  ASSUME NEW r \in Request, Turns(r), NEW q \in Request, q # r,
         NEW n, n \in stored' <=> n \in stored
  PROVE  Waits(n, q)' <=> Waits(n, q)
  BY OthersDone DEF Waits

\* A request whose effect is not done, neither before its step nor after.
LEMMA IdlesAgree ==
  ASSUME AgreeInv, FlightsApart', NEW r \in Request, Turns(r),
         request[r].kind = "none" \/ request[r].step # "ok",
         request'[r].step # "ok",
         UNCHANGED <<record, rows, panel, inserted>>
  PROVE  AgreeInv'
<1>0. stored' = stored /\ shown' = shown
  BY DEF stored, shown
<1>1. \A n, l : Agrees(n, l)' <=> Agrees(n, l)
  BY <1>0, SupersededSame DEF Agrees
<1>2. /\ ~Done(r, "list") /\ ~Done(r, "clear") /\ ~Done(r, "remove") /\ ~Done(r, "label")
      /\ \A kind : ~Done(r, kind)'
  BY DEF Done
<1>3. \A n : ~Waits(n, r)
  BY <1>2 DEF Waits
<1>4. \A n : Awaited(n) => Awaited(n)'
  BY <1>0, <1>3, OthersWait DEF Awaited
<1>5. PanelWill'
  BY <1>0, <1>1, <1>4 DEF AgreeInv, PanelWill
<1>6. ListsAgree'
  BY <1>1, <1>2, OthersDone DEF AgreeInv, ListsAgree
<1>7. LabelsStored'
  BY <1>0, <1>2, OthersDone DEF AgreeInv, LabelsStored
<1> QED
  BY <1>5, <1>6, <1>7 DEF AgreeInv

\* A request that does not conflict flies apart from the others.
LEMMA SendsAgree ==
  ASSUME FormInv, AgreeInv, NEW r \in Request,
         NEW kind \in {"list", "clear", "remove", "label"},
         NEW p \in Profile \cup {NoProfile}, NEW ids \in SUBSET inserted, NEW l \in Typed,
         Sends(r, kind, p, ids, l), ~astray'
  PROVE  AgreeInv'
<1>2. ids \in SUBSET Row
  BY StoredAreRows
<1>3. /\ Turns(r) /\ request[r].kind = "none"
      /\ request'[r].kind = kind /\ request'[r].step = "sent" /\ request'[r].ids = ids
  BY <1>2, SendsFacts
<1>4. UNCHANGED <<record, rows, panel, inserted>>
  BY DEF Sends
<1>5. ~Conflicts(kind, ids)
  BY DEF Sends
<1>6. \A q \in Request \ {r} :
        /\ request'[q] = request[q]
        /\ request[q].kind # "none" =>
              /\ kind # "list" /\ request[q].kind # "list"
              /\ kind = "label" /\ request[q].kind = "label" => request[q].ids # ids
  BY <1>3, <1>5 DEF Conflicts, Flying, Turns
<1>7. FlightsApart'
  <2> SUFFICES ASSUME NEW a \in Request, NEW b \in Request, a # b,
                      request'[a].kind # "none", request'[b].kind # "none"
               PROVE  /\ request'[a].kind # "list"
                      /\ request'[a].kind = "label" /\ request'[b].kind = "label" =>
                            request'[a].ids # request'[b].ids
    BY DEF FlightsApart, Flying
  <2>1. CASE a = r
    BY <1>3, <1>6, <2>1
  <2>2. CASE b = r
    BY <1>3, <1>6, <2>2
  <2>3. CASE a # r /\ b # r
    BY <1>6, <2>3 DEF AgreeInv, FlightsApart, Flying
  <2> QED
    BY <2>1, <2>2, <2>3
<1> QED
  BY <1>3, <1>4, <1>7, IdlesAgree

LEMMA OpensAgree ==
  ASSUME FormInv, AgreeInv, NEW r \in Request, Opens(r), ~astray'
  PROVE  AgreeInv'
<1>1. PICK kind \in {"list", "clear", "remove", "label"}, p \in Profile \cup {NoProfile},
           ids \in SUBSET inserted, l \in Typed : Sends(r, kind, p, ids, l)
  BY OpensFacts
<1> QED
  BY <1>1, SendsAgree

\* A list has the labels of the database.
LEMMA ListAgrees ==
  ASSUME FormInv, AgreeInv, NEW r \in Request, list_history(r), ~astray'
  PROVE  AgreeInv'
<1>1. /\ Keeps(r) /\ Turns(r) /\ request[r].kind = "list" /\ request'[r].kind = "list"
      /\ DOMAIN request'[r].answer \subseteq stored
      /\ \A n \in DOMAIN request'[r].answer : request'[r].answer[n] = rows[n]
      /\ UNCHANGED <<record, rows, panel, inserted>>
  BY ListFacts DEF Keeps
<1>2. stored' = stored /\ shown' = shown
  BY <1>1 DEF stored, shown
<1>3. \A n, l : Agrees(n, l)' <=> Agrees(n, l)
  BY <1>1, <1>2, SupersededSame DEF Agrees
<1>4. \A n : ~Waits(n, r)
  BY <1>1 DEF Waits, Done
<1>5. \A n : Awaited(n) => Awaited(n)'
  BY <1>1, <1>2, <1>4, OthersWait DEF Awaited
<1>6. FlightsApart'
  BY <1>1, FlightsStay DEF AgreeInv, Keeps
<1>7. PanelWill'
  BY <1>2, <1>3, <1>5, <1>1 DEF AgreeInv, PanelWill
<1>8. ListsAgree'
  <2>1. \A n \in DOMAIN request'[r].answer : Agrees(n, request'[r].answer[n])
    BY <1>1 DEF Agrees
  <2> QED
    BY <1>1, <1>3, <2>1, OthersDone DEF AgreeInv, ListsAgree
<1>9. LabelsStored'
  BY <1>1, <1>2, OthersDone DEF AgreeInv, LabelsStored, Done
<1> QED
  BY <1>6, <1>7, <1>8, <1>9 DEF AgreeInv

\* A row that is removed waits for the answer.
LEMMA RemovesAgree ==
  ASSUME FormInv, AgreeInv, NEW r \in Request, NEW S, Removes(r, S), ~astray',
         \/ request[r].kind = "clear"
         \/ request[r].kind = "remove" /\ S = request[r].ids
  PROVE  AgreeInv'
<1>1. /\ Keeps(r) /\ Turns(r) /\ request'[r].step = "ok"
      /\ request'[r].kind = request[r].kind /\ request'[r].ids = request[r].ids
      /\ stored' = stored \ S /\ \A n \in stored' : rows'[n] = rows[n]
      /\ UNCHANGED <<record, panel, inserted>>
  BY RemovesFacts DEF Keeps
<1>2. \A n \in stored \cap S : Waits(n, r)'
  BY <1>1 DEF Waits, Done
<1>3. ASSUME NEW n, n \notin stored \cap S
      PROVE  /\ n \in stored' <=> n \in stored
             /\ \A l : Agrees(n, l)' <=> Agrees(n, l)
             /\ Awaited(n) => Awaited(n)'
  <2>1. n \in stored' <=> n \in stored
    BY <1>1, <1>3
  <2>2. \A l : Agrees(n, l)' <=> Agrees(n, l)
    BY <1>1, <2>1, SupersededSame DEF Agrees
  <2>3. Waits(n, r) => Waits(n, r)'
    BY <1>1, <2>1 DEF Waits, Done
  <2>4. Awaited(n) => Awaited(n)'
    BY <1>1, <2>1, <2>3, OthersWait DEF Awaited
  <2> QED
    BY <2>1, <2>2, <2>4
<1>4. FlightsApart'
  BY <1>1, FlightsStay DEF AgreeInv
<1>5. PanelWill'
  <2>1. ASSUME NEW n \in shown PROVE Agrees(n, panel[n])' \/ Awaited(n)'
    <3>1. CASE n \in stored \cap S
      BY <1>2, <3>1 DEF Awaited
    <3>2. CASE n \notin stored \cap S
      BY <1>1, <1>3, <3>2 DEF AgreeInv, PanelWill
    <3> QED
      BY <3>1, <3>2
  <2> QED
    BY <1>1, <2>1 DEF PanelWill, shown
<1>6. ListsAgree'
  <2>1. ASSUME NEW q \in Request PROVE ~Done(q, "list")'
    BY <1>1, OthersDone DEF AgreeInv, FlightsApart, Flying, Done
  <2> QED
    BY <2>1 DEF ListsAgree
<1>7. LabelsStored'
  <2>1. ASSUME NEW q \in Request, Done(q, "label")' PROVE q # r /\ Done(q, "label")
    BY <1>1, <2>1, OthersDone DEF Done
  <2> QED
    BY <1>1, <2>1, OthersDone DEF AgreeInv, LabelsStored
<1> QED
  BY <1>4, <1>5, <1>6, <1>7 DEF AgreeInv

\* So does a row that is labelled; no other label of it is under way.
LEMMA LabelAgrees ==
  ASSUME FormInv, AgreeInv, NEW r \in Request, set_history_label(r), ~astray'
  PROVE  AgreeInv'
<1>1. /\ Keeps(r) /\ Turns(r) /\ request[r].kind = "label" /\ request'[r].step = "ok"
      /\ request'[r].kind = request[r].kind /\ request'[r].ids = request[r].ids
      /\ request'[r].label = request[r].label
      /\ stored' = stored
      /\ \A n \in stored : rows'[n] = IF n \in request[r].ids
                                       THEN Normalized(request[r].label) ELSE rows[n]
      /\ UNCHANGED <<record, panel, inserted>>
  BY LabelFacts DEF Keeps
<1>2. \A n \in stored \cap request[r].ids : Waits(n, r)'
  BY <1>1 DEF Waits, Done
<1>3. ASSUME NEW n, n \notin stored \cap request[r].ids
      PROVE  /\ \A l : Agrees(n, l)' <=> Agrees(n, l)
             /\ Awaited(n) => Awaited(n)'
  <2>1. \A l : Agrees(n, l)' <=> Agrees(n, l)
    BY <1>1, <1>3, SupersededSame DEF Agrees
  <2>2. ~Waits(n, r)
    BY <1>1, <1>3 DEF Waits, Done
  <2>3. Awaited(n) => Awaited(n)'
    BY <1>1, <2>2, OthersWait DEF Awaited
  <2> QED
    BY <2>1, <2>3
<1>4. FlightsApart'
  BY <1>1, FlightsStay DEF AgreeInv
<1>5. PanelWill'
  <2>1. ASSUME NEW n \in shown PROVE Agrees(n, panel[n])' \/ Awaited(n)'
    <3>1. CASE n \in stored \cap request[r].ids
      BY <1>2, <3>1 DEF Awaited
    <3>2. CASE n \notin stored \cap request[r].ids
      BY <1>1, <1>3, <3>2 DEF AgreeInv, PanelWill
    <3> QED
      BY <3>1, <3>2
  <2> QED
    BY <1>1, <2>1 DEF PanelWill, shown
<1>6. ListsAgree'
  <2>1. ASSUME NEW q \in Request PROVE ~Done(q, "list")'
    BY <1>1, OthersDone DEF AgreeInv, FlightsApart, Flying, Done
  <2> QED
    BY <2>1 DEF ListsAgree
<1>7. LabelsStored'
  <2> SUFFICES ASSUME NEW q \in Request, Done(q, "label")',
                      NEW n \in stored, n \in request'[q].ids
               PROVE  rows'[n] = Normalized(request'[q].label)
    BY <1>1 DEF LabelsStored
  <2>1. CASE q = r
    BY <1>1, <2>1
  <2>2. CASE q # r
    <3>1. request'[q] = request[q] /\ Done(q, "label")
      BY <1>1, <2>2, OthersDone
    <3>2. request[q].ids # request[r].ids
      BY <1>1, <2>2, <3>1 DEF AgreeInv, FlightsApart, Flying, Done
    <3>3. PICK a : request[q].ids = {a}
      BY <3>1 DEF FormInv, Done
    <3>4. PICK b : request[r].ids = {b}
      BY <1>1 DEF FormInv
    <3>5. n \notin request[r].ids
      BY <3>1, <3>2, <3>3, <3>4
    <3> QED
      BY <1>1, <3>1, <3>5 DEF AgreeInv, LabelsStored
  <2> QED
    BY <2>1, <2>2
<1> QED
  BY <1>4, <1>5, <1>6, <1>7 DEF AgreeInv

\* With the answer the rows that waited for it agree.
LEMMA ReturnAgrees ==
  ASSUME FormInv, AgreeInv, NEW r \in Request, Returns(r)
  PROVE  AgreeInv'
<1>1. /\ Turns(r) /\ request'[r].kind = "none"
      /\ request[r].kind \in {"list", "clear", "remove", "label"}
      /\ UNCHANGED <<record, rows, inserted>>
  BY ReturnsFacts, IdleKnown, RequestKnown DEF Returns
<1>2. stored' = stored
  BY <1>1 DEF stored
<1>3. \A n, l : Agrees(n, l)' <=> Agrees(n, l)
  BY <1>1, <1>2, SupersededSame DEF Agrees
<1>4. \A n : Awaited(n) /\ ~Waits(n, r) => Awaited(n)'
  BY <1>1, <1>2, OthersWait DEF Awaited
<1>5. FlightsApart'
  BY <1>1, FlightsStay DEF AgreeInv
<1>6. ListsAgree'
  BY <1>1, <1>3, OthersDone DEF AgreeInv, ListsAgree, Done
<1>7. LabelsStored'
  BY <1>1, <1>2, OthersDone DEF AgreeInv, LabelsStored, Done
<1>8. PanelWill'
  <2>1. CASE shown' = {}
    BY <2>1 DEF PanelWill
  <2>2. CASE request[r].step # "ok" /\ panel' = panel
    <3>1. \A n : ~Waits(n, r)
      BY <2>2 DEF Waits, Done
    <3> QED
      BY <1>3, <1>4, <2>2, <3>1 DEF AgreeInv, PanelWill, shown
  <2>3. CASE request[r].step = "ok" /\ request[r].kind = "list"
    <3>1. panel' = request[r].answer /\ Done(r, "list")
      BY <2>3, PanelFacts DEF Done
    <3> QED
      BY <1>3, <3>1 DEF AgreeInv, ListsAgree, PanelWill, shown
  <2>4. CASE request[r].step = "ok" /\ request[r].kind = "remove"
    <3>1. shown' = shown \ request[r].ids /\ \A n \in shown' : panel'[n] = panel[n]
      BY <2>4, PanelFacts
    <3>2. \A n \in shown' : ~Waits(n, r)
      BY <2>4, <3>1 DEF Waits, Done
    <3> QED
      BY <1>3, <1>4, <3>1, <3>2 DEF AgreeInv, PanelWill
  <2>5. CASE request[r].step = "ok" /\ request[r].kind = "label"
    <3>1. /\ shown' = shown
          /\ \A n \in shown : panel'[n] = IF n \in request[r].ids
                                          THEN Normalized(request[r].label) ELSE panel[n]
      BY <2>5, PanelFacts
    <3>2. ASSUME NEW n \in shown, n \in stored \cap request[r].ids
          PROVE  Agrees(n, panel'[n])
      BY <2>5, <3>1, <3>2 DEF AgreeInv, LabelsStored, Agrees, Done
    <3>3. ASSUME NEW n \in shown, n \notin stored \cap request[r].ids
          PROVE  Agrees(n, panel'[n]) \/ Awaited(n)'
      <4>1. ~Waits(n, r)
        BY <2>5, <3>3 DEF Waits, Done
      <4>2. Agrees(n, panel[n]) => Agrees(n, panel'[n])
        BY <3>1, <3>3 DEF Agrees
      <4> QED
        BY <1>4, <4>1, <4>2 DEF AgreeInv, PanelWill
    <3> QED
      BY <1>3, <3>1, <3>2, <3>3 DEF PanelWill
  <2>6. panel' = Nothing => shown' = {}
    BY NothingKnown DEF shown
  <2> QED
    BY <1>1, <2>1, <2>2, <2>3, <2>4, <2>5, <2>6, PanelFacts
<1> QED
  BY <1>5, <1>6, <1>7, <1>8 DEF AgreeInv

LEMMA AgreeStep ==
  ASSUME FormInv, ~astray => AgreeInv, [Next]_vars
  PROVE  ~astray' => AgreeInv'
<1> SUFFICES ASSUME ~astray' PROVE AgreeInv'
  OBVIOUS
<1>1. CASE Records
  <2>1. UNCHANGED <<panel, request, astray>>
    BY <1>1 DEF Records, recordOutcomeBatch, record_history, trim_history
  <2> QED
    BY <1>1, <2>1, RecordsAgree
<1>2. ASSUME NEW r \in Request, Opens(r) PROVE AgreeInv'
  <2>1. ~astray
    BY <1>2, OpensFacts DEF Sends
  <2> QED
    BY <1>2, <2>1, OpensAgree
<1>3. ASSUME NEW r \in Request, list_history(r) PROVE AgreeInv'
  <2>1. ~astray
    BY <1>3 DEF list_history, Answers
  <2> QED
    BY <1>3, <2>1, ListAgrees
<1>4. ASSUME NEW r \in Request, clear_history(r) \/ delete_history_many(r) PROVE AgreeInv'
  <2>1. ~astray
    BY <1>4 DEF clear_history, delete_history_many, Removes, Answers
  <2> QED
    BY <1>4, <2>1, RemovesAgree DEF clear_history, delete_history_many, Sent
<1>5. ASSUME NEW r \in Request, set_history_label(r) PROVE AgreeInv'
  <2>1. ~astray
    BY <1>5 DEF set_history_label, Answers
  <2> QED
    BY <1>5, <2>1, LabelAgrees
<1>6. ASSUME NEW r \in Request, Refused(r) PROVE AgreeInv'
  <2>1. /\ UNCHANGED <<record, rows, panel, inserted, astray>>
        /\ Keeps(r) /\ Turns(r) /\ request[r].step = "sent" /\ request'[r].step = "failed"
    BY <1>6, RefusedFacts DEF Refused, Keeps
  <2>2. FlightsApart'
    BY <2>1, FlightsStay DEF AgreeInv, Keeps
  <2> QED
    BY <2>1, <2>2, IdlesAgree
<1>7. ASSUME NEW r \in Request, Returns(r) PROVE AgreeInv'
  <2>1. ~astray
    BY <1>7 DEF Returns
  <2> QED
    BY <1>7, <2>1, ReturnAgrees
<1>8. CASE UNCHANGED vars
  <2>1. UNCHANGED <<record, rows, panel, request, inserted, astray>>
    BY <1>8 DEF vars
  <2> QED
    BY <2>1 DEF AgreeInv, FlightsApart, Flying, PanelWill, ListsAgree, LabelsStored,
                Agrees, Awaited, Waits, Done, Superseded, Of, stored, shown
<1> QED
  BY <1>1, <1>2, <1>3, <1>4, <1>5, <1>6, <1>7, <1>8, NextCases

-----------------------------------------------------------------------------
(* The theorems.                                                           *)

LEMMA Initially == Init => IInv
<1> SUFFICES ASSUME Init PROVE IInv
  OBVIOUS
<1>1. /\ recorded = 0 /\ rows = Nothing /\ panel = Nothing /\ inserted = {}
      /\ untrimmed = {} /\ pruned = {} /\ astray = FALSE
      /\ \A n \in Row : record[n] = [profile |-> NoProfile, step |-> "unused"]
      /\ \A r \in Request : request[r] = Idle
  BY DEF Init
<1>2. stored = {} /\ shown = {}
  BY <1>1, NothingKnown DEF stored, shown
<1>3. FormInv
  <2>1. record \in [Row -> Record]
    BY DEF Init, Record
  <2>2. request \in [Request -> Asked]
    BY IdleKnown DEF Init
  <2>3. recorded \in 0..MaxRecords
    BY <1>1, HistoryAssumption
  <2>4. \A n \in Row : record[n].step = "unused" <=> n > recorded
    BY <1>1 DEF Row
  <2>5. rows \in Labels(stored) /\ panel \in Labels(shown)
    BY <1>1, <1>2, NothingKnown
  <2>6. TypeOK
    BY <1>1, <1>2, <2>1, <2>2, <2>3, <2>4, <2>5 DEF TypeOK
  <2>7. \A n \in Row :
          /\ record[n].step # "unused" => record[n].profile \in Profile
          /\ record[n].step \in {"insert", "insertOnly"} => n \notin inserted
    BY <1>1
  <2>8. \A r \in Request :
          /\ DOMAIN request[r].answer \subseteq inserted
          /\ request[r].ids \subseteq inserted
          /\ request[r].kind = "label" => \E n \in inserted : request[r].ids = {n}
    BY <1>1, IdleKnown, NothingKnown
  <2> QED
    BY <2>6, <2>7, <2>8 DEF FormInv
<1>4. RetentionHolds
  <2>1. \A p : Of(p, stored) = {}
    BY <1>2 DEF Of
  <2> QED
    BY <2>1, FS_EmptySet, HistoryAssumption DEF RetentionHolds
<1>5. KeptInv
  BY <1>1 DEF KeptInv, Newest, Of
<1>6. AgreeInv
  BY <1>1, <1>2, IdleKnown
     DEF AgreeInv, FlightsApart, Flying, PanelWill, ListsAgree, LabelsStored, Done
<1> QED
  BY <1>3, <1>4, <1>5, <1>6 DEF IInv

LEMMA Invariance == Spec => []IInv
<1>1. IInv /\ [Next]_vars => IInv'
  BY FormStep, RetentionStep, KeptStep, AgreeStep DEF IInv
<1> QED
  BY Initially, <1>1, PTL DEF Spec

\* The types: rows and the panel carry labels of rows that were stored, and
\* those are rows of records that the execute route has made.
THEOREM TypeCorrect == Spec => []TypeOK
<1>1. IInv => TypeOK
  BY DEF IInv, FormInv
<1> QED
  BY Invariance, <1>1, PTL

\* However the inserts and trims of concurrent statements come between each
\* other and the user's removals, a profile of which the last insert was
\* trimmed after keeps no more rows than the cap.
THEOREM CapIsKept == Spec => []RetentionHolds
<1>1. IInv => RetentionHolds
  BY DEF IInv
<1> QED
  BY Invariance, <1>1, PTL

\* Then the rows of a profile of which the user removed none are the newest
\* that were ever stored for it, even where one insert overtook another.
THEOREM CapKeepsNewest == Spec => []NewestAreKept
<1>1. IInv => NewestAreKept
  <2> SUFFICES ASSUME IInv, NEW p \in Profile, Settled(p), p \notin pruned
               PROVE  Of(p, stored) = Newest(Limit, Of(p, inserted))
    BY DEF NewestAreKept
  <2> DEFINE U == Of(p, inserted)
             W == Of(p, stored)
  <2>1. FormInv /\ Cardinality(W) <= Limit /\ Newest(Limit, U) \subseteq stored
    BY DEF IInv, RetentionHolds, KeptInv
  <2>2. U \subseteq Row /\ W \subseteq U
    BY <2>1, StoredAreRows DEF Of
  <2>3. Newest(Limit, U) \subseteq W
    BY <2>1 DEF Newest, Of
  <2>4. Limit \in Nat
    BY HistoryAssumption
  <2> HIDE DEF U, W
  <2>5. W = Newest(Limit, U)
    BY <2>1, <2>2, <2>3, <2>4, KeptIsNewest
  <2> QED
    BY <2>5 DEF U, W
<1> QED
  BY Invariance, <1>1, PTL

\* Unless two labels of one row, or a list and another request, were under way
\* together or an answer was lost, the panel agrees with the database when no
\* request of it is in flight.
THEOREM PanelAgreement == Spec => []PanelAgrees
<1>1. IInv => PanelAgrees
  <2> SUFFICES ASSUME IInv, ~astray, Flying = {}
               PROVE  \A n \in shown : Agrees(n, panel[n])
    BY DEF PanelAgrees, Agrees, Superseded
  <2>1. \A n : ~Awaited(n)
    BY DEF Flying, Awaited, Waits, Done
  <2> QED
    BY <2>1 DEF IInv, AgreeInv, PanelWill
<1> QED
  BY Invariance, <1>1, PTL

=============================================================================
