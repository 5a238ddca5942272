------------------------------- MODULE History -------------------------------
(***************************************************************************)
(* The per-profile query history: rows in the metadata database, written   *)
(* by the execute route without waiting for them, and read, labelled and   *)
(* removed through the history panel of the page.                          *)
(*                                                                         *)
(* A record is an insert followed by a trim, two awaits of one native call *)
(* that any other statement may come between.  Records are numbered in the *)
(* order of their executedAt, which the route takes before it calls; the   *)
(* order in which they are inserted is another.  A row keeps its number as *)
(* its id.  The statements of the metadata store are external and atomic:  *)
(* list answers the newest rows first and trim keeps the newest, by        *)
(* executedAt.                                                             *)
(***************************************************************************)
EXTENDS Naturals, FiniteSets

CONSTANTS
    Profile,    \* the keys history is kept under
    NoProfile,  \* the key of a record or a request that is not there
    Request,    \* requests of the panel that may be in flight together
    Limit,      \* the retention cap of the preferences
    ListLimit,  \* the most rows the panel asks for
    MaxRecords  \* bound: statements recorded

ASSUME HistoryAssumption ==
    /\ Limit \in Nat \ {0}
    /\ ListLimit \in Nat \ {0}
    /\ MaxRecords \in Nat
    /\ NoProfile \notin Profile

VARIABLES
    record,     \* what each numbered record is about to do, and for whom
    recorded,   \* how many have been numbered
    rows,       \* the labels of the rows stored
    panel,      \* historyEntries of the page: the labels of the rows shown
    request,    \* what each request of the panel is awaiting
    inserted,   \* history: rows that were ever stored
    untrimmed,  \* history: profiles whose last insert was not trimmed after
    pruned,     \* history: profiles the user removed rows of
    astray      \* history: requests conflicted, or an answer was lost

vars == <<record, recorded, rows, panel, request,
          inserted, untrimmed, pruned, astray>>

Row == 1..MaxRecords

\* A label as it is typed: absent or nothing but spaces, or some text.
Typed == {"blank", "text"}

Labels(S) == [S -> {"none", "text"}]

Record == [profile : Profile \cup {NoProfile},
           step    : {"unused", "insert", "insertOnly", "trim", "done"}]

Asked == [kind    : {"none", "list", "clear", "remove", "label"},
          step    : {"sent", "ok", "failed"},
          profile : Profile \cup {NoProfile},
          ids     : SUBSET Row,
          label   : Typed,
          answer  : UNION {Labels(S) : S \in SUBSET Row}]

Nothing == [n \in {} |-> "none"]

Idle == [kind |-> "none", step |-> "sent", profile |-> NoProfile, ids |-> {},
         label |-> "blank", answer |-> Nothing]

stored == DOMAIN rows
shown == DOMAIN panel

TypeOK ==
    /\ record \in [Row -> Record]
    /\ recorded \in 0..MaxRecords
    /\ \A n \in Row : record[n].step = "unused" <=> n > recorded
    /\ inserted \subseteq 1..recorded
    /\ stored \subseteq inserted /\ rows \in Labels(stored)
    /\ shown \subseteq inserted /\ panel \in Labels(shown)
    /\ request \in [Request -> Asked]
    /\ untrimmed \subseteq Profile /\ pruned \subseteq Profile
    /\ astray \in BOOLEAN

Init ==
    /\ record = [n \in Row |-> [profile |-> NoProfile, step |-> "unused"]]
    /\ recorded = 0
    /\ rows = Nothing /\ panel = Nothing
    /\ request = [r \in Request |-> Idle]
    /\ inserted = {} /\ untrimmed = {} /\ pruned = {}
    /\ astray = FALSE

Only(f, S) == [n \in DOMAIN f \cap S |-> f[n]]
Without(f, S) == [n \in DOMAIN f \ S |-> f[n]]
Labelled(f, S, l) == [n \in DOMAIN f |-> IF n \in S THEN l ELSE f[n]]

Of(p, S) == {n \in S : record[n].profile = p}

\* The k newest of S.
Newest(k, S) == {n \in S : Cardinality({m \in S : m > n}) < k}

-----------------------------------------------------------------------------
(* Recording, behind the back of the execute route.                        *)

\* A batch that named a profile has been executed, or has failed; its cap
\* is null when the user keeps everything.
recordOutcomeBatch ==
    /\ recorded < MaxRecords
    /\ recorded' = recorded + 1
    /\ \E p \in Profile, step \in {"insert", "insertOnly"} :
          record' = [record EXCEPT ![recorded + 1] =
                        [profile |-> p, step |-> step]]
    /\ UNCHANGED <<rows, panel, request, inserted, untrimmed, pruned,
                   astray>>

\* Stored, with a trim to follow if there is a cap; or the insert fails,
\* which is a line in the log.
record_history(n) ==
    /\ record[n].step \in {"insert", "insertOnly"}
    /\ \/ /\ rows' = [m \in stored \cup {n} |->
                        IF m = n THEN "none" ELSE rows[m]]
          /\ inserted' = inserted \cup {n}
          /\ IF record[n].step = "insert"
             THEN /\ record' = [record EXCEPT ![n].step = "trim"]
                  /\ UNCHANGED untrimmed
             ELSE /\ record' = [record EXCEPT ![n].step = "done"]
                  /\ untrimmed' = untrimmed \cup {record[n].profile}
       \/ /\ record' = [record EXCEPT ![n].step = "done"]
          /\ UNCHANGED <<rows, inserted, untrimmed>>
    /\ UNCHANGED <<recorded, panel, request, pruned, astray>>

\* Mutants: the cap is off by one; the oldest are kept.
ExcessBeyondOneMore(p) == Of(p, stored) \ Newest(Limit + 1, Of(p, stored))
ExcessIsNewest(p) ==
    {n \in Of(p, stored) : Cardinality({m \in Of(p, stored) : m < n}) >= Limit}

\* What trim_history takes away: all but the newest.
Excess(p) == Of(p, stored) \ Newest(Limit, Of(p, stored))

\* A failed trim fails nothing else.
trim_history(n) ==
    /\ record[n].step = "trim"
    /\ record' = [record EXCEPT ![n].step = "done"]
    /\ LET p == record[n].profile IN
       \/ /\ rows' = Without(rows, Excess(p))
          /\ untrimmed' = untrimmed \ {p}
       \/ /\ untrimmed' = untrimmed \cup {p}
          /\ UNCHANGED rows
    /\ UNCHANGED <<recorded, panel, request, inserted, pruned, astray>>

-----------------------------------------------------------------------------
(* The panel's requests.                                                   *)

Flying == {r \in Request : request[r].kind # "none"}

\* Requests whose answers cannot be taken in any order: a list and any
\* other, or two labels for one row.
Conflicts(kind, ids) ==
    \E q \in Flying :
        \/ "list" \in {kind, request[q].kind}
        \/ kind = "label" /\ request[q].kind = "label" /\ request[q].ids = ids

Sends(r, kind, p, ids, l) ==
    /\ r \notin Flying
    /\ request' = [request EXCEPT ![r] =
          [Idle EXCEPT !.kind = kind, !.profile = p, !.ids = ids, !.label = l]]
    /\ astray' = (astray \/ Conflicts(kind, ids))
    /\ UNCHANGED <<record, recorded, rows, panel, inserted, untrimmed, pruned>>

\* Either is for the tab that is active at the moment.
openHistory(r) == \E p \in Profile : Sends(r, "list", p, {}, "blank")
clearHistory(r) == \E p \in Profile : Sends(r, "clear", p, {}, "blank")

\* One entry or several.
deleteHistoryEntries(r) ==
    \E ids \in SUBSET shown \ {{}} : Sends(r, "remove", NoProfile, ids, "blank")

setHistoryLabel(r) ==
    \E n \in shown, l \in Typed : Sends(r, "label", NoProfile, {n}, l)

\* Mutant: a label of spaces is stored as typed.
NormalizedToTyped(l) == l

\* What HistoryStore.setLabel stores, and what the page shows: a label of
\* which nothing is left when the spaces are cut is no label.
Normalized(l) == IF l = "text" THEN "text" ELSE "none"

Sent(r, kind) == request[r].kind = kind /\ request[r].step = "sent"

\* The effect is done and the answer is on its way, or lost.
Answers(r, answer) ==
    \/ /\ request' = [request EXCEPT ![r].step = "ok", ![r].answer = answer]
       /\ UNCHANGED astray
    \/ /\ request' = [request EXCEPT ![r].step = "failed"]
       /\ astray' = TRUE

\* The statement fails, without an effect.
Refused(r) ==
    /\ request[r].kind # "none" /\ request[r].step = "sent"
    /\ request' = [request EXCEPT ![r].step = "failed"]
    /\ UNCHANGED <<record, recorded, rows, panel, inserted, untrimmed,
                   pruned, astray>>

list_history(r) ==
    /\ Sent(r, "list")
    /\ LET listed == Newest(ListLimit, Of(request[r].profile, stored))
       IN  Answers(r, Only(rows, listed))
    /\ UNCHANGED <<record, recorded, rows, panel, inserted, untrimmed, pruned>>

\* The rows of S go, for the user.
Removes(r, S) ==
    /\ rows' = Without(rows, S)
    /\ pruned' = pruned \cup {record[n].profile : n \in S \cap stored}
    /\ Answers(r, Nothing)
    /\ UNCHANGED <<record, recorded, panel, inserted, untrimmed>>

clear_history(r) ==
    /\ Sent(r, "clear")
    /\ Removes(r, Of(request[r].profile, stored))

delete_history_many(r) == Sent(r, "remove") /\ Removes(r, request[r].ids)

\* No row with the id is no error.
set_history_label(r) ==
    /\ Sent(r, "label")
    /\ rows' = Labelled(rows, request[r].ids, Normalized(request[r].label))
    /\ Answers(r, Nothing)
    /\ UNCHANGED <<record, recorded, panel, inserted, untrimmed, pruned>>

-----------------------------------------------------------------------------
(* The panel takes the answers.                                            *)

\* Mutant: deleted entries stay.
ShownUnfiltered(q) ==
    CASE q.kind = "list"   -> q.answer
      [] q.kind = "clear"  -> Nothing
      [] q.kind = "remove" -> panel
      [] q.kind = "label"  -> Labelled(panel, q.ids, Normalized(q.label))

\* historyEntries after the answer to q.
Shown(q) ==
    CASE q.kind = "list"   -> q.answer
      [] q.kind = "clear"  -> Nothing
      [] q.kind = "remove" -> Without(panel, q.ids)
      [] q.kind = "label"  -> Labelled(panel, q.ids, Normalized(q.label))

\* A list that fails empties the panel; the others leave it.
Returns(r) ==
    LET q == request[r] IN
    /\ q.kind # "none" /\ q.step # "sent"
    /\ panel' = IF q.step = "ok" THEN Shown(q)
                ELSE IF q.kind = "list" THEN Nothing ELSE panel
    /\ request' = [request EXCEPT ![r] = Idle]
    /\ UNCHANGED <<record, recorded, rows, inserted, untrimmed, pruned,
                   astray>>

-----------------------------------------------------------------------------

Next ==
    \/ recordOutcomeBatch
    \/ \E n \in Row : record_history(n) \/ trim_history(n)
    \/ \E r \in Request :
          \/ openHistory(r) \/ clearHistory(r)
          \/ deleteHistoryEntries(r) \/ setHistoryLabel(r)
          \/ list_history(r) \/ clear_history(r) \/ delete_history_many(r)
          \/ set_history_label(r) \/ Refused(r) \/ Returns(r)

Spec == Init /\ [][Next]_vars

-----------------------------------------------------------------------------
(* Properties.                                                             *)

\* No record of the profile is between its insert and its trim, and the
\* last of them was trimmed after.
Settled(p) ==
    /\ p \notin untrimmed
    /\ \A n \in Of(p, 1..recorded) : record[n].step # "trim"

\* The retention cap is kept, however the inserts and trims of concurrent
\* statements, clears and deletes come between each other.
RetentionHolds ==
    \A p \in Profile : Settled(p) => Cardinality(Of(p, stored)) <= Limit

\* What the cap keeps is the newest: unless the user removed rows, a row
\* that was stored is only gone when as many newer ones as the cap are
\* there, even though inserts overtake each other.
NewestAreKept ==
    \A p \in Profile :
        Settled(p) /\ p \notin pruned =>
            Of(p, stored) = Newest(Limit, Of(p, inserted))

\* Unless two labels of one row, or a list and another request, were under
\* way together or an answer was lost, the panel agrees with the database: a
\* row of both carries the same label, and one that the user removed is not
\* shown, in whichever order removals are answered; a row that the panel
\* shows and the database lacks was trimmed away by newer ones.
PanelAgrees ==
    ~astray /\ Flying = {} =>
        /\ \A n \in shown \cap stored : panel[n] = rows[n]
        /\ \A n \in shown \ stored :
              Cardinality({m \in Of(record[n].profile, inserted) : m > n})
                  >= Limit

=============================================================================
