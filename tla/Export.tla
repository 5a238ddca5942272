------------------------------- MODULE Export -------------------------------
(***************************************************************************)
(* One export: the route that answers it, the native call that runs its    *)
(* statements under a row budget, and the bytes on their way to the page.  *)
(* The native call runs one statement per step, as other requests may come *)
(* between two of them; the route writes the finished text in chunks and   *)
(* waits for the socket's drain event when a write says that the buffer is *)
(* full.  A byte is known by its position in the text.                     *)
(***************************************************************************)
EXTENDS Naturals, Sequences

CONSTANTS
    MaxRows,         \* EXPORT_MAX_ROWS
    MaxStatements,   \* bound: tables of a scope
    MaxResult,       \* bound: rows a statement would return
    HeaderBytes,     \* text of a part besides its rows
    RowBytes,        \* text of a row
    ChunkBytes,      \* CHUNK_BYTES
    HighWater        \* the socket's high-water mark

ASSUME ExportAssumption ==
    /\ {MaxRows, RowBytes, ChunkBytes, HighWater} \subseteq Nat \ {0}
    /\ {MaxStatements, MaxResult, HeaderBytes} \subseteq Nat

VARIABLES
    route,      \* where the handler is
    session,    \* whether the driver still has the session
    todo,       \* statements left to execute
    budget,     \* rows that may still be taken
    parts,      \* payloads taken so far
    exported,   \* history: rows in them
    produced,   \* history: rows the executed statements have in the database
    offset,     \* bytes handed to the socket
    wire,       \* bytes in the socket's buffer
    needDrain,  \* the socket owes a drain event
    file,       \* bytes the page has received
    page        \* what the page knows of its request

query == <<session, todo, budget, parts, exported, produced>>
socket == <<offset, wire, needDrain, file>>
vars == <<route, query, socket, page>>

MaxText == MaxStatements * HeaderBytes + MaxRows * RowBytes

TypeOK ==
    /\ route \in {"idle", "querying", "writing", "draining", "ended", "refused"}
    /\ session \in BOOLEAN
    /\ todo \in 0..MaxStatements
    /\ budget \in 0..MaxRows
    /\ parts \in 0..MaxStatements
    /\ exported \in 0..MaxRows
    /\ produced \in 0..MaxStatements * MaxResult
    /\ offset \in 0..MaxText
    /\ wire \in Seq(1..MaxText)
    /\ needDrain \in BOOLEAN
    /\ file \in Seq(1..MaxText)
    /\ page \in {"idle", "waiting", "saved", "failed", "gone"}

Init ==
    /\ route = "idle" /\ session = TRUE
    /\ todo = 0 /\ budget = MaxRows /\ parts = 0 /\ exported = 0 /\ produced = 0
    /\ offset = 0 /\ wire = <<>> /\ needDrain = FALSE /\ file = <<>>
    /\ page = "idle"

Lesser(a, b) == IF a < b THEN a ELSE b

-----------------------------------------------------------------------------
(* The request and the native call.                                        *)

\* The page asks for a statement or for any number of tables.
handleStreamedExport ==
    /\ page = "idle"
    /\ page' = "waiting"
    /\ \E n \in 0..MaxStatements : todo' = n
    /\ route' = IF session THEN "querying" ELSE "refused"
    /\ UNCHANGED <<session, budget, parts, exported, produced, socket>>

\* The reaper or a close in another tab takes the session.
SessionGoes ==
    /\ session
    /\ session' = FALSE
    /\ UNCHANGED <<route, todo, budget, parts, exported, produced, socket, page>>

\* Mutant: a batch is cut off at the cap instead of what is left of it.
TakenOfEach(rows, limited) == Lesser(rows, MaxRows)

\* The rows that are kept of a statement with so many, whether its text took
\* the row limit or the driver returned them all to be truncated.
Taken(rows, limited) ==
    LET returned == IF limited THEN Lesser(rows, budget) ELSE rows
    IN  IF returned > budget THEN budget ELSE returned

\* Mutant: the loop ends one statement early.
LastOrPenultimate == todo <= 2

\* No statement is left after this one.
Last == todo = 1

\* A statement returns rows: they are taken within the budget.
ExecutesQuery ==
    \E rows \in 0..MaxResult, limited \in BOOLEAN :
        LET taken == Taken(rows, limited) IN
        /\ produced' = produced + rows
        /\ exported' = exported + taken
        /\ budget' = budget - taken
        /\ parts' = parts + 1
        /\ route' = IF Last \/ budget' = 0 THEN "writing" ELSE route

\* It returns none: it leaves no part.
ExecutesUpdate ==
    /\ route' = IF Last THEN "writing" ELSE route
    /\ UNCHANGED <<budget, parts, exported, produced>>

ExecutesNext ==
    /\ route = "querying" /\ todo > 0 /\ session
    /\ ExecutesQuery \/ ExecutesUpdate
    /\ todo' = todo - 1
    /\ UNCHANGED <<session, socket, page>>

\* Nothing to execute: the text is empty.
ExecutesNothing ==
    /\ route = "querying" /\ todo = 0
    /\ route' = "writing"
    /\ UNCHANGED <<query, socket, page>>

\* A statement fails, and with it the export.
ExecuteFails ==
    /\ route = "querying"
    /\ route' = "refused"
    /\ UNCHANGED <<query, socket, page>>

-----------------------------------------------------------------------------
(* The response.                                                           *)

Text == parts * HeaderBytes + exported * RowBytes

\* Mutant: an inclusive end of the slice.
SliceInclusive(from, to) == [i \in 1..to - from - 1 |-> from + i]

\* The bytes of buf.subarray(from, to).
Slice(from, to) == [i \in 1..to - from |-> from + i]

\* Mutant: the route does not wait for the socket.
AfterWriteAtOnce(ok) == "writing"

\* Mutant: the route waits for a drain event after every write.
AfterWriteAlways(ok) == "draining"

\* The route goes on, or waits for the drain event.
AfterWrite(ok) == IF ok THEN "writing" ELSE "draining"

\* The next chunk.  Nothing that is written to a page that is gone gets
\* anywhere, and no drain event follows.
Writes ==
    LET end == Lesser(offset + ChunkBytes, Text) IN
    /\ route = "writing" /\ offset < Text
    /\ offset' = end
    /\ wire' = IF page = "gone" THEN wire ELSE wire \o Slice(offset, end)
    /\ needDrain' = (page # "gone" /\ Len(wire') >= HighWater)
    /\ route' = AfterWrite(page # "gone" /\ ~needDrain')
    /\ UNCHANGED <<query, file, page>>

Ends ==
    /\ route = "writing" /\ offset >= Text
    /\ route' = "ended"
    /\ UNCHANGED <<query, socket, page>>

\* The socket's buffer runs empty, and says so if it has been full.
Drains ==
    /\ needDrain /\ wire = <<>>
    /\ needDrain' = FALSE
    /\ route' = IF route = "draining" THEN "writing" ELSE route
    /\ UNCHANGED <<query, offset, wire, file, page>>

\* The network takes some bytes to the page.
Delivers ==
    \E n \in 1..Len(wire) :
        /\ file' = file \o SubSeq(wire, 1, n)
        /\ wire' = SubSeq(wire, n + 1, Len(wire))
        /\ UNCHANGED <<route, query, offset, needDrain, page>>

\* The page has the whole body, or the status of a refusal.
Answered ==
    /\ page = "waiting" /\ wire = <<>>
    /\ \/ route = "ended" /\ page' = "saved"
       \/ route = "refused" /\ page' = "failed"
    /\ UNCHANGED <<route, query, socket>>

\* The page is closed, or the connection lost, before the file is complete.
PageGoes ==
    /\ page = "waiting"
    /\ page' = "gone"
    /\ wire' = <<>> /\ needDrain' = FALSE
    /\ UNCHANGED <<route, query, offset, file>>

-----------------------------------------------------------------------------

Server ==
    ExecutesNext \/ ExecutesNothing \/ ExecuteFails \/ Writes \/ Ends

Network == Drains \/ Delivers \/ Answered

Next == handleStreamedExport \/ SessionGoes \/ Server \/ Network \/ PageGoes

Spec == Init /\ [][Next]_vars

\* A statement ends or fails, the handler runs, and the socket moves bytes as
\* long as there is a page; the page need not ask.
FairSpec == Spec /\ WF_vars(Server) /\ WF_vars(Network)

-----------------------------------------------------------------------------
(* Properties.                                                             *)

\* A file that the page has saved holds the first MaxRows rows of what its
\* statements returned, every byte once and in order: the budget is handed
\* down from statement to statement, statements are passed over only when it is
\* used up, and neither the chunks nor the pauses lose anything.
ExportIsFirstRows ==
    page = "saved" =>
        /\ exported = Lesser(produced, MaxRows)
        /\ todo > 0 => exported = MaxRows
        /\ file = [i \in 1..Text |-> i]

\* The socket never holds more than a chunk beyond its high-water mark, however
\* slow the page is: the route waits for it.
SocketBufferBounded == Len(wire) < HighWater + ChunkBytes

\* Who asks for an export and stays gets a file or an error.
ExportEnds == page = "waiting" ~> page # "waiting"

=============================================================================
