------------------------------ MODULE ClientTab ------------------------------
(***************************************************************************)
(* One tab of the page (App.tsx) over the session it is connected to and   *)
(* the transaction the driver keeps for that session.  A handler of the    *)
(* page takes the tab's session id when it starts, sends a request, and    *)
(* patches the tab when the answer comes; no handler waits for another,    *)
(* and none asks the busy flag, so requests overlap and are answered in    *)
(* any order.  An answer may also be lost after its effect.  Plugins reach *)
(* the same driver, and the same transaction, through the services of the  *)
(* native module, and the page hears nothing of it.                        *)
(*                                                                         *)
(* Of a transaction the model keeps whether it is open and whether it      *)
(* holds a statement; of the results, which database they were read from.  *)
(* connect and the refreshers are hooks of a library, modelled from how    *)
(* App.tsx calls them.                                                     *)
(***************************************************************************)
CONSTANTS
    Session,    \* session ids of the driver
    Database,   \* databases a connection form may name
    Op,         \* handlers of the page that may be running at the same time
    None        \* no session, no database

ASSUME ClientTabAssumption == None \notin Session \cup Database

VARIABLES
    attached,    \* sessions that are open in the driver
    database,    \* the database each session is attached to
    manual,      \* sessions in manual commit mode
    transaction, \* "none", "open" without a statement, or with "work"
    tabOpen,     \* is the tab there?
    sessionId,   \* the tab's fields: its session,
    busy,        \*   the flag that its controls are disabled by,
    txStatus,    \*   the transaction status it shows,
    results,     \*   the database that its results are from
    task,        \* what each handler is awaiting
    overlapped,  \* history: a handler started, or a plugin called, while a
                 \*   handler was running
    outlived,    \* history: a statement or a connect outlived the tab's session
    stranded,    \* history: a statement was sent for a session the tab had left
    unseen,      \* history: sessions with work that the page was not told of
    leaked       \* history: sessions whose owner could not close them

driver == <<attached, database, manual, transaction>>
tab == <<tabOpen, sessionId, busy, txStatus, results>>
history == <<overlapped, outlived, stranded, unseen, leaked>>
vars == <<driver, tab, task, history>>

Closing == {"disconnect", "tabclose", "abandon"}
Statement == {"execute", "browse", "aside"}

Task == [kind     : {"none", "connect", "refresh", "mode", "finish", "profile"}
                       \cup Closing \cup Statement,
         step     : {"prompt", "sent", "ok", "failed"},
         session  : Session \cup {None},
         database : Database \cup {None},
         asked    : BOOLEAN,
         status   : {"none", "clean", "work"}]

Idle == [kind |-> "none", step |-> "prompt", session |-> None,
         database |-> None, asked |-> FALSE, status |-> "none"]

TypeOK ==
    /\ attached \subseteq Session
    /\ database \in [Session -> Database]
    /\ manual \subseteq attached
    /\ transaction \in [Session -> {"none", "open", "work"}]
    /\ \A s \in Session : transaction[s] # "none" => s \in attached
    /\ tabOpen \in BOOLEAN /\ busy \in BOOLEAN
    /\ sessionId \in Session \cup {None}
    /\ txStatus \in {"none", "clean", "work"}
    /\ results \in Database \cup {None}
    /\ task \in [Op -> Task]
    /\ overlapped \in BOOLEAN /\ outlived \in BOOLEAN
    /\ stranded \in BOOLEAN
    /\ unseen \subseteq attached /\ leaked \subseteq attached

Init ==
    /\ attached = {} /\ manual = {}
    /\ database \in [Session -> Database]
    /\ \A s, t \in Session : database[s] = database[t]
    /\ transaction = [s \in Session |-> "none"]
    /\ tabOpen = TRUE /\ sessionId = None /\ busy = FALSE
    /\ txStatus = "none" /\ results = None
    /\ task = [o \in Op |-> Idle]
    /\ overlapped = FALSE /\ outlived = FALSE /\ stranded = FALSE
    /\ unseen = {} /\ leaked = {}

-----------------------------------------------------------------------------
(* Handlers start, send and end.                                           *)

Running == {o \in Op : task[o].kind # "none"}

Begins(o, kind, step, s, asked, d) ==
    /\ o \notin Running
    /\ task' = [task EXCEPT ![o] = [Idle EXCEPT !.kind = kind, !.step = step,
                                     !.session = s, !.asked = asked,
                                     !.database = d]]
    /\ overlapped' = (overlapped \/ Running # {})

Settles(o, step) == task' = [task EXCEPT ![o].step = step]
Sent(o, kinds) == task[o].kind \in kinds /\ task[o].step = "sent"
Answered(o, kinds) ==
    task[o].kind \in kinds /\ task[o].step \in {"ok", "failed"}
Ok(o) == task[o].step = "ok"
Ends(o) == task' = [task EXCEPT ![o] = Idle]

\* The handler goes on to a library hook that sends another request.
GoesOn(o, kind, s) ==
    task' = [task EXCEPT ![o] = [Idle EXCEPT !.kind = kind, !.step = "sent",
                                  !.session = s, !.database = task[o].database]]

\* A patch of a tab that has been closed is a patch of nothing.
Patched(field, value) == IF tabOpen THEN value ELSE field

isStaleSession(s) == s # sessionId

\* The tab leaves its session for s: was one of its statements running, or
\* was s a second connect that another had preceded?
Moves(s) ==
    /\ sessionId' = s
    /\ outlived' = ( \/ outlived
                     \/ \E o \in Running :
                           /\ task[o].kind \in {"execute", "browse"}
                           /\ task[o].session # s
                     \/ /\ {s, sessionId} \subseteq Session
                        /\ database[s] # database[sessionId])

-----------------------------------------------------------------------------
(* The driver under the routes: the effect of a request that was sent.     *)

Unused(s) ==
    /\ s \notin attached /\ s # sessionId
    /\ \A o \in Op : task[o].session # s

Attaches(o) ==
    /\ Sent(o, {"connect"})
    /\ \/ \E s \in Session :
             /\ Unused(s)
             /\ attached' = attached \cup {s}
             /\ database' = [database EXCEPT ![s] = task[o].database]
             /\ \/ /\ task' = [task EXCEPT ![o].step = "ok", ![o].session = s]
                   /\ UNCHANGED leaked
                \/ /\ Settles(o, "failed")
                   /\ leaked' = leaked \cup {s}
       \/ /\ Settles(o, "failed")
          /\ UNCHANGED <<attached, database, leaked>>
    /\ UNCHANGED <<manual, transaction, tab, overlapped, outlived, stranded,
                   unseen>>

\* A batch in manual mode opens the transaction with its first statement
\* and leaves work in it unless that one failed.  Autocommit leaves nothing,
\* but in a transaction that a plugin began.
execute_batch(s) ==
    IF s \in manual \/ transaction[s] # "none"
    THEN \E t \in {"open", "work"} :
            /\ transaction[s] = "work" => t = "work"
            /\ transaction' = [transaction EXCEPT ![s] = t]
    ELSE UNCHANGED transaction

\* Executes and its answer; a session without a record is refused.
Executes(o) ==
    /\ Sent(o, Statement)
    /\ LET s == task[o].session IN
       \/ /\ s \in attached
          /\ execute_batch(s)
          /\ \E a \in {"ok", "failed"} :
                /\ Settles(o, a)
                /\ unseen' = IF a = "ok" /\ task[o].kind = "execute"
                             THEN unseen ELSE unseen \cup {s}
       \/ /\ s \notin attached
          /\ Settles(o, "failed")
          /\ UNCHANGED <<transaction, unseen>>
    /\ UNCHANGED <<attached, database, manual, tab, overlapped, outlived,
                   stranded, leaked>>

StatusOf(t) == IF t = "work" THEN "work" ELSE "clean"

\* A status request answers what the driver has at that moment.
transaction_status(o) ==
    /\ Sent(o, {"refresh"})
    /\ LET s == task[o].session IN
       \/ /\ s \in attached
          /\ task' = [task EXCEPT ![o].step = "ok",
                                  ![o].status = StatusOf(transaction[s])]
          /\ UNCHANGED unseen
       \/ /\ Settles(o, "failed")
          /\ unseen' = unseen \cup ({s} \cap attached)
    /\ UNCHANGED <<driver, tab, overlapped, outlived, stranded, leaked>>

\* Refused while a transaction is open, and then nothing changes.
set_transaction_mode(o) ==
    /\ Sent(o, {"mode"})
    /\ LET s == task[o].session IN
       \/ /\ s \in attached /\ transaction[s] = "none"
          /\ manual' \in {manual \cup {s}, manual \ {s}}
          /\ \/ task' = [task EXCEPT ![o].step = "ok", ![o].status = "clean"]
             \/ Settles(o, "failed")
       \/ Settles(o, "failed") /\ UNCHANGED manual
    /\ UNCHANGED <<attached, database, transaction, tab, history>>

\* commit and rollback alike: the transaction ends, or the driver objects.
FinishesTransaction(o) ==
    /\ Sent(o, {"finish"})
    /\ LET s == task[o].session IN
       \/ /\ s \in attached
          /\ transaction' = [transaction EXCEPT ![s] = "none"]
          /\ unseen' = unseen \ {s}
          /\ \/ task' = [task EXCEPT ![o].step = "ok", ![o].status = "clean"]
             \/ Settles(o, "failed")
       \/ Settles(o, "failed") /\ UNCHANGED <<transaction, unseen>>
    /\ UNCHANGED <<attached, database, manual, tab, overlapped, outlived,
                   stranded, leaked>>

\* Mutant: the transaction outlives its attachment.
DetachesOnly(s) ==
    /\ attached' = attached \ {s}
    /\ manual' = manual \ {s}
    /\ unseen' = unseen \ {s}
    /\ leaked' = leaked \ {s}
    /\ UNCHANGED transaction

Detaches(s) ==
    /\ attached' = attached \ {s}
    /\ manual' = manual \ {s}
    /\ transaction' = [transaction EXCEPT ![s] = "none"]
    /\ unseen' = unseen \ {s}
    /\ leaked' = leaked \ {s}

\* Detaching rolls the open transaction back.
Closes(o) ==
    /\ Sent(o, Closing)
    /\ LET s == task[o].session IN
       \/ /\ s \in attached
          /\ Detaches(s)
          /\ \E a \in {"ok", "failed"} : Settles(o, a)
       \/ /\ Settles(o, "failed")
          /\ leaked' = IF task[o].kind = "tabclose" /\ s \in attached
                       THEN leaked \cup {s} ELSE leaked
          /\ UNCHANGED <<attached, manual, transaction, unseen>>
    /\ UNCHANGED <<database, tab, overlapped, outlived, stranded>>

\* The reaper, or a lost connection, ends a session under its tab.
Expires(s) ==
    /\ s \in attached
    /\ Detaches(s)
    /\ UNCHANGED <<database, tab, task, overlapped, outlived, stranded>>

-----------------------------------------------------------------------------
(* The driver under the services of plugins (WebHostServices), for the      *)
(* session that the host says a call is for.                               *)

\* A plugin's statement leaves what a statement of the page would leave.  A
\* query-read that is not one is refused after it has run.
db_execute(s) ==
    /\ execute_batch(s)
    /\ unseen' = unseen \cup {s}

\* The driver does not say that it has to be in manual mode.
db_tx_begin(s) ==
    /\ transaction[s] = "none"
    /\ transaction' = [transaction EXCEPT ![s] = "open"]
    /\ UNCHANGED unseen

\* db_tx_commit and db_tx_rollback: the transaction may be the user's.
db_tx_finish(s) ==
    /\ transaction' = [transaction EXCEPT ![s] = "none"]
    /\ unseen' = unseen \ {s}

PluginCalls(s) ==
    /\ s \in attached
    /\ db_execute(s) \/ db_tx_begin(s) \/ db_tx_finish(s)
    /\ overlapped' = (overlapped \/ Running # {})
    /\ UNCHANGED <<attached, database, manual, tab, task, outlived, stranded,
                   leaked>>

-----------------------------------------------------------------------------
(* The page: connecting.                                                   *)

\* Connect, with a form that names a database; or reconnect, once the
\* session is gone, to the database it was attached to.
useConnectionActions(o) ==
    /\ tabOpen
    /\ \/ /\ sessionId = None
          /\ \E d \in Database : Begins(o, "connect", "sent", None, FALSE, d)
       \/ /\ sessionId \in Session \ attached
          /\ Begins(o, "connect", "sent", None, FALSE, database[sessionId])
    /\ busy' = TRUE
    /\ UNCHANGED <<driver, tabOpen, sessionId, txStatus, results, outlived,
                   stranded, unseen, leaked>>

\* The tab takes the session and asks for its status.
onConnected(o) ==
    /\ Answered(o, {"connect"})
    /\ busy' = Patched(busy, FALSE)
    /\ IF Ok(o) /\ tabOpen
       THEN /\ Moves(task[o].session)
            /\ txStatus' = "none"
            /\ GoesOn(o, "refresh", task[o].session)
            /\ UNCHANGED leaked
       ELSE /\ Ends(o)
            /\ leaked' = IF Ok(o) THEN leaked \cup ({task[o].session} \cap attached)
                         ELSE leaked
            /\ UNCHANGED <<sessionId, txStatus, outlived>>
    /\ UNCHANGED <<driver, tabOpen, results, overlapped, stranded, unseen>>

refreshTxStatus(o) ==
    /\ Answered(o, {"refresh"})
    /\ txStatus' = IF Ok(o) THEN Patched(txStatus, task[o].status) ELSE txStatus
    /\ unseen' = IF Ok(o) THEN unseen \ {task[o].session} ELSE unseen
    /\ Ends(o)
    /\ UNCHANGED <<driver, tabOpen, sessionId, busy, results, overlapped,
                   outlived, stranded, leaked>>

-----------------------------------------------------------------------------
(* The page: statements.                                                   *)

\* The interceptors are asked first, for the session of this moment.
handleExecute(o) ==
    /\ tabOpen /\ sessionId # None
    /\ Begins(o, "execute", "prompt", sessionId, FALSE, database[sessionId])
    /\ UNCHANGED <<driver, tab, outlived, stranded, unseen, leaked>>

\* They cancel the statement or let it go to the session it was asked for.
resolveStatement(o) ==
    /\ task[o].kind = "execute" /\ task[o].step = "prompt"
    /\ \/ Ends(o) /\ UNCHANGED <<busy, stranded>>
       \/ /\ Settles(o, "sent")
          /\ busy' = Patched(busy, TRUE)
          /\ stranded' = (stranded \/ isStaleSession(task[o].session))
    /\ UNCHANGED <<driver, tabOpen, sessionId, txStatus, results, overlapped,
                   outlived, unseen, leaked>>

\* Mutant: the status is not asked for after a statement.
ExecuteReturnsUnrefreshed(o) ==
    /\ Answered(o, {"execute"})
    /\ results' = IF Ok(o) THEN Patched(results, task[o].database) ELSE results
    /\ busy' = IF isStaleSession(task[o].session) THEN busy ELSE FALSE
    /\ Ends(o)
    /\ UNCHANGED <<driver, tabOpen, sessionId, txStatus, history>>

\* Results are shown whatever the tab's session is now; a failure of a
\* session the tab has left is not, and neither ends another's busy.
ExecuteReturns(o) ==
    /\ Answered(o, {"execute"})
    /\ busy' = IF isStaleSession(task[o].session) THEN busy ELSE FALSE
    /\ IF Ok(o)
       THEN /\ results' = Patched(results, task[o].database)
            /\ GoesOn(o, "refresh", task[o].session)
       ELSE Ends(o) /\ UNCHANGED results
    /\ UNCHANGED <<driver, tabOpen, sessionId, txStatus, history>>

\* A cell edit, a DDL statement or a read for an export or a dialog: it
\* leaves the tab as it is.
StatementAside(o) ==
    /\ tabOpen /\ sessionId # None
    /\ Begins(o, "aside", "sent", sessionId, FALSE, database[sessionId])
    /\ UNCHANGED <<driver, tab, outlived, stranded, unseen, leaked>>

AsideReturns(o) ==
    /\ Answered(o, {"aside"})
    /\ Ends(o)
    /\ UNCHANGED <<driver, tab, history>>

\* Browsing a table and applying a filter patch the tab without asking
\* whether it has moved.
handleBrowseTable(o) ==
    /\ tabOpen /\ sessionId # None
    /\ Begins(o, "browse", "sent", sessionId, FALSE, database[sessionId])
    /\ busy' = TRUE
    /\ UNCHANGED <<driver, tabOpen, sessionId, txStatus, results, outlived,
                   stranded, unseen, leaked>>

BrowseReturns(o) ==
    /\ Answered(o, {"browse"})
    /\ results' = IF Ok(o) THEN Patched(results, task[o].database) ELSE results
    /\ busy' = Patched(busy, FALSE)
    /\ Ends(o)
    /\ UNCHANGED <<driver, tabOpen, sessionId, txStatus, history>>

-----------------------------------------------------------------------------
(* The page: profiles.                                                     *)

\* handleSaveProfile and handleDeleteProfile disable the controls while the
\* profile is written and the list read again.
HandleProfile(o) ==
    /\ tabOpen
    /\ Begins(o, "profile", "sent", None, FALSE, None)
    /\ busy' = TRUE
    /\ UNCHANGED <<driver, tabOpen, sessionId, txStatus, results, outlived,
                   stranded, unseen, leaked>>

ProfileReturns(o) ==
    /\ Sent(o, {"profile"})
    /\ busy' = Patched(busy, FALSE)
    /\ Ends(o)
    /\ UNCHANGED <<driver, tabOpen, sessionId, txStatus, results, history>>

-----------------------------------------------------------------------------
(* The page: transactions.                                                 *)

\* handleSetTxMode and finishTx.
TransactionControl(o, kind) ==
    /\ tabOpen /\ sessionId # None
    /\ Begins(o, kind, "sent", sessionId, FALSE, database[sessionId])
    /\ busy' = TRUE
    /\ UNCHANGED <<driver, tabOpen, sessionId, txStatus, results, outlived,
                   stranded, unseen, leaked>>

TransactionReturns(o) ==
    /\ Answered(o, {"mode", "finish"})
    /\ txStatus' = IF Ok(o) THEN Patched(txStatus, task[o].status) ELSE txStatus
    /\ busy' = Patched(busy, FALSE)
    /\ Ends(o)
    /\ UNCHANGED <<driver, tabOpen, sessionId, results, history>>

-----------------------------------------------------------------------------
(* The page: leaving the session.                                          *)

\* Work that is shown is asked about, and the user agrees (or nothing
\* happens); a tab that shows none is left without asking.
confirmDiscardTx == txStatus = "work"

handleDisconnect(o) ==
    /\ tabOpen /\ sessionId # None
    /\ Begins(o, "disconnect", "sent", sessionId, confirmDiscardTx,
              database[sessionId])
    /\ busy' = TRUE
    /\ UNCHANGED <<driver, tabOpen, sessionId, txStatus, results, outlived,
                   stranded, unseen, leaked>>

\* Mutant: the tab is cleared whatever became of the close.
DisconnectClearsAlways(o) ==
    /\ Answered(o, {"disconnect"})
    /\ Moves(None)
    /\ results' = None /\ txStatus' = "none" /\ busy' = FALSE
    /\ Ends(o)
    /\ UNCHANGED <<driver, tabOpen, overlapped, stranded, unseen, leaked>>

\* Mutant: the results stay.
DisconnectKeepsResults(o) ==
    /\ Answered(o, {"disconnect"})
    /\ IF Ok(o) /\ tabOpen
       THEN Moves(None) /\ txStatus' = "none"
       ELSE UNCHANGED <<sessionId, txStatus, outlived>>
    /\ busy' = Patched(busy, FALSE)
    /\ Ends(o)
    /\ UNCHANGED <<driver, tabOpen, results, overlapped, stranded, unseen,
                   leaked>>

\* Mutant: the flag is cleared on success only.
DisconnectStaysBusy(o) ==
    /\ Answered(o, {"disconnect"})
    /\ IF Ok(o) /\ tabOpen
       THEN Moves(None) /\ results' = None /\ txStatus' = "none" /\ busy' = FALSE
       ELSE UNCHANGED <<sessionId, results, txStatus, busy, outlived>>
    /\ Ends(o)
    /\ UNCHANGED <<driver, tabOpen, overlapped, stranded, unseen, leaked>>

\* The tab is cleared when the close succeeded; otherwise it keeps the
\* session.
DisconnectReturns(o) ==
    /\ Answered(o, {"disconnect"})
    /\ IF Ok(o) /\ tabOpen
       THEN Moves(None) /\ results' = None /\ txStatus' = "none"
       ELSE UNCHANGED <<sessionId, results, txStatus, outlived>>
    /\ busy' = Patched(busy, FALSE)
    /\ Ends(o)
    /\ UNCHANGED <<driver, tabOpen, overlapped, stranded, unseen, leaked>>

handleAbandon(o) ==
    /\ tabOpen /\ sessionId # None
    /\ Begins(o, "abandon", "sent", sessionId, confirmDiscardTx,
              database[sessionId])
    /\ UNCHANGED <<driver, tab, outlived, stranded, unseen, leaked>>

\* Once the session is closed the tab is reconnected; a failed close is an
\* error and the end.
AbandonReturns(o) ==
    /\ Answered(o, {"abandon"})
    /\ IF Ok(o) /\ tabOpen
       THEN GoesOn(o, "connect", None) /\ busy' = TRUE
       ELSE Ends(o) /\ UNCHANGED busy
    /\ UNCHANGED <<driver, tabOpen, sessionId, txStatus, results, history>>

\* The tab goes at once; the close of its session is not waited for, and
\* its failure not heard.
handleTabClose(o) ==
    /\ tabOpen
    /\ tabOpen' = FALSE
    /\ Moves(None)
    /\ busy' = FALSE /\ txStatus' = "none" /\ results' = None
    /\ IF sessionId = None
       THEN UNCHANGED <<task, overlapped>>
       ELSE Begins(o, "tabclose", "sent", sessionId, confirmDiscardTx,
                   database[sessionId])
    /\ UNCHANGED <<driver, stranded, unseen, leaked>>

TabCloseReturns(o) ==
    /\ Answered(o, {"tabclose"})
    /\ Ends(o)
    /\ UNCHANGED <<driver, tab, history>>

\* A new tab, once nothing runs for the one that was closed.
newTab ==
    /\ ~tabOpen /\ Running = {}
    /\ tabOpen' = TRUE
    /\ UNCHANGED <<driver, sessionId, busy, txStatus, results, task, history>>

-----------------------------------------------------------------------------

Next ==
    \/ \E o \in Op :
          \/ Attaches(o) \/ Executes(o) \/ Closes(o)
          \/ transaction_status(o) \/ set_transaction_mode(o)
          \/ FinishesTransaction(o)
          \/ useConnectionActions(o) \/ onConnected(o) \/ refreshTxStatus(o)
          \/ handleExecute(o) \/ resolveStatement(o) \/ ExecuteReturns(o)
          \/ StatementAside(o) \/ AsideReturns(o)
          \/ handleBrowseTable(o) \/ BrowseReturns(o)
          \/ HandleProfile(o) \/ ProfileReturns(o)
          \/ \E kind \in {"mode", "finish"} : TransactionControl(o, kind)
          \/ TransactionReturns(o)
          \/ handleDisconnect(o) \/ DisconnectReturns(o)
          \/ handleAbandon(o) \/ AbandonReturns(o)
          \/ handleTabClose(o) \/ TabCloseReturns(o)
    \/ \E s \in Session : Expires(s) \/ PluginCalls(s)
    \/ newTab

Spec == Init /\ [][Next]_vars

-----------------------------------------------------------------------------
(* Properties.                                                             *)

\* confirmDiscardTx asks before uncommitted work is thrown away.  It asks
\* from the status the tab shows, so this holds as long as handlers take
\* turns and every statement was followed by a status: a close that rolls
\* back work was agreed to.
DiscardIsAsked ==
    [][\A o \in Op :
          LET s == task[o].session IN
          /\ Sent(o, Closing) /\ task'[o].step # "sent"
          /\ s \in attached \ attached' /\ transaction[s] = "work"
          => task[o].asked \/ overlapped \/ s \in unseen]_vars

\* Results come from the database the tab is connected to, and there are
\* none without a connection, unless a statement, or a second connect, was
\* still running when the tab left its session.
ResultsAreOfConnection ==
    results # None /\ ~outlived =>
        sessionId # None /\ results = database[sessionId]

\* The tab's controls are never left disabled with nothing running, except
\* by a statement that was let go after the tab had left its session.
BusyEnds == busy /\ Running = {} => stranded

\* The page never loses a session that it could close: while handlers take
\* turns, every open attachment is the tab's or is being closed, but for
\* those whose connect was not answered or whose tab was closed in vain.
AttachmentIsHeld ==
    ~overlapped => attached \subseteq
        {sessionId} \cup leaked \cup {task[o].session : o \in Running}

=============================================================================
