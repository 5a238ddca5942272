--------------------------- MODULE ClientTabProofs ---------------------------
(***************************************************************************)
(* Theorems of ClientTab, for any sessions, databases and number of        *)
(* handlers: the types, the end of busy, which connection the results are  *)
(* of, who holds each attachment, and the question before work is lost.    *)
(***************************************************************************)
EXTENDS ClientTab, TLAPS

-----------------------------------------------------------------------------
(* The inductive invariant.                                                *)

\* What a handler is in the middle of.
Formed(t) ==
    /\ t \in Task
    /\ t.kind = "none" => t = Idle
    /\ t.step = "prompt" => t.kind \in {"none", "execute"}
    /\ t.kind \notin {"none", "connect", "profile"} => t.session \in Session
    /\ t.kind \in {"connect", "profile"} =>
          IF t.step = "ok" THEN t.session \in Session ELSE t.session = None
    /\ t.kind \notin {"none", "profile"} => t.database \in Database

TaskInv == TypeOK /\ \A o \in Op : Formed(task[o])

\* The handlers that disable the controls, and enable them again.
Disables(o) ==
    \/ task[o].kind \in {"connect", "browse", "profile", "mode", "finish", "disconnect"}
    \/ task[o].kind = "execute" /\ task[o].step # "prompt" /\ task[o].session = sessionId

BusyInv ==
    /\ ~tabOpen => ~busy /\ sessionId = None /\ results = None
    /\ busy => stranded \/ \E o \in Op : Disables(o)

\* While no statement has outlived the session of the tab, those that run are
\* for it, and the results were read from its database.
ResultsInv ==
    /\ results # None => sessionId # None /\ results = database[sessionId]
    /\ \A o \in Op :
          task[o].kind \in {"execute", "browse"} =>
             task[o].session = sessionId /\ task[o].database = database[sessionId]

\* Of a handler that runs alone: whose session it works on, and what became of
\* the session it closes.
Alone(o) ==
    LET t == task[o] IN
    /\ t.kind \notin {"none", "connect", "profile", "tabclose"} => t.session = sessionId
    /\ t.kind = "connect" => sessionId \notin attached
    /\ t.kind \in {"disconnect", "abandon"} /\ t.step = "ok" =>
          t.session \notin attached
    /\ t.kind = "tabclose" /\ t.step # "sent" =>
          t.session \notin attached \/ t.session \in leaked
    /\ t.kind = "refresh" /\ t.step = "ok" /\ transaction[t.session] = "work" =>
          t.status = "work"
    /\ t.kind \in {"mode", "finish"} /\ t.step = "ok" => transaction[t.session] # "work"
    /\ Sent(o, Closing) /\ transaction[t.session] = "work" /\ t.session \notin unseen =>
          t.asked

\* A handler that is about to tell the tab of its session's work.
Tells(o) ==
    /\ task[o].session = sessionId
    /\ \/ task[o].kind = "refresh" /\ task[o].step = "sent"
       \/ task[o].kind = "refresh" /\ task[o].step = "ok" /\ task[o].status = "work"
       \/ task[o].kind = "execute" /\ task[o].step = "ok"

\* Work that the page was told of is shown, or will be.
WorkIsShown ==
    sessionId \in Session \ unseen /\ transaction[sessionId] = "work" =>
        txStatus = "work" \/ \E o \in Op : Tells(o)

TurnInv ==
    /\ \A o, q \in Running : o = q
    /\ \A o \in Op : Alone(o)
    /\ attached \subseteq {sessionId} \cup leaked \cup {task[o].session : o \in Running}
    /\ WorkIsShown

IInv ==
    /\ TaskInv
    /\ BusyInv
    /\ ~outlived => ResultsInv
    /\ ~overlapped => TurnInv
-----------------------------------------------------------------------------
(* The handlers.                                                           *)

\* The step changes what one handler is in the middle of, and nothing else of
\* the handlers.
Turns(o) ==
    /\ task' \in [Op -> Task]
    /\ Formed(task'[o])
    /\ \A q \in Op \ {o} : task'[q] = task[q]

LEMMA IdleFormed ==
  /\ Formed(Idle) /\ Idle.kind = "none" /\ Idle.step = "prompt"
  /\ Idle.session = None /\ Idle.database = None /\ Idle.asked = FALSE
  /\ Idle.status = "none"
<1>1. /\ Idle.kind = "none" /\ Idle.step = "prompt"
      /\ Idle.session = None /\ Idle.database = None /\ Idle.asked = FALSE
      /\ Idle.status = "none" /\ Idle \in Task
  BY DEF Idle, Task
<1> QED
  BY <1>1 DEF Formed

LEMMA BeginsTurns ==
  ASSUME TaskInv, NEW o \in Op,
         NEW kind \in {"connect", "mode", "finish", "profile"} \cup Closing \cup Statement,
         NEW step \in {"prompt", "sent"}, NEW s \in Session \cup {None},
         NEW asked \in BOOLEAN, NEW d \in Database \cup {None},
         Begins(o, kind, step, s, asked, d),
         step = "prompt" => kind = "execute",
         IF kind \in {"connect", "profile"} THEN s = None ELSE s \in Session,
         kind # "profile" => d \in Database
  PROVE  /\ Turns(o) /\ task[o].kind = "none"
         /\ task'[o].kind = kind /\ task'[o].step = step /\ task'[o].session = s
         /\ task'[o].asked = asked /\ task'[o].database = d
         /\ overlapped' \in BOOLEAN
<1> DEFINE t == [Idle EXCEPT !.kind = kind, !.step = step, !.session = s,
                             !.asked = asked, !.database = d]
<1>1. /\ t.kind = kind /\ t.step = step /\ t.session = s
      /\ t.asked = asked /\ t.database = d /\ t \in Task
  BY DEF Idle, Task
<1>2. Formed(t)
  BY <1>1 DEF Formed, Closing, Statement
<1>3. task' = [task EXCEPT ![o] = t] /\ task \in [Op -> Task]
  BY DEF Begins, TaskInv, TypeOK
<1> HIDE DEF t
<1>4. task'[o] = t /\ Turns(o)
  BY <1>1, <1>2, <1>3 DEF Turns
<1>5. task[o].kind = "none" /\ overlapped' \in BOOLEAN
  BY DEF Begins, Running, TaskInv, TypeOK
<1> QED
  BY <1>1, <1>4, <1>5

LEMMA SettlesTurns ==
  ASSUME TaskInv, NEW o \in Op, NEW step \in {"sent", "ok", "failed"}, Settles(o, step),
         task[o].kind # "none",
         task[o].kind \in {"connect", "profile"} => task[o].step # "ok" /\ step # "ok"
  PROVE  /\ Turns(o)
         /\ task'[o].kind = task[o].kind /\ task'[o].step = step
         /\ task'[o].session = task[o].session /\ task'[o].asked = task[o].asked
         /\ task'[o].database = task[o].database
<1> DEFINE t == [task[o] EXCEPT !.step = step]
<1>1. task \in [Op -> Task] /\ Formed(task[o])
  BY DEF TaskInv, TypeOK
<1>2. /\ t.kind = task[o].kind /\ t.step = step /\ t.session = task[o].session
      /\ t.asked = task[o].asked /\ t.database = task[o].database /\ t \in Task
  BY <1>1 DEF Task
<1>3. task' = [task EXCEPT ![o] = t]
  BY DEF Settles
<1> HIDE DEF t
<1>4. Formed(t)
  BY <1>1, <1>2 DEF Formed
<1>5. task'[o] = t /\ Turns(o)
  BY <1>1, <1>2, <1>3, <1>4 DEF Turns
<1> QED
  BY <1>2, <1>5

\* An answer that carries a status.
LEMMA StatusTurns ==
  ASSUME TaskInv, NEW o \in Op, NEW status \in {"clean", "work"},
         task' = [task EXCEPT ![o].step = "ok", ![o].status = status],
         task[o].kind \notin {"none", "connect", "profile"}
  PROVE  /\ Turns(o)
         /\ task'[o].kind = task[o].kind /\ task'[o].step = "ok"
         /\ task'[o].session = task[o].session /\ task'[o].asked = task[o].asked
         /\ task'[o].database = task[o].database /\ task'[o].status = status
<1> DEFINE t == [task[o] EXCEPT !.step = "ok", !.status = status]
<1>1. task \in [Op -> Task] /\ Formed(task[o])
  BY DEF TaskInv, TypeOK
<1>2. /\ t.kind = task[o].kind /\ t.step = "ok" /\ t.session = task[o].session
      /\ t.asked = task[o].asked /\ t.database = task[o].database
      /\ t.status = status /\ t \in Task
  BY <1>1 DEF Task
<1>3. task' = [task EXCEPT ![o] = t]
  OBVIOUS
<1> HIDE DEF t
<1>4. Formed(t)
  BY <1>1, <1>2 DEF Formed
<1>5. task'[o] = t /\ Turns(o)
  BY <1>1, <1>2, <1>3, <1>4 DEF Turns
<1> QED
  BY <1>2, <1>5

LEMMA EndsTurns ==
  ASSUME TaskInv, NEW o \in Op, Ends(o)
  PROVE  Turns(o) /\ task'[o] = Idle
<1>1. task'[o] = Idle /\ task' \in [Op -> Task]
  BY IdleFormed DEF Ends, TaskInv, TypeOK, Formed
<1> QED
  BY <1>1, IdleFormed DEF Turns, Ends, TaskInv, TypeOK

LEMMA GoesOnTurns ==
  ASSUME TaskInv, NEW o \in Op, NEW kind \in {"refresh", "connect"},
         NEW s \in Session \cup {None}, GoesOn(o, kind, s),
         IF kind = "connect" THEN s = None ELSE s \in Session,
         task[o].kind \notin {"none", "profile"}
  PROVE  /\ Turns(o)
         /\ task'[o].kind = kind /\ task'[o].step = "sent" /\ task'[o].session = s
         /\ task'[o].database = task[o].database
<1> DEFINE t == [Idle EXCEPT !.kind = kind, !.step = "sent", !.session = s,
                             !.database = task[o].database]
<1>1. task \in [Op -> Task] /\ Formed(task[o]) /\ task[o].database \in Database
  BY DEF TaskInv, TypeOK, Formed
<1>2. /\ t.kind = kind /\ t.step = "sent" /\ t.session = s
      /\ t.database = task[o].database /\ t \in Task
  BY <1>1 DEF Idle, Task
<1>3. task' = [task EXCEPT ![o] = t]
  BY DEF GoesOn
<1> HIDE DEF t
<1>4. Formed(t)
  BY <1>1, <1>2 DEF Formed
<1>5. task'[o] = t /\ Turns(o)
  BY <1>1, <1>2, <1>3, <1>4 DEF Turns
<1> QED
  BY <1>2, <1>5

\* The handler that attached takes its session along.
LEMMA AttachedTurns ==
  ASSUME TaskInv, NEW o \in Op, NEW s \in Session, task[o].kind = "connect",
         task' = [task EXCEPT ![o].step = "ok", ![o].session = s]
  PROVE  /\ Turns(o)
         /\ task'[o].kind = "connect" /\ task'[o].step = "ok" /\ task'[o].session = s
         /\ task'[o].database = task[o].database
<1> DEFINE t == [task[o] EXCEPT !.step = "ok", !.session = s]
<1>1. task \in [Op -> Task] /\ Formed(task[o])
  BY DEF TaskInv, TypeOK
<1>2. /\ t.kind = "connect" /\ t.step = "ok" /\ t.session = s
      /\ t.database = task[o].database /\ t \in Task
  BY <1>1 DEF Task
<1>3. task' = [task EXCEPT ![o] = t]
  OBVIOUS
<1> HIDE DEF t
<1>4. Formed(t)
  BY <1>1, <1>2 DEF Formed
<1>5. task'[o] = t /\ Turns(o)
  BY <1>1, <1>2, <1>3, <1>4 DEF Turns
<1> QED
  BY <1>2, <1>5

\* What the form of a task says of the handlers that read it.
LEMMA FormKnown ==
  ASSUME TaskInv, NEW o \in Op
  PROVE  /\ task[o] \in Task /\ Formed(task[o])
         /\ task[o].kind \in {"none", "connect", "refresh", "mode", "finish", "profile"}
                               \cup Closing \cup Statement
         /\ task[o].step \in {"prompt", "sent", "ok", "failed"}
         /\ task[o].session \in Session \cup {None}
         /\ task[o].database \in Database \cup {None}
         /\ None \notin Session /\ None \notin Database
  BY ClientTabAssumption DEF TaskInv, TypeOK, Task

-----------------------------------------------------------------------------
(* What each action does to the handlers; and that it keeps their form.     *)

\* The handlers that Begins starts in an action of the page.
Started(o, kind, step, s, d) ==
    /\ Turns(o) /\ task[o].kind = "none"
    /\ task'[o].kind = kind /\ task'[o].step = step
    /\ task'[o].session = s /\ task'[o].database = d

\* An answer comes: the handler keeps all but its step.
Answers(o, step) ==
    /\ Turns(o) /\ task'[o].kind = task[o].kind /\ task'[o].step = step
    /\ task'[o].session = task[o].session /\ task'[o].asked = task[o].asked
    /\ task'[o].database = task[o].database

\* The handler ends.
Ended(o) == Turns(o) /\ task'[o] = Idle

Continues(o, kind, s) ==
    /\ Turns(o) /\ task'[o].kind = kind /\ task'[o].step = "sent"
    /\ task'[o].session = s /\ task'[o].database = task[o].database

LEMMA TurnsForm ==
  ASSUME TaskInv, TypeOK', NEW o \in Op, Turns(o)
  PROVE  TaskInv'
<1>1. \A q \in Op : Formed(task'[q])
  BY DEF Turns, TaskInv
<1> QED
  BY <1>1 DEF TaskInv, Formed

LEMMA SameForm ==
  ASSUME TaskInv, TypeOK', task' = task
  PROVE  TaskInv'
  BY DEF TaskInv, Formed

\* Driver requests.
LEMMA AttachesFacts ==
  ASSUME TaskInv, NEW o \in Op, Attaches(o)
  PROVE  /\ TypeOK' /\ Turns(o)
         /\ task[o].kind = "connect" /\ task[o].step = "sent" /\ task[o].session = None
         /\ task[o].database \in Database
         /\ task'[o].kind = "connect" /\ task'[o].step \in {"ok", "failed"}
         /\ task'[o].database = task[o].database
         /\ \/ \E s \in Session :
                 /\ Unused(s)
                 /\ attached' = attached \cup {s}
                 /\ database' = [database EXCEPT ![s] = task[o].database]
                 /\ \/ task'[o].session = s /\ task'[o].step = "ok" /\ leaked' = leaked
                    \/ task'[o].session = None /\ leaked' = leaked \cup {s}
            \/ UNCHANGED <<attached, database, leaked>>
<1>1. /\ task[o].kind = "connect" /\ task[o].step = "sent" /\ task[o].session = None
      /\ task[o].database \in Database
  BY FormKnown DEF Attaches, Sent, Formed
<1>2. ASSUME NEW s \in Session, Unused(s), attached' = attached \cup {s},
             database' = [database EXCEPT ![s] = task[o].database],
             task' = [task EXCEPT ![o].step = "ok", ![o].session = s], leaked' = leaked,
             UNCHANGED <<manual, transaction, tab, overlapped, outlived, stranded, unseen>>
      PROVE  /\ TypeOK' /\ Turns(o) /\ task'[o].session = s /\ task'[o].step = "ok"
             /\ task'[o].kind = "connect" /\ task'[o].database = task[o].database
  <2>1. /\ Turns(o) /\ task'[o].session = s /\ task'[o].step = "ok"
        /\ task'[o].kind = "connect" /\ task'[o].database = task[o].database
    BY <1>1, <1>2, AttachedTurns
  <2> QED
    BY <2>1, <1>1, <1>2 DEF TaskInv, TypeOK, Turns, tab
<1>3. ASSUME NEW s \in Session, Unused(s), attached' = attached \cup {s},
             database' = [database EXCEPT ![s] = task[o].database],
             Settles(o, "failed"), leaked' = leaked \cup {s},
             UNCHANGED <<manual, transaction, tab, overlapped, outlived, stranded, unseen>>
      PROVE  TypeOK' /\ Answers(o, "failed")
  <2>1. Answers(o, "failed")
    BY <1>1, <1>3, SettlesTurns DEF Answers
  <2> QED
    BY <2>1, <1>1, <1>3 DEF TaskInv, TypeOK, Turns, Answers, tab
<1>4. ASSUME Settles(o, "failed"), UNCHANGED <<attached, database, leaked>>,
             UNCHANGED <<manual, transaction, tab, overlapped, outlived, stranded, unseen>>
      PROVE  TypeOK' /\ Answers(o, "failed")
  <2>1. Answers(o, "failed")
    BY <1>1, <1>4, SettlesTurns DEF Answers
  <2> QED
    BY <2>1, <1>4 DEF TaskInv, TypeOK, Turns, Answers, tab
<1>5. CASE \E s \in Session :
             /\ Unused(s)
             /\ attached' = attached \cup {s}
             /\ database' = [database EXCEPT ![s] = task[o].database]
             /\ \/ /\ task' = [task EXCEPT ![o].step = "ok", ![o].session = s]
                   /\ UNCHANGED leaked
                \/ /\ Settles(o, "failed")
                   /\ leaked' = leaked \cup {s}
  BY <1>1, <1>2, <1>3, <1>5 DEF Attaches, Answers
<1>6. CASE Settles(o, "failed") /\ UNCHANGED <<attached, database, leaked>>
  BY <1>1, <1>4, <1>6 DEF Attaches, Answers
<1> QED
  BY <1>5, <1>6 DEF Attaches

\* What a batch leaves in a transaction.
LEMMA BatchKept ==
  ASSUME TaskInv, NEW s \in attached, execute_batch(s)
  PROVE  /\ transaction' \in [Session -> {"none", "open", "work"}]
         /\ \A r \in Session : transaction'[r] # "none" => r \in attached
         /\ \A r \in Session \ {s} : transaction'[r] = transaction[r]
         /\ transaction[s] = "work" => transaction'[s] = "work"
<1>1. s \in Session /\ transaction \in [Session -> {"none", "open", "work"}]
  BY DEF TaskInv, TypeOK
<1> QED
  BY <1>1 DEF execute_batch, TaskInv, TypeOK

LEMMA ExecutesFacts ==
  ASSUME TaskInv, NEW o \in Op, Executes(o)
  PROVE  /\ TypeOK'
         /\ task[o].kind \in Statement /\ task[o].step = "sent" /\ task[o].session \in Session
         /\ Answers(o, "ok") \/ Answers(o, "failed")
         /\ \/ /\ task[o].session \in attached
               /\ execute_batch(task[o].session)
               /\ \/ Answers(o, "ok") /\ task[o].kind = "execute" /\ unseen' = unseen
                  \/ unseen' = unseen \cup {task[o].session}
            \/ task[o].session \notin attached /\ UNCHANGED <<transaction, unseen>>
<1>1. task[o].kind \in Statement /\ task[o].step = "sent"
  BY DEF Executes, Sent
<1>2. task[o].session \in Session /\ task[o].kind \notin {"none", "connect", "profile"}
  BY <1>1, FormKnown DEF Formed, Statement
<1> DEFINE s == task[o].session
<1>3. CASE /\ s \in attached
           /\ execute_batch(s)
           /\ \E a \in {"ok", "failed"} :
                 /\ Settles(o, a)
                 /\ unseen' = IF a = "ok" /\ task[o].kind = "execute"
                              THEN unseen ELSE unseen \cup {s}
  <2>1. PICK a \in {"ok", "failed"} :
           /\ Settles(o, a)
           /\ unseen' = IF a = "ok" /\ task[o].kind = "execute"
                        THEN unseen ELSE unseen \cup {s}
    BY <1>3
  <2>2. Answers(o, a)
    BY <1>2, <2>1, SettlesTurns DEF Answers
  <2>3. /\ transaction' \in [Session -> {"none", "open", "work"}]
        /\ \A r \in Session : transaction'[r] # "none" => r \in attached
    BY <1>3, BatchKept
  <2>4. TypeOK'
    BY <1>3, <2>1, <2>2, <2>3 DEF TaskInv, TypeOK, Executes, Answers, Turns, tab
  <2> QED
    BY <1>1, <1>2, <1>3, <2>1, <2>2, <2>4
<1>4. CASE s \notin attached /\ Settles(o, "failed") /\ UNCHANGED <<transaction, unseen>>
  <2>1. Answers(o, "failed")
    BY <1>2, <1>4, SettlesTurns DEF Answers
  <2>2. TypeOK'
    BY <1>4, <2>1 DEF TaskInv, TypeOK, Executes, Answers, Turns, tab
  <2> QED
    BY <1>1, <1>2, <1>4, <2>1, <2>2
<1> QED
  BY <1>3, <1>4 DEF Executes

LEMMA StatusFacts ==
  ASSUME TaskInv, NEW o \in Op, transaction_status(o)
  PROVE  /\ TypeOK'
         /\ task[o].kind = "refresh" /\ task[o].step = "sent" /\ task[o].session \in Session
         /\ \/ /\ task[o].session \in attached /\ Answers(o, "ok")
               /\ task'[o].status = StatusOf(transaction[task[o].session])
               /\ unseen' = unseen
            \/ /\ Answers(o, "failed")
               /\ unseen' = unseen \cup ({task[o].session} \cap attached)
<1>1. task[o].kind = "refresh" /\ task[o].step = "sent"
  BY DEF transaction_status, Sent
<1>2. task[o].session \in Session
  BY <1>1, FormKnown DEF Formed
<1> DEFINE s == task[o].session
<1>3. CASE /\ s \in attached
           /\ task' = [task EXCEPT ![o].step = "ok",
                                   ![o].status = StatusOf(transaction[s])]
           /\ UNCHANGED unseen
  <2>1. StatusOf(transaction[s]) \in {"clean", "work"}
    BY DEF StatusOf
  <2>2. Answers(o, "ok") /\ task'[o].status = StatusOf(transaction[s])
    <3> DEFINE st == StatusOf(transaction[s])
    <3>1. st \in {"clean", "work"} /\ task' = [task EXCEPT ![o].step = "ok", ![o].status = st]
      BY <1>3, <2>1
    <3> HIDE DEF st
    <3>2. Answers(o, "ok") /\ task'[o].status = st
      BY <1>1, <3>1, StatusTurns DEF Answers
    <3> QED
      BY <3>2 DEF st
  <2>3. TypeOK'
    BY <1>3, <2>2 DEF TaskInv, TypeOK, transaction_status, Answers, Turns, driver, tab
  <2> QED
    BY <1>1, <1>2, <1>3, <2>2, <2>3
<1>4. CASE Settles(o, "failed") /\ unseen' = unseen \cup ({s} \cap attached)
  <2>1. Answers(o, "failed")
    BY <1>1, <1>4, SettlesTurns DEF Answers
  <2>2. TypeOK'
    BY <1>4, <2>1 DEF TaskInv, TypeOK, transaction_status, Answers, Turns, driver, tab
  <2> QED
    BY <1>1, <1>2, <1>4, <2>1, <2>2
<1> QED
  BY <1>3, <1>4 DEF transaction_status

LEMMA ModeFacts ==
  ASSUME TaskInv, NEW o \in Op, set_transaction_mode(o)
  PROVE  /\ TypeOK'
         /\ task[o].kind = "mode" /\ task[o].step = "sent" /\ task[o].session \in Session
         /\ \/ Answers(o, "ok") /\ transaction[task[o].session] = "none"
            \/ Answers(o, "failed")
<1>1. task[o].kind = "mode" /\ task[o].step = "sent"
  BY DEF set_transaction_mode, Sent
<1>2. task[o].session \in Session
  BY <1>1, FormKnown DEF Formed
<1> DEFINE s == task[o].session
<1>3. \/ Answers(o, "ok") /\ transaction[s] = "none"
      \/ Answers(o, "failed")
  <2>1. CASE Settles(o, "failed")
    BY <1>1, <2>1, SettlesTurns DEF Answers
  <2>2. CASE /\ task' = [task EXCEPT ![o].step = "ok", ![o].status = "clean"]
             /\ transaction[s] = "none"
    BY <1>1, <2>2, StatusTurns DEF Answers
  <2> QED
    BY <2>1, <2>2 DEF set_transaction_mode
<1>4. manual' \subseteq attached'
  <2>1. manual \subseteq attached /\ attached' = attached
    BY DEF set_transaction_mode, TaskInv, TypeOK
  <2> QED
    BY <2>1 DEF set_transaction_mode
<1>5. TypeOK'
  BY <1>3, <1>4 DEF TaskInv, TypeOK, set_transaction_mode, Answers, Turns, tab, history
<1> QED
  BY <1>1, <1>2, <1>3, <1>5

LEMMA FinishFacts ==
  ASSUME TaskInv, NEW o \in Op, FinishesTransaction(o)
  PROVE  /\ TypeOK'
         /\ task[o].kind = "finish" /\ task[o].step = "sent" /\ task[o].session \in Session
         /\ \/ /\ Answers(o, "ok") \/ Answers(o, "failed")
               /\ transaction' = [transaction EXCEPT ![task[o].session] = "none"]
               /\ unseen' = unseen \ {task[o].session}
            \/ Answers(o, "failed") /\ UNCHANGED <<transaction, unseen>>
<1>1. task[o].kind = "finish" /\ task[o].step = "sent"
  BY DEF FinishesTransaction, Sent
<1>2. task[o].session \in Session
  BY <1>1, FormKnown DEF Formed
<1> DEFINE s == task[o].session
<1>3. CASE /\ s \in attached
           /\ transaction' = [transaction EXCEPT ![s] = "none"]
           /\ unseen' = unseen \ {s}
           /\ \/ task' = [task EXCEPT ![o].step = "ok", ![o].status = "clean"]
              \/ Settles(o, "failed")
  <2>1. Answers(o, "ok") \/ Answers(o, "failed")
    BY <1>1, <1>3, StatusTurns, SettlesTurns DEF Answers
  <2>2. TypeOK'
    BY <1>3, <2>1 DEF TaskInv, TypeOK, FinishesTransaction, Answers, Turns, tab
  <2> QED
    BY <1>1, <1>2, <1>3, <2>1, <2>2
<1>4. CASE Settles(o, "failed") /\ UNCHANGED <<transaction, unseen>>
  <2>1. Answers(o, "failed")
    BY <1>1, <1>4, SettlesTurns DEF Answers
  <2>2. TypeOK'
    BY <1>4, <2>1 DEF TaskInv, TypeOK, FinishesTransaction, Answers, Turns, tab
  <2> QED
    BY <1>1, <1>2, <1>4, <2>1, <2>2
<1> QED
  BY <1>3, <1>4 DEF FinishesTransaction

LEMMA ClosesFacts ==
  ASSUME TaskInv, NEW o \in Op, Closes(o)
  PROVE  /\ TypeOK'
         /\ task[o].kind \in Closing /\ task[o].step = "sent" /\ task[o].session \in Session
         /\ \/ Detaches(task[o].session) /\ (Answers(o, "ok") \/ Answers(o, "failed"))
            \/ /\ Answers(o, "failed")
               /\ leaked' = IF task[o].kind = "tabclose" /\ task[o].session \in attached
                            THEN leaked \cup {task[o].session} ELSE leaked
               /\ UNCHANGED <<attached, transaction, unseen>>
<1>1. task[o].kind \in Closing /\ task[o].step = "sent"
  BY DEF Closes, Sent
<1>2. task[o].session \in Session /\ task[o].kind \notin {"none", "connect", "profile"}
  BY <1>1, FormKnown DEF Formed, Closing
<1> DEFINE s == task[o].session
<1>3. CASE s \in attached /\ Detaches(s) /\ \E a \in {"ok", "failed"} : Settles(o, a)
  <2>1. Answers(o, "ok") \/ Answers(o, "failed")
    BY <1>2, <1>3, SettlesTurns DEF Answers
  <2>2. TypeOK'
    BY <1>3, <2>1 DEF TaskInv, TypeOK, Closes, Detaches, Answers, Turns, tab
  <2> QED
    BY <1>1, <1>2, <1>3, <2>1, <2>2
<1>4. CASE /\ Settles(o, "failed")
           /\ leaked' = IF task[o].kind = "tabclose" /\ s \in attached
                        THEN leaked \cup {s} ELSE leaked
           /\ UNCHANGED <<attached, manual, transaction, unseen>>
  <2>1. Answers(o, "failed")
    BY <1>2, <1>4, SettlesTurns DEF Answers
  <2>2. leaked' \subseteq attached
    BY <1>4 DEF TaskInv, TypeOK
  <2>3. TypeOK'
    BY <1>4, <2>1, <2>2 DEF TaskInv, TypeOK, Closes, Answers, Turns, tab
  <2> QED
    BY <1>1, <1>2, <1>4, <2>1, <2>3
<1> QED
  BY <1>3, <1>4 DEF Closes

\* The driver by itself, and plugins.
LEMMA ExpiresForm ==
  ASSUME TaskInv, NEW s \in Session, Expires(s)
  PROVE  TypeOK' /\ task' = task
  BY DEF TaskInv, TypeOK, Expires, Detaches, tab

LEMMA PluginCallsForm ==
  ASSUME TaskInv, NEW s \in Session, PluginCalls(s)
  PROVE  TypeOK' /\ task' = task
<1>1. /\ transaction' \in [Session -> {"none", "open", "work"}]
      /\ \A r \in Session : transaction'[r] # "none" => r \in attached
      /\ unseen' \subseteq attached
  <2>1. CASE db_execute(s)
    BY <2>1, BatchKept DEF PluginCalls, db_execute, TaskInv, TypeOK
  <2>2. CASE db_tx_begin(s) \/ db_tx_finish(s)
    BY <2>2 DEF PluginCalls, db_tx_begin, db_tx_finish, TaskInv, TypeOK
  <2> QED
    BY <2>1, <2>2 DEF PluginCalls
<1>2. overlapped' \in BOOLEAN
  BY DEF PluginCalls
<1> QED
  BY <1>1, <1>2 DEF PluginCalls, TaskInv, TypeOK, tab

\* The page: handlers that start.
LEMMA ConnectFacts ==
  ASSUME TaskInv, NEW o \in Op, useConnectionActions(o)
  PROVE  /\ TypeOK' /\ sessionId \notin attached
         /\ \E d \in Database :
               /\ Begins(o, "connect", "sent", None, FALSE, d)
               /\ Started(o, "connect", "sent", None, d)
<1>1. PICK d \in Database : Begins(o, "connect", "sent", None, FALSE, d)
  BY DEF useConnectionActions, TaskInv, TypeOK
<1>2. Started(o, "connect", "sent", None, d) /\ overlapped' \in BOOLEAN
  BY <1>1, BeginsTurns DEF Started
<1>3. sessionId \notin attached
  BY ClientTabAssumption DEF useConnectionActions, TaskInv, TypeOK
<1>4. TypeOK'
  BY <1>2 DEF TaskInv, TypeOK, useConnectionActions, Started, Turns, driver
<1> QED
  BY <1>1, <1>2, <1>3, <1>4

\* A handler that starts for the tab's session.
LEMMA SessionBegins ==
  ASSUME TaskInv, NEW o \in Op, NEW step \in {"prompt", "sent"}, NEW asked \in BOOLEAN,
         NEW kind \in {"mode", "finish"} \cup Closing \cup Statement,
         Begins(o, kind, step, sessionId, asked, database[sessionId]),
         sessionId # None, step = "prompt" => kind = "execute"
  PROVE  /\ Started(o, kind, step, sessionId, database[sessionId])
         /\ task'[o].asked = asked /\ overlapped' \in BOOLEAN
         /\ task' \in [Op -> Task] /\ sessionId \in Session
<1>1. sessionId \in Session /\ database[sessionId] \in Database
  BY DEF TaskInv, TypeOK
<1>2. /\ kind \in {"connect", "mode", "finish", "profile"} \cup Closing \cup Statement
      /\ kind \notin {"connect", "profile"}
  BY DEF Closing, Statement
<1>3. /\ Turns(o) /\ task[o].kind = "none"
      /\ task'[o].kind = kind /\ task'[o].step = step /\ task'[o].session = sessionId
      /\ task'[o].asked = asked /\ task'[o].database = database[sessionId]
      /\ overlapped' \in BOOLEAN
  BY <1>1, <1>2, BeginsTurns
<1> QED
  BY <1>1, <1>3 DEF Started, Turns

LEMMA StartsFacts ==
  ASSUME TaskInv, NEW o \in Op, NEW kind \in {"mode", "finish"}
  PROVE  /\ handleExecute(o) =>
              /\ TypeOK' /\ Started(o, "execute", "prompt", sessionId, database[sessionId])
         /\ StatementAside(o) =>
              /\ TypeOK' /\ Started(o, "aside", "sent", sessionId, database[sessionId])
         /\ handleBrowseTable(o) =>
              /\ TypeOK' /\ Started(o, "browse", "sent", sessionId, database[sessionId])
         /\ TransactionControl(o, kind) =>
              /\ TypeOK' /\ Started(o, kind, "sent", sessionId, database[sessionId])
         /\ handleDisconnect(o) =>
              /\ TypeOK' /\ Started(o, "disconnect", "sent", sessionId, database[sessionId])
              /\ task'[o].asked = (txStatus = "work")
         /\ handleAbandon(o) =>
              /\ TypeOK' /\ Started(o, "abandon", "sent", sessionId, database[sessionId])
              /\ task'[o].asked = (txStatus = "work")
<1>1. ASSUME handleExecute(o)
      PROVE  TypeOK' /\ Started(o, "execute", "prompt", sessionId, database[sessionId])
  BY <1>1, SessionBegins DEF handleExecute, Statement, TaskInv, TypeOK, driver, tab
<1>2. ASSUME StatementAside(o)
      PROVE  TypeOK' /\ Started(o, "aside", "sent", sessionId, database[sessionId])
  BY <1>2, SessionBegins DEF StatementAside, Statement, TaskInv, TypeOK, driver, tab
<1>3. ASSUME handleBrowseTable(o)
      PROVE  TypeOK' /\ Started(o, "browse", "sent", sessionId, database[sessionId])
  BY <1>3, SessionBegins DEF handleBrowseTable, Statement, TaskInv, TypeOK, driver
<1>4. ASSUME TransactionControl(o, kind)
      PROVE  TypeOK' /\ Started(o, kind, "sent", sessionId, database[sessionId])
  BY <1>4, SessionBegins DEF TransactionControl, TaskInv, TypeOK, driver
<1>5. ASSUME handleDisconnect(o)
      PROVE  /\ TypeOK' /\ Started(o, "disconnect", "sent", sessionId, database[sessionId])
             /\ task'[o].asked = (txStatus = "work")
  BY <1>5, SessionBegins
  DEF handleDisconnect, confirmDiscardTx, Closing, TaskInv, TypeOK, driver
<1>6. ASSUME handleAbandon(o)
      PROVE  /\ TypeOK' /\ Started(o, "abandon", "sent", sessionId, database[sessionId])
             /\ task'[o].asked = (txStatus = "work")
  BY <1>6, SessionBegins
  DEF handleAbandon, confirmDiscardTx, Closing, TaskInv, TypeOK, driver, tab
<1> QED
  BY <1>1, <1>2, <1>3, <1>4, <1>5, <1>6

LEMMA ProfileFacts ==
  ASSUME TaskInv, NEW o \in Op
  PROVE  /\ HandleProfile(o) => TypeOK' /\ Started(o, "profile", "sent", None, None)
         /\ ProfileReturns(o) => TypeOK' /\ Ended(o) /\ task[o].kind = "profile"
<1>1. ASSUME HandleProfile(o)
      PROVE  TypeOK' /\ Started(o, "profile", "sent", None, None)
  <2>1. Started(o, "profile", "sent", None, None) /\ overlapped' \in BOOLEAN
    <3>1. Begins(o, "profile", "sent", None, FALSE, None)
      BY <1>1 DEF HandleProfile
    <3> DEFINE kind == "profile"  d == None  s == None
    <3>2. /\ kind \in {"connect", "mode", "finish", "profile"} \cup Closing \cup Statement
          /\ s \in Session \cup {None} /\ d \in Database \cup {None}
          /\ IF kind \in {"connect", "profile"} THEN s = None ELSE s \in Session
          /\ kind # "profile" => d \in Database
          /\ Begins(o, kind, "sent", s, FALSE, d)
      BY <3>1
    <3> HIDE DEF kind, d, s
    <3>3. Started(o, kind, "sent", s, d) /\ overlapped' \in BOOLEAN
      BY <3>2, BeginsTurns DEF Started
    <3> QED
      BY <3>3 DEF kind, d, s
  <2> QED
    BY <1>1, <2>1 DEF HandleProfile, Started, Turns, TaskInv, TypeOK, driver
<1>2. ASSUME ProfileReturns(o)
      PROVE  TypeOK' /\ Ended(o) /\ task[o].kind = "profile"
  <2>1. Ended(o)
    BY <1>2, EndsTurns DEF ProfileReturns, Ended
  <2> QED
    BY <1>2, <2>1
    DEF ProfileReturns, Ended, Turns, Sent, Patched, TaskInv, TypeOK, driver, history
<1> QED
  BY <1>1, <1>2

\* The page: answers.
LEMMA MovesTyped ==
  ASSUME TaskInv, NEW s \in Session \cup {None}, Moves(s)
  PROVE  sessionId' = s /\ outlived' \in BOOLEAN /\ (outlived => outlived')
  BY DEF Moves, TaskInv, TypeOK

LEMMA OnConnectedFacts ==
  ASSUME TaskInv, NEW o \in Op, onConnected(o)
  PROVE  /\ TypeOK' /\ task[o].kind = "connect"
         /\ \/ /\ Ok(o) /\ tabOpen
               /\ task[o].session \in Session /\ Moves(task[o].session)
               /\ txStatus' = "none" /\ busy' = FALSE /\ leaked' = leaked
               /\ Continues(o, "refresh", task[o].session)
            \/ /\ ~(Ok(o) /\ tabOpen) /\ Ended(o)
               /\ leaked' = IF Ok(o) THEN leaked \cup ({task[o].session} \cap attached)
                            ELSE leaked
               /\ UNCHANGED <<sessionId, txStatus, outlived>>
<1>1. task[o].kind = "connect" /\ task[o].step \in {"ok", "failed"}
  BY DEF onConnected, Answered
<1>2. CASE Ok(o) /\ tabOpen
  <2>1. task[o].session \in Session
    BY <1>1, <1>2, FormKnown DEF Ok, Formed
  <2>2. /\ Moves(task[o].session) /\ GoesOn(o, "refresh", task[o].session)
        /\ txStatus' = "none" /\ busy' = FALSE /\ leaked' = leaked
    BY <1>2 DEF onConnected, Patched
  <2>3. Continues(o, "refresh", task[o].session)
    BY <1>1, <2>1, <2>2, GoesOnTurns DEF Continues
  <2>4. sessionId' = task[o].session /\ outlived' \in BOOLEAN
    BY <2>1, <2>2, MovesTyped
  <2>5. TypeOK'
    BY <2>1, <2>2, <2>3, <2>4 DEF onConnected, Continues, Turns, TaskInv, TypeOK, driver
  <2> QED
    BY <1>1, <1>2, <2>1, <2>2, <2>3, <2>5
<1>3. CASE ~(Ok(o) /\ tabOpen)
  <2>1. Ended(o)
    BY <1>3, EndsTurns DEF onConnected, Ended
  <2>2. /\ leaked' = IF Ok(o) THEN leaked \cup ({task[o].session} \cap attached)
                     ELSE leaked
        /\ UNCHANGED <<sessionId, txStatus, outlived>>
    BY <1>3 DEF onConnected
  <2>3. busy' \in BOOLEAN
    BY DEF onConnected, Patched, TaskInv, TypeOK
  <2>4. TypeOK'
    BY <2>1, <2>2, <2>3 DEF onConnected, Ended, Turns, TaskInv, TypeOK, driver
  <2> QED
    BY <1>1, <1>3, <2>1, <2>2, <2>4
<1> QED
  BY <1>2, <1>3

LEMMA RefreshFacts ==
  ASSUME TaskInv, NEW o \in Op, refreshTxStatus(o)
  PROVE  TypeOK' /\ Ended(o) /\ task[o].kind = "refresh"
<1>1. task[o].kind = "refresh" /\ Ended(o)
  BY EndsTurns DEF refreshTxStatus, Answered, Ended
<1>2. task[o].status \in {"none", "clean", "work"}
  BY FormKnown DEF Task
<1>3. txStatus' \in {"none", "clean", "work"} /\ unseen' \subseteq attached
  BY <1>2 DEF refreshTxStatus, Patched, TaskInv, TypeOK
<1> QED
  BY <1>1, <1>3 DEF refreshTxStatus, Ended, Turns, TaskInv, TypeOK, driver

LEMMA ResolveFacts ==
  ASSUME TaskInv, NEW o \in Op, resolveStatement(o)
  PROVE  /\ TypeOK' /\ task[o].kind = "execute" /\ task[o].step = "prompt"
         /\ \/ Ended(o) /\ UNCHANGED <<busy, stranded>>
            \/ /\ Answers(o, "sent")
               /\ busy' = Patched(busy, TRUE)
               /\ stranded' = (stranded \/ isStaleSession(task[o].session))
<1>1. task[o].kind = "execute" /\ task[o].step = "prompt"
  BY DEF resolveStatement
<1>2. CASE Ends(o) /\ UNCHANGED <<busy, stranded>>
  <2>1. Ended(o)
    BY <1>2, EndsTurns DEF Ended
  <2> QED
    BY <1>1, <1>2, <2>1 DEF resolveStatement, Ended, Turns, TaskInv, TypeOK, driver
<1>3. CASE /\ Settles(o, "sent")
           /\ busy' = Patched(busy, TRUE)
           /\ stranded' = (stranded \/ isStaleSession(task[o].session))
  <2>1. Answers(o, "sent")
    BY <1>1, <1>3, SettlesTurns DEF Answers
  <2>2. busy' \in BOOLEAN /\ stranded' \in BOOLEAN
    BY <1>3 DEF Patched, TaskInv, TypeOK
  <2> QED
    BY <1>1, <1>3, <2>1, <2>2
    DEF resolveStatement, Answers, Turns, TaskInv, TypeOK, driver
<1> QED
  BY <1>2, <1>3 DEF resolveStatement

LEMMA ExecuteReturnsFacts ==
  ASSUME TaskInv, NEW o \in Op, ExecuteReturns(o)
  PROVE  /\ TypeOK' /\ task[o].kind = "execute" /\ task[o].session \in Session
         /\ \/ /\ Ok(o) /\ results' = Patched(results, task[o].database)
               /\ Continues(o, "refresh", task[o].session)
            \/ ~Ok(o) /\ Ended(o) /\ results' = results
<1>1. task[o].kind = "execute"
  BY DEF ExecuteReturns, Answered
<1>2. task[o].session \in Session /\ task[o].database \in Database
  BY <1>1, FormKnown DEF Formed
<1>3. busy' \in BOOLEAN
  BY DEF ExecuteReturns, TaskInv, TypeOK
<1>4. CASE Ok(o)
  <2>1. /\ results' = Patched(results, task[o].database)
        /\ Continues(o, "refresh", task[o].session)
    BY <1>1, <1>2, <1>4, GoesOnTurns DEF ExecuteReturns, Continues
  <2>2. results' \in Database \cup {None}
    BY <1>2, <2>1 DEF Patched, TaskInv, TypeOK
  <2> QED
    BY <1>1, <1>2, <1>3, <1>4, <2>1, <2>2
    DEF ExecuteReturns, Continues, Turns, TaskInv, TypeOK, driver, history
<1>5. CASE ~Ok(o)
  <2>1. Ended(o) /\ results' = results
    BY <1>5, EndsTurns DEF ExecuteReturns, Ended
  <2> QED
    BY <1>1, <1>2, <1>3, <1>5, <2>1
    DEF ExecuteReturns, Ended, Turns, TaskInv, TypeOK, driver, history
<1> QED
  BY <1>4, <1>5

LEMMA ReturnsFacts ==
  ASSUME TaskInv, NEW o \in Op
  PROVE  /\ AsideReturns(o) => TypeOK' /\ Ended(o) /\ task[o].kind = "aside"
         /\ BrowseReturns(o) => TypeOK' /\ Ended(o) /\ task[o].kind = "browse"
         /\ TransactionReturns(o) =>
              TypeOK' /\ Ended(o) /\ task[o].kind \in {"mode", "finish"}
         /\ TabCloseReturns(o) => TypeOK' /\ Ended(o) /\ task[o].kind = "tabclose"
<1>1. ASSUME AsideReturns(o)
      PROVE  TypeOK' /\ Ended(o) /\ task[o].kind = "aside"
  <2>1. Ended(o) /\ task[o].kind = "aside"
    BY <1>1, EndsTurns DEF AsideReturns, Answered, Ended
  <2> QED
    BY <1>1, <2>1
    DEF AsideReturns, Ended, Turns, TaskInv, TypeOK, driver, tab, history
<1>2. ASSUME BrowseReturns(o)
      PROVE  TypeOK' /\ Ended(o) /\ task[o].kind = "browse"
  <2>1. Ended(o) /\ task[o].kind = "browse"
    BY <1>2, EndsTurns DEF BrowseReturns, Answered, Ended
  <2>2. task[o].database \in Database
    BY <2>1, FormKnown DEF Formed
  <2>3. results' \in Database \cup {None} /\ busy' \in BOOLEAN
    BY <1>2, <2>2 DEF BrowseReturns, Patched, TaskInv, TypeOK
  <2> QED
    BY <1>2, <2>1, <2>3
    DEF BrowseReturns, Ended, Turns, TaskInv, TypeOK, driver, history
<1>3. ASSUME TransactionReturns(o)
      PROVE  TypeOK' /\ Ended(o) /\ task[o].kind \in {"mode", "finish"}
  <2>1. Ended(o) /\ task[o].kind \in {"mode", "finish"}
    BY <1>3, EndsTurns DEF TransactionReturns, Answered, Ended
  <2>2. task[o].status \in {"none", "clean", "work"}
    BY FormKnown DEF Task
  <2>3. txStatus' \in {"none", "clean", "work"} /\ busy' \in BOOLEAN
    BY <1>3, <2>2 DEF TransactionReturns, Patched, TaskInv, TypeOK
  <2> QED
    BY <1>3, <2>1, <2>3
    DEF TransactionReturns, Ended, Turns, TaskInv, TypeOK, driver, history
<1>4. ASSUME TabCloseReturns(o)
      PROVE  TypeOK' /\ Ended(o) /\ task[o].kind = "tabclose"
  <2>1. Ended(o) /\ task[o].kind = "tabclose"
    BY <1>4, EndsTurns DEF TabCloseReturns, Answered, Ended
  <2> QED
    BY <1>4, <2>1
    DEF TabCloseReturns, Ended, Turns, TaskInv, TypeOK, driver, tab, history
<1> QED
  BY <1>1, <1>2, <1>3, <1>4

LEMMA DisconnectFacts ==
  ASSUME TaskInv, NEW o \in Op, DisconnectReturns(o)
  PROVE  TypeOK' /\ Ended(o) /\ task[o].kind = "disconnect"
<1>1. Ended(o) /\ task[o].kind = "disconnect"
  BY EndsTurns DEF DisconnectReturns, Answered, Ended
<1>2. busy' \in BOOLEAN
  BY DEF DisconnectReturns, Patched, TaskInv, TypeOK
<1>3. CASE Ok(o) /\ tabOpen
  <2>1. Moves(None) /\ results' = None /\ txStatus' = "none"
    BY <1>3 DEF DisconnectReturns
  <2>2. sessionId' = None /\ outlived' \in BOOLEAN
    BY <2>1, MovesTyped
  <2> QED
    BY <1>1, <1>2, <2>1, <2>2 DEF DisconnectReturns, Ended, Turns, TaskInv, TypeOK, driver
<1>4. CASE ~(Ok(o) /\ tabOpen)
  <2>1. UNCHANGED <<sessionId, results, txStatus, outlived>>
    BY <1>4 DEF DisconnectReturns
  <2> QED
    BY <1>1, <1>2, <2>1 DEF DisconnectReturns, Ended, Turns, TaskInv, TypeOK, driver
<1> QED
  BY <1>3, <1>4

LEMMA AbandonFacts ==
  ASSUME TaskInv, NEW o \in Op, AbandonReturns(o)
  PROVE  /\ TypeOK' /\ task[o].kind = "abandon" /\ task[o].session \in Session
         /\ \/ Ok(o) /\ tabOpen /\ Continues(o, "connect", None) /\ busy' = TRUE
            \/ ~(Ok(o) /\ tabOpen) /\ Ended(o) /\ busy' = busy
<1>1. task[o].kind = "abandon"
  BY DEF AbandonReturns, Answered
<1>2. task[o].session \in Session
  BY <1>1, FormKnown DEF Formed
<1>3. CASE Ok(o) /\ tabOpen
  <2>1. Continues(o, "connect", None) /\ busy' = TRUE
    BY <1>1, <1>3, GoesOnTurns DEF AbandonReturns, Continues
  <2> QED
    BY <1>1, <1>2, <1>3, <2>1
    DEF AbandonReturns, Continues, Turns, TaskInv, TypeOK, driver, history
<1>4. CASE ~(Ok(o) /\ tabOpen)
  <2>1. Ended(o) /\ busy' = busy
    BY <1>4, EndsTurns DEF AbandonReturns, Ended
  <2> QED
    BY <1>1, <1>2, <1>4, <2>1
    DEF AbandonReturns, Ended, Turns, TaskInv, TypeOK, driver, history
<1> QED
  BY <1>3, <1>4

LEMMA TabCloseFacts ==
  ASSUME TaskInv, NEW o \in Op, handleTabClose(o)
  PROVE  /\ TypeOK'
         /\ \/ sessionId = None /\ UNCHANGED <<task, overlapped>>
            \/ /\ Started(o, "tabclose", "sent", sessionId, database[sessionId])
               /\ Begins(o, "tabclose", "sent", sessionId, confirmDiscardTx,
                         database[sessionId])
               /\ task'[o].asked = (txStatus = "work") /\ sessionId \in Session
<1>1. sessionId' = None /\ outlived' \in BOOLEAN
  BY MovesTyped DEF handleTabClose
<1>2. CASE sessionId = None
  <2>1. UNCHANGED <<task, overlapped>>
    BY <1>2 DEF handleTabClose
  <2> QED
    BY <1>1, <1>2, <2>1 DEF handleTabClose, TaskInv, TypeOK, driver
<1>3. CASE sessionId # None
  <2>1. Begins(o, "tabclose", "sent", sessionId, confirmDiscardTx, database[sessionId])
    BY <1>3 DEF handleTabClose
  <2>2. confirmDiscardTx \in BOOLEAN /\ confirmDiscardTx = (txStatus = "work")
    BY DEF confirmDiscardTx
  <2>3. /\ Started(o, "tabclose", "sent", sessionId, database[sessionId])
        /\ task'[o].asked = confirmDiscardTx /\ overlapped' \in BOOLEAN
        /\ task' \in [Op -> Task] /\ sessionId \in Session
    BY <1>3, <2>1, <2>2, SessionBegins DEF Closing
  <2> QED
    BY <1>1, <2>1, <2>2, <2>3 DEF handleTabClose, TaskInv, TypeOK, driver
<1> QED
  BY <1>2, <1>3

LEMMA NewTabForm ==
  ASSUME TaskInv, newTab
  PROVE  TypeOK' /\ task' = task
  BY DEF newTab, TaskInv, TypeOK, driver, history

-----------------------------------------------------------------------------
(* The form of the handlers is kept.                                        *)

LEMMA TaskStep ==
  ASSUME TaskInv, [Next]_vars
  PROVE  TaskInv'
<1>1. ASSUME NEW o \in Op, Attaches(o)
      PROVE  TaskInv'
  BY <1>1, AttachesFacts, TurnsForm
<1>2. ASSUME NEW o \in Op, Executes(o)
      PROVE  TaskInv'
  BY <1>2, ExecutesFacts, TurnsForm DEF Answers
<1>3. ASSUME NEW o \in Op, Closes(o)
      PROVE  TaskInv'
  BY <1>3, ClosesFacts, TurnsForm DEF Answers
<1>4. ASSUME NEW o \in Op, transaction_status(o)
      PROVE  TaskInv'
  BY <1>4, StatusFacts, TurnsForm DEF Answers
<1>5. ASSUME NEW o \in Op, set_transaction_mode(o)
      PROVE  TaskInv'
  BY <1>5, ModeFacts, TurnsForm DEF Answers
<1>6. ASSUME NEW o \in Op, FinishesTransaction(o)
      PROVE  TaskInv'
  BY <1>6, FinishFacts, TurnsForm DEF Answers
<1>7. ASSUME NEW o \in Op, useConnectionActions(o)
      PROVE  TaskInv'
  BY <1>7, ConnectFacts, TurnsForm DEF Started
<1>8. ASSUME NEW o \in Op, onConnected(o)
      PROVE  TaskInv'
  BY <1>8, OnConnectedFacts, TurnsForm DEF Continues, Ended
<1>9. ASSUME NEW o \in Op, refreshTxStatus(o)
      PROVE  TaskInv'
  BY <1>9, RefreshFacts, TurnsForm DEF Ended
<1>10. ASSUME NEW o \in Op, handleExecute(o)
      PROVE  TaskInv'
  BY <1>10, StartsFacts, TurnsForm DEF Started
<1>11. ASSUME NEW o \in Op, resolveStatement(o)
      PROVE  TaskInv'
  BY <1>11, ResolveFacts, TurnsForm DEF Answers, Ended
<1>12. ASSUME NEW o \in Op, ExecuteReturns(o)
      PROVE  TaskInv'
  BY <1>12, ExecuteReturnsFacts, TurnsForm DEF Continues, Ended
<1>13. ASSUME NEW o \in Op, StatementAside(o)
      PROVE  TaskInv'
  BY <1>13, StartsFacts, TurnsForm DEF Started
<1>14. ASSUME NEW o \in Op, AsideReturns(o)
      PROVE  TaskInv'
  BY <1>14, ReturnsFacts, TurnsForm DEF Ended
<1>15. ASSUME NEW o \in Op, handleBrowseTable(o)
      PROVE  TaskInv'
  BY <1>15, StartsFacts, TurnsForm DEF Started
<1>16. ASSUME NEW o \in Op, BrowseReturns(o)
      PROVE  TaskInv'
  BY <1>16, ReturnsFacts, TurnsForm DEF Ended
<1>17. ASSUME NEW o \in Op, HandleProfile(o)
      PROVE  TaskInv'
  BY <1>17, ProfileFacts, TurnsForm DEF Started
<1>18. ASSUME NEW o \in Op, ProfileReturns(o)
      PROVE  TaskInv'
  BY <1>18, ProfileFacts, TurnsForm DEF Ended
<1>19. ASSUME NEW o \in Op, NEW kind \in {"mode", "finish"}, TransactionControl(o, kind)
      PROVE  TaskInv'
  BY <1>19, StartsFacts, TurnsForm DEF Started
<1>20. ASSUME NEW o \in Op, TransactionReturns(o)
      PROVE  TaskInv'
  BY <1>20, ReturnsFacts, TurnsForm DEF Ended
<1>21. ASSUME NEW o \in Op, handleDisconnect(o)
      PROVE  TaskInv'
  BY <1>21, StartsFacts, TurnsForm DEF Started
<1>22. ASSUME NEW o \in Op, DisconnectReturns(o)
      PROVE  TaskInv'
  BY <1>22, DisconnectFacts, TurnsForm DEF Ended
<1>23. ASSUME NEW o \in Op, handleAbandon(o)
      PROVE  TaskInv'
  BY <1>23, StartsFacts, TurnsForm DEF Started
<1>24. ASSUME NEW o \in Op, AbandonReturns(o)
      PROVE  TaskInv'
  BY <1>24, AbandonFacts, TurnsForm DEF Continues, Ended
<1>25. ASSUME NEW o \in Op, handleTabClose(o)
      PROVE  TaskInv'
  BY <1>25, TabCloseFacts, TurnsForm, SameForm DEF Started
<1>26. ASSUME NEW o \in Op, TabCloseReturns(o)
      PROVE  TaskInv'
  BY <1>26, ReturnsFacts, TurnsForm DEF Ended
<1>27. ASSUME NEW s \in Session, Expires(s)
      PROVE  TaskInv'
  BY <1>27, ExpiresForm, SameForm
<1>28. ASSUME NEW s \in Session, PluginCalls(s)
      PROVE  TaskInv'
  BY <1>28, PluginCallsForm, SameForm
<1>29. CASE newTab
  BY <1>29, NewTabForm, SameForm
<1>30. CASE UNCHANGED vars
  <2>1. TypeOK'
    BY <1>30 DEF vars, driver, tab, history, TaskInv, TypeOK
  <2> QED
    BY <1>30, <2>1, SameForm DEF vars
<1> QED
  BY <1>1, <1>2, <1>3, <1>4, <1>5, <1>6, <1>7, <1>8, <1>9, <1>10, <1>11,
     <1>12, <1>13, <1>14, <1>15, <1>16, <1>17, <1>18, <1>19, <1>20, <1>21,
     <1>22, <1>23, <1>24, <1>25, <1>26, <1>27, <1>28, <1>29, <1>30 DEF Next

-----------------------------------------------------------------------------
(* The controls are enabled again.                                          *)

LEMMA BusyKept ==
  ASSUME BusyInv, NEW o \in Op, Turns(o), sessionId' = sessionId,
         stranded => stranded', busy' => busy, Disables(o) => Disables(o)',
         tabOpen' = tabOpen, results' = Patched(results, results')
  PROVE  BusyInv'
<1>1. \A q \in Op \ {o} : Disables(q) => Disables(q)'
  BY DEF Turns, Disables
<1> QED
  BY <1>1 DEF BusyInv, Patched

LEMMA BusyWitness ==
  ASSUME BusyInv, NEW o \in Op, sessionId' = sessionId,
         busy' => stranded' \/ Disables(o)',
         tabOpen' = tabOpen, results' = results, ~tabOpen => ~busy'
  PROVE  BusyInv'
  BY DEF BusyInv

LEMMA BusyCleared ==
  ASSUME BusyInv, ~busy', tabOpen' = tabOpen, ~tabOpen => UNCHANGED <<sessionId, results>>
  PROVE  BusyInv'
  BY DEF BusyInv

LEMMA BusyStep ==
  ASSUME TaskInv, BusyInv, [Next]_vars
  PROVE  BusyInv'
<1>1. ASSUME NEW o \in Op, Attaches(o)
      PROVE  BusyInv'
  <2>1. Turns(o) /\ (Disables(o) => Disables(o)') /\ UNCHANGED <<tab, stranded>>
    BY <1>1, AttachesFacts DEF Attaches, Answers, Disables, tab
  <2> QED
    BY <2>1, BusyKept DEF tab, Patched
<1>2. ASSUME NEW o \in Op, Executes(o)
      PROVE  BusyInv'
  <2>1. Turns(o) /\ (Disables(o) => Disables(o)') /\ UNCHANGED <<tab, stranded>>
    BY <1>2, ExecutesFacts DEF Executes, Answers, Disables, tab
  <2> QED
    BY <2>1, BusyKept DEF tab, Patched
<1>3. ASSUME NEW o \in Op, Closes(o)
      PROVE  BusyInv'
  <2>1. Turns(o) /\ (Disables(o) => Disables(o)') /\ UNCHANGED <<tab, stranded>>
    BY <1>3, ClosesFacts DEF Closes, Answers, Disables, tab
  <2> QED
    BY <2>1, BusyKept DEF tab, Patched
<1>4. ASSUME NEW o \in Op, transaction_status(o)
      PROVE  BusyInv'
  <2>1. Turns(o) /\ (Disables(o) => Disables(o)') /\ UNCHANGED <<tab, stranded>>
    BY <1>4, StatusFacts DEF transaction_status, Answers, Disables, tab
  <2> QED
    BY <2>1, BusyKept DEF tab, Patched
<1>5. ASSUME NEW o \in Op, set_transaction_mode(o)
      PROVE  BusyInv'
  <2>1. Turns(o) /\ (Disables(o) => Disables(o)') /\ UNCHANGED <<tab, stranded>>
    BY <1>5, ModeFacts DEF set_transaction_mode, Answers, Disables, tab, history
  <2> QED
    BY <2>1, BusyKept DEF tab, Patched
<1>6. ASSUME NEW o \in Op, FinishesTransaction(o)
      PROVE  BusyInv'
  <2>1. Turns(o) /\ (Disables(o) => Disables(o)') /\ UNCHANGED <<tab, stranded>>
    BY <1>6, FinishFacts DEF FinishesTransaction, Answers, Disables, tab
  <2> QED
    BY <2>1, BusyKept DEF tab, Patched
<1>7. ASSUME NEW o \in Op, useConnectionActions(o)
      PROVE  BusyInv'
  <2>1. /\ Disables(o)' /\ tabOpen
        /\ UNCHANGED <<tabOpen, sessionId, results>>
    BY <1>7, ConnectFacts DEF useConnectionActions, Started, Disables
  <2> QED
    BY <2>1, BusyWitness
<1>8. ASSUME NEW o \in Op, onConnected(o)
      PROVE  BusyInv'
  <2>1. /\ ~busy' /\ tabOpen' = tabOpen
        /\ ~tabOpen => UNCHANGED <<sessionId, results>>
    BY <1>8 DEF onConnected, Patched, BusyInv
  <2> QED
    BY <2>1, BusyCleared
<1>9. ASSUME NEW o \in Op, refreshTxStatus(o)
      PROVE  BusyInv'
  <2>1. /\ Turns(o) /\ ~Disables(o)
        /\ UNCHANGED <<tabOpen, sessionId, busy, results, stranded>>
    BY <1>9, RefreshFacts DEF refreshTxStatus, Ended, Disables
  <2> QED
    BY <2>1, BusyKept DEF Patched
<1>10. ASSUME NEW o \in Op, handleExecute(o)
      PROVE  BusyInv'
  <2>1. Turns(o) /\ ~Disables(o) /\ UNCHANGED <<tab, stranded>>
    BY <1>10, StartsFacts DEF handleExecute, Started, Ended, Disables, tab, history
  <2> QED
    BY <2>1, BusyKept DEF tab, Patched
<1>11. ASSUME NEW o \in Op, resolveStatement(o)
      PROVE  BusyInv'
  <2>1. UNCHANGED <<tabOpen, sessionId, results>>
    BY <1>11 DEF resolveStatement
  <2>2. CASE Ended(o) /\ UNCHANGED <<busy, stranded>>
    <3>1. ~Disables(o)
      BY <1>11, ResolveFacts DEF Disables
    <3> QED
      BY <2>1, <2>2, <3>1, BusyKept DEF Ended, Patched
  <2>3. CASE /\ Answers(o, "sent") /\ busy' = Patched(busy, TRUE)
             /\ stranded' = (stranded \/ isStaleSession(task[o].session))
    <3>1. stranded' \/ Disables(o)'
      BY <1>11, <2>1, <2>3, ResolveFacts DEF Answers, Disables, isStaleSession
    <3>2. ~tabOpen => ~busy'
      BY <2>3 DEF Patched, BusyInv
    <3> QED
      BY <2>1, <3>1, <3>2, BusyWitness
  <2> QED
    BY <1>11, <2>2, <2>3, ResolveFacts
<1>12. ASSUME NEW o \in Op, ExecuteReturns(o)
      PROVE  BusyInv'
  <2>1. /\ UNCHANGED <<tabOpen, sessionId, stranded>>
        /\ busy' = IF task[o].session # sessionId THEN busy ELSE FALSE
    BY <1>12 DEF ExecuteReturns, isStaleSession, history
  <2>2. /\ Turns(o) /\ task[o].kind = "execute"
        /\ results' = Patched(results, results')
    BY <1>12, ExecuteReturnsFacts DEF Continues, Ended, Patched
  <2>3. CASE task[o].session # sessionId
    <3>1. ~Disables(o)
      BY <2>2, <2>3 DEF Disables
    <3> QED
      BY <2>1, <2>2, <3>1, BusyKept
  <2>4. CASE task[o].session = sessionId
    BY <2>1, <2>2, <2>4, BusyCleared DEF Patched
  <2> QED
    BY <2>3, <2>4
<1>13. ASSUME NEW o \in Op, StatementAside(o)
      PROVE  BusyInv'
  <2>1. Turns(o) /\ ~Disables(o) /\ UNCHANGED <<tab, stranded>>
    BY <1>13, StartsFacts DEF StatementAside, Started, Ended, Disables, tab, history
  <2> QED
    BY <2>1, BusyKept DEF tab, Patched
<1>14. ASSUME NEW o \in Op, AsideReturns(o)
      PROVE  BusyInv'
  <2>1. Turns(o) /\ ~Disables(o) /\ UNCHANGED <<tab, stranded>>
    BY <1>14, ReturnsFacts DEF AsideReturns, Started, Ended, Disables, tab, history
  <2> QED
    BY <2>1, BusyKept DEF tab, Patched
<1>15. ASSUME NEW o \in Op, handleBrowseTable(o)
      PROVE  BusyInv'
  <2>1. /\ Disables(o)' /\ tabOpen
        /\ UNCHANGED <<tabOpen, sessionId, results>>
    BY <1>15, StartsFacts DEF handleBrowseTable, Started, Disables
  <2> QED
    BY <2>1, BusyWitness
<1>16. ASSUME NEW o \in Op, BrowseReturns(o)
      PROVE  BusyInv'
  <2>1. /\ ~busy' /\ tabOpen' = tabOpen
        /\ ~tabOpen => UNCHANGED <<sessionId, results>>
    BY <1>16 DEF BrowseReturns, Patched, BusyInv
  <2> QED
    BY <2>1, BusyCleared
<1>17. ASSUME NEW o \in Op, HandleProfile(o)
      PROVE  BusyInv'
  <2>1. /\ Disables(o)' /\ tabOpen
        /\ UNCHANGED <<tabOpen, sessionId, results>>
    BY <1>17, ProfileFacts DEF HandleProfile, Started, Disables
  <2> QED
    BY <2>1, BusyWitness
<1>18. ASSUME NEW o \in Op, ProfileReturns(o)
      PROVE  BusyInv'
  <2>1. /\ ~busy' /\ tabOpen' = tabOpen
        /\ ~tabOpen => UNCHANGED <<sessionId, results>>
    BY <1>18 DEF ProfileReturns, Patched, BusyInv
  <2> QED
    BY <2>1, BusyCleared
<1>19. ASSUME NEW o \in Op, NEW kind \in {"mode", "finish"}, TransactionControl(o, kind)
      PROVE  BusyInv'
  <2>1. /\ Disables(o)' /\ tabOpen
        /\ UNCHANGED <<tabOpen, sessionId, results>>
    BY <1>19, StartsFacts DEF TransactionControl, Started, Disables
  <2> QED
    BY <2>1, BusyWitness
<1>20. ASSUME NEW o \in Op, TransactionReturns(o)
      PROVE  BusyInv'
  <2>1. /\ ~busy' /\ tabOpen' = tabOpen
        /\ ~tabOpen => UNCHANGED <<sessionId, results>>
    BY <1>20 DEF TransactionReturns, Patched, BusyInv
  <2> QED
    BY <2>1, BusyCleared
<1>21. ASSUME NEW o \in Op, handleDisconnect(o)
      PROVE  BusyInv'
  <2>1. /\ Disables(o)' /\ tabOpen
        /\ UNCHANGED <<tabOpen, sessionId, results>>
    BY <1>21, StartsFacts DEF handleDisconnect, Started, Disables
  <2> QED
    BY <2>1, BusyWitness
<1>22. ASSUME NEW o \in Op, DisconnectReturns(o)
      PROVE  BusyInv'
  <2>1. /\ ~busy' /\ tabOpen' = tabOpen
        /\ ~tabOpen => UNCHANGED <<sessionId, results>>
    BY <1>22 DEF DisconnectReturns, Patched, BusyInv
  <2> QED
    BY <2>1, BusyCleared
<1>23. ASSUME NEW o \in Op, handleAbandon(o)
      PROVE  BusyInv'
  <2>1. Turns(o) /\ ~Disables(o) /\ UNCHANGED <<tab, stranded>>
    BY <1>23, StartsFacts DEF handleAbandon, Started, Ended, Disables, tab, history
  <2> QED
    BY <2>1, BusyKept DEF tab, Patched
<1>24. ASSUME NEW o \in Op, AbandonReturns(o)
      PROVE  BusyInv'
  <2>1. UNCHANGED <<tabOpen, sessionId, results, stranded>>
    BY <1>24 DEF AbandonReturns, history
  <2>2. CASE tabOpen /\ Continues(o, "connect", None)
    <3>1. Disables(o)'
      BY <2>2 DEF Continues, Disables
    <3> QED
      BY <2>1, <2>2, <3>1, BusyWitness
  <2>3. CASE Ended(o) /\ busy' = busy
    <3>1. ~Disables(o)
      BY <1>24, AbandonFacts DEF Disables
    <3> QED
      BY <2>1, <2>3, <3>1, BusyKept DEF Ended, Patched
  <2> QED
    BY <1>24, <2>2, <2>3, AbandonFacts
<1>25. ASSUME NEW o \in Op, handleTabClose(o)
      PROVE  BusyInv'
  BY <1>25 DEF handleTabClose, Moves, BusyInv
<1>26. ASSUME NEW o \in Op, TabCloseReturns(o)
      PROVE  BusyInv'
  <2>1. Turns(o) /\ ~Disables(o) /\ UNCHANGED <<tab, stranded>>
    BY <1>26, ReturnsFacts DEF TabCloseReturns, Started, Ended, Disables, tab, history
  <2> QED
    BY <2>1, BusyKept DEF tab, Patched
<1>27. ASSUME NEW s \in Session, Expires(s) \/ PluginCalls(s)
      PROVE  BusyInv'
  BY <1>27 DEF Expires, PluginCalls, tab, BusyInv, Disables
<1>28. CASE newTab
  BY <1>28 DEF newTab, BusyInv
<1>29. CASE UNCHANGED vars
  BY <1>29 DEF vars, tab, history, BusyInv, Disables
<1> QED
  BY <1>1, <1>2, <1>3, <1>4, <1>5, <1>6, <1>7, <1>8, <1>9, <1>10, <1>11,
     <1>12, <1>13, <1>14, <1>15, <1>16, <1>17, <1>18, <1>19, <1>20, <1>21,
     <1>22, <1>23, <1>24, <1>25, <1>26, <1>27, <1>28, <1>29 DEF Next

-----------------------------------------------------------------------------
(* The results are of the tab's connection.                                 *)

LEMMA ResultsKept ==
  ASSUME TaskInv, ResultsInv, NEW o \in Op, Turns(o), sessionId' = sessionId,
         sessionId \in Session => database'[sessionId] = database[sessionId],
         \/ results' = results
         \/ results' = None
         \/ sessionId \in Session /\ results' = database[sessionId],
         task'[o].kind \in {"execute", "browse"} =>
            /\ sessionId \in Session /\ task'[o].session = sessionId
            /\ task'[o].database = database[sessionId]
  PROVE  ResultsInv'
<1>1. results' # None => sessionId' # None /\ results' = database'[sessionId']
  BY FormKnown DEF ResultsInv, TaskInv, TypeOK
<1>2. ASSUME NEW q \in Op, task'[q].kind \in {"execute", "browse"}
      PROVE  task'[q].session = sessionId' /\ task'[q].database = database'[sessionId']
  <2>1. CASE q = o
    BY <1>2, <2>1
  <2>2. CASE q # o
    <3>1. task'[q] = task[q]
      BY <2>2 DEF Turns
    <3>2. task[q].session \in Session
      BY <1>2, <3>1, FormKnown DEF Formed
    <3> QED
      BY <1>2, <3>1, <3>2 DEF ResultsInv
  <2> QED
    BY <2>1, <2>2
<1> QED
  BY <1>1, <1>2 DEF ResultsInv

\* A tab that moves without an outlived request takes nothing along.
LEMMA ResultsMoved ==
  ASSUME TaskInv, ResultsInv, NEW o \in Op, Turns(o), NEW s \in Session \cup {None},
         Moves(s), ~outlived', database' = database,
         task'[o].kind \notin {"execute", "browse"},
         results' = None \/ (results' = results /\ s \in Session)
  PROVE  ResultsInv'
<1>1. /\ sessionId' = s
      /\ \A q \in Running : task[q].kind \in {"execute", "browse"} => task[q].session = s
      /\ {s, sessionId} \subseteq Session => database[s] = database[sessionId]
  BY DEF Moves
<1>2. results' # None => sessionId' # None /\ results' = database'[sessionId']
  BY <1>1, FormKnown DEF ResultsInv, TaskInv, TypeOK
<1>3. ASSUME NEW q \in Op, task'[q].kind \in {"execute", "browse"}
      PROVE  task'[q].session = sessionId' /\ task'[q].database = database'[sessionId']
  <2>1. task'[q] = task[q]
    BY <1>3 DEF Turns
  <2>2. task[q].session \in Session /\ q \in Running
    BY <1>3, <2>1, FormKnown DEF Formed, Running
  <2>3. task[q].session = s /\ task[q].session = sessionId
    BY <1>1, <1>3, <2>1, <2>2 DEF ResultsInv
  <2> QED
    BY <1>1, <1>3, <2>1, <2>2, <2>3 DEF ResultsInv
<1> QED
  BY <1>2, <1>3 DEF ResultsInv

LEMMA ResultsStep ==
  ASSUME TaskInv, ~outlived => ResultsInv, [Next]_vars
  PROVE  ~outlived' => ResultsInv'
<1> SUFFICES ASSUME ~outlived'
             PROVE  ResultsInv'
  OBVIOUS
<1>0. ~outlived /\ ResultsInv
  <2>1. outlived => outlived'
    BY DEF Next, vars, tab, history, driver, Attaches, Executes, Closes, transaction_status,
       set_transaction_mode, FinishesTransaction, useConnectionActions, onConnected,
       refreshTxStatus, handleExecute, resolveStatement, ExecuteReturns, StatementAside,
       AsideReturns, handleBrowseTable, BrowseReturns, HandleProfile, ProfileReturns,
       TransactionControl, TransactionReturns, handleDisconnect, DisconnectReturns,
       handleAbandon, AbandonReturns, handleTabClose, TabCloseReturns, Expires,
       PluginCalls, newTab, Moves
  <2> QED
    BY <2>1
<1>1. ASSUME NEW o \in Op, Attaches(o)
      PROVE  ResultsInv'
  <2>1. /\ Turns(o) /\ task'[o].kind = "connect"
        /\ UNCHANGED <<sessionId, results>>
    BY <1>1, AttachesFacts DEF Attaches, tab
  <2>2. sessionId \in Session => database'[sessionId] = database[sessionId]
    BY <1>1, AttachesFacts DEF Unused, TaskInv, TypeOK
  <2> QED
    BY <1>0, <2>1, <2>2, ResultsKept
<1>2. ASSUME NEW o \in Op, Executes(o)
      PROVE  ResultsInv'
  <2>1. /\ Turns(o) /\ UNCHANGED <<sessionId, results, database>>
        /\ task'[o].kind = task[o].kind /\ task'[o].session = task[o].session
        /\ task'[o].database = task[o].database /\ task[o].session \in Session
    BY <1>2, ExecutesFacts DEF Executes, Answers, tab
  <2> QED
    BY <1>0, <2>1, ResultsKept DEF ResultsInv
<1>3. ASSUME NEW o \in Op, Closes(o)
      PROVE  ResultsInv'
  <2>1. /\ Turns(o) /\ UNCHANGED <<sessionId, results, database>>
        /\ task'[o].kind \notin {"execute", "browse"}
    BY <1>3, ClosesFacts DEF Closes, Answers, tab, Closing
  <2> QED
    BY <1>0, <2>1, ResultsKept
<1>4. ASSUME NEW o \in Op, transaction_status(o)
      PROVE  ResultsInv'
  <2>1. /\ Turns(o) /\ UNCHANGED <<sessionId, results, database>>
        /\ task'[o].kind \notin {"execute", "browse"}
    BY <1>4, StatusFacts DEF transaction_status, Answers, tab, driver
  <2> QED
    BY <1>0, <2>1, ResultsKept
<1>5. ASSUME NEW o \in Op, set_transaction_mode(o)
      PROVE  ResultsInv'
  <2>1. /\ Turns(o) /\ UNCHANGED <<sessionId, results, database>>
        /\ task'[o].kind \notin {"execute", "browse"}
    BY <1>5, ModeFacts DEF set_transaction_mode, Answers, tab
  <2> QED
    BY <1>0, <2>1, ResultsKept
<1>6. ASSUME NEW o \in Op, FinishesTransaction(o)
      PROVE  ResultsInv'
  <2>1. /\ Turns(o) /\ UNCHANGED <<sessionId, results, database>>
        /\ task'[o].kind \notin {"execute", "browse"}
    BY <1>6, FinishFacts DEF FinishesTransaction, Answers, tab
  <2> QED
    BY <1>0, <2>1, ResultsKept
<1>7. ASSUME NEW o \in Op, useConnectionActions(o)
      PROVE  ResultsInv'
  <2>1. /\ Turns(o) /\ UNCHANGED <<sessionId, results, database>>
        /\ task'[o].kind \notin {"execute", "browse"}
    BY <1>7, ConnectFacts, IdleFormed
    DEF useConnectionActions, Started, Ended, Continues, tab, driver
  <2> QED
    BY <1>0, <2>1, ResultsKept
<1>8. ASSUME NEW o \in Op, onConnected(o)
      PROVE  ResultsInv'
  <2>1. UNCHANGED <<database, results>>
    BY <1>8 DEF onConnected, driver
  <2>2. CASE /\ task[o].session \in Session /\ Moves(task[o].session)
             /\ Continues(o, "refresh", task[o].session)
    BY <1>0, <2>1, <2>2, ResultsMoved DEF Continues
  <2>3. CASE Ended(o) /\ sessionId' = sessionId
    BY <1>0, <2>1, <2>3, ResultsKept, IdleFormed DEF Ended
  <2> QED
    BY <1>8, <2>2, <2>3, OnConnectedFacts
<1>9. ASSUME NEW o \in Op, refreshTxStatus(o)
      PROVE  ResultsInv'
  <2>1. /\ Turns(o) /\ UNCHANGED <<sessionId, results, database>>
        /\ task'[o].kind \notin {"execute", "browse"}
    BY <1>9, RefreshFacts, IdleFormed
    DEF refreshTxStatus, Started, Ended, Continues, tab, driver
  <2> QED
    BY <1>0, <2>1, ResultsKept
<1>10. ASSUME NEW o \in Op, handleExecute(o)
      PROVE  ResultsInv'
  <2>1. /\ Turns(o) /\ UNCHANGED <<sessionId, results, database>>
        /\ sessionId \in Session /\ task'[o].session = sessionId
        /\ task'[o].database = database[sessionId]
    BY <1>10, StartsFacts DEF handleExecute, Started, tab, driver, TaskInv, TypeOK
  <2> QED
    BY <1>0, <2>1, ResultsKept
<1>11. ASSUME NEW o \in Op, resolveStatement(o)
      PROVE  ResultsInv'
  <2>1. /\ UNCHANGED <<sessionId, results, database>>
        /\ task[o].kind = "execute" /\ task[o].session \in Session
    BY <1>11, ResolveFacts, FormKnown DEF resolveStatement, driver, Formed
  <2>2. CASE Ended(o)
    BY <1>0, <2>1, <2>2, ResultsKept, IdleFormed DEF Ended
  <2>3. CASE Answers(o, "sent")
    BY <1>0, <2>1, <2>3, ResultsKept DEF Answers, ResultsInv
  <2> QED
    BY <1>11, <2>2, <2>3, ResolveFacts
<1>12. ASSUME NEW o \in Op, ExecuteReturns(o)
      PROVE  ResultsInv'
  <2>1. /\ Turns(o) /\ task'[o].kind \notin {"execute", "browse"}
        /\ UNCHANGED <<sessionId, database>>
    BY <1>12, ExecuteReturnsFacts, IdleFormed
    DEF ExecuteReturns, Continues, Ended, driver
  <2>2. /\ task[o].session = sessionId /\ task[o].database = database[sessionId]
        /\ task[o].session \in Session
    BY <1>0, <1>12, ExecuteReturnsFacts DEF ResultsInv
  <2>3. results' = results \/ results' = database[sessionId]
    BY <1>12, <2>2, ExecuteReturnsFacts DEF Patched
  <2> QED
    BY <1>0, <2>1, <2>2, <2>3, ResultsKept
<1>13. ASSUME NEW o \in Op, StatementAside(o)
      PROVE  ResultsInv'
  <2>1. /\ Turns(o) /\ UNCHANGED <<sessionId, results, database>>
        /\ task'[o].kind \notin {"execute", "browse"}
    BY <1>13, StartsFacts, IdleFormed
    DEF StatementAside, Started, Ended, Continues, tab, driver
  <2> QED
    BY <1>0, <2>1, ResultsKept
<1>14. ASSUME NEW o \in Op, AsideReturns(o)
      PROVE  ResultsInv'
  <2>1. /\ Turns(o) /\ UNCHANGED <<sessionId, results, database>>
        /\ task'[o].kind \notin {"execute", "browse"}
    BY <1>14, ReturnsFacts, IdleFormed
    DEF AsideReturns, Started, Ended, Continues, tab, driver
  <2> QED
    BY <1>0, <2>1, ResultsKept
<1>15. ASSUME NEW o \in Op, handleBrowseTable(o)
      PROVE  ResultsInv'
  <2>1. /\ Turns(o) /\ UNCHANGED <<sessionId, results, database>>
        /\ sessionId \in Session /\ task'[o].session = sessionId
        /\ task'[o].database = database[sessionId]
    BY <1>15, StartsFacts DEF handleBrowseTable, Started, tab, driver, TaskInv, TypeOK
  <2> QED
    BY <1>0, <2>1, ResultsKept
<1>16. ASSUME NEW o \in Op, BrowseReturns(o)
      PROVE  ResultsInv'
  <2>1. /\ Turns(o) /\ task'[o].kind \notin {"execute", "browse"}
        /\ UNCHANGED <<sessionId, database>> /\ task[o].kind = "browse"
    BY <1>16, ReturnsFacts, IdleFormed DEF BrowseReturns, Ended, driver
  <2>2. /\ task[o].session = sessionId /\ task[o].database = database[sessionId]
        /\ task[o].session \in Session
    BY <1>0, <2>1, FormKnown DEF ResultsInv, Formed
  <2>3. results' = results \/ results' = database[sessionId]
    BY <1>16, <2>2 DEF BrowseReturns, Patched
  <2> QED
    BY <1>0, <2>1, <2>2, <2>3, ResultsKept
<1>17. ASSUME NEW o \in Op, HandleProfile(o)
      PROVE  ResultsInv'
  <2>1. /\ Turns(o) /\ UNCHANGED <<sessionId, results, database>>
        /\ task'[o].kind \notin {"execute", "browse"}
    BY <1>17, ProfileFacts, IdleFormed
    DEF HandleProfile, Started, Ended, Continues, tab, driver
  <2> QED
    BY <1>0, <2>1, ResultsKept
<1>18. ASSUME NEW o \in Op, ProfileReturns(o)
      PROVE  ResultsInv'
  <2>1. /\ Turns(o) /\ UNCHANGED <<sessionId, results, database>>
        /\ task'[o].kind \notin {"execute", "browse"}
    BY <1>18, ProfileFacts, IdleFormed
    DEF ProfileReturns, Started, Ended, Continues, tab, driver
  <2> QED
    BY <1>0, <2>1, ResultsKept
<1>19. ASSUME NEW o \in Op, NEW kind \in {"mode", "finish"}, TransactionControl(o, kind)
      PROVE  ResultsInv'
  <2>1. /\ Turns(o) /\ UNCHANGED <<sessionId, results, database>>
        /\ task'[o].kind \notin {"execute", "browse"}
    BY <1>19, StartsFacts, IdleFormed
    DEF TransactionControl, Started, Ended, Continues, tab, driver
  <2> QED
    BY <1>0, <2>1, ResultsKept
<1>20. ASSUME NEW o \in Op, TransactionReturns(o)
      PROVE  ResultsInv'
  <2>1. /\ Turns(o) /\ UNCHANGED <<sessionId, results, database>>
        /\ task'[o].kind \notin {"execute", "browse"}
    BY <1>20, ReturnsFacts, IdleFormed
    DEF TransactionReturns, Started, Ended, Continues, tab, driver
  <2> QED
    BY <1>0, <2>1, ResultsKept
<1>21. ASSUME NEW o \in Op, handleDisconnect(o)
      PROVE  ResultsInv'
  <2>1. /\ Turns(o) /\ UNCHANGED <<sessionId, results, database>>
        /\ task'[o].kind \notin {"execute", "browse"}
    BY <1>21, StartsFacts, IdleFormed
    DEF handleDisconnect, Started, Ended, Continues, tab, driver
  <2> QED
    BY <1>0, <2>1, ResultsKept
<1>22. ASSUME NEW o \in Op, DisconnectReturns(o)
      PROVE  ResultsInv'
  <2>1. /\ Turns(o) /\ task'[o].kind = "none" /\ database' = database
    BY <1>22, DisconnectFacts, IdleFormed DEF DisconnectReturns, Ended, driver
  <2>2. CASE Moves(None) /\ results' = None
    BY <1>0, <2>1, <2>2, ResultsMoved
  <2>3. CASE UNCHANGED <<sessionId, results>>
    BY <1>0, <2>1, <2>3, ResultsKept
  <2> QED
    BY <1>22, <2>2, <2>3 DEF DisconnectReturns
<1>23. ASSUME NEW o \in Op, handleAbandon(o)
      PROVE  ResultsInv'
  <2>1. /\ Turns(o) /\ UNCHANGED <<sessionId, results, database>>
        /\ task'[o].kind \notin {"execute", "browse"}
    BY <1>23, StartsFacts, IdleFormed
    DEF handleAbandon, Started, Ended, Continues, tab, driver
  <2> QED
    BY <1>0, <2>1, ResultsKept
<1>24. ASSUME NEW o \in Op, AbandonReturns(o)
      PROVE  ResultsInv'
  <2>1. UNCHANGED <<sessionId, results, database>>
    BY <1>24 DEF AbandonReturns, driver
  <2>2. Turns(o) /\ task'[o].kind \notin {"execute", "browse"}
    BY <1>24, AbandonFacts, IdleFormed DEF Ended, Continues
  <2> QED
    BY <1>0, <2>1, <2>2, ResultsKept
<1>25. ASSUME NEW o \in Op, handleTabClose(o)
      PROVE  ResultsInv'
  <2>1. Moves(None) /\ results' = None /\ database' = database
    BY <1>25 DEF handleTabClose, driver
  <2>2. CASE task' = task
    <3>1. Turns(o)
      BY <2>2, FormKnown DEF Turns, TaskInv, TypeOK
    <3>2. ASSUME task[o].kind \in {"execute", "browse"}
          PROVE  FALSE
      <4>1. o \in Running /\ task[o].session \in Session
        BY <3>2, FormKnown DEF Formed, Running
      <4> QED
        BY <2>1, <3>2, <4>1, ClientTabAssumption DEF Moves
    <3> QED
      BY <1>0, <2>1, <2>2, <3>1, <3>2, ResultsMoved
  <2>3. CASE Turns(o) /\ task'[o].kind = "tabclose"
    BY <1>0, <2>1, <2>3, ResultsMoved
  <2> QED
    BY <1>25, <2>2, <2>3, TabCloseFacts DEF Started
<1>26. ASSUME NEW o \in Op, TabCloseReturns(o)
      PROVE  ResultsInv'
  <2>1. /\ Turns(o) /\ UNCHANGED <<sessionId, results, database>>
        /\ task'[o].kind \notin {"execute", "browse"}
    BY <1>26, ReturnsFacts, IdleFormed
    DEF TabCloseReturns, Started, Ended, Continues, tab, driver
  <2> QED
    BY <1>0, <2>1, ResultsKept
<1>27. ASSUME NEW s \in Session, Expires(s) \/ PluginCalls(s)
      PROVE  ResultsInv'
  BY <1>0, <1>27 DEF Expires, PluginCalls, tab, ResultsInv
<1>28. CASE newTab
  BY <1>0, <1>28 DEF newTab, driver, ResultsInv
<1>29. CASE UNCHANGED vars
  BY <1>0, <1>29 DEF vars, driver, tab, ResultsInv
<1> QED
  BY <1>1, <1>2, <1>3, <1>4, <1>5, <1>6, <1>7, <1>8, <1>9, <1>10, <1>11,
     <1>12, <1>13, <1>14, <1>15, <1>16, <1>17, <1>18, <1>19, <1>20, <1>21,
     <1>22, <1>23, <1>24, <1>25, <1>26, <1>27, <1>28, <1>29 DEF Next

-----------------------------------------------------------------------------
(* One handler at a time.                                                   *)

\* What TurnInv says when o is the only handler that may be running.
Held(o) ==
    \A s \in attached :
        s = sessionId \/ s \in leaked \/ (task[o].kind # "none" /\ s = task[o].session)

Shown(o) ==
    sessionId \in Session \ unseen /\ transaction[sessionId] = "work" =>
        txStatus = "work" \/ Tells(o)

Turn(o) == Alone(o) /\ Held(o) /\ Shown(o)

LEMMA IdleIsAlone ==
  ASSUME NEW q \in Op, task[q].kind = "none"
  PROVE  Alone(q) /\ ~Tells(q)
  BY DEF Alone, Tells, Sent, Closing

LEMMA TurnPasses ==
  ASSUME TaskInv, TurnInv, NEW o \in Op, Turns(o), o \in Running \/ Running = {},
         Turn(o) => Turn(o)'
  PROVE  TurnInv'
<1>1. \A q \in Op \ {o} : task[q].kind = "none" /\ task'[q].kind = "none"
  BY DEF TurnInv, Turns, Running
<1>2. Turn(o)
  <2>1. Held(o)
    <3>1. {task[q].session : q \in Running} \subseteq
             IF task[o].kind # "none" THEN {task[o].session} ELSE {}
      BY <1>1 DEF Running
    <3> QED
      BY <3>1 DEF TurnInv, Held
  <2>2. Shown(o)
    BY <1>1, IdleIsAlone DEF TurnInv, WorkIsShown, Shown
  <2> QED
    BY <2>1, <2>2 DEF TurnInv, Turn
<1>3. Turn(o)'
  BY <1>2
<1>4. \A q, r \in Running' : q = r
  BY <1>1 DEF Running
<1>5. \A q \in Op : Alone(q)'
  <2>1. \A q \in Op \ {o} : Alone(q)'
    BY <1>1 DEF Alone, Sent, Closing
  <2> QED
    BY <1>3, <2>1 DEF Turn
<1>6. attached' \subseteq {sessionId'} \cup leaked' \cup {task'[q].session : q \in Running'}
  BY <1>3 DEF Turn, Held, Running
<1>7. WorkIsShown'
  BY <1>3 DEF Turn, Shown, WorkIsShown
<1> QED
  BY <1>4, <1>5, <1>6, <1>7 DEF TurnInv

LEMMA AttachesTurn ==
  ASSUME TaskInv, BusyInv, NEW o \in Op, Turn(o), Attaches(o)
  PROVE  Turn(o)'
<1>0. /\ UNCHANGED <<sessionId, txStatus, transaction, unseen>>
      /\ task[o].kind = "connect" /\ task[o].session = None /\ task'[o].kind = "connect"
  BY AttachesFacts DEF Attaches, tab
<1>1. Alone(o)'
  <2>1. sessionId' \notin attached'
    BY <1>0, AttachesFacts DEF Turn, Alone, Unused
  <2> QED
    BY <1>0, <2>1 DEF Alone, Sent, Closing
<1>2. Held(o)'
  BY <1>0, AttachesFacts, FormKnown DEF Turn, Held, TaskInv, TypeOK
<1>3. Shown(o)'
  BY <1>0 DEF Turn, Shown, Tells
<1> QED
  BY <1>1, <1>2, <1>3 DEF Turn

LEMMA ExecutesTurn ==
  ASSUME TaskInv, BusyInv, NEW o \in Op, Turn(o), Executes(o)
  PROVE  Turn(o)'
<1>0. /\ UNCHANGED <<sessionId, txStatus, attached, leaked>>
      /\ task[o].kind \in Statement /\ task[o].step = "sent"
      /\ task'[o].kind = task[o].kind /\ task'[o].session = task[o].session
      /\ task[o].session = sessionId
  BY ExecutesFacts DEF Executes, Answers, tab, Turn, Alone, Statement
<1>1. Alone(o)'
  BY <1>0 DEF Alone, Sent, Closing, Statement
<1>2. Held(o)'
  BY <1>0 DEF Turn, Held, Statement
<1>3. Shown(o)'
  <2>1. CASE sessionId \in unseen'
    BY <1>0, <2>1 DEF Shown
  <2>2. CASE Answers(o, "ok") /\ task[o].kind = "execute"
    BY <1>0, <2>2 DEF Shown, Tells, Answers
  <2>3. CASE UNCHANGED <<transaction, unseen>>
    BY <1>0, <2>3 DEF Turn, Shown, Tells, Statement
  <2> QED
    BY <1>0, <2>1, <2>2, <2>3, ExecutesFacts
<1> QED
  BY <1>1, <1>2, <1>3 DEF Turn

LEMMA Transaction_statusTurn ==
  ASSUME TaskInv, BusyInv, NEW o \in Op, Turn(o), transaction_status(o)
  PROVE  Turn(o)'
<1>0. /\ UNCHANGED <<sessionId, txStatus, attached, leaked, transaction>>
      /\ task[o].kind = "refresh" /\ task[o].step = "sent" /\ task[o].session \in Session
      /\ task'[o].kind = "refresh" /\ task'[o].session = task[o].session
      /\ task[o].session = sessionId
  BY StatusFacts DEF transaction_status, Answers, driver, tab, Turn, Alone, Closing
<1>1. Alone(o)'
  <2>1. task'[o].step = "ok" /\ transaction[task[o].session] = "work" =>
           task'[o].status = "work"
    BY <1>0, StatusFacts DEF Answers, StatusOf
  <2> QED
    BY <1>0, <2>1 DEF Alone, Sent, Closing
<1>2. Held(o)'
  BY <1>0 DEF Turn, Held
<1>3. Shown(o)'
  <2>1. CASE /\ task'[o].step = "ok" /\ task'[o].status = StatusOf(transaction[sessionId])
    BY <1>0, <2>1 DEF Shown, Tells, StatusOf
  <2>2. CASE unseen' = unseen \cup ({sessionId} \cap attached)
    BY <1>0, <2>2 DEF Shown, TaskInv, TypeOK
  <2> QED
    BY <1>0, <2>1, <2>2, StatusFacts DEF Answers
<1> QED
  BY <1>1, <1>2, <1>3 DEF Turn

LEMMA Set_transaction_modeTurn ==
  ASSUME TaskInv, BusyInv, NEW o \in Op, Turn(o), set_transaction_mode(o)
  PROVE  Turn(o)'
<1>0. /\ UNCHANGED <<sessionId, txStatus, attached, leaked, transaction, unseen>>
      /\ task[o].kind = "mode" /\ task'[o].kind = "mode"
      /\ task'[o].session = task[o].session /\ task[o].session = sessionId
  BY ModeFacts DEF set_transaction_mode, Answers, tab, history, Turn, Alone, Closing
<1>1. Alone(o)'
  <2>1. task'[o].step = "ok" => transaction[task[o].session] # "work"
    BY ModeFacts DEF Answers
  <2> QED
    BY <1>0, <2>1 DEF Alone, Sent, Closing
<1>2. Held(o)'
  BY <1>0 DEF Turn, Held
<1>3. Shown(o)'
  BY <1>0 DEF Turn, Shown, Tells
<1> QED
  BY <1>1, <1>2, <1>3 DEF Turn

LEMMA FinishesTransactionTurn ==
  ASSUME TaskInv, BusyInv, NEW o \in Op, Turn(o), FinishesTransaction(o)
  PROVE  Turn(o)'
<1>0. /\ UNCHANGED <<sessionId, txStatus, attached, leaked>>
      /\ task[o].kind = "finish" /\ task[o].session \in Session
      /\ task'[o].kind = "finish" /\ task'[o].session = task[o].session
      /\ task[o].session = sessionId
  BY FinishFacts DEF FinishesTransaction, Answers, tab, Turn, Alone, Closing
<1>4. \/ transaction'[sessionId] = "none"
      \/ task'[o].step # "ok" /\ UNCHANGED <<transaction, unseen>>
  BY <1>0, FinishFacts DEF Answers, TaskInv, TypeOK
<1>1. Alone(o)'
  BY <1>0, <1>4 DEF Alone, Sent, Closing
<1>2. Held(o)'
  BY <1>0 DEF Turn, Held
<1>3. Shown(o)'
  BY <1>0, <1>4 DEF Turn, Shown, Tells
<1> QED
  BY <1>1, <1>2, <1>3 DEF Turn

LEMMA ClosesTurn ==
  ASSUME TaskInv, BusyInv, NEW o \in Op, Turn(o), Closes(o)
  PROVE  Turn(o)'
<1>0. /\ UNCHANGED <<sessionId, txStatus>>
      /\ task[o].kind \in Closing /\ task[o].session \in Session
      /\ task'[o].kind = task[o].kind /\ task'[o].session = task[o].session
      /\ task'[o].step \in {"ok", "failed"}
      /\ task[o].kind # "tabclose" => task[o].session = sessionId
  BY ClosesFacts DEF Closes, Answers, tab, Turn, Alone, Closing
<1> DEFINE s == task[o].session
<1>4. \/ /\ attached' = attached \ {s} /\ leaked' = leaked \ {s}
         /\ unseen' = unseen \ {s} /\ transaction' = [transaction EXCEPT ![s] = "none"]
      \/ /\ task'[o].step = "failed" /\ UNCHANGED <<attached, transaction, unseen>>
         /\ leaked' = IF task[o].kind = "tabclose" /\ s \in attached
                      THEN leaked \cup {s} ELSE leaked
  BY ClosesFacts DEF Answers, Detaches
<1>1. Alone(o)'
  BY <1>0, <1>4 DEF Alone, Sent, Closing
<1>2. Held(o)'
  BY <1>0, <1>4 DEF Turn, Held, Closing
<1>3. Shown(o)'
  <2>1. ~Tells(o)
    BY <1>0 DEF Tells, Closing
  <2> QED
    BY <1>0, <1>4, <2>1 DEF Turn, Shown, TaskInv, TypeOK
<1> QED
  BY <1>1, <1>2, <1>3 DEF Turn

LEMMA UseConnectionActionsTurn ==
  ASSUME TaskInv, BusyInv, NEW o \in Op, Turn(o), useConnectionActions(o)
  PROVE  Turn(o)'
<1>0. /\ UNCHANGED <<driver, sessionId, txStatus, unseen, leaked>>
      /\ task[o].kind = "none" /\ task'[o].kind = "connect" /\ sessionId \notin attached
  BY ConnectFacts DEF useConnectionActions, Started
<1>1. Alone(o)'
  BY <1>0 DEF Alone, Sent, Closing, driver
<1>2. Held(o)'
  BY <1>0 DEF Turn, Held, driver
<1>3. Shown(o)'
  BY <1>0 DEF Turn, Shown, Tells, driver
<1> QED
  BY <1>1, <1>2, <1>3 DEF Turn

LEMMA OnConnectedTurn ==
  ASSUME TaskInv, BusyInv, NEW o \in Op, Turn(o), onConnected(o)
  PROVE  Turn(o)'
<1>0. UNCHANGED <<attached, transaction, unseen>> /\ task[o].kind = "connect"
  BY OnConnectedFacts DEF onConnected, driver
<1>4. CASE /\ task[o].session \in Session /\ Moves(task[o].session) /\ leaked' = leaked
           /\ Continues(o, "refresh", task[o].session)
  <2>1. sessionId' = task[o].session
    BY <1>4 DEF Moves
  <2>2. Alone(o)'
    BY <1>4, <2>1 DEF Continues, Alone, Sent, Closing
  <2>3. Held(o)'
    BY <1>0, <1>4, <2>1 DEF Turn, Alone, Held
  <2>4. Shown(o)'
    BY <1>4, <2>1 DEF Continues, Shown, Tells
  <2> QED
    BY <2>2, <2>3, <2>4 DEF Turn
<1>5. CASE /\ ~(Ok(o) /\ tabOpen) /\ Ended(o) /\ UNCHANGED <<sessionId, txStatus>>
           /\ leaked' = IF Ok(o) THEN leaked \cup ({task[o].session} \cap attached)
                        ELSE leaked
  <2>1. Alone(o)'
    BY <1>5, IdleFormed DEF Ended, Alone, Sent, Closing
  <2>2. ~Ok(o) => task[o].session \notin attached
    BY <1>0, FormKnown DEF Formed, Ok, TaskInv, TypeOK
  <2>3. Held(o)'
    BY <1>0, <1>5, <2>2 DEF Turn, Held
  <2>4. Shown(o)'
    BY <1>0, <1>5 DEF Turn, Shown, Tells
  <2> QED
    BY <2>1, <2>3, <2>4 DEF Turn
<1> QED
  BY <1>4, <1>5, OnConnectedFacts

LEMMA RefreshTxStatusTurn ==
  ASSUME TaskInv, BusyInv, NEW o \in Op, Turn(o), refreshTxStatus(o)
  PROVE  Turn(o)'
<1>0. /\ UNCHANGED <<driver, sessionId, leaked>>
      /\ Ended(o) /\ task[o].kind = "refresh" /\ task[o].session = sessionId
      /\ task[o].step \in {"ok", "failed"}
  BY RefreshFacts DEF refreshTxStatus, Answered, Turn, Alone
<1>1. Alone(o)'
  BY <1>0, IdleFormed DEF Ended, Alone, Sent, Closing
<1>2. Held(o)'
  BY <1>0 DEF Turn, Held, driver
<1>3. Shown(o)'
  <2>1. CASE Ok(o) /\ tabOpen
    <3>1. txStatus' = task[o].status
      BY <2>1 DEF refreshTxStatus, Patched
    <3> QED
      BY <1>0, <2>1, <3>1 DEF Turn, Alone, Shown, Ok, driver
  <2>2. CASE ~tabOpen
    BY <1>0, <2>2, FormKnown DEF BusyInv, Shown
  <2>3. CASE ~Ok(o)
    <3>1. txStatus' = txStatus /\ unseen' = unseen /\ ~Tells(o)
      BY <1>0, <2>3 DEF refreshTxStatus, Ok, Tells
    <3> QED
      BY <1>0, <3>1 DEF Turn, Shown, driver
  <2> QED
    BY <2>1, <2>2, <2>3
<1> QED
  BY <1>1, <1>2, <1>3 DEF Turn

LEMMA HandleExecuteTurn ==
  ASSUME TaskInv, BusyInv, NEW o \in Op, Turn(o), handleExecute(o)
  PROVE  Turn(o)'
<1>0. /\ UNCHANGED <<driver, sessionId, txStatus, unseen, leaked>>
      /\ task[o].kind = "none" /\ task'[o].kind = "execute"
      /\ task'[o].session = sessionId /\ task'[o].step = "prompt"
  BY StartsFacts DEF handleExecute, Started, tab
<1>1. Alone(o)'
  BY <1>0 DEF Alone, Sent, Closing
<1>2. Held(o)'
  BY <1>0 DEF Turn, Held, driver
<1>3. Shown(o)'
  BY <1>0 DEF Turn, Shown, Tells, driver
<1> QED
  BY <1>1, <1>2, <1>3 DEF Turn

LEMMA ResolveStatementTurn ==
  ASSUME TaskInv, BusyInv, NEW o \in Op, Turn(o), resolveStatement(o)
  PROVE  Turn(o)'
<1>0. /\ UNCHANGED <<driver, sessionId, txStatus, unseen, leaked>>
      /\ task[o].kind = "execute" /\ task[o].step = "prompt" /\ task[o].session = sessionId
      /\ \/ Ended(o)
         \/ /\ task'[o].kind = "execute" /\ task'[o].step = "sent"
            /\ task'[o].session = sessionId
  BY ResolveFacts DEF resolveStatement, Answers, Turn, Alone, Closing
<1>1. Alone(o)'
  BY <1>0, IdleFormed DEF Ended, Alone, Sent, Closing
<1>2. Held(o)'
  BY <1>0 DEF Turn, Held, driver
<1>3. Shown(o)'
  BY <1>0 DEF Turn, Shown, Tells, driver
<1> QED
  BY <1>1, <1>2, <1>3 DEF Turn

LEMMA ExecuteReturnsTurn ==
  ASSUME TaskInv, BusyInv, NEW o \in Op, Turn(o), ExecuteReturns(o)
  PROVE  Turn(o)'
<1>0. /\ UNCHANGED <<driver, sessionId, txStatus, unseen, leaked>>
      /\ task[o].kind = "execute" /\ task[o].session = sessionId
      /\ \/ Continues(o, "refresh", sessionId)
         \/ Ended(o) /\ task[o].step # "ok"
  BY ExecuteReturnsFacts DEF ExecuteReturns, history, Ok, Turn, Alone
<1>1. Alone(o)'
  BY <1>0, IdleFormed DEF Continues, Ended, Alone, Sent, Closing
<1>2. Held(o)'
  BY <1>0 DEF Turn, Held, driver
<1>3. Shown(o)'
  BY <1>0 DEF Continues, Turn, Shown, Tells, driver
<1> QED
  BY <1>1, <1>2, <1>3 DEF Turn

LEMMA StatementAsideTurn ==
  ASSUME TaskInv, BusyInv, NEW o \in Op, Turn(o), StatementAside(o)
  PROVE  Turn(o)'
<1>0. /\ UNCHANGED <<driver, sessionId, txStatus, unseen, leaked>>
      /\ task[o].kind = "none" /\ task'[o].kind = "aside"
      /\ task'[o].session = sessionId /\ task'[o].step = "sent"
  BY StartsFacts DEF StatementAside, Started, tab
<1>1. Alone(o)'
  BY <1>0 DEF Alone, Sent, Closing
<1>2. Held(o)'
  BY <1>0 DEF Turn, Held, driver
<1>3. Shown(o)'
  BY <1>0 DEF Turn, Shown, Tells, driver
<1> QED
  BY <1>1, <1>2, <1>3 DEF Turn

LEMMA AsideReturnsTurn ==
  ASSUME TaskInv, BusyInv, NEW o \in Op, Turn(o), AsideReturns(o)
  PROVE  Turn(o)'
<1>0. /\ UNCHANGED <<driver, sessionId, txStatus, unseen, leaked>>
      /\ Ended(o) /\ task[o].kind = "aside" /\ task[o].session = sessionId
  BY ReturnsFacts DEF AsideReturns, history, Turn, Alone, tab
<1>1. Alone(o)'
  BY <1>0, IdleFormed DEF Ended, Alone, Sent, Closing
<1>2. Held(o)'
  BY <1>0 DEF Turn, Held, driver
<1>3. Shown(o)'
  BY <1>0 DEF Turn, Shown, Tells, driver
<1> QED
  BY <1>1, <1>2, <1>3 DEF Turn

LEMMA HandleBrowseTableTurn ==
  ASSUME TaskInv, BusyInv, NEW o \in Op, Turn(o), handleBrowseTable(o)
  PROVE  Turn(o)'
<1>0. /\ UNCHANGED <<driver, sessionId, txStatus, unseen, leaked>>
      /\ task[o].kind = "none" /\ task'[o].kind = "browse"
      /\ task'[o].session = sessionId /\ task'[o].step = "sent"
  BY StartsFacts DEF handleBrowseTable, Started
<1>1. Alone(o)'
  BY <1>0 DEF Alone, Sent, Closing
<1>2. Held(o)'
  BY <1>0 DEF Turn, Held, driver
<1>3. Shown(o)'
  BY <1>0 DEF Turn, Shown, Tells, driver
<1> QED
  BY <1>1, <1>2, <1>3 DEF Turn

LEMMA BrowseReturnsTurn ==
  ASSUME TaskInv, BusyInv, NEW o \in Op, Turn(o), BrowseReturns(o)
  PROVE  Turn(o)'
<1>0. /\ UNCHANGED <<driver, sessionId, txStatus, unseen, leaked>>
      /\ Ended(o) /\ task[o].kind = "browse" /\ task[o].session = sessionId
  BY ReturnsFacts DEF BrowseReturns, history, Turn, Alone
<1>1. Alone(o)'
  BY <1>0, IdleFormed DEF Ended, Alone, Sent, Closing
<1>2. Held(o)'
  BY <1>0 DEF Turn, Held, driver
<1>3. Shown(o)'
  BY <1>0 DEF Turn, Shown, Tells, driver
<1> QED
  BY <1>1, <1>2, <1>3 DEF Turn

LEMMA HandleProfileTurn ==
  ASSUME TaskInv, BusyInv, NEW o \in Op, Turn(o), HandleProfile(o)
  PROVE  Turn(o)'
<1>0. /\ UNCHANGED <<driver, sessionId, txStatus, unseen, leaked>>
      /\ task[o].kind = "none" /\ task'[o].kind = "profile"
  BY ProfileFacts DEF HandleProfile, Started
<1>1. Alone(o)'
  BY <1>0 DEF Alone, Sent, Closing
<1>2. Held(o)'
  BY <1>0 DEF Turn, Held, driver
<1>3. Shown(o)'
  BY <1>0 DEF Turn, Shown, Tells, driver
<1> QED
  BY <1>1, <1>2, <1>3 DEF Turn

LEMMA ProfileReturnsTurn ==
  ASSUME TaskInv, BusyInv, NEW o \in Op, Turn(o), ProfileReturns(o)
  PROVE  Turn(o)'
<1>0. /\ UNCHANGED <<driver, sessionId, txStatus, unseen, leaked>>
      /\ Ended(o) /\ task[o].kind = "profile" /\ task[o].session = None
  BY ProfileFacts, FormKnown DEF ProfileReturns, Sent, Formed, history
<1>1. Alone(o)'
  BY <1>0, IdleFormed DEF Ended, Alone, Sent, Closing
<1>2. Held(o)'
  BY <1>0, FormKnown DEF Turn, Held, TaskInv, TypeOK, driver
<1>3. Shown(o)'
  BY <1>0 DEF Turn, Shown, Tells, driver
<1> QED
  BY <1>1, <1>2, <1>3 DEF Turn

LEMMA TransactionControlTurn ==
  ASSUME TaskInv, BusyInv, NEW o \in Op, NEW kind \in {"mode", "finish"}, Turn(o), TransactionControl(o, kind)
  PROVE  Turn(o)'
<1>0. /\ UNCHANGED <<driver, sessionId, txStatus, unseen, leaked>>
      /\ task[o].kind = "none" /\ task'[o].kind = kind
      /\ task'[o].session = sessionId /\ task'[o].step = "sent"
  BY StartsFacts DEF TransactionControl, Started
<1>1. Alone(o)'
  BY <1>0 DEF Alone, Sent, Closing
<1>2. Held(o)'
  BY <1>0 DEF Turn, Held, driver
<1>3. Shown(o)'
  BY <1>0 DEF Turn, Shown, Tells, driver
<1> QED
  BY <1>1, <1>2, <1>3 DEF Turn

LEMMA TransactionReturnsTurn ==
  ASSUME TaskInv, BusyInv, NEW o \in Op, Turn(o), TransactionReturns(o)
  PROVE  Turn(o)'
<1>0. /\ UNCHANGED <<driver, sessionId, unseen, leaked>>
      /\ Ended(o) /\ task[o].kind \in {"mode", "finish"} /\ task[o].session = sessionId
      /\ task[o].step \in {"ok", "failed"}
  BY ReturnsFacts DEF TransactionReturns, Answered, history, Turn, Alone, Closing
<1>1. Alone(o)'
  BY <1>0, IdleFormed DEF Ended, Alone, Sent, Closing
<1>2. Held(o)'
  BY <1>0 DEF Turn, Held, driver
<1>3. Shown(o)'
  <2>1. CASE Ok(o)
    BY <1>0, <2>1 DEF Turn, Alone, Shown, Ok, driver
  <2>2. CASE ~Ok(o)
    <3>1. txStatus' = txStatus /\ ~Tells(o)
      BY <1>0, <2>2 DEF TransactionReturns, Tells
    <3> QED
      BY <1>0, <3>1 DEF Turn, Shown, driver
  <2> QED
    BY <2>1, <2>2
<1> QED
  BY <1>1, <1>2, <1>3 DEF Turn

LEMMA HandleDisconnectTurn ==
  ASSUME TaskInv, BusyInv, NEW o \in Op, Turn(o), handleDisconnect(o)
  PROVE  Turn(o)'
<1>0. /\ UNCHANGED <<driver, sessionId, txStatus, unseen, leaked>>
      /\ task[o].kind = "none" /\ task'[o].kind = "disconnect"
      /\ task'[o].session = sessionId /\ task'[o].step = "sent"
  BY StartsFacts DEF handleDisconnect, Started
<1>1. Alone(o)'
  <2>1. /\ task'[o].asked = (txStatus = "work") /\ sessionId \in Session
        /\ ~Tells(o)
    BY <1>0, StartsFacts DEF handleDisconnect, Tells, TaskInv, TypeOK
  <2>2. transaction[sessionId] = "work" /\ sessionId \notin unseen => txStatus = "work"
    BY <2>1 DEF Turn, Shown
  <2> QED
    BY <1>0, <2>1, <2>2 DEF Alone, Sent, Closing, driver
<1>2. Held(o)'
  BY <1>0 DEF Turn, Held, driver
<1>3. Shown(o)'
  BY <1>0 DEF Turn, Shown, Tells, driver
<1> QED
  BY <1>1, <1>2, <1>3 DEF Turn

LEMMA DisconnectReturnsTurn ==
  ASSUME TaskInv, BusyInv, NEW o \in Op, Turn(o), DisconnectReturns(o)
  PROVE  Turn(o)'
<1>0. /\ UNCHANGED <<driver, unseen, leaked>>
      /\ Ended(o) /\ task[o].kind = "disconnect" /\ task[o].session = sessionId
      /\ \/ sessionId' = None /\ sessionId \notin attached
         \/ UNCHANGED <<sessionId, txStatus>>
  BY DisconnectFacts DEF DisconnectReturns, Moves, Ok, Turn, Alone, Closing
<1>1. Alone(o)'
  BY <1>0, IdleFormed DEF Ended, Alone, Sent, Closing
<1>2. Held(o)'
  BY <1>0 DEF Turn, Held, driver
<1>3. Shown(o)'
  BY <1>0, FormKnown DEF Turn, Shown, Tells, driver
<1> QED
  BY <1>1, <1>2, <1>3 DEF Turn

LEMMA HandleAbandonTurn ==
  ASSUME TaskInv, BusyInv, NEW o \in Op, Turn(o), handleAbandon(o)
  PROVE  Turn(o)'
<1>0. /\ UNCHANGED <<driver, sessionId, txStatus, unseen, leaked>>
      /\ task[o].kind = "none" /\ task'[o].kind = "abandon"
      /\ task'[o].session = sessionId /\ task'[o].step = "sent"
  BY StartsFacts DEF handleAbandon, Started, tab
<1>1. Alone(o)'
  <2>1. /\ task'[o].asked = (txStatus = "work") /\ sessionId \in Session
        /\ ~Tells(o)
    BY <1>0, StartsFacts DEF handleAbandon, Tells, TaskInv, TypeOK
  <2>2. transaction[sessionId] = "work" /\ sessionId \notin unseen => txStatus = "work"
    BY <2>1 DEF Turn, Shown
  <2> QED
    BY <1>0, <2>1, <2>2 DEF Alone, Sent, Closing, driver
<1>2. Held(o)'
  BY <1>0 DEF Turn, Held, driver
<1>3. Shown(o)'
  BY <1>0 DEF Turn, Shown, Tells, driver
<1> QED
  BY <1>1, <1>2, <1>3 DEF Turn

LEMMA AbandonReturnsTurn ==
  ASSUME TaskInv, BusyInv, NEW o \in Op, Turn(o), AbandonReturns(o)
  PROVE  Turn(o)'
<1>0. /\ UNCHANGED <<driver, sessionId, txStatus, unseen, leaked>>
      /\ task[o].kind = "abandon" /\ task[o].session = sessionId
      /\ \/ task'[o].kind = "connect" /\ sessionId \notin attached
         \/ Ended(o)
  BY AbandonFacts DEF AbandonReturns, Continues, history, Ok, Turn, Alone, Closing
<1>1. Alone(o)'
  BY <1>0, IdleFormed DEF Ended, Alone, Sent, Closing, driver
<1>2. Held(o)'
  BY <1>0 DEF Turn, Held, driver
<1>3. Shown(o)'
  BY <1>0 DEF Turn, Shown, Tells, driver
<1> QED
  BY <1>1, <1>2, <1>3 DEF Turn

LEMMA TabCloseReturnsTurn ==
  ASSUME TaskInv, BusyInv, NEW o \in Op, Turn(o), TabCloseReturns(o)
  PROVE  Turn(o)'
<1>0. /\ UNCHANGED <<driver, sessionId, txStatus, unseen, leaked>>
      /\ Ended(o) /\ task[o].kind = "tabclose"
      /\ task[o].session \notin attached \/ task[o].session \in leaked
  BY ReturnsFacts DEF TabCloseReturns, Answered, tab, history, Turn, Alone
<1>1. Alone(o)'
  BY <1>0, IdleFormed DEF Ended, Alone, Sent, Closing
<1>2. Held(o)'
  BY <1>0 DEF Turn, Held, driver
<1>3. Shown(o)'
  BY <1>0 DEF Turn, Shown, Tells, driver
<1> QED
  BY <1>1, <1>2, <1>3 DEF Turn

\* The tab goes, and its session is the handler's.
LEMMA HandleTabCloseTurn ==
  ASSUME TaskInv, BusyInv, NEW o \in Op, Turn(o), handleTabClose(o),
         Started(o, "tabclose", "sent", sessionId, database[sessionId]),
         task'[o].asked = (txStatus = "work"), sessionId \in Session
  PROVE  Turn(o)'
<1>0. /\ UNCHANGED <<driver, unseen, leaked>> /\ sessionId' = None
      /\ task[o].kind = "none" /\ task'[o].kind = "tabclose"
      /\ task'[o].session = sessionId /\ task'[o].step = "sent"
  BY DEF handleTabClose, Moves, Started
<1>1. Alone(o)'
  <2>1. transaction[sessionId] = "work" /\ sessionId \notin unseen => txStatus = "work"
    BY <1>0 DEF Turn, Shown, Tells
  <2> QED
    BY <1>0, <2>1 DEF Alone, Sent, Closing, driver
<1>2. Held(o)'
  BY <1>0 DEF Turn, Held, driver
<1>3. Shown(o)'
  BY <1>0, FormKnown DEF Shown
<1> QED
  BY <1>1, <1>2, <1>3 DEF Turn

\* The driver forgets a session, and with it what there was to know of it.
LEMMA ExpiresTurn ==
  ASSUME TaskInv, TurnInv, NEW s \in Session, Expires(s)
  PROVE  TurnInv'
<1>0. /\ UNCHANGED <<sessionId, txStatus, task>>
      /\ attached' = attached \ {s} /\ leaked' = leaked \ {s} /\ unseen' = unseen \ {s}
      /\ transaction' = [transaction EXCEPT ![s] = "none"]
      /\ transaction \in [Session -> {"none", "open", "work"}]
  BY DEF Expires, Detaches, tab, TaskInv, TypeOK
<1>1. ASSUME NEW q \in Op
      PROVE  Alone(q)'
  <2>1. Alone(q) /\ task[q].session \in Session \cup {None}
    BY FormKnown DEF TurnInv
  <2>2. Sent(q, Closing)' <=> Sent(q, Closing)
    BY <1>0 DEF Sent, Closing
  <2> QED
    BY <1>0, <2>1, <2>2, FormKnown DEF Alone, Formed, Closing, Sent
<1>2. \A q, r \in Running' : q = r
  BY <1>0 DEF TurnInv, Running
<1>3. attached' \subseteq {sessionId'} \cup leaked' \cup {task'[q].session : q \in Running'}
  BY <1>0 DEF TurnInv, Running
<1>4. WorkIsShown'
  BY <1>0 DEF TurnInv, WorkIsShown, Tells
<1> QED
  BY <1>1, <1>2, <1>3, <1>4 DEF TurnInv

\* A plugin that calls while no handler runs: the page is not told of the work
\* that it leaves.
LEMMA PluginCallsTurn ==
  ASSUME TaskInv, TurnInv, NEW s \in Session, PluginCalls(s), Running = {}
  PROVE  TurnInv'
<1>0. /\ UNCHANGED <<attached, sessionId, txStatus, task, leaked>> /\ s \in attached
      /\ \A q \in Op : task[q].kind = "none"
      /\ transaction \in [Session -> {"none", "open", "work"}]
  BY DEF PluginCalls, tab, Running, TaskInv, TypeOK
<1>1. \A q \in Op : Alone(q)'
  BY <1>0 DEF Alone, Sent, Closing
<1>2. \A q, r \in Running' : q = r
  BY <1>0 DEF Running
<1>3. attached' \subseteq {sessionId'} \cup leaked' \cup {task'[q].session : q \in Running'}
  BY <1>0 DEF TurnInv
<1>4. WorkIsShown'
  <2>1. sessionId \in Session \ unseen /\ transaction[sessionId] = "work" => txStatus = "work"
    BY <1>0 DEF TurnInv, WorkIsShown, Tells
  <2>2. CASE db_execute(s)
    <3>1. \A r \in Session \ {s} : transaction'[r] = transaction[r]
      BY <1>0, <2>2, BatchKept DEF db_execute
    <3> QED
      BY <1>0, <2>1, <2>2, <3>1 DEF db_execute, WorkIsShown
  <2>3. CASE db_tx_begin(s) \/ db_tx_finish(s)
    BY <1>0, <2>1, <2>3 DEF db_tx_begin, db_tx_finish, WorkIsShown
  <2> QED
    BY <2>2, <2>3 DEF PluginCalls
<1> QED
  BY <1>1, <1>2, <1>3, <1>4 DEF TurnInv

\* Nothing that TurnInv reads has changed.
LEMMA TurnSame ==
  ASSUME TurnInv,
         UNCHANGED <<attached, transaction, sessionId, txStatus, task, unseen, leaked>>
  PROVE  TurnInv'
<1>1. \A q \in Op : Alone(q)' /\ (Tells(q)' <=> Tells(q))
  BY DEF TurnInv, Alone, Tells, Sent, Closing
<1> QED
  BY <1>1 DEF TurnInv, WorkIsShown, Running

\* History is not undone; and who begins in turn finds nobody running.
LEMMA TurnsAreTaken ==
  ASSUME [Next]_vars, ~overlapped'
  PROVE  ~overlapped
<1>1. overlapped => overlapped'
  BY DEF Next, vars, driver, tab, history, Begins, Attaches, Executes,
     Closes, transaction_status, set_transaction_mode, FinishesTransaction,
     useConnectionActions, onConnected, refreshTxStatus, handleExecute,
     resolveStatement, ExecuteReturns, StatementAside, AsideReturns,
     handleBrowseTable, BrowseReturns, HandleProfile, ProfileReturns,
     TransactionControl, TransactionReturns, handleDisconnect,
     DisconnectReturns, handleAbandon, AbandonReturns, handleTabClose,
     TabCloseReturns, Expires, PluginCalls, newTab
<1> QED
  BY <1>1

LEMMA TurnStep ==
  ASSUME TaskInv, BusyInv, ~overlapped => TurnInv, [Next]_vars
  PROVE  ~overlapped' => TurnInv'
<1> SUFFICES ASSUME ~overlapped'
             PROVE  TurnInv'
  OBVIOUS
<1>0. ~overlapped /\ TurnInv
  BY TurnsAreTaken
<1>1. ASSUME NEW o \in Op, Attaches(o)
      PROVE  TurnInv'
  <2>1. Turns(o) /\ o \in Running
    BY <1>1, AttachesFacts DEF Running
  <2>2. Turn(o) => Turn(o)'
    BY <1>1, AttachesTurn
  <2> QED
    BY <1>0, <2>1, <2>2, TurnPasses
<1>2. ASSUME NEW o \in Op, Executes(o)
      PROVE  TurnInv'
  <2>1. Turns(o) /\ o \in Running
    BY <1>2, ExecutesFacts DEF Running, Answers, Statement
  <2>2. Turn(o) => Turn(o)'
    BY <1>2, ExecutesTurn
  <2> QED
    BY <1>0, <2>1, <2>2, TurnPasses
<1>3. ASSUME NEW o \in Op, Closes(o)
      PROVE  TurnInv'
  <2>1. Turns(o) /\ o \in Running
    BY <1>3, ClosesFacts DEF Running, Answers, Closing
  <2>2. Turn(o) => Turn(o)'
    BY <1>3, ClosesTurn
  <2> QED
    BY <1>0, <2>1, <2>2, TurnPasses
<1>4. ASSUME NEW o \in Op, transaction_status(o)
      PROVE  TurnInv'
  <2>1. Turns(o) /\ o \in Running
    BY <1>4, StatusFacts DEF Running, Answers
  <2>2. Turn(o) => Turn(o)'
    BY <1>4, Transaction_statusTurn
  <2> QED
    BY <1>0, <2>1, <2>2, TurnPasses
<1>5. ASSUME NEW o \in Op, set_transaction_mode(o)
      PROVE  TurnInv'
  <2>1. Turns(o) /\ o \in Running
    BY <1>5, ModeFacts DEF Running, Answers
  <2>2. Turn(o) => Turn(o)'
    BY <1>5, Set_transaction_modeTurn
  <2> QED
    BY <1>0, <2>1, <2>2, TurnPasses
<1>6. ASSUME NEW o \in Op, FinishesTransaction(o)
      PROVE  TurnInv'
  <2>1. Turns(o) /\ o \in Running
    BY <1>6, FinishFacts DEF Running, Answers
  <2>2. Turn(o) => Turn(o)'
    BY <1>6, FinishesTransactionTurn
  <2> QED
    BY <1>0, <2>1, <2>2, TurnPasses
<1>7. ASSUME NEW o \in Op, useConnectionActions(o)
      PROVE  TurnInv'
  <2>1. Turns(o) /\ Running = {}
    BY <1>7, ConnectFacts DEF useConnectionActions, Begins, Started
  <2>2. Turn(o) => Turn(o)'
    BY <1>7, UseConnectionActionsTurn
  <2> QED
    BY <1>0, <2>1, <2>2, TurnPasses
<1>8. ASSUME NEW o \in Op, onConnected(o)
      PROVE  TurnInv'
  <2>1. Turns(o) /\ o \in Running
    BY <1>8, OnConnectedFacts DEF Running, Continues, Ended
  <2>2. Turn(o) => Turn(o)'
    BY <1>8, OnConnectedTurn
  <2> QED
    BY <1>0, <2>1, <2>2, TurnPasses
<1>9. ASSUME NEW o \in Op, refreshTxStatus(o)
      PROVE  TurnInv'
  <2>1. Turns(o) /\ o \in Running
    BY <1>9, RefreshFacts DEF Running, Ended
  <2>2. Turn(o) => Turn(o)'
    BY <1>9, RefreshTxStatusTurn
  <2> QED
    BY <1>0, <2>1, <2>2, TurnPasses
<1>10. ASSUME NEW o \in Op, handleExecute(o)
      PROVE  TurnInv'
  <2>1. Turns(o) /\ Running = {}
    BY <1>10, StartsFacts DEF handleExecute, Begins, Started
  <2>2. Turn(o) => Turn(o)'
    BY <1>10, HandleExecuteTurn
  <2> QED
    BY <1>0, <2>1, <2>2, TurnPasses
<1>11. ASSUME NEW o \in Op, resolveStatement(o)
      PROVE  TurnInv'
  <2>1. Turns(o) /\ o \in Running
    BY <1>11, ResolveFacts DEF Running, Answers, Ended
  <2>2. Turn(o) => Turn(o)'
    BY <1>11, ResolveStatementTurn
  <2> QED
    BY <1>0, <2>1, <2>2, TurnPasses
<1>12. ASSUME NEW o \in Op, ExecuteReturns(o)
      PROVE  TurnInv'
  <2>1. Turns(o) /\ o \in Running
    BY <1>12, ExecuteReturnsFacts DEF Running, Continues, Ended
  <2>2. Turn(o) => Turn(o)'
    BY <1>12, ExecuteReturnsTurn
  <2> QED
    BY <1>0, <2>1, <2>2, TurnPasses
<1>13. ASSUME NEW o \in Op, StatementAside(o)
      PROVE  TurnInv'
  <2>1. Turns(o) /\ Running = {}
    BY <1>13, StartsFacts DEF StatementAside, Begins, Started
  <2>2. Turn(o) => Turn(o)'
    BY <1>13, StatementAsideTurn
  <2> QED
    BY <1>0, <2>1, <2>2, TurnPasses
<1>14. ASSUME NEW o \in Op, AsideReturns(o)
      PROVE  TurnInv'
  <2>1. Turns(o) /\ o \in Running
    BY <1>14, ReturnsFacts DEF Running, Ended
  <2>2. Turn(o) => Turn(o)'
    BY <1>14, AsideReturnsTurn
  <2> QED
    BY <1>0, <2>1, <2>2, TurnPasses
<1>15. ASSUME NEW o \in Op, handleBrowseTable(o)
      PROVE  TurnInv'
  <2>1. Turns(o) /\ Running = {}
    BY <1>15, StartsFacts DEF handleBrowseTable, Begins, Started
  <2>2. Turn(o) => Turn(o)'
    BY <1>15, HandleBrowseTableTurn
  <2> QED
    BY <1>0, <2>1, <2>2, TurnPasses
<1>16. ASSUME NEW o \in Op, BrowseReturns(o)
      PROVE  TurnInv'
  <2>1. Turns(o) /\ o \in Running
    BY <1>16, ReturnsFacts DEF Running, Ended
  <2>2. Turn(o) => Turn(o)'
    BY <1>16, BrowseReturnsTurn
  <2> QED
    BY <1>0, <2>1, <2>2, TurnPasses
<1>17. ASSUME NEW o \in Op, HandleProfile(o)
      PROVE  TurnInv'
  <2>1. Turns(o) /\ Running = {}
    BY <1>17, ProfileFacts DEF HandleProfile, Begins, Started
  <2>2. Turn(o) => Turn(o)'
    BY <1>17, HandleProfileTurn
  <2> QED
    BY <1>0, <2>1, <2>2, TurnPasses
<1>18. ASSUME NEW o \in Op, ProfileReturns(o)
      PROVE  TurnInv'
  <2>1. Turns(o) /\ o \in Running
    BY <1>18, ProfileFacts DEF Running, Ended
  <2>2. Turn(o) => Turn(o)'
    BY <1>18, ProfileReturnsTurn
  <2> QED
    BY <1>0, <2>1, <2>2, TurnPasses
<1>19. ASSUME NEW o \in Op, NEW kind \in {"mode", "finish"}, TransactionControl(o, kind)
      PROVE  TurnInv'
  <2>1. Turns(o) /\ Running = {}
    BY <1>19, StartsFacts DEF TransactionControl, Begins, Started
  <2>2. Turn(o) => Turn(o)'
    BY <1>19, TransactionControlTurn
  <2> QED
    BY <1>0, <2>1, <2>2, TurnPasses
<1>20. ASSUME NEW o \in Op, TransactionReturns(o)
      PROVE  TurnInv'
  <2>1. Turns(o) /\ o \in Running
    BY <1>20, ReturnsFacts DEF Running, Ended
  <2>2. Turn(o) => Turn(o)'
    BY <1>20, TransactionReturnsTurn
  <2> QED
    BY <1>0, <2>1, <2>2, TurnPasses
<1>21. ASSUME NEW o \in Op, handleDisconnect(o)
      PROVE  TurnInv'
  <2>1. Turns(o) /\ Running = {}
    BY <1>21, StartsFacts DEF handleDisconnect, Begins, Started
  <2>2. Turn(o) => Turn(o)'
    BY <1>21, HandleDisconnectTurn
  <2> QED
    BY <1>0, <2>1, <2>2, TurnPasses
<1>22. ASSUME NEW o \in Op, DisconnectReturns(o)
      PROVE  TurnInv'
  <2>1. Turns(o) /\ o \in Running
    BY <1>22, DisconnectFacts DEF Running, Ended
  <2>2. Turn(o) => Turn(o)'
    BY <1>22, DisconnectReturnsTurn
  <2> QED
    BY <1>0, <2>1, <2>2, TurnPasses
<1>23. ASSUME NEW o \in Op, handleAbandon(o)
      PROVE  TurnInv'
  <2>1. Turns(o) /\ Running = {}
    BY <1>23, StartsFacts DEF handleAbandon, Begins, Started
  <2>2. Turn(o) => Turn(o)'
    BY <1>23, HandleAbandonTurn
  <2> QED
    BY <1>0, <2>1, <2>2, TurnPasses
<1>24. ASSUME NEW o \in Op, AbandonReturns(o)
      PROVE  TurnInv'
  <2>1. Turns(o) /\ o \in Running
    BY <1>24, AbandonFacts DEF Running, Continues, Ended
  <2>2. Turn(o) => Turn(o)'
    BY <1>24, AbandonReturnsTurn
  <2> QED
    BY <1>0, <2>1, <2>2, TurnPasses
<1>25. ASSUME NEW o \in Op, TabCloseReturns(o)
      PROVE  TurnInv'
  <2>1. Turns(o) /\ o \in Running
    BY <1>25, ReturnsFacts DEF Running, Ended
  <2>2. Turn(o) => Turn(o)'
    BY <1>25, TabCloseReturnsTurn
  <2> QED
    BY <1>0, <2>1, <2>2, TurnPasses
<1>26. ASSUME NEW o \in Op, handleTabClose(o)
      PROVE  TurnInv'
  <2>1. CASE sessionId = None /\ task' = task
    <3>1. UNCHANGED <<attached, transaction, sessionId, task, unseen, leaked>>
      BY <1>26, <2>1 DEF handleTabClose, Moves, driver
    <3>2. \A q \in Op : Alone(q)'
      BY <1>0, <3>1 DEF TurnInv, Alone, Sent, Closing
    <3> QED
      BY <1>0, <2>1, <3>1, <3>2, FormKnown DEF TurnInv, WorkIsShown, Running
  <2>2. CASE /\ Started(o, "tabclose", "sent", sessionId, database[sessionId])
             /\ Begins(o, "tabclose", "sent", sessionId, confirmDiscardTx,
                       database[sessionId])
             /\ task'[o].asked = (txStatus = "work") /\ sessionId \in Session
    <3>1. Turns(o) /\ Running = {}
      BY <2>2 DEF Started, Begins
    <3>2. Turn(o) => Turn(o)'
      BY <1>26, <2>2, HandleTabCloseTurn
    <3> QED
      BY <1>0, <3>1, <3>2, TurnPasses
  <2> QED
    BY <1>26, <2>1, <2>2, TabCloseFacts
<1>27. ASSUME NEW s \in Session, Expires(s)
      PROVE  TurnInv'
  BY <1>0, <1>27, ExpiresTurn
<1>28. ASSUME NEW s \in Session, PluginCalls(s)
      PROVE  TurnInv'
  BY <1>0, <1>28, PluginCallsTurn DEF PluginCalls
<1>29. CASE newTab
  BY <1>0, <1>29, TurnSame DEF newTab, driver, history
<1>30. CASE UNCHANGED vars
  BY <1>0, <1>30, TurnSame DEF vars, driver, tab, history
<1> QED
  BY <1>1, <1>2, <1>3, <1>4, <1>5, <1>6, <1>7, <1>8, <1>9, <1>10, <1>11,
     <1>12, <1>13, <1>14, <1>15, <1>16, <1>17, <1>18, <1>19, <1>20, <1>21,
     <1>22, <1>23, <1>24, <1>25, <1>26, <1>27, <1>28, <1>29, <1>30 DEF Next

-----------------------------------------------------------------------------
(* The theorems.                                                            *)

LEMMA Initially == Init => IInv
<1> SUFFICES ASSUME Init
             PROVE  IInv
  OBVIOUS
<1>1. \A o \in Op : task[o] = Idle
  BY DEF Init
<1>2. TaskInv
  <2>1. task \in [Op -> Task]
    BY IdleFormed DEF Init, Formed
  <2> QED
    BY <1>1, <2>1, IdleFormed DEF Init, TaskInv, TypeOK
<1>3. BusyInv
  BY DEF Init, BusyInv
<1>4. ResultsInv
  BY <1>1, IdleFormed DEF Init, ResultsInv
<1>5. TurnInv
  <2>1. Running = {}
    BY <1>1, IdleFormed DEF Running
  <2>2. \A o \in Op : Alone(o)
    BY <1>1, IdleFormed, IdleIsAlone
  <2>3. WorkIsShown
    BY ClientTabAssumption DEF Init, WorkIsShown
  <2> QED
    BY <2>1, <2>2, <2>3 DEF Init, TurnInv
<1> QED
  BY <1>2, <1>3, <1>4, <1>5 DEF IInv

LEMMA Invariance == Spec => []IInv
<1>1. IInv /\ [Next]_vars => IInv'
  BY TaskStep, BusyStep, ResultsStep, TurnStep DEF IInv
<1> QED
  BY <1>1, Initially, PTL DEF Spec

\* The fields of the tab, the handlers and the sessions of the driver keep
\* their types; a transaction is open only in an attached session.
THEOREM TypeCorrect == Spec => []TypeOK
<1>1. IInv => TypeOK
  BY DEF IInv, TaskInv
<1> QED
  BY <1>1, Invariance, PTL

\* However many handlers run, and in whatever order they are answered, the
\* results are of the database the tab is connected to, as long as no statement
\* and no second connect outlived the tab's session.
THEOREM ResultsAreRead == Spec => []ResultsAreOfConnection
<1>1. IInv => ResultsAreOfConnection
  BY DEF IInv, ResultsInv, ResultsAreOfConnection
<1> QED
  BY <1>1, Invariance, PTL

\* The controls that a handler disabled are enabled again when the last handler
\* has ended, but for a statement that was let go to a session the tab had left.
THEOREM ControlsComeBack == Spec => []BusyEnds
<1>1. IInv => BusyEnds
  BY DEF IInv, BusyInv, BusyEnds, Disables, Running
<1> QED
  BY <1>1, Invariance, PTL

\* While handlers take turns no attachment is lost sight of.
THEOREM AttachmentsAreHeld == Spec => []AttachmentIsHeld
<1>1. IInv => AttachmentIsHeld
  BY DEF IInv, TurnInv, AttachmentIsHeld
<1> QED
  BY <1>1, Invariance, PTL

\* While handlers take turns no close rolls back work that the page was told
\* of, unless its user agreed.
THEOREM WorkIsAskedAbout == Spec => DiscardIsAsked
<1> DEFINE A == \A o \in Op :
                   LET s == task[o].session IN
                   /\ Sent(o, Closing) /\ task'[o].step # "sent"
                   /\ s \in attached \ attached' /\ transaction[s] = "work"
                   => task[o].asked \/ overlapped \/ s \in unseen
<1>1. IInv /\ [Next]_vars => [A]_vars
  <2>1. IInv => A
    BY DEF IInv, TurnInv, Alone
  <2> QED
    BY <2>1
<1> QED
  BY <1>1, Invariance, PTL DEF Spec, DiscardIsAsked

=============================================================================
