-------------------------- MODULE PluginHostProofs --------------------------
(***************************************************************************)
(* Theorems of PluginHost, for any number of calls, sessions and registry  *)
(* entries: the types, the agreement of the registries while lifecycle     *)
(* calls take turns, and what the session slot holds.                      *)
(***************************************************************************)
EXTENDS PluginHost, TLAPS

-----------------------------------------------------------------------------
(* The types.                                                              *)

\* The next step of a deactivation.
LEMMA ContinuesCases ==
  ASSUME NEW r, NEW step, Continues(r, step)
  PROVE  /\ step = "unsubscribe" => Goes(r, "leave")
         /\ step = "leave" => Goes(r, "drop")
         /\ step = "drop" => Goes(r, "remove")
         /\ step = "remove" =>
              IF task[r].op = "reload" THEN Goes(r, "stage") ELSE Ends(r)
<1>1. PICK i \in 1..4 :
         /\ ReleaseOrder[i] = step
         /\ IF i < 4 THEN Goes(r, ReleaseOrder[i + 1])
            ELSE IF task[r].op = "reload" THEN Goes(r, "stage") ELSE Ends(r)
  BY DEF Continues
<1>2. /\ ReleaseOrder[1] = "unsubscribe" /\ ReleaseOrder[2] = "leave"
      /\ ReleaseOrder[3] = "drop" /\ ReleaseOrder[4] = "remove"
  BY DEF ReleaseOrder
<1>3. i = 1 \/ i = 2 \/ i = 3 \/ i = 4
  OBVIOUS
<1>4. CASE i = 1
  BY <1>1, <1>2, <1>4
<1>5. CASE i = 2
  BY <1>1, <1>2, <1>5
<1>6. CASE i = 3
  BY <1>1, <1>2, <1>6
<1>7. CASE i = 4
  BY <1>1, <1>2, <1>7
<1> QED
  BY <1>3, <1>4, <1>5, <1>6, <1>7

\* What a step does to the call that takes it.
Tasked(r, t) == task' = [task EXCEPT ![r] = t]

\* The steps of each kind of call.
StepsOf(op) ==
    CASE op = "none"       -> {"idle"}
      [] op = "activate"   -> {"read", "instantiate", "subscribe", "join", "record"}
      [] op = "deactivate" -> {"unsubscribe", "leave", "drop", "remove"}
      [] op = "reload"     -> {"unsubscribe", "leave", "drop", "remove", "stage",
                               "read", "instantiate", "subscribe", "join", "record"}
      [] op = "emit"       -> {"list", "dispatch", "handle", "clear"}
      [] op = "intercept"  -> {"list", "dispatch", "handle"}

StepInv == \A r \in Request : task[r].step \in StepsOf(task[r].op)

TypeInv == TypeOK /\ StepInv

\* A task of one call replaced by another of the right form.
LEMMA TaskReplaced ==
  ASSUME TypeInv, NEW r \in Request, NEW t \in Task, Tasked(r, t),
         t.step \in StepsOf(t.op),
         t.step \in {"instantiate", "handle"} => t.entry \in Entry
  PROVE  /\ task' \in [Request -> Task]
         /\ StepInv'
         /\ \A q \in Request :
               task'[q].step \in {"instantiate", "handle"} => task'[q].entry \in Entry
  BY DEF TypeInv, TypeOK, StepInv, Tasked

\* The task of a call that ends, that goes on, or that begins.
LEMMA IdleTyped == Idle \in Task /\ Idle.step = "idle" /\ Idle.op = "none"
  BY DEF Idle, Task

LEMMA TypeInit == Init => TypeInv
<1> SUFFICES ASSUME Init PROVE TypeInv
  OBVIOUS
<1>1. "idle" \in StepsOf("none")
  BY DEF StepsOf
<1>2. \A r \in Request : task[r] = Idle
  BY DEF Init
<1>3. StepInv
  BY <1>1, <1>2, IdleTyped DEF StepInv
<1>4. TypeOK
  BY <1>2, IdleTyped DEF Init, TypeOK
<1> QED
  BY <1>3, <1>4 DEF TypeInv

LEMMA EndsTyped ==
  ASSUME TypeInv, NEW r \in Request, Ends(r)
  PROVE  /\ task' \in [Request -> Task]
         /\ StepInv'
         /\ \A q \in Request :
               task'[q].step \in {"instantiate", "handle"} => task'[q].entry \in Entry
<1>1. "idle" \in StepsOf("none")
  BY DEF StepsOf
<1> QED
  BY <1>1, IdleTyped, TaskReplaced DEF Ends, Tasked

LEMMA GoesTyped ==
  ASSUME TypeInv, NEW r \in Request, NEW step, Goes(r, step),
         step \in StepsOf(task[r].op), step \notin {"instantiate", "handle", "idle"}
  PROVE  /\ task' \in [Request -> Task]
         /\ StepInv'
         /\ \A q \in Request :
               task'[q].step \in {"instantiate", "handle"} => task'[q].entry \in Entry
<1> DEFINE t == [task[r] EXCEPT !.step = step]
<1>1. task[r] \in Task
  BY DEF TypeInv, TypeOK
<1>2. step \in {"unsubscribe", "leave", "drop", "remove", "stage", "read",
               "subscribe", "join", "record", "list", "dispatch", "clear"}
  <2>1. task[r].op \in {"none"} \cup Lifecycle \cup Dispatch
    BY <1>1 DEF Task
  <2> QED
    BY <2>1 DEF StepsOf, Lifecycle, Dispatch
<1>3. t \in Task /\ t.step = step /\ t.op = task[r].op
  BY <1>1, <1>2 DEF Task
<1>4. Tasked(r, t)
  BY DEF Goes, Tasked
<1> QED
  BY <1>2, <1>3, <1>4, TaskReplaced

LEMMA BeginsTyped ==
  ASSUME TypeInv, NEW r \in Request,
         NEW op \in Lifecycle \cup Dispatch, NEW step \in StepsOf(op) \ {"instantiate", "handle"},
         NEW s \in Session \cup {NoSession}, Begins(r, op, step, s)
  PROVE  /\ task' \in [Request -> Task]
         /\ StepInv'
         /\ \A q \in Request :
               task'[q].step \in {"instantiate", "handle"} => task'[q].entry \in Entry
         /\ overlapped' \in BOOLEAN
         /\ crossed' \in BOOLEAN
<1> DEFINE t == [Idle EXCEPT !.op = op, !.step = step, !.session = s]
<1>1. t \in Task /\ t.step = step /\ t.op = op
  BY DEF Task, Idle, StepsOf, Lifecycle, Dispatch
<1>2. Tasked(r, t)
  BY DEF Begins, Tasked
<1>3. overlapped' \in BOOLEAN /\ crossed' \in BOOLEAN
  BY DEF Begins, TypeInv, TypeOK
<1> QED
  BY <1>1, <1>2, <1>3, TaskReplaced

LEMMA TypeStep == TypeInv /\ [Next]_vars => TypeInv'
<1> SUFFICES ASSUME TypeInv, [Next]_vars PROVE TypeInv'
  OBVIOUS
<1> USE DEF TypeInv, TypeOK, wiring, chains, Steps, At
<1>1. CASE load_plugin
  BY <1>1 DEF load_plugin, Inserts, StepInv
<1>2. ASSUME NEW r \in Request,
             \/ activate_plugin(r) \/ deactivate_plugin(r) \/ reload_plugin(r)
             \/ EventRoute(r) \/ run_interceptors(r)
      PROVE  TypeInv'
  <2>1. /\ {"activate", "deactivate", "reload"} \subseteq Lifecycle
        /\ {"emit", "intercept"} \subseteq Dispatch
        /\ "read" \in StepsOf("activate") /\ "unsubscribe" \in StepsOf("deactivate")
        /\ "unsubscribe" \in StepsOf("reload") /\ "list" \in StepsOf("emit")
        /\ "list" \in StepsOf("intercept") /\ Head(ReleaseOrder) = "unsubscribe"
    BY DEF Lifecycle, Dispatch, StepsOf, ReleaseOrder
  <2>2. CASE activate_plugin(r)
    BY <2>1, <2>2, BeginsTyped DEF activate_plugin
  <2>3. CASE deactivate_plugin(r)
    BY <2>1, <2>3, BeginsTyped DEF deactivate_plugin
  <2>4. CASE reload_plugin(r)
    BY <2>1, <2>4, BeginsTyped DEF reload_plugin
  <2>5. CASE EventRoute(r)
    BY <2>1, <2>5, BeginsTyped DEF EventRoute, emit_event, set_event_session
  <2>6. CASE run_interceptors(r)
    BY <2>1, <2>6, BeginsTyped DEF run_interceptors
  <2> QED
    BY <1>2, <2>2, <2>3, <2>4, <2>5, <2>6
<1>3. ASSUME NEW r \in Request, Reads(r) PROVE TypeInv'
  <2>1. CASE Ends(r)
    BY <1>3, <2>1, EndsTyped DEF Reads
  <2>2. CASE /\ registry # NoEntry
             /\ task' = [task EXCEPT ![r].step = "instantiate", ![r].entry = registry]
    <3> DEFINE t == [task[r] EXCEPT !.step = "instantiate", !.entry = registry]
    <3>1. t \in Task /\ t.step = "instantiate" /\ t.op = task[r].op /\ t.entry \in Entry
      BY <2>2 DEF Task
    <3>2. "instantiate" \in StepsOf(task[r].op)
      BY <1>3 DEF Reads, StepInv, StepsOf, Task, Lifecycle, Dispatch
    <3>3. Tasked(r, t)
      BY <2>2 DEF Tasked
    <3> QED
      BY <1>3, <3>1, <3>2, <3>3, TaskReplaced DEF Reads
  <2> QED
    BY <1>3, <2>1, <2>2 DEF Reads
<1>4. ASSUME NEW r \in Request, Instantiates(r) PROVE TypeInv'
  <2>1. /\ task[r].entry \in Entry /\ task[r] \in Task
        /\ "subscribe" \in StepsOf(task[r].op) /\ "record" \in StepsOf(task[r].op)
    BY <1>4 DEF Instantiates, StepInv, StepsOf, Task, Lifecycle, Dispatch
  <2>2. CASE /\ instance' = task[r].entry
             /\ task' = [task EXCEPT ![r].step = "subscribe", ![r].ok = TRUE]
    <3> DEFINE t == [task[r] EXCEPT !.step = "subscribe", !.ok = TRUE]
    <3>1. t \in Task /\ t.step = "subscribe" /\ t.op = task[r].op
      BY <2>1 DEF Task
    <3>2. Tasked(r, t)
      BY <2>2 DEF Tasked
    <3> QED
      BY <1>4, <2>1, <2>2, <3>1, <3>2, TaskReplaced DEF Instantiates
  <2>3. CASE Goes(r, "record") /\ UNCHANGED instance
    BY <1>4, <2>1, <2>3, GoesTyped DEF Instantiates
  <2>4. CASE instance' \in {instance, task[r].entry} /\ Ends(r)
    BY <1>4, <2>1, <2>4, EndsTyped DEF Instantiates
  <2> QED
    BY <1>4, <2>2, <2>3, <2>4 DEF Instantiates
<1>5. ASSUME NEW r \in Request, Subscribes(r) \/ Joins(r) PROVE TypeInv'
  <2>1. "join" \in StepsOf(task[r].op) /\ "record" \in StepsOf(task[r].op)
    BY <1>5 DEF Subscribes, Joins, StepInv, StepsOf, Task, Lifecycle, Dispatch
  <2> QED
    BY <1>5, <2>1, GoesTyped DEF Subscribes, Joins
<1>6. ASSUME NEW r \in Request, Records(r) PROVE TypeInv'
  BY <1>6, EndsTyped DEF Records
<1>7. ASSUME NEW r \in Request,
             Unsubscribes(r) \/ Leaves(r) \/ Drops(r) \/ Removes(r)
      PROVE  TypeInv'
  <2>1. /\ {"leave", "drop", "remove"} \subseteq StepsOf(task[r].op)
        /\ task[r].op = "reload" => "stage" \in StepsOf(task[r].op)
    BY <1>7 DEF Unsubscribes, Leaves, Drops, Removes, StepInv, StepsOf, Task,
                Lifecycle, Dispatch
  <2>2. CASE Unsubscribes(r)
    BY <2>1, <2>2, ContinuesCases, GoesTyped DEF Unsubscribes
  <2>3. CASE Leaves(r)
    BY <2>1, <2>3, ContinuesCases, GoesTyped DEF Leaves
  <2>4. CASE Drops(r)
    BY <2>1, <2>4, ContinuesCases, GoesTyped, EndsTyped DEF Drops
  <2>5. CASE Removes(r)
    BY <2>1, <2>5, ContinuesCases, GoesTyped, EndsTyped DEF Removes
  <2> QED
    BY <1>7, <2>2, <2>3, <2>4, <2>5
<1>8. ASSUME NEW r \in Request, Stages(r) PROVE TypeInv'
  <2>1. "read" \in StepsOf(task[r].op)
    BY <1>8 DEF Stages, StepInv, StepsOf, Task, Lifecycle, Dispatch
  <2>2. CASE (\E e \in Entry : Inserts(e)) /\ Goes(r, "read")
    BY <1>8, <2>1, <2>2, GoesTyped DEF Stages, Inserts
  <2>3. CASE Ends(r) /\ UNCHANGED <<registry, activation, slot>>
    BY <1>8, <2>3, EndsTyped DEF Stages
  <2> QED
    BY <1>8, <2>2, <2>3 DEF Stages
<1>9. ASSUME NEW r \in Request, Lists(r) \/ Handled(r) \/ Dispatches(r) PROVE TypeInv'
  <2>1. /\ task[r] \in Task /\ {"dispatch", "handle"} \subseteq StepsOf(task[r].op)
        /\ task[r].op = "emit" => "clear" \in StepsOf(task[r].op)
    BY <1>9 DEF Lists, Handled, Dispatches, StepInv, StepsOf, Task, Lifecycle, Dispatch
  <2>2. CASE Returns(r) \/ Goes(r, "dispatch")
    BY <1>9, <2>1, <2>2, GoesTyped, EndsTyped DEF Lists, Handled, Dispatches, Returns
  <2>3. CASE /\ instance # NoEntry
             /\ task' = [task EXCEPT ![r].step = "handle", ![r].entry = instance]
    <3> DEFINE t == [task[r] EXCEPT !.step = "handle", !.entry = instance]
    <3>1. t \in Task /\ t.step = "handle" /\ t.op = task[r].op /\ t.entry \in Entry
      BY <2>1, <2>3 DEF Task
    <3>2. Tasked(r, t)
      BY <2>3 DEF Tasked
    <3> QED
      BY <1>9, <2>1, <3>1, <3>2, TaskReplaced DEF Lists, Handled, Dispatches
  <2> QED
    BY <1>9, <2>2, <2>3 DEF Lists, Handled, Dispatches
<1>10. ASSUME NEW r \in Request, Clears(r) PROVE TypeInv'
  BY <1>10, EndsTyped DEF Clears, set_event_session
<1>11. CASE UNCHANGED vars
  BY <1>11 DEF vars, StepInv
<1> QED
  BY <1>1, <1>2, <1>3, <1>4, <1>5, <1>6, <1>7, <1>8, <1>9, <1>10, <1>11 DEF Next

-----------------------------------------------------------------------------
(* The slot between deliveries.                                            *)

LEMMA SlotStep == TypeInv /\ NothingLeftInSlot /\ [Next]_vars => NothingLeftInSlot'
<1> SUFFICES ASSUME TypeInv, NothingLeftInSlot, [Next]_vars PROVE NothingLeftInSlot'
  OBVIOUS
<1> USE DEF NothingLeftInSlot, wiring, chains, Steps, At, Running
<1>1. task \in [Request -> Task] /\ StepInv
  BY DEF TypeInv, TypeOK
<1>2. ASSUME NEW r \in Request, UNCHANGED <<registry, slot>>,
             task[r].op # "emit" \/ task'[r].op = "emit",
             \A q \in Request \ {r} : task'[q] = task[q]
      PROVE  NothingLeftInSlot'
  BY <1>2
<1>3. ASSUME NEW e \in Entry, Inserts(e) PROVE slot'[registry'] = NoSession
  BY <1>3 DEF Inserts, TypeInv, TypeOK
<1>4. CASE load_plugin
  BY <1>3, <1>4 DEF load_plugin
<1>5. ASSUME NEW r \in Request,
             \/ activate_plugin(r) \/ deactivate_plugin(r) \/ reload_plugin(r)
             \/ run_interceptors(r)
      PROVE  NothingLeftInSlot'
  <2>1. task[r].op # "emit"
    BY <1>1, <1>5 DEF activate_plugin, deactivate_plugin, reload_plugin,
                      run_interceptors, Begins, StepInv, StepsOf
  <2> QED
    BY <1>1, <1>2, <1>5, <2>1 DEF activate_plugin, deactivate_plugin, reload_plugin,
                      run_interceptors, Begins
<1>6. ASSUME NEW r \in Request, EventRoute(r) PROVE NothingLeftInSlot'
  <2>1. task'[r].op = "emit"
    BY <1>1, <1>6 DEF EventRoute, emit_event, Begins, Idle
  <2> QED
    BY <2>1
<1>7. ASSUME NEW r \in Request,
             \/ Reads(r) \/ Instantiates(r) \/ Subscribes(r) \/ Joins(r) \/ Records(r)
             \/ Unsubscribes(r) \/ Leaves(r) \/ Drops(r)
      PROVE  NothingLeftInSlot'
  <2>1. task[r].op # "emit"
    BY <1>1, <1>7 DEF Reads, Instantiates, Subscribes, Joins, Records,
                      Unsubscribes, Leaves, Drops, StepInv, StepsOf
  <2>2. UNCHANGED <<registry, slot>>
    BY <1>7 DEF Reads, Instantiates, Subscribes, Joins, Records,
                Unsubscribes, Leaves, Drops
  <2>3. \A q \in Request \ {r} : task'[q] = task[q]
    BY <1>1, <1>7, ContinuesCases
       DEF Reads, Instantiates, Subscribes, Joins, Records,
           Unsubscribes, Leaves, Drops, Goes, Ends
  <2> QED
    BY <1>2, <2>1, <2>2, <2>3
<1>8. ASSUME NEW r \in Request, Removes(r) PROVE NothingLeftInSlot'
  BY <1>8 DEF Removes
<1>9. ASSUME NEW r \in Request, Stages(r) PROVE NothingLeftInSlot'
  <2>1. task[r].op # "emit"
    BY <1>1, <1>9 DEF Stages, StepInv, StepsOf
  <2> QED
    BY <1>1, <1>2, <1>3, <1>9, <2>1 DEF Stages, Ends
<1>10. ASSUME NEW r \in Request, Lists(r) \/ Dispatches(r) \/ Handled(r)
       PROVE  NothingLeftInSlot'
  <2>1. UNCHANGED <<registry, slot>>
    BY <1>10 DEF Lists, Dispatches, Handled
  <2>2. \A q \in Request \ {r} : task'[q] = task[q]
    BY <1>1, <1>10 DEF Lists, Dispatches, Handled, Returns, Goes, Ends
  <2>3. task[r].op = "emit" => task'[r].op = "emit"
    BY <1>1, <1>10 DEF Lists, Dispatches, Handled, Returns, Goes, Task
  <2> QED
    BY <1>2, <2>1, <2>2, <2>3
<1>11. ASSUME NEW r \in Request, Clears(r) PROVE NothingLeftInSlot'
  BY <1>11 DEF Clears, set_event_session, TypeInv, TypeOK
<1>12. CASE UNCHANGED vars
  BY <1>12 DEF vars
<1> QED
  BY <1>4, <1>5, <1>6, <1>7, <1>8, <1>9, <1>10, <1>11, <1>12 DEF Next
-----------------------------------------------------------------------------
(* The registries.                                                         *)

\* Lifecycle calls take turns.
LifecycleInTurn ==
    \A q, r \in Request :
        task[q].op \in Lifecycle /\ task[r].op \in Lifecycle => q = r

\* The plugin shown as activated can be called.
Callable == registry # NoEntry /\ activation[registry] = "ok" => instance = registry

LifecycleSteps == {"unsubscribe", "leave", "drop", "remove", "stage",
                   "read", "instantiate", "subscribe", "join", "record"}

\* What a lifecycle call has done by the time it is at a step.
DoneBy(r) ==
    LET s == task[r].step IN
    /\ s \in LifecycleSteps \ {"subscribe", "join", "record"} => ~task[r].ok
    /\ s = "instantiate" => task[r].entry = registry
    /\ s \in {"subscribe", "join"} => registry # NoEntry /\ instance = registry
    /\ s = "record" /\ task[r].ok => registry # NoEntry /\ instance = registry
    /\ s \in {"leave", "drop", "remove", "stage"} => ~subscribed
    /\ s \in {"drop", "remove", "stage"} => (intercepting => unreleased)
    /\ s \in {"remove", "stage"} => instance = NoEntry

\* What a chain or the bus lists has an instance, and that one its entry.
Listings ==
    /\ subscribed => instance # NoEntry
    /\ intercepting => instance # NoEntry \/ unreleased
    /\ instance # NoEntry => registry = instance

\* The registries agree, except for the entry that a deactivation is about to
\* remove.
RegistryInv ==
    /\ LifecycleInTurn
    /\ Listings
    /\ \A r \in Request : DoneBy(r)
    /\ Callable \/ \E r \in Request : At(r, "remove")

\* A call into the plugin is shown its own session or none.
SlotInv ==
    /\ \A q, r \in Request :
          task[q].op \in Dispatch /\ task[r].op \in Dispatch => q = r
    /\ \A r \in Request : task[r].op \in Dispatch =>
          /\ registry # NoEntry => slot[registry] \in {task[r].session, NoSession}
          /\ At(r, "handle") => Seen(r) \in {task[r].session, NoSession}

IInv ==
    /\ TypeInv
    /\ NothingLeftInSlot
    /\ ~overlapped => RegistryInv
    /\ ~overlapped /\ ~crossed => SlotInv
\* The steps of lifecycle calls are those of lifecycle calls.
LEMMA StepTellsOp ==
  ASSUME TypeInv, NEW r \in Request
  PROVE  /\ task[r].op \in Lifecycle <=> task[r].step \in LifecycleSteps
         /\ task[r].op \in Dispatch <=>
              task[r].step \in {"list", "dispatch", "handle", "clear"}
         /\ task[r].op = "none" <=> task[r].step = "idle"
         /\ task[r].step = "stage" => task[r].op = "reload"
         /\ task[r].step = "clear" => task[r].op = "emit"
<1>1. task[r] \in Task /\ task[r].step \in StepsOf(task[r].op)
  BY DEF TypeInv, TypeOK, StepInv
<1>2. task[r].op \in {"none"} \cup Lifecycle \cup Dispatch
  BY <1>1 DEF Task
<1> QED
  BY <1>1, <1>2 DEF StepsOf, Lifecycle, Dispatch, LifecycleSteps

\* A step of the one lifecycle call leaves the others with nothing to show.
LEMMA LifecycleStep ==
  ASSUME TypeInv, TypeInv', RegistryInv, NEW r \in Request, task[r].op \in Lifecycle,
         \A q \in Request \ {r} : task'[q] = task[q],
         DoneBy(r)',
         Listings',
         Callable' \/ task'[r].step = "remove"
  PROVE  RegistryInv'
<1>1. ASSUME NEW q \in Request, q # r
      PROVE  /\ task'[q].op \notin Lifecycle
             /\ task'[q].step \notin LifecycleSteps
  <2>1. task[q].op \notin Lifecycle
    BY <1>1 DEF RegistryInv, LifecycleInTurn
  <2> QED
    BY <1>1, <2>1, StepTellsOp
<1>2. \A q \in Request : DoneBy(q)'
  BY <1>1 DEF DoneBy, LifecycleSteps
<1>3. LifecycleInTurn'
  BY <1>1 DEF LifecycleInTurn
<1> QED
  BY <1>2, <1>3 DEF RegistryInv, At

\* A step that is none of a lifecycle call's.
LEMMA OtherStep ==
  ASSUME TypeInv, TypeInv', RegistryInv, UNCHANGED <<registry, activation, wiring>>,
         \A q \in Request :
            task[q].op \in Lifecycle \/ task'[q].op \in Lifecycle => task'[q] = task[q]
  PROVE  RegistryInv'
<1>1. ASSUME NEW q \in Request
      PROVE  /\ task'[q].op \in Lifecycle <=> task'[q].step \in LifecycleSteps
             /\ task[q].op \in Lifecycle <=> task[q].step \in LifecycleSteps
  <2>1. task'[q] \in Task /\ task'[q].step \in StepsOf(task'[q].op)
    BY DEF TypeInv, TypeOK, StepInv
  <2>2. task'[q].op \in {"none"} \cup Lifecycle \cup Dispatch
    BY <2>1 DEF Task
  <2>3. task'[q].op \in Lifecycle <=> task'[q].step \in LifecycleSteps
    BY <2>1, <2>2 DEF StepsOf, Lifecycle, Dispatch, LifecycleSteps
  <2> QED
    BY <2>3, StepTellsOp
<1>2. \A q \in Request : DoneBy(q)'
  <2> TAKE q \in Request
  <2>1. CASE task'[q].step \in LifecycleSteps
    <3>1. task'[q] = task[q]
      BY <1>1, <2>1
    <3> QED
      BY <3>1 DEF RegistryInv, DoneBy, wiring, chains
  <2>2. CASE task'[q].step \notin LifecycleSteps
    BY <2>2 DEF DoneBy, LifecycleSteps
  <2> QED
    BY <2>1, <2>2
<1>3. LifecycleInTurn'
  BY DEF RegistryInv, LifecycleInTurn
<1>4. Callable' \/ \E q \in Request : task'[q].step = "remove"
  <2>1. CASE Callable
    BY <2>1 DEF Callable, wiring, chains
  <2>2. ASSUME NEW q \in Request, task[q].step = "remove"
        PROVE  task'[q].step = "remove"
    BY <1>1, <2>2 DEF LifecycleSteps
  <2> QED
    BY <2>1, <2>2 DEF RegistryInv, At
<1>5. Listings'
  BY DEF RegistryInv, Listings, wiring, chains
<1> QED
  BY <1>2, <1>3, <1>4, <1>5 DEF RegistryInv, At

\* A lifecycle call that begins finds no other.
LEMMA LifecycleBegins ==
  ASSUME TypeInv, TypeInv', RegistryInv, ~overlapped', NEW r \in Request,
         NEW op \in Lifecycle, NEW step \in {"read", "unsubscribe"},
         Begins(r, op, step, NoSession), UNCHANGED <<registry, activation, wiring>>
  PROVE  RegistryInv'
<1>1. \A q \in Request : task[q].op \notin Lifecycle
  BY DEF Begins, Running
<1>2. \A q \in Request : task[q].step \notin LifecycleSteps
  BY <1>1, StepTellsOp
<1>3. Callable
  BY <1>2 DEF RegistryInv, LifecycleSteps, At
<1>4. /\ \A q \in Request \ {r} : task'[q] = task[q]
      /\ task'[r].step = step /\ ~task'[r].ok
  BY DEF Begins, TypeInv, TypeOK, Idle
<1>5. \A q \in Request : DoneBy(q)'
  BY <1>2, <1>4 DEF DoneBy, LifecycleSteps
<1>6. LifecycleInTurn'
  BY <1>1, <1>4 DEF LifecycleInTurn
<1> QED
  BY <1>3, <1>5, <1>6 DEF RegistryInv, Listings, Callable, wiring, chains

\* Only a deactivation at work takes the promise back.
LEMMA CallableHeld ==
  ASSUME TypeInv, RegistryInv, NEW r \in Request, task[r].op \in Lifecycle,
         task[r].step # "remove"
  PROVE  Callable
<1>1. ASSUME NEW q \in Request, task[q].step = "remove"
      PROVE  FALSE
  <2>1. task[q].op \in Lifecycle
    BY <1>1, StepTellsOp DEF LifecycleSteps
  <2> QED
    BY <1>1, <2>1 DEF RegistryInv, LifecycleInTurn
<1> QED
  BY <1>1 DEF RegistryInv, At

\* What the histories have noted they keep.
LEMMA HistoriesStay ==
  [Next]_vars => (overlapped => overlapped') /\ (crossed => crossed')
<1> SUFFICES ASSUME [Next]_vars
             PROVE  (overlapped => overlapped') /\ (crossed => crossed')
  OBVIOUS
<1>1. CASE load_plugin \/ UNCHANGED vars
  BY <1>1 DEF vars, load_plugin
<1>2. ASSUME NEW r \in Request,
             \/ Reads(r) \/ Instantiates(r) \/ Subscribes(r) \/ Joins(r)
             \/ Records(r) \/ Unsubscribes(r) \/ Leaves(r) \/ Drops(r)
             \/ Removes(r) \/ Stages(r) \/ Lists(r) \/ Dispatches(r)
             \/ Handled(r) \/ Clears(r)
      PROVE  UNCHANGED <<overlapped, crossed>>
  BY <1>2 DEF Steps, Reads, Instantiates, Subscribes, Joins, Records, Unsubscribes,
              Leaves, Drops, Removes, Stages, Lists, Dispatches, Handled, Clears
<1>3. ASSUME NEW r \in Request,
             \/ activate_plugin(r) \/ deactivate_plugin(r) \/ reload_plugin(r)
             \/ EventRoute(r) \/ run_interceptors(r)
      PROVE  (overlapped => overlapped') /\ (crossed => crossed')
  BY <1>3 DEF activate_plugin, deactivate_plugin, reload_plugin, EventRoute,
              emit_event, run_interceptors, Begins
<1> QED
  BY <1>1, <1>2, <1>3 DEF Next

LEMMA RegistryStep ==
  TypeInv /\ TypeInv' /\ (~overlapped => RegistryInv) /\ [Next]_vars
    => (~overlapped => RegistryInv)'
<1> SUFFICES ASSUME TypeInv, TypeInv', ~overlapped => RegistryInv, [Next]_vars,
                    ~overlapped'
             PROVE  RegistryInv'
  OBVIOUS
<1>2. RegistryInv /\ task \in [Request -> Task]
  BY HistoriesStay DEF TypeInv, TypeOK
<1>3. CASE load_plugin
  <2>1. /\ registry = NoEntry /\ registry' # NoEntry /\ UNCHANGED <<wiring, task>>
        /\ activation'[registry'] = "none"
    BY <1>3, HostAssumption DEF load_plugin, Inserts, TypeInv, TypeOK
  <2>2. instance = NoEntry
    BY <1>2, <2>1 DEF RegistryInv, Listings
  <2>3. \A q \in Request :
          task[q].step = "instantiate" => task[q].entry \in Entry
    BY DEF TypeInv, TypeOK
  <2>4. \A q \in Request : DoneBy(q)'
    BY <1>2, <2>1, <2>2, <2>3, HostAssumption DEF RegistryInv, DoneBy, wiring, chains
  <2> QED
    BY <1>2, <2>1, <2>2, <2>4 DEF RegistryInv, Listings, LifecycleInTurn, Callable, wiring, chains
<1>4. ASSUME NEW r \in Request,
             activate_plugin(r) \/ deactivate_plugin(r) \/ reload_plugin(r)
      PROVE  RegistryInv'
  <2>1. /\ {"activate", "deactivate", "reload"} \subseteq Lifecycle
        /\ Head(ReleaseOrder) = "unsubscribe"
    BY DEF Lifecycle, ReleaseOrder
  <2> QED
    BY <1>2, <1>4, <2>1, LifecycleBegins
       DEF activate_plugin, deactivate_plugin, reload_plugin
<1>5. ASSUME NEW r \in Request,
             EventRoute(r) \/ run_interceptors(r) \/ Lists(r) \/ Dispatches(r)
               \/ Handled(r) \/ Clears(r)
      PROVE  RegistryInv'
  <2>1. UNCHANGED <<registry, activation, wiring>>
    BY <1>5 DEF EventRoute, emit_event, run_interceptors, Lists, Dispatches,
                Handled, Clears
  <2>2. \A q \in Request \ {r} : task'[q] = task[q]
    BY <1>2, <1>5 DEF EventRoute, emit_event, run_interceptors, Begins, Lists,
                      Dispatches, Handled, Clears, Returns, Goes, Ends
  <2>3. task[r].op \notin Lifecycle
    <3>1. task[r].step \notin LifecycleSteps
      BY <1>5 DEF EventRoute, emit_event, run_interceptors, Begins, Lists,
                  Dispatches, Handled, Clears, Steps, At, LifecycleSteps
    <3> QED
      BY <3>1, StepTellsOp
  <2>4. task'[r].op \notin Lifecycle
    <3>1. "emit" \notin Lifecycle /\ "intercept" \notin Lifecycle /\ "none" \notin Lifecycle
      BY DEF Lifecycle
    <3>2. CASE EventRoute(r) \/ run_interceptors(r)
      BY <1>2, <3>1, <3>2 DEF EventRoute, emit_event, run_interceptors, Begins, Idle
    <3>3. CASE Lists(r) \/ Dispatches(r) \/ Handled(r) \/ Clears(r)
      <4>1. task'[r] = Idle \/ task'[r].op = task[r].op
        BY <1>2, <3>3 DEF Lists, Dispatches, Handled, Clears, Returns, Goes, Ends, Task
      <4> QED
        BY <2>3, <3>1, <4>1, IdleTyped
    <3> QED
      BY <1>5, <3>2, <3>3
  <2> QED
    BY <1>2, <2>1, <2>2, <2>3, <2>4, OtherStep
<1>6. ASSUME NEW r \in Request, task[r].step \in LifecycleSteps
      PROVE  task[r].op \in Lifecycle
  BY <1>6, StepTellsOp
<1> USE DEF Steps, At, wiring, chains
<1>7. ASSUME NEW r \in Request, Reads(r) PROVE RegistryInv'
  <2>1. task[r].step = "read" /\ task[r].op \in Lifecycle
    BY <1>6, <1>7 DEF Reads, LifecycleSteps
  <2>2. ~task[r].ok /\ Callable
    BY <1>2, <2>1, CallableHeld DEF RegistryInv, DoneBy, LifecycleSteps
  <2>3. DoneBy(r)'
    BY <1>2, <1>7, <2>2, IdleTyped DEF Reads, Ends, DoneBy, LifecycleSteps, Task
  <2>4. Callable'
    BY <1>7, <2>2 DEF Reads, Callable
  <2> QED
    BY <1>2, <1>7, <2>1, <2>3, <2>4, LifecycleStep DEF Reads, Ends, RegistryInv, Listings
<1>8. ASSUME NEW r \in Request, Instantiates(r) PROVE RegistryInv'
  <2>1. /\ task[r].step = "instantiate" /\ task[r].op \in Lifecycle
        /\ ~task[r].ok /\ task[r].entry = registry /\ registry \in Entry
        /\ UNCHANGED <<registry, activation, slot, subscribed, chains>>
    BY <1>2, <1>6, <1>8
       DEF Instantiates, LifecycleSteps, RegistryInv, DoneBy, TypeInv, TypeOK
  <2>2. Callable
    BY <1>2, <2>1, CallableHeld
  <2>3. registry # NoEntry
    BY <2>1, HostAssumption
  <2>4. CASE /\ instance' = task[r].entry
             /\ task' = [task EXCEPT ![r].step = "subscribe", ![r].ok = TRUE]
    <3>1. DoneBy(r)'
      BY <1>2, <2>1, <2>3, <2>4 DEF DoneBy, LifecycleSteps, Task
    <3> QED
      BY <1>2, <2>1, <2>2, <2>3, <2>4, <3>1, LifecycleStep DEF RegistryInv, Listings, Callable
  <2>5. CASE Goes(r, "record") /\ UNCHANGED instance
    <3>1. DoneBy(r)'
      BY <1>2, <2>1, <2>5 DEF DoneBy, LifecycleSteps, Goes, Task
    <3> QED
      BY <1>2, <2>1, <2>2, <2>5, <3>1, LifecycleStep DEF RegistryInv, Listings, Callable, Goes
  <2>6. CASE instance' \in {instance, task[r].entry} /\ Ends(r)
    <3>1. DoneBy(r)'
      BY <1>2, <2>6, IdleTyped DEF DoneBy, LifecycleSteps, Ends
    <3> QED
      BY <1>2, <2>1, <2>2, <2>3, <2>6, <3>1, LifecycleStep
         DEF RegistryInv, Listings, Callable, Ends
  <2> QED
    BY <1>8, <2>4, <2>5, <2>6 DEF Instantiates
<1>9. ASSUME NEW r \in Request, Subscribes(r) \/ Joins(r) PROVE RegistryInv'
  <2>1. /\ task[r].step \in {"subscribe", "join"} /\ task[r].op \in Lifecycle
        /\ registry # NoEntry /\ instance = registry
        /\ UNCHANGED <<registry, activation, slot, instance>>
    BY <1>2, <1>6, <1>9 DEF Subscribes, Joins, LifecycleSteps, RegistryInv, DoneBy
  <2>2. Callable
    BY <1>2, <2>1, CallableHeld
  <2>3. DoneBy(r)' /\ Callable'
    BY <1>2, <1>9, <2>1, <2>2 DEF Subscribes, Joins, DoneBy, Goes, Callable, Task
  <2> QED
    BY <1>2, <1>9, <2>1, <2>3, LifecycleStep
       DEF Subscribes, Joins, RegistryInv, Listings, Goes
<1>10. ASSUME NEW r \in Request, Records(r) PROVE RegistryInv'
  <2>1. /\ task[r].step = "record" /\ task[r].op \in Lifecycle
        /\ task[r].ok => registry # NoEntry /\ instance = registry
        /\ UNCHANGED <<registry, wiring, chains>>
    BY <1>2, <1>6, <1>10 DEF Records, LifecycleSteps, RegistryInv, DoneBy
  <2>2. Callable
    BY <1>2, <2>1, CallableHeld
  <2>3. DoneBy(r)'
    BY <1>2, <1>10, IdleTyped DEF Records, DoneBy, LifecycleSteps, Ends
  <2>4. Callable'
    BY <1>10, <2>1, <2>2 DEF Records, Callable, TypeInv, TypeOK
  <2> QED
    BY <1>2, <1>10, <2>1, <2>3, <2>4, LifecycleStep
       DEF Records, RegistryInv, Listings, Ends
<1>11. ASSUME NEW r \in Request, Unsubscribes(r) PROVE RegistryInv'
  <2>1. task[r].step = "unsubscribe" /\ task[r].op \in Lifecycle /\ ~task[r].ok
    BY <1>2, <1>6, <1>11 DEF Unsubscribes, LifecycleSteps, RegistryInv, DoneBy
  <2>2. Goes(r, "leave")
    BY <1>11, ContinuesCases DEF Unsubscribes
  <2>3. Callable'
    BY <1>2, <1>11, <2>1, CallableHeld DEF Unsubscribes, Callable
  <2>4. DoneBy(r)'
    BY <1>2, <1>11, <2>1, <2>2 DEF Unsubscribes, Goes, DoneBy, LifecycleSteps, Task
  <2> QED
    BY <1>2, <1>11, <2>1, <2>2, <2>3, <2>4, LifecycleStep
       DEF Unsubscribes, Goes, RegistryInv, Listings
<1>12. ASSUME NEW r \in Request, Leaves(r) PROVE RegistryInv'
  <2>1. task[r].step = "leave" /\ task[r].op \in Lifecycle /\ ~subscribed
        /\ ~task[r].ok
    BY <1>2, <1>6, <1>12 DEF Leaves, LifecycleSteps, RegistryInv, DoneBy
  <2>2. Goes(r, "drop")
    BY <1>12, ContinuesCases DEF Leaves
  <2>3. Callable'
    BY <1>2, <1>12, <2>1, CallableHeld DEF Leaves, Callable
  <2>4. DoneBy(r)'
    BY <1>2, <1>12, <2>1, <2>2 DEF Leaves, Goes, DoneBy, LifecycleSteps, Task
  <2> QED
    BY <1>2, <1>12, <2>1, <2>2, <2>3, <2>4, LifecycleStep
       DEF Leaves, Goes, RegistryInv, Listings
<1>13. ASSUME NEW r \in Request, Drops(r) PROVE RegistryInv'
  <2>1. /\ task[r].step = "drop" /\ task[r].op \in Lifecycle
        /\ ~subscribed /\ (intercepting => unreleased) /\ ~task[r].ok
        /\ UNCHANGED <<registry, activation, subscribed, chains>>
    BY <1>2, <1>6, <1>13 DEF Drops, LifecycleSteps, RegistryInv, DoneBy
  <2>2. CASE instance' = NoEntry /\ Continues(r, "drop")
    <3>1. Goes(r, "remove")
      BY <2>2, ContinuesCases
    <3>2. DoneBy(r)'
      BY <1>2, <2>1, <2>2, <3>1 DEF Goes, DoneBy, LifecycleSteps, Task
    <3>3. task'[r].step = "remove"
      BY <1>2, <3>1 DEF Goes, Task
    <3> QED
      BY <1>2, <2>1, <2>2, <3>1, <3>2, <3>3, LifecycleStep
         DEF Goes, RegistryInv, Listings
  <2>3. CASE UNCHANGED instance /\ Ends(r)
    <3>1. Callable'
      BY <1>2, <2>1, <2>3, CallableHeld DEF Callable
    <3>2. DoneBy(r)'
      BY <1>2, <2>3, IdleTyped DEF Ends, DoneBy, LifecycleSteps
    <3> QED
      BY <1>2, <2>1, <2>3, <3>1, <3>2, LifecycleStep DEF Ends, RegistryInv, Listings
  <2> QED
    BY <1>13, <2>2, <2>3 DEF Drops
<1>14. ASSUME NEW r \in Request, Removes(r) PROVE RegistryInv'
  <2>1. /\ task[r].step = "remove" /\ task[r].op \in Lifecycle
        /\ ~subscribed /\ (intercepting => unreleased)
        /\ instance = NoEntry /\ ~task[r].ok
    BY <1>2, <1>6, <1>14 DEF Removes, LifecycleSteps, RegistryInv, DoneBy
  <2>2. Goes(r, "stage") \/ Ends(r)
    BY <1>14, ContinuesCases DEF Removes
  <2>3. DoneBy(r)'
    BY <1>2, <1>14, <2>1, <2>2, IdleTyped DEF Removes, Goes, Ends, DoneBy, LifecycleSteps, Task
  <2>4. Callable' /\ \A q \in Request \ {r} : task'[q] = task[q]
    BY <1>2, <1>14, <2>2 DEF Removes, Callable, Goes, Ends
  <2> QED
    BY <1>2, <1>14, <2>1, <2>3, <2>4, LifecycleStep DEF Removes, RegistryInv, Listings
<1>15. ASSUME NEW r \in Request, Stages(r) PROVE RegistryInv'
  <2>1. /\ task[r].step = "stage" /\ task[r].op \in Lifecycle /\ ~task[r].ok
        /\ ~subscribed /\ (intercepting => unreleased)
        /\ instance = NoEntry /\ UNCHANGED wiring
    BY <1>2, <1>6, <1>15 DEF Stages, LifecycleSteps, RegistryInv, DoneBy
  <2>2. Callable
    BY <1>2, <2>1, CallableHeld
  <2>3. CASE (\E e \in Entry : Inserts(e)) /\ Goes(r, "read")
    <3>1. Callable'
      BY <2>3 DEF Inserts, Callable, TypeInv, TypeOK
    <3>2. DoneBy(r)'
      BY <1>2, <2>1, <2>3 DEF DoneBy, LifecycleSteps, Goes, Task
    <3> QED
      BY <1>2, <2>1, <2>3, <3>1, <3>2, LifecycleStep DEF Goes, Listings
  <2>4. CASE Ends(r) /\ UNCHANGED <<registry, activation, slot>>
    <3>1. DoneBy(r)' /\ Callable'
      BY <1>2, <2>1, <2>2, <2>4, IdleTyped DEF DoneBy, LifecycleSteps, Ends, Callable
    <3> QED
      BY <1>2, <2>1, <2>4, <3>1, LifecycleStep DEF Ends, Listings
  <2> QED
    BY <1>15, <2>3, <2>4 DEF Stages
<1>16. CASE UNCHANGED vars
  BY <1>2, <1>16, OtherStep DEF vars
<1> QED
  BY <1>3, <1>4, <1>5, <1>7, <1>8, <1>9, <1>10, <1>11, <1>12, <1>13, <1>14, <1>15,
     <1>16 DEF Next
-----------------------------------------------------------------------------
(* The slot during a call.                                                 *)

\* A lifecycle step shows no session to a call into the plugin: it leaves the
\* slots alone, or makes an entry nobody holds.
LEMMA SlotKept ==
  ASSUME TypeInv, SlotInv,
         \A q \in Request :
            task[q].op \in Dispatch \/ task'[q].op \in Dispatch => task'[q] = task[q],
         \/ UNCHANGED slot /\ registry' \in {registry, NoEntry}
         \/ \E e \in Entry : Inserts(e)
  PROVE  SlotInv'
<1>1. ASSUME NEW q \in Request, task'[q].op \in Dispatch
      PROVE  /\ task'[q] = task[q] /\ task[q].op \in Dispatch
             /\ registry # NoEntry => slot[registry] \in {task[q].session, NoSession}
             /\ At(q, "handle") => Seen(q) \in {task[q].session, NoSession}
             /\ At(q, "handle") => task[q].entry \in Entry
  BY <1>1 DEF SlotInv, TypeInv, TypeOK, At
<1>2. \A q, r \in Request :
         task'[q].op \in Dispatch /\ task'[r].op \in Dispatch => q = r
  BY <1>1 DEF SlotInv
<1>3. CASE UNCHANGED slot /\ registry' \in {registry, NoEntry}
  BY <1>1, <1>2, <1>3 DEF SlotInv, Seen, At
<1>4. ASSUME NEW e \in Entry, Inserts(e) PROVE SlotInv'
  <2>1. /\ registry' = e /\ slot'[e] = NoSession
        /\ \A f \in Entry \ {e} : slot'[f] = slot[f]
        /\ \A q \in Request : task[q].entry # e
    BY <1>4 DEF Inserts, Unused, TypeInv, TypeOK
  <2> QED
    BY <1>1, <1>2, <2>1 DEF SlotInv, Seen, At
<1> QED
  BY <1>3, <1>4

\* A step of the one call into the plugin.
LEMMA DispatchStep ==
  ASSUME TypeInv, SlotInv, NEW r \in Request, task[r].op \in Dispatch,
         \A q \in Request \ {r} : task'[q] = task[q],
         task'[r].op \in Dispatch =>
            /\ registry' # NoEntry => slot'[registry'] \in {task'[r].session, NoSession}
            /\ task'[r].step = "handle" =>
                  slot'[task'[r].entry] \in {task'[r].session, NoSession}
  PROVE  SlotInv'
<1>1. \A q \in Request : task'[q].op \in Dispatch => q = r
  BY DEF SlotInv
<1> QED
  BY <1>1 DEF SlotInv, Seen, At

LEMMA TurnStep ==
  IInv /\ [Next]_vars => (~overlapped /\ ~crossed => SlotInv)'
<1> SUFFICES ASSUME IInv, [Next]_vars, ~overlapped', ~crossed' PROVE SlotInv'
  OBVIOUS
<1>2. /\ TypeInv /\ NothingLeftInSlot /\ RegistryInv /\ SlotInv
      /\ task \in [Request -> Task]
      /\ slot \in [Entry -> Session \cup {NoSession}]
      /\ registry \in Entry \cup {NoEntry}
  BY HistoriesStay DEF IInv, TypeInv, TypeOK
<1>3. "none" \notin Dispatch /\ \A op \in Lifecycle : op \notin Dispatch
  BY DEF Lifecycle, Dispatch
<1> USE DEF Steps, At, wiring, chains
<1>4. CASE load_plugin
  BY <1>2, <1>4, SlotKept DEF load_plugin
<1>5. ASSUME NEW r \in Request,
             activate_plugin(r) \/ deactivate_plugin(r) \/ reload_plugin(r)
      PROVE  SlotInv'
  <2>1. {"activate", "deactivate", "reload"} \subseteq Lifecycle
    BY DEF Lifecycle
  <2>2. /\ task[r].op \notin Dispatch
        /\ UNCHANGED <<slot, registry>>
        /\ \A q \in Request \ {r} : task'[q] = task[q]
        /\ task'[r].op \in Lifecycle
    BY <1>2, <1>3, <1>5, <2>1, StepTellsOp
       DEF activate_plugin, deactivate_plugin, reload_plugin, Begins, Idle
  <2> QED
    BY <1>2, <1>3, <2>2, SlotKept
<1>6. ASSUME NEW r \in Request,
             \/ Reads(r) \/ Instantiates(r) \/ Subscribes(r) \/ Joins(r) \/ Records(r)
             \/ Unsubscribes(r) \/ Leaves(r) \/ Drops(r) \/ Removes(r) \/ Stages(r)
      PROVE  SlotInv'
  <2>1. task[r].op \notin Dispatch
    BY <1>2, <1>6, StepTellsOp
       DEF Reads, Instantiates, Subscribes, Joins, Records, Unsubscribes, Leaves,
           Drops, Removes, Stages
  <2>2. /\ \A q \in Request \ {r} : task'[q] = task[q]
        /\ task'[r] = Idle \/ task'[r].op = task[r].op
    <3>1. CASE \/ Reads(r) \/ Instantiates(r) \/ Subscribes(r) \/ Joins(r)
               \/ Records(r) \/ Stages(r)
      BY <1>2, <3>1 DEF Reads, Instantiates, Subscribes, Joins, Records, Stages,
                        Goes, Ends, Task
    <3>2. CASE Unsubscribes(r) \/ Leaves(r) \/ Drops(r) \/ Removes(r)
      <4>1. Ends(r) \/ \E step : Goes(r, step)
        <5>1. CASE Unsubscribes(r) \/ Leaves(r)
          BY <5>1, ContinuesCases DEF Unsubscribes, Leaves
        <5>2. CASE Drops(r)
          BY <5>2, ContinuesCases DEF Drops
        <5>3. CASE Removes(r)
          BY <5>3, ContinuesCases DEF Removes
        <5> QED
          BY <3>2, <5>1, <5>2, <5>3
      <4> QED
        BY <1>2, <4>1 DEF Goes, Ends, Task
    <3> QED
      BY <1>6, <3>1, <3>2
  <2>3. \/ UNCHANGED slot /\ registry' \in {registry, NoEntry}
        \/ \E e \in Entry : Inserts(e)
    BY <1>6 DEF Reads, Instantiates, Subscribes, Joins, Records, Unsubscribes, Leaves,
                Drops, Removes, Stages
  <2> QED
    BY <1>2, <1>3, <2>1, <2>2, <2>3, IdleTyped, SlotKept
<1>7. ASSUME NEW r \in Request, EventRoute(r) \/ run_interceptors(r) PROVE SlotInv'
  <2>1. \A q \in Request : task[q].op \notin Dispatch
    BY <1>7 DEF EventRoute, emit_event, run_interceptors, Begins, Running, Dispatch
  <2>2. /\ \A q \in Request \ {r} : task'[q] = task[q]
        /\ task'[r].step = "list" /\ UNCHANGED registry
    BY <1>2, <1>7 DEF EventRoute, emit_event, run_interceptors, Begins, Idle
  <2>3. registry # NoEntry => slot'[registry] \in {task'[r].session, NoSession}
    <3>1. CASE EventRoute(r)
      BY <1>2, <3>1
         DEF EventRoute, emit_event, set_event_session, Begins, Idle
    <3>2. CASE run_interceptors(r)
      <4>1. ~Running({"emit"})
        BY <2>1 DEF Running, Dispatch
      <4> QED
        BY <1>2, <3>2, <4>1 DEF run_interceptors, NothingLeftInSlot
    <3> QED
      BY <1>7, <3>1, <3>2
  <2>4. \A q \in Request : task'[q].op \in Dispatch => q = r
    BY <2>1, <2>2
  <2> QED
    BY <2>2, <2>3, <2>4 DEF SlotInv
<1>8. ASSUME NEW r \in Request, Lists(r) \/ Dispatches(r) \/ Handled(r) PROVE SlotInv'
  <2>1. /\ task[r].op \in Dispatch /\ task[r] \in Task
        /\ UNCHANGED <<registry, slot, instance>>
    BY <1>2, <1>8, StepTellsOp DEF Lists, Dispatches, Handled
  <2>2. /\ \A q \in Request \ {r} : task'[q] = task[q]
        /\ task'[r] = Idle \/ task'[r].session = task[r].session
        /\ task'[r].step = "handle" =>
              instance # NoEntry /\ task'[r].entry = instance
    <3>1. CASE Returns(r) \/ Goes(r, "dispatch")
      BY <1>2, <2>1, <3>1, IdleTyped DEF Returns, Goes, Ends, Task
    <3>2. CASE /\ instance # NoEntry
               /\ task' = [task EXCEPT ![r].step = "handle", ![r].entry = instance]
      BY <1>2, <2>1, <3>2 DEF Task
    <3> QED
      BY <1>8, <3>1, <3>2 DEF Lists, Dispatches, Handled
  <2>3. instance # NoEntry => instance = registry
    BY <1>2 DEF RegistryInv, Listings
  <2>4. registry # NoEntry => slot[registry] \in {task[r].session, NoSession}
    BY <1>2, <2>1 DEF SlotInv
  <2> QED
    BY <1>2, <1>3, <2>1, <2>2, <2>3, <2>4, IdleTyped, DispatchStep
<1>9. ASSUME NEW r \in Request, Clears(r) PROVE SlotInv'
  <2>1. task[r].op \in Dispatch
    BY <1>2, <1>9, StepTellsOp DEF Clears
  <2>2. /\ \A q \in Request \ {r} : task'[q] = task[q]
        /\ task'[r] = Idle
    BY <1>2, <1>9 DEF Clears, Ends
  <2> QED
    BY <1>2, <1>3, <2>1, <2>2, IdleTyped, DispatchStep
<1>10. CASE UNCHANGED vars
  BY <1>2, <1>10, SlotKept DEF vars
<1> QED
  BY <1>4, <1>5, <1>6, <1>7, <1>8, <1>9, <1>10 DEF Next

-----------------------------------------------------------------------------
(* The theorems.                                                           *)

LEMMA Invariance == Spec => []IInv
<1>1. Init => IInv
  <2> SUFFICES ASSUME Init PROVE IInv
    OBVIOUS
  <2>1. \A r \in Request : task[r] = Idle /\ Idle.op = "none" /\ Idle.step = "idle"
    BY IdleTyped DEF Init
  <2>2. RegistryInv
    BY <2>1 DEF Init, RegistryInv, Listings, LifecycleInTurn, Lifecycle, Callable, DoneBy,
                LifecycleSteps
  <2>3. SlotInv
    BY <2>1 DEF SlotInv, Dispatch
  <2> QED
    BY <2>2, <2>3, TypeInit DEF IInv, Init, NothingLeftInSlot
<1>2. IInv /\ [Next]_vars => IInv'
  BY TypeStep, SlotStep, RegistryStep, TurnStep DEF IInv
<1> QED
  BY <1>1, <1>2, PTL DEF Spec

\* Every registry and every call of the binding keeps its type: a call that
\* instantiates or is in the plugin's code always has an entry.
THEOREM TypeCorrect == Spec => []TypeOK
<1>1. IInv => TypeOK
  BY DEF IInv, TypeInv
<1> QED
  BY Invariance, <1>1, PTL

\* As long as lifecycle calls take turns, at every step of loads, activations,
\* deactivations and reloads, also those that an error ends half way: what the
\* bus lists has an instance, what the chains list has one unless they refused
\* to release it, an instance has its entry, and a plugin shown as activated
\* can be called.  That it is listed is not said: subscriptions and
\* interceptors may be refused.
THEOREM RegistriesAgreeInTurn == Spec => []RegistriesAgree
<1>1. IInv => RegistriesAgree
  <2> SUFFICES ASSUME IInv, ~overlapped PROVE RegistriesAgree
    BY DEF RegistriesAgree
  <2>1. ~Running(Lifecycle) => Callable
    BY StepTellsOp DEF IInv, RegistryInv, Running, LifecycleSteps, At
  <2> QED
    BY <2>1 DEF IInv, RegistryInv, Listings, Callable, RegistriesAgree
<1> QED
  BY Invariance, <1>1, PTL

\* No emit_event leaves its session in the slot of the loaded plugin, whatever
\* else runs at the same time, lifecycle calls included.
THEOREM SlotIsEmptied == Spec => []NothingLeftInSlot
<1>1. IInv => NothingLeftInSlot
  BY DEF IInv
<1> QED
  BY Invariance, <1>1, PTL

\* While calls into the plugin take turns, and lifecycle calls do, plugin code
\* is shown the session its event names or none.
THEOREM ShownOwnSessionInTurn == Spec => []NoForeignSessionInTurn
<1>1. IInv => NoForeignSessionInTurn
  <2> SUFFICES ASSUME IInv, ~crossed, ~overlapped, NEW r \in Request, At(r, "handle")
               PROVE  Seen(r) \in {task[r].session, NoSession}
    BY DEF NoForeignSessionInTurn, NoForeignSession
  <2>1. task[r].op \in Dispatch
    BY StepTellsOp DEF IInv, At
  <2> QED
    BY <2>1 DEF IInv, SlotInv
<1> QED
  BY Invariance, <1>1, PTL

=============================================================================
