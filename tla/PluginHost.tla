----------------------------- MODULE PluginHost -----------------------------
(***************************************************************************)
(* One plugin in the native host: its entry in the staging registry, its   *)
(* live wasm instance, the event bus and the interceptor chains that name  *)
(* it, and the session slot through which host imports learn which         *)
(* Firebird session they are called for.                                   *)
(*                                                                         *)
(* The exports run on a thread pool, each registry behind a lock of its    *)
(* own and none held across two of them, so that calls interleave between  *)
(* any two registries.  No route orders them either.                       *)
(*                                                                         *)
(* Every load makes an entry with a slot of its own; the instance keeps    *)
(* the slot of the entry its activation read.  The crate                   *)
(* plamenix_plugin_host (instances, bus, chains, dispatch, supervisor) is  *)
(* outside the repository and modelled from its use in plugins.rs: an      *)
(* instance runs one export at a time, and a newer instance replaces an    *)
(* older one.                                                              *)
(***************************************************************************)
EXTENDS Naturals, Sequences

CONSTANTS
    Request,    \* calls into the binding that may be running at once
    Session,    \* sessions the server has a record of
    NoSession,  \* an empty slot; the session of an event that names none
    Entry,      \* registry entries, one per load; an unused one is reused
    NoEntry     \* no entry

ASSUME HostAssumption == NoSession \notin Session /\ NoEntry \notin Entry

VARIABLES
    registry,      \* the plugin's entry in the staging registry
    activation,    \* the activation outcome recorded on each entry
    slot,          \* the session in each entry's slot
    instance,      \* the entry whose slot the live instance was given
    subscribed,    \* the bus lists the plugin
    intercepting,  \* the interceptor chains list the plugin
    task,          \* where each call is
    unreleased,    \* history: the chains kept the plugin at its last release
    overlapped,    \* history: two lifecycle calls ran at the same time
    crossed        \* history: two calls into the plugin's code did

chains == <<intercepting, unreleased>>
wiring == <<instance, subscribed, chains>>
vars == <<registry, activation, slot, wiring, task, overlapped, crossed>>

Lifecycle == {"activate", "deactivate", "reload"}
Dispatch == {"emit", "intercept"}

Task == [op      : {"none"} \cup Lifecycle \cup Dispatch,
         step    : {"idle", "unsubscribe", "leave", "drop", "remove", "stage",
                    "read", "instantiate", "subscribe", "join", "record",
                    "list", "dispatch", "handle", "clear"},
         entry   : Entry \cup {NoEntry},
         ok      : BOOLEAN,
         session : Session \cup {NoSession}]

Idle == [op |-> "none", step |-> "idle", entry |-> NoEntry, ok |-> FALSE,
         session |-> NoSession]

TypeOK ==
    /\ registry \in Entry \cup {NoEntry}
    /\ activation \in [Entry -> {"none", "ok", "failed"}]
    /\ slot \in [Entry -> Session \cup {NoSession}]
    /\ instance \in Entry \cup {NoEntry}
    /\ subscribed \in BOOLEAN
    /\ intercepting \in BOOLEAN
    /\ unreleased \in BOOLEAN
    /\ task \in [Request -> Task]
    /\ \A r \in Request :
          task[r].step \in {"instantiate", "handle"} => task[r].entry \in Entry
    /\ overlapped \in BOOLEAN
    /\ crossed \in BOOLEAN

Init ==
    /\ registry = NoEntry
    /\ activation = [e \in Entry |-> "none"]
    /\ slot = [e \in Entry |-> NoSession]
    /\ instance = NoEntry
    /\ subscribed = FALSE
    /\ intercepting = FALSE
    /\ unreleased = FALSE
    /\ task = [r \in Request |-> Idle]
    /\ overlapped = FALSE
    /\ crossed = FALSE

Running(ops) == \E r \in Request : task[r].op \in ops

At(r, step) == task[r].step = step
Goes(r, step) == task' = [task EXCEPT ![r].step = step]
Ends(r) == task' = [task EXCEPT ![r] = Idle]

Begins(r, op, step, s) ==
    /\ At(r, "idle")
    /\ task' = [task EXCEPT ![r] = [Idle EXCEPT !.op = op, !.step = step,
                                                !.session = s]]
    /\ overlapped' = (overlapped \/ (op \in Lifecycle /\ Running(Lifecycle)))
    /\ crossed' = (crossed \/ (op \in Dispatch /\ Running(Dispatch)))

Steps(r, step) == At(r, step) /\ UNCHANGED <<overlapped, crossed>>

\* No registry, instance or call holds the entry.
Unused(e) ==
    /\ e # registry /\ e # instance
    /\ \A r \in Request : task[r].entry # e

-----------------------------------------------------------------------------
(* Load and activate.                                                      *)

\* A bundle that does not compile, or a plugin loaded already, is refused
\* and changes nothing.
Inserts(e) ==
    /\ registry = NoEntry
    /\ Unused(e)
    /\ registry' = e
    /\ activation' = [activation EXCEPT ![e] = "none"]
    /\ slot' = [slot EXCEPT ![e] = NoSession]

load_plugin ==
    /\ \E e \in Entry : Inserts(e)
    /\ UNCHANGED <<wiring, task, overlapped, crossed>>

activate_plugin(r) ==
    /\ Begins(r, "activate", "read", NoSession)
    /\ UNCHANGED <<registry, activation, slot, wiring>>

\* Mutant: the activation does not ask whether the plugin is loaded.
ReadsUnchecked(r) ==
    /\ Steps(r, "read")
    /\ task' = [task EXCEPT ![r].step = "instantiate", ![r].entry = registry]
    /\ UNCHANGED <<registry, activation, slot, wiring>>

\* The entry's bundle and slot are cloned out of the registry.
Reads(r) ==
    /\ Steps(r, "read")
    /\ IF registry = NoEntry THEN Ends(r)
       ELSE task' = [task EXCEPT ![r].step = "instantiate",
                                 ![r].entry = registry]
    /\ UNCHANGED <<registry, activation, slot, wiring>>

\* The plugin's activate() succeeds and its store is kept; or it fails,
\* which is an outcome to record; or the host or the supervisor answers
\* with an error, the latter with the store kept already.
Instantiates(r) ==
    /\ Steps(r, "instantiate")
    /\ \/ /\ instance' = task[r].entry
          /\ task' = [task EXCEPT ![r].step = "subscribe", ![r].ok = TRUE]
       \/ /\ Goes(r, "record")
          /\ UNCHANGED instance
       \/ /\ instance' \in {instance, task[r].entry}
          /\ Ends(r)
    /\ UNCHANGED <<registry, activation, slot, subscribed, chains>>

\* The manifest may name no event, and a subscription that the bus rejects is
\* logged and ignored.
Subscribes(r) ==
    /\ Steps(r, "subscribe")
    /\ subscribed' \in {subscribed, TRUE}
    /\ Goes(r, "join")
    /\ UNCHANGED <<registry, activation, slot, instance, chains>>

\* The manifest may name no interceptor, and one that the chains reject is
\* logged and ignored.
Joins(r) ==
    /\ Steps(r, "join")
    /\ intercepting' \in {intercepting, TRUE}
    /\ Goes(r, "record")
    /\ UNCHANGED <<registry, activation, slot, instance, subscribed, unreleased>>

\* The outcome goes to the entry the registry holds now, whichever entry
\* the call read; without one it is an error.
Records(r) ==
    /\ Steps(r, "record")
    /\ activation' =
          IF registry = NoEntry THEN activation
          ELSE [activation EXCEPT ![registry] =
                   IF task[r].ok THEN "ok" ELSE "failed"]
    /\ Ends(r)
    /\ UNCHANGED <<registry, slot, wiring>>

-----------------------------------------------------------------------------
(* Deactivate and reload.                                                  *)

\* Mutant: the instance goes first.
DropsInstanceFirst == <<"drop", "unsubscribe", "leave", "remove">>

\* The order in which deactivate_plugin visits the registries.
ReleaseOrder == <<"unsubscribe", "leave", "drop", "remove">>

deactivate_plugin(r) ==
    /\ Begins(r, "deactivate", Head(ReleaseOrder), NoSession)
    /\ UNCHANGED <<registry, activation, slot, wiring>>

\* What follows a step of the order: the next one and, after the last, the
\* end of the call or the re-stage of a reload.
Continues(r, step) ==
    \E i \in 1..4 :
        /\ ReleaseOrder[i] = step
        /\ IF i < 4 THEN Goes(r, ReleaseOrder[i + 1])
           ELSE IF task[r].op = "reload" THEN Goes(r, "stage") ELSE Ends(r)

Unsubscribes(r) ==
    /\ Steps(r, "unsubscribe")
    /\ subscribed' = FALSE
    /\ Continues(r, "unsubscribe")
    /\ UNCHANGED <<registry, activation, slot, instance, chains>>

\* Chains that will not release the plugin are only logged.
Leaves(r) ==
    /\ Steps(r, "leave")
    /\ intercepting' \in {FALSE, intercepting}
    /\ unreleased' = intercepting'
    /\ Continues(r, "leave")
    /\ UNCHANGED <<registry, activation, slot, instance, subscribed>>

\* An instance that cannot be removed ends the call, a reload as well: the
\* plugin stays loaded and instantiated, but hears of no more events.
Drops(r) ==
    /\ Steps(r, "drop")
    /\ \/ instance' = NoEntry /\ Continues(r, "drop")
       \/ UNCHANGED instance /\ Ends(r)
    /\ UNCHANGED <<registry, activation, slot, subscribed, chains>>

\* Nothing to remove is an error, which ends a reload as well.
Removes(r) ==
    /\ Steps(r, "remove")
    /\ registry' = NoEntry
    /\ IF registry = NoEntry THEN Ends(r) ELSE Continues(r, "remove")
    /\ UNCHANGED <<activation, slot, wiring>>

\* The bundle's directory is read off the entry; without one the call ends.
reload_plugin(r) ==
    /\ registry # NoEntry
    /\ Begins(r, "reload", Head(ReleaseOrder), NoSession)
    /\ UNCHANGED <<registry, activation, slot, wiring>>

\* The load within a reload.  When it fails the plugin stays unloaded.
Stages(r) ==
    /\ Steps(r, "stage")
    /\ \/ (\E e \in Entry : Inserts(e)) /\ Goes(r, "read")
       \/ Ends(r) /\ UNCHANGED <<registry, activation, slot>>
    /\ UNCHANGED wiring

-----------------------------------------------------------------------------
(* Calls into the plugin's code.                                           *)

set_event_session(s) ==
    slot' = IF registry = NoEntry THEN slot ELSE [slot EXCEPT ![registry] = s]

emit_event(r, s) ==
    /\ Begins(r, "emit", "list", s)
    /\ set_event_session(s)
    /\ UNCHANGED <<registry, activation, wiring>>

\* The route that delivers an event of the page.  A session that the store
\* does not know is dropped, and the event delivered without one.
EventRoute(r) == \E s \in Session \cup {NoSession} : emit_event(r, s)

\* run_interceptors neither sets the slot nor clears it.
run_interceptors(r) ==
    /\ Begins(r, "intercept", "list", NoSession)
    /\ UNCHANGED <<registry, activation, slot, wiring>>

Listed(op) == IF op = "emit" THEN subscribed ELSE intercepting

\* What ends the plugin's part of a call.
Returns(r) == IF task[r].op = "emit" THEN Goes(r, "clear") ELSE Ends(r)

\* The bus, or the chain of the extension point, is read once.
Lists(r) ==
    /\ Steps(r, "list")
    /\ IF Listed(task[r].op) THEN Goes(r, "dispatch") ELSE Returns(r)
    /\ UNCHANGED <<registry, activation, slot, wiring>>

\* A listed plugin is called when it has an instance, may see the payload
\* and is not busy; otherwise the call passes it over.
Dispatches(r) ==
    /\ Steps(r, "dispatch")
    /\ \/ /\ instance # NoEntry
          /\ \A q \in Request : At(q, "handle") => task[q].entry # instance
          /\ task' = [task EXCEPT ![r].step = "handle", ![r].entry = instance]
       \/ Returns(r)
    /\ UNCHANGED <<registry, activation, slot, wiring>>

\* Mutant: a plugin that traps makes emit_event return before it clears.
HandledTrapReturns(r) ==
    /\ Steps(r, "handle")
    /\ Returns(r) \/ Ends(r)
    /\ UNCHANGED <<registry, activation, slot, wiring>>

\* The plugin has answered, trapped or overrun its deadline.
Handled(r) ==
    /\ Steps(r, "handle")
    /\ Returns(r)
    /\ UNCHANGED <<registry, activation, slot, wiring>>

\* Whatever the dispatch did, the slot is emptied on the way out.
Clears(r) ==
    /\ Steps(r, "clear")
    /\ set_event_session(NoSession)
    /\ Ends(r)
    /\ UNCHANGED <<registry, activation, wiring>>

-----------------------------------------------------------------------------

Next ==
    \/ load_plugin
    \/ \E r \in Request :
          \/ activate_plugin(r) \/ deactivate_plugin(r) \/ reload_plugin(r)
          \/ Reads(r) \/ Instantiates(r) \/ Subscribes(r)
          \/ Joins(r) \/ Records(r)
          \/ Unsubscribes(r) \/ Leaves(r) \/ Drops(r) \/ Removes(r) \/ Stages(r)
          \/ EventRoute(r) \/ run_interceptors(r)
          \/ Lists(r) \/ Dispatches(r) \/ Handled(r) \/ Clears(r)

Spec == Init /\ [][Next]_vars

-----------------------------------------------------------------------------
(* Properties.                                                             *)

\* As long as lifecycle calls take turns the registries agree, at any moment
\* of events, interceptions, failed activations, and deactivations and reloads
\* that stop half way.  The bus never lists a plugin that has no instance, and
\* neither do the chains unless they refused to release it, which is what
\* deactivate_plugin gives as the reason for its order; no instance outlives its
\* entry or has the slot of an earlier load; and between lifecycle calls a
\* plugin shown as activated has its instance and can be called.
RegistriesAgree ==
    ~overlapped =>
        /\ subscribed => instance # NoEntry
        /\ intercepting => instance # NoEntry \/ unreleased
        /\ instance # NoEntry => registry = instance
        /\ /\ ~Running(Lifecycle)
           /\ registry # NoEntry /\ activation[registry] = "ok"
           => instance = registry

\* Once no event is being delivered, the loaded plugin's slot is empty,
\* however deliveries overlapped each other, reloads and traps.
NothingLeftInSlot ==
    registry # NoEntry /\ ~Running({"emit"}) => slot[registry] = NoSession

\* The session that plugin code handling r's call would be given.
Seen(r) == slot[task[r].entry]

\* What emit_event's comment promises: plugin code is never shown a session
\* belonging to somebody else.
NoForeignSession ==
    \A r \in Request :
        At(r, "handle") => Seen(r) \in {task[r].session, NoSession}

\* The promise is kept while calls into the plugin take turns and lifecycle
\* calls do.
NoForeignSessionInTurn == ~crossed /\ ~overlapped => NoForeignSession

=============================================================================
