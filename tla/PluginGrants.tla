---------------------------- MODULE PluginGrants ----------------------------
(***************************************************************************)
(* The capabilities a user has granted to a plugin are held twice: in the  *)
(* metadata database, which is the authority, and in the native plugin     *)
(* registry, from which the host imports read what a plugin may do.  The   *)
(* routes of server/src/routes/plugins.ts write the authority first and    *)
(* push to the registry after; boot and reload replay the authority into a *)
(* fresh registry entry.  A request awaits every one of these calls, so    *)
(* requests interleave between them, and the process may die anywhere.     *)
(*                                                                         *)
(* Rows and entries of different plugins never meet, so one plugin is      *)
(* modelled.  Whether its activation succeeds matters to its grants only   *)
(* in that boot deactivates it again when it does not.  The binding may    *)
(* refuse any call: a deactivation ends early, its entry kept, when the    *)
(* instance cannot be removed, and a permission may be one its grammar     *)
(* does not know, which is left open at each push.                         *)
(***************************************************************************)
EXTENDS Naturals

CONSTANTS
    Permission,  \* the capabilities the plugin's manifest declares
    Request,     \* requests in flight at the same time
    Boot         \* the thread of bootstrapPlugins, which no request overlaps

ASSUME PluginGrantsAssumption == Boot \notin Request

VARIABLES
    bundle,     \* is there a bundle on disk?
    authority,  \* PLUGIN_GRANTS: the rows of this plugin
    loaded,     \* does the native registry have an entry for the plugin?
    granted,    \* the capabilities in that entry
    server,     \* the server process: "down", "booting" or "serving"
    task,       \* what boot and each request are in the middle of
    replayed,   \* history: the authority was replayed into this entry
    skipped,    \* history: the permissions this entry's registry refused
    survived,   \* history: this entry outlived its own uninstall
    regranted,  \* history: grants were stored for an entry that had
    untouched,  \* history: no request has begun since boot ended
    overlapped  \* history: a request has begun while another was running

entry == <<loaded, granted, replayed, skipped, survived>>
history == <<untouched, overlapped>>
vars == <<bundle, authority, entry, server, task, regranted, history>>

\* A step names the call a task is about to make.  The permissions still to
\* be pushed are one for grant and revoke, those read from the authority in
\* a replay.
Task == [op   : {"none", "boot", "grant", "revoke", "reload", "uninstall"},
         step : {"start", "persist", "push", "deactivate", "load", "list",
                 "replay", "purge", "remove"},
         left : SUBSET Permission]

NoTask == [op |-> "none", step |-> "start", left |-> {}]

At(t, op, step) == task[t].op = op /\ task[t].step = step

TypeOK ==
    /\ bundle \in BOOLEAN
    /\ authority \subseteq Permission
    /\ loaded \in BOOLEAN
    /\ granted \subseteq Permission
    /\ skipped \subseteq Permission
    /\ survived \in BOOLEAN
    /\ ~loaded => granted = {} /\ ~replayed /\ skipped = {} /\ ~survived
    /\ server \in {"down", "booting", "serving"}
    /\ task \in [Request \cup {Boot} -> Task]
    /\ replayed \in BOOLEAN
    /\ regranted \in BOOLEAN
    /\ untouched \in BOOLEAN
    /\ overlapped \in BOOLEAN

Init ==
    /\ bundle = TRUE
    /\ authority = {}
    /\ loaded = FALSE
    /\ granted = {}
    /\ server = "down"
    /\ task = [t \in Request \cup {Boot} |-> NoTask]
    /\ replayed = FALSE
    /\ skipped = {}
    /\ survived = FALSE
    /\ regranted = FALSE
    /\ untouched = FALSE
    /\ overlapped = FALSE

-----------------------------------------------------------------------------

Moves(t, step) == task' = [task EXCEPT ![t].step = step]
Ends(t) == task' = [task EXCEPT ![t] = NoTask]

\* An entry that has just been made, or none.
Blank == replayed' = FALSE /\ skipped' = {} /\ survived' = FALSE

\* Mutant: the entry goes and its grants stay.
NoEntryKeepsGrants == loaded' = FALSE /\ UNCHANGED granted /\ Blank

\* load_plugin inserts an entry without grants; deactivate_plugin drops the
\* entry with its grants.
NewEntry == loaded' = TRUE /\ granted' = {} /\ Blank
NoEntry  == loaded' = FALSE /\ granted' = {} /\ Blank
SameEntry == UNCHANGED entry

\* A request arrives.
Arrives(r) ==
    /\ server = "serving"
    /\ task[r] = NoTask
    /\ untouched' = FALSE
    /\ overlapped' = (overlapped \/ \E t \in Request : task[t] # NoTask)
    /\ UNCHANGED server

Begins(r, op, step, left) ==
    /\ Arrives(r)
    /\ task' = [task EXCEPT ![r] = [op |-> op, step |-> step, left |-> left]]

-----------------------------------------------------------------------------
(* Grant and revoke.                                                       *)

\* The route looks the plugin up and refuses one that is not loaded.
GrantBegins(r, p) ==
    /\ loaded
    /\ Begins(r, "grant", "persist", {p})
    /\ UNCHANGED <<bundle, authority, entry, regranted>>

\* grantPermission: refused without an entry, and a permission that the
\* registry's grammar does not know; none of ps is then in the entry.
Pushes(ps) ==
    \/ loaded /\ granted' = granted \cup ps /\ skipped' = skipped \ ps
    \/ loaded /\ UNCHANGED granted /\ skipped' = skipped \cup ps
    \/ ~loaded /\ UNCHANGED <<granted, skipped>>

\* Mutant: the runtime is told before the authority.
GrantPersistsLast(r) ==
    /\ At(r, "grant", "persist")
    /\ Moves(r, "push")
    /\ Pushes(task[r].left)
    /\ UNCHANGED <<bundle, authority, loaded, replayed, survived, server,
                   regranted, history>>

\* grantStore.add; an unreachable database ends the request.
GrantPersists(r) ==
    /\ At(r, "grant", "persist")
    /\ \/ /\ authority' = authority \cup task[r].left
          /\ regranted' = (regranted \/ survived)
          /\ Moves(r, "push")
       \/ UNCHANGED <<authority, regranted>> /\ Ends(r)
    /\ UNCHANGED <<bundle, entry, server, history>>

\* What the registry refuses, after the authority has it, ends in a 400.
GrantPushes(r) ==
    /\ At(r, "grant", "push")
    /\ Pushes(task[r].left)
    /\ Ends(r)
    /\ UNCHANGED <<bundle, authority, loaded, replayed, survived, server,
                   regranted, history>>

RevokeBegins(r, p) ==
    /\ Begins(r, "revoke", "persist", {p})
    /\ UNCHANGED <<bundle, authority, entry, regranted>>

RevokePersists(r) ==
    /\ At(r, "revoke", "persist")
    /\ \/ authority' = authority \ task[r].left /\ Moves(r, "push")
       \/ UNCHANGED authority /\ Ends(r)
    /\ UNCHANGED <<bundle, entry, server, regranted, history>>

RevokePushes(r) ==
    /\ At(r, "revoke", "push")
    /\ granted' = granted \ task[r].left
    /\ Ends(r)
    /\ UNCHANGED <<bundle, authority, loaded, replayed, skipped, survived, server,
                   regranted, history>>

-----------------------------------------------------------------------------
(* Load and deactivate: one native call each.                              *)

LoadRoute(r) ==
    /\ Arrives(r)
    /\ bundle /\ ~loaded
    /\ NewEntry
    /\ UNCHANGED <<bundle, authority, task, regranted>>

DeactivateRoute(r) ==
    /\ Arrives(r)
    /\ loaded
    /\ NoEntry \/ SameEntry
    /\ UNCHANGED <<bundle, authority, task, regranted>>

-----------------------------------------------------------------------------
(* Reload, and the replay it shares with boot.                             *)

\* reload_plugin refuses a plugin it has no entry for.
ReloadBegins(r) ==
    /\ loaded
    /\ Begins(r, "reload", "deactivate", {})
    /\ UNCHANGED <<bundle, authority, entry, regranted>>

\* A failing deactivation ends the reload: nothing is loaded, or the entry
\* stays as it was.
ReloadDeactivates(r) ==
    /\ At(r, "reload", "deactivate")
    /\ \/ loaded /\ NoEntry /\ Moves(r, "load")
       \/ SameEntry /\ Ends(r)
    /\ UNCHANGED <<bundle, authority, server, regranted, history>>

\* Staging the bundle again is not transactional: when it fails the plugin
\* stays unloaded.  It also fails when somebody else loaded the plugin.
ReloadLoads(r) ==
    /\ At(r, "reload", "load")
    /\ \/ bundle /\ ~loaded /\ NewEntry /\ Moves(r, "list")
       \/ SameEntry /\ Ends(r)
    /\ UNCHANGED <<bundle, authority, server, regranted, history>>

\* Mutant: the replay pushes one permission and stops.
ReplayPushesOne(t) ==
    /\ task[t].step = "replay"
    /\ \E p \in task[t].left :
          /\ Pushes({p})
          /\ Ends(t)
          /\ replayed' = loaded
          /\ server' = IF t = Boot THEN "serving" ELSE server
          /\ untouched' = IF t = Boot THEN TRUE ELSE untouched
    /\ UNCHANGED <<bundle, authority, loaded, survived, regranted, overlapped>>

\* The replay is over; for boot the server starts to listen.
ReplayEnds(t) ==
    /\ Ends(t)
    /\ replayed' = loaded
    /\ server' = IF t = Boot THEN "serving" ELSE server
    /\ untouched' = IF t = Boot THEN TRUE ELSE untouched

\* grantStore.list, after the activation.
ReplayLists(t) ==
    /\ task[t].step = "list"
    /\ \/ /\ authority # {}
          /\ task' = [task EXCEPT ![t].step = "replay", ![t].left = authority]
          /\ UNCHANGED <<replayed, server, untouched>>
       \/ authority = {} /\ ReplayEnds(t)
    /\ UNCHANGED <<bundle, authority, loaded, granted, skipped, survived,
                   regranted, overlapped>>

\* A replayed permission the registry refuses is logged and skipped.
ReplayPushes(t) ==
    /\ task[t].step = "replay"
    /\ \E p \in task[t].left :
          /\ Pushes({p})
          /\ \/ /\ task[t].left # {p}
                /\ task' = [task EXCEPT ![t].left = @ \ {p}]
                /\ UNCHANGED <<replayed, server, untouched>>
             \/ task[t].left = {p} /\ ReplayEnds(t)
    /\ UNCHANGED <<bundle, authority, loaded, survived, regranted, overlapped>>

\* Boot's clean-up: a failing deactivation is logged, and leaves an entry that
\* nothing has been replayed into.
safelyDeactivate == NoEntry \/ SameEntry

\* The plugin is not for this edition, its activation failed or the database
\* could not be read: a reload leaves the entry as it is; boot drops it, if it
\* can, and goes on to the next plugin.
ReplayFails(t) ==
    /\ task[t].step = "list"
    /\ Ends(t)
    /\ \/ t # Boot /\ SameEntry /\ UNCHANGED <<server, untouched>>
       \/ /\ t = Boot
          /\ safelyDeactivate
          /\ server' = "serving"
          /\ untouched' = TRUE
    /\ UNCHANGED <<bundle, authority, regranted, overlapped>>

-----------------------------------------------------------------------------
(* Uninstall.                                                              *)

UninstallBegins(r) ==
    /\ loaded
    /\ Begins(r, "uninstall", "deactivate", {})
    /\ UNCHANGED <<bundle, authority, entry, regranted>>

\* A failure to deactivate is logged and tolerated.  Nothing was loaded any
\* more, or the entry stays, with its grants, and the uninstall goes on.
UninstallDeactivates(r) ==
    /\ At(r, "uninstall", "deactivate")
    /\ \/ NoEntry
       \/ /\ loaded
          /\ survived' = TRUE
          /\ UNCHANGED <<loaded, granted, replayed, skipped>>
    /\ Moves(r, "purge")
    /\ UNCHANGED <<bundle, authority, server, regranted, history>>

\* Mutant: the rows are left to whoever installs the plugin again.
UninstallPurgesNothing(r) ==
    /\ At(r, "uninstall", "purge")
    /\ Moves(r, "remove")
    /\ UNCHANGED <<bundle, authority, entry, server, regranted, history>>

\* grantStore.purgePlugin; an unreachable database ends the request.
UninstallPurges(r) ==
    /\ At(r, "uninstall", "purge")
    /\ \/ authority' = {} /\ regranted' = FALSE /\ Moves(r, "remove")
       \/ UNCHANGED <<authority, regranted>> /\ Ends(r)
    /\ UNCHANGED <<bundle, entry, server, history>>

\* Removing the bundle directory may fail, which is answered with a 500.
UninstallRemoves(r) ==
    /\ At(r, "uninstall", "remove")
    /\ \E gone \in BOOLEAN : bundle' = IF gone THEN FALSE ELSE bundle
    /\ Ends(r)
    /\ UNCHANGED <<authority, entry, server, regranted, history>>

-----------------------------------------------------------------------------
(* The process and the operator.                                           *)

\* The operator puts the bundle (back) into the plugins directory.
CopyBundle ==
    /\ ~bundle
    /\ bundle' = TRUE
    /\ UNCHANGED <<authority, entry, server, task, regranted, history>>

Crash ==
    /\ server # "down"
    /\ server' = "down"
    /\ NoEntry
    /\ task' = [t \in Request \cup {Boot} |-> NoTask]
    /\ untouched' = FALSE
    /\ UNCHANGED <<bundle, authority, regranted, overlapped>>

\* bootstrapPlugins, awaited before the server listens: load every bundle
\* it finds; a bundle that does not load is skipped.
BootLoads ==
    /\ server = "down"
    /\ \/ /\ bundle
          /\ NewEntry
          /\ server' = "booting"
          /\ task' = [task EXCEPT ![Boot] =
                        [op |-> "boot", step |-> "list", left |-> {}]]
          /\ UNCHANGED untouched
       \/ /\ server' = "serving"
          /\ untouched' = TRUE
          /\ SameEntry
          /\ UNCHANGED task
    /\ UNCHANGED <<bundle, authority, regranted, overlapped>>

Next ==
    \/ \E r \in Request :
          \/ \E p \in Permission : GrantBegins(r, p) \/ RevokeBegins(r, p)
          \/ GrantPersists(r) \/ GrantPushes(r)
          \/ RevokePersists(r) \/ RevokePushes(r)
          \/ LoadRoute(r) \/ DeactivateRoute(r)
          \/ ReloadBegins(r) \/ ReloadDeactivates(r) \/ ReloadLoads(r)
          \/ UninstallBegins(r) \/ UninstallDeactivates(r)
          \/ UninstallPurges(r) \/ UninstallRemoves(r)
    \/ \E t \in Request \cup {Boot} :
          ReplayLists(t) \/ ReplayPushes(t) \/ ReplayFails(t)
    \/ BootLoads \/ Crash \/ CopyBundle

Spec == Init /\ [][Next]_vars

-----------------------------------------------------------------------------
(* Properties.                                                             *)

Revoking(p) == \E r \in Request : At(r, "revoke", "push") /\ p \in task[r].left

\* The metadata database is the authority: the runtime never lets a plugin
\* use a capability the authority does not hold, except while the revoke
\* that withdrew it is still on its way to the runtime.  A revoke that runs
\* between the two writes of a grant breaks this; see WithinAuthorityInTurn.
RuntimeWithinAuthority ==
    \A p \in granted : p \in authority \/ Revoking(p)

\* One request after another, with failures of the database and of the
\* binding and crashes between any two calls, keeps the runtime within the
\* authority.  The exception is the entry whose deactivation failed while its
\* plugin was uninstalled: its grants are purged from the authority alone.
WithinAuthorityInTurn == ~overlapped /\ ~survived => RuntimeWithinAuthority

\* The runtime has the authority's grants, but for those its registry refused.
InSync == granted \subseteq authority /\ authority \subseteq granted \cup skipped

\* A replay of the grants, at boot after any mixture of requests and crashes
\* or by a reload, leaves the runtime with what the authority has, until
\* requests overlap or the one that runs is changing it: nothing revoked
\* survives, and what is missing was refused by the registry and by nothing
\* else.
ReplayedInSync ==
    /\ untouched /\ replayed => InSync
    /\ /\ replayed /\ ~overlapped /\ ~survived
       /\ \A r \in Request : task[r].op \notin {"grant", "revoke"}
       => InSync

\* An uninstalled plugin leaves no grants behind, so re-installing it starts
\* from a clean grant set; unless its entry outlived the uninstall and the user
\* granted it something more.
CleanReinstall == ~bundle /\ ~overlapped /\ ~regranted => authority = {}

=============================================================================
