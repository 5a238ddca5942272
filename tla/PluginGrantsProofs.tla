------------------------- MODULE PluginGrantsProofs -------------------------
(***************************************************************************)
(* Theorems of PluginGrants, for any permissions and any number of         *)
(* requests: the types, and how authority and runtime agree while requests *)
(* take turns and after every boot.                                        *)
(***************************************************************************)
EXTENDS PluginGrants, TLAPS

-----------------------------------------------------------------------------
(* The inductive invariant.                                                *)

StepsOf(op) ==
    CASE op = "none"      -> {"start"}
      [] op = "boot"      -> {"list", "replay"}
      [] op = "grant"     -> {"persist", "push"}
      [] op = "revoke"    -> {"persist", "push"}
      [] op = "reload"    -> {"deactivate", "load", "list", "replay"}
      [] op = "uninstall" -> {"deactivate", "purge", "remove"}

\* What a call is in the middle of, and who makes it.
TaskInv ==
    /\ TypeOK
    /\ \A t \in Request \cup {Boot} :
          /\ task[t].step \in StepsOf(task[t].op)
          /\ task[t].op = "none" => task[t] = NoTask
    /\ task[Boot].op \in {"none", "boot"}
    /\ \A r \in Request : task[r].op # "boot"

\* What a replay, or a grant, still has to push accounts for the rest of the
\* authority.
Covers(left) ==
    /\ granted \cup left \subseteq authority
    /\ authority \subseteq granted \cup skipped \cup left

\* A call that replays the authority into a new entry.
Replaying(t) ==
    /\ task[t].step = "list" => loaded /\ granted = {} /\ ~replayed
    /\ task[t].step = "replay" => loaded /\ ~replayed /\ Covers(task[t].left)

\* Boot runs alone, and what it has replayed stands until a request begins.
BootInv ==
    /\ server # "serving" => \A r \in Request : task[r] = NoTask
    /\ task[Boot] # NoTask => server = "booting"
    /\ server = "down" => ~loaded
    /\ untouched => server = "serving" /\ \A r \in Request : task[r] = NoTask
    /\ untouched /\ replayed => InSync
    /\ Replaying(Boot)

\* What a request has done by the time it is at a step.
DoneBy(r) ==
    /\ Replaying(r)
    /\ task[r].op = "grant" => loaded
    /\ At(r, "grant", "push") => task[r].left \subseteq authority
    /\ task[r].op = "uninstall" /\ task[r].step # "deactivate" /\ loaded => survived
    /\ At(r, "uninstall", "remove") => authority = {}
    /\ replayed /\ ~survived =>
          /\ At(r, "grant", "persist") => InSync
          /\ At(r, "grant", "push") => Covers(task[r].left)
          /\ At(r, "revoke", "persist") => InSync
          /\ At(r, "revoke", "push") =>
                /\ granted \ task[r].left \subseteq authority
                /\ authority \subseteq (granted \ task[r].left) \cup skipped

\* An entry has a bundle, and grants that are stored have one, but for the entry
\* that outlived its uninstall and what was granted to it.
BundleInv ==
    /\ loaded => bundle \/ survived
    /\ ~bundle /\ ~regranted => authority = {}

\* How authority and runtime agree while no grant and no revoke runs.
Settled ==
    /\ ~survived => granted \subseteq authority
    /\ replayed /\ ~survived => InSync
    /\ BundleInv

\* Requests take turns.  The entry that outlived its uninstall is excepted.
TurnInv ==
    /\ \A q, r \in Request : task[q] # NoTask /\ task[r] # NoTask => q = r
    /\ \A r \in Request : DoneBy(r)
    /\ ~survived => RuntimeWithinAuthority
    /\ BundleInv
    /\ /\ replayed /\ ~survived
       /\ \A r \in Request : task[r].op \notin {"grant", "revoke"}
       => InSync

IInv == TaskInv /\ BootInv /\ (~overlapped => TurnInv)
-----------------------------------------------------------------------------
(* The types.                                                              *)

\* The call of one task replaced by another of the right form.
LEMMA TaskReplaced ==
  ASSUME TaskInv, NEW t \in Request \cup {Boot}, NEW new \in Task,
         task' = [task EXCEPT ![t] = new],
         new.step \in StepsOf(new.op),
         new.op = "none" => new = NoTask,
         IF t = Boot THEN new.op \in {"none", "boot"} ELSE new.op # "boot"
  PROVE  /\ task' \in [Request \cup {Boot} -> Task]
         /\ \A u \in Request \cup {Boot} :
               /\ task'[u].step \in StepsOf(task'[u].op)
               /\ task'[u].op = "none" => task'[u] = NoTask
         /\ task'[Boot].op \in {"none", "boot"}
         /\ \A r \in Request : task'[r].op # "boot"
<1>1. task \in [Request \cup {Boot} -> Task]
  BY DEF TaskInv, TypeOK
<1>2. \A u \in (Request \cup {Boot}) \ {t} : task'[u] = task[u]
  BY <1>1
<1>3. task'[t] = new
  BY <1>1
<1> QED
  BY <1>1, <1>2, <1>3, PluginGrantsAssumption DEF TaskInv

LEMMA NoTaskTyped ==
  NoTask \in Task /\ NoTask.op = "none" /\ NoTask.step = "start"
    /\ NoTask.step \in StepsOf("none")
  BY DEF NoTask, Task, StepsOf

LEMMA TaskInit == Init => TaskInv
<1> SUFFICES ASSUME Init PROVE TaskInv
  OBVIOUS
<1>1. \A t \in Request \cup {Boot} : task[t] = NoTask
  BY DEF Init
<1>2. TypeOK
  BY <1>1, NoTaskTyped DEF Init, TypeOK
<1> QED
  BY <1>1, <1>2, NoTaskTyped DEF TaskInv

\* What is known of a task from its step.
LEMMA TaskKnown ==
  ASSUME TaskInv, NEW t \in Request \cup {Boot}
  PROVE  /\ task[t] \in Task
         /\ task[t].step \in StepsOf(task[t].op)
         /\ task[t].step # "start" <=> task[t] # NoTask
         /\ task[t].step \in {"list", "replay"} => task[t].op \in {"boot", "reload"}
         /\ task[t].op = "boot" <=> t = Boot /\ task[t] # NoTask
<1>1. task[t] \in Task /\ task[t].step \in StepsOf(task[t].op)
  BY DEF TaskInv, TypeOK
<1>2. task[t].op \in {"none", "boot", "grant", "revoke", "reload", "uninstall"}
  BY <1>1 DEF Task
<1>3. task[t].step # "start" <=> task[t].op # "none"
  BY <1>1, <1>2 DEF StepsOf
<1>4. task[t].op # "none" <=> task[t] # NoTask
  BY NoTaskTyped DEF TaskInv
<1>5. task[t].step \in {"list", "replay"} => task[t].op \in {"boot", "reload"}
  BY <1>1, <1>2 DEF StepsOf
<1>6. task[t].op = "boot" <=> t = Boot /\ task[t].op # "none"
  BY PluginGrantsAssumption DEF TaskInv
<1> QED
  BY <1>1, <1>3, <1>4, <1>5, <1>6

\* A task that ends, or that makes its next call.
LEMMA EndsTyped ==
  ASSUME TaskInv, NEW t \in Request \cup {Boot}, Ends(t)
  PROVE  /\ task' \in [Request \cup {Boot} -> Task]
         /\ \A u \in Request \cup {Boot} :
               /\ task'[u].step \in StepsOf(task'[u].op)
               /\ task'[u].op = "none" => task'[u] = NoTask
         /\ task'[Boot].op \in {"none", "boot"}
         /\ \A r \in Request : task'[r].op # "boot"
         /\ task'[t] = NoTask
         /\ \A u \in (Request \cup {Boot}) \ {t} : task'[u] = task[u]
<1>1. task'[t] = NoTask /\ \A u \in (Request \cup {Boot}) \ {t} : task'[u] = task[u]
  BY DEF Ends, TaskInv, TypeOK
<1> QED
  BY <1>1, NoTaskTyped, TaskReplaced DEF Ends

LEMMA MovesTyped ==
  ASSUME TaskInv, NEW t \in Request \cup {Boot}, NEW step \in StepsOf(task[t].op),
         Moves(t, step), task[t] # NoTask
  PROVE  /\ task' \in [Request \cup {Boot} -> Task]
         /\ \A u \in Request \cup {Boot} :
               /\ task'[u].step \in StepsOf(task'[u].op)
               /\ task'[u].op = "none" => task'[u] = NoTask
         /\ task'[Boot].op \in {"none", "boot"}
         /\ \A r \in Request : task'[r].op # "boot"
         /\ task'[t].op = task[t].op /\ task'[t].step = step
         /\ task'[t].left = task[t].left
         /\ \A u \in (Request \cup {Boot}) \ {t} : task'[u] = task[u]
<1> DEFINE new == [task[t] EXCEPT !.step = step]
<1>1. task[t] \in Task /\ task[t].op # "none"
  BY TaskKnown, NoTaskTyped DEF TaskInv
<1>2. task[t].op \in {"boot", "grant", "revoke", "reload", "uninstall"}
  BY <1>1 DEF Task
<1>3. step \in {"start", "persist", "push", "deactivate", "load", "list",
                "replay", "purge", "remove"}
  BY <1>2 DEF StepsOf
<1>4. new \in Task /\ new.op = task[t].op /\ new.step = step /\ new.left = task[t].left
  BY <1>1, <1>3 DEF Task
<1>5. task' = [task EXCEPT ![t] = new]
  BY DEF Moves
<1>6. task'[t] = new /\ \A u \in (Request \cup {Boot}) \ {t} : task'[u] = task[u]
  BY <1>5 DEF TaskInv, TypeOK
<1>7. IF t = Boot THEN new.op \in {"none", "boot"} ELSE new.op # "boot"
  BY <1>4 DEF TaskInv
<1> HIDE DEF new
<1> QED
  BY <1>1, <1>4, <1>5, <1>6, <1>7, TaskReplaced

\* A request that begins.
LEMMA BeginsTyped ==
  ASSUME TaskInv, NEW r \in Request,
         NEW op \in {"grant", "revoke", "reload", "uninstall"},
         NEW step \in StepsOf(op), NEW left \in SUBSET Permission,
         Begins(r, op, step, left)
  PROVE  /\ task' \in [Request \cup {Boot} -> Task]
         /\ \A u \in Request \cup {Boot} :
               /\ task'[u].step \in StepsOf(task'[u].op)
               /\ task'[u].op = "none" => task'[u] = NoTask
         /\ task'[Boot].op \in {"none", "boot"}
         /\ \A q \in Request : task'[q].op # "boot"
         /\ task'[r] = [op |-> op, step |-> step, left |-> left]
         /\ \A u \in (Request \cup {Boot}) \ {r} : task'[u] = task[u]
<1> DEFINE new == [op |-> op, step |-> step, left |-> left]
<1>1. step \in {"persist", "push", "deactivate", "load", "list", "replay",
                "purge", "remove"}
  BY DEF StepsOf
<1>2. new \in Task
  BY <1>1 DEF Task
<1>3. task' = [task EXCEPT ![r] = new]
  BY DEF Begins
<1>4. task'[r] = new /\ \A u \in (Request \cup {Boot}) \ {r} : task'[u] = task[u]
  BY <1>3 DEF TaskInv, TypeOK
<1>5. r # Boot
  BY PluginGrantsAssumption
<1> QED
  BY <1>2, <1>3, <1>4, <1>5, TaskReplaced
LEMMA TaskStep == TaskInv /\ [Next]_vars => TaskInv'
<1> SUFFICES ASSUME TaskInv, [Next]_vars PROVE TaskInv'
  OBVIOUS
<1> USE DEF TypeOK, entry, history
<1>1. TypeOK
  BY DEF TaskInv
<1> HIDE DEF TaskInv
<1>2. ASSUME NEW r \in Request, NEW q \in Permission, GrantBegins(r, q) \/ RevokeBegins(r, q)
      PROVE  TaskInv'
  <2>1. {q} \in SUBSET Permission /\ "persist" \in StepsOf("grant")
        /\ "persist" \in StepsOf("revoke")
    BY DEF StepsOf
  <2>2. CASE GrantBegins(r, q)
    BY <1>1, <2>1, <2>2, BeginsTyped DEF GrantBegins, Begins, Arrives, TaskInv
  <2>3. CASE RevokeBegins(r, q)
    BY <1>1, <2>1, <2>3, BeginsTyped DEF RevokeBegins, Begins, Arrives, TaskInv
  <2> QED
    BY <1>2, <2>2, <2>3
<1>3. ASSUME NEW r \in Request, ReloadBegins(r) \/ UninstallBegins(r)
      PROVE  TaskInv'
  <2>1. {} \in SUBSET Permission /\ "deactivate" \in StepsOf("reload")
        /\ "deactivate" \in StepsOf("uninstall")
    BY DEF StepsOf
  <2>2. CASE ReloadBegins(r)
    BY <1>1, <2>1, <2>2, BeginsTyped DEF ReloadBegins, Begins, Arrives, TaskInv
  <2>3. CASE UninstallBegins(r)
    BY <1>1, <2>1, <2>3, BeginsTyped DEF UninstallBegins, Begins, Arrives, TaskInv
  <2> QED
    BY <1>3, <2>2, <2>3
<1>4. ASSUME NEW r \in Request, GrantPersists(r) \/ RevokePersists(r) PROVE TaskInv'
  <2>1. /\ task[r] \in Task /\ task[r] # NoTask /\ "push" \in StepsOf(task[r].op)
        /\ Moves(r, "push") \/ Ends(r)
    BY <1>4, TaskKnown DEF GrantPersists, RevokePersists, At, NoTask, StepsOf
  <2>2. authority' \subseteq Permission
    BY <1>1, <1>4, <2>1 DEF GrantPersists, RevokePersists, Task
  <2>3. CASE Moves(r, "push")
    BY <1>1, <1>4, <2>1, <2>2, <2>3, MovesTyped DEF GrantPersists, RevokePersists, TaskInv
  <2>4. CASE Ends(r)
    BY <1>1, <1>4, <2>2, <2>4, EndsTyped DEF GrantPersists, RevokePersists, TaskInv
  <2> QED
    BY <2>1, <2>3, <2>4
<1>5. ASSUME NEW r \in Request, GrantPushes(r) \/ RevokePushes(r) PROVE TaskInv'
  <2>1. task[r].left \subseteq Permission /\ Ends(r)
    BY <1>5, TaskKnown DEF GrantPushes, RevokePushes, Task
  <2>2. /\ granted' \subseteq Permission /\ skipped' \subseteq Permission
        /\ ~loaded => granted' = {} /\ skipped' = {}
    BY <1>1, <1>5, <2>1 DEF GrantPushes, RevokePushes, Pushes
  <2> QED
    BY <1>1, <1>5, <2>1, <2>2, EndsTyped DEF GrantPushes, RevokePushes, TaskInv
<1>6. ASSUME NEW r \in Request, LoadRoute(r) \/ DeactivateRoute(r) PROVE TaskInv'
  BY <1>6 DEF LoadRoute, DeactivateRoute, Arrives, NewEntry, NoEntry, SameEntry,
              Blank, TaskInv
<1>7. ASSUME NEW r \in Request, ReloadDeactivates(r) \/ ReloadLoads(r) PROVE TaskInv'
  <2>1. /\ task[r] # NoTask /\ {"load", "list"} \subseteq StepsOf(task[r].op)
        /\ Moves(r, "load") \/ Moves(r, "list") \/ Ends(r)
    BY <1>7 DEF ReloadDeactivates, ReloadLoads, At, NoTask, StepsOf
  <2>2. TypeOK' \/ task' \notin [Request \cup {Boot} -> Task]
    BY <1>1, <1>7 DEF ReloadDeactivates, ReloadLoads, NewEntry, NoEntry, SameEntry,
                      Blank
  <2>3. CASE Moves(r, "load") \/ Moves(r, "list")
    BY <2>1, <2>2, <2>3, MovesTyped DEF TaskInv
  <2>4. CASE Ends(r)
    BY <2>2, <2>4, EndsTyped DEF TaskInv
  <2> QED
    BY <2>1, <2>3, <2>4
<1>8. ASSUME NEW r \in Request,
             UninstallDeactivates(r) \/ UninstallPurges(r) \/ UninstallRemoves(r)
      PROVE  TaskInv'
  <2>1. /\ task[r] # NoTask /\ {"purge", "remove"} \subseteq StepsOf(task[r].op)
        /\ Moves(r, "purge") \/ Moves(r, "remove") \/ Ends(r)
    <3>1. task[r].op = "uninstall"
      BY <1>8 DEF UninstallDeactivates, UninstallPurges, UninstallRemoves, At
    <3>2. task[r] # NoTask /\ {"purge", "remove"} \subseteq StepsOf(task[r].op)
      BY <3>1 DEF NoTask, StepsOf
    <3> QED
      BY <1>8, <3>2 DEF UninstallDeactivates, UninstallPurges, UninstallRemoves
  <2>2. TypeOK' \/ task' \notin [Request \cup {Boot} -> Task]
    BY <1>1, <1>8 DEF UninstallDeactivates, UninstallPurges, UninstallRemoves,
                      NoEntry, Blank
  <2>3. CASE Moves(r, "purge") \/ Moves(r, "remove")
    BY <2>1, <2>2, <2>3, MovesTyped DEF TaskInv
  <2>4. CASE Ends(r)
    BY <2>2, <2>4, EndsTyped DEF TaskInv
  <2> QED
    BY <2>1, <2>3, <2>4
<1>9. ASSUME NEW t \in Request \cup {Boot},
              ReplayLists(t) \/ ReplayPushes(t) \/ ReplayFails(t)
       PROVE  TaskInv'
  <2>1. /\ task[t] \in Task /\ task[t] # NoTask /\ "replay" \in StepsOf(task[t].op)
        /\ task[t].op # "none" /\ (t = Boot <=> task[t].op = "boot")
        /\ task[t].left \subseteq Permission
    BY <1>9, TaskKnown, NoTaskTyped
       DEF ReplayLists, ReplayPushes, ReplayFails, StepsOf, Task, TaskInv
  <2>2. TypeOK' \/ task' \notin [Request \cup {Boot} -> Task]
    <3>1. CASE ReplayLists(t)
      BY <1>1, <3>1 DEF ReplayLists, ReplayEnds
    <3>2. CASE ReplayPushes(t)
      <4>1. /\ granted' \subseteq Permission /\ skipped' \subseteq Permission
            /\ ~loaded => granted' = {} /\ skipped' = {}
        BY <1>1, <2>1, <3>2 DEF ReplayPushes, Pushes
      <4> QED
        BY <1>1, <3>2, <4>1 DEF ReplayPushes, ReplayEnds
    <3>3. CASE ReplayFails(t)
      <4>1. CASE t # Boot
        BY <1>1, <3>3, <4>1 DEF ReplayFails, SameEntry
      <4>2. CASE t = Boot
        <5>1. CASE NoEntry
          BY <1>1, <3>3, <4>2, <5>1 DEF ReplayFails, NoEntry, Blank
        <5>2. CASE SameEntry
          BY <1>1, <3>3, <4>2, <5>2 DEF ReplayFails, SameEntry
        <5> QED
          BY <3>3, <4>2, <5>1, <5>2 DEF ReplayFails, safelyDeactivate
      <4> QED
        BY <4>1, <4>2
    <3> QED
      BY <1>9, <3>1, <3>2, <3>3
  <2>3. CASE Ends(t)
    BY <1>1, <2>2, <2>3, EndsTyped DEF TaskInv
  <2>4. ASSUME NEW left \in SUBSET Permission,
               task' = [task EXCEPT ![t] = [@ EXCEPT !.step = "replay", !.left = left]]
        PROVE  TaskInv'
    <3> DEFINE new == [task[t] EXCEPT !.step = "replay", !.left = left]
    <3>1. new \in Task /\ new.op = task[t].op /\ new.step = "replay"
      BY <2>1 DEF Task
    <3>2. task' = [task EXCEPT ![t] = new]
      BY <2>4
    <3>3. IF t = Boot THEN new.op \in {"none", "boot"} ELSE new.op # "boot"
      BY <2>1, <3>1
    <3> HIDE DEF new
    <3> QED
      BY <1>1, <2>1, <2>2, <3>1, <3>2, <3>3, TaskReplaced DEF TaskInv
  <2>5. CASE task' = [task EXCEPT ![t].step = "replay", ![t].left = authority]
    <3>1. task' = [task EXCEPT ![t] = [@ EXCEPT !.step = "replay", !.left = authority]]
      BY <2>5
    <3> QED
      BY <1>1, <2>4, <3>1
  <2>6. ASSUME NEW q \in task[t].left, task[t].step = "replay",
               task' = [task EXCEPT ![t].left = @ \ {q}]
        PROVE  TaskInv'
    <3>1. [task[t] EXCEPT !.left = task[t].left \ {q}]
            = [task[t] EXCEPT !.step = "replay", !.left = task[t].left \ {q}]
      BY <2>1, <2>6 DEF Task
    <3>2. task' = [task EXCEPT ![t] =
                     [@ EXCEPT !.step = "replay", !.left = task[t].left \ {q}]]
      BY <2>6, <3>1
    <3>3. task[t].left \ {q} \in SUBSET Permission
      BY <2>1
    <3> QED
      BY <2>4, <3>2, <3>3
  <2> QED
    BY <1>9, <2>3, <2>5, <2>6 DEF ReplayLists, ReplayPushes, ReplayFails, ReplayEnds
<1>10. CASE BootLoads
  <2>1. TypeOK' \/ task' \notin [Request \cup {Boot} -> Task]
    BY <1>1, <1>10 DEF BootLoads, NewEntry, SameEntry, Blank
  <2>2. CASE UNCHANGED task
    BY <1>1, <2>1, <2>2 DEF TaskInv
  <2>3. CASE task' = [task EXCEPT ![Boot] = [op |-> "boot", step |-> "list", left |-> {}]]
    <3> DEFINE new == [op |-> "boot", step |-> "list", left |-> {}]
    <3>1. new \in Task /\ new.step \in StepsOf(new.op)
      BY DEF Task, StepsOf
    <3> QED
      BY <2>1, <2>3, <3>1, TaskReplaced DEF TaskInv
  <2> QED
    BY <1>10, <2>2, <2>3 DEF BootLoads
<1>11. CASE Crash
  <2>1. \A t \in Request \cup {Boot} : task'[t] = NoTask
    BY <1>11 DEF Crash
  <2>2. TypeOK'
    BY <1>1, <1>11, NoTaskTyped DEF Crash, NoEntry, Blank
  <2> QED
    BY <2>1, <2>2, NoTaskTyped DEF TaskInv
<1>12. CASE CopyBundle
  BY <1>12 DEF CopyBundle, TaskInv
<1>13. CASE UNCHANGED vars
  BY <1>13 DEF vars, TaskInv
<1> QED
  BY <1>2, <1>3, <1>4, <1>5, <1>6, <1>7, <1>8, <1>9, <1>10, <1>11, <1>12, <1>13
     DEF Next
-----------------------------------------------------------------------------
(* Boot.                                                                   *)

\* Whatever the registry answers, what is left to push accounts for the rest.
LEMMA PushAccounts ==
  ASSUME NEW left, NEW ps \in SUBSET left,
         loaded, Covers(left), Pushes(ps), UNCHANGED authority
  PROVE  /\ granted' \cup (left \ ps) \subseteq authority'
         /\ authority' \subseteq granted' \cup skipped' \cup (left \ ps)
  BY DEF Covers, Pushes

\* A request that is running shows that boot is over, and has been noted.
LEMMA RequestKeepsBoot ==
  ASSUME TaskInv, BootInv, NEW r \in Request,
         task[r] # NoTask \/ (server = "serving" /\ ~untouched'),
         server' = server, untouched' => untouched,
         task'[Boot] = task[Boot]
  PROVE  BootInv'
<1>1. server = "serving" /\ task[Boot] = NoTask /\ ~untouched'
  BY DEF BootInv
<1> QED
  BY <1>1, NoTaskTyped DEF BootInv, Replaying

LEMMA BootStep == TaskInv /\ TaskInv' /\ BootInv /\ [Next]_vars => BootInv'
<1> SUFFICES ASSUME TaskInv, TaskInv', BootInv, [Next]_vars PROVE BootInv'
  OBVIOUS
<1> USE DEF entry, history
<1>1. /\ Boot \notin Request
      /\ task \in [Request \cup {Boot} -> Task] /\ task' \in [Request \cup {Boot} -> Task]
  BY PluginGrantsAssumption DEF TaskInv, TypeOK
<1>2. ASSUME NEW r \in Request, NEW q \in Permission, GrantBegins(r, q) \/ RevokeBegins(r, q)
      PROVE  BootInv'
  BY <1>1, <1>2, RequestKeepsBoot
     DEF GrantBegins, RevokeBegins, Begins, Arrives
<1>3. ASSUME NEW r \in Request, ReloadBegins(r) \/ UninstallBegins(r) PROVE BootInv'
  BY <1>1, <1>3, RequestKeepsBoot
     DEF ReloadBegins, UninstallBegins, Begins, Arrives
<1>4. ASSUME NEW r \in Request,
             \/ GrantPersists(r) \/ RevokePersists(r) \/ GrantPushes(r) \/ RevokePushes(r)
             \/ ReloadDeactivates(r) \/ ReloadLoads(r)
             \/ UninstallDeactivates(r) \/ UninstallPurges(r) \/ UninstallRemoves(r)
      PROVE  BootInv'
  <2>1. task[r].op # "none" /\ server' = server /\ untouched' = untouched
    BY <1>4 DEF GrantPersists, RevokePersists, GrantPushes, RevokePushes,
                ReloadDeactivates, ReloadLoads, UninstallDeactivates,
                UninstallPurges, UninstallRemoves, At
  <2>2. task'[Boot] = task[Boot]
    BY <1>1, <1>4 DEF GrantPersists, RevokePersists, GrantPushes, RevokePushes,
                ReloadDeactivates, ReloadLoads, UninstallDeactivates,
                UninstallPurges, UninstallRemoves, Ends, Moves
  <2> QED
    BY <2>1, <2>2, NoTaskTyped, RequestKeepsBoot
<1>5. ASSUME NEW r \in Request, LoadRoute(r) \/ DeactivateRoute(r) PROVE BootInv'
  BY <1>5, RequestKeepsBoot DEF LoadRoute, DeactivateRoute, Arrives
<1>6. ASSUME NEW r \in Request, ReplayLists(r) \/ ReplayPushes(r) \/ ReplayFails(r)
      PROVE  BootInv'
  <2>1. task[r] # NoTask /\ r # Boot
    BY <1>1, <1>6, TaskKnown DEF ReplayLists, ReplayPushes, ReplayFails
  <2>2. server' = server /\ untouched' = untouched
    BY <1>6, <2>1 DEF ReplayLists, ReplayPushes, ReplayFails, ReplayEnds
  <2>3. task'[Boot] = task[Boot]
    BY <1>1, <1>6, <2>1 DEF ReplayLists, ReplayPushes, ReplayFails, ReplayEnds, Ends
  <2> QED
    BY <2>1, <2>2, <2>3, RequestKeepsBoot
<1>7. CASE ReplayLists(Boot) \/ ReplayPushes(Boot) \/ ReplayFails(Boot)
  <2>1. /\ task[Boot] # NoTask /\ server = "booting" /\ ~untouched
        /\ \A r \in Request : task[r] = NoTask
        /\ task[Boot].step = "list" => loaded /\ granted = {} /\ ~replayed
        /\ task[Boot].step = "replay" =>
              loaded /\ ~replayed /\ Covers(task[Boot].left)
    BY <1>7, TaskKnown DEF ReplayLists, ReplayPushes, ReplayFails, BootInv, Replaying
  <2>2. \A r \in Request : task'[r] = NoTask
    BY <1>1, <1>7, <2>1
       DEF ReplayLists, ReplayPushes, ReplayFails, ReplayEnds, Ends
  <2>3. CASE /\ ReplayLists(Boot)
             /\ task' = [task EXCEPT ![Boot].step = "replay", ![Boot].left = authority]
             /\ UNCHANGED <<replayed, server, untouched>>
    <3>1. task'[Boot].step = "replay" /\ task'[Boot].left = authority
      BY <1>1, <2>3 DEF Task
    <3>2. Replaying(Boot)'
      BY <2>1, <2>3, <3>1 DEF ReplayLists, Replaying, Covers
    <3> QED
      BY <2>1, <2>2, <2>3, <3>2 DEF ReplayLists, BootInv
  <2>4. ASSUME NEW q \in task[Boot].left,
               granted' \cup (task[Boot].left \ {q}) \subseteq authority',
               authority' \subseteq granted' \cup skipped' \cup (task[Boot].left \ {q}),
               task[Boot].step = "replay",
               task' = [task EXCEPT ![Boot].left = @ \ {q}],
               UNCHANGED <<loaded, replayed, server, untouched>>
        PROVE  BootInv'
    <3>1. task'[Boot].step = "replay" /\ task'[Boot].left = task[Boot].left \ {q}
      BY <1>1, <2>4 DEF Task
    <3>2. Covers(task[Boot].left)'
      BY <2>4, <3>1 DEF Covers
    <3>3. Replaying(Boot)'
      BY <2>1, <2>4, <3>1, <3>2 DEF Replaying
    <3> QED
      BY <2>1, <2>2, <2>4, <3>3 DEF BootInv
  <2>5. CASE ReplayEnds(Boot) /\ InSync'
    <3>1. task'[Boot] = NoTask /\ server' = "serving" /\ untouched'
      BY <1>1, <2>5 DEF ReplayEnds, Ends
    <3> QED
      BY <2>2, <2>5, <3>1, NoTaskTyped DEF BootInv, Replaying
  <2>6. CASE ReplayFails(Boot)
    <3>1. task'[Boot] = NoTask /\ server' = "serving"
      BY <1>1, <2>6 DEF ReplayFails, Ends
    <3>2. ~replayed /\ (NoEntry \/ SameEntry)
      BY <2>1, <2>6 DEF ReplayFails, safelyDeactivate
    <3>3. ~replayed'
      BY <3>2 DEF NoEntry, SameEntry, Blank
    <3> QED
      BY <2>2, <3>1, <3>3, NoTaskTyped DEF BootInv, Replaying
  <2>7. CASE ReplayLists(Boot)
    <3>1. CASE authority = {} /\ ReplayEnds(Boot)
      <4>1. InSync'
        BY <2>1, <2>7, <3>1 DEF ReplayLists, InSync
      <4> QED
        BY <2>5, <3>1, <4>1
    <3> QED
      BY <2>3, <2>7, <3>1 DEF ReplayLists
  <2>8. CASE ReplayPushes(Boot)
    <3>1. PICK q \in task[Boot].left :
             /\ Pushes({q})
             /\ \/ /\ task[Boot].left # {q}
                   /\ task' = [task EXCEPT ![Boot].left = @ \ {q}]
                   /\ UNCHANGED <<replayed, server, untouched>>
                \/ task[Boot].left = {q} /\ ReplayEnds(Boot)
      BY <2>8 DEF ReplayPushes
    <3>2. /\ task[Boot].step = "replay" /\ UNCHANGED <<authority, loaded>>
          /\ loaded /\ Covers(task[Boot].left)
      BY <2>1, <2>8 DEF ReplayPushes
    <3>3. /\ granted' \cup (task[Boot].left \ {q}) \subseteq authority'
          /\ authority' \subseteq granted' \cup skipped' \cup (task[Boot].left \ {q})
      BY <3>1, <3>2, PushAccounts
    <3>4. task[Boot].left = {q} => InSync'
      BY <3>3 DEF InSync
    <3> QED
      BY <2>4, <2>5, <3>1, <3>2, <3>3, <3>4
  <2> QED
    BY <1>7, <2>6, <2>7, <2>8
<1>8. CASE BootLoads
  <2>1. /\ server = "down" /\ ~loaded /\ \A r \in Request : task[r] = NoTask
        /\ task[Boot] = NoTask /\ ~untouched
    BY <1>8 DEF BootLoads, BootInv
  <2>2. CASE /\ bundle /\ NewEntry /\ server' = "booting"
             /\ task' = [task EXCEPT ![Boot] =
                           [op |-> "boot", step |-> "list", left |-> {}]]
             /\ UNCHANGED untouched
    <3>1. /\ \A r \in Request : task'[r] = NoTask
          /\ task'[Boot] = [op |-> "boot", step |-> "list", left |-> {}]
      BY <1>1, <2>1, <2>2
    <3> QED
      BY <2>1, <2>2, <3>1 DEF BootInv, Replaying, NewEntry, Blank
  <2>3. CASE server' = "serving" /\ SameEntry /\ UNCHANGED task
    <3>1. ~replayed'
      BY <2>1, <2>3 DEF SameEntry, TaskInv, TypeOK
    <3> QED
      BY <2>1, <2>3, <3>1, NoTaskTyped DEF BootInv, Replaying, SameEntry
  <2> QED
    BY <1>8, <2>2, <2>3 DEF BootLoads
<1>9. CASE Crash
  <2>1. \A t \in Request \cup {Boot} : task'[t] = NoTask
    BY <1>9 DEF Crash
  <2> QED
    BY <1>9, <2>1, NoTaskTyped DEF Crash, NoEntry, BootInv, Replaying
<1>10. CASE CopyBundle
  BY <1>10 DEF CopyBundle, BootInv, Replaying, Covers, InSync
<1>11. CASE UNCHANGED vars
  BY <1>11 DEF vars, BootInv, Replaying, Covers, InSync
<1> QED
  BY <1>2, <1>3, <1>4, <1>5, <1>6, <1>7, <1>8, <1>9, <1>10, <1>11 DEF Next
-----------------------------------------------------------------------------
(* Requests in turn.                                                       *)

LEMMA OverlapStays == [Next]_vars => (overlapped => overlapped')
<1> SUFFICES ASSUME [Next]_vars PROVE overlapped => overlapped'
  OBVIOUS
<1> USE DEF history
<1>1. ASSUME NEW r \in Request, NEW q \in Permission, GrantBegins(r, q) \/ RevokeBegins(r, q)
      PROVE  overlapped => overlapped'
  BY <1>1 DEF GrantBegins, RevokeBegins, Begins, Arrives
<1>2. ASSUME NEW r \in Request,
             ReloadBegins(r) \/ UninstallBegins(r) \/ LoadRoute(r) \/ DeactivateRoute(r)
      PROVE  overlapped => overlapped'
  BY <1>2 DEF ReloadBegins, UninstallBegins, LoadRoute, DeactivateRoute, Begins, Arrives
<1>3. ASSUME NEW r \in Request,
             \/ GrantPersists(r) \/ RevokePersists(r) \/ GrantPushes(r) \/ RevokePushes(r)
             \/ ReloadDeactivates(r) \/ ReloadLoads(r)
             \/ UninstallDeactivates(r) \/ UninstallPurges(r) \/ UninstallRemoves(r)
      PROVE  UNCHANGED overlapped
  BY <1>3 DEF GrantPersists, RevokePersists, GrantPushes, RevokePushes,
              ReloadDeactivates, ReloadLoads, UninstallDeactivates, UninstallPurges,
              UninstallRemoves
<1>4. ASSUME NEW t \in Request \cup {Boot},
             ReplayLists(t) \/ ReplayPushes(t) \/ ReplayFails(t)
      PROVE  UNCHANGED overlapped
  BY <1>4 DEF ReplayLists, ReplayPushes, ReplayFails
<1>5. CASE BootLoads \/ Crash \/ CopyBundle \/ UNCHANGED vars
  BY <1>5 DEF BootLoads, Crash, CopyBundle, vars
<1> QED
  BY <1>1, <1>2, <1>3, <1>4, <1>5 DEF Next

\* A step of the one request that runs.
LEMMA AloneStep ==
  ASSUME NEW r \in Request,
         \A q \in Request \ {r} : task'[q] = NoTask,
         DoneBy(r)', BundleInv',
         \/ survived'
         \/ granted' \subseteq authority'
         \/ At(r, "revoke", "push")' /\ granted' \subseteq authority' \cup task'[r].left,
         task'[r].op \notin {"grant", "revoke"} => Settled'
  PROVE  TurnInv'
<1>1. \A q \in Request \ {r} : DoneBy(q)'
  BY NoTaskTyped DEF DoneBy, Replaying, At
<1>2. ~survived' => RuntimeWithinAuthority'
  BY DEF RuntimeWithinAuthority, Revoking
<1>3. /\ replayed' /\ ~survived'
      /\ \A q \in Request : task'[q].op \notin {"grant", "revoke"}
      => InSync'
  BY DEF Settled
<1> QED
  BY <1>1, <1>2, <1>3 DEF TurnInv

\* No request runs before the step, and none after.
LEMMA NobodyStep ==
  ASSUME \A q \in Request : task'[q] = NoTask, Settled'
  PROVE  TurnInv'
<1>1. \A q \in Request : DoneBy(q)'
  BY NoTaskTyped DEF DoneBy, Replaying, At
<1>2. ~survived' => RuntimeWithinAuthority'
  BY DEF RuntimeWithinAuthority, Settled
<1> QED
  BY <1>1, <1>2 DEF TurnInv, Settled

\* A request that begins in turn finds the runtime within the authority, and in
\* step with it once there was a replay.
LEMMA IdleKnown ==
  ASSUME TurnInv, \A q \in Request : task[q] = NoTask
  PROVE  Settled
<1>1. \A p : ~Revoking(p)
  BY NoTaskTyped DEF Revoking, At
<1>2. ~survived => granted \subseteq authority
  BY <1>1 DEF TurnInv, RuntimeWithinAuthority
<1>3. replayed /\ ~survived => InSync
  BY NoTaskTyped DEF TurnInv
<1> QED
  BY <1>2, <1>3 DEF TurnInv, Settled

\* What the one request knows.
LEMMA AloneKnown ==
  ASSUME TurnInv, NEW r \in Request, task[r] # NoTask
  PROVE  /\ \A q \in Request \ {r} : task[q] = NoTask
         /\ DoneBy(r)
         /\ BundleInv
         /\ survived \/ IF At(r, "revoke", "push")
                        THEN granted \subseteq authority \cup task[r].left
                        ELSE granted \subseteq authority
         /\ task[r].op \notin {"grant", "revoke"} => Settled
<1>1. \A q \in Request \ {r} : task[q] = NoTask
  BY DEF TurnInv
<1>2. ASSUME ~survived
      PROVE  \A p \in granted :
                \/ p \in authority
                \/ At(r, "revoke", "push") /\ p \in task[r].left
  <2>1. \A q \in Request : At(q, "revoke", "push") => q = r
    BY <1>1, NoTaskTyped DEF At
  <2>2. RuntimeWithinAuthority
    BY <1>2 DEF TurnInv
  <2> TAKE p \in granted
  <2>3. Revoking(p) => At(r, "revoke", "push") /\ p \in task[r].left
    BY <2>1 DEF Revoking
  <2> QED
    BY <2>2, <2>3 DEF RuntimeWithinAuthority
<1>3. survived \/ IF At(r, "revoke", "push")
                  THEN granted \subseteq authority \cup task[r].left
                  ELSE granted \subseteq authority
  BY <1>2
<1>4. ASSUME task[r].op \notin {"grant", "revoke"} PROVE Settled
  <2>1. \A q \in Request : task[q].op \notin {"grant", "revoke"}
    BY <1>1, <1>4, NoTaskTyped
  <2>2. survived \/ granted \subseteq authority
    BY <1>3, <1>4 DEF At
  <2> QED
    BY <2>1, <2>2 DEF TurnInv, Settled
<1> QED
  BY <1>1, <1>3, <1>4 DEF TurnInv

\* An entry that stays, goes, or is made from a bundle, no request changing it.
LEMMA EntrySettled ==
  ASSUME Settled, SameEntry \/ NoEntry \/ (NewEntry /\ bundle),
         UNCHANGED <<bundle, authority, regranted>>
  PROVE  Settled'
<1>1. CASE SameEntry
  BY <1>1 DEF Settled, SameEntry, entry, InSync, BundleInv
<1>2. CASE NoEntry \/ (NewEntry /\ bundle)
  BY <1>2 DEF Settled, NoEntry, NewEntry, Blank, BundleInv
<1> QED
  BY <1>1, <1>2

LEMMA TurnStep ==
  TaskInv /\ TaskInv' /\ BootInv /\ BootInv' /\ (~overlapped => TurnInv) /\ [Next]_vars
    => (~overlapped => TurnInv)'
<1> SUFFICES ASSUME TaskInv, TaskInv', BootInv, BootInv', ~overlapped => TurnInv,
                    [Next]_vars, ~overlapped'
             PROVE  TurnInv'
  OBVIOUS
<1> USE DEF entry, history
<1>1. /\ Boot \notin Request /\ TurnInv
      /\ task \in [Request \cup {Boot} -> Task] /\ task' \in [Request \cup {Boot} -> Task]
      /\ ~loaded => granted = {} /\ ~replayed /\ ~survived
  BY OverlapStays, PluginGrantsAssumption DEF TaskInv, TypeOK
<1>2. ASSUME NEW r \in Request, Arrives(r)
      PROVE  (\A q \in Request : task[q] = NoTask) /\ Settled
  <2>1. \A q \in Request : task[q] = NoTask
    BY <1>2 DEF Arrives
  <2> QED
    BY <1>1, <2>1, IdleKnown
<1>3. ASSUME NEW r \in Request, NEW op \in {"grant", "revoke", "reload", "uninstall"},
             NEW step \in {"persist", "deactivate"}, NEW left,
             Begins(r, op, step, left), UNCHANGED <<bundle, authority, entry, regranted>>,
             op = "grant" => loaded,
             op \in {"grant", "revoke"} <=> step = "persist"
      PROVE  TurnInv'
  <2>1. /\ task'[r].op = op /\ task'[r].step = step
        /\ \A u \in Request \ {r} : task'[u] = NoTask
        /\ Settled
    BY <1>1, <1>2, <1>3 DEF Begins
  <2>2. Settled'
    BY <1>3, <2>1 DEF Settled, InSync, BundleInv
  <2>3. DoneBy(r)'
    BY <1>3, <2>1, <2>2 DEF DoneBy, Replaying, At, Settled
  <2>4. survived' \/ granted' \subseteq authority'
    BY <2>2 DEF Settled
  <2>5. BundleInv'
    BY <2>2 DEF Settled
  <2> QED
    BY <2>1, <2>2, <2>3, <2>4, <2>5, AloneStep
<1>4. ASSUME NEW r \in Request, NEW q \in Permission, GrantBegins(r, q) \/ RevokeBegins(r, q)
      PROVE  TurnInv'
  BY <1>3, <1>4 DEF GrantBegins, RevokeBegins
<1>5. ASSUME NEW r \in Request, ReloadBegins(r) \/ UninstallBegins(r) PROVE TurnInv'
  BY <1>3, <1>5 DEF ReloadBegins, UninstallBegins
<1>6. ASSUME NEW r \in Request, LoadRoute(r) \/ DeactivateRoute(r) PROVE TurnInv'
  <2>1. /\ \A q \in Request : task'[q] = NoTask
        /\ Settled /\ UNCHANGED <<bundle, authority, regranted>>
    BY <1>2, <1>6 DEF LoadRoute, DeactivateRoute, Arrives
  <2>2. SameEntry \/ NoEntry \/ (NewEntry /\ bundle)
    BY <1>6 DEF LoadRoute, DeactivateRoute
  <2>3. Settled'
    BY <2>1, <2>2, EntrySettled
  <2> QED
    BY <2>1, <2>3, NobodyStep
<1>7. ASSUME NEW r \in Request, GrantPersists(r) PROVE TurnInv'
  <2>1. task[r].op = "grant" /\ task[r].step = "persist" /\ task[r] # NoTask
    BY <1>7, NoTaskTyped DEF GrantPersists, At
  <2>2. /\ \A q \in Request \ {r} : task[q] = NoTask
        /\ survived \/ granted \subseteq authority
        /\ loaded /\ BundleInv
        /\ replayed /\ ~survived => InSync
    BY <1>1, <2>1, AloneKnown DEF DoneBy, At
  <2>3. UNCHANGED <<bundle, entry>>
    BY <1>7 DEF GrantPersists
  <2>4. CASE /\ authority' = authority \cup task[r].left
             /\ regranted' = (regranted \/ survived)
             /\ Moves(r, "push")
    <3>1. /\ task'[r].op = "grant" /\ task'[r].step = "push"
          /\ task'[r].left = task[r].left
          /\ \A q \in Request \ {r} : task'[q] = NoTask
      BY <1>1, <2>1, <2>2, <2>4 DEF Moves, Task
    <3>2. replayed /\ ~survived => Covers(task[r].left)'
      BY <2>2, <2>3, <2>4, <3>1 DEF Covers, InSync
    <3>3. DoneBy(r)'
      BY <2>2, <2>3, <2>4, <3>1, <3>2 DEF DoneBy, Replaying, At
    <3>4. BundleInv'
      BY <2>2, <2>3, <2>4 DEF BundleInv
    <3> QED
      BY <2>2, <2>3, <2>4, <3>1, <3>3, <3>4, AloneStep
  <2>5. CASE UNCHANGED <<authority, regranted>> /\ Ends(r)
    <3>1. \A q \in Request : task'[q] = NoTask
      BY <1>1, <2>2, <2>5 DEF Ends
    <3>2. Settled'
      BY <2>2, <2>3, <2>5 DEF Settled, InSync, BundleInv
    <3> QED
      BY <3>1, <3>2, NobodyStep
  <2> QED
    BY <1>7, <2>4, <2>5 DEF GrantPersists
<1>8. ASSUME NEW r \in Request, GrantPushes(r) PROVE TurnInv'
  <2>1. task[r].op = "grant" /\ task[r].step = "push" /\ task[r] # NoTask
    BY <1>8, NoTaskTyped DEF GrantPushes, At
  <2>2. /\ \A q \in Request \ {r} : task[q] = NoTask
        /\ survived \/ granted \subseteq authority
        /\ task[r].left \subseteq authority
        /\ loaded /\ BundleInv
        /\ replayed /\ ~survived => Covers(task[r].left)
    BY <1>1, <2>1, AloneKnown DEF DoneBy, At
  <2>3. /\ Pushes(task[r].left) /\ Ends(r)
        /\ UNCHANGED <<bundle, authority, loaded, replayed, survived, regranted>>
    BY <1>8 DEF GrantPushes
  <2>4. \A q \in Request : task'[q] = NoTask
    BY <1>1, <2>2, <2>3 DEF Ends
  <2>5. survived' \/ granted' \subseteq authority'
    BY <2>2, <2>3 DEF Pushes
  <2>6. replayed' /\ ~survived' => InSync'
    BY <2>2, <2>3, PushAccounts DEF InSync
  <2>7. Settled'
    BY <2>2, <2>3, <2>5, <2>6 DEF Settled, BundleInv
  <2> QED
    BY <2>4, <2>7, NobodyStep
<1>9. ASSUME NEW r \in Request, RevokePersists(r) PROVE TurnInv'
  <2>1. task[r].op = "revoke" /\ task[r].step = "persist" /\ task[r] # NoTask
    BY <1>9, NoTaskTyped DEF RevokePersists, At
  <2>2. /\ \A q \in Request \ {r} : task[q] = NoTask
        /\ survived \/ granted \subseteq authority
        /\ BundleInv
        /\ replayed /\ ~survived => InSync
    BY <1>1, <2>1, AloneKnown DEF DoneBy, At
  <2>3. UNCHANGED <<bundle, entry, regranted>>
    BY <1>9 DEF RevokePersists
  <2>4. CASE authority' = authority \ task[r].left /\ Moves(r, "push")
    <3>1. /\ task'[r].op = "revoke" /\ task'[r].step = "push"
          /\ task'[r].left = task[r].left
          /\ \A q \in Request \ {r} : task'[q] = NoTask
      BY <1>1, <2>1, <2>2, <2>4 DEF Moves, Task
    <3>2. replayed /\ ~survived =>
             /\ granted \ task[r].left \subseteq authority'
             /\ authority' \subseteq (granted \ task[r].left) \cup skipped
      BY <2>2, <2>4 DEF InSync
    <3>3. DoneBy(r)'
      BY <2>3, <3>1, <3>2 DEF DoneBy, Replaying, At
    <3>4. \/ survived'
          \/ /\ At(r, "revoke", "push")'
             /\ granted' \subseteq authority' \cup task'[r].left
      BY <2>2, <2>3, <2>4, <3>1 DEF At
    <3>5. BundleInv'
      BY <2>2, <2>3, <2>4 DEF BundleInv
    <3> QED
      BY <3>1, <3>3, <3>4, <3>5, AloneStep
  <2>5. CASE UNCHANGED authority /\ Ends(r)
    <3>1. \A q \in Request : task'[q] = NoTask
      BY <1>1, <2>2, <2>5 DEF Ends
    <3>2. Settled'
      BY <2>2, <2>3, <2>5 DEF Settled, InSync, BundleInv
    <3> QED
      BY <3>1, <3>2, NobodyStep
  <2> QED
    BY <1>9, <2>4, <2>5 DEF RevokePersists
<1>10. ASSUME NEW r \in Request, RevokePushes(r) PROVE TurnInv'
  <2>1. task[r].op = "revoke" /\ task[r].step = "push" /\ task[r] # NoTask
    BY <1>10, NoTaskTyped DEF RevokePushes, At
  <2>2. /\ \A q \in Request \ {r} : task[q] = NoTask
        /\ survived \/ granted \subseteq authority \cup task[r].left
        /\ BundleInv
        /\ replayed /\ ~survived =>
              /\ granted \ task[r].left \subseteq authority
              /\ authority \subseteq (granted \ task[r].left) \cup skipped
    BY <1>1, <2>1, AloneKnown DEF DoneBy, At
  <2>3. /\ granted' = granted \ task[r].left /\ Ends(r)
        /\ UNCHANGED <<bundle, authority, loaded, replayed, skipped, survived, regranted>>
    BY <1>10 DEF RevokePushes
  <2>4. \A q \in Request : task'[q] = NoTask
    BY <1>1, <2>2, <2>3 DEF Ends
  <2>5. Settled'
    BY <2>2, <2>3 DEF Settled, InSync, BundleInv
  <2> QED
    BY <2>4, <2>5, NobodyStep
<1>11. ASSUME NEW r \in Request, ReloadDeactivates(r) \/ ReloadLoads(r) PROVE TurnInv'
  <2>1. task[r].op = "reload" /\ task[r] # NoTask
    BY <1>11, NoTaskTyped DEF ReloadDeactivates, ReloadLoads, At
  <2>2. /\ \A q \in Request \ {r} : task[q] = NoTask
        /\ Settled
    BY <1>1, <2>1, AloneKnown
  <2>3. /\ UNCHANGED <<bundle, authority, regranted>>
        /\ \/ Ends(r) /\ SameEntry
           \/ Moves(r, "load") /\ NoEntry
           \/ Moves(r, "list") /\ NewEntry /\ bundle
    <3>1. CASE ReloadDeactivates(r)
      BY <3>1 DEF ReloadDeactivates
    <3>2. CASE ReloadLoads(r)
      BY <3>2 DEF ReloadLoads
    <3> QED
      BY <1>11, <3>1, <3>2
  <2>4. Settled'
    BY <2>2, <2>3, EntrySettled
  <2>5. CASE Ends(r)
    <3>1. \A q \in Request : task'[q] = NoTask
      BY <1>1, <2>2, <2>5 DEF Ends
    <3> QED
      BY <2>4, <3>1, NobodyStep
  <2>6. CASE \/ Moves(r, "load") /\ NoEntry
             \/ Moves(r, "list") /\ NewEntry
    <3>1. /\ task'[r].op = "reload"
          /\ \/ task'[r].step = "load" /\ NoEntry
             \/ task'[r].step = "list" /\ NewEntry
          /\ \A q \in Request \ {r} : task'[q] = NoTask
      BY <1>1, <2>1, <2>2, <2>6 DEF Moves, Task
    <3>2. DoneBy(r)'
      BY <3>1 DEF DoneBy, Replaying, At, NewEntry, NoEntry, Blank
    <3> QED
      BY <2>4, <3>1, <3>2, AloneStep DEF Settled
  <2> QED
    BY <2>3, <2>5, <2>6
<1>12. ASSUME NEW r \in Request,
              UninstallDeactivates(r) \/ UninstallPurges(r) \/ UninstallRemoves(r)
       PROVE  TurnInv'
  <2>1. task[r].op = "uninstall" /\ task[r] # NoTask
    BY <1>12, NoTaskTyped
       DEF UninstallDeactivates, UninstallPurges, UninstallRemoves, At
  <2>2. /\ \A q \in Request \ {r} : task[q] = NoTask
        /\ Settled /\ DoneBy(r)
    BY <1>1, <2>1, AloneKnown
  <2>3. CASE UninstallDeactivates(r)
    <3>1. /\ task'[r].op = "uninstall" /\ task'[r].step = "purge"
          /\ \A q \in Request \ {r} : task'[q] = NoTask
      BY <1>1, <2>1, <2>2, <2>3 DEF UninstallDeactivates, Moves, Task
    <3>2. /\ UNCHANGED <<bundle, authority, regranted>>
          /\ \/ NoEntry
             \/ survived'
      BY <2>3 DEF UninstallDeactivates
    <3>3. Settled' /\ (loaded' => survived')
      BY <2>2, <3>2 DEF Settled, BundleInv, NoEntry, Blank
    <3>4. DoneBy(r)'
      BY <3>1, <3>3 DEF DoneBy, Replaying, At
    <3> QED
      BY <3>1, <3>3, <3>4, AloneStep DEF Settled
  <2>4. CASE UninstallPurges(r)
    <3>1. (loaded => survived) /\ UNCHANGED <<bundle, entry>>
      BY <2>1, <2>2, <2>4 DEF UninstallPurges, DoneBy, At
    <3>2. CASE authority' = {} /\ regranted' = FALSE /\ Moves(r, "remove")
      <4>1. /\ task'[r].op = "uninstall" /\ task'[r].step = "remove"
            /\ \A q \in Request \ {r} : task'[q] = NoTask
        BY <1>1, <2>1, <2>2, <3>2 DEF Moves, Task
      <4>2. DoneBy(r)'
        BY <3>1, <3>2, <4>1 DEF DoneBy, Replaying, At
      <4>3. Settled'
        BY <1>1, <2>2, <3>1, <3>2 DEF Settled, BundleInv
      <4> QED
        BY <4>1, <4>2, <4>3, AloneStep DEF Settled
    <3>3. CASE UNCHANGED <<authority, regranted>> /\ Ends(r)
      <4>1. \A q \in Request : task'[q] = NoTask
        BY <1>1, <2>2, <3>3 DEF Ends
      <4>2. Settled'
        BY <2>2, <3>1, <3>3 DEF Settled, InSync, BundleInv
      <4> QED
        BY <4>1, <4>2, NobodyStep
    <3> QED
      BY <2>4, <3>2, <3>3 DEF UninstallPurges
  <2>5. CASE UninstallRemoves(r)
    <3>1. /\ (loaded => survived) /\ authority = {}
          /\ UNCHANGED <<authority, entry, regranted>>
      BY <2>2, <2>5 DEF UninstallRemoves, DoneBy, At
    <3>2. \A q \in Request : task'[q] = NoTask
      BY <1>1, <2>2, <2>5 DEF UninstallRemoves, Ends
    <3>3. Settled'
      BY <2>2, <3>1 DEF Settled, InSync, BundleInv
    <3> QED
      BY <3>2, <3>3, NobodyStep
  <2> QED
    BY <1>12, <2>3, <2>4, <2>5
<1>13. ASSUME NEW r \in Request, ReplayLists(r) \/ ReplayPushes(r) \/ ReplayFails(r)
       PROVE  TurnInv'
  <2>1. task[r] # NoTask /\ r # Boot /\ task[r].op = "reload"
    BY <1>1, <1>13, TaskKnown DEF ReplayLists, ReplayPushes, ReplayFails, TaskInv
  <2>2. /\ \A q \in Request \ {r} : task[q] = NoTask
        /\ Settled
        /\ task[r].step = "list" => loaded /\ granted = {} /\ ~replayed
        /\ task[r].step = "replay" => loaded /\ ~replayed /\ Covers(task[r].left)
    BY <1>1, <2>1, AloneKnown DEF DoneBy, Replaying
  <2>3. UNCHANGED <<bundle, authority, loaded, survived, regranted>>
    BY <1>13, <2>1 DEF ReplayLists, ReplayPushes, ReplayFails, SameEntry
  <2>4. CASE Ends(r) /\ Settled'
    <3>1. \A q \in Request : task'[q] = NoTask
      BY <1>1, <2>2, <2>4 DEF Ends
    <3> QED
      BY <2>4, <3>1, NobodyStep
  <2>5. CASE InSync' /\ Ends(r)
    <3>1. Settled'
      BY <2>2, <2>3, <2>5 DEF Settled, InSync, BundleInv
    <3> QED
      BY <2>4, <2>5, <3>1
  <2>6. ASSUME NEW left, task'[r].op = "reload", task'[r].step = "replay",
               task'[r].left = left, loaded, ~replayed',
               granted' \cup left \subseteq authority',
               authority' \subseteq granted' \cup skipped' \cup left,
               \A q \in Request \ {r} : task'[q] = task[q]
        PROVE  TurnInv'
    <3>1. Covers(task[r].left)'
      BY <2>6 DEF Covers
    <3>2. DoneBy(r)'
      BY <2>3, <2>6, <3>1 DEF DoneBy, Replaying, At
    <3>3. Settled'
      BY <2>2, <2>3, <2>6 DEF Settled, BundleInv
    <3>4. \A q \in Request \ {r} : task'[q] = NoTask
      BY <2>2, <2>6
    <3> QED
      BY <3>2, <3>3, <3>4, AloneStep DEF Settled
  <2>7. CASE ReplayLists(r)
    <3>1. CASE task' = [task EXCEPT ![r].step = "replay", ![r].left = authority]
                 /\ UNCHANGED replayed
      <4>1. /\ task'[r].op = "reload" /\ task'[r].step = "replay"
            /\ task'[r].left = authority
            /\ \A q \in Request \ {r} : task'[q] = task[q]
        BY <1>1, <2>1, <3>1 DEF Task
      <4> QED
        BY <2>2, <2>6, <2>7, <3>1, <4>1 DEF ReplayLists
    <3>2. CASE authority = {} /\ ReplayEnds(r)
      <4>1. InSync'
        BY <2>2, <2>7, <3>2 DEF ReplayLists, InSync
      <4> QED
        BY <2>5, <3>2, <4>1 DEF ReplayEnds
    <3> QED
      BY <2>7, <3>1, <3>2 DEF ReplayLists
  <2>8. CASE ReplayPushes(r)
    <3>1. PICK q \in task[r].left :
             /\ Pushes({q})
             /\ \/ /\ task[r].left # {q}
                   /\ task' = [task EXCEPT ![r].left = @ \ {q}]
                   /\ UNCHANGED <<replayed, server, untouched>>
                \/ task[r].left = {q} /\ ReplayEnds(r)
      BY <2>8 DEF ReplayPushes
    <3>2. /\ task[r].step = "replay" /\ loaded /\ ~replayed
          /\ Covers(task[r].left)
      BY <2>2, <2>8 DEF ReplayPushes
    <3>3. /\ granted' \cup (task[r].left \ {q}) \subseteq authority'
          /\ authority' \subseteq granted' \cup skipped' \cup (task[r].left \ {q})
      BY <2>3, <3>1, <3>2, PushAccounts
    <3>4. CASE task' = [task EXCEPT ![r].left = @ \ {q}] /\ UNCHANGED replayed
      <4>1. /\ task'[r].op = "reload" /\ task'[r].step = "replay"
            /\ task'[r].left = task[r].left \ {q}
            /\ \A u \in Request \ {r} : task'[u] = task[u]
        BY <1>1, <2>1, <3>2, <3>4 DEF Task
      <4> QED
        BY <2>6, <3>2, <3>3, <3>4, <4>1
    <3>5. CASE task[r].left = {q} /\ ReplayEnds(r)
      <4>1. InSync'
        BY <3>3, <3>5 DEF InSync
      <4> QED
        BY <2>5, <3>5, <4>1 DEF ReplayEnds
    <3> QED
      BY <3>1, <3>4, <3>5
  <2>9. CASE ReplayFails(r)
    <3>1. SameEntry /\ Ends(r)
      BY <2>1, <2>9 DEF ReplayFails
    <3>2. Settled'
      BY <2>2, <2>3, <3>1, EntrySettled
    <3> QED
      BY <2>4, <3>1, <3>2
  <2> QED
    BY <1>13, <2>7, <2>8, <2>9
<1>14. CASE ReplayLists(Boot) \/ ReplayPushes(Boot) \/ ReplayFails(Boot)
  <2>1. /\ task[Boot] # NoTask /\ \A r \in Request : task[r] = NoTask
        /\ task[Boot].step = "list" => loaded /\ granted = {} /\ ~replayed
        /\ task[Boot].step = "replay" =>
              loaded /\ ~replayed /\ Covers(task[Boot].left)
    BY <1>14, TaskKnown DEF ReplayLists, ReplayPushes, ReplayFails, BootInv, Replaying
  <2>2. UNCHANGED <<bundle, authority, regranted>> /\ Settled
    BY <1>1, <1>14, <2>1, IdleKnown DEF ReplayLists, ReplayPushes, ReplayFails
  <2>3. \A r \in Request : task'[r] = NoTask
    BY <1>1, <1>14, <2>1 DEF ReplayLists, ReplayPushes, ReplayFails, ReplayEnds, Ends
  <2>4. Settled'
    <3>1. CASE ReplayLists(Boot)
      <4>1. /\ granted' = {} /\ (replayed' => authority' = {})
            /\ UNCHANGED <<loaded, survived>>
        BY <2>1, <3>1 DEF ReplayLists
      <4> QED
        BY <2>2, <4>1 DEF Settled, InSync, BundleInv
    <3>2. CASE ReplayPushes(Boot)
      <4>1. PICK q \in task[Boot].left :
               Pushes({q}) /\ (UNCHANGED replayed \/ task[Boot].left = {q})
        BY <3>2 DEF ReplayPushes
      <4>2. loaded /\ ~replayed /\ Covers(task[Boot].left)
            /\ UNCHANGED <<loaded, survived>>
        BY <2>1, <3>2 DEF ReplayPushes
      <4>3. /\ granted' \cup (task[Boot].left \ {q}) \subseteq authority'
            /\ authority' \subseteq granted' \cup skipped' \cup (task[Boot].left \ {q})
        BY <2>2, <4>1, <4>2, PushAccounts
      <4>4. replayed' => InSync'
        BY <4>1, <4>2, <4>3 DEF InSync
      <4> QED
        BY <2>2, <4>2, <4>3, <4>4 DEF Settled, BundleInv
    <3>3. CASE ReplayFails(Boot)
      BY <2>2, <3>3, EntrySettled DEF ReplayFails, safelyDeactivate
    <3> QED
      BY <1>14, <3>1, <3>2, <3>3
  <2> QED
    BY <2>3, <2>4, NobodyStep
<1>15. CASE BootLoads
  <2>1. (\A r \in Request : task[r] = NoTask) /\ Settled
    BY <1>1, <1>15, IdleKnown DEF BootLoads, BootInv
  <2>2. \A r \in Request : task'[r] = NoTask
    BY <1>1, <1>15, <2>1 DEF BootLoads
  <2>3. /\ UNCHANGED <<bundle, authority, regranted>>
        /\ SameEntry \/ (NewEntry /\ bundle)
    BY <1>15 DEF BootLoads
  <2> QED
    BY <2>1, <2>2, <2>3, EntrySettled, NobodyStep
<1>16. CASE Crash
  <2>1. \A r \in Request : task'[r] = NoTask
    BY <1>16 DEF Crash
  <2>2. Settled'
    BY <1>1, <1>16 DEF Crash, NoEntry, Blank, TurnInv, Settled, BundleInv
  <2> QED
    BY <2>1, <2>2, NobodyStep
<1>17. CASE CopyBundle \/ UNCHANGED vars
  <2>1. /\ UNCHANGED <<authority, entry, task, regranted>> /\ (bundle => bundle')
    BY <1>17 DEF CopyBundle, vars
  <2>2. \A r \in Request : DoneBy(r)'
    BY <1>1, <2>1 DEF TurnInv, DoneBy, Replaying, At, Covers, InSync
  <2>3. ~survived' => RuntimeWithinAuthority'
    BY <1>1, <2>1 DEF TurnInv, RuntimeWithinAuthority, Revoking, At
  <2>4. BundleInv'
    BY <1>1, <2>1 DEF TurnInv, BundleInv
  <2> QED
    BY <1>1, <2>1, <2>2, <2>3, <2>4 DEF TurnInv, InSync
<1> QED
  BY <1>4, <1>5, <1>6, <1>7, <1>8, <1>9, <1>10, <1>11, <1>12, <1>13, <1>14,
     <1>15, <1>16, <1>17 DEF Next

-----------------------------------------------------------------------------
(* The theorems.                                                           *)

LEMMA Invariance == Spec => []IInv
<1>1. Init => IInv
  <2> SUFFICES ASSUME Init PROVE IInv
    OBVIOUS
  <2>1. \A t \in Request \cup {Boot} : task[t] = NoTask
    BY DEF Init
  <2>2. BootInv
    BY <2>1, NoTaskTyped DEF Init, BootInv, Replaying
  <2>3. TurnInv
    BY <2>1, NoTaskTyped
       DEF Init, TurnInv, BundleInv, DoneBy, Replaying, At, RuntimeWithinAuthority
  <2> QED
    BY <2>2, <2>3, TaskInit DEF IInv
<1>2. IInv /\ [Next]_vars => IInv'
  BY TaskStep, BootStep, TurnStep DEF IInv
<1> QED
  BY <1>1, <1>2, PTL DEF Spec

\* Database, registry and calls keep their types, and a plugin that is not
\* loaded has no capability in the runtime.
THEOREM TypeCorrect == Spec => []TypeOK
<1>1. IInv => TypeOK
  BY DEF IInv, TaskInv
<1> QED
  BY Invariance, <1>1, PTL

\* As long as requests take turns the runtime lets a plugin use nothing that
\* the authority does not hold, whichever call of the database or the binding
\* fails and wherever the process dies.  Excepted is the entry that a failing
\* deactivation left in place while its plugin was uninstalled.
THEOREM WithinAuthority == Spec => []WithinAuthorityInTurn
<1>1. IInv => WithinAuthorityInTurn
  BY DEF IInv, TurnInv, WithinAuthorityInTurn
<1> QED
  BY Invariance, <1>1, PTL

\* Boot, after any mixture of requests and crashes, and a reload in turn leave
\* an entry they have replayed into with the grants that the authority has, and
\* without those alone that its registry refused.
THEOREM ReplayIsExact == Spec => []ReplayedInSync
<1>1. IInv => ReplayedInSync
  BY DEF IInv, BootInv, TurnInv, ReplayedInSync
<1> QED
  BY Invariance, <1>1, PTL

\* A plugin that has been uninstalled in turn left no grants behind, at any
\* failure of the deactivation, of the purge or of the removal of its bundle,
\* unless its entry outlived the uninstall and was granted something more.
THEOREM ReinstallIsClean == Spec => []CleanReinstall
<1>1. IInv => CleanReinstall
  BY DEF IInv, TurnInv, BundleInv, CleanReinstall
<1> QED
  BY Invariance, <1>1, PTL

=============================================================================
