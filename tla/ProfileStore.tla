---------------------------- MODULE ProfileStore ----------------------------
(***************************************************************************)
(* The connection profiles of the web edition: profiles.json, rewritten as *)
(* a whole by every operation of server/src/profiles/store.ts.  Each       *)
(* operation reads the list, computes the next list and publishes it by    *)
(* writing <path>.tmp and renaming it over <path>.  Nothing serialises two *)
(* operations, and every await is a point where another one runs: the      *)
(* actions below are the file-system calls between those awaits.           *)
(*                                                                         *)
(* A name leads to an inode, so that a writer which opened <path>.tmp goes *)
(* on writing the same file after somebody else renamed it.                *)
(*                                                                         *)
(* Names that Sessions has as well carry a prefix of their own, so that    *)
(* StoresProofs can extend both.                                           *)
(***************************************************************************)
EXTENDS Naturals

CONSTANTS
    Profile,   \* profile ids
    Writer,    \* operations in flight at the same time
    Inode,     \* files: the two named ones and one per writer is enough
    NoInode,   \* what a name leads to when there is no such file
    Absent,    \* the entry of a profile that is not in a list
    MaxTime    \* bound on the clock that createdAt is taken from

Entry == [createdAt : 0..MaxTime, lastUsedAt : BOOLEAN, lastDisconnectedAt : BOOLEAN]

ASSUME ProfileStoreAssumption ==
    /\ Profile # {}
    /\ Absent \notin Entry
    /\ NoInode \notin Inode
    /\ MaxTime \in Nat \ {0}

VARIABLES
    path,      \* the inode profiles.json leads to
    tmp,       \* the inode profiles.json.tmp leads to
    disk,      \* what each inode holds
    op,        \* the operation each writer is executing
    now,       \* the clock
    saved      \* history: profiles whose last save succeeded, not deleted since

profileVars == <<path, tmp, disk, op, now, saved>>

List == [Profile -> Entry \cup {Absent}]
NoProfiles == [p \in Profile |-> Absent]

\* An inode is empty after open truncated it, torn when two writers' texts
\* of different length overlap in it, or holds the text of one list.
File == [state : {"empty", "torn", "whole"}, list : List]
EmptyFile == [state |-> "empty", list |-> NoProfiles]

Op == [kind : {"none", "save", "touch", "touchDisconnected", "delete"},
       id   : Profile,
       step : {"read", "open", "write", "rename"},
       list : List,
       fd   : Inode \cup {NoInode}]

Idle(w) == op[w].kind = "none"
At(w, step) == ~Idle(w) /\ op[w].step = step

NoOp(id) == [kind |-> "none", id |-> id, step |-> "read",
             list |-> NoProfiles, fd |-> NoInode]

ProfilesTypeOK ==
    /\ path \in Inode \cup {NoInode}
    /\ tmp \in Inode \cup {NoInode}
    /\ path = tmp => path = NoInode
    /\ disk \in [Inode -> File]
    /\ op \in [Writer -> Op]
    /\ now \in 1..MaxTime
    /\ saved \subseteq Profile

AnyProfile == CHOOSE p \in Profile : TRUE

ProfilesInit ==
    /\ path = NoInode
    /\ tmp = NoInode
    /\ disk = [i \in Inode |-> EmptyFile]
    /\ op = [w \in Writer |-> NoOp(AnyProfile)]
    /\ now = 1
    /\ saved = {}

-----------------------------------------------------------------------------
(* What each operation makes of the list it read.                          *)

\* Mutant: the new list is the saved profile alone.
SaveDropsOthers(all, id) ==
    [NoProfiles EXCEPT ![id] =
        [createdAt          |-> IF all[id] # Absent THEN all[id].createdAt ELSE now,
         lastUsedAt         |-> all[id] # Absent /\ all[id].lastUsedAt,
         lastDisconnectedAt |-> all[id] # Absent /\ all[id].lastDisconnectedAt]]

\* The entry is replaced in place or appended; an edit keeps the stamps of
\* the entry it replaces.
Save(all, id) ==
    [all EXCEPT ![id] =
        [createdAt          |-> IF all[id] # Absent /\ all[id].createdAt > 0
                                THEN all[id].createdAt ELSE now,
         lastUsedAt         |-> all[id] # Absent /\ all[id].lastUsedAt,
         lastDisconnectedAt |-> all[id] # Absent /\ all[id].lastDisconnectedAt]]

TouchConnected(all, id) == [all EXCEPT ![id].lastUsedAt = TRUE]
TouchDisconnected(all, id) == [all EXCEPT ![id].lastDisconnectedAt = TRUE]
Delete(all, id) == [all EXCEPT ![id] = Absent]

\* Only save writes for an id it did not find.
WritesBack(kind, all, id) == kind = "save" \/ all[id] # Absent

Updated(kind, all, id) ==
    CASE kind = "save"              -> Save(all, id)
      [] kind = "touch"             -> TouchConnected(all, id)
      [] kind = "touchDisconnected" -> TouchDisconnected(all, id)
      [] kind = "delete"            -> Delete(all, id)

-----------------------------------------------------------------------------

Ends(w) == op' = [op EXCEPT ![w] = NoOp(AnyProfile)]

\* A route calls the store.  The touch after a connect is not awaited by
\* its route, so it overlaps whatever the same client asks for next.
Begin(w, kind, id) ==
    /\ Idle(w)
    /\ op' = [op EXCEPT ![w] = [NoOp(id) EXCEPT !.kind = kind]]
    /\ saved' = IF kind = "delete" THEN saved \ {id} ELSE saved
    /\ UNCHANGED <<path, tmp, disk, now>>

\* list(): no file is an empty list, a text that does not parse throws.
ListIsReadable == path # NoInode => disk[path].state = "whole"
list == IF path = NoInode THEN NoProfiles ELSE disk[path].list

Read(w) ==
    /\ At(w, "read")
    /\ \/ /\ ListIsReadable
          /\ WritesBack(op[w].kind, list, op[w].id)
          /\ op[w].kind = "save" => now < MaxTime
          /\ now' = IF op[w].kind = "save" THEN now + 1 ELSE now
          /\ op' = [op EXCEPT ![w].step = "open",
                              ![w].list = Updated(op[w].kind, list, op[w].id)]
       \/ /\ ~ListIsReadable \/ ~WritesBack(op[w].kind, list, op[w].id)
          /\ Ends(w)
          /\ UNCHANGED now
    /\ UNCHANGED <<path, tmp, disk, saved>>

InUse(i) == i \in {path, tmp} \/ \E w \in Writer : op[w].fd = i

\* Mutant: the file itself is opened for writing, not a temporary one.
OpenTmpInPlace(w) ==
    /\ At(w, "open")
    /\ \E i \in Inode :
          /\ IF path = NoInode THEN ~InUse(i) ELSE i = path
          /\ path' = i
          /\ tmp' = i
          /\ disk' = [disk EXCEPT ![i] = EmptyFile]
          /\ op' = [op EXCEPT ![w].step = "write", ![w].fd = i]
    /\ UNCHANGED <<now, saved>>

\* writeFile opens <path>.tmp, creating it or truncating what is there.
OpenTmp(w) ==
    /\ At(w, "open")
    /\ \E i \in Inode :
          /\ IF tmp = NoInode THEN ~InUse(i) ELSE i = tmp
          /\ tmp' = i
          /\ disk' = [disk EXCEPT ![i] = EmptyFile]
          /\ op' = [op EXCEPT ![w].step = "write", ![w].fd = i]
    /\ UNCHANGED <<path, now, saved>>

\* writeFile writes from the start of the file: over another writer's text
\* it leaves that text's tail, unless its own text is at least as long.
WriteTmp(w) ==
    /\ At(w, "write")
    /\ \E f \in {[state |-> "whole", list |-> op[w].list],
                 [state |-> "torn", list |-> NoProfiles]} :
          /\ disk[op[w].fd].state = "empty" => f.state = "whole"
          /\ disk' = [disk EXCEPT ![op[w].fd] = f]
    /\ op' = [op EXCEPT ![w].step = "rename", ![w].fd = NoInode]
    /\ UNCHANGED <<path, tmp, now, saved>>

\* The rename publishes whatever <path>.tmp leads to, and fails when another
\* writer has renamed it already.  The file it replaces goes when nobody
\* has it open.
Rename(w) ==
    /\ At(w, "rename")
    /\ IF tmp = NoInode
       THEN UNCHANGED <<path, tmp, disk, saved>>
       ELSE /\ path' = tmp
            /\ tmp' = NoInode
            /\ disk' = [i \in Inode |->
                          IF i = path /\ \A v \in Writer : op[v].fd # i
                          THEN EmptyFile ELSE disk[i]]
            /\ saved' = IF op[w].kind = "save" THEN saved \cup {op[w].id} ELSE saved
    /\ Ends(w)
    /\ UNCHANGED now

\* The process dies; both files stay as they are.
Crash ==
    /\ \E w \in Writer : ~Idle(w)
    /\ op' = [w \in Writer |-> NoOp(AnyProfile)]
    /\ UNCHANGED <<path, tmp, disk, now, saved>>

ProfilesNext ==
    \/ \E w \in Writer :
          \/ \E id \in Profile :
                \/ Begin(w, "save", id) \/ Begin(w, "delete", id)
                \/ Begin(w, "touch", id) \/ Begin(w, "touchDisconnected", id)
          \/ Read(w) \/ OpenTmp(w) \/ WriteTmp(w) \/ Rename(w)
    \/ Crash

ProfilesSpec == ProfilesInit /\ [][ProfilesNext]_profileVars

-----------------------------------------------------------------------------
(* Properties.                                                             *)

\* Every reader of profiles.json finds the complete text of one list, also
\* after a crash in the middle of an operation.
PublishedIsWhole == ListIsReadable

\* A profile whose save was answered is listed until somebody deletes it.
SavedIsListed == ListIsReadable => \A p \in saved : list[p] # Absent

\* "No-op when the id is unknown": the stamp of a connect or a disconnect
\* never puts a profile back into the file.
TouchIsNoopWhenUnknown ==
    [][\A w \in Writer :
          LET p == op[w].id IN
             /\ op[w].kind \in {"touch", "touchDisconnected"}
             /\ At(w, "rename") /\ op'[w] # op[w] /\ path' # path
             /\ disk[tmp].list = op[w].list
             /\ ListIsReadable /\ list[p] = Absent /\ ListIsReadable'
          => list'[p] = Absent]_profileVars

=============================================================================
