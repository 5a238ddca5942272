----------------------------- MODULE MCClientTab -----------------------------
(* TLC instance of ClientTab: the symmetry of its model values, and a view *)
(* that forgets what no property depends on any more.  Once handlers have  *)
(* overlapped, that is what the tab shows of the transaction, with the     *)
(* answers given on the strength of it, and the histories unseen and       *)
(* leaked; once a statement has outlived its session, the results.  No     *)
(* guard reads any of them.                                                *)
EXTENDS ClientTab, TLC

Symmetry ==
    Permutations(Session) \cup Permutations(Database) \cup Permutations(Op)

View ==
    LET Masked(field, hidden) == IF hidden THEN {} ELSE field
        Asked(o) == <<task[o].asked, task[o].status>>
    IN <<driver, tabOpen, sessionId, busy, overlapped, outlived, stranded,
         [o \in Op |-> <<task[o].kind, task[o].step, task[o].session,
                         task[o].database, Masked(Asked(o), overlapped)>>],
         Masked(<<txStatus, unseen, leaked>>, overlapped),
         Masked(results, outlived)>>

=============================================================================
