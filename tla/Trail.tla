------------------------------- MODULE Trail -------------------------------
(***************************************************************************)
(* The undo log ("Warren's trail") that both tables of the inference state *)
(* keep: VarTable::trail over the union-find cells (infer/var_table.rs)    *)
(* and Subst::trail over the substitution (types/subst.rs).                *)
(*                                                                         *)
(* A table is a function from keys to entries.  A write logs the entry it  *)
(* overwrites; rolling back to a mark (a length of the log) pops the log   *)
(* and puts each logged entry back, newest first.                          *)
(***************************************************************************)
EXTENDS Integers, Sequences

(* A log line: the key written and what it held before. *)
Logged(f, key) == [key |-> key, prev |-> f[key]]

(* The log after the keys of the sequence ks were overwritten in turn. *)
LogAll(f, log, ks) == log \o [k \in DOMAIN ks |-> Logged(f, ks[k])]

(* The table after the keys of ks were overwritten, each with value v. *)
WriteAll(f, ks, v) ==
    [x \in DOMAIN f |-> IF \E k \in DOMAIN ks : ks[k] = x THEN v ELSE f[x]]

(***************************************************************************)
(* Line k of the log is the oldest one for key x after the mark: the last  *)
(* one a newest-first rollback puts back, so the one that decides x.       *)
(***************************************************************************)
IsOldest(log, mark, x, k) ==
    /\ k \in (mark + 1) .. Len(log)
    /\ log[k].key = x
    /\ \A j \in (mark + 1) .. (k - 1) : log[j].key # x

(* A seeded defect: a rollback that puts the lines back oldest first, so   *)
(* that the newest overwritten value wins.                                 *)
IsNewest(log, mark, x, k) ==
    /\ k \in (mark + 1) .. Len(log)
    /\ log[k].key = x
    /\ \A j \in (k + 1) .. Len(log) : log[j].key # x

UndoToOldestFirst(f, log, mark) ==
    [x \in DOMAIN f |->
        IF \E k \in 1 .. Len(log) : IsNewest(log, mark, x, k)
        THEN log[CHOOSE k \in 1 .. Len(log) : IsNewest(log, mark, x, k)].prev
        ELSE f[x]]

(* The table as the rollback loop leaves it. *)
UndoTo(f, log, mark) ==
    [x \in DOMAIN f |->
        IF \E k \in 1 .. Len(log) : IsOldest(log, mark, x, k)
        THEN log[CHOOSE k \in 1 .. Len(log) : IsOldest(log, mark, x, k)].prev
        ELSE f[x]]

(* The rollback loop itself: popped[n] is the table when n lines are left. *)
PopTo(f, log, mark) ==
    LET popped[n \in mark .. Len(log)] ==
            IF n = Len(log) THEN f
            ELSE [popped[n + 1] EXCEPT ![log[n + 1].key] = log[n + 1].prev]
    IN popped[mark]

(* The log as the rollback loop leaves it. *)
CutTo(log, mark) == SubSeq(log, 1, mark)
=============================================================================
