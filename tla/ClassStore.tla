----------------------------- MODULE ClassStore -----------------------------
(***************************************************************************)
(* What the union-find table means: a partition of the type variables into *)
(* classes, each with a representative and at most one type.  Reads change *)
(* nothing; a step merges two classes, gives a class its type, or replaces *)
(* an array-like row by an array; an abandoned attempt leaves no trace.    *)
(***************************************************************************)
EXTENDS Integers, Sequences

CONSTANTS Variables, Types, Row, Array, Nothing

VARIABLES
    view,    \* rep: each variable's representative; type: its class's type
    saved    \* the view as the attempts under way found it, innermost last

vars == <<view, saved>>

Init ==
    /\ view = [rep  |-> [v \in Variables |-> v],
               type |-> [v \in Variables |-> Nothing]]
    /\ saved = <<>>

Reps(w) == {v \in Variables : w.rep[v] = v}

Free(w) == {v \in Reps(w) : w.type[v] = Nothing}

(* The views in which a free class has joined another one. *)
Merged(w) ==
    {[w EXCEPT !.rep = [v \in Variables |-> IF @[v] = a THEN b ELSE @[v]]] :
        a \in Free(w), b \in Reps(w)}

(* The views in which a free class has got a type. *)
Assigned(w) == {[w EXCEPT !.type[a] = t] : a \in Free(w), t \in Types}

(* The views in which a class's row was replaced by the array, and the     *)
(* row's tail, another class, closed if it was free.                       *)
Rebound(w) ==
    UNION {{[x EXCEPT !.type[a] = Array] : x \in Assigned(w) \cup {w}} :
             a \in {v \in Reps(w) : w.type[v] = Row}}

(* A lookup, and whatever it compresses. *)
Read == UNCHANGED vars

(* Outside speculation a row may be rebound, too. *)
Write ==
    /\ saved' = saved
    /\ \E w \in {view} : view' \in
         Merged(w) \cup Assigned(w) \cup (IF saved = <<>> THEN Rebound(w) ELSE {})

Begin == view' = view /\ saved' = Append(saved, view)

Outer == SubSeq(saved, 1, Len(saved) - 1)

Abandon == saved # <<>> /\ view' = saved[Len(saved)] /\ saved' = Outer

Keep == saved # <<>> /\ view' = view /\ saved' = Outer

Next == Read \/ Write \/ Begin \/ Abandon \/ Keep

Spec == Init /\ [][Next]_vars
=============================================================================
