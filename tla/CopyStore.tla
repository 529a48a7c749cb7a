----------------------------- MODULE CopyStore -----------------------------
(***************************************************************************)
(* What speculation promises its callers, had it been written the obvious  *)
(* way: a snapshot is a full copy of the inference state, a restore puts   *)
(* that copy back, and nothing an attempt does touches the copies of the   *)
(* attempts around it.  (The code cloned the tables at first, which made   *)
(* checking quadratic; snapshot_inference's comment keeps that history.)   *)
(***************************************************************************)
EXTENDS Integers, Sequences

CONSTANT Fresh   \* the inference state a run starts with

VARIABLES
    store,       \* the inference state
    saved        \* the copies held by the attempts under way, innermost last

vars == <<store, saved>>

Init == store = Fresh /\ saved = <<>>

(* Inference goes on: any change to the state, none to the copies. *)
Work == saved' = saved

Begin == store' = store /\ saved' = Append(saved, store)

Outer == SubSeq(saved, 1, Len(saved) - 1)

Abandon ==
    /\ saved # <<>>
    /\ store' = saved[Len(saved)] /\ saved' = Outer

Keep ==
    /\ saved # <<>>
    /\ store' = store /\ saved' = Outer

Next == Work \/ Begin \/ Abandon \/ Keep

Spec == Init /\ [][Next]_vars
=============================================================================
