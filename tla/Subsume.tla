------------------------------ MODULE Subsume ------------------------------
(***************************************************************************)
(* What fits where (subsume), and the one type of two branches (join) or   *)
(* of two reads (union_of), in infer/state.rs.  Each tries unification and *)
(* other rules in turn and undoes every attempt that fails.                *)
(*                                                                         *)
(* Left out are the notes that explain a mismatch (row_difference,         *)
(* invariance_note): their own attempts are always undone.                 *)
(***************************************************************************)
EXTENDS Unify

add_constraint(u, pred) == [u EXCEPT !.pending = Append(@, pred)]
inject(sub, sup) == TypePred("Inject", <<sub, sup>>)

(***************************************************************************)
(* The store after an attempt w from u that failed.                        *)
(***************************************************************************)
Undone(u, w) == [restore_snapshot(w, snapshot_inference(u)) EXCEPT !.err = NoError]

IsSum(t)      == t.k \in {"Union", "Maybe"}
base_type(lit) == IF lit[1] = 0 THEN String ELSE IF lit[1] = 1 THEN Number ELSE Boolean

(***************************************************************************)
(* A union whose members typeof tells apart ("" is no answer).             *)
(***************************************************************************)
is_func(t) == t.k = "Func" \/ (t.k = "Row" /\ "call" \in DOMAIN t.props)
typeof_tag(t) ==
    LET name == [Number |-> "number", String |-> "string", Boolean |-> "boolean",
                 Undefined |-> "undefined", Array |-> "object", Tuple |-> "object",
                 Null |-> "object"]
    IN CASE t.k = "Literal" -> name[base_type(t.lit).k]
         [] is_func(t) -> "function"
         [] t.k = "Row" /\ t.tail = Closed -> "object"
         [] t.k \in DOMAIN name -> name[t.k]
         [] OTHER -> ""
is_typeof_sum(t) ==
    LET tags == {typeof_tag(m) : m \in ToSet(t.ts)}
    IN t.k = "Union" /\ Len(t.ts) > 1 /\ "" \notin tags /\ Cardinality(tags) = Len(t.ts)

RECURSIVE callable_this(_), with_callable_this(_, _)
callable_this(t) ==
    CASE t.k = "Func" -> t.this
      [] t.k = "Row" /\ is_func(t) -> callable_this(t.props["call"].ty)
      [] OTHER -> None
with_callable_this(t, this) ==
    CASE t.k = "Func" -> [t EXCEPT !.this = Some(this)]
      [] t.k = "Row" /\ is_func(t) ->
            [t EXCEPT !.props["call"].ty = with_callable_this(@, this)]
      [] OTHER -> t

-----------------------------------------------------------------------------
(***************************************************************************)
(* Subsumption.  The kind of the head of each function's this.             *)
(***************************************************************************)
ThisKind(u, t) ==
    LET this == callable_this(t) IN IF this = None THEN "none" ELSE zonk_head(u, this[1]).k

(***************************************************************************)
(* S-NoThis: a function that uses no this, as one with the slot's.         *)
(***************************************************************************)
TakesAnyThis(u, sub, sup) ==
    /\ ThisKind(u, sub) = "ArrowThis"
    /\ ThisKind(u, sup) \notin {"none", "ArrowThis", "NewTarget"}
as_method(u, sub, sup) ==
    IF TakesAnyThis(u, sub, sup)
    THEN unify(u, with_callable_this(sub, callable_this(sup)[1]), sup)
    ELSE Fail(u, "this")

(***************************************************************************)
(* S-Unroll: one of the two is an equirecursive type and stands for its    *)
(* definition.                                                             *)
(***************************************************************************)
Unrolls(u, t, other) ==
    t.k = "Named" /\ other.k # "Named" /\ ~is_nominal_type(u, t.id) /\ t.id \in DOMAIN u.defs

RECURSIVE subsume(_, _, _)

(***************************************************************************)
(* S-UnionL: every arm of a union fits, one after the other.               *)
(***************************************************************************)
every_arm(u, sub, sup) == FoldLeft(LAMBDA w, m : subsume(w, zonk_head(w, m), sup), u, sub.ts)

(***************************************************************************)
(* S-UnionR: the one arm that sub fits, each tried and undone.  A function *)
(* that fits none is compared with the one arm that is a function, for the *)
(* reason.                                                                 *)
(***************************************************************************)
Matching(u, sub, sup) ==
    SelectSeq(sup.ts, LAMBDA m : Ok(subsume(u, sub, zonk_head(u, m))))
one_arm(u, sub, sup) ==
    LET fit == Matching(u, sub, sup)
        fns == SelectSeq(sup.ts, LAMBDA m : ThisKind(u, zonk_head(u, m)) # "none"
                                            \/ zonk_head(u, m).k = "Func")
    IN CASE Len(fit) = 1 -> subsume(u, sub, zonk_head(u, fit[1]))
         [] fit = <<>> /\ callable_this(sub) # None /\ Len(fns) = 1 ->
               subsume(u, sub, zonk_head(u, fns[1]))
         [] OTHER -> Fail(u, "mismatch")

(***************************************************************************)
(* Into a sum: its nothing, a sum of the same nothing part by part, and    *)
(* whatever its value takes.  {} where none of these decides.              *)
(***************************************************************************)
into_sum(u, sub, sup) ==
    LET value == subsume(u, sub, sup.of)
    IN CASE sub = NothingType(sup.z) -> {u}
         [] sub.k = "Maybe" /\ sub.z = sup.z -> {subsume(u, sub.of, sup.of)}
         [] Ok(value) -> {value}
         [] OTHER -> {}

(***************************************************************************)
(* The rules after unification, on the heads of the two types.             *)
(***************************************************************************)
subsume_heads(u, sub, sup) ==
    LET method == as_method(u, sub, sup)
        w      == Undone(u, method)
        taken  == IF sup.k = "Maybe" THEN into_sum(w, sub, sup) ELSE {}
    IN CASE Ok(method) -> method
         [] ThisKind(u, sup) = "ArrowThis"
              /\ ThisKind(u, sub) \notin {"none", "ArrowThis", "Var", "Error"}
              /\ Ok(unify(w, with_callable_this(sub, ArrowThis), sup)) -> Fail(w, "this")
         [] Unrolls(w, sub, sup) -> subsume(w, unroll_named(w, sub.id, sub.ts), sup)
         [] Unrolls(w, sup, sub) -> subsume(w, sub, unroll_named(w, sup.id, sup.ts))
         [] taken # {} -> CHOOSE x \in taken : TRUE
         [] sub.k = "Union" -> every_arm(w, sub, sup)
         [] sup.k = "Union" -> one_arm(w, sub, sup)
         [] OTHER -> Fail(w, "mismatch")

subsume(u, a, b) ==
    LET sub   == zonk_head(u, a)
        sup   == zonk_head(u, b)
        tried == unify(u, sub, sup)
    IN CASE ~Ok(u) -> u
         [] sub.k = "Literal" /\ base_type(sub.lit) = sup -> u
         [] IsFlex(sub) /\ sup.k = "Maybe" -> add_constraint(u, inject(sub, sup))
         [] IsFlex(sub) /\ sup.k = "Union" /\ is_typeof_sum(resolve(u, sup)) ->
               add_constraint(u, inject(sub, resolve(u, sup)))
         [] Ok(tried) -> tried
         [] OTHER -> subsume_heads(Undone(u, tried), sub, sup)

subsume_either(u, a, b) ==
    LET there == subsume(u, a, b)
    IN IF Ok(there) THEN there ELSE subsume(Undone(u, there), b, a)

-----------------------------------------------------------------------------
(***************************************************************************)
(* A literal, and those directly inside a sum, a tuple or a union of       *)
(* literals, as its base type; what may be shared is left alone.           *)
(***************************************************************************)
RECURSIVE widen_fresh_literals(_)
widen_fresh_literals(t) ==
    LET Wider(ts) == [i \in DOMAIN ts |-> widen_fresh_literals(ts[i])]
    IN CASE t.k = "Literal" -> base_type(t.lit)
         [] t.k = "Maybe" -> [t EXCEPT !.of = widen_fresh_literals(@)]
         [] t.k = "Tuple" -> [t EXCEPT !.ts = Wider(@)]
         [] t.k = "Union" /\ (\A m \in ToSet(t.ts) : m.k = "Literal") -> UnionOf(Wider(t.ts))
         [] OTHER -> t

(***************************************************************************)
(* A type with its head resolved, and the heads of a sum's arms.           *)
(***************************************************************************)
RECURSIVE zonk_arms(_, _)
zonk_arms(u, t) ==
    LET h == zonk_head(u, t)
    IN CASE h.k = "Union" -> UnionOf([i \in DOMAIN h.ts |-> zonk_arms(u, h.ts[i])])
         [] h.k = "Maybe" -> UnionOf(<<NothingType(h.z), zonk_arms(u, h.of)>>)
         [] OTHER -> h

Answer(u, t) == [store |-> u, ty |-> t]

(***************************************************************************)
(* The last attempt of join: one of the two is a sum, and takes the other. *)
(***************************************************************************)
join_sum(u, t1, t2) ==
    LET first  == IF IsSum(t1) THEN subsume(u, t2, t1) ELSE Fail(u, "branches")
        w      == Undone(u, first)
        second == IF IsSum(t2) THEN subsume(w, t1, t2) ELSE Fail(w, "branches")
    IN CASE Ok(first)  -> Answer(first, zonk_head(first, t1))
         [] Ok(second) -> Answer(second, zonk_head(second, t2))
         [] OTHER -> Answer(Fail(Undone(w, second), "branches"), Error)

(***************************************************************************)
(* A seeded defect: the attempt to unify the branches is not undone.       *)
(***************************************************************************)
Widens == {"Literal", "Maybe", "Tuple", "Union"}
joinKept(u, b1, b2) ==
    LET t1    == zonk_arms(u, b1)
        t2    == zonk_arms(u, b2)
        alike == unify(u, widen_fresh_literals(t1), widen_fresh_literals(t2))
    IN IF Ok(alike) THEN Answer(alike, zonk_head(alike, widen_fresh_literals(t1)))
       ELSE join_sum([alike EXCEPT !.err = NoError], t1, t2)

(***************************************************************************)
(* The type of two branches.  One that does not complete adds nothing;     *)
(* those that widening would not change are unified as they are, others    *)
(* widened.                                                                *)
(***************************************************************************)
join(u, b1, b2) ==
    LET h1     == zonk_head(u, b1)
        h2     == zonk_head(u, b2)
        plain  == h1.k \notin Widens /\ h2.k \notin Widens
        direct == unify(u, h1, h2)
        w      == IF plain THEN Undone(u, direct) ELSE u
        t1     == zonk_arms(w, b1)
        t2     == zonk_arms(w, b2)
        alike  == unify(w, widen_fresh_literals(t1), widen_fresh_literals(t2))
    IN CASE h1 = never -> Answer(u, h2)
         [] h2 = never -> Answer(u, h1)
         [] plain /\ Ok(direct) -> Answer(direct, zonk_head(direct, h1))
         [] t1 = t2 -> Answer(w, t1)
         [] Ok(alike) -> Answer(alike, zonk_head(alike, widen_fresh_literals(t1)))
         [] OTHER -> join_sum(Undone(w, alike), t1, t2)

(***************************************************************************)
(* The type of a read from either of two: one of them, what they unify to, *)
(* or their union, in which a literal goes with its base type.             *)
(***************************************************************************)
normalise_union_members(ts) ==
    UnionOf(SelectSeq(ts, LAMBDA t : t.k = "Literal" => base_type(t.lit) \notin ToSet(ts)))
Members(t) == IF t.k = "Union" THEN t.ts ELSE <<t>>

union_of(u, a, b) ==
    LET t1    == zonk_arms(u, a)
        t2    == zonk_arms(u, b)
        alike == unify(u, t1, t2)
        Base(s, t) == s.k = "Literal" /\ base_type(s.lit) = t
    IN CASE t1 = t2 \/ Base(t2, t1) -> Answer(u, t1)
         [] Base(t1, t2) -> Answer(u, t2)
         [] "Union" \in {t1.k, t2.k} -> Answer(u, normalise_union_members(Members(t1) \o Members(t2)))
         [] Ok(alike) -> Answer(alike, zonk_head(alike, t1))
         [] OTHER -> Answer(Undone(u, alike), normalise_union_members(<<t1, t2>>))

=============================================================================
