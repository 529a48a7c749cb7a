------------------------------- MODULE Unify -------------------------------
(***************************************************************************)
(* Unification (infer/unify.rs) on the store of inference.                 *)
(*                                                                         *)
(* A store u holds the bindings of type variables (map) and of presence    *)
(* variables (pres), the named types (defs), the next id of each kind, the *)
(* constraints still to be solved (pending), and what unification keeps    *)
(* while it runs: its nesting (depth), the pairs of bound variables it has *)
(* compared (pairs), the unfoldings it is inside of (assumed), and the     *)
(* error that ended it (err, NoError while there is none).  Every          *)
(* operation returns the store it leaves; bindings made before an error    *)
(* stay, and what follows one is not done.                                 *)
(*                                                                         *)
(* One map stands for the union-find table and the substitution that       *)
(* mirrors it: InferStore shows that the two agree, and that neither the   *)
(* direction nor the compression of a chain of variables shows.            *)
(***************************************************************************)
EXTENDS Substs

CONSTANT MAX_UNIFY_DEPTH

NoError == ""
Ok(u)      == u.err = NoError
Fail(u, e) == [u EXCEPT !.err = e]
IsFlex(t)  == t.k = "Var" /\ t.v[1] = "Flex"
FlexTail(tail) == tail.tail = "Open" /\ tail.v[1] = "Flex"

TypeDef(params, body, nominal) == [params |-> params, body |-> body, nominal |-> nominal]

NewStore(defs, next, next_pvar, next_type) ==
    [map |-> <<>>, pres |-> <<>>, defs |-> defs, next |-> next, next_pvar |-> next_pvar,
     next_type |-> next_type, detached |-> <<>>,
     pending |-> <<>>, depth |-> 0, pairs |-> {}, assumed |-> {}, err |-> NoError]

-----------------------------------------------------------------------------
(***************************************************************************)
(* Looking at the store.  RootOf is the end of a chain of variables,        *)
(* zonk_head (zonk_head_cow) the type a variable is bound to, or its root. *)
(***************************************************************************)
RECURSIVE RootOf(_, _)
RootOf(u, v) ==
    IF v \in DOMAIN u.map /\ IsFlex(u.map[v]) THEN RootOf(u, u.map[v].v) ELSE v

Resolved(u, v) == LET r == RootOf(u, v) IN IF r \in DOMAIN u.map THEN u.map[r] ELSE Var(r)
zonk_head(u, t)     == IF IsFlex(t) THEN Resolved(u, t.v) ELSE t

(***************************************************************************)
(* The union-find table of a store, the substitution it stands for, and a  *)
(* type resolved throughout (zonk).                                        *)
(***************************************************************************)
table(u) ==
    LET roots == [v \in {Flex(n) : n \in 1..(u.next - 1)} |-> RootOf(u, v)]
    IN [root |-> roots, bound |-> RestrictTo(u.map, {v \in DOMAIN u.map : roots[v] = v})]
main_subst(u) == Subst(u.map, u.pres)
resolve(u, t) == zonk(table(u), main_subst(u), t)

(***************************************************************************)
(* The two roots, where both types are variables bound to types; {} where  *)
(* they are not, or are of one class.                                      *)
(***************************************************************************)
BoundRoot(u, t) == IsFlex(t) /\ RootOf(u, t.v) \in DOMAIN u.map
bound_pair(u, a, b) ==
    IF BoundRoot(u, a) /\ BoundRoot(u, b) /\ RootOf(u, a.v) # RootOf(u, b.v)
    THEN {RootOf(u, a.v), RootOf(u, b.v)}
    ELSE {}
SameBinding(u, a, b) ==
    BoundRoot(u, a) /\ BoundRoot(u, b) /\ RootOf(u, a.v) = RootOf(u, b.v)

(***************************************************************************)
(* The occurrences of variables in a type, each with whether it is inside  *)
(* a row, first as written and then through what they are bound to.  A     *)
(* union, a module and a recursive tail's arguments are not looked into.   *)
(***************************************************************************)
RECURSIVE Places(_, _)
Places(t, in_row) ==
    CASE t.k = "Var" -> {<<t.v, in_row>>}
      [] t.k = "Row" -> UNION {Places(t.props[n].ty, TRUE) : n \in DOMAIN t.props}
                        \cup (IF t.tail.tail = "Open" THEN {<<t.tail.v, TRUE>>} ELSE {})
      [] t.k \in {"Union", "Module"} -> {}
      [] OTHER -> UNION {Places(c, in_row) : c \in ToSet(Children(t))}

RECURSIVE PlacesFrom(_, _, _)
PlacesFrom(u, front, seen) ==
    IF front = {} THEN seen
    ELSE LET next == UNION {Places(u.map[o[1]], o[2]) : o \in {p \in front : p[1] \in DOMAIN u.map}}
         IN PlacesFrom(u, next \ (seen \cup front), seen \cup front)
is_inside_row_type(u, v, t) == <<v, TRUE>> \in PlacesFrom(u, Places(t, FALSE), {})

RECURSIVE VarsFrom(_, _, _)
VarsFrom(u, front, seen) ==
    IF front = {} THEN seen
    ELSE LET next == UNION {free_vars(u.map[v]) : v \in front \cap DOMAIN u.map}
         IN VarsFrom(u, next \ (seen \cup front), seen \cup front)
occurs_in(u, v, t) == v \in VarsFrom(u, free_vars(t), {})

is_nominal_type(u, id) == id \in DOMAIN u.defs /\ u.defs[id].nominal
unroll_named(u, id, args) ==
    LET def == u.defs[id]
        n   == IF Len(def.params) < Len(args) THEN Len(def.params) ELSE Len(args)
    IN apply_subst(Subst([v \in {def.params[i] : i \in 1..n} |->
                             args[CHOOSE i \in 1..n : def.params[i] = v]], <<>>),
                   def.body)

-----------------------------------------------------------------------------
(* Presences. *)
unify_presence(u, p, q) ==
    LET p1 == resolve_presence(u, p)
        q1 == resolve_presence(u, q)
    IN CASE ~Ok(u) \/ p1 = q1 -> u
         [] p1.p = "Var" -> [u EXCEPT !.pres = (p1.v :> q1) @@ @]
         [] q1.p = "Var" -> [u EXCEPT !.pres = (q1.v :> p1) @@ @]
         [] OTHER -> Fail(u, "presence")

unify_field_flags(u, e, f) ==
    unify_presence(unify_presence(u, e.writable, f.writable), e.own, f.own)

(***************************************************************************)
(* A seeded defect: a second constraint on a bound variable is dropped.    *)
(***************************************************************************)
extend_substFirst(u, v, t) ==
    IF Ok(u) /\ v \notin DOMAIN u.map THEN [u EXCEPT !.map = (v :> t) @@ @] ELSE u

(***************************************************************************)
(* Bind a variable.  One that is bound already keeps its binding, which is *)
(* unified with the new one.                                               *)
(***************************************************************************)
RECURSIVE unify(_, _, _)
extend_subst(u, v, t) ==
    CASE ~Ok(u) -> u
      [] v \in DOMAIN u.map -> unify(u, Resolved(u, v), t)
      [] OTHER -> [u EXCEPT !.map = (v :> t) @@ @]

create_recursive_type(u, v, t) ==
    LET rec_ref == Named(u.next_type, <<>>)
        body    == apply_subst(Subst(v :> rec_ref, <<>>), t)
    IN extend_subst([u EXCEPT !.next_type = @ + 1,
                              !.defs = (u.next_type :> TypeDef(<<>>, body, FALSE)) @@ @],
                    v, rec_ref)

var_bind(u, v, t) ==
    CASE t = Var(v) -> u
      [] is_inside_row_type(u, v, t) -> create_recursive_type(u, v, t)
      [] occurs_in(u, v, t) -> Fail(u, "occurs")
      [] OTHER -> extend_subst(u, v, t)

UnifyAll(u, as, bs) == FoldLeft(LAMBDA w, i : unify(w, as[i], bs[i]), u, [i \in DOMAIN as |-> i])

(***************************************************************************)
(* What is being unfolded is assumed to hold where it is met again inside. *)
(***************************************************************************)
Assume(u, goal)     == [u EXCEPT !.assumed = @ \cup {goal}]
Discharge(u, after) == [after EXCEPT !.assumed = u.assumed]

-----------------------------------------------------------------------------
(***************************************************************************)
(* Functions.  A function without a this fits any; an arrow's fits an      *)
(* arrow's only, or a variable.                                            *)
(***************************************************************************)
unify_this(u, a, b) ==
    LET h1 == zonk_head(u, a)
        h2 == zonk_head(u, b)
        ks == {h1.k, h2.k}
    IN CASE ks = {"ArrowThis", "NewTarget"} -> Fail(u, "constructor")
         [] ks = {"ArrowThis", "Var"} -> unify(u, h1, h2)
         [] "ArrowThis" \in ks -> u
         [] OTHER -> unify(u, a, b)

unify_fn_this(u, a, b) ==
    LET h1 == zonk_head(u, a)
        h2 == zonk_head(u, b)
        ks == {h1.k, h2.k}
    IN CASE ks \in {{"ArrowThis"}, {"ArrowThis", "Error"}} -> u
         [] ks = {"ArrowThis", "NewTarget"} -> unify_this(u, h1, h2)
         [] ks = {"ArrowThis", "Var"} -> unify(u, h1, h2)
         [] "ArrowThis" \in ks -> Fail(u, "this")
         [] OTHER -> unify(u, h1, h2)

both_params(u, p, q) == unify(unify_presence(u, p.presence, q.presence), p.ty, q.ty)

(***************************************************************************)
(* A seeded defect: a parameter that only the right side has is let be.    *)
(***************************************************************************)
unify_paramLeft(u, f, g, i) ==
    CASE i \notin DOMAIN g.params -> unify_presence(u, f.params[i].presence, Abs)
      [] i \notin DOMAIN f.params -> u
      [] OTHER -> both_params(u, f.params[i], g.params[i])

unify_param(u, f, g, i) ==
    CASE i \notin DOMAIN g.params -> unify_presence(u, f.params[i].presence, Abs)
      [] i \notin DOMAIN f.params -> unify_presence(u, g.params[i].presence, Abs)
      [] OTHER -> both_params(u, f.params[i], g.params[i])

unify_functions(u, f, g) ==
    LET this == IF f.this = None \/ g.this = None THEN u
                ELSE unify_fn_this(u, f.this[1], g.this[1])
        longer == IF Len(f.params) < Len(g.params) THEN g.params ELSE f.params
        params == FoldLeft(LAMBDA w, i : unify_param(w, f, g, i), this, [i \in DOMAIN longer |-> i])
    IN unify(params, f.ret, g.ret)

-----------------------------------------------------------------------------
(* Rows. *)
Extra(r, s) == RestrictTo(s.props, DOMAIN s.props \ DOMAIN r.props)

(***************************************************************************)
(* The fields of two rows.  A field that one row lacks is absent, where    *)
(* that row is closed; otherwise it goes to that row's tail.               *)
(***************************************************************************)
unify_fields(u, r, s) ==
    LET field(w, n) ==
            CASE n \in DOMAIN r.props /\ n \in DOMAIN s.props ->
                    LET e == r.props[n]
                        f == s.props[n]
                    IN unify(unify_field_flags(unify_presence(w, e.presence, f.presence), e, f),
                             e.ty, f.ty)
              [] n \notin DOMAIN s.props /\ s.tail = Closed ->
                    unify_presence(w, r.props[n].presence, Abs)
              [] n \notin DOMAIN r.props /\ r.tail = Closed ->
                    unify_presence(w, s.props[n].presence, Abs)
              [] OTHER -> w
        names == SelectSeq(PropOrder, LAMBDA n : n \in DOMAIN r.props \cup DOMAIN s.props)
    IN FoldLeft(field, u, names)

(***************************************************************************)
(* Two open rows with different tails share what neither has: one variable *)
(* if neither extends the other, otherwise a fresh tail behind the fields  *)
(* that each lacks.                                                        *)
(***************************************************************************)
unify_open_tails(u, r, s, root1, root2) ==
    LET fresh == Flex(u.next)
        bound1 == extend_subst([u EXCEPT !.next = @ + 1], root1, Row(Extra(r, s), Open(fresh)))
    IN IF Extra(r, s) = <<>> /\ Extra(s, r) = <<>> THEN extend_subst(u, root1, Var(root2))
       ELSE extend_subst(bound1, root2, Row(Extra(s, r), Open(fresh)))

TailRoot(u, v) == LET r == RootOf(u, v) IN IF r \in DOMAIN u.map THEN v ELSE r

(***************************************************************************)
(* Two closed rows: the fields have decided.  The seeded defect compares   *)
(* their number.                                                           *)
(***************************************************************************)
closed_tailsSameLength(u, r, s) ==
    IF Cardinality(DOMAIN r.props) = Cardinality(DOMAIN s.props) THEN u ELSE Fail(u, "mismatch")
closed_tails(u, r, s) == u

unify_tails(u, r, s) ==
    LET t1 == r.tail
        t2 == s.tail
        root1 == TailRoot(u, t1.v)
        root2 == TailRoot(u, t2.v)
        goal  == <<"RowTails", {root1, root2}>>
    IN CASE ~Ok(u) -> u
         [] t1 = Closed /\ t2 = Closed -> closed_tails(u, r, s)
         [] t1.tail = "Open" /\ t1 = t2 -> u
         [] FlexTail(t1) /\ t2 = Closed -> extend_subst(u, t1.v, Row(Extra(r, s), Closed))
         [] t1 = Closed /\ FlexTail(t2) -> extend_subst(u, t2.v, Row(Extra(s, r), Closed))
         [] FlexTail(t1) /\ FlexTail(t2) ->
               IF root1 = root2 \/ goal \in u.assumed THEN u
               ELSE Discharge(u, unify_open_tails(Assume(u, goal), r, s, root1, root2))
         [] t1.tail = "Recursive" /\ t2.tail = "Recursive" /\ t1.id = t2.id ->
               LET n == IF Len(t1.ts) < Len(t2.ts) THEN Len(t1.ts) ELSE Len(t2.ts)
               IN UnifyAll(u, SubSeq(t1.ts, 1, n), SubSeq(t2.ts, 1, n))
         [] OTHER -> Fail(u, "mismatch")

unify_rows(u, r, s) == unify_tails(unify_fields(u, r, s), r, s)

(***************************************************************************)
(* An array has a length and nothing else that a row can ask for.          *)
(***************************************************************************)
unify_array_with_row(u, row) ==
    LET field(w, n) ==
            CASE ~Ok(w) -> w
              [] n = "length" -> unify(w, row.props[n].ty, Number)
              [] OTHER -> Fail(w, "property")
        w == FoldLeft(field, u, Keys(row.props))
    IN CASE ~Ok(w) \/ row.tail = Closed -> w
         [] FlexTail(row.tail) -> extend_subst(w, row.tail.v, Row(<<>>, Closed))
         [] OTHER -> Fail(w, "mismatch")

-----------------------------------------------------------------------------
(***************************************************************************)
(* Named types.  Two of one id have equal arguments.  A nominal one is     *)
(* otherwise only compared, unrolled, with a row that inference left open; *)
(* an equirecursive one stands for its definition.                         *)
(***************************************************************************)
unify_named(u, a, b) ==
    LET n1   == is_nominal_type(u, a.id)
        goal == <<"NamedPair", {a.id, b.id}>>
        w    == Assume(u, goal)
        side == IF n1 THEN b ELSE a
    IN CASE a.id = b.id ->
               IF Len(a.ts) = Len(b.ts) THEN UnifyAll(u, a.ts, b.ts) ELSE Fail(u, "mismatch")
         [] a.id # b.id /\ n1 /\ is_nominal_type(u, b.id) -> Fail(u, "mismatch")
         [] goal \in u.assumed -> u
         [] side.id \notin DOMAIN u.defs -> Fail(u, "mismatch")
         [] OTHER -> Discharge(u, IF n1 THEN unify(w, a, unroll_named(u, b.id, b.ts))
                                  ELSE unify(w, unroll_named(u, a.id, a.ts), b))

OpenRow(t) == t.k = "Row" /\ t.tail.tail = "Open"
unify_unrolled(u, named, other) ==
    LET goal == <<"NamedRow", named, other>>
    IN CASE is_nominal_type(u, named.id) /\ ~OpenRow(other) -> Fail(u, "mismatch")
         [] named.id \notin DOMAIN u.defs -> Fail(u, "mismatch")
         [] goal \in u.assumed -> u
         [] OTHER -> Discharge(u, unify(Assume(u, goal), unroll_named(u, named.id, named.ts), other))

-----------------------------------------------------------------------------
SimpleKinds == {"Number", "String", "Boolean", "Undefined", "Null", "NewTarget", "ArrowThis"}

unify_impl(u, a, b) ==
    LET ks == {a.k, b.k}
        Both(kind) == ks = {kind}
        Decide(cond) == IF cond THEN u ELSE Fail(u, "mismatch")
    IN CASE "Error" \in ks \/ (Both("Var") /\ a = b) -> u
         [] IsFlex(a) -> var_bind(u, a.v, b)
         [] IsFlex(b) -> var_bind(u, b.v, a)
         [] Both("Literal") -> Decide(a.lit = b.lit)
         [] Both("Maybe") /\ a.z = b.z -> unify(u, a.of, b.of)
         [] "Maybe" \in ks /\ "Named" \notin ks -> Fail(u, "mismatch")
         [] Both("Union") -> Decide(Len(a.ts) = Len(b.ts) /\ ToSet(a.ts) \subseteq ToSet(b.ts))
         [] "Union" \in ks -> Fail(u, "mismatch")
         [] a.k = b.k /\ a.k \in SimpleKinds -> u
         [] Both("Func") -> unify_functions(u, a, b)
         [] Both("Row") -> unify_rows(u, a, b)
         [] a.k = b.k /\ a.k \in {"Array", "Promise", "Map"} -> unify(u, a.of, b.of)
         [] ks = {"Array", "Row"} -> unify_array_with_row(u, IF a.k = "Row" THEN a ELSE b)
         [] Both("Tuple") /\ Len(a.ts) = Len(b.ts) -> UnifyAll(u, a.ts, b.ts)
         [] Both("Named") -> unify_named(u, a, b)
         [] a.k = "Named" -> unify_unrolled(u, a, b)
         [] b.k = "Named" -> unify_unrolled(u, b, a)
         [] Both("Module") -> Decide(a.source = b.source)
         [] OTHER -> Fail(u, "mismatch")

(***************************************************************************)
(* A seeded defect: compared pairs are neither forgotten nor withdrawn.    *)
(***************************************************************************)
after_unifyKept(u, pair, w) == [w EXCEPT !.depth = u.depth]

(***************************************************************************)
(* A pair that did not unify is withdrawn, and the outermost call forgets  *)
(* them all.                                                               *)
(***************************************************************************)
after_unify(u, pair, w) ==
    [w EXCEPT !.depth = u.depth,
              !.pairs = IF u.depth = 0 THEN {} ELSE IF Ok(w) THEN @ ELSE @ \ {pair}]

unify(u, a, b) ==
    LET pair == bound_pair(u, a, b)
        w    == [u EXCEPT !.depth = @ + 1,
                          !.pairs = IF pair = {} THEN @ ELSE @ \cup {pair}]
    IN CASE ~Ok(u) -> u
         [] u.depth >= MAX_UNIFY_DEPTH -> Fail(u, "depth")
         [] pair \in u.pairs \/ SameBinding(u, a, b) -> u
         [] OTHER -> after_unify(u, pair, unify_impl(w, zonk_head(u, a), zonk_head(u, b)))

(***************************************************************************)
(* restore_snapshot: bindings go back and later constraints go; what was   *)
(* compared since is not compared any more.  Named types and ids are not   *)
(* given back.                                                             *)
(***************************************************************************)
snapshot_inference(u) == [map |-> u.map, pres |-> u.pres, pending |-> Len(u.pending)]
restore_snapshot(u, snap) ==
    [u EXCEPT !.map = snap.map, !.pres = snap.pres, !.pairs = {},
              !.pending = SubSeq(@, 1, snap.pending)]

=============================================================================
