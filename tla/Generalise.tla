----------------------------- MODULE Generalise -----------------------------
(***************************************************************************)
(* Generalisation and instantiation (infer/state.rs): the variables of a   *)
(* type that the environment does not fix are quantified, with the pending *)
(* constraints on them; a use takes fresh ones and poses the constraints   *)
(* again.                                                                  *)
(*                                                                         *)
(* Constraints that are decided on the way once their type is known (Plus, *)
(* IndexWrite, FieldWrite, Testable) are not posed in this model, and      *)
(* closed_named, a memo of the named types with nothing left to bind, is   *)
(* left out.                                                               *)
(***************************************************************************)
EXTENDS Subsume

CONSTANT MAX_GENERALISED

Mono(t) == QualScheme(<<>>, <<>>, <<>>, t)
is_mono(sc) == sc.vars = <<>> /\ sc.pvars = <<>>

(***************************************************************************)
(* What an environment, a set of schemes, mentions (TypeEnv::free).        *)
(***************************************************************************)
env_free(env) ==
    LET Types(sc) == ToSet(SchemeTypes(sc))
    IN [vars  |-> UNION {UNION {free_vars(t) : t \in Types(sc)} \ ToSet(sc.vars) : sc \in env},
        pvars |-> UNION {UNION {free_pvars(t) : t \in Types(sc)} \ ToSet(sc.pvars) : sc \in env},
        named |-> UNION {named_ids(sc.ty) : sc \in env}]

Join(r1, r2) == [vars |-> r1.vars \cup r2.vars, pvars |-> r1.pvars \cup r2.pvars,
                 named |-> r1.named \cup r2.named]
Joined(rs) == FoldSet(Join, NoReach, rs)

(***************************************************************************)
(* What the environment's variables reach.  A presence variable is         *)
(* followed one step, to the one it is bound to.                           *)
(***************************************************************************)
EnvReach(u, free) ==
    LET next == {u.pres[p] : p \in free.pvars \cap DOMAIN u.pres}
    IN Joined({[free EXCEPT !.pvars = @ \cup PVarsOf(next)]}
              \cup {reach(main_subst(u), Var(v)) : v \in free.vars})

(***************************************************************************)
(* A named type's definition is shared by every instance: what it mentions *)
(* besides its parameters is fixed, for every named type that is met.      *)
(***************************************************************************)
Body(u, id) ==
    LET def  == u.defs[id]
        body == resolve(u, flatten(main_subst(u), def.body))
    IN [vars |-> free_vars(body) \ ToSet(def.params), pvars |-> free_pvars(body),
        named |-> named_ids(body)]
RECURSIVE WithBodies(_, _, _)
WithBodies(u, r, seen) ==
    LET met == (r.named \cap DOMAIN u.defs) \ seen
    IN IF met = {} THEN r
       ELSE WithBodies(u, Joined({r} \cup {Body(u, id) : id \in met}), seen \cup met)

(***************************************************************************)
(* Functional dependencies: the types a constraint determines once what it *)
(* depends on is fixed.                                                    *)
(***************************************************************************)
PredReaches(u, pred) == [i \in DOMAIN pred.types |-> reach(main_subst(u), pred.types[i])]
Determined(class, rs, vars) ==
    LET Fixed(i) == rs[i].vars \subseteq vars
        From(k)  == {rs[i] : i \in k..Len(rs)}
        Given(cond, what) == IF cond THEN what ELSE {}
    IN CASE class \in {"Indexable", "Strip", "Iterable"} -> Given(Fixed(1), From(2))
         [] class = "HasProp" -> Given(Fixed(1), From(3))
         [] class = "Spread" -> Given(Fixed(1) /\ Fixed(2), From(3))
         [] class = "Plus" -> {}
         [] OTHER -> Given(\E i \in DOMAIN rs : rs[i].vars \cap vars # {}, From(1))
RECURSIVE Dependencies(_, _)
Dependencies(u, r) ==
    LET found == UNION {LET c == u.pending[i]
                        IN Determined(c.class, PredReaches(u, c), r.vars) : i \in DOMAIN u.pending}
        more  == Join(r, [Joined(found) EXCEPT !.named = {}])
    IN IF more = r THEN r ELSE Dependencies(u, more)

(***************************************************************************)
(* A seeded defect: the textbook rule without its extension to the bodies  *)
(* of named types.                                                         *)
(***************************************************************************)
env_fixed_varsNoBodies(u, env, ty) == Dependencies(u, EnvReach(u, env_free(env)))

env_fixed_vars(u, env, ty) ==
    LET posed == {PredReaches(u, u.pending[i]) : i \in DOMAIN u.pending}
        named == named_ids(ty) \cup UNION {UNION {rs[i].named : i \in DOMAIN rs} : rs \in posed}
        r     == EnvReach(u, env_free(env))
    IN Dependencies(u, WithBodies(u, [r EXCEPT !.named = @ \cup named], {}))

-----------------------------------------------------------------------------
(***************************************************************************)
(* The this of callees called detached that were not known at the call:    *)
(* one still unknown, and not fixed, is Undefined, what the call passes.   *)
(* Those that are settled, or are an error, are forgotten.                 *)
(***************************************************************************)
settle_detached(u, fixed) ==
    LET settle(w, this) ==
            LET h == zonk_head(w, this)
            IN CASE h.k # "Var" -> w
                 [] h.v \in fixed -> [w EXCEPT !.detached = Append(@, this)]
                 [] OTHER -> unify(w, h, Undefined)
    IN FoldLeft(settle, [u EXCEPT !.detached = <<>>], u.detached)

Unbound(u, v)  == v[1] = "Flex" /\ zonk_head(u, Var(v)) = Var(v)
InOrder(vs)    == SetToSortSeq(vs, LAMBDA a, b : a[2] < b[2])
Ascending(ids) == SetToSortSeq(ids, <)

(***************************************************************************)
(* An Iterable whose container nothing else mentions is dropped.           *)
(***************************************************************************)
Vacuous(u, i, ty, fixed) ==
    LET c == u.pending[i]
        v == zonk_head(u, c.types[1])
        Mentions(j) == \E r \in ToSet(PredReaches(u, u.pending[j])) : v.v \in r.vars
    IN /\ c.class = "Iterable" /\ IsFlex(v)
       /\ v.v \notin free_vars(ty) \cup fixed.vars
       /\ \A j \in DOMAIN u.pending \ {i} : ~Mentions(j)

(***************************************************************************)
(* The constraints on quantified variables, and their own variables        *)
(* quantified in turn, until none is left that mentions one.               *)
(***************************************************************************)
Written(u, pred) ==
    TypePred(pred.class, [i \in DOMAIN pred.types |->
                             flatten(main_subst(u), apply_subst(main_subst(u), pred.types[i]))])
RECURSIVE TakePreds(_, _, _)
TakePreds(u, fixed, gen) ==
    LET take(g, c) ==
            LET r == Joined(ToSet(PredReaches(u, c)))
            IN IF r.vars \cap g.vars = {} THEN [g EXCEPT !.rest = Append(@, c)]
               ELSE [g EXCEPT !.preds = Append(@, Written(u, c)),
                              !.vars  = @ \cup {v \in r.vars \ fixed.vars : Unbound(u, v)},
                              !.pvars = @ \cup (r.pvars \ fixed.pvars)]
        pass == FoldLeft(take, [gen EXCEPT !.rest = <<>>], gen.rest)
    IN IF pass.rest = gen.rest THEN pass ELSE TakePreds(u, fixed, pass)

(***************************************************************************)
(* The type as the scheme holds it.  The seeded defect leaves the bound    *)
(* tails of its rows as they stand.                                        *)
(***************************************************************************)
SchemeBodyShallow(u, ty) == apply_subst(main_subst(u), ty)
SchemeBody(u, ty)        == flatten(main_subst(u), ty)

(***************************************************************************)
(* The scheme of a type, and the store with the constraints it took.  A    *)
(* type too large to write out keeps its one type.                         *)
(***************************************************************************)
generalize_seeded(u, env, ty, extra) ==
    LET written == SchemeBody(u, ty)
        fixed == env_fixed_vars(u, env, written)
        w     == settle_detached(u, fixed.vars)
        body  == IF w.map = u.map THEN written ELSE SchemeBody(w, written)
        gen   == [vars  |-> {v \in (free_vars(body) \cup extra) \ fixed.vars : Unbound(w, v)},
                  pvars |-> free_pvars(body) \ fixed.pvars,
                  preds |-> <<>>,
                  rest  |-> LET kept == SelectSeq([i \in DOMAIN w.pending |-> i],
                                                  LAMBDA i : ~Vacuous(w, i, body, fixed))
                            IN [k \in DOMAIN kept |-> w.pending[kept[k]]]]
        all   == TakePreds(w, fixed, gen)
    IN CASE flattened_size(main_subst(u), ty) > MAX_GENERALISED -> Answer(u, Mono(ty))
         [] gen.vars = {} /\ gen.pvars = {} -> Answer(w, Mono(body))
         [] OTHER -> Answer([w EXCEPT !.pending = all.rest],
                            QualScheme(InOrder(all.vars), Ascending(all.pvars),
                                       Dedup(all.preds), body))
generalize(u, env, ty) == generalize_seeded(u, env, ty, {})

-----------------------------------------------------------------------------
(***************************************************************************)
(* A use of a scheme: fresh variables, with its constraints posed on them. *)
(***************************************************************************)
instantiate(u, sc) ==
    LET n     == Len(sc.vars)
        fresh == Subst([v \in ToSet(sc.vars) |-> Var(Flex(u.next + Rank(sc.vars, v) - 1))],
                       [p \in ToSet(sc.pvars) |-> PVar(u.next_pvar + Rank(sc.pvars, p) - 1)])
        posed == [i \in DOMAIN sc.preds |->
                     TypePred(sc.preds[i].class,
                              [j \in DOMAIN sc.preds[i].types |->
                                  apply_subst(fresh, sc.preds[i].types[j])])]
    IN IF is_mono(sc) THEN Answer(u, sc.ty)
       ELSE Answer([u EXCEPT !.next = @ + n, !.next_pvar = @ + Len(sc.pvars),
                             !.pending = @ \o posed],
                   apply_subst(fresh, sc.ty))

=============================================================================
