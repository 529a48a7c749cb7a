-------------------------------- MODULE Tidy --------------------------------
(***************************************************************************)
(* Renaming for display (types/tidy.rs): a type's variables are numbered   *)
(* in the order the printer meets them.  A TidyEnv lists the variables it  *)
(* has numbered, type and presence variables apart.                        *)
(***************************************************************************)
EXTENDS Types

TidyEnv == [type_vars |-> <<>>, presence_vars |-> <<>>]

Entered(seen, x) == IF Contains(seen, x) THEN seen ELSE Append(seen, x)
NumberOf(seen, x) == Rank(seen, x) - 1

rename_tvar(env, v) ==
    LET e == [env EXCEPT !.type_vars = Entered(@, v)]
    IN [env |-> e, out |-> <<v[1], NumberOf(e.type_vars, v)>>]
rename_presence(env, p) ==
    IF p.p # "Var" THEN [env |-> env, out |-> p]
    ELSE LET e == [env EXCEPT !.presence_vars = Entered(@, p.v)]
         IN [env |-> e, out |-> PVar(NumberOf(e.presence_vars, p.v))]

(***************************************************************************)
(* F on each of xs, the environment handed along.                          *)
(***************************************************************************)
Along(F(_, _), env, xs) ==
    FoldLeft(LAMBDA acc, x : LET r == F(acc.env, x)
                             IN [env |-> r.env, out |-> Append(acc.out, r.out)],
             [env |-> env, out |-> <<>>], xs)

(***************************************************************************)
(* A function's receiver that the printer hides is numbered after what it  *)
(* shows; a parameter's presence keeps its name.                           *)
(***************************************************************************)
ThisHidden(t) == t.this = None \/ t.this[1].k \in {"Undefined", "Var"}
ThisFirst(t)  == FALSE

RECURSIVE tidy_type(_, _)
tidy_func(env, t) ==
    LET n     == Len(t.this)
        cs    == Children(t)
        shown == SubSeq(cs, n + 1, Len(cs))
        r     == Along(tidy_type, env, IF ThisHidden(t) THEN shown \o t.this ELSE cs)
        out   == IF ThisHidden(t)
                 THEN SubSeq(r.out, Len(shown) + 1, Len(cs)) \o SubSeq(r.out, 1, Len(shown))
                 ELSE r.out
    IN [env |-> r.env, out |-> With(t, out)]

tidy_row(env, t) ==
    LET entry(e, name) ==
            LET f  == t.props[name]
                r  == tidy_type(e, f.ty)
                ps == Along(rename_presence, r.env, Presences(f))
            IN [env |-> ps.env, out |-> FieldEntry(ps.out[1], r.out, ps.out[2], ps.out[3])]
        ks    == Keys(t.props)
        r     == Along(entry, env, ks)
        props == [name \in DOMAIN t.props |-> r.out[Rank(ks, name)]]
    IN CASE t.tail.tail = "Closed" -> [env |-> r.env, out |-> Row(props, Closed)]
         [] t.tail.tail = "Open" ->
               LET v == rename_tvar(r.env, t.tail.v)
               IN [env |-> v.env, out |-> Row(props, Open(v.out))]
         [] OTHER ->
               LET ts == Along(tidy_type, r.env, t.tail.ts)
               IN [env |-> ts.env, out |-> Row(props, Recursive(t.tail.id, ts.out))]

tidy_pred(env, p) ==
    LET r == Along(tidy_type, env, p.types)
    IN [env |-> r.env, out |-> TypePred(p.class, r.out)]

(***************************************************************************)
(* A scheme's predicates, then its type; its quantifiers take the numbers  *)
(* those gave them and are listed in their order.                          *)
(***************************************************************************)
tidy_scheme(env, sc) ==
    LET ps == Along(tidy_pred, env, sc.preds)
        ty == tidy_type(ps.env, sc.ty)
        vs == Along(rename_tvar, ty.env, sc.vars)
        pv == Along(rename_presence, vs.env, [i \in DOMAIN sc.pvars |-> PVar(sc.pvars[i])])
    IN [env |-> pv.env,
        out |-> QualScheme(SortSeq(vs.out, LAMBDA a, b : a[2] < b[2]),
                           SortSeq([i \in DOMAIN pv.out |-> pv.out[i].v], <),
                           ps.out, ty.out)]

tidy_type(env, t) ==
    CASE t.k = "Var" -> LET r == rename_tvar(env, t.v) IN [env |-> r.env, out |-> Var(r.out)]
      [] t.k = "Func" -> tidy_func(env, t)
      [] t.k = "Row" -> tidy_row(env, t)
      [] t.k = "Module" ->
            LET ks == Keys(t.exports)
                r  == Along(tidy_scheme, env, [i \in DOMAIN ks |-> t.exports[ks[i]]])
            IN [env |-> r.env,
                out |-> [t EXCEPT !.exports = [n \in DOMAIN t.exports |-> r.out[Rank(ks, n)]]]]
      [] OTHER -> LET r == Along(tidy_type, env, Children(t))
                  IN [env |-> r.env, out |-> With(t, r.out)]

tidy(t) == tidy_type(TidyEnv, t).out

=============================================================================
