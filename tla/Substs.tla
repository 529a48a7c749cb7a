------------------------------- MODULE Substs -------------------------------
(***************************************************************************)
(* The walks of a type through what inference has bound: applying a        *)
(* substitution, flattening it for a printer, measuring and searching that *)
(* flattening without building it (types/subst.rs), and resolving against  *)
(* the union-find table (infer/zonk.rs).                                   *)
(*                                                                         *)
(* A substitution s maps type variables (s.map) and presence variables     *)
(* (s.pres).  A table tab gives each variable of its range its root        *)
(* (tab.root) and some roots a type (tab.bound).                           *)
(***************************************************************************)
EXTENDS Types

CONSTANT DepthLimit

Subst(map, pres) == [map |-> map, pres |-> pres]

apply_presence(s, p) ==
    IF p.p = "Var" /\ p.v \in DOMAIN s.pres THEN s.pres[p.v] ELSE p

RECURSIVE ResolveFrom(_, _, _)
ResolveFrom(s, p, visited) ==
    IF p.p = "Var" /\ p.v \notin visited /\ p.v \in DOMAIN s.pres
    THEN ResolveFrom(s, s.pres[p.v], visited \cup {p.v})
    ELSE p
resolve_presence(s, p) == ResolveFrom(s, p, {})

MapEntry(e, F(_)) ==
    FieldEntry(F(e.presence), e.ty, F(e.writable), F(e.own))
MapPresences(t, F(_)) ==
    CASE t.k = "Func" -> [t EXCEPT !.params = [i \in DOMAIN t.params |->
                             FuncParam(F(t.params[i].presence), t.params[i].ty)]]
      [] t.k = "Row"  -> [t EXCEPT !.props = [n \in DOMAIN t.props |-> MapEntry(t.props[n], F)]]
      [] OTHER        -> t

MapTail(t, F(_)) == IF t.k = "Row" THEN [t EXCEPT !.tail = F(@)] ELSE t
MapSeq(cs, F(_)) == [i \in DOMAIN cs |-> F(cs[i])]

Rebuild(t, cs) == IF t.k = "Union" THEN UnionOf(cs) ELSE With(t, cs)
RestrictTo(f, S) == [x \in DOMAIN f \cap S |-> f[x]]
MapScheme(sc, F(_)) ==
    [sc EXCEPT !.ty = F(sc.ty),
               !.preds = [i \in DOMAIN sc.preds |->
                   TypePred(sc.preds[i].class,
                            [j \in DOMAIN sc.preds[i].types |-> F(sc.preds[i].types[j])])]]

-----------------------------------------------------------------------------
(***************************************************************************)
(* Type::apply_subst at depth d.  A row's tail follows one binding, and    *)
(* only to another variable; past the depth limit the walk gives up.       *)
(***************************************************************************)
TailOnce(s, tail) ==
    IF tail.tail = "Open" /\ tail.v \in DOMAIN s.map /\ s.map[tail.v].k = "Var"
    THEN Open(s.map[tail.v].v)
    ELSE tail

remove_vars(s, vars) == [s EXCEPT !.map = RestrictTo(s.map, DOMAIN s.map \ ToSet(vars))]

RECURSIVE ApplyAt(_, _, _)
ApplyAt(s, t, d) ==
    LET Below(c) == ApplyAt(s, c, d + 1)
    IN CASE d >= DepthLimit -> Error
         [] t.k = "Var" -> IF t.v \in DOMAIN s.map THEN Below(s.map[t.v]) ELSE t
         [] t.k = "Module" ->
               [t EXCEPT !.exports = [n \in DOMAIN t.exports |->
                   LET sc == t.exports[n]
                       InBody(c) == ApplyAt(remove_vars(s, sc.vars), c, d + 1)
                   IN MapScheme(sc, InBody)]]
         [] OTHER ->
               MapTail(MapPresences(Rebuild(t, MapSeq(Children(t), Below)),
                                    LAMBDA p : apply_presence(s, p)),
                       LAMBDA tail : TailOnce(s, tail))
apply_subst(s, t) == ApplyAt(s, t, 0)

-----------------------------------------------------------------------------
(***************************************************************************)
(* Subst::flatten.  Every occurrence of a bound variable is written out    *)
(* and a bound tail is merged into its row; a cycle is cut where it        *)
(* closes, and what was written around a cut is not kept for the next      *)
(* occurrence.  With a budget, a bound variable met once that many nodes   *)
(* are written is left out (Elided), unless it is a row's tail.            *)
(***************************************************************************)
Elided   == Named(ElidedId, <<>>)
NoBudget == None

Kept(memo, v, x) == [w \in DOMAIN memo \cup {v} |-> IF w = v THEN x ELSE memo[w]]

SizeOnce(n)  == 0
SizeAgain(n) == n

RECURSIVE size_of(_, _, _, _)
RECURSIVE size_of_var(_, _, _, _)
SizeOfAll(s, ts, memo, busy) ==
    FoldLeft(LAMBDA acc, t : LET r == size_of(s, t, acc.memo, busy)
                             IN [n |-> acc.n + r.n, memo |-> r.memo],
             [n |-> 1, memo |-> memo], ts)
size_of(s, t, memo, busy) ==
    IF t.k = "Var" THEN size_of_var(s, t.v, memo, busy)
    ELSE LET parts == IF t.k = "Row"
                      THEN [i \in DOMAIN Keys(t.props) |-> t.props[Keys(t.props)[i]].ty]
                      ELSE Children(t)
             r     == SizeOfAll(s, parts, memo, busy)
             tail  == CASE t.k # "Row" \/ t.tail.tail = "Closed" -> [n |-> 0, memo |-> r.memo]
                        [] t.tail.tail = "Open" -> size_of_var(s, t.tail.v, r.memo, busy)
                        [] OTHER -> SizeOfAll(s, t.tail.ts, r.memo, busy)
         IN [n |-> r.n + tail.n, memo |-> tail.memo]
size_of_var(s, v, memo, busy) ==
    CASE v \notin DOMAIN s.map -> [n |-> 1, memo |-> memo]
      [] v \in DOMAIN memo     -> [n |-> memo[v], memo |-> memo]
      [] v \in busy            -> [n |-> 1, memo |-> memo]
      [] OTHER -> LET r == size_of(s, s.map[v], memo, busy \cup {v})
                  IN [n |-> r.n, memo |-> Kept(r.memo, v, SizeAgain(r.n))]
NoMemo == [v \in {} |-> 0]
flattened_size(s, t) == size_of(s, t, NoMemo, {}).n

RememberCut(st, v, flat, before) ==
    [st EXCEPT !.busy = @ \ {v}, !.memo = Kept(@, v, flat)]
Remember(st, v, flat, before) ==
    [st EXCEPT !.busy = @ \ {v},
               !.memo = IF st.cuts = before THEN Kept(@, v, flat) ELSE @]

RECURSIVE flatten_type(_, _, _)
RECURSIVE flatten_var(_, _, _, _)
FlattenAll(s, ts, st) ==
    FoldLeft(LAMBDA acc, t : LET r == flatten_type(s, t, acc.st)
                             IN [tys |-> Append(acc.tys, r.ty), st |-> r.st],
             [tys |-> <<>>, st |-> st], ts)
flatten_var(s, v, tail, st) ==
    CASE v \notin DOMAIN s.map -> [ty |-> Var(v), st |-> st]
      [] /\ v \in DOMAIN s.map
         /\ st.budget # NoBudget /\ st.written >= st.budget[1] /\ ~tail ->
            [ty |-> Elided, st |-> st]
      [] v \in DOMAIN st.memo ->
            [ty |-> st.memo[v],
             st |-> [st EXCEPT !.written = IF st.budget = NoBudget THEN @
                                           ELSE @ + flattened_size(s, st.memo[v])]]
      [] v \in st.busy -> [ty |-> Var(v), st |-> [st EXCEPT !.cuts = @ + 1]]
      [] OTHER -> LET r == flatten_type(s, s.map[v], [st EXCEPT !.busy = @ \cup {v}])
                  IN [ty |-> r.ty, st |-> Remember(r.st, v, r.ty, st.cuts)]

MergeTail(row, rest) ==
    CASE rest.k = "Row" ->
            Row([n \in DOMAIN row.props \cup DOMAIN rest.props |->
                    IF n \in DOMAIN row.props THEN row.props[n] ELSE rest.props[n]],
                rest.tail)
      [] rest.k = "Var" -> [row EXCEPT !.tail = Open(rest.v)]
      [] OTHER -> row
flatten_type(s, t, st0) ==
    LET st == [st0 EXCEPT !.written = @ + 1]
        Deep(p) == resolve_presence(s, p)
    IN IF t.k = "Var" THEN flatten_var(s, t.v, FALSE, st)
       ELSE LET r    == FlattenAll(s, Children(t), st)
                flat == MapPresences(Rebuild(t, r.tys), Deep)
            IN IF t.k = "Row" /\ t.tail.tail = "Open"
               THEN LET rest == flatten_var(s, t.tail.v, TRUE, r.st)
                    IN [ty |-> MergeTail(flat, rest.ty), st |-> rest.st]
               ELSE [ty |-> flat, st |-> r.st]

FlattenState(budget) ==
    [busy |-> {}, memo |-> NoMemo, cuts |-> 0, written |-> 0, budget |-> budget]
flatten(s, t) == flatten_type(s, t, FlattenState(NoBudget)).ty
flatten_bounded(s, t, budget) == flatten_type(s, t, FlattenState(Some(budget))).ty

-----------------------------------------------------------------------------
(***************************************************************************)
(* Subst::reach: what flatten's result mentions, each binding walked once. *)
(***************************************************************************)
NoReach == [vars |-> {}, pvars |-> {}, named |-> {}]
Meets(r, v) == [r EXCEPT !.into.vars = @ \cup {v}]

RECURSIVE reach_type(_, _, _)
reach_var(s, v, r) ==
    CASE v \notin DOMAIN s.map -> [r EXCEPT !.into.vars = @ \cup {v}]
      [] v \in r.done -> r
      [] v \in r.busy -> Meets(r, v)
      [] OTHER -> [reach_type(s, s.map[v], [r EXCEPT !.busy = @ \cup {v}])
                     EXCEPT !.busy = @ \ {v}, !.done = @ \cup {v}]
ReachAll(s, ts, r) == FoldLeft(LAMBDA acc, t : reach_type(s, t, acc), r, ts)
ReachPresences(s, ps, r) ==
    [r EXCEPT !.into.pvars = @ \cup PVarsOf({resolve_presence(s, p) : p \in ps})]
ReachTail(s, row, r) ==
    LET v == row.tail.v IN
    CASE row.tail.tail # "Open" -> r
      [] v \notin DOMAIN s.map \/ s.map[v].k \in {"Row", "Var"} -> reach_var(s, v, r)
      [] OTHER -> Meets(r, v)
reach_type(s, t, r) ==
    CASE t.k = "Var" -> reach_var(s, t.v, r)
      [] t.k = "Module" -> [r EXCEPT !.into.vars = @ \cup free_vars(t),
                                     !.into.pvars = @ \cup free_pvars(t)]
      [] OTHER ->
            LET named == (IF t.k = "Named" THEN {t.id} ELSE {})
                         \cup (IF t.k = "Row" /\ t.tail.tail = "Recursive" THEN {t.tail.id} ELSE {})
                below == ReachAll(s, Children(t), ReachPresences(s, OwnPresences(t), r))
                r2    == [below EXCEPT !.into.named = @ \cup named]
            IN IF t.k = "Row" THEN ReachTail(s, t, r2) ELSE r2
reach(s, t) == reach_type(s, t, [into |-> NoReach, done |-> {}, busy |-> {}]).into

-----------------------------------------------------------------------------
(***************************************************************************)
(* infer/zonk.rs.  A bound root is out of the table (out) while its type   *)
(* is walked, so a cycle reads as a free variable.  A scheme's quantified  *)
(* variables are opaque; its rows keep their presences, and a tail whose   *)
(* class is bound keeps its own variable.                                  *)
(***************************************************************************)
InTable(tab, v) == v[1] = "Flex" /\ v \in DOMAIN tab.root
ZonkTailFree(tab, tail) ==
    IF tail.tail = "Open" /\ InTable(tab, tail.v) /\ tab.root[tail.v] \notin DOMAIN tab.bound
    THEN Open(tab.root[tail.v]) ELSE tail

(***************************************************************************)
(* A seeded defect: a bound tail becomes the tail of its row, and the      *)
(* row's fields are lost.                                                  *)
(***************************************************************************)
ZonkTailThrough(tab, tail) ==
    IF tail.tail = "Open" /\ InTable(tab, tail.v)
    THEN LET root == tab.root[tail.v]
         IN IF root \in DOMAIN tab.bound /\ tab.bound[root].k = "Row" THEN tab.bound[root].tail
            ELSE Open(root)
    ELSE tail
ZonkTail(tab, tail) ==
    IF tail.tail = "Open" /\ InTable(tab, tail.v) THEN Open(tab.root[tail.v]) ELSE tail

RECURSIVE ZonkFiltered(_, _, _, _, _)
ZonkFiltered(tab, s, t, quantified, d) ==
    LET Below(c) == ZonkFiltered(tab, s, c, quantified, d + 1)
        Step(p)  == apply_presence(s, p)
    IN CASE d >= DepthLimit -> Error
         [] t.k = "Var" ->
               IF t.v \in ToSet(quantified) \/ ~InTable(tab, t.v) THEN t
               ELSE IF tab.root[t.v] \in DOMAIN tab.bound THEN Below(tab.bound[tab.root[t.v]])
               ELSE Var(tab.root[t.v])
         [] OTHER ->
               LET Ending(tail) == IF tail.tail = "Open" /\ tail.v \in ToSet(quantified) THEN tail
                                 ELSE ZonkTailFree(tab, tail)
                   ParamsOnly(p) == IF t.k = "Func" THEN apply_presence(s, p) ELSE p
               IN MapTail(MapPresences(Rebuild(t, MapSeq(Children(t), Below)), ParamsOnly), Ending)
zonk_scheme(tab, s, sc, d) ==
    LET InBody(c) == ZonkFiltered(tab, s, c, sc.vars, d) IN MapScheme(sc, InBody)

RECURSIVE ZonkAt(_, _, _, _, _)
ZonkAt(tab, s, t, out, d) ==
    LET Below(c) == ZonkAt(tab, s, c, out, d + 1)
        Step(p)  == apply_presence(s, p)
        root     == tab.root[t.v]
    IN CASE d >= DepthLimit -> Error
         [] t.k = "Var" /\ ~InTable(tab, t.v) -> t
         [] t.k = "Var" ->
               IF root \in DOMAIN tab.bound \ out
               THEN ZonkAt(tab, s, tab.bound[root], out \cup {root}, d + 1)
               ELSE Var(root)
         [] t.k = "Module" ->
               [t EXCEPT !.exports = [n \in DOMAIN t.exports |->
                                         zonk_scheme(tab, s, t.exports[n], d + 1)]]
         [] OTHER ->
               MapTail(MapPresences(Rebuild(t, MapSeq(Children(t), Below)), Step),
                       LAMBDA tail : ZonkTail(tab, tail))
zonk(tab, s, t) == ZonkAt(tab, s, t, {}, 0)

(***************************************************************************)
(* The substitution that says what a table does (zonk.rs, the tests'       *)
(* subst_from_table).                                                      *)
(***************************************************************************)
subst_from_table(tab) ==
    [v \in {w \in DOMAIN tab.root : tab.root[w] # w} \cup DOMAIN tab.bound |->
        IF tab.root[v] # v THEN Var(tab.root[v]) ELSE tab.bound[v]]

=============================================================================
