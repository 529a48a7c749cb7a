------------------------------ MODULE MCTypes ------------------------------
(***************************************************************************)
(* The stores that unification builds, from no binding at all: a step      *)
(* unifies two of a few types, saves the store or goes back to the saved   *)
(* one.  The last step asks: unification again about what it has accepted, *)
(* and every walk of a type about the same few types.  The properties are  *)
(* of that step.                                                           *)
(*                                                                         *)
(* Every row variable goes with one set of fields, as in the rows that     *)
(* inference makes: 3, 4 and 6 follow x, so that a tail can be bound to a   *)
(* tail that is bound to a third, and 5 follows length.                    *)
(***************************************************************************)
EXTENDS Generalise, Tidy

CONSTANTS Asked,      \* the types that are unified
          Flows,      \* the pairs that subsumption is asked about
          Branches,   \* the types that are joined
          Scope,      \* the types an environment may give a name
          MaxCalls,   \* calls of unify and of subsume
          FewCalls,   \* calls up to which joins and schemes are asked for
          SaveAfter,  \* the numbers of calls after which the store is saved
          Budgets     \* the printer's budgets to try

VARIABLES store,      \* the store of inference
          solved,     \* the pairs unified so far
          saved,      \* the snapshot held, with the pairs unified by then
          calls,
          asked

vars == <<store, solved, saved, calls, asked>>

MCPropOrder == <<"call", "iter", "length", "x", "y">>

v1 == Flex(1)
v2 == Flex(2)

Brand == 1
MCDefs ==
    Brand :> TypeDef(<<>>, Row([x |-> getter(Number), y |-> pre(String)], Closed), TRUE)

Settable == Row([x |-> FieldEntry(PVar(1), Var(v2), PVar(3), Pre)], Open(Flex(4)))
MCAsked ==
    {Var(v1), Array(Var(v1)), Settable,
     Row([x |-> pre(Var(v1))], Open(Flex(3))),
     Row([length |-> pre(Var(v1))], Open(Flex(5))),
     Row([x |-> getter(Number), y |-> FieldEntry(PVar(2), String, Pre, Pre)], Closed),
     Row([x |-> getter(Number)], Closed),
     raw_func(Some(Var(v1)), <<required(Number), optional(2, Var(v2))>>, Var(v2)),
     raw_func(Some(ArrowThis), <<required(Var(v2))>>, Number),
     Named(Brand, <<>>)}

(***************************************************************************)
(* A literal and a sum flow into a variable, a variable into a sum, and an *)
(* open row into one with a tail of its own.                               *)
(***************************************************************************)
One     == Literal(<<1, 1>>)
Maybe2  == Maybe("Undefined", Var(v2))
Sink    == Row([x |-> pre(Var(v2))], Open(Flex(6)))
MCFlows ==
    {<<Var(v1), Maybe2>>, <<Maybe2, Var(v1)>>, <<One, Var(v1)>>, <<Settable, Sink>>}

MCBranches ==
    {One, Number, Undefined, Var(v1), Maybe2, Union(<<Number, String>>), Tuple(<<One, Var(v2)>>),
     Tuple(<<Var(v1), String>>), never}

MCScope == {Var(v1), Array(Var(v2)), raw_func(None, <<optional(1, Number)>>, Number)}

(***************************************************************************)
(* Three functions whose parameter has a default, one of them in scope.    *)
(***************************************************************************)
MCOptionals == {raw_func(None, <<optional(i, Number)>>, Number) : i \in 1..3}

(***************************************************************************)
(* A for...of over a value of type v1, and a call of an unknown function,  *)
(* detached, whose this is v2.                                             *)
(***************************************************************************)
Posed == <<TypePred("Iterable", <<Var(v1), Var(v2)>>)>>

NoSave == [map |-> <<>>, pres |-> <<>>, pending |-> 0, solved |-> {}]

Init ==
    /\ store = [NewStore(MCDefs, 7, 4, 2) EXCEPT !.pending = Posed, !.detached = <<Var(v2)>>]
    /\ solved = {} /\ saved = NoSave /\ calls = 0 /\ asked = FALSE

Working == ~asked /\ UNCHANGED asked

(***************************************************************************)
(* A failed call leaves the bindings it made; its error is reported.       *)
(***************************************************************************)
Unify(a, b) ==
    /\ Working
    /\ calls < MaxCalls
    /\ LET w == unify(store, a, b)
       IN /\ store' = [w EXCEPT !.err = NoError]
          /\ solved' = IF Ok(w) THEN solved \cup {<<a, b>>} ELSE solved
    /\ calls' = calls + 1
    /\ UNCHANGED saved

Flow(sub, sup) ==
    /\ Working
    /\ calls < MaxCalls
    /\ store' = [subsume(store, sub, sup) EXCEPT !.err = NoError]
    /\ calls' = calls + 1
    /\ UNCHANGED <<solved, saved>>

Save ==
    /\ Working
    /\ calls \in SaveAfter
    /\ saved' = snapshot_inference(store) @@ [solved |-> solved]
    /\ saved' # saved
    /\ UNCHANGED <<store, solved, calls>>

Restore ==
    /\ Working
    /\ store' = restore_snapshot(store, saved)
    /\ solved' = saved.solved
    /\ store' # store
    /\ UNCHANGED <<saved, calls>>

Ask ==
    /\ ~asked
    /\ asked' = TRUE
    /\ UNCHANGED <<store, solved, saved, calls>>

Next ==
    \/ \E a, b \in Asked : Unify(a, b)
    \/ \E f \in Flows : Flow(f[1], f[2])
    \/ Save
    \/ Restore
    \/ Ask

Spec == Init /\ [][Next]_vars

-----------------------------------------------------------------------------
(***************************************************************************)
(* What is said of a store alone is asked where no snapshot is held: every *)
(* store that calls reach is reached without one.  What costs most to ask  *)
(* is asked of the stores that few calls build.                            *)
(***************************************************************************)
Unsaved == saved = NoSave
Early   == Unsaved /\ calls <= FewCalls

tab == table(store)
S   == main_subst(store)

(***************************************************************************)
(* What it is for two types to be one in a store, whatever unification     *)
(* did: their regular trees, with rows spread out over their bound tails   *)
(* and equirecursive names unrolled, are equal where they must be.         *)
(* Absent and missing are the same; Error is any type; a function without  *)
(* a this has any; an array is a row of its length, and a nominal type one *)
(* of its fields where the row was left open.                              *)
(***************************************************************************)
Unrolled(t) == IF t.k = "Named" THEN unroll_named(store, t.id, t.ts) ELSE t
RECURSIVE Spread(_, _)
Spread(row, seen) ==
    LET r    == RootOf(store, row.tail.v)
        more == Unrolled(store.map[r])
    IN IF FlexTail(row.tail)
       THEN IF r \in DOMAIN store.map \ seen /\ more.k = "Row"
            THEN LET rest == Spread(more, seen \cup {r})
                 IN Row(row.props @@ rest.props, rest.tail)
            ELSE Row(row.props, Open(r))
       ELSE row

Is(p, q) == resolve_presence(store, p) = resolve_presence(store, q)
EqualFields(e, f) == Is(e.presence, f.presence) /\ Is(e.writable, f.writable) /\ Is(e.own, f.own)

RECURSIVE Agree(_, _, _)
AgreeAll(as, bs, hyp) == Len(as) = Len(bs) /\ \A i \in DOMAIN as : Agree(as[i], bs[i], hyp)
AgreeRows(r, s, hyp) ==
    /\ \A n \in DOMAIN r.props \cap DOMAIN s.props :
          EqualFields(r.props[n], s.props[n]) /\ Agree(r.props[n].ty, s.props[n].ty, hyp)
    /\ \A n \in DOMAIN r.props \ DOMAIN s.props : Is(r.props[n].presence, Abs)
    /\ \A n \in DOMAIN s.props \ DOMAIN r.props : Is(s.props[n].presence, Abs)
    /\ r.tail.tail = s.tail.tail
    /\ r.tail.tail = "Open" => r.tail = s.tail
    /\ r.tail.tail = "Recursive" => r.tail.id = s.tail.id /\ AgreeAll(r.tail.ts, s.tail.ts, hyp)
AgreeArray(row) ==
    LET all == Spread(row, {})
    IN /\ DOMAIN row.props \subseteq {"length"} /\ all.tail = Closed
       /\ \A n \in DOMAIN all.props : IF n = "length" THEN Agree(all.props[n].ty, Number, {})
                                     ELSE Is(all.props[n].presence, Abs)
AgreeFuncs(f, g, hyp) ==
    LET Surplus(h, n) == \A i \in DOMAIN h.params : i > n => Is(h.params[i].presence, Abs)
    IN /\ f.this # None /\ g.this # None => Agree(f.this[1], g.this[1], hyp)
       /\ \A i \in DOMAIN f.params \cap DOMAIN g.params :
             Is(f.params[i].presence, g.params[i].presence)
             /\ Agree(f.params[i].ty, g.params[i].ty, hyp)
       /\ Surplus(f, Len(g.params)) /\ Surplus(g, Len(f.params))
       /\ Agree(f.ret, g.ret, hyp)
Agree(a, b, hyp) ==
    LET h1 == zonk_head(store, a)
        h2 == zonk_head(store, b)
        ks == {h1.k, h2.k}
        more == hyp \cup {<<h1, h2>>}
        Stands(n, other) ==
            n.k = "Named" /\ ~(other.k = "Named" /\ (other.id = n.id \/ is_nominal_type(store, n.id)))
            /\ (is_nominal_type(store, n.id) => OpenRow(other))
    IN CASE <<h1, h2>> \in hyp \/ h1 = h2 \/ "Error" \in ks -> TRUE
         [] Stands(h1, h2) -> Agree(unroll_named(store, h1.id, h1.ts), h2, more)
         [] Stands(h2, h1) -> Agree(h1, unroll_named(store, h2.id, h2.ts), more)
         [] ks = {"Row"}  -> AgreeRows(Spread(h1, {}), Spread(h2, {}), more)
         [] ks = {"Func"} -> AgreeFuncs(h1, h2, more)
         [] ks = {"Array", "Row"} -> AgreeArray(IF h1.k = "Row" THEN h1 ELSE h2)
         [] ks = {"Union"} -> ToSet(h1.ts) = ToSet(h2.ts)
         [] h1.k = h2.k /\ h1.k \in {"Array", "Map", "Promise", "Maybe", "Tuple", "Named"} ->
               AgreeAll(Children(h1), Children(h2), more) /\ With(h1, Children(h2)) = h2
         [] OTHER -> FALSE

(***************************************************************************)
(* Every pair of types that was unified, and not rolled back, is one type  *)
(* in the store now: no later call takes a binding back or drops one of    *)
(* two constraints on a variable, and nothing assumed or remembered while  *)
(* unification ran let a pair through (extend_subst, unify_bound_pairs,    *)
(* unfold_assumptions).                                                    *)
(***************************************************************************)
Solved ==
    [][asked' => (
        \A pair \in solved : Agree(pair[1], pair[2], {}))]_vars

(***************************************************************************)
(* Unification accepts every two types that are one already, so asking     *)
(* again never fails, and binds nothing that shows.                        *)
(***************************************************************************)
AgreedIsAccepted ==
    [][asked' => (
        Unsaved => \A a, b \in Asked : Agree(a, b, {}) => Ok(unify(store, a, b)))]_vars

(***************************************************************************)
(* Unification has no direction and always answers: it accepts two types   *)
(* in one order when it does in the other, although it binds different     *)
(* variables, and it never unfolds rows or recursive types until it meets  *)
(* the depth cap.                                                          *)
(***************************************************************************)
Orders(pair) == {o \in pair \X pair : {o[1], o[2]} = pair}
EitherWay ==
    [][asked' => (
        Unsaved =>
        \A pair \in {{a, b} : a, b \in Asked} :
            LET errors == {unify(store, o[1], o[2]).err : o \in Orders(pair)}
            IN (NoError \in errors => errors = {NoError}) /\ "depth" \notin errors)]_vars

-----------------------------------------------------------------------------
(***************************************************************************)
(* The order of two branches does not show: they have a type in one order  *)
(* when they do in the other; that type takes a value of each, and they    *)
(* leave nothing behind when they have none (join).                        *)
(***************************************************************************)
Takes(j, t) ==
    \E value \in {t, widen_fresh_literals(zonk_arms(j.store, t))} : Ok(subsume(j.store, value, j.ty))
BranchesHaveNoOrder ==
    [][asked' => (
        Early =>
        \A a, b \in Branches :
            LET there == join(store, a, b)
                back  == join(store, b, a)
            IN /\ Ok(there.store) <=> Ok(back.store)
               /\ IF Ok(there.store) THEN Takes(there, a) /\ Takes(there, b)
                  ELSE snapshot_inference(there.store) = snapshot_inference(store))]_vars

(***************************************************************************)
(* A quantified variable belongs to its scheme alone: the environment,     *)
(* written out, does not mention it, nor a named type's definition that    *)
(* the scheme shares, nor a constraint that is left pending (generalize    *)
(* finds the fixed variables with reach, without writing anything out).    *)
(***************************************************************************)
Out(t) == flatten(S, t)
QuantifiedIsOwned ==
    [][asked' => (
        Early =>
        \A e \in Scope, t \in Asked :
            LET g   == generalize(store, {Mono(e)}, t)
                own == ToSet(g.ty.vars)
            IN /\ own \cap free_vars(Out(e)) = {}
               /\ \A id \in named_ids(Tuple(<<Out(e), g.ty.ty>>)) \cap DOMAIN store.defs :
                     own \cap free_vars(Out(store.defs[id].body)) = {}
               /\ \A i \in DOMAIN g.store.pending : \A c \in ToSet(g.store.pending[i].types) :
                     own \cap free_vars(flatten(main_subst(g.store), c)) = {})]_vars

(***************************************************************************)
(* "Presence variables follow the same rule as type variables: a pvar      *)
(* reachable from the environment [...] must stay monomorphic"             *)
(* (infer/state.rs): none that the environment, written out, mentions is   *)
(* quantified.                                                             *)
(***************************************************************************)
EnvFixesPresences ==
    [][asked' => (
        Early =>
        \A e \in Scope, t \in Asked :
            ToSet(generalize(store, {Mono(e)}, t).ty.pvars) \cap free_pvars(Out(e)) = {})]_vars

(***************************************************************************)
(* The uses of a name are apart: an instance accepts what its type does,   *)
(* whatever another instance has been used at.  Asked where nothing is     *)
(* fixed without an environment, by a named type's definition, which the   *)
(* instances share, or by a constraint.                                    *)
(***************************************************************************)
Grounds == {Number, Array(String), Row([x |-> getter(Number)], Closed),
            Row([x |-> getter(Number), y |-> pre(String)], Closed)}
Unfixed(t) == LET r == env_fixed_vars(store, {}, t) IN r.vars = {} /\ r.pvars = {}
UsesAreApart ==
    [][asked' => (
        Early =>
        \A t \in Asked, first, second \in Grounds :
            LET g    == generalize(store, {}, t)
                i    == instantiate(g.store, g.ty)
                used == unify(i.store, i.ty, first)
                next == instantiate(used, g.ty)
            IN Unfixed(t) /\ Ok(used) =>
                  (Ok(unify(next.store, next.ty, second)) <=> Ok(unify(g.store, t, second))))]_vars

-----------------------------------------------------------------------------
(***************************************************************************)
(* The types asked about: a variable alone, a row whose tail is one, a     *)
(* method, a union, a module's scheme, and all of them side by side.       *)
(***************************************************************************)
RowProbe    == Row([x |-> FieldEntry(PVar(1), Var(v2), Abs, Pre)], Open(Flex(3)))
MethodProbe == raw_func(Some(Var(v1)), <<optional(1, Array(Var(v2)))>>, Var(v1))
UnionProbe  == Maybe("Undefined", Union(<<Var(v1), Var(v2)>>))
Quantified  == Flex(50)
ModuleProbe ==
    Module("m", [x |-> QualScheme(<<Quantified>>, <<>>, <<TypePred("Plus", <<Var(v2)>>)>>,
                                    Tuple(<<Var(Quantified), Var(v1)>>))])
OtherTail   == Row([length |-> pre(Var(v1))], Open(Flex(5)))
Parts       == <<RowProbe, MethodProbe, UnionProbe, OtherTail, RowProbe, Var(v2)>>
Probes      == {Tuple(Parts)} \cup ToSet(Parts)

(***************************************************************************)
(* Whether a variable's binding leads back to it.                          *)
(***************************************************************************)
Mentions(v) == IF v \in DOMAIN S.map THEN free_vars(S.map[v]) ELSE {}
Acyclic ==
    LET step(R) == UNION {Mentions(v) : v \in R}
        RECURSIVE from(_, _)
        from(R, seen) == IF R \subseteq seen THEN seen ELSE from(step(R), seen \cup R)
    IN \A v \in DOMAIN S.map : v \notin from(Mentions(v), {})

(***************************************************************************)
(* A type with every open tail named by the root of its class.             *)
(***************************************************************************)
RootTail(tail) ==
    IF tail.tail = "Open" /\ tail.v \in DOMAIN tab.root THEN Open(tab.root[tail.v]) ELSE tail
RECURSIVE AtRoots(_)
AtRoots(t) ==
    MapTail(With(t, [i \in DOMAIN Children(t) |-> AtRoots(Children(t)[i])]), RootTail)

(***************************************************************************)
(* Inference may resolve by zonk against the table or by apply_subst of    *)
(* the substitution that mirrors it (infer/zonk.rs, types/subst.rs): where *)
(* no binding leads back to itself, the two give one type up to the name   *)
(* of a tail, and write out to what the type itself writes out to.  zonk   *)
(* names a tail by the root of its class and apply_subst by the next       *)
(* variable of the chain, both of one class; in a module's scheme zonk     *)
(* leaves presences and bound tails as they stand, so there the two are    *)
(* compared written out.                                                   *)
(***************************************************************************)
ExportTypes(m) == LET ts == SchemeTypes(m.exports["x"]) IN [i \in DOMAIN ts |-> Out(ts[i])]
ZonkIsApply ==
    [][asked' => (
        Unsaved /\ Acyclic =>
            /\ \A t \in Probes :
                  LET z == zonk(tab, S, t)
                      a == apply_subst(S, t)
                  IN AtRoots(z) = AtRoots(a) /\ Out(z) = Out(t) /\ Out(a) = Out(t)
            /\ ExportTypes(zonk(tab, S, ModuleProbe)) = ExportTypes(apply_subst(S, ModuleProbe)))]_vars

(***************************************************************************)
(* a is b with some subterms left out.  A row may also have lost the       *)
(* fields of a tail that is bound to another variable: once the budget is  *)
(* spent that variable is cut, and the row keeps its name.                 *)
(***************************************************************************)
LostTail(row) ==
    row.tail.tail = "Open" /\ row.tail.v \in DOMAIN S.map /\ S.map[row.tail.v].k = "Var"

RECURSIVE Prunes(_, _)
PrunesRow(a, b) ==
    /\ DOMAIN a.props \subseteq DOMAIN b.props
    /\ \A n \in DOMAIN a.props :
          Presences(a.props[n]) = Presences(b.props[n]) /\ Prunes(a.props[n].ty, b.props[n].ty)
    /\ LostTail(a) \/ (DOMAIN a.props = DOMAIN b.props /\ a.tail = b.tail)
Prunes(a, b) ==
    \/ a = Elided
    \/ /\ IsSum(b)
       /\ \A x \in ToSet(arms(a)) : \E y \in ToSet(arms(b)) : Prunes(x, y)
    \/ a.k = "Row" /\ b.k = "Row" /\ PrunesRow(a, b)
    \/ /\ a.k = b.k /\ ~IsSum(a) /\ a.k # "Row"
       /\ Len(Children(a)) = Len(Children(b))
       /\ With(a, Children(b)) = b
       /\ \A i \in DOMAIN Children(a) : Prunes(Children(a)[i], Children(b)[i])

RECURSIVE Nodes(_)
Nodes(t) == FoldLeft(LAMBDA n, c : n + Nodes(c), 1, Children(t))

(***************************************************************************)
(* What flatten makes of a type does not depend on what it flattened       *)
(* before it: an expansion kept for later occurrences is right wherever    *)
(* the variable occurs, cycles or not.  A printer's bounded flattening is  *)
(* the same type with subterms left out, and flattened_size never promises *)
(* less than flatten builds.                                               *)
(***************************************************************************)
FlattenInContext ==
    [][asked' => (
        Unsaved =>
        LET all == flatten(S, Tuple(Parts))
        IN \A i \in DOMAIN Parts :
              /\ all.ts[i] = flatten(S, Parts[i])
              /\ Early /\ Acyclic =>
                    /\ \A b \in Budgets : Prunes(flatten_bounded(S, Parts[i], b), all.ts[i])
                    /\ Nodes(all.ts[i]) <= flattened_size(S, Parts[i]))]_vars

=============================================================================
