------------------------------ MODULE Patterns ------------------------------
(***************************************************************************)
(* Destructuring (frontends/javascript/parser/mod.rs, Pattern and its     *)
(* desugarings).  The parser keeps no pattern in the tree: a pattern is    *)
(* flattened into simple bindings that read fresh temporaries.             *)
(***************************************************************************)
EXTENDS Ast, TLC, SequencesExt

PIdent(n)           == [k |-> "ident", n |-> n]
PObject(ents, rest) == [k |-> "object", ents |-> ents, rest |-> rest]
PArray(elems, rest) == [k |-> "array", elems |-> elems, rest |-> rest]
PDefault(pat, e)    == [k |-> "default", pat |-> pat, e |-> e]
Entry(key, sub)     == [k |-> "entry", key |-> key, sub |-> sub]
NoRest              == ""

Undefined   == Lit(<<"undefined">>)
Number(n)   == Lit(<<"number", ToString(n)>>)
Name(n)     == Ident(n, 0)
Decl(n, init, ann) == [n |-> n, s |-> 0, init |-> init, ann |-> ann]
NoAnn       == <<>>
FnDecl(n, ps, body, ann) ==
    [k |-> "fdecl", n |-> n, s |-> 0, ps |-> ps, body |-> body, ann |-> ann]

fresh_temp_name(n) == "$destr$" \o ToString(n)

(***************************************************************************)
(* source === undefined ? default : source                                 *)
(***************************************************************************)
with_default(src, d) == Conditional(Binary("===", src, Undefined), d, src)

(***************************************************************************)
(* The bindings of a pattern in order, [n, init, temp] each, and the temp  *)
(* counter after them.  c.todo holds the patterns still to bind with what  *)
(* each is bound to.                                                       *)
(***************************************************************************)
Bind(n, init, temp) == [n |-> n, init |-> init, temp |-> temp]
Todo(pat, src)      == [pat |-> pat, src |-> src]
Accesses(pat, t) ==
    IF pat.k = "object"
    THEN [i \in DOMAIN pat.ents |-> Todo(pat.ents[i].sub, Member(Name(t), pat.ents[i].key))]
    ELSE [i \in DOMAIN pat.elems |-> Todo(pat.elems[i], Computed(Name(t), Number(i - 1)))]
RestOf(pat, t) ==
    IF pat.rest = NoRest THEN <<>>
    ELSE <<Todo(PIdent(pat.rest),
                IF pat.k = "object"
                THEN RestRow(Name(t), [i \in DOMAIN pat.ents |-> pat.ents[i].key])
                ELSE RestArray(Name(t), Len(pat.elems)))>>

RECURSIVE Flatten(_)
\* mutant: every pattern gets the same temporary
FlattenOneTemp(c) ==
    IF c.todo = <<>> THEN c
    ELSE LET pat  == Head(c.todo).pat
             src  == Head(c.todo).src
             rest == Tail(c.todo)
             t    == fresh_temp_name(c.temp)
         IN  CASE pat.k = "default" ->
                    Flatten([c EXCEPT !.todo = <<Todo(pat.pat, with_default(src, pat.e))>> \o rest])
               [] pat.k = "ident" ->
                    Flatten([c EXCEPT !.todo = rest, !.out = Append(@, Bind(pat.n, src, FALSE))])
               [] OTHER ->
                    Flatten([c EXCEPT !.todo = Accesses(pat, t) \o RestOf(pat, t) \o rest,
                                      !.out = Append(@, Bind(t, src, TRUE))])
Flatten(c) ==
    IF c.todo = <<>> THEN c
    ELSE LET pat  == Head(c.todo).pat
             src  == Head(c.todo).src
             rest == Tail(c.todo)
             t    == fresh_temp_name(c.temp)
         IN  CASE pat.k = "default" ->
                    Flatten([c EXCEPT !.todo = <<Todo(pat.pat, with_default(src, pat.e))>> \o rest])
               [] pat.k = "ident" ->
                    Flatten([c EXCEPT !.todo = rest, !.out = Append(@, Bind(pat.n, src, FALSE))])
               [] OTHER ->
                    Flatten([c EXCEPT !.todo = Accesses(pat, t) \o RestOf(pat, t) \o rest,
                                      !.out = Append(@, Bind(t, src, TRUE)),
                                      !.temp = @ + 1])
Bindings(pat, src, temp) == Flatten([todo |-> <<Todo(pat, src)>>, temp |-> temp, out |-> <<>>])

(***************************************************************************)
(* As declarators, or, for an assignment, as statements: the temporaries   *)
(* are declared, the targets assigned.  Both return [v, temp].             *)
(***************************************************************************)
desugar_pattern(pat, src, temp) ==
    LET b == Bindings(pat, src, temp)
    IN  [v |-> [i \in DOMAIN b.out |-> Decl(b.out[i].n, b.out[i].init, NoAnn)], temp |-> b.temp]

temp_var(n, init) == VarStmt("var", <<Decl(n, init, NoAnn)>>)
desugar_pattern_assign(pat, src, temp) ==
    LET b == Bindings(pat, src, temp)
        Stmt(x) == IF x.temp THEN temp_var(x.n, x.init)
                   ELSE ExprStmt(Assign("=", Name(x.n), x.init))
    IN  [v |-> [i \in DOMAIN b.out |-> Stmt(b.out[i])], temp |-> b.temp]

(***************************************************************************)
(* A literal on the left of = read as a pattern; None when it cannot be    *)
(* one.  A spread sets the rest wherever it stands.                        *)
(***************************************************************************)
RECURSIVE expr_to_pattern(_)
expr_to_pattern(e) ==
    CASE e.k = "id" -> PIdent(e.n)
      [] e.k = "assign" /\ e.op = "=" ->
            LET l == expr_to_pattern(e.l) IN IF l = None THEN None ELSE PDefault(l, e.r)
      [] e.k = "array" ->
            LET ps    == [i \in DOMAIN e.es |->
                             IF e.es[i] = None THEN None
                             ELSE IF e.es[i].k = "spread" THEN expr_to_pattern(e.es[i].e)
                             ELSE expr_to_pattern(e.es[i])]
                Rest(i) == e.es[i] # None /\ e.es[i].k = "spread"
                rests == SelectSeq([i \in DOMAIN e.es |-> i], Rest)
                elems == SelectSeq([i \in DOMAIN e.es |-> i], LAMBDA i : ~Rest(i))
            IN  IF \E i \in DOMAIN ps : ps[i] = None \/ (Rest(i) /\ ps[i].k # "ident") THEN None
                ELSE PArray([i \in DOMAIN elems |-> ps[elems[i]]],
                            IF rests = <<>> THEN NoRest ELSE ps[Last(rests)].n)
      [] e.k = "object" ->
            LET ps    == [i \in DOMAIN e.ps |->
                             CASE e.ps[i].k = "prop" /\ e.ps[i].key[1] # "number" ->
                                    expr_to_pattern(e.ps[i].v)
                               [] e.ps[i].k = "spreadprop" -> expr_to_pattern(e.ps[i].e)
                               [] OTHER -> None]
                Rest(i) == e.ps[i].k = "spreadprop"
                rests == SelectSeq([i \in DOMAIN e.ps |-> i], Rest)
                ents  == SelectSeq([i \in DOMAIN e.ps |-> i], LAMBDA i : ~Rest(i))
            IN  IF \E i \in DOMAIN ps : ps[i] = None \/ (Rest(i) /\ ps[i].k # "ident") THEN None
                ELSE PObject([i \in DOMAIN ents |-> Entry(e.ps[ents[i]].key[2], ps[ents[i]])],
                             IF rests = <<>> THEN NoRest ELSE ps[Last(rests)].n)
      [] OTHER -> None
=============================================================================
