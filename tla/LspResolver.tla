---------------------------- MODULE LspResolver ----------------------------
(***************************************************************************)
(* The language server's own name resolution                              *)
(* (crates/inty-lsp/src/resolver.rs), behind go-to-definition, rename and *)
(* completion.  As in Resolve the walk is a list of jobs; a job carries    *)
(* the enclosing function scope and the scope lookups start from.          *)
(*                                                                        *)
(* Source positions are abstracted to the spans of names, so the indexes  *)
(* by byte offset (binding_at, scope_at) are not modelled; uses_of is the  *)
(* inverse of refs.                                                        *)
(***************************************************************************)
EXTENDS Ast, TLC

LOCAL INSTANCE SequencesExt

\* refs maps a use to the binding's span; defs maps a binding's span to its
\* name and kind; a scope has a parent (0 for none) and its names in order.
Resolution == [refs |-> << >>, defs |-> << >>, scopes |-> <<>>]

NewScope(r, parent) ==
    [r EXCEPT !.scopes = Append(@, [parent |-> parent, bindings |-> <<>>, map |-> << >>])]

\* The first declaration of a name in a scope wins.
DeclareIn(r, sc, n, s, kind) ==
    IF n \in DOMAIN r.scopes[sc].map THEN r
    ELSE [r EXCEPT !.scopes[sc].map = (n :> s) @@ @,
                   !.scopes[sc].bindings = Append(@, <<n, s>>),
                   !.defs = (s :> [n |-> n, kind |-> kind]) @@ @]

RECURSIVE LookupIn(_, _, _)
LookupIn(r, sc, n) ==
    CASE sc = 0 -> 0
      [] n \in DOMAIN r.scopes[sc].map -> r.scopes[sc].map[n]
      [] OTHER -> LookupIn(r, r.scopes[sc].parent, n)

RecordRef(r, sc, n, s) ==
    IF LookupIn(r, sc, n) = 0 THEN r ELSE [r EXCEPT !.refs = (s :> LookupIn(r, sc, n)) @@ @]

\* visible_at for a scope: one entry per name, inner scopes shadow outer.
RECURSIVE VisibleFrom(_, _)
VisibleFrom(r, sc) ==
    IF sc = 0 THEN << >> ELSE r.scopes[sc].map @@ VisibleFrom(r, r.scopes[sc].parent)

(***************************************************************************)
(* Jobs.                                                                  *)
(***************************************************************************)
Job(do, x, fn, sc)   == [do |-> do, x |-> x, fn |-> fn, sc |-> sc]
Jobs(do, xs, fn, sc) == [i \in DOMAIN xs |-> Job(do, xs[i], fn, sc)]
Maybe(do, x, fn, sc) == IF x = None THEN <<>> ELSE <<Job(do, x, fn, sc)>>
Named(n, s, kind)    == [n |-> n, s |-> s, kind |-> kind]
Declared(n, s, kind, sc) == <<Job("declare", Named(n, s, kind), sc, sc)>>
Then(r, jobs) == [r |-> r, jobs |-> jobs]

\* hoist_stmt: var and function declarations of a function body, also the
\* functions of nested blocks, as Named.
RECURSIVE Hoisted(_)
Hoisted(s) ==
    CASE s.k \in {"var", "exportvar"} ->
           IF s.kind = "var" THEN [i \in DOMAIN s.ds |-> Named(s.ds[i].n, s.ds[i].s, "var")] ELSE <<>>
      [] s.k \in {"fdecl", "exportfn"} -> <<Named(s.n, s.s, "function")>>
      [] s.k = "block" -> FlattenSeq([i \in DOMAIN s.body |-> Hoisted(s.body[i])])
      [] s.k = "if" -> Hoisted(s.c) \o Hoisted(s.a)
      [] s.k \in {"while", "dowhile", "labeled", "catch"} -> Hoisted(s.body)
      [] s.k = "for" -> Hoisted(s.init) \o Hoisted(s.body)
      [] s.k \in {"forin", "forof"} ->
           (IF s.left.k = "decl" THEN <<Named(s.left.n, s.left.s, "var")>> ELSE <<>>)
             \o Hoisted(s.body)
      [] s.k = "try" -> Hoisted(s.block) \o Hoisted(s.handler) \o Hoisted(s.finalizer)
      [] s.k = "switch" -> FlattenSeq([i \in DOMAIN s.cases |-> Hoisted(Block(s.cases[i].body))])
      [] OTHER -> <<>>

\* Mutant: let and const declared like var.
VarDeclsFlat(kind, ds, fn, sc) ==
    FlattenSeq([i \in DOMAIN ds |->
      Declared(ds[i].n, ds[i].s, kind, fn) \o Maybe("expr", ds[i].init, fn, sc)])

VarDecls(kind, ds, fn, sc) ==
    FlattenSeq([i \in DOMAIN ds |->
      Declared(ds[i].n, ds[i].s, kind, IF kind = "var" THEN fn ELSE sc)
        \o Maybe("expr", ds[i].init, fn, sc)])

FunctionBody(r, own, ps, body, parent) ==
    LET sc == Len(r.scopes) + 1
    IN Then(NewScope(r, parent),
            Jobs("declare", own, sc, sc)
              \o [i \in DOMAIN ps |-> Job("declare", Named(ps[i].n, ps[i].s, "param"), sc, sc)]
              \o (IF body.k = "block" THEN Jobs("declare", Hoisted(body), sc, sc) ELSE <<>>)
              \o Jobs("stmt", BodyStmts(body), sc, sc))

ForStmt(r, s, fn, sc) ==
    LET inner == Len(r.scopes) + 1
    IN Then(NewScope(r, sc),
            (CASE s.init.k = "none" -> <<>>
               [] s.init.k = "var" -> VarDecls(s.init.kind, s.init.ds, fn, inner)
               [] OTHER -> <<Job("expr", s.init, fn, inner)>>)
              \o Maybe("expr", s.t, fn, inner) \o Maybe("expr", s.u, fn, inner)
              \o <<Job("stmt", s.body, fn, inner)>>)

\* for-in and for-of: the loop variable is declared like a var.
ForEachStmt(r, s, fn, sc) ==
    LET inner == Len(r.scopes) + 1
    IN Then(NewScope(r, sc),
            (IF s.left.k = "decl" THEN Declared(s.left.n, s.left.s, "var", fn)
             ELSE <<Job("expr", s.left, fn, inner)>>)
              \o <<Job("expr", s.right, fn, inner), Job("stmt", s.body, fn, inner)>>)

CatchClause(r, h, fn, sc) ==
    LET inner == Len(r.scopes) + 1
    IN Then(NewScope(r, sc),
            Declared(h.n, h.s, "catch", inner) \o <<Job("stmt", h.body, fn, inner)>>)

VisitStmt(r, s, fn, sc) ==
    CASE s.k = "block" -> Then(NewScope(r, sc), Jobs("stmt", s.body, fn, Len(r.scopes) + 1))
      [] s.k \in {"expr", "return", "throw", "exportdefault"} -> Then(r, Maybe("expr", s.e, fn, sc))
      [] s.k \in {"var", "exportvar"} -> Then(r, VarDecls(s.kind, s.ds, fn, sc))
      [] s.k = "import" -> Then(r, Declared(s.n, s.s, "import", fn))
      [] s.k = "exportfn" ->
           FunctionBody(DeclareIn(r, fn, s.n, s.s, "function"), <<>>, s.ps, s.body, sc)
      [] s.k = "fdecl" -> FunctionBody(r, <<>>, s.ps, s.body, sc)
      [] s.k = "exportlist" -> Then(RecordRef(r, sc, s.n, s.s), <<>>)
      [] s.k = "if" ->
           Then(r, <<Job("expr", s.t, fn, sc), Job("stmt", s.c, fn, sc)>> \o Maybe("stmt", s.a, fn, sc))
      [] s.k \in {"while", "dowhile"} ->
           Then(r, <<Job("expr", s.t, fn, sc), Job("stmt", s.body, fn, sc)>>)
      [] s.k = "for" -> ForStmt(r, s, fn, sc)
      [] s.k \in {"forin", "forof"} -> ForEachStmt(r, s, fn, sc)
      [] s.k = "try" ->
           Then(r, <<Job("stmt", s.block, fn, sc)>> \o Maybe("stmt", s.handler, fn, sc)
                     \o Maybe("stmt", s.finalizer, fn, sc))
      [] s.k = "catch" -> CatchClause(r, s, fn, sc)
      [] s.k = "switch" ->
           Then(r, <<Job("expr", s.d, fn, sc)>>
                     \o FlattenSeq([i \in DOMAIN s.cases |->
                          Maybe("expr", s.cases[i].t, fn, sc) \o Jobs("stmt", s.cases[i].body, fn, sc)]))
      [] s.k = "labeled" -> Then(r, <<Job("stmt", s.body, fn, sc)>>)
      [] OTHER -> Then(r, <<>>)

PropJob(p, fn, sc) ==
    CASE p.k = "prop" -> Job("expr", p.v, fn, sc)
      [] p.k = "spreadprop" -> Job("expr", p.e, fn, sc)
      [] OTHER -> Job("accessor", p, fn, sc)

VisitExpr(r, e, fn, sc) ==
    CASE e.k = "id" -> Then(RecordRef(r, sc, e.n, e.s), <<>>)
      [] e.k = "object" -> Then(r, [i \in DOMAIN e.ps |-> PropJob(e.ps[i], fn, sc)])
      [] e.k = "fn" ->
           FunctionBody(r, IF e.n = "" THEN <<>> ELSE <<Named(e.n, e.s, "function")>>,
                        e.ps, e.body, sc)
      [] OTHER -> Then(r, Jobs("expr", Children(e), fn, sc))

Step(r, j) ==
    CASE j.do = "stmt" -> VisitStmt(r, j.x, j.fn, j.sc)
      [] j.do = "expr" -> VisitExpr(r, j.x, j.fn, j.sc)
      [] j.do = "declare" -> Then(DeclareIn(r, j.sc, j.x.n, j.x.s, j.x.kind), <<>>)
      [] j.do = "accessor" ->
           FunctionBody(r, <<>>,
                        CASE j.x.k = "method" -> j.x.ps
                          [] j.x.k = "setter" -> <<j.x.p>>
                          [] OTHER -> <<>>,
                        j.x.body, j.sc)

RECURSIVE Walk(_, _)
Walk(r, todo) ==
    IF todo = <<>> THEN r
    ELSE LET n == Step(r, Head(todo)) IN Walk(n.r, n.jobs \o Tail(todo))

Build(stmts) ==
    Walk(NewScope(Resolution, 0),
         Jobs("declare", Hoisted(Block(stmts)), 1, 1) \o Jobs("stmt", stmts, 1, 1))

DefOfUse(r, s) == IF s \in DOMAIN r.refs THEN r.refs[s] ELSE 0
UsesOf(r, d) == {s \in DOMAIN r.refs : r.refs[s] = d}
============================================================================
