------------------------------ MODULE Resolve ------------------------------
(***************************************************************************)
(* Binding resolution (crates/inty/src/ast/resolve.rs): which declaration *)
(* every identifier refers to, and which bindings are stable.             *)
(*                                                                        *)
(* The walk of the source is a recursive descent over a mutable Walker.   *)
(* Here it is a list of jobs: a job for a statement or an expression is   *)
(* replaced by the jobs of its parts in the order the source visits them, *)
(* any other job changes the walker.                                      *)
(***************************************************************************)
EXTENDS Ast, TLC

LOCAL INSTANCE SequencesExt

Binding(n, kind, level) ==
    [n |-> n, kind |-> kind, level |-> level, assigned |-> FALSE, declarators |-> 0,
     fnDecls |-> 0, declared |-> FALSE, hasInit |-> FALSE, initInLoop |-> FALSE,
     readBeforeInit |-> FALSE]

Stable(b) ==
    CASE b.kind = "const" -> TRUE
      [] b.kind = "global" -> FALSE
      [] b.kind \in {"let", "param"} -> ~b.assigned
      [] b.kind = "var" ->
           /\ ~b.assigned
           /\ b.declarators + b.fnDecls <= 1
           /\ b.hasInit => ~b.initInLoop /\ ~b.readBeforeInit

Walker(lua) ==
    [bindings |-> <<>>, scopes |-> <<>>, globals |-> << >>, occurrences |-> {},
     lua |-> lua, loops |-> <<>>, hoisted |-> <<>>]

(***************************************************************************)
(* Changes of the walker.                                                 *)
(***************************************************************************)
Enter(w, fn, hoisted) ==
    [w EXCEPT !.scopes = Append(@, [fn |-> fn, names |-> << >>]),
              !.loops = IF fn THEN Append(@, 0) ELSE @,
              !.hoisted = IF fn THEN Append(@, hoisted) ELSE @]

Leave(w) ==
    LET fn == w.scopes[Len(w.scopes)].fn
    IN [w EXCEPT !.scopes = Front(@),
                 !.loops = IF fn THEN Front(@) ELSE @,
                 !.hoisted = IF fn THEN Front(@) ELSE @]

InLoop(w) == w.loops # <<>> /\ w.loops[Len(w.loops)] > 0
Looping(w, d) == [w EXCEPT !.loops[Len(w.loops)] = @ + d]

NewBinding(w, n, kind) ==
    [w EXCEPT !.bindings = Append(@, Binding(n, kind, Len(w.hoisted)))]

Insert(w, i, n, id) == [w EXCEPT !.scopes[i].names = (n :> id) @@ @]

BindLex(w, n, kind) ==
    Insert(NewBinding(w, n, kind), Len(w.scopes), n, Len(w.bindings) + 1)

FunctionScope(w) ==
    CHOOSE i \in DOMAIN w.scopes :
      w.scopes[i].fn /\ \A j \in (i + 1)..Len(w.scopes) : ~w.scopes[j].fn

BindVar(w, n) ==
    LET i == FunctionScope(w)
    IN IF n \in DOMAIN w.scopes[i].names THEN w
       ELSE Insert(NewBinding(w, n, "var"), i, n, Len(w.bindings) + 1)

Register(w, s, id) == [w EXCEPT !.occurrences = @ \cup {<<s, id>>}]

\* A function declaration at the top of a function body shares the var
\* scope; in a nested block it is block scoped.
BindFunction(w, n, s) ==
    IF w.scopes[Len(w.scopes)].fn
    THEN LET v == BindVar(w, n)
             id == v.scopes[Len(v.scopes)].names[n]
         IN Register([v EXCEPT !.bindings[id].fnDecls = @ + 1], s, id)
    ELSE Register(BindLex(w, n, "let"), s, Len(w.bindings) + 1)

Visible(w, n) == \E i \in DOMAIN w.scopes : n \in DOMAIN w.scopes[i].names

\* lookup makes a global of a name no scope has.
Known(w, n) ==
    IF Visible(w, n) \/ n \in DOMAIN w.globals THEN w
    ELSE [NewBinding(w, n, "global") EXCEPT !.globals = (n :> Len(w.bindings) + 1) @@ @]

\* Mutant: scopes searched from the outermost.
LookupOutermost(w, n) ==
    IF Visible(w, n)
    THEN w.scopes[CHOOSE i \in DOMAIN w.scopes :
                    /\ n \in DOMAIN w.scopes[i].names
                    /\ \A j \in 1..(i - 1) : n \notin DOMAIN w.scopes[j].names
                 ].names[n]
    ELSE w.globals[n]

Lookup(w, n) ==
    IF Visible(w, n)
    THEN w.scopes[CHOOSE i \in DOMAIN w.scopes :
                    /\ n \in DOMAIN w.scopes[i].names
                    /\ \A j \in (i + 1)..Len(w.scopes) : n \notin DOMAIN w.scopes[j].names
                 ].names[n]
    ELSE w.globals[n]

\* Mutant: the functions around the occurrence are not looked at.
EarlyHere(w, b) == ~b.declared

\* An occurrence of a var that may run before its initialiser: the walk has
\* not passed it, or a function declaration around the occurrence, inside
\* the var's function, can be called first.
Early(w, b) == ~b.declared \/ \E i \in (b.level + 1)..Len(w.hoisted) : w.hoisted[i]

Occurrence(w0, n, s) ==
    LET w == Known(w0, n)
        id == Lookup(w, n)
        b == w.bindings[id]
    IN Register(IF b.kind = "var" /\ Early(w, b)
                THEN [w EXCEPT !.bindings[id].readBeforeInit = TRUE] ELSE w,
                s, id)

Write(w0, n, s) ==
    LET w == Occurrence(w0, n, s) IN [w EXCEPT !.bindings[Lookup(w, n)].assigned = TRUE]

\* A declarator, after its initialiser has been walked.
Declare(w0, d) ==
    LET w == IF w0.lua /\ d.kind # "var" THEN BindLex(w0, d.n, d.kind) ELSE Known(w0, d.n)
        id == Lookup(w, d.n)
    IN Register(
         IF w.bindings[id].kind # "var" THEN w
         ELSE [w EXCEPT !.bindings[id] =
                 [@ EXCEPT !.declarators = @ + 1,
                           !.hasInit = @ \/ d.init # None,
                           !.initInLoop = @ \/ (d.init # None /\ InLoop(w)),
                           !.declared = TRUE]],
         d.s, id)

\* A direct eval can assign anything in scope.
Eval(w) ==
    LET inScope == UNION {{w.scopes[i].names[n] : n \in DOMAIN w.scopes[i].names} :
                            i \in DOMAIN w.scopes}
    IN [w EXCEPT !.bindings = [id \in DOMAIN @ |->
                                 IF id \in inScope THEN [@[id] EXCEPT !.assigned = TRUE]
                                 ELSE @[id]]]

(***************************************************************************)
(* Jobs.                                                                  *)
(***************************************************************************)
Job(do, x)       == [do |-> do, x |-> x]
Jobs(do, xs)     == [i \in DOMAIN xs |-> Job(do, xs[i])]
Maybe(do, x)     == IF x = None THEN <<>> ELSE <<Job(do, x)>>
EnterBlock       == <<Job("enter", [fn |-> FALSE, hoisted |-> FALSE])>>
LeaveScope       == <<Job("leave", None)>>
Looped(jobs)     == <<Job("loop", 1)>> \o jobs \o <<Job("loop", -1)>>
Lexical(n, s, kind) == [n |-> n, s |-> s, kind |-> kind]

\* collect_nested_vars: every var of the function outside nested functions.
RECURSIVE NestedVars(_)
NestedVars(s) ==
    CASE s.k = "var" /\ s.kind = "var" -> [i \in DOMAIN s.ds |-> s.ds[i].n]
      [] s.k = "block" -> FlattenSeq([i \in DOMAIN s.body |-> NestedVars(s.body[i])])
      [] s.k = "if" -> NestedVars(s.c) \o NestedVars(s.a)
      [] s.k \in {"while", "dowhile", "labeled", "catch"} -> NestedVars(s.body)
      [] s.k = "for" -> NestedVars(s.init) \o NestedVars(s.body)
      [] s.k \in {"forin", "forof"} ->
           (IF s.left.k = "decl" /\ s.left.kind = "var" THEN <<s.left.n>> ELSE <<>>)
             \o NestedVars(s.body)
      [] s.k = "try" ->
           NestedVars(s.block) \o NestedVars(s.handler) \o NestedVars(s.finalizer)
      [] s.k = "switch" ->
           FlattenSeq([i \in DOMAIN s.cases |-> NestedVars(Block(s.cases[i].body))])
      [] OTHER -> <<>>

CollectDecls(lua, kind, ds) ==
    CASE kind = "var" -> [i \in DOMAIN ds |-> Job("var", ds[i].n)]
      [] lua -> <<>>
      [] OTHER -> [i \in DOMAIN ds |-> Job("lex", Lexical(ds[i].n, ds[i].s, kind))]

CollectBlock(lua, stmts) ==
    FlattenSeq([i \in DOMAIN stmts |->
      LET s == stmts[i]
      IN CASE s.k = "fdecl" /\ lua -> <<>>
           [] s.k \in {"fdecl", "exportfn"} -> <<Job("function", s)>>
           [] s.k = "exportdefault" /\ s.e.k = "fn" /\ s.e.n # "" -> <<Job("function", s.e)>>
           [] s.k \in {"var", "exportvar"} -> CollectDecls(lua, s.kind, s.ds)
           [] OTHER -> <<>>])

\* The own name is the one of a named function expression.
FunctionJobs(lua, own, ps, body, hoisted) ==
    LET stmts == BodyStmts(body)
    IN <<Job("enter", [fn |-> TRUE, hoisted |-> hoisted])>>
         \o Jobs("bind", own)
         \o [i \in DOMAIN ps |-> Job("bind", Lexical(ps[i].n, ps[i].s, "param"))]
         \o (IF body.k = "block" THEN CollectBlock(lua, stmts) ELSE <<>>)
         \o Jobs("var", NestedVars(body))
         \o Jobs("stmt", stmts)
         \o LeaveScope

DeclareJobs(kind, ds) ==
    FlattenSeq([i \in DOMAIN ds |->
      Maybe("expr", ds[i].init)
        \o <<Job("declare", [n |-> ds[i].n, s |-> ds[i].s, kind |-> kind, init |-> ds[i].init])>>])

StmtJobs(w, s) ==
    CASE s.k = "block" ->
           EnterBlock \o CollectBlock(w.lua, s.body) \o Jobs("stmt", s.body) \o LeaveScope
      [] s.k \in {"expr", "return", "throw"} -> Maybe("expr", s.e)
      [] s.k \in {"var", "exportvar"} -> DeclareJobs(s.kind, s.ds)
      [] s.k = "fdecl" /\ w.lua ->
           <<IF Visible(w, s.n) THEN Job("write", s) ELSE Job("bind", Lexical(s.n, s.s, "let"))>>
             \o FunctionJobs(TRUE, <<>>, s.ps, s.body, FALSE)
      [] s.k \in {"fdecl", "exportfn"} -> FunctionJobs(w.lua, <<>>, s.ps, s.body, TRUE)
      [] s.k = "exportdefault" ->
           IF s.e.k = "fn" /\ s.e.n # "" THEN FunctionJobs(w.lua, <<>>, s.e.ps, s.e.body, TRUE)
           ELSE <<Job("expr", s.e)>>
      [] s.k = "if" -> <<Job("expr", s.t), Job("stmt", s.c)>> \o Maybe("stmt", s.a)
      [] s.k = "while" -> Looped(<<Job("expr", s.t), Job("stmt", s.body)>>)
      [] s.k = "dowhile" -> Looped(<<Job("stmt", s.body), Job("expr", s.t)>>)
      [] s.k = "for" ->
           EnterBlock
             \o (CASE s.init.k = "none" -> <<>>
                   [] s.init.k = "var" ->
                        (IF s.init.kind = "var" THEN <<>>
                         ELSE [i \in DOMAIN s.init.ds |->
                                 Job("lex", Lexical(s.init.ds[i].n, 0, s.init.kind))])
                          \o DeclareJobs(s.init.kind, s.init.ds)
                   [] OTHER -> <<Job("expr", s.init)>>)
             \o Looped(Maybe("expr", s.t) \o <<Job("stmt", s.body)>> \o Maybe("expr", s.u))
             \o LeaveScope
      [] s.k \in {"forin", "forof"} ->
           <<Job("expr", s.right)>> \o EnterBlock
             \o <<CASE s.left.k # "decl" -> Job("target", s.left)
                    [] s.left.kind = "var" -> Job("write", s.left)
                    [] OTHER -> Job("bind", s.left)>>
             \o Looped(<<Job("stmt", s.body)>>) \o LeaveScope
      [] s.k = "try" ->
           <<Job("stmt", s.block)>>
             \o (IF s.handler = None THEN <<>>
                 ELSE EnterBlock \o <<Job("bind", Lexical(s.handler.n, s.handler.s, "let")),
                                      Job("stmt", s.handler.body)>> \o LeaveScope)
             \o Maybe("stmt", s.finalizer)
      [] s.k = "switch" ->
           <<Job("expr", s.d)>> \o EnterBlock
             \o FlattenSeq([i \in DOMAIN s.cases |-> CollectBlock(w.lua, s.cases[i].body)])
             \o FlattenSeq([i \in DOMAIN s.cases |->
                          Maybe("expr", s.cases[i].t) \o Jobs("stmt", s.cases[i].body)])
             \o LeaveScope
      [] s.k = "labeled" -> <<Job("stmt", s.body)>>
      [] OTHER -> <<>>

PropJobs(w, p) ==
    CASE p.k = "prop" -> <<Job("expr", p.v)>>
      [] p.k = "method" -> FunctionJobs(w.lua, <<>>, p.ps, p.body, FALSE)
      [] p.k = "getter" -> FunctionJobs(w.lua, <<>>, <<>>, p.body, FALSE)
      [] p.k = "setter" -> FunctionJobs(w.lua, <<>>, <<p.p>>, p.body, FALSE)
      [] p.k = "spreadprop" -> <<Job("expr", p.e)>>

ExprJobs(w, e) ==
    CASE e.k = "id" -> <<Job("occurrence", e)>>
      [] e.k = "object" -> FlattenSeq([i \in DOMAIN e.ps |-> PropJobs(w, e.ps[i])])
      [] e.k = "fn" ->
           FunctionJobs(w.lua, IF e.n = "" THEN <<>> ELSE <<Lexical(e.n, e.s, "const")>>,
                        e.ps, e.body, FALSE)
      [] e.k \in {"call", "new"} /\ e.f.k = "id" /\ e.f.n = "eval" /\ ~Visible(w, "eval") ->
           <<Job("eval", None)>> \o Jobs("expr", Children(e))
      [] e.k = "unary" /\ IsUpdate(e.op) -> <<Job("target", e.e)>>
      [] e.k = "assign" -> <<Job("expr", e.r), Job("target", e.l)>>
      [] OTHER -> Jobs("expr", Children(e))

TargetJobs(e) ==
    CASE e.k = "id" -> <<Job("write", e)>>
      [] e.k = "array" -> Jobs("target", Children(e))
      [] e.k = "object" ->
           FlattenSeq([i \in DOMAIN e.ps |->
             CASE e.ps[i].k = "prop" -> <<Job("target", e.ps[i].v)>>
               [] e.ps[i].k = "spreadprop" -> <<Job("target", e.ps[i].e)>>
               [] OTHER -> <<>>])
      [] e.k \in {"spread", "restarray"} -> <<Job("target", e.e)>>
      [] e.k = "assign" -> <<Job("target", e.l), Job("expr", e.r)>>
      [] OTHER -> <<Job("expr", e)>>

Parts(w, j) ==
    CASE j.do = "stmt" -> StmtJobs(w, j.x)
      [] j.do = "expr" -> ExprJobs(w, j.x)
      [] j.do = "target" -> TargetJobs(j.x)

Do(w, j) ==
    CASE j.do = "enter" -> Enter(w, j.x.fn, j.x.hoisted)
      [] j.do = "leave" -> Leave(w)
      [] j.do = "loop" -> Looping(w, j.x)
      [] j.do = "var" -> BindVar(w, j.x)
      [] j.do = "lex" -> BindLex(w, j.x.n, j.x.kind)
      [] j.do = "bind" -> Register(BindLex(w, j.x.n, j.x.kind), j.x.s, Len(w.bindings) + 1)
      [] j.do = "function" -> BindFunction(w, j.x.n, j.x.s)
      [] j.do = "occurrence" -> Occurrence(w, j.x.n, j.x.s)
      [] j.do = "write" -> Write(w, j.x.n, j.x.s)
      [] j.do = "declare" -> Declare(w, j.x)
      [] j.do = "eval" -> Eval(Known(w, "eval"))

\* One job: a statement or an expression makes way for its parts.
Step(c) ==
    LET j == Head(c.todo)
    IN IF j.do \in {"stmt", "expr", "target"}
       THEN [w |-> c.w, todo |-> Parts(c.w, j) \o Tail(c.todo)]
       ELSE [w |-> Do(c.w, j), todo |-> Tail(c.todo)]

RECURSIVE Walk(_)
Walk(c) == IF c.todo = <<>> THEN c.w ELSE Walk(Step(c))

(***************************************************************************)
(* Resolution::of_program, and the questions inference asks of it.        *)
(***************************************************************************)
OfProgram(stmts, lua) ==
    Walk([w |-> Enter(Walker(lua), TRUE, FALSE),
          todo |-> CollectBlock(lua, stmts) \o Jobs("var", NestedVars(Block(stmts)))
                     \o Jobs("stmt", stmts)])

\* The bindings of that name a span is registered for: one, or the answer
\* of binding_at is None.
BindingsAt(res, s, n) == {o[2] : o \in {p \in res.occurrences : p[1] = s /\ res.bindings[p[2]].n = n}}
BindingAt(res, s, n) ==
    LET ids == BindingsAt(res, s, n) IN IF \E id \in ids : ids = {id} THEN CHOOSE id \in ids : TRUE ELSE 0
LocalAt(res, s, n) ==
    LET id == BindingAt(res, s, n)
    IN IF id # 0 /\ res.bindings[id].kind # "global" THEN id ELSE 0
StableAt(res, s, n) == LET id == BindingAt(res, s, n) IN id # 0 /\ Stable(res.bindings[id])
ConstantAt(res, s, n) ==
    LET id == BindingAt(res, s, n) IN id # 0 /\ res.bindings[id].kind = "const"
WrittenAt(res, s, n) == LET id == BindingAt(res, s, n) IN id # 0 /\ ~Stable(res.bindings[id])
============================================================================
