----------------------------- MODULE FreeIdents -----------------------------
(***************************************************************************)
(* Free-identifier analysis (crates/inty/src/ast/free_idents.rs): the     *)
(* names a sub-tree looks up outside itself.  Inference orders function    *)
(* declarations by it.  As in Resolve the walk is a list of jobs.          *)
(***************************************************************************)
EXTENDS Ast, TLC

LOCAL INSTANCE SequencesExt

\* free counts the references of each free name.
State == [scopes |-> <<>>, free |-> << >>, sawThis |-> FALSE]

EnterScope(st, fn) == [st EXCEPT !.scopes = Append(@, [fn |-> fn, names |-> {}])]
LeaveScope(st) == [st EXCEPT !.scopes = Front(@)]

BindLex(st, n) ==
    IF st.scopes = <<>> THEN st ELSE [st EXCEPT !.scopes[Len(st.scopes)].names = @ \cup {n}]

\* The innermost function scope, or the outermost scope.
BindVar(st, n) ==
    LET fns == {i \in DOMAIN st.scopes : st.scopes[i].fn}
        at == IF fns = {} THEN 1 ELSE CHOOSE i \in fns : \A j \in fns : j <= i
    IN IF st.scopes = <<>> THEN st ELSE [st EXCEPT !.scopes[at].names = @ \cup {n}]

RecordRef(st, n) ==
    IF \E i \in DOMAIN st.scopes : n \in st.scopes[i].names THEN st
    ELSE [st EXCEPT !.free = (n :> IF n \in DOMAIN @ THEN @[n] + 1 ELSE 1) @@ @]

(***************************************************************************)
(* Jobs.                                                                  *)
(***************************************************************************)
Job(do, x)       == [do |-> do, x |-> x]
Jobs(do, xs)     == [i \in DOMAIN xs |-> Job(do, xs[i])]
Maybe(do, x)     == IF x = None THEN <<>> ELSE <<Job(do, x)>>
Scoped(fn, jobs) == <<Job("enter", fn)>> \o jobs \o <<Job("leave", None)>>

Names(ds) == [i \in DOMAIN ds |-> ds[i].n]
Inits(ds) == [i \in DOMAIN ds |-> ds[i].init]
BindDecls(kind, ds) == Jobs(IF kind = "var" THEN "var" ELSE "lex", Names(ds))

\* A loop variable is taken as block scoped whatever its kind, and a var
\* that is itself the body of an if or a loop is not seen.
RECURSIVE NestedVars(_)
NestedVars(s) ==
    LET vars(stmts) ==
          FlattenSeq([i \in DOMAIN stmts |->
            (IF stmts[i].k = "var" /\ stmts[i].kind = "var" THEN Names(stmts[i].ds) ELSE <<>>)
              \o NestedVars(stmts[i])])
    IN CASE s.k = "block" -> vars(s.body)
         [] s.k = "if" -> NestedVars(s.c) \o NestedVars(s.a)
         [] s.k \in {"while", "dowhile", "labeled", "catch", "forin", "forof"} -> NestedVars(s.body)
         [] s.k = "for" ->
              (IF s.init.k = "var" /\ s.init.kind = "var" THEN Names(s.init.ds) ELSE <<>>)
                \o NestedVars(s.body)
         [] s.k = "try" -> NestedVars(s.block) \o NestedVars(s.handler) \o NestedVars(s.finalizer)
         [] s.k = "switch" -> FlattenSeq([i \in DOMAIN s.cases |-> vars(s.cases[i].body)])
         [] OTHER -> <<>>

CollectBlock(stmts) ==
    FlattenSeq([i \in DOMAIN stmts |->
      LET s == stmts[i]
      IN CASE s.k \in {"fdecl", "exportfn", "import"} -> <<Job("lex", s.n)>>
           [] s.k \in {"var", "exportvar"} -> BindDecls(s.kind, s.ds)
           [] OTHER -> <<>>])

\* Mutant: the vars of nested blocks are missed.
CollectFunctionFlat(body) == IF body.k = "block" THEN CollectBlock(body.body) ELSE <<>>

CollectFunction(body) ==
    (IF body.k = "block" THEN CollectBlock(body.body) ELSE <<>>) \o Jobs("var", NestedVars(body))

FunctionJobs(own, ps, body) ==
    Scoped(TRUE, Jobs("lex", own \o Names(ps)) \o CollectFunction(body) \o <<Job("stmt", body)>>)

VisitInits(ds) == Jobs("expr", SelectSeq(Inits(ds), LAMBDA e : e # None))

ForInitJobs(init) ==
    CASE init.k = "none" -> <<>>
      [] init.k = "var" ->
           FlattenSeq([i \in DOMAIN init.ds |->
             BindDecls(init.kind, <<init.ds[i]>>) \o Maybe("expr", init.ds[i].init)])
      [] OTHER -> <<Job("expr", init)>>

VisitStmt(s) ==
    CASE s.k = "block" -> Scoped(FALSE, CollectBlock(s.body) \o Jobs("stmt", s.body))
      [] s.k \in {"expr", "return", "throw", "exportdefault"} -> Maybe("expr", s.e)
      [] s.k \in {"var", "exportvar"} -> VisitInits(s.ds)
      [] s.k = "if" -> <<Job("expr", s.t), Job("stmt", s.c)>> \o Maybe("stmt", s.a)
      [] s.k = "while" -> <<Job("expr", s.t), Job("stmt", s.body)>>
      [] s.k = "dowhile" -> <<Job("stmt", s.body), Job("expr", s.t)>>
      [] s.k = "for" ->
           Scoped(FALSE, ForInitJobs(s.init) \o Maybe("expr", s.t) \o Maybe("expr", s.u)
                           \o <<Job("stmt", s.body)>>)
      [] s.k \in {"forin", "forof"} ->
           <<Job("expr", s.right)>>
             \o Scoped(FALSE, <<IF s.left.k = "decl" THEN Job("lex", s.left.n)
                                ELSE Job("expr", s.left), Job("stmt", s.body)>>)
      [] s.k = "try" ->
           <<Job("stmt", s.block)>>
             \o (IF s.handler = None THEN <<>>
                 ELSE Scoped(FALSE, <<Job("lex", s.handler.n), Job("stmt", s.handler.body)>>))
             \o Maybe("stmt", s.finalizer)
      [] s.k = "switch" ->
           <<Job("expr", s.d)>>
             \o Scoped(FALSE,
                  FlattenSeq([i \in DOMAIN s.cases |-> CollectBlock(s.cases[i].body)])
                    \o FlattenSeq([i \in DOMAIN s.cases |->
                         Maybe("expr", s.cases[i].t) \o Jobs("stmt", s.cases[i].body)]))
      [] s.k = "labeled" -> <<Job("stmt", s.body)>>
      [] s.k \in {"fdecl", "exportfn"} -> FunctionJobs(<<>>, s.ps, s.body)
      [] OTHER -> <<>>

VisitProp(p) ==
    CASE p.k = "prop" -> <<Job("expr", p.v)>>
      [] p.k = "method" -> FunctionJobs(<<>>, p.ps, p.body)
      [] p.k = "getter" -> FunctionJobs(<<>>, <<>>, p.body)
      [] p.k = "setter" -> FunctionJobs(<<>>, <<p.p>>, p.body)
      [] p.k = "spreadprop" -> <<Job("expr", p.e)>>

VisitExpr(e) ==
    CASE e.k = "this" -> <<Job("this", None)>>
      [] e.k = "id" -> <<Job("ref", e.n)>>
      [] e.k = "object" -> FlattenSeq([i \in DOMAIN e.ps |-> VisitProp(e.ps[i])])
      [] e.k = "fn" -> FunctionJobs(IF e.n = "" THEN <<>> ELSE <<e.n>>, e.ps, e.body)
      [] OTHER -> Jobs("expr", Children(e))

Do(st, j) ==
    CASE j.do = "enter" -> EnterScope(st, j.x)
      [] j.do = "leave" -> LeaveScope(st)
      [] j.do = "lex" -> BindLex(st, j.x)
      [] j.do = "var" -> BindVar(st, j.x)
      [] j.do = "ref" -> RecordRef(st, j.x)
      [] j.do = "this" -> [st EXCEPT !.sawThis = TRUE]

Step(c) ==
    LET j == Head(c.todo)
    IN CASE j.do = "stmt" -> [st |-> c.st, todo |-> VisitStmt(j.x) \o Tail(c.todo)]
         [] j.do = "expr" -> [st |-> c.st, todo |-> VisitExpr(j.x) \o Tail(c.todo)]
         [] OTHER -> [st |-> Do(c.st, j), todo |-> Tail(c.todo)]

RECURSIVE Walk(_)
Walk(c) == IF c.todo = <<>> THEN c.st ELSE Walk(Step(c))
Visit(st, todo) == Walk([st |-> st, todo |-> todo])

(***************************************************************************)
(* The questions the rest of the program asks.                            *)
(***************************************************************************)
VisitedStmt(s) == Visit(EnterScope(State, FALSE), CollectBlock(<<s>>) \o <<Job("stmt", s)>>)
VisitedExpr(e) == Visit(State, <<Job("expr", e)>>)

FreeInFunctionBody(n, ps, body) ==
    DOMAIN Visit(EnterScope(State, TRUE),
                 Jobs("lex", (IF n = "" THEN <<>> ELSE <<n>>) \o Names(ps))
                   \o CollectFunction(body) \o <<Job("stmt", body)>>).free
FreeInStmt(s)        == DOMAIN VisitedStmt(s).free
FreeCountsInStmt(s)  == VisitedStmt(s).free
FreeInExpr(e)        == DOMAIN VisitedExpr(e).free
MentionsThis(e)      == VisitedExpr(e).sawThis
MentionsThisInStmt(s) == VisitedStmt(s).sawThis
============================================================================
