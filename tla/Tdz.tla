-------------------------------- MODULE Tdz --------------------------------
(***************************************************************************)
(* The use-before-initialisation analysis (crates/inty/src/ast/tdz.rs):   *)
(* statements are walked in the order they run, a direct call of a known  *)
(* function walks its body at that point, and a function that is only     *)
(* referenced is walked at the end.                                       *)
(*                                                                        *)
(* As in Resolve the walk is a list of jobs; here a job also carries the  *)
(* scope chain (frame indices) it runs in.                                *)
(***************************************************************************)
EXTENDS Ast, TLC

LOCAL INSTANCE SequencesExt

\* A binding's state is "always", "init", or the kind of an uninitialised
\* declaration.  A function is known by the span of its literal.
FuncRef(id, n, ps, body, chain) ==
    [k |-> "func", id |-> id, n |-> n, ps |-> ps, body |-> body, chain |-> chain]
Bound(state, func) == [state |-> state, func |-> func]
Frame(fn) == [fn |-> fn, names |-> << >>]
IsUninit(state) == state \in {"var", "let", "const"}

Walker ==
    [frames |-> <<Frame(TRUE)>>, violations |-> {}, epoch |-> 0, walkedAt |-> << >>,
     active |-> {}, ever |-> {}, deferred |-> <<>>]

(***************************************************************************)
(* Scopes.                                                                *)
(***************************************************************************)
InScope(w, chain, n) == \E i \in DOMAIN chain : n \in DOMAIN w.frames[chain[i]].names
Lookup(w, chain, n) ==
    chain[CHOOSE i \in DOMAIN chain :
            /\ n \in DOMAIN w.frames[chain[i]].names
            /\ \A j \in (i + 1)..Len(chain) : n \notin DOMAIN w.frames[chain[j]].names]
BindingOf(w, chain, n) == w.frames[Lookup(w, chain, n)].names[n]

FunctionFrame(w, chain) ==
    chain[CHOOSE i \in DOMAIN chain :
            w.frames[chain[i]].fn /\ \A j \in (i + 1)..Len(chain) : ~w.frames[chain[j]].fn]

Bind(w, f, n, state, func) == [w EXCEPT !.frames[f].names = (n :> Bound(state, func)) @@ @]
NewFrame(w, fn) == [w EXCEPT !.frames = Append(@, Frame(fn))]
Inner(w, chain) == Append(chain, Len(w.frames) + 1)

Violation(w, n, s, kind) == [w EXCEPT !.violations = @ \cup {[n |-> n, s |-> s, kind |-> kind]}]

Read(w, chain, n, s) ==
    IF InScope(w, chain, n) /\ IsUninit(BindingOf(w, chain, n).state)
    THEN Violation(w, n, s, BindingOf(w, chain, n).state) ELSE w

\* The function a read of n gives, if it is known.
ReadFunction(w, chain, n) ==
    IF InScope(w, chain, n) /\ ~IsUninit(BindingOf(w, chain, n).state)
    THEN BindingOf(w, chain, n).func ELSE None

InitialiseName(w, chain, n) ==
    IF InScope(w, chain, n) /\ IsUninit(BindingOf(w, chain, n).state)
    THEN [w EXCEPT !.frames[Lookup(w, chain, n)].names[n].state = "init", !.epoch = @ + 1]
    ELSE w

Defer(w, f) == [w EXCEPT !.deferred = Append(@, f)]

(***************************************************************************)
(* Jobs.                                                                  *)
(***************************************************************************)
Job(do, x, chain)   == [do |-> do, x |-> x, chain |-> chain]
Jobs(do, xs, chain) == [i \in DOMAIN xs |-> Job(do, xs[i], chain)]
Maybe(do, x, chain) == IF x = None THEN <<>> ELSE <<Job(do, x, chain)>>
Then(w, jobs) == [w |-> w, jobs |-> jobs]

WalkStmts(stmts, chain) == Jobs("hoist", stmts, chain) \o Jobs("stmt", stmts, chain)

Called(w, f) == f.id \in w.active \/ (f.id \in DOMAIN w.walkedAt /\ w.walkedAt[f.id] = w.epoch)

RECURSIVE BindAll(_, _, _)
BindAll(w, f, ps) ==
    IF ps = <<>> THEN w ELSE BindAll(Bind(w, f, Head(ps).n, "always", None), f, Tail(ps))

\* call: a body is walked again only when a binding has been initialised
\* since it was last walked, and never while it is being walked.
CallFunction(w, f) ==
    IF Called(w, f) THEN Then(w, <<>>)
    ELSE LET chain == Inner(w, f.chain)
             here == Len(w.frames) + 1
             v == [NewFrame(w, TRUE) EXCEPT !.walkedAt = (f.id :> w.epoch) @@ @,
                                            !.ever = @ \cup {f.id},
                                            !.active = @ \cup {f.id}]
         IN Then(BindAll(IF f.n = "" THEN v ELSE Bind(v, here, f.n, "always", f), here, f.ps),
                 WalkStmts(BodyStmts(f.body), chain) \o <<Job("return", f.id, chain)>>)

FunctionOf(e, chain) == FuncRef(e.s, e.n, e.ps, e.body, chain)

\* hoist: the names a statement declares in its scope.
HoistDecl(w, kind, d, chain) ==
    LET func == IF d.init.k = "fn" THEN FunctionOf(d.init, chain) ELSE None
        target == FunctionFrame(w, chain)
    IN CASE kind # "var" -> Bind(w, chain[Len(chain)], d.n, kind, func)
         [] d.n \in DOMAIN w.frames[target].names -> w
         [] OTHER -> Bind(w, target, d.n, "var", func)

RECURSIVE HoistDecls(_, _, _, _)
HoistDecls(w, kind, ds, chain) ==
    IF ds = <<>> THEN w
    ELSE HoistDecls(HoistDecl(w, kind, Head(ds), chain), kind, Tail(ds), chain)

Hoist(w, s, chain) ==
    CASE s.k \in {"fdecl", "exportfn"} ->
           Bind(w, chain[Len(chain)], s.n, "always", FunctionOf(s, chain))
      [] s.k \in {"var", "exportvar"} -> HoistDecls(w, s.kind, s.ds, chain)
      [] s.k = "import" -> Bind(w, chain[Len(chain)], s.n, "always", None)
      [] OTHER -> w

\* Mutant: a name leaves its dead zone before its initialiser runs.
DeclJobsEarly(ds, chain) ==
    FlattenSeq([i \in DOMAIN ds |->
      CASE ds[i].init = None -> <<Job("undefined", ds[i].n, chain)>>
        [] OTHER -> <<Job("initialise", ds[i].n, chain), Job("expr", ds[i].init, chain)>>])

\* A declarator: a function initialiser is deferred, any other is walked;
\* `let x;` leaves the dead zone, `var x;` stays unassigned.
DeclJobs(ds, chain) ==
    FlattenSeq([i \in DOMAIN ds |->
      CASE ds[i].init = None -> <<Job("undefined", ds[i].n, chain)>>
        [] OTHER -> <<Job("expr", ds[i].init, chain), Job("initialise", ds[i].n, chain)>>])

ForStmt(w, s, chain) ==
    LET inner == Inner(w, chain)
        v == NewFrame(w, FALSE)
    IN Then(IF s.init.k = "var" THEN HoistDecls(v, s.init.kind, s.init.ds, inner) ELSE v,
            (CASE s.init.k = "none" -> <<>>
               [] s.init.k = "var" -> DeclJobs(s.init.ds, inner)
               [] OTHER -> <<Job("expr", s.init, inner)>>)
              \o Maybe("expr", s.t, inner) \o <<Job("stmt", s.body, inner)>>
              \o Maybe("expr", s.u, inner))

\* The body of for-in, for-of and catch runs in a frame of its own.
Framed(w, x, chain) ==
    LET inner == Inner(w, chain)
        v == NewFrame(w, FALSE)
        here == Len(w.frames) + 1
    IN CASE x.k = "catch" -> Then(Bind(v, here, x.n, "always", None), <<Job("stmt", x.body, inner)>>)
         [] x.left.k = "decl" ->
              Then(Bind(v, here, x.left.n, "always", None), <<Job("stmt", x.body, inner)>>)
         [] OTHER -> Then(v, <<Job("target", x.left, inner), Job("stmt", x.body, inner)>>)

SwitchCases(w, cases, chain) ==
    LET inner == Inner(w, chain)
    IN Then(NewFrame(w, FALSE),
            FlattenSeq([i \in DOMAIN cases |-> Jobs("hoist", cases[i].body, inner)])
              \o FlattenSeq([i \in DOMAIN cases |->
                           Maybe("expr", cases[i].t, inner) \o Jobs("stmt", cases[i].body, inner)]))

WalkStmt(w, s, chain) ==
    CASE s.k = "block" -> Then(NewFrame(w, FALSE), WalkStmts(s.body, Inner(w, chain)))
      [] s.k \in {"expr", "return", "throw", "exportdefault"} -> Then(w, Maybe("expr", s.e, chain))
      [] s.k \in {"var", "exportvar"} -> Then(w, DeclJobs(s.ds, chain))
      [] s.k \in {"fdecl", "exportfn"} -> Then(Defer(w, FunctionOf(s, chain)), <<>>)
      [] s.k = "exportlist" -> Then(IF s.n = "default" THEN w ELSE Read(w, chain, s.n, s.s), <<>>)
      [] s.k = "if" ->
           Then(w, <<Job("expr", s.t, chain), Job("stmt", s.c, chain)>> \o Maybe("stmt", s.a, chain))
      [] s.k \in {"while", "dowhile"} ->
           Then(w, <<Job("expr", s.t, chain), Job("stmt", s.body, chain)>>)
      [] s.k = "for" -> ForStmt(w, s, chain)
      [] s.k \in {"forin", "forof"} ->
           Then(w, <<Job("expr", s.right, chain), Job("framed", s, chain)>>)
      [] s.k = "try" ->
           Then(w, <<Job("stmt", s.block, chain)>> \o Maybe("framed", s.handler, chain)
                     \o Maybe("stmt", s.finalizer, chain))
      [] s.k = "switch" ->
           Then(w, <<Job("expr", s.d, chain), Job("cases", s.cases, chain)>>)
      [] s.k = "labeled" -> Then(w, <<Job("stmt", s.body, chain)>>)
      [] OTHER -> Then(w, <<>>)

\* An assignment target; a compound one reads the old value first.
WalkTarget(w, e, chain, compound) ==
    CASE e.k # "id" -> Then(w, <<Job("expr", e, chain)>>)
      [] ~InScope(w, chain, e.n) -> Then(w, <<>>)
      [] BindingOf(w, chain, e.n).state = "var" /\ ~compound ->
           Then(InitialiseName(w, chain, e.n), <<>>)
      [] OTHER -> Then(Read(w, chain, e.n, e.s), <<>>)

\* The callee is read before the arguments are walked, the body after.
WalkCall(w, e, chain) ==
    LET f == CASE e.f.k = "id" -> ReadFunction(w, chain, e.f.n)
               [] e.f.k = "fn" /\ e.k = "call" -> FunctionOf(e.f, chain)
               [] OTHER -> None
    IN Then(IF e.f.k = "id" THEN Read(w, chain, e.f.n, e.f.s) ELSE w,
            (IF e.f.k = "id" \/ (e.f.k = "fn" /\ e.k = "call") THEN <<>>
             ELSE <<Job("expr", e.f, chain)>>)
              \o Jobs("expr", e.as, chain) \o Maybe("call", f, chain))

PropJob(p, chain) ==
    CASE p.k = "prop" -> Job("expr", p.v, chain)
      [] p.k = "spreadprop" -> Job("expr", p.e, chain)
      [] p.k = "method" -> Job("defer", FuncRef(p.s, "", p.ps, p.body, chain), chain)
      [] p.k = "getter" -> Job("defer", FuncRef(p.s, "", <<>>, p.body, chain), chain)
      [] p.k = "setter" -> Job("defer", FuncRef(p.p.s, "", <<>>, p.body, chain), chain)

WalkExpr(w, e, chain) ==
    CASE e.k = "id" -> Then(Read(w, chain, e.n, e.s), <<>>)
      [] e.k = "object" -> Then(w, [i \in DOMAIN e.ps |-> PropJob(e.ps[i], chain)])
      [] e.k = "fn" -> Then(Defer(w, FunctionOf(e, chain)), <<>>)
      [] e.k \in {"call", "new"} -> WalkCall(w, e, chain)
      [] e.k = "unary" /\ IsUpdate(e.op) -> WalkTarget(w, e.e, chain, TRUE)
      [] e.k = "assign" /\ e.op = "=" ->
           Then(w, <<Job("expr", e.r, chain), Job("target", e.l, chain)>>)
      [] e.k = "assign" ->
           Then(w, <<Job("compound", e.l, chain), Job("expr", e.r, chain)>>)
      [] OTHER -> Then(w, Jobs("expr", Children(e), chain))

Step(w, j) ==
    CASE j.do = "stmt" -> WalkStmt(w, j.x, j.chain)
      [] j.do = "expr" -> WalkExpr(w, j.x, j.chain)
      [] j.do = "target" -> WalkTarget(w, j.x, j.chain, FALSE)
      [] j.do = "compound" -> WalkTarget(w, j.x, j.chain, TRUE)
      [] j.do = "hoist" -> Then(Hoist(w, j.x, j.chain), <<>>)
      [] j.do = "initialise" -> Then(InitialiseName(w, j.chain, j.x), <<>>)
      [] j.do = "undefined" ->
           Then(IF InScope(w, j.chain, j.x) /\ BindingOf(w, j.chain, j.x).state \in {"let", "const"}
                THEN InitialiseName(w, j.chain, j.x) ELSE w, <<>>)
      [] j.do = "framed" -> Framed(w, j.x, j.chain)
      [] j.do = "cases" -> SwitchCases(w, j.x, j.chain)
      [] j.do = "defer" -> Then(Defer(w, j.x), <<>>)
      [] j.do = "call" -> CallFunction(w, j.x)
      [] j.do = "return" -> Then([w EXCEPT !.active = @ \ {j.x}], <<>>)

\* check_program: run the statements, then the functions only referenced,
\* the last one first.
RECURSIVE Run(_, _)
Run(w, todo) ==
    CASE todo # <<>> ->
           LET r == Step(w, Head(todo)) IN Run(r.w, r.jobs \o Tail(todo))
      [] w.deferred # <<>> ->
           LET f == w.deferred[Len(w.deferred)]
               v == [w EXCEPT !.deferred = SubSeq(@, 1, Len(@) - 1)]
           IN Run(v, IF f.id \in w.ever THEN <<>> ELSE <<Job("call", f, <<1>>)>>)
      [] OTHER -> w

CheckProgram(stmts) == Run(Walker, WalkStmts(stmts, <<1>>)).violations
============================================================================
