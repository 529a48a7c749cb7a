------------------------------ MODULE MCScopes ------------------------------
(***************************************************************************)
(* The scope passes against the evaluator and against each other, on the  *)
(* programs a bounded number of template statements over the names x and  *)
(* f can make.                                                            *)
(*                                                                        *)
(* A program is written from top to bottom: a step appends a statement to  *)
(* the innermost open block, opens a block or closes one.  Every state is  *)
(* a program, with the blocks still open closed at its end, and its last   *)
(* step asks what the passes say of it.  Spans are numbered in the order   *)
(* of the text.                                                            *)
(***************************************************************************)
EXTENDS Dynamics

R == INSTANCE Resolve
T == INSTANCE Tdz
F == INSTANCE FreeIdents
L == INSTANCE LspResolver

CONSTANTS Families,     \* sets of templates to write programs with
          Fuel          \* evaluation steps

VARIABLES family,       \* the family this program is written with
          open,         \* the blocks being written, outermost first
          size,         \* statements written so far
          text,         \* their templates, as the program reads
          asked         \* the program is written: it has been resolved and run

vars == <<family, open, size, text, asked>>

(***************************************************************************)
(* Templates.  Each uses the spans s .. s + 3; literals are numbered by   *)
(* span, so that every site stores a value of its own.                    *)
(***************************************************************************)
Decl(kind, s, e) == VarStmt(kind, <<Declarator("x", s, e)>>)
CallF(s) == Call(Ident("f", s), <<Lit(Num(s))>>)
Two(s) == ArrayLit(<<Lit(Num(s)), Lit(Num(s + 1))>>)

P == <<112>>
Q == <<113>>

SimpleStmt(t, s) ==
    CASE t = "let x" -> Decl("let", s, Lit(Num(s)))
      [] t = "const x" -> Decl("const", s, Lit(Num(s)))
      [] t = "var x" -> Decl("var", s, Lit(Num(s)))
      [] t = "let x = f()" -> Decl("let", s, CallF(s + 1))
      [] t = "var f = x" -> VarStmt("var", <<Declarator("f", s, Ident("x", s + 1))>>)
      [] t = "x" -> ExprStmt(Ident("x", s))
      [] t = "x = 0" -> ExprStmt(Assign("=", Ident("x", s), Lit(Num(s))))
      [] t = "x += 1" -> ExprStmt(Assign("+=", Ident("x", s), Lit(Num(1))))
      [] t = "x++" -> ExprStmt(Unary("x++", Ident("x", s)))
      [] t = "f()" -> ExprStmt(CallF(s))
      [] t = "return x" -> Return(Ident("x", s))
      [] t = "throw x" -> Throw(Ident("x", s))
      [] t = "break" -> Break("")
      [] t = "continue" -> Continue("")
      [] t = "export let x" -> ExportVar("let", <<Declarator("x", s, Lit(Num(s)))>>)
      [] t = "export { x }" -> ExportList("x", s)
      [] t = "let x = {}" ->
           Decl("let", s, ObjectLit(<<Property(P, Lit(Num(s))),
                                      Getter(Q, s + 1, Block(<<Return(Member(This, P))>>))>>))
      [] t = "x.p = x.q" -> ExprStmt(Assign("=", Member(Ident("x", s), P), Member(Ident("x", s + 1), Q)))
      [] t = "x.q += 1" -> ExprStmt(Assign("+=", Member(Ident("x", s), Q), Lit(Num(1))))
      [] t = "x = {...x}" ->
           ExprStmt(Assign("=", Ident("x", s), ObjectLit(<<SpreadProp(Ident("x", s + 1))>>)))
      [] t = "x = rest" -> ExprStmt(Assign("=", Ident("x", s), RestRow(Ident("x", s + 1), {P})))
      [] t = "x = [x.q, ...[x]]" ->
           ExprStmt(Assign("=", Ident("x", s),
                           ArrayLit(<<Member(Ident("x", s + 1), Q),
                                      SpreadArg(ArrayLit(<<Ident("x", s + 2)>>))>>)))
      [] t = "x[0] = x" ->
           ExprStmt(Assign("=", Computed(Ident("x", s), Lit(Num(0))), Ident("x", s + 1)))
      [] t = "x.length = 0" -> ExprStmt(Assign("=", Member(Ident("x", s), LengthKey), Lit(Num(0))))

Set(s) == ExprStmt(Assign("=", Ident("x", s), Lit(Num(s))))

OpenStmt(t, s, body) ==
    CASE t = "function f()" -> FunctionDecl("f", s, <<>>, Block(body))
      [] t = "function f(x)" -> FunctionDecl("f", s, <<Param("x", s + 1)>>, Block(body))
      [] t = "let f = function x()" ->
           VarStmt("let", <<Declarator("f", s, Function("x", s + 1, <<>>, Block(body), FALSE))>>)
      [] t = "const f = (x) =>" ->
           VarStmt("const", <<Declarator("f", s, Function("", s + 1, <<Param("x", s + 2)>>,
                                                          Block(body), TRUE))>>)
      [] t = "(function() {})()" ->
           ExprStmt(Call(Function("", s, <<>>, Block(body), FALSE), <<>>))
      [] t = "{}" -> Block(body)
      [] t = "if (x)" -> If(Ident("x", s), Block(body), None)
      [] t = "for (let x of)" -> ForOf(ForDecl("let", "x", s), Two(s), Block(body))
      [] t = "for (x of)" -> ForOf(Ident("x", s), Two(s), Block(body))
      [] t = "for (let x;;x++)" ->
           For(Decl("let", s, Lit(Num(1))), Binary("<", Ident("x", s + 1), Lit(Num(3))),
               Unary("x++", Ident("x", s + 2)), Block(body))
      [] t = "catch (x)" ->
           Try(Block(<<Throw(Lit(Num(s)))>>), Catch("x", s, Block(body)), None)
      [] t = "try {} finally" -> Try(Block(<<Set(s)>> \o body), None, Block(<<Set(s + 1)>>))
      [] t = "finally {}" -> Try(Block(<<Set(s), Throw(Lit(Num(s)))>>), None, Block(<<Set(s + 1)>> \o body))
      [] t = "export function f()" -> ExportFunction("f", s, <<>>, Block(body))
      [] t = "switch (x)" ->
           Switch(Ident("x", s), <<Case(Lit(Num(1)), body), Case(None, <<ExprStmt(Ident("x", s + 1))>>)>>)
      [] t = "do while (x < 3)" ->
           DoWhile(Block(body), Binary("<", Ident("x", s), Lit(Num(3))))

\* The names a template declares in the block around it.
DeclaresLex(t) ==
    CASE t \in {"let x", "const x", "let x = f()", "export let x", "let x = {}"} -> {"x"}
      [] t \in {"let f = function x()", "const f = (x) =>"} -> {"f"}
      [] OTHER -> {}
DeclaresVar(t) ==
    CASE t = "var x" -> {"x"}
      [] t = "var f = x" -> {"f"}
      [] OTHER -> {}
DeclaresFunction(t) == IF t \in {"function f()", "function f(x)", "export function f()"} THEN {"f"} ELSE {}

IsFunction(t) ==
    t \in {"program", "function f()", "function f(x)", "export function f()", "let f = function x()",
           "const f = (x) =>", "(function() {})()"}
\* The names that come with a template's own block.
Params(t) == IF t \in {"function f(x)", "const f = (x) =>", "catch (x)"} THEN {"x"} ELSE {}
OwnName(t) ==
    CASE DeclaresFunction(t) # {} -> {"f"}
      [] t = "let f = function x()" -> {"x"}
      [] OTHER -> {}
LoopNames(t) == IF t \in {"for (let x of)", "for (let x;;x++)"} THEN {"x"} ELSE {}

(***************************************************************************)
(* Writing a program.  Declarations that clash are errors of the language *)
(* and are not written: a name is declared once in a block by let, const   *)
(* or a nested function, and not both so and by a var that hoists through  *)
(* the block.  Nor does a var redeclare a parameter or its function's name. *)
(***************************************************************************)
Top == open[Len(open)]
FunctionTop == CHOOSE i \in DOMAIN open :
                 IsFunction(open[i].t) /\ \A j \in (i + 1)..Len(open) : ~IsFunction(open[j].t)
AtFunctionTop == FunctionTop = Len(open)

LexNames(t) == DeclaresLex(t) \cup (IF AtFunctionTop THEN {} ELSE DeclaresFunction(t))
VarNames(t) == DeclaresVar(t) \cup (IF AtFunctionTop THEN DeclaresFunction(t) ELSE {})

IsExport(t) == t \in {"export let x", "export { x }", "export function f()"}

CanDeclare(t) ==
    /\ IsExport(t) => Len(open) = 1
    /\ LexNames(t) \cap (Top.lex \cup Top.vars \cup Params(Top.t)) = {}
    /\ \A i \in FunctionTop..Len(open) :
         VarNames(t) \cap (open[i].lex \cup LoopNames(open[i].t)) = {}
    /\ DeclaresVar(t) \cap (Params(open[FunctionTop].t) \cup OwnName(open[FunctionTop].t)) = {}

Declaring(t) ==
    [i \in DOMAIN open |->
       [open[i] EXCEPT !.lex = IF i = Len(open) THEN @ \cup LexNames(t) ELSE @,
                       !.vars = IF i >= FunctionTop THEN @ \cup VarNames(t) ELSE @]]


Opened(t, s) == [t |-> t, s |-> s, body |-> <<>>, lex |-> {}, vars |-> {}]
Span == 4 * size + 1

Init ==
    /\ family \in Families
    /\ open = <<Opened("program", 0)>>
    /\ size = 0
    /\ text = <<>>
    /\ asked = FALSE

Writing == ~asked /\ UNCHANGED asked

Add(t) ==
    /\ Writing
    /\ size < family.size
    /\ CanDeclare(t)
    /\ open' = [Declaring(t) EXCEPT ![Len(open)].body = Append(@, SimpleStmt(t, Span))]
    /\ size' = size + 1
    /\ text' = Append(text, t)
    /\ UNCHANGED family

Open(t) ==
    /\ Writing
    /\ size < family.size
    /\ Len(open) <= family.depth
    /\ CanDeclare(t)
    /\ open' = Append(Declaring(t), Opened(t, Span))
    /\ size' = size + 1
    /\ text' = Append(text, t)
    /\ UNCHANGED family

\* The last block becomes a statement of the one around it.
CloseLast(q) ==
    [SubSeq(q, 1, Len(q) - 1) EXCEPT
       ![Len(q) - 1].body = Append(@, OpenStmt(q[Len(q)].t, q[Len(q)].s, q[Len(q)].body))]

Close ==
    /\ Writing
    /\ size < family.size
    /\ Len(open) > 1 /\ Top.body # <<>>
    /\ open' = CloseLast(open)
    /\ text' = Append(text, "}")
    /\ UNCHANGED <<family, size>>

Ask ==
    /\ ~asked
    /\ asked' = TRUE
    /\ UNCHANGED <<family, open, size, text>>

Next == (\E t \in family.simple : Add(t)) \/ (\E t \in family.opening : Open(t)) \/ Close \/ Ask

Spec == Init /\ [][Next]_vars

RECURSIVE CloseAll(_)
CloseAll(q) == IF Len(q) = 1 THEN q[1].body ELSE CloseAll(CloseLast(q))
Program == CloseAll(open)

\* The template of the block that the i-th item of the text stands in.
RECURSIVE Enclosing(_)
Enclosing(i) ==
    IF i = 1 THEN <<"program">>
    ELSE LET q == Enclosing(i - 1)
         IN CASE text[i - 1] = "}" -> SubSeq(q, 1, Len(q) - 1)
              [] text[i - 1] \in family.opening -> Append(q, text[i - 1])
              [] OTHER -> q
BlockOf(i) == LET q == Enclosing(i) IN q[Len(q)]

(***************************************************************************)
(* Properties.                                                            *)
(***************************************************************************)
\* A var below the top of its function: the evaluator keeps it in its block.
HasNestedVar ==
    \E i \in DOMAIN text : text[i] \in {"var x", "var f = x"} /\ ~IsFunction(BlockOf(i))

Reads == RunProgram(Fuel, Program).st.reads
Res == R!OfProgram(Program, FALSE)

\* Every identifier that evaluation reads or writes reaches a cell made for
\* the declaration the resolver gives for that identifier.
ResolvedCells ==
    [][asked' => (
        LET res == Res
        IN ~HasNestedVar =>
             \A r \in Reads :
               LET id == R!BindingAt(res, r.s, r.n) IN id # 0 /\ <<r.d, id>> \in res.occurrences)]_vars

\* A binding the resolver calls stable has one value: all reads through one
\* cell see the same.  (A read of a let or const in its dead zone throws in the
\* language, and inference refuses an assignment to a constant.)
StableHasOneValue ==
    [][asked' => (
        LET res == Res
            reads == Reads
        IN (/\ ~HasNestedVar
            /\ \A r \in reads :
                 /\ r.ready \/ res.bindings[R!BindingAt(res, r.s, r.n)].kind = "var"
                 /\ r.op = "write" => ~R!ConstantAt(res, r.s, r.n)) =>
             \A r, q \in reads :
               (r.l = q.l /\ R!StableAt(res, r.s, r.n) /\ R!StableAt(res, q.s, q.n)) => r.v = q.v)]_vars

\* A program the analysis passes reads no variable before it has a value, and
\* stores to no let or const before its declaration has run.
NoEarlyRead ==
    [][asked' => (
        LET res == Res
        IN (~HasNestedVar /\ T!CheckProgram(Program) = {}) =>
             \A r \in Reads :
               r.ready \/ (r.op = "write" /\ res.bindings[R!BindingAt(res, r.s, r.n)].kind = "var"))]_vars

\* Two walks of the same scoping rules agree: the names a statement or a
\* function body looks up outside itself are exactly those the resolver finds no
\* declaration for when it is given that statement alone.  free_identifiers_in_stmt
\* collects the bindings of the statement itself, so that a var in a block inside
\* it, which hoists to the statement's own scope, does not suppress a reference
\* outside that block ("any binding the statement introduces [...] suppresses the
\* corresponding reference", free_idents.rs): those names, and no others, may be
\* left over.
FreeAgrees ==
    [][asked' => (
        \A i \in DOMAIN Program :
          LET s == Program[i]
              globals == DOMAIN R!OfProgram(<<s>>, FALSE).globals
              hoisted == {F!NestedVars(s)[j] : j \in DOMAIN F!NestedVars(s)}
          IN /\ F!FreeInStmt(s) \ hoisted = globals
             /\ s.k = "fdecl" => F!FreeInFunctionBody(s.n, s.ps, s.body) = globals \ {s.n})]_vars

\* Where no let or const is used ahead of its declaration, the editor goes from
\* every variable that evaluation touches to a declaration of the same binding.
NestedFunction == \E i \in DOMAIN text : DeclaresFunction(text[i]) # {} /\ ~IsFunction(BlockOf(i))
Ahead(res, lsp, s, id) ==
    /\ res.bindings[id].kind \in {"let", "const"}
    /\ \A o \in res.occurrences : (o[2] = id /\ o[1] \in DOMAIN lsp.defs) => o[1] > s
LspAgrees ==
    [][asked' => (
        LET res == Res
            lsp == L!Build(Program)
        IN (~HasNestedVar /\ ~NestedFunction /\ "for (let x of)" \notin {text[i] : i \in DOMAIN text}) =>
             \A r \in Reads :
               LET id == R!BindingAt(res, r.s, r.n)
                   d == L!DefOfUse(lsp, r.s)
               IN Ahead(res, lsp, r.s, id) \/ <<d, id>> \in res.occurrences)]_vars

TemplateAt(i) == SelectSeq(text, LAMBDA t : t # "}")[i]

\* Only an object's property holds a getter: no variable, array element or
\* result is one.
NoGetterEscapes ==
    [][asked' => (
        LET r == RunProgram(Fuel, Program)
        IN /\ r.v.t # "getter"
           /\ \A l \in DOMAIN r.st.heap :
                LET c == r.st.heap[l]
                IN /\ c.c = "var" => c.v.t # "getter"
                   /\ c.c = "array" => \A i \in DOMAIN c.items : c.items[i].t # "getter")]_vars

\* Once a try with a finalizer has been entered, the program ends only after
\* its finalizer has been entered too, however the block is left.
FinallyRuns ==
    [][asked' => (
        LET r == RunProgram(Fuel, Program)
            stores == {q.s : q \in {p \in r.st.reads : p.op = "write"}}
        IN (r.k = "normal" \/ r.why = "UncaughtThrow") =>
             \A i \in 0..(size - 1) : 
               (TemplateAt(i + 1) \in {"try {} finally", "finally {}"} /\ 4 * i + 1 \in stores) =>
                 4 * i + 2 \in stores)]_vars

(***************************************************************************)
(* Families.                                                              *)
(***************************************************************************)
Family(n, depth, simple, opening) ==
    [size |-> n, depth |-> depth, simple |-> simple, opening |-> opening]

ScopeFamilies ==
    { Family(5, 2, {"let x", "var x", "x", "f()", "let x = f()"}, {"function f()", "function f(x)"}),
      Family(5, 2, {"var x", "x"}, {"function f()", "{}"}),
      Family(4, 2, {"let x", "var x", "x", "x = 0", "f()", "let x = f()", "var f = x"},
                {"let f = function x()", "{}", "for (let x of)", "for (x of)", "if (x)", "catch (x)"}),
      Family(4, 2, {"const x", "x += 1", "f()", "return x", "export let x", "export { x }"},
                {"const f = (x) =>", "(function() {})()", "for (let x;;x++)", "export function f()"}) }

RuntimeFamilies ==
    { Family(4, 3, {"let x", "f()", "return x", "throw x", "break", "continue"},
                {"function f()", "for (x of)", "try {} finally", "finally {}", "catch (x)"}),
      Family(5, 3, {"let x = {}", "x.p = x.q", "x.q += 1", "x = {...x}", "x = rest",
                 "x = [x.q, ...[x]]", "x[0] = x", "x.length = 0"}, {}) }

AllFamilies == ScopeFamilies \cup RuntimeFamilies

=============================================================================
