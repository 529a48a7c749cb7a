------------------------------- MODULE Parser -------------------------------
(***************************************************************************)
(* The JavaScript parser (frontends/javascript/parser/mod.rs).            *)
(*                                                                         *)
(* The parser is a record: the tokens, the position of the next one, the   *)
(* annotations not yet attached, and the flags that a construct sets for   *)
(* what it contains.  Parsing returns [ok, v, p]: a syntax error ends the  *)
(* whole parse, so an error carries nothing.                               *)
(*                                                                         *)
(* A production is a sequence of items: a token that must be there (T), a  *)
(* token whose text is kept (V), an optional phrase after a token (Opt),   *)
(* an optional semicolon (Semi), a nonterminal (N), and the three shapes   *)
(* of list.  Items collects the values, the production builds the node.    *)
(***************************************************************************)
EXTENDS Classes, Lexer

LOCAL INSTANCE FiniteSets

ParserOn(scan) ==
    [toks |-> scan.toks, pos |-> 1, anns |-> scan.anns, noIn |-> FALSE, temp |-> 0, async |-> 0,
     nextAsync |-> FALSE, cls |-> 0, brands |-> <<>>]

Done(v, p) == [ok |-> TRUE, v |-> v, p |-> p]
Err        == [ok |-> FALSE, v |-> None, p |-> <<>>]
Then(r, F(_, _)) == IF r.ok THEN F(r.v, r.p) ELSE Err

peek(p, n)  == IF p.pos + n <= Len(p.toks) THEN p.toks[p.pos + n].t ELSE Eof
current(p)  == peek(p, 0)
Value(p)    == p.toks[p.pos].v
advance(p)  == [p EXCEPT !.pos = @ + 1]
consume_if(p, t) == IF current(p) = t THEN advance(p) ELSE p
line_terminator_before_current(p) == p.pos <= Len(p.toks) /\ p.toks[p.pos].nl

T(t)           == [i |-> "token", x |-> t]
V(t)           == [i |-> "value", x |-> t]
Semi           == [i |-> "semicolon"]
N(nt)          == [i |-> "phrase", x |-> nt]
Opt(t, nt)     == [i |-> "optional", t |-> t, x |-> nt]
Until(nt, ts)  == [i |-> "until", x |-> nt, stop |-> ts]             \* phrases up to a token
Commas(nt)     == [i |-> "commas", x |-> nt]                         \* one or more
Trailing(nt, t) == [i |-> "trailing", x |-> nt, close |-> t]         \* a comma may end them

RECURSIVE Parse(_, _)

RECURSIVE Repeat(_, _, _)
Repeat(nt, stop, acc) ==
    IF current(acc.p) \in stop \cup {Eof} THEN acc
    ELSE LET r == Parse(nt, acc.p)
         IN  IF r.ok THEN Repeat(nt, stop, Done(Append(acc.v, r.v), r.p)) ELSE Err

RECURSIVE Separated(_, _, _)
Separated(nt, close, acc) ==      \* close = "" : no trailing comma
    IF current(acc.p) = close THEN acc
    ELSE LET r  == Parse(nt, acc.p)
             vs == Append(acc.v, r.v)
             last == nt \in {"object_pattern_entry", "array_pattern_entry"} /\ r.v.k = "rest"
         IN  IF ~r.ok THEN Err
             ELSE IF last \/ current(r.p) # "," THEN Done(vs, r.p)
             ELSE Separated(nt, close, Done(vs, advance(r.p)))

RECURSIVE Items(_, _, _)
Items(items, p, vs) ==
    IF items = <<>> THEN Done(vs, p)
    ELSE LET it   == Head(items)
             rest == Tail(items)
             Go(r) == IF r.ok THEN Items(rest, r.p, Append(vs, r.v)) ELSE Err
         IN  CASE it.i = "token" -> IF current(p) = it.x THEN Items(rest, advance(p), vs) ELSE Err
               [] it.i = "value" ->
                    IF current(p) = it.x THEN Items(rest, advance(p), Append(vs, Value(p))) ELSE Err
               [] it.i = "semicolon" -> Items(rest, consume_if(p, ";"), vs)
               [] it.i = "phrase" -> Go(Parse(it.x, p))
               [] it.i = "optional" ->
                    IF current(p) = it.t THEN Go(Parse(it.x, advance(p)))
                    ELSE Items(rest, p, Append(vs, None))
               [] it.i = "until" -> Go(Repeat(it.x, it.stop, Done(<<>>, p)))
               [] it.i = "commas" -> Go(Separated(it.x, "", Done(<<>>, p)))
               [] it.i = "trailing" -> Go(Separated(it.x, it.close, Done(<<>>, p)))
Rule(items, p, Node(_)) == Then(Items(items, p, <<>>), LAMBDA v, q : Done(Node(v), q))

(***************************************************************************)
(* Annotations come in the order of the text, at counting the tokens       *)
(* before each.  Those that end before token b are looked through up to    *)
(* the first that fits; the ones passed over are gone.                     *)
(***************************************************************************)
Attach(p, b, Fits(_)) ==
    LET ready == {i \in DOMAIN p.anns : p.anns[i].at < b}
        fit   == {i \in ready : Fits(p.anns[i])}
        first == CHOOSE i \in fit : \A j \in fit : i <= j
    IN  [ann |-> IF fit = {} THEN NoAnn ELSE <<p.anns[first]>>,
         p   |-> [p EXCEPT !.anns = SubSeq(@, (IF fit = {} THEN Cardinality(ready) ELSE first) + 1,
                                           Len(@))]]
try_get_type_annotation(p, b, name) == Attach(p, b, LAMBDA a : a.name = name)
try_get_jsdoc_type_annotation(p) ==
    Attach(p, p.pos, LAMBDA a : a.kind = "jsdoc" /\ a.name = "")
Content(ann) == IF ann = NoAnn THEN NoAnn ELSE <<ann[1].kind = "class", ann[1].content>>

private_name(n)          == "#" \o n
expect_ident(p)          == IF current(p) = "ident" THEN Done(Value(p), advance(p)) ELSE Err
expect_module_name(p) ==
    IF current(p) \in {"ident", "default"} THEN Done(Value(p), advance(p)) ELSE Err
expect_ident_or_keyword(p) ==
    IF current(p) \in Keywords \cup {"ident"} THEN Done(Value(p), advance(p)) ELSE Err

(***************************************************************************)
(* Patterns and declarations.                                              *)
(***************************************************************************)
parse_pattern(p) ==
    CASE current(p) = "{" -> Parse("object_pattern", p)
      [] current(p) = "[" -> Parse("array_pattern", p)
      [] OTHER -> Then(expect_ident(p), LAMBDA n, q : Done(PIdent(n), q))
WithDefault(pat, d) == IF d = None THEN pat ELSE PDefault(pat, d)
parse_pattern_with_default(p) ==
    Rule(<<N("pattern"), Opt("=", "assignment")>>, p, LAMBDA v : WithDefault(v[1], v[2]))

RestEntry(n) == [k |-> "rest", n |-> n]
RestName(es) == IF es # <<>> /\ Last(es).k = "rest" THEN Last(es).n ELSE NoRest
NotRest(es)  == SelectSeq(es, LAMBDA e : e.k # "rest")
object_pattern_entry(p) ==
    IF current(p) = "..." THEN Rule(<<T("..."), V("ident")>>, p, LAMBDA v : RestEntry(v[1]))
    ELSE IF peek(p, 1) = ":"
    THEN Rule(<<V("ident"), T(":"), N("pattern_with_default")>>, p, LAMBDA v : Entry(v[1], v[2]))
    ELSE Rule(<<V("ident"), Opt("=", "assignment")>>, p,
              LAMBDA v : Entry(v[1], WithDefault(PIdent(v[1]), v[2])))
array_pattern_entry(p) ==
    IF current(p) = "..." THEN Rule(<<T("..."), V("ident")>>, p, LAMBDA v : RestEntry(v[1]))
    ELSE parse_pattern_with_default(p)
parse_object_pattern(p) ==
    Rule(<<T("{"), Trailing("object_pattern_entry", "}"), T("}")>>, p,
         LAMBDA v : PObject(NotRest(v[1]), RestName(v[1])))
parse_array_pattern(p) ==
    Rule(<<T("["), Trailing("array_pattern_entry", "]"), T("]")>>, p,
         LAMBDA v : PArray(NotRest(v[1]), RestName(v[1])))

Desugared(pat, src, q) ==
    LET d == desugar_pattern(pat, src, q.temp) IN Done(d.v, [q EXCEPT !.temp = d.temp])
parse_destructuring_decl(p) ==
    Then(Items(<<N("pattern"), T("="), N("assignment")>>, p, <<>>),
         LAMBDA v, q : Desugared(v[1], v[2], q))
parse_var_declarator(p) ==
    Then(expect_ident(p), LAMBDA n, q :
        LET a == try_get_type_annotation(q, q.pos, n)
        IN  Rule(<<Opt("=", "assignment")>>, a.p, LAMBDA v : <<Decl(n, v[1], Content(a.ann))>>))
declarator(p) ==
    IF current(p) \in {"{", "["} THEN parse_destructuring_decl(p) ELSE parse_var_declarator(p)
parse_var_declaration(p) ==
    Rule(<<Commas("declarator"), Semi>>, advance(p),
         LAMBDA v : VarStmt(current(p), FlattenSeq(v[1])))

(***************************************************************************)
(* Functions.  A body starts in the context its function declares: async   *)
(* only if the flag is up, which it lowers.                                *)
(***************************************************************************)
DefaultHint(n, d) ==      \* if (false) { n = d }
    <<If(Lit(<<"boolean", "false">>), Block(<<ExprStmt(Assign("=", Name(n), d))>>), None)>>
parameter(p) ==
    CASE current(p) \in {"{", "["} ->
            Then(Parse("pattern", p), LAMBDA pat, q :
                Then(Desugared(pat, Name(fresh_temp_name(q.temp)), [q EXCEPT !.temp = @ + 1]),
                     LAMBDA ds, r : Done([n |-> fresh_temp_name(q.temp),
                                          prefix |-> <<VarStmt("var", ds)>>], r)))
      [] current(p) = "..." -> Err
      [] OTHER ->
            Rule(<<V("ident"), Opt("=", "assignment")>>, p, LAMBDA v :
                 [n |-> v[1], prefix |-> IF v[2] = None THEN <<>> ELSE DefaultHint(v[1], v[2])])
parse_parameters_with_prefix(p) ==
    Then(IF current(p) = ")" THEN Done(<<>>, p) ELSE Separated("parameter", "", Done(<<>>, p)),
         LAMBDA v, q : Done([ps |-> [i \in DOMAIN v |-> Param(v[i].n, 0)],
                             prefix |-> FlattenSeq([i \in DOMAIN v |-> v[i].prefix])], q))
parse_parameters(p) ==
    Then(Parse("parameters", p), LAMBDA v, q : IF v.prefix = <<>> THEN Done(v.ps, q) ELSE Err)

InBody(p, nt) ==
    LET r == Parse(nt, [p EXCEPT !.async = IF p.nextAsync THEN 1 ELSE 0, !.nextAsync = FALSE])
    IN  IF r.ok THEN Done(r.v, [r.p EXCEPT !.async = p.async]) ELSE Err
parse_function_body_block(p) == InBody(p, "block")
prepend_param_destructuring(body, prefix) ==
    IF prefix = <<>> THEN body ELSE Block(prefix \o BodyStmts(body))

FnExpr(n, ps, body, arrow, ann) ==
    [k |-> "fn", n |-> n, s |-> 0, ps |-> ps, body |-> body, arrow |-> arrow, ann |-> ann]
wrap_body_in_promise_resolve(body) ==      \* { return Promise.resolve((function () body)()) }
    Block(<<Return(Call(Member(Name("Promise"), "resolve"),
                        <<Call(FnExpr("", <<>>, body, FALSE, NoAnn), <<>>)>>))>>)

Callable(body) == <<T("("), N("parameters"), T(")"), N(body)>>
FunctionParts(p, n, named, body) ==      \* p behind the name; [ps, body, ann] of the function
    LET a == IF named THEN try_get_type_annotation(p, p.pos - 2, n) ELSE [ann |-> NoAnn, p |-> p]
    IN  Rule(Callable(body), a.p,
             LAMBDA v : [n |-> n, ps |-> v[1].ps, ann |-> Content(a.ann),
                         body |-> prepend_param_destructuring(v[2], v[1].prefix)])
NamedFunction(p, body) ==
    Then(Items(<<T("function"), V("ident")>>, p, <<>>),
         LAMBDA v, q : FunctionParts(q, v[1], TRUE, body))
parse_function_declaration(p) ==
    Then(NamedFunction(p, "function_body"), LAMBDA f, q : Done(FnDecl(f.n, f.ps, f.body, f.ann), q))
make_async_function_decl(d) == [d EXCEPT !.body = wrap_body_in_promise_resolve(@)]
async_function_declaration(p) ==
    Then(parse_function_declaration([advance(p) EXCEPT !.nextAsync = TRUE]),
         LAMBDA d, q : Done(make_async_function_decl(d), q))
parse_function_expression(p) ==
    LET named == peek(p, 1) = "ident"
        q     == advance(p)
    IN  Then(IF named THEN FunctionParts(advance(q), Value(q), TRUE, "function_body")
             ELSE FunctionParts(q, "", FALSE, "function_body"),
             LAMBDA f, r : Done(FnExpr(f.n, f.ps, f.body, FALSE, f.ann), r))

(***************************************************************************)
(* Is this the head of an arrow function?  The tokens after "(" up to the  *)
(* ")" where all three kinds of bracket balance.                           *)
(***************************************************************************)
Weight(t, open, close) == IF t = open THEN 1 ELSE IF t = close THEN -1 ELSE 0
RECURSIVE BalancedAt(_, _)
BalancedAt(p, c) ==
    LET t == IF c.j <= Len(p.toks) THEN p.toks[c.j].t ELSE Eof
        d == [j |-> c.j + 1, paren |-> c.paren + Weight(t, "(", ")"),
              brace |-> c.brace + Weight(t, "{", "}"), bracket |-> c.bracket + Weight(t, "[", "]")]
    IN  CASE t = Eof -> 0
          [] t = ")" /\ d.paren = 0 /\ d.brace = 0 /\ d.bracket = 0 -> c.j
          [] OTHER -> BalancedAt(p, d)
looks_like_arrow_function(p) ==
    LET h   == IF current(p) = "async" THEN 1 ELSE 0
        end == BalancedAt(p, [j |-> p.pos + h + 1, paren |-> 1, brace |-> 0, bracket |-> 0])
    IN  \/ peek(p, h) = "ident" /\ peek(p, h + 1) = "=>"
        \/ /\ peek(p, h) = "("
           /\ end # 0
           /\ peek(p, end + 1 - p.pos) = "=>"

arrow_body(p) ==
    IF current(p) = "{" THEN Parse("block", p)
    ELSE Then(Parse("assignment", p), LAMBDA e, q : Done(Block(<<Return(e)>>), q))
arrow_parameters(p) ==
    IF current(p) = "ident"
    THEN Done([ps |-> <<Param(Value(p), 0)>>, prefix |-> <<>>], advance(p))
    ELSE Rule(<<T("("), N("parameters"), T(")")>>, p, LAMBDA v : v[1])
parse_arrow_function(p) ==
    LET q == IF current(p) = "async" THEN [advance(p) EXCEPT !.nextAsync = TRUE] ELSE p
    IN  Then(Items(<<N("arrow_parameters"), T("=>")>>, q, <<>>), LAMBDA v, r :
            Then(InBody(r, "arrow_body"), LAMBDA b, s :
                LET body == prepend_param_destructuring(b, v[1].prefix)
                IN  Done(FnExpr("", v[1].ps, IF r.nextAsync THEN wrap_body_in_promise_resolve(body)
                                             ELSE body, TRUE, NoAnn), s)))

(***************************************************************************)
(* Statements.                                                             *)
(***************************************************************************)
parse_block_statement(p) ==
    Rule(<<T("{"), Until("statement", {"}"}), T("}")>>, p, LAMBDA v : Block(v[1]))
parse_if_statement(p) ==
    Rule(<<T("if"), T("("), N("expression"), T(")"), N("statement"), Opt("else", "statement")>>, p,
         LAMBDA v : If(v[1], v[2], v[3]))
parse_while_statement(p) ==
    Rule(<<T("while"), T("("), N("expression"), T(")"), N("statement")>>, p,
         LAMBDA v : While(v[1], v[2]))
parse_do_while_statement(p) ==
    Rule(<<T("do"), N("statement"), T("while"), T("("), N("expression"), T(")"), Semi>>, p,
         LAMBDA v : DoWhile(v[1], v[2]))

(***************************************************************************)
(* The heads of a for statement.  A pattern needs `in` or `of`, and its    *)
(* declarations go to the front of the body; in a C-style head only an     *)
(* expression is read with `in` turned off.                                *)
(***************************************************************************)
ForEachNode(kw, left, right, body) ==
    IF kw = "of" THEN ForOf(left, right, body) ELSE ForIn(left, right, body)
EachDecl(kind, n, ann) == [k |-> "decl", kind |-> kind, n |-> n, s |-> 0, ann |-> ann]
for_each(p, left) ==
    Rule(<<N("expression"), T(")"), N("statement")>>, advance(p),
         LAMBDA v : ForEachNode(current(p), left, v[1], v[2]))
for_each_pattern(p, kind, pat) ==
    Then(for_each(p, EachDecl(kind, "", NoAnn)), LAMBDA f, q :
        LET t == fresh_temp_name(q.temp)
        IN  Then(Desugared(pat, Name(t), [q EXCEPT !.temp = @ + 1]), LAMBDA ds, r :
                Done([f EXCEPT !.left.n = t,
                               !.body = prepend_param_destructuring(@, <<VarStmt(kind, ds)>>)], r)))
for_rest(p, init) ==
    Rule(<<T(";"), N("expression_before_semicolon"), T(";"), N("expression_before_paren"),
           T(")"), N("statement")>>, p,
         LAMBDA v : For(init, v[1], v[2], v[3]))
for_declarations(p, kind, d) ==
    Then(IF current(p) = "," THEN Separated("plain_declarator", "", Done(<<>>, advance(p)))
         ELSE Done(<<>>, p),
         LAMBDA ds, q : for_rest(q, VarStmt(kind, d \o FlattenSeq(ds))))
for_variable(p, kind) ==
    Then(expect_ident(p), LAMBDA n, q :
        LET a == try_get_type_annotation(q, q.pos, n)
        IN  IF current(q) \in {"in", "of"}
            THEN for_each(a.p, EachDecl(kind, n, Content(a.ann)))
            ELSE Then(Items(<<Opt("=", "assignment")>>, a.p, <<>>), LAMBDA v, r :
                     for_declarations(r, kind, <<Decl(n, v[1], Content(a.ann))>>)))
parse_expression_no_in(p) ==
    Then(Parse("expression", [p EXCEPT !.noIn = TRUE]),
         LAMBDA e, q : Done(e, [q EXCEPT !.noIn = p.noIn]))
for_expression(p) ==
    Then(parse_expression_no_in(p), LAMBDA e, q :
        IF current(q) \in {"in", "of"} THEN for_each(q, e) ELSE for_rest(q, e))
for_pattern(p, kind) ==
    Then(Parse("pattern", p), LAMBDA pat, q :
        IF current(q) \in {"in", "of"} THEN for_each_pattern(q, kind, pat) ELSE Err)
parse_for_statement(p) ==
    Then(Items(<<T("for"), T("(")>>, p, <<>>), LAMBDA v, q :
        CASE current(q) \in {"var", "let", "const"} /\ peek(q, 1) \in {"{", "["} ->
                for_pattern(advance(q), current(q))
          [] current(q) \in {"var", "let", "const"} -> for_variable(advance(q), current(q))
          [] current(q) = ";" -> for_rest(q, None)
          [] OTHER -> for_expression(q))

(***************************************************************************)
(* The statements a line terminator ends.                                  *)
(***************************************************************************)
parse_return_statement(p) ==
    LET q == advance(p)
    IN  IF current(q) \in {";", "}", Eof} \/ line_terminator_before_current(q)
        THEN Done(Return(None), consume_if(q, ";"))
        ELSE Rule(<<N("expression"), Semi>>, q, LAMBDA v : Return(v[1]))
parse_throw_statement(p) ==
    IF line_terminator_before_current(advance(p)) THEN Err
    ELSE Rule(<<T("throw"), N("expression"), Semi>>, p, LAMBDA v : Throw(v[1]))
Jump(p, Node(_)) ==
    LET q == advance(p)
    IN  IF current(q) = "ident" /\ ~line_terminator_before_current(q)
        THEN Done(Node(Value(q)), consume_if(advance(q), ";"))
        ELSE Done(Node(""), consume_if(q, ";"))
parse_break_statement(p)    == Jump(p, Break)
parse_continue_statement(p) == Jump(p, Continue)

catch_clause(p) ==      \* behind `catch`
    IF current(p) = "{"
    THEN Rule(<<N("block")>>, [p EXCEPT !.temp = @ + 1],
              LAMBDA v : Catch("$catch$" \o ToString(p.temp), 0, v[1]))
    ELSE Rule(<<T("("), V("ident"), T(")"), N("block")>>, p, LAMBDA v : Catch(v[1], 0, v[2]))
parse_try_statement(p) ==
    Rule(<<T("try"), N("block"), Opt("catch", "catch_clause"), Opt("finally", "block")>>, p,
         LAMBDA v : Try(v[1], v[2], v[3]))

switch_case(p) ==
    LET stmts == Until("statement", {"case", "default", "}"})
    IN  IF current(p) = "case"
        THEN Rule(<<T("case"), N("expression"), T(":"), stmts>>, p, LAMBDA v : Case(v[1], v[2]))
        ELSE Rule(<<T("default"), T(":"), stmts>>, p, LAMBDA v : Case(None, v[1]))
parse_switch_statement(p) ==
    Rule(<<T("switch"), T("("), N("expression"), T(")"), T("{"), Until("switch_case", {"}"}),
           T("}")>>, p, LAMBDA v : Switch(v[1], v[2]))
parse_labeled_statement(p) ==
    Rule(<<V("ident"), T(":"), N("statement")>>, p, LAMBDA v : Labeled(v[1], v[2]))

parse_expression_statement(p) ==
    Then(Items(<<N("expression"), Semi>>, p, <<>>), LAMBDA v, q :
        LET e   == v[1]
            pat == IF e.k = "assign" /\ e.op = "=" /\ e.l.k \in {"array", "object"}
                   THEN expr_to_pattern(e.l) ELSE None
            d   == desugar_pattern_assign(pat, e.r, q.temp)
        IN  IF pat = None THEN Done(ExprStmt(e), q)
            ELSE Done(Block(d.v), [q EXCEPT !.temp = d.temp]))

(***************************************************************************)
(* Imports and exports.                                                    *)
(***************************************************************************)
ImportNode(specs, source) == [k |-> "importdecl", specs |-> specs, source |-> source]
Spec(form, imported, local) == [form |-> form, imported |-> imported, local |-> local]
named_specifier(p) ==
    Rule(<<V("ident"), Opt("as", "ident")>>, p,
         LAMBDA v : Spec("named", v[1], IF v[2] = None THEN v[1] ELSE v[2].n))
import_bindings(p) ==      \* `{ ... }`, when there are any, and the source
    Then(IF current(p) = "{" THEN Rule(<<T("{"), Trailing("named_specifier", "}"), T("}")>>, p,
                                       LAMBDA v : v[1])
         ELSE Done(<<>>, p),
         LAMBDA specs, q : Rule(<<T("from"), V("string"), Semi>>, q,
                                LAMBDA v : [specs |-> specs, source |-> v[1]]))
namespace_specifier(p) ==
    Rule(<<T("*"), T("as"), V("ident")>>, p, LAMBDA v : <<Spec("namespace", "", v[1])>>)
default_specifiers(p) ==
    LET d == <<Spec("default", "", Value(p))>>
        q == advance(p)
    IN  CASE current(q) # "," -> IF current(q) = "from" THEN Done(d, q) ELSE Err
          [] peek(q, 1) = "*" ->
                Then(namespace_specifier(advance(q)), LAMBDA ns, r : Done(d \o ns, r))
          [] OTHER -> Done(d, advance(q))
parse_import_declaration(p) ==
    LET q == advance(p)
    IN  IF current(q) = "string"
        THEN Done(ImportNode(<<>>, Value(q)), consume_if(advance(q), ";"))
        ELSE Then(CASE current(q) = "*" -> namespace_specifier(q)
                    [] current(q) = "ident" -> default_specifiers(q)
                    [] OTHER -> Done(<<>>, q),
                  LAMBDA specs, r : Then(import_bindings(r), LAMBDA b, s :
                      Done(ImportNode(specs \o b.specs, b.source), s)))

ExportNode(form, x) == [k |-> "export", form |-> form, x |-> x]
export_specifier(p) ==
    Rule(<<N("module_name"), Opt("as", "module_name")>>, p,
         LAMBDA v : Spec("named", v[1].n, IF v[2] = None THEN v[1].n ELSE v[2].n))
export_list(p) ==
    Then(Items(<<T("{"), Trailing("export_specifier", "}"), T("}")>>, p, <<>>), LAMBDA v, q :
        IF current(q) = "from"
        THEN Rule(<<T("from"), V("string"), Semi>>, q,
                  LAMBDA w : ExportNode("from", [specs |-> v[1], source |-> w[1]]))
        ELSE Done(ExportNode("list", v[1]), consume_if(q, ";")))
export_all(p) ==
    Rule(<<T("*"), Opt("as", "ident"), T("from"), V("string"), Semi>>, p, LAMBDA v :
         ExportNode("all", [as |-> IF v[1] = None THEN "" ELSE v[1].n, source |-> v[2]]))
export_class(p) ==
    Then(Parse("default_class", p), LAMBDA c, q :
        Done(ExportNode("default", FnExpr(c.n, c.ps, c.body, FALSE, NoAnn)), consume_if(q, ";")))
export_default(p) ==
    CASE current(p) = "class" -> export_class(p)
      [] current(p) = "function" ->
            Rule(<<N("function_expression"), Semi>>, p, LAMBDA v : ExportNode("default", v[1]))
      [] OTHER -> Rule(<<N("assignment"), Semi>>, p, LAMBDA v : ExportNode("default", v[1]))
parse_export_function_declaration(p, async) ==
    Then(NamedFunction(p, IF async THEN "async_function_body" ELSE "function_body"),
         LAMBDA f, q : Done(ExportNode("function",
             [f EXCEPT !.body = IF async THEN wrap_body_in_promise_resolve(@) ELSE @]), q))
parse_export_declaration(p) ==
    LET q == advance(p)
    IN  CASE current(q) \in {"var", "let", "const"} ->
                Rule(<<Commas("plain_declarator"), Semi>>, advance(q), LAMBDA v :
                     ExportNode("var", VarStmt(current(q), FlattenSeq(v[1]))))
          [] current(q) = "function" -> parse_export_function_declaration(q, FALSE)
          [] current(q) = "async" /\ peek(q, 1) = "function" ->
                parse_export_function_declaration(advance(q), TRUE)
          [] current(q) = "default" -> export_default(advance(q))
          [] current(q) = "{" -> export_list(q)
          [] current(q) = "*" -> export_all(q)
          [] OTHER -> Err

(***************************************************************************)
(* Classes: the members in order, lowered by Classes once the body ends.   *)
(***************************************************************************)
Modifier(p) == /\ current(p) = "ident" /\ peek(p, 1) = "ident"
               /\ Value(p) \in {"public", "private", "protected", "readonly"}
Accessor(p) == /\ current(p) = "ident" /\ peek(p, 1) \in {"ident", "private"}
               /\ Value(p) \in {"get", "set"}
member_key(p) ==
    IF current(p) = "private" THEN Done(private_name(Value(p)), advance(p)) ELSE expect_ident(p)

MethodParts == <<T("("), N("plain_parameters"), T(")"), N("function_body")>>
class_getter(p, n) ==
    Then(Items(MethodParts, p, <<>>), LAMBDA v, q :
        IF v[1] = <<>> THEN Done(<<[m |-> "getter", n |-> n, body |-> v[2]]>>, q) ELSE Err)
class_method(p, n) ==
    Rule(MethodParts, p, LAMBDA v :
         <<[m |-> IF n = "constructor" THEN "ctor" ELSE "method", n |-> n, ps |-> v[1],
            body |-> v[2]]>>)

RECURSIVE TypeEnd(_, _)
TypeEnd(p, depth) ==      \* where the type after `:` ends
    LET t == current(p)
    IN  IF t = Eof \/ (t \in {"=", ";", "}", ","} /\ depth <= 0) THEN p
        ELSE TypeEnd(advance(p), depth + Weight(t, "(", ")") + Weight(t, "[", "]")
                                       + Weight(t, "<", ">"))
class_field(p, n) ==
    LET from == IF current(p) = ":" THEN advance(p) ELSE p
        q    == IF current(p) = ":" THEN TypeEnd(from, 0) ELSE p
        type == [i \in 1..(q.pos - from.pos) |-> p.toks[from.pos + i - 1].v]
        Sep(r) == IF current(r) \in {";", ","} THEN advance(r) ELSE r
    IN  IF current(p) = ":" /\ type = <<>> THEN Err
        ELSE Then(Items(<<Opt("=", "assignment")>>, q, <<>>), LAMBDA v, r :
            LET a == IF type = <<>> THEN try_get_type_annotation(Sep(r), Sep(r).pos, n)
                     ELSE [ann |-> NoAnn, p |-> Sep(r)]
            IN  Done(<<[m |-> "field", n |-> n, init |-> v[1],
                        ann |-> IF type = <<>> THEN Content(a.ann) ELSE <<FALSE, type>>]>>, a.p))
class_member(p) ==
    CASE current(p) = ";" -> Done(<<>>, advance(p))
      [] Modifier(p) -> Parse("class_member", advance(p))
      [] Accessor(p) ->
            IF Value(p) = "set" THEN Err
            ELSE Then(member_key(advance(p)), LAMBDA n, q : class_getter(q, n))
      [] OTHER ->
            Then(member_key(p), LAMBDA n, q :
                CASE n = "static" /\ current(q) = "ident" -> Err
                  [] current(q) = "(" -> class_method(q, n)
                  [] OTHER -> class_field(q, n))

external_class(p, b, n) ==
    LET a == try_get_type_annotation(advance(p), b, n)
    IN  IF a.ann # NoAnn /\ a.ann[1].kind = "class"
        THEN Done(VarStmt("const", <<Decl(n, None, Content(a.ann))>>), a.p)
        ELSE Err
class_body(p, n) ==
    Then(Items(<<T("{"), Until("class_member", {"}"}), T("}")>>,
               [p EXCEPT !.brands = Append(@, n), !.cls = @ + 1], <<>>), LAMBDA v, q :
        LET c == LowerClass(n, FlattenSeq(v[1]), q.temp)
        IN  IF c.ok THEN Done(c.v, [q EXCEPT !.cls = @ - 1, !.temp = c.temp]) ELSE Err)
parse_class_declaration(p) ==
    Then(Items(<<T("class"), V("ident")>>, p, <<>>), LAMBDA v, q :
        IF current(q) = ";" THEN external_class(q, p.pos, v[1]) ELSE class_body(q, v[1]))
default_class(p) ==
    class_body([advance(p) EXCEPT !.temp = @ + 1], "$default_class$" \o ToString(p.temp))

parse_statement(p) ==
    LET t == current(p)
    IN  CASE t \in {"var", "let", "const"} -> parse_var_declaration(p)
          [] t = "function" -> parse_function_declaration(p)
          [] t = "class"    -> parse_class_declaration(p)
          [] t = "async" /\ peek(p, 1) = "function" -> async_function_declaration(p)
          [] t = "import"   -> parse_import_declaration(p)
          [] t = "export"   -> parse_export_declaration(p)
          [] t = "if"       -> parse_if_statement(p)
          [] t = "while"    -> parse_while_statement(p)
          [] t = "do"       -> parse_do_while_statement(p)
          [] t = "for"      -> parse_for_statement(p)
          [] t = "return"   -> parse_return_statement(p)
          [] t = "throw"    -> parse_throw_statement(p)
          [] t = "try"      -> parse_try_statement(p)
          [] t = "switch"   -> parse_switch_statement(p)
          [] t = "break"    -> parse_break_statement(p)
          [] t = "continue" -> parse_continue_statement(p)
          [] t = "{"        -> parse_block_statement(p)
          [] t = ";"        -> Done(Empty, advance(p))
          [] t = "ident" /\ peek(p, 1) = ":" -> parse_labeled_statement(p)
          [] OTHER -> parse_expression_statement(p)

(***************************************************************************)
(* Expressions.                                                            *)
(***************************************************************************)
parse_sequence_expression(p) ==
    Rule(<<Commas("assignment")>>, p, LAMBDA v : IF Len(v[1]) = 1 THEN v[1][1] ELSE Sequence(v[1]))

assignment_op == {"=", "+=", "-=", "*=", "**=", "/=", "%=", "<<=", ">>=", ">>>=", "&=", "|=", "^=",
                  "??=", "&&=", "||="}
is_valid_assignment_target(e) == e.k \in {"id", "member", "computed"}
Assignable(e, op) ==
    \/ is_valid_assignment_target(e)
    \/ op = "=" /\ e.k \in {"array", "object"} /\ expr_to_pattern(e) # None
parse_assignment_expression(p) ==
    IF looks_like_arrow_function(p) THEN parse_arrow_function(p)
    ELSE Then(Parse("conditional", p), LAMBDA e, q :
        CASE current(q) \notin assignment_op -> Done(e, q)
          [] ~Assignable(e, current(q)) -> Err
          [] OTHER -> Then(Parse("assignment", advance(q)),
                           LAMBDA r, s : Done(Assign(current(q), e, r), s)))
parse_conditional_expression(p) ==
    Then(Parse("nullish", p), LAMBDA t, q :
        IF current(q) # "?" THEN Done(t, q)
        ELSE Rule(<<N("assignment"), T(":"), N("assignment")>>, advance(q),
                  LAMBDA v : Conditional(t, v[1], v[2])))

precedence ==
    "||" :> 4 @@ "&&" :> 5 @@ "|" :> 6 @@ "^" :> 7 @@ "&" :> 8
    @@ [o \in {"==", "!=", "===", "!=="} |-> 9]
    @@ [o \in {"<", ">", "<=", ">=", "in", "instanceof"} |-> 10]
    @@ [o \in {"<<", ">>", ">>>"} |-> 11] @@ [o \in {"+", "-"} |-> 12]
    @@ [o \in {"*", "/", "%"} |-> 13] @@ "**" :> 14
is_right_assoc_never(op) == FALSE      \* mutant: ** groups to the left
is_right_assoc(op) == op = "**"
binary_op(p) == current(p) \in DOMAIN precedence /\ ~(current(p) = "in" /\ p.noIn)

RECURSIVE parse_binary_expression(_, _)
RECURSIVE BinaryTail(_, _, _)
BinaryTail(p, l, min) ==
    LET op   == current(p)
        prec == precedence[op]
    IN  IF ~binary_op(p) \/ prec < min THEN Done(l, p)
        ELSE Then(parse_binary_expression(advance(p), IF is_right_assoc(op) THEN prec ELSE prec + 1),
                  LAMBDA r, q : BinaryTail(q, Binary(op, l, r), min))
parse_binary_expression(p, min) == Then(Parse("unary", p), LAMBDA l, q : BinaryTail(q, l, min))

RECURSIVE NullishTail(_, _)
NullishTail(p, l) ==
    IF current(p) # "??" THEN Done(l, p)
    ELSE Then(parse_binary_expression(advance(p), 0), LAMBDA r, q : NullishTail(q, Nullish(l, r)))
parse_nullish_expression(p) ==
    Then(parse_binary_expression(p, 0), LAMBDA l, q : NullishTail(q, l))

Prefix == "++" :> "++x" @@ "--" :> "--x"
          @@ [t \in {"-", "+", "!", "~", "typeof", "void", "delete", "await"} |-> t]
parse_unary_expression(p) ==
    IF current(p) \notin DOMAIN Prefix THEN Parse("postfix", p)
    ELSE IF current(p) = "await" /\ p.async = 0 THEN Err
    ELSE Then(Parse("unary", advance(p)), LAMBDA e, q : Done(Unary(Prefix[current(p)], e), q))
parse_postfix_expression(p) ==
    Then(Parse("call", p), LAMBDA e, q :
        IF current(q) \in {"++", "--"} /\ ~line_terminator_before_current(q)
        THEN Done(Unary("x" \o current(q), e), advance(q))
        ELSE Done(e, q))

(***************************************************************************)
(* Member accesses and calls.  Behind the first `?.` every further segment *)
(* joins the chain.                                                        *)
(***************************************************************************)
Segment(k, n, as, opt) == [k |-> k, n |-> n, as |-> as, opt |-> opt]
argument(p) ==
    IF current(p) = "..." THEN Rule(<<T("..."), N("assignment")>>, p, LAMBDA v : SpreadArg(v[1]))
    ELSE Parse("assignment", p)
parse_arguments(p) ==      \* behind the parenthesis
    Then(IF current(p) = ")" THEN Done(<<>>, p) ELSE Separated("argument", "", Done(<<>>, p)),
         LAMBDA as, q : Rule(<<T(")")>>, q, LAMBDA v : as))
member_name(p, opt) ==
    IF current(p) # "private" THEN expect_ident_or_keyword(p)
    ELSE IF ~opt /\ p.cls = 0 THEN Err
    ELSE Done(private_name(Value(p)), advance(p))
segment(p) ==
    LET opt == current(p) = "?."
        q   == IF opt THEN advance(p) ELSE p
    IN  CASE current(q) = "(" ->
                Then(parse_arguments(advance(q)), LAMBDA as, r : Done(Segment("call", "", as, opt), r))
          [] current(q) = "[" ->
                Rule(<<T("["), N("expression"), T("]")>>, q,
                     LAMBDA v : Segment("computed", "", v, opt))
          [] OTHER ->
                Then(member_name(IF opt THEN q ELSE advance(q), opt),
                     LAMBDA n, r : Done(Segment("member", n, <<>>, opt), r))
Extend(e, s) ==
    CASE s.k = "call" -> Call(e, s.as)
      [] s.k = "member" -> Member(e, s.n)
      [] OTHER -> Computed(e, s.as[1])
Chained(head, segs) ==
    IF segs = <<>> THEN head
    ELSE [k |-> "chain", head |-> head, segs |-> segs,
          es |-> <<head>> \o FlattenSeq([i \in DOMAIN segs |-> segs[i].as])]
RECURSIVE Segments(_, _, _, _)
\* mutant: a call or an access on a new line starts a statement
SegmentsOnLine(p, starts, e, segs) ==
    IF current(p) \notin starts \/ line_terminator_before_current(p) THEN Done(Chained(e, segs), p)
    ELSE Then(segment(p), LAMBDA s, q :
        IF s.opt \/ segs # <<>> THEN Segments(q, starts, e, Append(segs, s))
        ELSE Segments(q, starts, Extend(e, s), segs))
Segments(p, starts, e, segs) ==
    IF current(p) \notin starts THEN Done(Chained(e, segs), p)
    ELSE Then(segment(p), LAMBDA s, q :
        IF s.opt \/ segs # <<>> THEN Segments(q, starts, e, Append(segs, s))
        ELSE Segments(q, starts, Extend(e, s), segs))
parse_member_expression(p) ==
    Then(Parse("primary", p), LAMBDA e, q : Segments(q, {".", "["}, e, <<>>))
new_expression(p) ==
    Then(Parse("member", advance(p)), LAMBDA f, q :
        IF current(q) = "("
        THEN Then(parse_arguments(advance(q)), LAMBDA as, r : Done(New(f, as), r))
        ELSE Done(New(f, <<>>), q))
NewTarget == [k |-> "newtarget"]
parse_call_expression(p) ==
    IF current(p) = "new" /\ peek(p, 1) = "."
    THEN Then(Items(<<T("new"), T("."), V("ident")>>, p, <<>>),
              LAMBDA v, q : IF v[1] = "target" THEN Done(NewTarget, q) ELSE Err)
    ELSE Then(IF current(p) = "new" THEN new_expression(p) ELSE Parse("member", p),
              LAMBDA e, q : Segments(q, {"?.", "(", ".", "["}, e, <<>>))

(***************************************************************************)
(* Primary expressions.                                                    *)
(***************************************************************************)
RECURSIVE TemplateTail(_, _, _)
TemplateTail(p, quasis, es) ==
    Then(Parse("expression", p), LAMBDA e, q :
        LET parts == [k |-> "template", quasis |-> Append(quasis, Value(q)), es |-> Append(es, e)]
        IN  CASE current(q) = "tail" -> Done(parts, advance(q))
              [] current(q) = "middle" -> TemplateTail(advance(q), parts.quasis, parts.es)
              [] OTHER -> Err)
parse_template_literal(p) ==
    IF current(p) = "nosub"
    THEN Done([k |-> "template", quasis |-> <<Value(p)>>, es |-> <<>>], advance(p))
    ELSE TemplateTail(advance(p), <<Value(p)>>, <<>>)

array_element(p) == IF current(p) = "," THEN Done(None, p) ELSE argument(p)
parse_array_literal(p) ==
    Rule(<<T("["), Trailing("array_element", "]"), T("]")>>, p, LAMBDA v : ArrayLit(v[1]))
parse_object_literal(p) ==
    Rule(<<T("{"), Trailing("property", "}"), T("}")>>, p, LAMBDA v : ObjectLit(v[1]))

parse_property_key(p) ==
    CASE current(p) \in Keywords \cup {"ident"} -> Done(Key(Value(p)), advance(p))
      [] current(p) \in {"string", "number"} -> Done(<<current(p), Value(p)>>, advance(p))
      [] OTHER -> Err
Prop(key, v, ann) == [k |-> "prop", key |-> key, v |-> v, ann |-> ann]
property_accessor(p) ==      \* behind get or set
    Then(parse_property_key(advance(p)), LAMBDA key, q :
        IF Value(p) = "get"
        THEN Rule(<<T("("), T(")"), N("function_body")>>, q, LAMBDA v : Getter(key, 0, v[1]))
        ELSE Rule(<<T("("), V("ident"), T(")"), N("function_body")>>, q,
                  LAMBDA v : Setter(key, v[1], v[2])))
property_value(p, key, doc) ==
    LET a == IF key[1] = "ident" THEN try_get_type_annotation(p, p.pos, key[2])
             ELSE [ann |-> NoAnn, p |-> p]
    IN  CASE current(p) = "(" ->
                Rule(Callable("function_body"), p, LAMBDA v :
                     Method(key, 0, v[1].ps, prepend_param_destructuring(v[2], v[1].prefix)))
          [] key[1] = "ident" /\ current(p) \in {",", "}"} ->
                Done(Prop(key, Name(key[2]), Content(doc)), p)
          [] OTHER ->
                Rule(<<T(":"), N("assignment")>>, a.p, LAMBDA v :
                     Prop(key, v[1], Content(IF a.ann # NoAnn THEN a.ann ELSE doc)))
parse_property_definition(p) ==
    LET j == try_get_jsdoc_type_annotation(p)
        q == j.p
    IN  CASE current(q) = "..." ->
                Rule(<<T("..."), N("assignment")>>, q, LAMBDA v : SpreadProp(v[1]))
          [] current(q) = "ident" /\ Value(q) \in {"get", "set"} /\ peek(q, 1) \notin {":", "("} ->
                property_accessor(q)
          [] OTHER ->
                Then(parse_property_key(q), LAMBDA key, r : property_value(r, key, j.ann))

parse_primary_expression(p) ==
    LET t == current(p)
    IN  CASE t = "this" -> Done(This, advance(p))
          [] t = "ident" -> Done(Name(Value(p)), advance(p))
          [] t \in {"number", "string", "regex"} -> Done(Lit(<<t, Value(p)>>), advance(p))
          [] t \in {"true", "false"} -> Done(Lit(<<"boolean", t>>), advance(p))
          [] t = "null" -> Done(Lit(<<"null">>), advance(p))
          [] t = "(" -> Rule(<<T("("), N("expression"), T(")")>>, p, LAMBDA v : v[1])
          [] t = "[" -> parse_array_literal(p)
          [] t = "{" -> parse_object_literal(p)
          [] t = "function" -> parse_function_expression(p)
          [] t \in {"nosub", "head"} -> parse_template_literal(p)
          [] OTHER -> Err

NamePhrase(r) == Then(r, LAMBDA n, q : Done([k |-> "name", n |-> n], q))
ExpressionBefore(t, p) == IF current(p) = t THEN Done(None, p) ELSE Parse("expression", p)

Parse(nt, p) ==
    CASE nt = "statement"   -> parse_statement(p)
      [] nt = "block"       -> parse_block_statement(p)
      [] nt = "expression"  -> parse_sequence_expression(p)
      [] nt = "assignment"  -> parse_assignment_expression(p)
      [] nt = "conditional" -> parse_conditional_expression(p)
      [] nt = "nullish"     -> parse_nullish_expression(p)
      [] nt = "unary"       -> parse_unary_expression(p)
      [] nt = "postfix"     -> parse_postfix_expression(p)
      [] nt = "call"        -> parse_call_expression(p)
      [] nt = "member"      -> parse_member_expression(p)
      [] nt = "primary"     -> parse_primary_expression(p)
      [] nt = "argument"    -> argument(p)
      [] nt = "array_element" -> array_element(p)
      [] nt = "property"    -> parse_property_definition(p)
      [] nt = "pattern"     -> parse_pattern(p)
      [] nt = "pattern_with_default" -> parse_pattern_with_default(p)
      [] nt = "object_pattern" -> parse_object_pattern(p)
      [] nt = "array_pattern"  -> parse_array_pattern(p)
      [] nt = "object_pattern_entry" -> object_pattern_entry(p)
      [] nt = "array_pattern_entry"  -> array_pattern_entry(p)
      [] nt = "declarator"  -> declarator(p)
      [] nt = "plain_declarator" -> parse_var_declarator(p)
      [] nt = "parameter"   -> parameter(p)
      [] nt = "parameters"  -> parse_parameters_with_prefix(p)
      [] nt = "plain_parameters" -> parse_parameters(p)
      [] nt = "function_body" -> parse_function_body_block(p)
      [] nt = "async_function_body" -> parse_function_body_block([p EXCEPT !.nextAsync = TRUE])
      [] nt = "function_expression" -> parse_function_expression(p)
      [] nt = "arrow_parameters" -> arrow_parameters(p)
      [] nt = "arrow_body"  -> arrow_body(p)
      [] nt = "catch_clause" -> catch_clause(p)
      [] nt = "switch_case" -> switch_case(p)
      [] nt = "class_member" -> class_member(p)
      [] nt = "default_class" -> default_class(p)
      [] nt = "named_specifier" -> named_specifier(p)
      [] nt = "export_specifier" -> export_specifier(p)
      [] nt = "ident"       -> NamePhrase(expect_ident(p))
      [] nt = "module_name" -> NamePhrase(expect_module_name(p))
      [] nt = "expression_before_semicolon" -> ExpressionBefore(";", p)
      [] nt = "expression_before_paren"     -> ExpressionBefore(")", p)

parse_program(p) == Repeat("statement", {}, Done(<<>>, p))
parse(text) ==
    LET s == tokenize(text) IN IF s.ok THEN parse_program(ParserOn(s)) ELSE Err
=============================================================================
