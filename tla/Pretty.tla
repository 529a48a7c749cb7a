------------------------------- MODULE Pretty -------------------------------
(***************************************************************************)
(* The printer (crates/inty/src/ast/pretty.rs): a tree as a sequence of   *)
(* the scanner's atoms.  Indentation is left out, line ends are kept.      *)
(***************************************************************************)
EXTENDS Patterns

LOCAL INSTANCE Lexer

(***************************************************************************)
(* The atoms of an operator, of a number and of a private name: the texts  *)
(* contain these numbers and these private names only.                     *)
(***************************************************************************)
Operators ==
    scan_plus \cup scan_minus \cup scan_star \cup scan_slash \cup scan_percent \cup scan_less_than
    \cup scan_greater_than \cup scan_equals \cup scan_exclamation \cup scan_ampersand
    \cup scan_pipe \cup scan_caret \cup scan_dot \cup {<<"?", "?">>, <<"?", "?", "=">>, <<"?", ".">>}
Spelling == [op \in {Glue(o) : o \in Operators} |-> CHOOSE o \in Operators : Glue(o) = op]
OpText(op) ==
    CASE op \in {"++x", "x++"} -> <<"+", "+">>
      [] op \in {"--x", "x--"} -> <<"-", "-">>
      [] op \in DOMAIN Spelling -> Spelling[op]
      [] OTHER -> <<op>>
NumberText ==
    [n \in {"0", "1", "2", "5", "10"} |-> <<n>>]
    @@ "15" :> <<"1", "5">> @@ "1.5" :> <<"1", ".", "5">> @@ "0.5" :> <<"0", ".", "5">>
    @@ "100000" :> <<"10", "0", "0", "0", "0">>
PrivateNames == {"x"}

Listed(texts) ==
    FlattenSeq([i \in DOMAIN texts |-> IF i = 1 THEN texts[i] ELSE <<",", " ">> \o texts[i]])
Wrapped(text, parens) == IF parens THEN <<"(">> \o text \o <<")">> ELSE text
Spaced(op)            == <<" ">> \o op \o <<" ">>

(***************************************************************************)
(* Literals.                                                               *)
(***************************************************************************)
write_string(s) ==
    LET Escaped(c) == CASE c = "\"" -> <<"\\", "\"">>
                        [] c = "\\" -> <<"\\", "\\">>
                        [] c = "\n" -> <<"\\", "n">>
                        [] c = "\r" -> <<"\\", "r">>
                        [] c = "\t" -> <<"\\", "t">>
                        [] c = "\f" -> <<"\\", "u", "000c">>
                        [] c = Nul  -> <<"\\", "u", "0000">>
                        [] OTHER    -> <<c>>
    IN  <<"\"">> \o FlattenSeq([i \in DOMAIN s |-> Escaped(s[i])]) \o <<"\"">>
write_template_string(s) ==
    FlattenSeq([i \in DOMAIN s |-> IF s[i] \in {Tick, "$", "\\"} THEN <<"\\", s[i]>> ELSE <<s[i]>>])
write_literal(v) ==
    CASE v[1] = "number" -> NumberText[v[2]]
      [] v[1] = "string" -> write_string(v[2])
      [] v[1] = "regex" -> <<"/">> \o v[2]
      [] v[1] = "boolean" -> <<v[2]>>
      [] OTHER -> <<v[1]>>

private_key_display(n) == {m \in PrivateNames : n = "#" \o m}
Named(n) ==
    IF private_key_display(n) = {} THEN <<n>>
    ELSE <<"#", CHOOSE m \in private_key_display(n) : TRUE>>
write_prop_key(key) ==
    CASE key[1] = "ident" -> Named(key[2])
      [] key[1] = "string" -> write_string(key[2])
      [] OTHER -> NumberText[key[2]]

(***************************************************************************)
(* Expressions.  parens says that the context needs parentheses around     *)
(* anything looser than a member access.                                   *)
(***************************************************************************)
Params(ps) == <<"(">> \o Listed([i \in DOMAIN ps |-> <<ps[i].n>>]) \o <<")">>

RECURSIVE write_expr(_, _)
RECURSIVE write_stmt(_)
Args(es) == Listed([i \in DOMAIN es |-> IF es[i] = None THEN <<>> ELSE write_expr(es[i], FALSE)])

write_prop_def(p) ==
    CASE p.k = "prop" -> write_prop_key(p.key) \o <<":", " ">> \o write_expr(p.v, FALSE)
      [] p.k = "getter" -> <<"get", " ">> \o write_prop_key(p.key) \o <<"(", ")", " ">>
                           \o write_stmt(p.body)
      [] p.k = "setter" -> <<"set", " ">> \o write_prop_key(p.key) \o <<"(", p.p, ")", " ">>
                           \o write_stmt(p.body)
      [] p.k = "method" -> write_prop_key(p.key) \o Params(p.ps) \o <<" ">> \o write_stmt(p.body)
      [] OTHER -> <<".", ".", ".">> \o write_expr(p.e, FALSE)

write_function(e, parens) ==
    Wrapped(<<"function">> \o (IF e.n = "" THEN <<>> ELSE <<" ", e.n>>) \o Params(e.ps)
            \o (IF e.ann = NoAnn THEN <<>>
                ELSE <<" ", "/", "*", "*", " ", "function", " ", e.n>> \o e.ann[2]
                     \o <<" ", "*", "/">>)
            \o <<" ">> \o write_stmt(e.body), parens)
write_member(e) ==
    Wrapped(write_expr(e.o, TRUE), e.o.k = "lit" /\ e.o.v[1] = "number") \o <<".">> \o Named(e.p)
write_unary(e, parens) ==
    LET wrap == e.e.k = "unary" /\ e.e.op \in {"-", "+", "++x", "--x"}
        arg  == IF wrap THEN Wrapped(write_expr(e.e, FALSE), TRUE) ELSE write_expr(e.e, TRUE)
        gap  == IF e.op \in {"typeof", "void", "delete", "await"} THEN <<" ">> ELSE <<>>
    IN  Wrapped(IF e.op \in {"x++", "x--"} THEN write_expr(e.e, TRUE) \o OpText(e.op)
                ELSE OpText(e.op) \o gap \o arg, parens)
write_segment(s) ==
    CASE s.k = "member" -> (IF s.opt THEN <<"?", ".">> ELSE <<".">>)
                           \o (IF private_key_display(s.n) = {} THEN <<s.n>> ELSE <<Nul>>)
      [] s.k = "computed" -> (IF s.opt THEN <<"?", ".", "[">> ELSE <<"[">>)
                             \o write_expr(s.as[1], FALSE) \o <<"]">>
      [] OTHER -> (IF s.opt THEN <<"?", ".">> ELSE <<>>) \o Wrapped(Args(s.as), TRUE)
write_template(e) ==
    <<Tick>> \o FlattenSeq([i \in DOMAIN e.quasis |->
                    write_template_string(e.quasis[i])
                    \o (IF i \in DOMAIN e.es
                        THEN <<"$", "{">> \o write_expr(e.es[i], FALSE) \o <<"}">> ELSE <<>>)])
    \o <<Tick>>
\* mutant: the right operand is printed without parentheses
write_binary_open(e, parens) ==
    Wrapped(write_expr(e.l, TRUE) \o Spaced(OpText(e.op)) \o write_expr(e.r, FALSE), parens)
write_binary(e, parens) ==
    Wrapped(write_expr(e.l, TRUE) \o Spaced(OpText(e.op)) \o write_expr(e.r, TRUE), parens)
write_expr(e, parens) ==
    CASE e.k = "lit" -> write_literal(e.v)
      [] e.k = "id" -> <<e.n>>
      [] e.k = "this" -> <<"this">>
      [] e.k = "array" -> <<"[">> \o Args(e.es) \o <<"]">>
      [] e.k = "object" ->
            <<"{">> \o Listed([i \in DOMAIN e.ps |-> write_prop_def(e.ps[i])]) \o <<"}">>
      [] e.k = "fn" -> write_function(e, parens)
      [] e.k = "member" -> write_member(e)
      [] e.k = "computed" -> write_expr(e.o, TRUE) \o <<"[">> \o write_expr(e.i, FALSE) \o <<"]">>
      [] e.k = "call" -> write_expr(e.f, TRUE) \o Wrapped(Args(e.as), TRUE)
      [] e.k = "new" -> <<"new", " ">> \o write_expr(e.f, TRUE) \o Wrapped(Args(e.as), TRUE)
      [] e.k = "newtarget" -> <<"new", ".", "target">>
      [] e.k = "unary" -> write_unary(e, parens)
      [] e.k = "binary" -> write_binary(e, parens)
      [] e.k = "assign" ->
            Wrapped(write_expr(e.l, FALSE) \o Spaced(OpText(e.op)) \o write_expr(e.r, FALSE), parens)
      [] e.k = "cond" ->
            Wrapped(write_expr(e.t, TRUE) \o Spaced(<<"?">>) \o write_expr(e.c, FALSE)
                    \o Spaced(<<":">>) \o write_expr(e.a, FALSE), parens)
      [] e.k = "nullish" ->
            Wrapped(write_expr(e.l, TRUE) \o Spaced(<<"?", "?">>) \o write_expr(e.r, TRUE), parens)
      [] e.k = "chain" ->
            Wrapped(write_expr(e.head, TRUE)
                    \o FlattenSeq([i \in DOMAIN e.segs |-> write_segment(e.segs[i])]), parens)
      [] e.k = "spread" -> <<".", ".", ".">> \o write_expr(e.e, TRUE)
      [] e.k = "restarray" ->
            write_expr(e.e, TRUE) \o <<".", "slice", "(">> \o NumberText[ToString(e.skip)] \o <<")">>
      [] e.k = "restrow" -> <<"/", "*", "rest", "*", "/", " ">> \o write_expr(e.e, TRUE)
      [] e.k = "seq" -> Wrapped(Args(e.es), parens)
      [] e.k = "template" -> write_template(e)

(***************************************************************************)
(* Statements.                                                             *)
(***************************************************************************)
Comment(words, content) ==
    <<"/", "*", "*", " ">> \o FlattenSeq([i \in DOMAIN words |-> <<words[i], " ">>]) \o content
    \o <<" ", "*", "/", "\n">>
TypeComments(words, ds) ==
    FlattenSeq([i \in DOMAIN ds |-> IF ds[i].ann = NoAnn THEN <<>>
                                    ELSE Comment(words \o <<ds[i].n>>, <<":">> \o ds[i].ann[2])])
Declarators(ds) ==
    Listed([i \in DOMAIN ds |-> <<ds[i].n>> \o (IF ds[i].init = None THEN <<>>
                                   ELSE Spaced(<<"=">>) \o write_expr(ds[i].init, FALSE))])
write_var(s) ==
    IF Len(s.ds) = 1 /\ s.ds[1].ann # NoAnn /\ s.ds[1].ann[1]
    THEN Comment(<<"class", s.ds[1].n>>, s.ds[1].ann[2]) \o <<"class", " ", s.ds[1].n, ";">>
    ELSE TypeComments(<<s.kind>>, s.ds) \o <<s.kind, " ">> \o Declarators(s.ds) \o <<";">>

Lines(stmts) == FlattenSeq([i \in DOMAIN stmts |-> write_stmt(stmts[i]) \o <<"\n">>])
FunctionText(f, words) ==
    (IF f.ann = NoAnn THEN <<>> ELSE Comment(words \o <<f.n>>, f.ann[2]))
    \o FlattenSeq([i \in DOMAIN words |-> <<words[i], " ">>]) \o <<f.n>> \o Params(f.ps) \o <<" ">>
    \o write_stmt(f.body)

SpecText(s) == IF s.imported = s.local THEN <<s.local>>
               ELSE <<s.imported, " ", "as", " ", s.local>>
SpecTexts(ss) == [i \in DOMAIN ss |-> SpecText(ss[i])]
FromText(source) == <<" ", "from", " ", "\"">> \o source \o <<"\"", ";">>
write_import(s) ==
    LET named == SelectSeq(s.specs, LAMBDA x : x.form = "named")
        other == SelectSeq(s.specs, LAMBDA x : x.form # "named")
        heads == [i \in DOMAIN other |-> IF other[i].form = "default" THEN <<other[i].local>>
                                         ELSE <<"*", " ", "as", " ", other[i].local>>]
        braces == IF named = <<>> THEN <<>>
                  ELSE <<<<"{", " ">> \o Listed(SpecTexts(named)) \o <<" ", "}">>>>
    IN  <<"import", " ">>
        \o (IF s.specs = <<>> THEN <<"\"">> \o s.source \o <<"\"", ";">>
            ELSE Listed(heads \o braces) \o FromText(s.source))
write_export(s) ==
    LET x == s.x
    IN  CASE s.form = "var" -> TypeComments(<<"export", x.kind>>, x.ds)
                               \o <<"export", " ", x.kind, " ">> \o Declarators(x.ds) \o <<";">>
          [] s.form = "function" -> FunctionText(x, <<"export", "function">>)
          [] s.form = "default" -> <<"export", " ", "default", " ">> \o write_expr(x, FALSE) \o <<";">>
          [] s.form = "list" -> <<"export", " ", "{", " ">> \o Listed(SpecTexts(x)) \o <<" ", "}", ";">>
          [] s.form = "from" -> <<"export", " ", "{", " ">> \o Listed(SpecTexts(x.specs))
                                \o <<" ", "}">> \o FromText(x.source)
          [] OTHER -> <<"export", " ", "*">> \o (IF x.as = "" THEN <<>> ELSE <<" ", "as", " ", x.as>>)
                      \o FromText(x.source)

ForInitText(i) ==
    CASE i = None -> <<>>
      [] i.k = "var" -> <<"var", " ">> \o Declarators(i.ds)
      [] OTHER -> write_expr(i, FALSE)
OptionText(e) == IF e = None THEN <<>> ELSE write_expr(e, FALSE)
write_for(s) ==
    (IF s.init # None /\ s.init.k = "var" THEN TypeComments(<<"var">>, s.init.ds) ELSE <<>>)
    \o <<"for", " ", "(">> \o ForInitText(s.init) \o <<";", " ">> \o OptionText(s.t) \o <<";", " ">>
    \o OptionText(s.u) \o <<")", " ">> \o write_stmt(s.body)
write_for_each(s, word) ==
    (IF s.left.k = "decl"
     THEN TypeComments(<<"var">>, <<s.left>>) \o <<"for", " ", "(", "var", " ", s.left.n>>
     ELSE <<"for", " ", "(">> \o write_expr(s.left, FALSE))
    \o Spaced(<<word>>) \o write_expr(s.right, FALSE) \o <<")", " ">> \o write_stmt(s.body)
write_case(c) ==
    (IF c.t = None THEN <<"default">> ELSE <<"case", " ">> \o write_expr(c.t, FALSE))
    \o <<":", "\n">> \o Lines(c.body)
JumpText(word, label) == (IF label = "" THEN <<word>> ELSE <<word, " ", label>>) \o <<";">>
write_try(s) ==
    <<"try", " ">> \o write_stmt(s.block)
    \o (IF s.handler = None THEN <<>>
        ELSE <<" ", "catch", " ", "(", s.handler.n, ")", " ">> \o write_stmt(s.handler.body))
    \o (IF s.finalizer = None THEN <<>> ELSE <<" ", "finally", " ">> \o write_stmt(s.finalizer))

write_stmt(s) ==
    CASE s.k = "block" -> <<"{", "\n">> \o Lines(s.body) \o <<"}">>
      [] s.k = "empty" -> <<";">>
      [] s.k = "expr" -> write_expr(s.e, FALSE) \o <<";">>
      [] s.k = "var" -> write_var(s)
      [] s.k = "importdecl" -> write_import(s)
      [] s.k = "export" -> write_export(s)
      [] s.k = "if" ->
            <<"if", " ", "(">> \o write_expr(s.t, FALSE) \o <<")", " ">> \o write_stmt(s.c)
            \o (IF s.a = None THEN <<>> ELSE <<" ", "else", " ">> \o write_stmt(s.a))
      [] s.k = "while" -> <<"while", " ", "(">> \o write_expr(s.t, FALSE) \o <<")", " ">>
                          \o write_stmt(s.body)
      [] s.k = "dowhile" -> <<"do", " ">> \o write_stmt(s.body) \o <<" ", "while", " ", "(">>
                            \o write_expr(s.t, FALSE) \o <<")", ";">>
      [] s.k = "for" -> write_for(s)
      [] s.k = "forin" -> write_for_each(s, "in")
      [] s.k = "forof" -> write_for_each(s, "of")
      [] s.k = "break" -> JumpText("break", s.label)
      [] s.k = "continue" -> JumpText("continue", s.label)
      [] s.k = "return" -> IF s.e = None THEN <<"return", ";">>
                           ELSE <<"return", " ">> \o write_expr(s.e, FALSE) \o <<";">>
      [] s.k = "throw" -> <<"throw", " ">> \o write_expr(s.e, FALSE) \o <<";">>
      [] s.k = "try" -> write_try(s)
      [] s.k = "switch" ->
            <<"switch", " ", "(">> \o write_expr(s.d, FALSE) \o <<")", " ", "{", "\n">>
            \o FlattenSeq([i \in DOMAIN s.cases |-> write_case(s.cases[i])]) \o <<"}">>
      [] s.k = "labeled" -> <<s.label, ":", " ">> \o write_stmt(s.body)
      [] s.k = "fdecl" -> FunctionText(s, <<"function">>)

print_program(stmts) == Lines(stmts)
=============================================================================
