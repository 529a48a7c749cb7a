------------------------------ MODULE MCSyntax ------------------------------
(***************************************************************************)
(* The scanner, the parser and the printer on every text that grows out of *)
(* a root by a bounded number of expansions of its holes.  A hole is an    *)
(* operand of a bare expression (<F>), an expression inside a statement    *)
(* (<E>), a statement (<S>) or a pattern (<P>).                            *)
(***************************************************************************)
EXTENDS Parser, Pretty, FiniteSets

CONSTANTS MaxExpansions,     \* root -> expansions of a text that grows from it
          Gaps               \* whether texts use what the printer cannot print

VARIABLES text,      \* the lexemes of the text, holes among them
          n,         \* the expansions so far
          root,      \* what the text grew from
          soft,      \* printing loses a distinction that the trees make
          asked      \* the text has been scanned, parsed and printed
vars == <<text, n, root, soft, asked>>

(***************************************************************************)
(* Templates.                                                              *)
(***************************************************************************)
Flats ==
    {<<"<F>", op, "<F>">> : op \in {"+", "*", "**", "||", "===", "??", "=", "+=", ","}}
    \cup {<<"<F>", "?", "<F>", ":", "<F>">>, <<"-", "<F>">>, <<"typeof", "<F>">>, <<"<F>", "++">>,
          <<"<F>", ".", "x">>, <<"<F>", "(", ")">>, <<"<F>", "[", "<F>", "]">>,
          <<"(", "<F>", ")">>, <<"x", "=>", "<F>">>, <<"new", "<F>">>, <<"<F>", "/", "<F>">>,
          <<"new", "<F>", "(", "<F>", ")">>}
Exprs ==
    {<<"<E>", "-", "<E>">>, <<"(", "<E>", ",", "a", ")", "*", "<E>">>, <<"-", "<E>">>,
     <<"<E>", "-", "(", "<E>", ")">>, <<"(", "<E>", ")", "**", "(", "<E>", ")">>,
     <<"(", "<E>", ")", ".", "x">>, <<"(", "<E>", ")", "(", "a", ")">>,
     <<"typeof", "<E>">>, <<"<E>", "++">>, <<"(", "<E>", ")">>, <<"<E>", "?", "<E>", ":", "<E>">>,
     <<"<E>", "??", "<E>">>, <<"a", "=", "<E>">>, <<"<E>", ".", "x">>, <<"<E>", "[", "<E>", "]">>,
     <<"<E>", "(", "<E>", ",", "...", "b", ")">>, <<"new", "a", ".", "x", "(", "<E>", ")">>,
     <<"<E>", "?.", "x", "(", "<E>", ")">>, <<"<E>", "?.", "[", "<E>", "]">>,
     <<"[", "<E>", ",", ",", "<E>", "]">>, <<"#1.5">>, <<"#text">>, <<"#regex">>,
     <<"#open", "(", "a", "-", "b", ")", "#close">>, <<"this">>, <<"null">>,
     <<"{", "x", ":", "<E>", ",", "...", "<E>", "}">>,
     <<"{", "get", "x", "(", ")", "{", "<S>", "}", ",", "z", "(", "x", ")", "{", "<S>", "}", "}">>,
     <<"function", "(", "x", ",", "z", ")", "{", "<S>", "}">>,
     <<"function", "f", "(", "{", "x", "}", ")", "{", "return", "<E>", ";", "}">>}
SoftExprs == {<<"(", "x", "=>", "<E>", ")">>, <<"async", "(", "[", "x", "]", ")", "=>", "<E>">>}
Stmts ==
    {<<"y", "=", "<E>", ";">>, <<"var", "x", "=", "<E>", ",", "z", ";">>,
     <<"const", "x", "=", "<E>", ";">>, <<"if", "(", "<E>", ")", "<S>">>,
     <<"if", "(", "<E>", ")", "<S>", "else", "<S>">>, <<"while", "(", "<E>", ")", "<S>">>,
     <<"do", "<S>", "while", "(", "<E>", ")", ";">>,
     <<"for", "(", "var", "x", "=", "<E>", ";", "<E>", ";", "<E>", ")", "<S>">>,
     <<"for", "(", ";", ";", ")", "<S>">>, <<"for", "(", "x", "in", "<E>", ")", "<S>">>,
     <<"for", "(", "var", "x", "of", "<E>", ")", "<S>">>, <<"{", "<S>", "<S>", "}">>,
     <<"throw", "<E>", ";">>, <<"return", "<E>", ";">>, <<"continue", ";">>, <<"x", ":", "<S>">>,
     <<"while", "(", "<E>", ")", "break", "x", ";">>,
     <<"try", "{", "<S>", "}", "catch", "(", "x", ")", "{", "<S>", "}">>,
     <<"try", "{", "<S>", "}", "catch", "{", "}", "finally", "{", "<S>", "}">>,
     <<"switch", "(", "<E>", ")", "{", "case", "<E>", ":", "<S>", "default", ":", "<S>", "}">>,
     <<"function", "f", "(", "x", "=", "<E>", ")", "{", "<S>", "}">>,
     <<"async", "function", "f", "(", ")", "{", "<S>", "}">>,
     <<"class", "C", "{", "k", "=", "<E>", ";", "constructor", "(", "x", ")", "{",
       "this", ".", "x", "=", "<E>", ";", "}", "m", "(", ")", "{", "<S>", "}", "}">>,
     <<"#varT", "var", "x", "=", "<E>", ";">>, <<"#funT", "function", "f", "(", ")", "{", "<S>", "}">>,
     <<"import", "x", ",", "{", "f", "as", "z", "}", "from", "#path", ";">>,
     <<"export", "default", "<E>", ";">>, <<"export", "let", "x", "=", "<E>", ";">>,
     <<"export", "function", "f", "(", ")", "{", "<S>", "}">>,
     <<"export", "{", "x", "as", "default", "}", "from", "#path", ";">>,
     <<"export", "*", "as", "x", "from", "#path", ";">>}
SoftStmts == {<<"[", "x", ",", "z", "=", "<E>", "]", "=", "<E>", ";">>,
              <<"for", "(", "let", "x", "in", "<E>", ")", "<S>">>,
              <<"for", "(", "const", "{", "x", "=", "<E>", "}", "of", "<E>", ")", "<S>">>,
              <<"var", "[", "x", "=", "<E>", ",", "z", "]", "=", "<E>", ";">>}
\* The printer has no form for these: await ends up outside an async function.
GapStmts == {<<"async", "function", "f", "(", ")", "{", "await", "<E>", ";", "}">>}
Pats ==
    {<<"{", "x", "}">>, <<"{", "x", ":", "<P>", ",", "z", ":", "<P>", "}">>, <<"[", "<P>", ",", "<P>", "]">>,
     <<"[", "<P>", ",", "...", "r", "]">>, <<"{", "x", ":", "<P>", ",", "...", "s", "}">>,
     <<"{", "z", ":", "<P>", "=", "u", "}">>, <<"[", "<P>", "=", "u", "]">>, <<"{", "w", "=", "u", "}">>}

Expansions(h) ==
    CASE h = "<F>" -> Flats
      [] h = "<E>" -> Exprs \cup SoftExprs
      [] h = "<S>" -> Stmts \cup SoftStmts \cup (IF Gaps THEN GapStmts ELSE {})
      [] h = "<P>" -> Pats
      [] OTHER -> {}

Roots == {"<F>", "<E>", "<S>", "<P>"}
Bounds == [r \in Roots |-> IF r \in {"<F>", "<P>"} THEN 3 ELSE 2]
Init == /\ root \in Roots
        /\ text = <<root>>
        /\ n = 0
        /\ soft = FALSE
        /\ asked = FALSE
Expand ==
    /\ ~asked
    /\ n < MaxExpansions[root]
    /\ \E i \in DOMAIN text : \E t \in Expansions(text[i]) :
          /\ text' = SubSeq(text, 1, i - 1) \o t \o SubSeq(text, i + 1, Len(text))
          /\ soft' = (soft \/ t \in SoftExprs \cup SoftStmts)
    /\ n' = n + 1
    /\ UNCHANGED <<root, asked>>
Ask ==
    /\ ~asked
    /\ asked' = TRUE
    /\ UNCHANGED <<text, n, root, soft>>
Next == Expand \/ Ask

(***************************************************************************)
(* The text as atoms: the holes left become names (a call, for a           *)
(* statement), the lexemes get their spelling, and a layout stands between *)
(* any two of them.  A line break is left out where JavaScript gives it a  *)
(* meaning.                                                                *)
(***************************************************************************)
Holes == {"<F>", "<E>", "<P>"}
Leaves == <<"a", "b", "c", "d", "e", "g", "h", "p", "q">>
Leaf(i) == Leaves[Cardinality({j \in 1..i : text[j] \in Holes})]
Whole(ls) == IF root = "<E>" THEN <<"y", "=">> \o ls \o <<";">> ELSE ls
Filled == Whole(FlattenSeq([i \in DOMAIN text |->
              CASE text[i] \in Holes -> <<Leaf(i)>>
                [] text[i] = "<S>" -> <<"f", "(", ")", ";">>
                [] OTHER -> <<text[i]>>]))
Literals ==
    "#1.5" :> <<"1", ".", "5">> @@ "#path" :> <<"'", "p", "'">>
    @@ "#text" :> <<"'", "a", "\\", "n", "\"", "$", "\\", "\\", "'">> @@ "#regex" :> <<"/", "a", "/">>
    @@ "#open" :> <<Tick, "a", "\\", Tick, "$", "{">> @@ "#close" :> <<"}", "\\", "$", "{", Tick>>
    @@ "#varT" :> <<"/", "*", "*", " ", "var", " ", "x", ":", " ", "T", " ", "*", "/">>
    @@ "#funT" :> <<"/", "*", "*", " ", "function", " ", "f", ":", " ", "T", " ", "*", "/">>
Spelled(x) == IF x \in DOMAIN Literals THEN Literals[x]
              ELSE IF x \in DOMAIN Spelling THEN Spelling[x] ELSE <<x>>
Blank == <<" ">>
Layouts == {<<"\n">>, <<" ", "/", "/", " ", "a", "\n">>,
            <<" ", "/", "*", " ", "a", "'", "*", "/", " ">>}
Between(x, y, layout) ==
    IF "\n" \in ToSet(layout) /\ (x \in {"return", "throw", "break", "continue"} \/ y = "++")
    THEN Blank ELSE layout
Rendered(ls, layout) ==
    FlattenSeq([i \in DOMAIN ls |-> IF i = 1 THEN Spelled(ls[i])
                                    ELSE Between(ls[i - 1], ls[i], layout) \o Spelled(ls[i])])

(***************************************************************************)
(* Printing a program and parsing it again gives the program back; where   *)
(* the printer drops a distinction (an arrow becomes a function, let in a  *)
(* for head becomes var, undefined becomes a name), it gives a program     *)
(* that prints the same way.  (proptests.rs tests this on small trees that *)
(* its strategies can build.)                                              *)
(***************************************************************************)
RoundTrip ==
    [][asked' => (
        root \in {"<E>", "<S>"} =>
            LET r     == parse(Rendered(Filled, Blank))
                out   == print_program(r.v)
                again == parse(out)
            IN  r.ok => /\ again.ok
                        /\ print_program(again.v) = out
                        /\ ~soft => again.v = r.v)]_vars

(***************************************************************************)
(* What is printed of an accepted program is accepted again ("emits a      *)
(* single JS blob that QuickJS can `eval`", inty-bundle/src/lib.rs).       *)
(***************************************************************************)
PrintedParses ==
    root \in {"<E>", "<S>"} =>
        LET r == parse(Rendered(Filled, Blank)) IN r.ok => parse(print_program(r.v)).ok

(***************************************************************************)
(* Line breaks and comments between two tokens change no program, except   *)
(* at the places where JavaScript says that a line break does.             *)
(***************************************************************************)
LayoutIsFree ==
    [][asked' => (
        root # "<P>" =>
            LET r == parse(Rendered(Filled, Blank))
            IN  \A l \in Layouts : LET q == parse(Rendered(Filled, l))
                                   IN  q.ok = r.ok /\ q.v = r.v)]_vars

(***************************************************************************)
(* The grammar of bare expressions, as a declaration: every tree that the  *)
(* lexemes can be derived to, with the level of its outermost production.  *)
(* 0 is a comma, 1 an assignment or an arrow, 2 a conditional, 3 ??, 4 to  *)
(* 14 the binary operators, 15 a prefix, 16 a postfix, 17 new without      *)
(* arguments, 18 a call, 19 a member access, 20 a name or parentheses.     *)
(***************************************************************************)
Tree(v, level)   == [v |-> v, level |-> level]
Above(ts, level) == {t \in ts : t.level >= level}
Elements(t)      == IF t.level = 0 THEN t.v.es ELSE <<t.v>>      \* of a comma list
\* operator -> the level of its tree, of its left operand and of its right operand
Infix == "," :> <<0, 0, 1>> @@ "=" :> <<1, 2, 1>> @@ "+=" :> <<1, 2, 1>> @@ "??" :> <<3, 3, 4>>
         @@ "||" :> <<4, 4, 5>> @@ "===" :> <<9, 9, 10>> @@ "+" :> <<12, 12, 13>>
         @@ "*" :> <<13, 13, 14>> @@ "/" :> <<13, 13, 14>> @@ "**" :> <<14, 15, 14>>
RECURSIVE Derive(_)
Derive(ls) ==
    LET m          == Len(ls)
        From(i, j) == Derive(SubSeq(ls, i, j))
        All(c)     == {i \in 2..(m - 1) : ls[i] = c}
        Node(op, l, r) == CASE op = "," -> Sequence(Elements(l) \o <<r.v>>)
                            [] op \in {"=", "+="} -> Assign(op, l.v, r.v)
                            [] op = "??" -> Nullish(l.v, r.v)
                            [] OTHER -> Binary(op, l.v, r.v)
        Fits(op, l) == op \in {"=", "+="} => l.v.k \in {"id", "member", "computed"}
        Operation(i, op) ==
            {Tree(Node(op, x[1], x[2]), Infix[op][1]) :
                x \in {y \in Above(From(1, i - 1), Infix[op][2]) \X Above(From(i + 1, m), Infix[op][3]) :
                           Fits(op, y[1])}}
        Choice(i, j) ==
            {Tree(Conditional(x[1].v, x[2].v, x[3].v), 2) :
                x \in Above(From(1, i - 1), 3) \X Above(From(i + 1, j - 1), 1)
                      \X Above(From(j + 1, m), 1)}
        Mapped   == {Tree(FnExpr("", <<Param("x", 0)>>, Block(<<Return(t.v)>>), TRUE, NoAnn), 1) :
                        t \in Above(From(3, m), 1)}
        Prefixed == {Tree(Unary(ls[1], t.v), 15) : t \in Above(From(2, m), 15)}
        Postfixed == {Tree(Unary("x++", t.v), 16) : t \in Above(From(1, m - 1), 17)}
        Bare     == {Tree(New(t.v, <<>>), 17) : t \in Above(From(2, m), 19)}
        Actuals(i) == IF i + 1 = m THEN {<<>>} ELSE {Elements(t) : t \in From(i + 1, m - 1)}
        Made(i)  == {Tree(New(x[1].v, x[2]), 18) : x \in Above(From(2, i - 1), 19) \X Actuals(i)}
        Called(i) == {Tree(Call(x[1].v, x[2]), 18) : x \in Above(From(1, i - 1), 18) \X Actuals(i)}
        Access(t) == IF t.level >= 19 THEN 19 ELSE 18
        Dotted   == {Tree(Member(t.v, "x"), Access(t)) : t \in Above(From(1, m - 2), 18)}
        Indexed(i) == {Tree(Computed(x[1].v, x[2].v), Access(x[1])) :
                          x \in Above(From(1, i - 1), 18) \X From(i + 1, m - 1)}
        When(c, ts) == IF c THEN ts ELSE {}
    IN  IF m < 2 THEN {Tree(Name(ls[i]), 20) : i \in {j \in DOMAIN ls : ls[j] \in ToSet(Leaves)}}
        ELSE UNION {Operation(i, ls[i]) : i \in {j \in 2..(m - 1) : ls[j] \in DOMAIN Infix}}
             \cup UNION {Choice(i, j) : i \in All("?"), j \in All(":")}
             \cup When(ls[1] = "x" /\ ls[2] = "=>", Mapped)
             \cup When(ls[1] \in {"-", "typeof"}, Prefixed)
             \cup When(ls[m] = "++", Postfixed)
             \cup When(ls[1] = "new", Bare \cup UNION {Made(i) : i \in When(ls[m] = ")", All("("))})
             \cup UNION {Called(i) : i \in When(ls[m] = ")", All("("))}
             \cup When(ls[1] = "(" /\ ls[m] = ")", {Tree(t.v, 20) : t \in From(2, m - 1)})
             \cup When(ls[m] = "x" /\ ls[m - 1] = ".", Dotted)
             \cup UNION {Indexed(i) : i \in When(ls[m] = "]", All("["))}

(***************************************************************************)
(* The parser accepts a bare expression exactly when the grammar derives   *)
(* it, and its tree is the only one that the grammar derives: climbing the *)
(* precedences and looking ahead for arrows give the layered grammar.      *)
(***************************************************************************)
GrammarDecides ==
    [][asked' => (
        root = "<F>" =>
            LET p == ParserOn(tokenize(Rendered(Filled, Blank)))
                r == Parse("expression", p)
            IN  {t.v : t \in Derive(Filled)}
                    = IF r.ok /\ current(r.p) = Eof THEN {r.v} ELSE {})]_vars

(***************************************************************************)
(* Values and what a pattern selects of one: the reference for Patterns.   *)
(* A value is undefined, an atom, an object or an array.  Matching an      *)
(* object or array pattern against undefined throws.                       *)
(***************************************************************************)
Undef      == [t |-> "undefined"]
Atom(a)    == [t |-> "atom", a |-> a]
Obj(f)     == [t |-> "object", f |-> f]
Arr(s)     == [t |-> "array", s |-> s]
Fallback   == Atom("u")
Get(v, key) == IF v.t = "object" /\ key \in DOMAIN v.f THEN v.f[key] ELSE Undef
Nth(v, i)   == IF v.t = "array" /\ i \in DOMAIN v.s THEN v.s[i] ELSE Undef
Without(v, keys) == IF v.t # "object" THEN Obj(<<>>)
                    ELSE Obj([key \in DOMAIN v.f \ keys |-> v.f[key]])
After(v, i) == Arr(IF v.t # "array" \/ i >= Len(v.s) THEN <<>> ELSE SubSeq(v.s, i + 1, Len(v.s)))

Throws == [ok |-> FALSE, env |-> <<>>]
Binds(env) == [ok |-> TRUE, env |-> env]
Both(r, q) == IF r.ok /\ q.ok THEN Binds(q.env @@ r.env) ELSE Throws
RECURSIVE Match(_, _)
Match(pat, v) ==
    LET Parts == IF pat.k = "object"
                 THEN [i \in DOMAIN pat.ents |-> Match(pat.ents[i].sub, Get(v, pat.ents[i].key))]
                 ELSE [i \in DOMAIN pat.elems |-> Match(pat.elems[i], Nth(v, i))]
        Others == IF pat.rest = NoRest THEN <<>>
                  ELSE pat.rest :> (IF pat.k = "object"
                                    THEN Without(v, {e.key : e \in ToSet(pat.ents)})
                                    ELSE After(v, Len(pat.elems)))
    IN  CASE pat.k = "ident" -> Binds(pat.n :> v)
          [] pat.k = "default" -> Match(pat.pat, IF v = Undef THEN Fallback ELSE v)
          [] v = Undef -> Throws
          [] OTHER -> Both(FoldLeft(Both, Binds(<<>>), Parts), Binds(Others))

(***************************************************************************)
(* Running what a pattern was desugared to.                                *)
(***************************************************************************)
Stuck == [t |-> "stuck"]
RECURSIVE ValueOf(_, _)
ValueOf(e, env) ==
    CASE e.k = "id" -> IF e.n \in DOMAIN env THEN env[e.n] ELSE Stuck
      [] e.k = "lit" -> Undef
      [] e.k = "cond" -> IF ValueOf(e.t.l, env) = Undef THEN ValueOf(e.c, env) ELSE ValueOf(e.a, env)
      [] OTHER ->
            LET v == ValueOf(IF e.k \in {"restrow", "restarray"} THEN e.e ELSE e.o, env)
            IN  CASE v \in {Undef, Stuck} -> Stuck
                  [] e.k = "member" -> Get(v, e.p)
                  [] e.k = "computed" -> Nth(v, 1 + (CHOOSE i \in 0..9 : e.i = Number(i)))
                  [] e.k = "restrow" -> Without(v, ToSet(e.excluded))
                  [] OTHER -> After(v, e.skip)
Store(r, d) ==
    LET v == ValueOf(d.init, r.env)
    IN  IF r.ok /\ v # Stuck THEN Binds(d.n :> v @@ r.env) ELSE Throws
RECURSIVE Stores(_)
Stores(s) ==
    CASE s.k = "var" -> s.ds
      [] s.k = "block" -> FlattenSeq([i \in DOMAIN s.body |-> Stores(s.body[i])])
      [] s.k = "fdecl" -> Stores(s.body)
      [] s.k = "expr" -> <<[n |-> s.e.l.n, init |-> s.e.r]>>

Samples ==
    LET a == Atom("a")
        b == Atom("b")
    IN  {Undef, a, Arr(<<>>), Arr(<<a, b>>), Arr(<<Arr(<<a, b>>), Obj("x" :> a @@ "z" :> b), b>>),
         Obj("x" :> a), Obj("z" :> Arr(<<a>>) @@ "w" :> b),
         Obj("x" :> Obj("x" :> a @@ "w" :> b) @@ "z" :> Obj("z" :> a @@ "x" :> Arr(<<b>>))),
         Arr(<<Undef, Arr(<<Arr(<<a>>), b, a>>)>>), Obj("x" :> Arr(<<Obj("z" :> a), b>>) @@ "w" :> a)}

(***************************************************************************)
(* A declaration, an assignment and a parameter that destructure a value   *)
(* give every name of the pattern the part of the value that the pattern   *)
(* selects, and fail when and only when matching fails: the flattening     *)
(* into temporaries reads each part once it exists and none from another   *)
(* pattern's temporary.                                                    *)
(***************************************************************************)
Uses == {<<"var", "<>", "=", "y", ";">>, <<"(", "<>", "=", "y", ")", ";">>,
         <<"function", "f", "(", "<>", ")", "{", "}">>}
Placed(use, ls) == FlattenSeq([i \in DOMAIN use |-> IF use[i] = "<>" THEN ls ELSE <<use[i]>>])
PatternsBind ==
    [][asked' => (
        root = "<P>" =>
            LET pat == Parse("pattern", ParserOn(tokenize(Rendered(Filled, Blank)))).v
            IN  \A use \in Uses : \A v \in Samples :
                    LET r   == parse(Rendered(Placed(use, Filled), Blank))
                        env == "y" :> v @@ "u" :> Fallback @@ fresh_temp_name(0) :> v
                        out == FoldLeft(Store, Binds(env), Stores(r.v[1]))
                        ref == Match(pat, v)
                    IN  r.ok /\ pat.k # "ident" =>
                            /\ out.ok = ref.ok
                            /\ ref.ok => \A x \in DOMAIN ref.env : out.env[x] = ref.env[x])]_vars
=============================================================================
