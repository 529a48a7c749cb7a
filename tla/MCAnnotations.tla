--------------------------- MODULE MCAnnotations ---------------------------
(***************************************************************************)
(* The annotation parser and the type printer on every annotation that a   *)
(* bounded number of forms can write, the type each is meant to stand for  *)
(* worked out from its form (Denote) and not from its text.                *)
(***************************************************************************)
EXTENDS TypeParser, Declarations, Tidy

CONSTANT MaxForms      \* forms an annotation is written with

VARIABLES note,        \* the annotation: [f |-> form, kids |-> annotations]
          n,           \* the forms in it
          asked        \* it has been read

vars == <<note, n, asked>>

MCPropOrder == <<"call", "iter", "x", "y">>

(***************************************************************************)
(* A form's class and text.  A hole in the text takes an annotation of     *)
(* some classes: <T> any; <L>, the last member of a union, none that is a  *)
(* union or quantified; <S>, what takes a suffix, no function either.      *)
(***************************************************************************)
Accepts == [h \in {"<T>"} |-> {"union", "forall", "function", "simple"}]
           @@ [h \in {"<L>"} |-> {"function", "simple"}] @@ [h \in {"<S>"} |-> {"simple"}]
Form(class, text) == [class |-> class, text |-> text]
Leaves == {"Number", "String", "Null", "undefined", "A", "Lost", "Id", "1"}
Forms ==
    [f \in Leaves |-> Form("simple", <<f>>)]
    @@ "union"    :> Form("union", <<"<S>", "|", "<L>">>)
    @@ "forall"   :> Form("forall", <<"<", "A", ">", "(", "<T>", ")", "=>", "<T>">>)
    @@ "where"    :> Form("forall", <<"<", "A", ">", "where", "Plus", "A", ",", "A", "has", "{", "x", ":",
                                      "<T>", "}", "=>", "(", "A", ")", "=>", "<T>">>)
    @@ "function" :> Form("function", <<"(", "<T>", ")", "=>", "<T>">>)
    @@ "optional" :> Form("function", <<"(", "x", ":", "<T>", ",", "y", "?", ":", "<T>", ")", "=>",
                                        "Number">>)
    @@ "misplaced" :> Form("function", <<"(", "x", "?", ":", "<T>", ",", "y", ":", "Number", ")", "=>",
                                         "<T>">>)
    @@ "method"   :> Form("function", <<"(", "this", ":", "<T>", ")", "=>", "<T>">>)
    @@ "new"      :> Form("function", <<"new", "(", "<T>", ")", "=>", "<T>">>)
    @@ "array"    :> Form("simple", <<"<S>", "[]">>)
    @@ "maybe"    :> Form("simple", <<"<S>", "?">>)
    @@ "group"    :> Form("simple", <<"(", "<T>", ")">>)
    @@ "record"   :> Form("simple", <<"{", "x", ":", "<T>", ",", "y", "?", ":", "<T>", "}">>)
    @@ "flags"    :> Form("simple", <<"{", "readonly", "x", ":", "<T>", ";", "proto", "y", ":", "<T>",
                                      ";", "}">>)
    @@ "callable" :> Form("simple", <<"{", "(", "<T>", ")", "=>", "<T>", ",", "x", ":", "Number", "}">>)
    @@ "index"    :> Form("simple", <<"{", "[", "k", ":", "String", "]", ":", "<T>", "}">>)
    @@ "promise"  :> Form("simple", <<"Promise", "<", "<T>", ">">>)
    @@ "tuple"    :> Form("simple", <<"[", "<T>", ",", "<T>", "]">>)
    @@ "opt"      :> Form("simple", <<"Opt", "<", "<T>", ">">>)
    @@ "pair"     :> Form("simple", <<"Pair", "<", "<T>", ",", "String", ">">>)
    @@ "short"    :> Form("simple", <<"Pair", "<", "<T>", ">">>)

HolesOf(f) == SelectSeq(Forms[f].text, LAMBDA x : x \in DOMAIN Accepts)
Node(f, kids) == [f |-> f, kids |-> kids]
Leaf(f) == Node(f, <<>>)
Blank(f) == Node(f, [i \in DOMAIN HolesOf(f) |-> Leaf(IF i = 1 THEN "Number" ELSE "String")])

(***************************************************************************)
(* The annotations that replace one leaf of a by the form f.               *)
(***************************************************************************)
RECURSIVE Grown(_, _, _)
Grown(a, hole, f) ==
    IF a.kids = <<>>
    THEN IF Forms[f].class \in Accepts[hole] /\ f # a.f THEN {Blank(f)} ELSE {}
    ELSE UNION {{[a EXCEPT !.kids[i] = k] : k \in Grown(a.kids[i], HolesOf(a.f)[i], f)} :
                i \in DOMAIN a.kids}

Init == note = Leaf("Number") /\ n = 0 /\ asked = FALSE
Grow(f) ==
    /\ ~asked
    /\ n < MaxForms
    /\ note' \in Grown(note, "<T>", f)
    /\ n' = n + 1
    /\ UNCHANGED asked
Ask ==
    /\ ~asked
    /\ asked' = TRUE
    /\ UNCHANGED <<note, n>>
Next == (\E f \in DOMAIN Forms : Grow(f)) \/ Ask
Spec == Init /\ [][Next]_vars

(***************************************************************************)
(* Its text.                                                               *)
(***************************************************************************)
RECURSIVE Text(_)
Text(a) ==
    LET text == Forms[a.f].text
        hole(i) == Cardinality({j \in 1..i : text[j] \in DOMAIN Accepts})
    IN FlattenSeq([i \in DOMAIN text |->
           IF text[i] \in DOMAIN Accepts THEN Text(a.kids[hole(i)]) ELSE <<text[i]>>])

(***************************************************************************)
(* What it stands for.  at numbers the node: it names its type and         *)
(* presence variables; a is the variable A stands for.                     *)
(***************************************************************************)
IdName  == 7 :> "Id"
OptBody == UnionOf(<<Var(Flex(90)), Null>>)
PairBody == Row([x |-> pre(Var(Flex(91))), y |-> pre(Var(Flex(92)))], Closed)
Def(params, body, id) == [params |-> params, body |-> body, id |-> id, open_arity |-> FALSE]
Aliases == "Opt" :> Def(<<90>>, OptBody, None) @@ "Pair" :> Def(<<91, 92>>, PairBody, None)
           @@ "Id" :> Def(<<>>, String, Some(7))

Fields(x, y) == Row("x" :> x @@ "y" :> y, Closed)
RECURSIVE Denote(_, _, _)
Denote(a, at, A) ==
    LET inner  == IF Forms[a.f].class = "forall" THEN Some(at) ELSE A
        k(i)   == Denote(a.kids[i], 10 * at + i, inner)
        fn(this, params, ret) == wrap_callable(raw_func(this, params, ret))
    IN CASE a.f = "Number" -> Number
         [] a.f = "String" -> String
         [] a.f = "Null" -> Null
         [] a.f = "undefined" -> Undefined
         [] a.f = "A" -> IF A = None THEN Error ELSE Var(Flex(A[1]))
         [] a.f = "Id" -> Named(7, <<>>)
         [] a.f = "1" -> Literal(<<1, 1>>)
         [] a.f = "union" -> UnionOf(<<k(1), k(2)>>)
         [] a.f \in {"forall", "function"} -> fn(None, <<required(k(1))>>, k(2))
         [] a.f = "where" -> fn(None, <<required(Var(Flex(at)))>>, k(2))
         [] a.f = "optional" -> fn(None, <<required(k(1)), optional(at, k(2))>>, Number)
         [] a.f = "method" -> fn(Some(k(1)), <<>>, k(2))
         [] a.f = "new" -> fn(Some(NewTarget), <<required(k(1))>>, k(2))
         [] a.f = "array" -> Array(k(1))
         [] a.f = "maybe" -> UnionOf(<<k(1), Undefined>>)
         [] a.f = "group" -> k(1)
         [] a.f = "record" -> Fields(pre(k(1)), FieldEntry(PVar(at), k(2), Pre, Pre))
         [] a.f = "flags" -> Fields(FieldEntry(Pre, k(1), Abs, Pre), FieldEntry(Pre, k(2), Pre, Abs))
         [] a.f = "callable" ->
               Row("call" :> pre(raw_func(None, <<required(k(1))>>, k(2))) @@ "x" :> pre(Number), Closed)
         [] a.f = "index" -> Map(k(1))
         [] a.f = "promise" -> Promise(k(1))
         [] a.f = "tuple" -> Tuple(<<k(1), k(2)>>)
         [] a.f = "opt" -> Maybe("Null", k(1))
         [] a.f = "pair" -> Fields(pre(k(1)), pre(String))
         [] OTHER -> Error
RECURSIVE Constraints(_, _)
Constraints(a, at) ==
    (IF a.f # "where" THEN <<>>
     ELSE LET v == Var(Flex(at)) IN
          <<TypePred("Plus", <<v>>),
            TypePred("HasProp", <<v, StringLit("x"), Denote(a.kids[1], 10 * at + 1, Some(at))>>)>>)
    \o FlattenSeq([i \in DOMAIN a.kids |-> Constraints(a.kids[i], 10 * at + i)])

(***************************************************************************)
(* Whether it means anything: quantifiers stand at the top or in the       *)
(* fields, elements and arguments of what stands there, A is quantified,   *)
(* no name is unknown or applied to too few, and no required parameter     *)
(* follows an optional one.                                                *)
(***************************************************************************)
Opaque == {"function", "optional", "misplaced", "method", "new", "forall", "where", "group", "callable"}
RECURSIVE WellFormed(_, _, _)
WellFormed(a, top, A) ==
    /\ a.f \notin {"Lost", "short", "misplaced"}
    /\ a.f = "A" => A
    /\ Forms[a.f].class = "forall" => top
    /\ \A i \in DOMAIN a.kids :
          WellFormed(a.kids[i], top /\ a.f \notin Opaque, A \/ Forms[a.f].class = "forall")

RECURSIVE FormsIn(_)
FormsIn(a) == <<a.f>> \o FlattenSeq([i \in DOMAIN a.kids |-> FormsIn(a.kids[i])])
InOrder == FormsIn(note)
Quantifies(i) == Forms[InOrder[i]].class = "forall"
GroupFirst == \E i, j \in DOMAIN InOrder : i < j /\ InOrder[i] = "group" /\ Quantifies(j)

(***************************************************************************)
(* The parser never takes a quantified name back (type_vars), so that in   *)
(* [<A>(Number) => String, A] the second A is taken for the first's: an    *)
(* annotation has nothing wrong but such uses of A, each of them after a   *)
(* quantifier.                                                             *)
(***************************************************************************)
NameOutlives ==
    /\ WellFormed(note, TRUE, TRUE)
    /\ \A j \in DOMAIN InOrder : InOrder[j] = "A" => \E i \in 1..j : Quantifies(i)

Read(toks) == parse(TypeParser(toks, 0, 0, Aliases, [v \in {} |-> Error]))

(***************************************************************************)
(* Two schemes that differ in the names of their variables, in the order   *)
(* of their constraints and in the order of a union's members.             *)
(***************************************************************************)
RECURSIVE PVarsIn(_)
PVarsIn(t) ==
    LET own == CASE t.k = "Func" -> [i \in DOMAIN t.params |-> t.params[i].presence]
                 [] t.k = "Row" -> [i \in DOMAIN Keys(t.props) |-> t.props[Keys(t.props)[i]].presence]
                 [] OTHER -> <<>>
    IN SelectSeq(own, LAMBDA p : p.p = "Var")
       \o FlattenSeq([i \in DOMAIN Children(t) |-> PVarsIn(Children(t)[i])])
RECURSIVE Renamed(_, _, _)
Renamed(t, f, g) ==
    LET u == With(t, [i \in DOMAIN Children(t) |-> Renamed(Children(t)[i], f, g)])
        named(p) == IF p.p = "Var" THEN PVar(Rank(g, p)) ELSE p
    IN CASE t.k = "Var" -> Var(f[t.v])
         [] t.k = "Union" -> [k |-> "Union", ts |-> ToSet(u.ts)]
         [] OTHER -> MapPresences(u, named)
VarsOf(sc) == UNION {free_vars(t) : t \in ToSet(SchemeTypes(sc))}
Canonical(sc, f) ==
    LET g == Dedup(PVarsIn(sc.ty) \o FlattenSeq([i \in DOMAIN SchemeTypes(sc) |->
                                                    PVarsIn(SchemeTypes(sc)[i])]))
        ren(t) == Renamed(t, f, g)
        mapped == MapScheme(sc, ren)
    IN <<mapped.ty, ToSet(mapped.preds)>>
Alike(a, b) ==
    LET va == VarsOf(a)
        vb == VarsOf(b)
    IN /\ Cardinality(va) = Cardinality(vb)
       /\ \E f \in Bijection(va, vb) : Canonical(a, f) = Canonical(b, [v \in vb |-> v])

Meant == QualScheme(<<>>, <<>>, Constraints(note, 1), Denote(note, 1, None))
Got(r) == QualScheme(<<>>, <<>>, r.preds, r.ty)

(***************************************************************************)
(* An annotation is read as what it was written to mean, whatever the      *)
(* parser tried first, and one that means nothing is refused: "typos [...] *)
(* and forgotten quantifiers surface as errors" (type_parser.rs).  Two     *)
(* exceptions, each a difference from that: a quantifier after a group is  *)
(* refused (QuantifiersAfterGroups), and a name is still known behind its  *)
(* quantifier's scope (NameOutlives).                                      *)
(***************************************************************************)
ReadAsWritten ==
    [][asked' => (
        LET r     == Read(Text(note))
            sound == WellFormed(note, TRUE, FALSE)
        IN /\ sound /\ ~GroupFirst => ~Failed(r) /\ Alike(Got(r), Meant)
           /\ ~sound /\ ~NameOutlives => Failed(r))]_vars

(***************************************************************************)
(* "At top level: { fn: <T>(x: T) => T } is valid Rank-1" (type_parser.rs):*)
(* a quantifier that stands at the top is accepted wherever it stands.     *)
(***************************************************************************)
QuantifiersAfterGroups ==
    WellFormed(note, TRUE, FALSE) => ~Failed(Read(Text(note)))

(***************************************************************************)
(* "the annotation parser reads them back" (declarations.rs): an export's  *)
(* declaration, constraints included, is read by the module that imports   *)
(* it as the scheme it was written from.  The printer has no text a parser *)
(* could read for an optional parameter, a nominal type, a receiver that   *)
(* is hidden or a record, a sum under a quantifier or a sum in a sum:      *)
(* Printable leaves those out.                                             *)
(***************************************************************************)
RECURSIVE Printable(_)
Printable(t) ==
    /\ t.k # "Named"
    /\ t.k = "Func" =>
          /\ t.this \in {None, Some(NewTarget)} \/ (ShowsThis(t.this) /\ t.this[1].k # "Row")
          /\ \A i \in DOMAIN t.params : t.params[i].presence = Pre
    /\ t.k = "Maybe" => ~IsUnion(t.of) /\ t.of.k # t.z
    /\ \A i \in DOMAIN Children(t) : Printable(Children(t)[i])

Export == LET vs == SetToSeq(VarsOf(Meant)) IN
          tidy_scheme(TidyEnv, [Meant EXCEPT !.vars = vs]).out
DeclarationsReadBack ==
    [][asked' => (
        LET sc == Export
            r  == Read(emit_one(sc))
        IN WellFormed(note, TRUE, FALSE) /\ (\A i \in DOMAIN SchemeTypes(sc) : Printable(SchemeTypes(sc)[i]))
           /\ (sc.vars # <<>> => ~IsUnion(sc.ty))
           => ~Failed(r) /\ Alike(Got(r), sc))]_vars

=============================================================================
