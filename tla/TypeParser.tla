----------------------------- MODULE TypeParser -----------------------------
(***************************************************************************)
(* The parser of type annotations (infer/type_parser.rs) over tokens: a    *)
(* name, a mark, a quoted string or a numeral each, "[]" and               *)
(* "[Symbol.iterator]" being one token.                                    *)
(*                                                                         *)
(* The parser's state goes through every step, a failed one included: what *)
(* a failed attempt did to the variables, the counters and the permission  *)
(* to quantify is still there when the parser goes back and tries again.   *)
(***************************************************************************)
EXTENDS Types, Functions

TypeParser(toks, start_var, start_pvar, aliases, typeof_table) ==
    [toks |-> toks, pos |-> 1, vars |-> [n \in {} |-> 0],
     next_var |-> start_var, next_pvar |-> start_pvar, allow |-> TRUE,
     preds |-> <<>>, aliases |-> aliases, typeof |-> typeof_table,
     ty |-> Undefined, err |-> "none"]

Marks == {"(", ")", "{", "}", "[", "]", "[]", "<", ">", ",", ";", ":", "?", "|", "&", "=>",
          "'", "...", "mu", "<error>", "[Symbol.iterator]", "end"}
         \cup {Quoted(PropOrder[i]) : i \in DOMAIN PropOrder} \cup ToSet(Numerals)
IsIdent(tok) == tok \notin Marks

Ahead(p, i)    == IF p.pos + i > Len(p.toks) THEN "end" ELSE p.toks[p.pos + i]
Peek(p)        == Ahead(p, 0)
Take(p)        == [p EXCEPT !.pos = @ + 1]
Giving(p, t)   == [p EXCEPT !.ty = t]
Fail(p, e)     == [p EXCEPT !.err = e]
Failed(p)      == p.err # "none"
Then(p, F(_))  == IF Failed(p) THEN p ELSE F(p)
Expect(p, tok) == IF Peek(p) = tok THEN Take(p) ELSE Fail(p, "syntax")
fresh_pvar(p)  == [p EXCEPT !.next_pvar = @ + 1]
Put(f, x, y)   == [z \in DOMAIN f \cup {x} |-> IF z = x THEN y ELSE f[z]]

(***************************************************************************)
(* An alias applied: its body with the arguments for its parameters.       *)
(***************************************************************************)
RECURSIVE substitute_alias_body(_, _)
substitute_alias_body(t, subst) ==
    LET cs == [i \in DOMAIN Children(t) |-> substitute_alias_body(Children(t)[i], subst)]
    IN CASE t.k = "Var" -> IF t.v[1] = "Flex" /\ t.v[2] \in DOMAIN subst THEN subst[t.v[2]] ELSE t
         [] t.k = "Union" -> UnionOf(cs)
         [] OTHER -> With(t, cs)

ApplyAlias(p, name, args) ==
    LET def == p.aliases[name]
        bound == {def.params[i] : i \in DOMAIN def.params \cap DOMAIN args}
    IN CASE Len(args) # Len(def.params) /\ ~def.open_arity -> Fail(p, "arity")
         [] def.id # None -> Giving(p, Named(def.id[1], args))
         [] OTHER -> Giving(p, substitute_alias_body(def.body,
                                   [x \in bound |-> args[Rank(def.params, x)]]))

SetThis(func, this) == [func EXCEPT !.this = Some(this)]
set_callable_this(t, this) ==
    CASE t.k = "Func" -> SetThis(t, this)
      [] t.k = "Row" /\ "call" \in DOMAIN t.props ->
            [t EXCEPT !.props["call"].ty = SetThis(@, this)]
      [] OTHER -> t

-----------------------------------------------------------------------------
RECURSIVE parse_type(_)
RECURSIVE parse_simple_type(_)

(***************************************************************************)
(* A list F , F ... up to close, one F at least; the types come in p.ty as *)
(* a tuple.                                                                *)
(***************************************************************************)
RECURSIVE More(_, _, _)
More(p, members, sep) ==
    IF Peek(p) # sep THEN Giving(p, members)
    ELSE LET m == IF sep = "|" THEN parse_simple_type(Take(p)) ELSE parse_type(Take(p))
         IN IF Failed(m) THEN m ELSE More(m, Append(members, m.ty), sep)

InAngles(p) ==
    LET open == Expect(p, "<")
        one  == Then(open, parse_type)
        all  == IF Failed(one) THEN one ELSE More(one, <<one.ty>>, ",")
    IN IF Failed(all) THEN all ELSE Expect(all, ">")

Applied(p, Build(_)) ==
    LET r == InAngles(p) IN
    CASE Failed(r) -> r
      [] Len(r.ty) # 1 -> Fail(r, "syntax")
      [] OTHER -> Giving(r, Build(r.ty[1]))

AliasArgs(p) ==
    CASE Peek(p) # "<" -> Giving(p, <<>>)
      [] Ahead(p, 1) = ">" -> Giving(Take(Take(p)), <<>>)
      [] OTHER -> InAngles(p)

Unsupported == {"any", "unknown", "Int", "int"}
NamedTypes == [n \in {"Number", "number"} |-> Number] @@ [n \in {"String", "string"} |-> String]
              @@ [n \in {"Boolean", "boolean"} |-> Boolean] @@ [n \in {"Null", "null"} |-> Null]
              @@ [n \in {"Undefined", "undefined", "void"} |-> Undefined]
              @@ [n \in {"never"} |-> never] @@ [n \in {"true"} |-> Literal(<<2, 1>>)]
              @@ [n \in {"false"} |-> Literal(<<2, 0>>)]

ident_to_type(p, ident) ==
    CASE ident \in Unsupported -> Fail(p, "syntax")
      [] ident \in DOMAIN NamedTypes -> Giving(p, NamedTypes[ident])
      [] ident = "Dict" -> Applied(p, Map)
      [] ident = "Promise" -> Applied(p, Promise)
      [] ident \in DOMAIN p.aliases ->
            LET r == AliasArgs(p) IN IF Failed(r) THEN r ELSE ApplyAlias(r, ident, r.ty)
      [] ident \in DOMAIN p.vars -> Giving(p, Var(Flex(p.vars[ident])))
      [] OTHER -> Fail(p, "unknown")

-----------------------------------------------------------------------------
(***************************************************************************)
(* Functions.  Parameters and result may not quantify; the permission is   *)
(* given back at the end of a function that parses.                        *)
(***************************************************************************)
NamedAt(p) == IsIdent(Peek(p)) /\ (Ahead(p, 1) = ":" \/ (Ahead(p, 1) = "?" /\ Ahead(p, 2) = ":"))

parse_param(p) ==
    LET opt == NamedAt(p) /\ Ahead(p, 1) = "?"
        at  == IF ~NamedAt(p) THEN p ELSE IF opt THEN Take(Take(Take(p))) ELSE Take(Take(p))
        r   == parse_type(at)
    IN CASE Failed(r) -> r
         [] opt   -> Giving(fresh_pvar(r), optional(r.next_pvar, r.ty))
         [] OTHER -> Giving(r, required(r.ty))

RECURSIVE parse_params(_, _)
parse_params(p, params) ==
    LET r == parse_param(p) IN
    CASE Failed(r) -> r
      [] Peek(r) = ")" -> Giving(r, Append(params, r.ty))
      [] Peek(r) = "," -> parse_params(Take(r), Append(params, r.ty))
      [] OTHER -> Fail(r, "syntax")

NoQuantifier(p, F(_)) ==
    LET r == F([p EXCEPT !.allow = FALSE]) IN [r EXCEPT !.allow = p.allow]

parse_this(p) ==
    LET r == NoQuantifier(Take(Take(p)), parse_type) IN
    IF Failed(r) THEN r ELSE Giving(IF Peek(r) = "," THEN Take(r) ELSE r, Some(r.ty))

RequiredAfterOptional(params) ==
    \E i, j \in DOMAIN params : i < j /\ params[i].presence # Pre /\ params[j].presence = Pre

Restore(p, allow) == [p EXCEPT !.allow = allow]

parse_func_type(p) ==
    LET open   == Expect(p, "(")
        self   == IF ~Failed(open) /\ Peek(open) = "this" /\ Ahead(open, 1) = ":"
                  THEN parse_this(open) ELSE Giving(open, None)
        nested == [self EXCEPT !.allow = FALSE]
        args   == IF Peek(nested) = ")" THEN Giving(nested, <<>>) ELSE parse_params(nested, <<>>)
        arrow  == IF Failed(args) THEN args ELSE Then(Expect(args, ")"), LAMBDA q : Expect(q, "=>"))
        ret    == Then(arrow, parse_type)
    IN CASE Failed(self) -> self
         [] Failed(ret) -> ret
         [] RequiredAfterOptional(args.ty) -> Fail(Restore(ret, self.allow), "optional")
         [] OTHER -> Giving(Restore(ret, self.allow),
                            wrap_callable(raw_func(self.ty, args.ty, ret.ty)))

parse_grouped_type(p) ==
    Then(Then(Expect(p, "("), parse_type), LAMBDA q : Expect(q, ")"))

(***************************************************************************)
(* A parenthesis is read as a function first.  An error that only a        *)
(* function can have is kept; otherwise the parser goes back to the        *)
(* parenthesis, and only to it, and reads a group.                         *)
(***************************************************************************)
parse_func_or_groupedOn(p) ==
    LET f == parse_func_type(p)
        g == parse_grouped_type([f EXCEPT !.err = "none"])
    IN CASE ~Failed(f) -> f
         [] f.err \in {"rank1", "optional"} \/ NamedAt(Take(p)) -> f
         [] Failed(g) /\ f.err = "unknown" -> Fail(g, "unknown")
         [] OTHER -> g
parse_func_or_grouped(p) ==
    LET f == parse_func_type(p)
        g == parse_grouped_type([f EXCEPT !.pos = p.pos, !.err = "none"])
    IN CASE ~Failed(f) -> f
         [] f.err \in {"rank1", "optional"} \/ NamedAt(Take(p)) -> f
         [] Failed(g) /\ f.err = "unknown" -> Fail(g, "unknown")
         [] OTHER -> g

-----------------------------------------------------------------------------
(***************************************************************************)
(* Records.                                                                *)
(***************************************************************************)
Modifier(p) == Peek(p) \in {"proto", "readonly"}
               /\ (IsIdent(Ahead(p, 1)) \/ Ahead(p, 1) = "[Symbol.iterator]")

Separator(p) == Peek(p) \in {",", ";"}

RECURSIVE parse_field(_, _, _)
parse_field(p, proto_, readonly) ==
    LET named == Peek(p) = "[Symbol.iterator]" \/ IsIdent(Peek(p))
        name  == IF Peek(p) = "[Symbol.iterator]" THEN "iter" ELSE Peek(p)
        opt   == Ahead(p, 1) = "?"
        colon == Expect(IF opt THEN Take(Take(p)) ELSE Take(p), ":")
        r     == Then(colon, parse_type)
        q     == IF opt THEN fresh_pvar(r) ELSE r
        entry == FieldEntry(IF opt THEN PVar(r.next_pvar) ELSE Pre, r.ty,
                            IF readonly THEN Abs ELSE Pre, IF proto_ THEN Abs ELSE Pre)
    IN CASE Modifier(p) -> parse_field(Take(p), proto_ \/ Peek(p) = "proto",
                                       readonly \/ Peek(p) = "readonly")
         [] ~named -> Fail(p, "syntax")
         [] Failed(r) -> r
         [] OTHER -> Giving(q, <<name, entry>>)

parse_call(p) ==
    LET r == parse_simple_type(p)
        alone == r.ty.k = "Row" /\ DOMAIN r.ty.props = {"call"}
    IN IF Failed(r) THEN r
       ELSE Giving(r, <<"call", pre(IF alone THEN r.ty.props["call"].ty ELSE r.ty)>>)

RECURSIVE parse_fields(_, _)
parse_fields(p, props) ==
    LET r    == IF Peek(p) = "(" THEN parse_call(p) ELSE parse_field(p, FALSE, FALSE)
        more == Put(props, r.ty[1], r.ty[2])
    IN CASE Failed(r) -> r
         [] Peek(r) = "}" \/ (Separator(r) /\ Ahead(r, 1) = "}") ->
               Giving(Take(IF Separator(r) THEN Take(r) ELSE r), Row(more, Closed))
         [] Separator(r) -> parse_fields(Take(r), more)
         [] OTHER -> Fail(r, "syntax")

parse_index(p) ==
    LET at    == IF IsIdent(Ahead(p, 1)) /\ Ahead(p, 2) = ":" THEN Take(Take(Take(p))) ELSE Take(p)
        key   == parse_type(at)
        value == IF Failed(key) \/ key.ty # String THEN Fail(key, "syntax")
                 ELSE Then(Then(Expect(key, "]"), LAMBDA q : Expect(q, ":")), parse_type)
        end   == IF ~Failed(value) /\ Separator(value) THEN Take(value) ELSE value
    IN IF Failed(key) THEN key
       ELSE IF Failed(end) THEN end ELSE Giving(Expect(end, "}"), Map(end.ty))

parse_object_type(p) ==
    CASE Peek(Take(p)) = "[" -> parse_index(Take(p))
      [] Peek(Take(p)) = "}" -> Giving(Take(Take(p)), Row([n \in {} |-> pre(Null)], Closed))
      [] OTHER -> parse_fields(Take(p), [n \in {} |-> pre(Null)])

-----------------------------------------------------------------------------
RECURSIVE parse_tuple(_, _)
parse_tuple(p, elems) ==
    LET r == parse_type(p) IN
    CASE Peek(p) = "]" /\ elems # <<>> -> Giving(Take(p), Tuple(elems))
      [] Failed(r) -> r
      [] Peek(r) = "," -> parse_tuple(Take(r), Append(elems, r.ty))
      [] Peek(r) = "]" -> Giving(Take(r), Tuple(Append(elems, r.ty)))
      [] OTHER -> Fail(r, "syntax")

resolve_typeof(p, name) ==
    IF IsIdent(name) /\ name \in DOMAIN p.typeof THEN Giving(Take(p), p.typeof[name])
    ELSE Fail(p, "syntax")

parse_constructor(p) ==
    LET r == parse_func_type(p) IN
    IF Failed(r) THEN r ELSE Giving(r, set_callable_this(r.ty, NewTarget))

parse_primary_type(p) ==
    LET tok == Peek(p) IN
    CASE tok = "{" -> parse_object_type(p)
      [] tok = "[" -> parse_tuple(Take(p), <<>>)
      [] tok = "(" -> parse_func_or_grouped(p)
      [] tok \in {Quoted(PropOrder[i]) : i \in DOMAIN PropOrder} ->
            Giving(Take(p), StringLit(CHOOSE n \in ToSet(PropOrder) : Quoted(n) = tok))
      [] tok \in ToSet(Numerals) -> Giving(Take(p), Literal(<<1, Rank(Numerals, tok)>>))
      [] tok = "typeof" -> resolve_typeof(Take(p), Ahead(p, 1))
      [] tok = "new" -> parse_constructor(Take(p))
      [] IsIdent(tok) -> ident_to_type(Take(p), tok)
      [] OTHER -> Fail(p, "syntax")

RECURSIVE Postfixes(_)
Postfixes(p) ==
    CASE Peek(p) = "[]" -> Postfixes(Giving(Take(p), Array(p.ty)))
      [] Peek(p) = "?"  -> Postfixes(Giving(Take(p), UnionOf(<<p.ty, Undefined>>)))
      [] OTHER -> p
parse_simple_type(p) == Then(parse_primary_type(p), Postfixes)

-----------------------------------------------------------------------------
(***************************************************************************)
(* Quantifiers and constraints.                                            *)
(***************************************************************************)
RECURSIVE parse_quantifiers(_)
parse_quantifiers(p) ==
    LET q == [Take(p) EXCEPT !.vars = Put(@, Peek(p), p.next_var), !.next_var = @ + 1] IN
    CASE ~IsIdent(Peek(p)) -> Fail(p, "syntax")
      [] Peek(q) = ">" -> Take(q)
      [] Peek(q) = "," -> parse_quantifiers(Take(q))
      [] OTHER -> Fail(q, "syntax")

Arity == [c \in {"Plus", "IndexWrite", "Testable"} |-> 1]
         @@ [c \in {"FieldWrite", "Iterable"} |-> 2] @@ [c \in {"Indexable"} |-> 3]

RECURSIVE Operands(_, _, _)
Operands(p, n, types) ==
    IF n = 0 THEN Giving(p, types)
    ELSE LET r == parse_simple_type(p)
         IN IF Failed(r) THEN r ELSE Operands(r, n - 1, Append(types, r.ty))

parse_class(p) ==
    LET r == Operands(Take(p), Arity[Peek(p)], <<>>) IN
    CASE Failed(r) -> r
      [] Peek(p) = "FieldWrite" /\ ~(r.ty[2].k = "Literal" /\ r.ty[2].lit[1] = 0) -> Fail(r, "syntax")
      [] OTHER -> [r EXCEPT !.preds = Append(@, TypePred(Peek(p), r.ty))]

RECURSIVE parse_has(_, _)
parse_has(p, receiver) ==
    LET colon == Expect(Take(p), ":")
        r     == IF Failed(colon) THEN colon ELSE NoQuantifier(colon, parse_type)
        q     == [r EXCEPT !.preds = Append(@, TypePred("HasProp", <<receiver, StringLit(Peek(p)), r.ty>>))]
    IN CASE Peek(p) = "}" -> Take(p)
         [] ~IsIdent(Peek(p)) -> Fail(p, "syntax")
         [] Failed(r) -> r
         [] OTHER -> parse_has(IF Peek(q) = "," THEN Take(q) ELSE q, receiver)

parse_constraint(p) ==
    IF Peek(p) \in DOMAIN Arity THEN parse_class(p)
    ELSE LET r == parse_simple_type(p)
         IN CASE Failed(r) -> r
              [] Peek(r) = "has" -> Then(Expect(Take(r), "{"), LAMBDA q : parse_has(q, r.ty))
              [] OTHER -> Fail(r, "syntax")

RECURSIVE parse_where(_)
parse_where(p) ==
    LET r == parse_constraint(p) IN
    CASE Failed(r) -> r
      [] Peek(r) = "," -> parse_where(Take(r))
      [] OTHER -> Expect(r, "=>")

parse_generic_type(p) ==
    LET q == parse_quantifiers(Take(p))
        w == IF ~Failed(q) /\ Peek(q) = "where" THEN parse_where(Take(q)) ELSE q
    IN Then(w, parse_simple_type)

parse_type(p) ==
    LET first == parse_simple_type(p)
        all   == More(first, <<first.ty>>, "|")
    IN CASE Peek(p) = "<" -> IF p.allow THEN parse_generic_type(p) ELSE Fail(p, "rank1")
         [] Failed(first) -> first
         [] Peek(first) = "&" -> Fail(first, "syntax")
         [] Peek(first) # "|" -> first
         [] OTHER -> IF Failed(all) THEN all ELSE Giving(all, UnionOf(all.ty))

parse(p) ==
    LET r == parse_type(p) IN
    IF ~Failed(r) /\ Peek(r) # "end" THEN Fail(r, "syntax") ELSE r

=============================================================================
