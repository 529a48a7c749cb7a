----------------------------- MODULE TypePretty -----------------------------
(***************************************************************************)
(* The type printer (types/pretty.rs), as the sequence of tokens it writes.*)
(*                                                                         *)
(* A context holds the names of nominal types (names), the limit past      *)
(* which a record is trimmed to the fields in focus, the aliases printed   *)
(* by name, and whether a named type's record arguments are hidden.        *)
(***************************************************************************)
EXTENDS Types

PrettyContext(names) ==
    [names |-> names, limit |-> None, focus |-> {}, aliases |-> <<>>, hide |-> FALSE]
hiding_row_args(ctx)          == [ctx EXCEPT !.hide = TRUE]
trimming_rows(ctx, n, focus)  == [ctx EXCEPT !.limit = Some(n), !.focus = focus]
naming_aliases(ctx, aliases)  == [ctx EXCEPT !.aliases = aliases]

Letters == <<"a", "b", "c", "d", "e", "f", "g", "h", "i", "j", "k", "l">>
get_var_name(n) == Letters[n + 1]
write_var(v) ==
    IF v[1] = "Skolem" THEN <<"'", get_var_name(v[2])>> ELSE <<get_var_name(v[2])>>

write_literal(l) ==
    CASE l[1] = 0 -> <<Quoted(PropOrder[l[2]])>>
      [] l[1] = 1 -> <<Numerals[l[2]]>>
      [] OTHER    -> <<IF l[2] = 1 THEN "true" ELSE "false">>

Separated(parts, sep) ==
    FlattenSeq([i \in DOMAIN parts |-> IF i = 1 THEN parts[i] ELSE <<sep>> \o parts[i]])
InParensNever(needed, ts) == ts
InParens(needed, ts) == IF needed THEN <<"(">> \o ts \o <<")">> ELSE ts
ArgList(parts) == IF parts = <<>> THEN <<>> ELSE <<"<">> \o Separated(parts, ",") \o <<">">>

(***************************************************************************)
(* A callable row with nothing else in it prints as a function.            *)
(***************************************************************************)
prints_as_function(t) ==
    \/ t.k = "Func"
    \/ t.k = "Row" /\ DOMAIN t.props = {"call"} /\ t.tail = Closed

(***************************************************************************)
(* match_alias: the parameters' types under which pattern is t, a function *)
(* from parameters, or Mismatch.  The flags of a field are not compared.   *)
(***************************************************************************)
Mismatch == [p \in {-1} |-> Error]
SameShape(a, b) ==
    /\ a.k = b.k
    /\ Len(Children(a)) = Len(Children(b))
    /\ CASE a.k = "Row" ->
              /\ a.tail = b.tail /\ DOMAIN a.props = DOMAIN b.props
              /\ \A n \in DOMAIN a.props : a.props[n].presence = b.props[n].presence
         [] a.k = "Func" ->
              /\ Len(a.this) = Len(b.this)
              /\ \A i \in DOMAIN a.params : a.params[i].presence = b.params[i].presence
         [] a.k = "Maybe" -> a.z = b.z
         [] OTHER -> a.k \in {"Union", "Array", "Promise"}

RECURSIVE match_alias(_, _, _, _)
match_alias(pattern, t, params, bound) ==
    CASE bound = Mismatch -> Mismatch
      [] pattern.k = "Var" /\ pattern.v[1] = "Flex" /\ Contains(params, pattern.v[2]) ->
            LET p == pattern.v[2] IN
            IF p \in DOMAIN bound
            THEN IF bound[p] = t THEN bound ELSE Mismatch
            ELSE [q \in DOMAIN bound \cup {p} |-> IF q = p THEN t ELSE bound[q]]
      [] ~SameShape(pattern, t) -> IF pattern = t THEN bound ELSE Mismatch
      [] OTHER ->
            LET fixed == IF pattern.k = "Row" /\ pattern.tail.tail = "Recursive"
                         THEN Len(Keys(pattern.props)) ELSE Len(Children(t))
                both  == [i \in 1..fixed |-> <<Children(pattern)[i], Children(t)[i]>>]
            IN FoldLeft(LAMBDA b, xy : match_alias(xy[1], xy[2], params, b), bound, both)

(***************************************************************************)
(* The first alias a record, union or sum is an instance of, if any, with  *)
(* its arguments; a parameter the body does not mention stays itself.      *)
(***************************************************************************)
AliasFor(ctx, t) ==
    LET found(d)  == match_alias(d.body, t, d.params, [p \in {} |-> Error])
        good      == SelectSeq(ctx.aliases, LAMBDA d : found(d) # Mismatch)
    IN IF t.k \notin {"Row", "Union", "Maybe"} \/ good = <<>> THEN None
       ELSE LET d == good[1] IN
            Some([name |-> d.name,
                  args |-> [i \in DOMAIN d.params |->
                               IF d.params[i] \in DOMAIN found(d) THEN found(d)[d.params[i]]
                               ELSE Var(Flex(d.params[i]))]])

-----------------------------------------------------------------------------
ShowsThis(this) == this # None /\ this[1].k \notin {"Undefined", "Var", "ArrowThis", "NewTarget"}

RECURSIVE write_type(_, _, _)
WriteAll(ctx, ts) == [i \in DOMAIN ts |-> write_type(ctx, ts[i], FALSE)]

write_params(ctx, this, params) ==
    LET receiver == IF this = None THEN <<>>
                    ELSE <<(<<"this", ":">> \o (IF this[1].k = "Row" THEN <<"{", "...", "}">>
                                                ELSE write_type(ctx, this[1], FALSE)))>>
        one(p) == write_type(ctx, p.ty, FALSE) \o (IF p.presence = Pre THEN <<>> ELSE <<"?">>)
    IN <<"(">> \o Separated(receiver \o [i \in DOMAIN params |-> one(params[i])], ",") \o <<")">>

write_func(ctx, t) ==
    (IF t.this = Some(NewTarget) THEN <<"new">> ELSE <<>>)
    \o write_params(ctx, IF ShowsThis(t.this) THEN t.this ELSE None, t.params)
    \o <<"=>">> \o write_type(ctx, t.ret, FALSE)

write_field(ctx, name, e) ==
    (IF e.own = Abs THEN <<"proto">> ELSE <<>>)
    \o (IF e.writable = Abs THEN <<"readonly">> ELSE <<>>)
    \o (IF name = "iter" THEN <<"[Symbol.iterator]">>
        ELSE <<name>> \o (IF e.presence.p = "Var" THEN <<"?">> ELSE <<>>))
    \o <<":">> \o write_type(ctx, e.ty, FALSE)

(***************************************************************************)
(* A record shows its call first, then its fields that may be present; one *)
(* with more than the limit shows those in focus, or its first few.        *)
(***************************************************************************)
Shown(t) == SelectSeq(Keys(t.props), LAMBDA n : n # "call" /\ t.props[n].presence # Abs)
KeptFields(ctx, t) ==
    LET shown == Shown(t) IN
    IF ctx.limit = None \/ Len(shown) <= ctx.limit[1] THEN shown
    ELSE IF ctx.focus # {} THEN SelectSeq(shown, LAMBDA n : n \in ctx.focus)
    ELSE SubSeq(shown, 1, IF ctx.limit[1] < 6 THEN ctx.limit[1] ELSE 6)

write_tail(ctx, t) ==
    LET bar == IF DOMAIN t.props = {} THEN <<>> ELSE <<"|">>
    IN CASE t.tail.tail = "Closed" -> <<>>
         [] t.tail.tail = "Open"   -> bar \o write_var(t.tail.v)
         [] OTHER -> bar \o <<"mu">> \o ArgList(WriteAll(ctx, t.tail.ts))

write_row(ctx, t) ==
    IF prints_as_function(t) THEN write_type(ctx, t.props["call"].ty, FALSE)
    ELSE LET call   == IF "call" \in DOMAIN t.props
                       THEN <<write_type(ctx, t.props["call"].ty, FALSE)>> ELSE <<>>
             kept   == KeptFields(ctx, t)
             fields == [i \in DOMAIN kept |-> write_field(ctx, kept[i], t.props[kept[i]])]
             hidden == IF Len(kept) < Len(Shown(t)) THEN <<(<<"...", "more">>)>> ELSE <<>>
         IN <<"{">> \o Separated(call \o fields \o hidden, ",") \o write_tail(ctx, t) \o <<"}">>

IsUnion(t) == t.k \in {"Union", "Maybe"}
write_type(ctx, t, in_func_arg) ==
    LET alias == AliasFor(ctx, t)
        member(m) == InParens(prints_as_function(m), write_type(ctx, m, FALSE))
        printed == IF t.k = "Maybe" THEN as_printed_union(t) ELSE t
    IN CASE alias # None -> <<alias[1].name>> \o ArgList(WriteAll(ctx, alias[1].args))
         [] t.k = "Var"  -> write_var(t.v)
         [] t.k = "Func" -> InParens(in_func_arg, write_func(ctx, t))
         [] t.k = "Row"  -> write_row(ctx, t)
         [] t.k = "Array" ->
               InParens(prints_as_function(t.of) \/ IsUnion(t.of), write_type(ctx, t.of, FALSE))
               \o <<"[]">>
         [] t.k = "Tuple" -> IF t.ts = <<>> THEN <<"[]">>
                             ELSE <<"[">> \o Separated(WriteAll(ctx, t.ts), ",") \o <<"]">>
         [] t.k = "Promise" -> <<"Promise", "<">> \o write_type(ctx, t.of, FALSE) \o <<">">>
         [] t.k = "Map" -> <<"Dict", "<">> \o write_type(ctx, t.of, FALSE) \o <<">">>
         [] t.k = "Named" ->
               IF t.id = ElidedId THEN <<"...">>
               ELSE <<IF t.id \in DOMAIN ctx.names THEN ctx.names[t.id] ELSE "mu">>
                    \o ArgList(WriteAll(ctx, SelectSeq(t.ts, LAMBDA a : ~(ctx.hide /\ a.k = "Row"))))
         [] t.k = "Literal" -> write_literal(t.lit)
         [] t.k = "Module" -> <<"module", Quoted(t.source)>>
         [] t = never -> <<"never">>
         [] IsUnion(t) ->
               InParens(in_func_arg,
                        Separated([i \in DOMAIN printed.ts |-> member(printed.ts[i])], "|"))
         [] t.k = "Error" -> <<"<error>">>
         [] OTHER -> <<t.k>>
format_type(ctx, t) == write_type(ctx, t, FALSE)

-----------------------------------------------------------------------------
(***************************************************************************)
(* Schemes.  The header lists the quantified variables the body or the     *)
(* constraints mention, other than those a function's receiver hides.  The *)
(* properties read from one receiver are written together.                 *)
(***************************************************************************)
RECURSIVE collect_hidden_this_vars(_)
collect_hidden_this_vars(t) ==
    LET own    == IF t.k = "Func" /\ t.this # None /\ t.this[1].k = "Var" THEN {t.this[1].v} ELSE {}
        inside == IF t.k = "Row" THEN {t.props[n].ty : n \in DOMAIN t.props}
                  ELSE IF t.k \in {"Union", "Named"} THEN {} ELSE ToSet(Children(t))
    IN own \cup UNION {collect_hidden_this_vars(c) : c \in inside}

as_has_prop(p) ==
    IF p.class = "HasProp" /\ Len(p.types) >= 3 /\ p.types[2].k = "Literal" /\ p.types[2].lit[1] = 0
    THEN Some([recv |-> p.types[1], name |-> PropOrder[p.types[2].lit[2]], result |-> p.types[3]])
    ELSE None

displayed_vars_of_scheme(sc) ==
    LET types  == ToSet(SchemeTypes(sc))
        hidden == UNION {collect_hidden_this_vars(t) : t \in types}
        recvs  == {as_has_prop(p)[1].recv : p \in {q \in ToSet(sc.preds) : as_has_prop(q) # None}}
    IN UNION {free_vars(t) : t \in types}
       \ (hidden \ {t.v : t \in {u \in recvs : u.k = "Var"}})

write_has_props(ctx, recv, fields) ==
    write_type(ctx, recv, TRUE) \o <<"has", "{">>
    \o Separated([i \in DOMAIN fields |->
                     <<fields[i].name, ":">> \o write_type(ctx, fields[i].result, FALSE)], ",")
    \o <<"}">>

write_pred(ctx, p) ==
    <<p.class>> \o FlattenSeq([i \in DOMAIN p.types |-> write_type(ctx, p.types[i], TRUE)])

write_where(ctx, preds) ==
    LET plain   == SelectSeq(preds, LAMBDA p : as_has_prop(p) = None)
        reads   == [i \in DOMAIN SelectSeq(preds, LAMBDA p : as_has_prop(p) # None) |->
                       as_has_prop(SelectSeq(preds, LAMBDA p : as_has_prop(p) # None)[i])[1]]
        recvs   == Dedup([i \in DOMAIN reads |-> reads[i].recv])
        of(r)   == Dedup(SelectSeq(reads, LAMBDA x : x.recv = r))
    IN IF preds = <<>> THEN <<>>
       ELSE <<"where">>
            \o Separated([i \in DOMAIN plain |-> write_pred(ctx, plain[i])]
                         \o [i \in DOMAIN recvs |-> write_has_props(ctx, recvs[i], of(recvs[i]))],
                         ",")
            \o <<"=>">>

format_scheme(ctx, sc) ==
    LET visible == SelectSeq(sc.vars, LAMBDA v : v \in displayed_vars_of_scheme(sc))
    IN ArgList([i \in DOMAIN visible |-> write_var(visible[i])])
       \o write_where(ctx, sc.preds) \o write_type(ctx, sc.ty, FALSE)

-----------------------------------------------------------------------------
(***************************************************************************)
(* The TypeScript flavour.  A record writes the key of every field, the    *)
(* reserved ones as they are, and an open tail as an index signature.      *)
(***************************************************************************)
TsName(k) == CASE k = "Number" -> "number" [] k = "String" -> "string" [] k = "Boolean" -> "boolean"
               [] k = "Null" -> "null" [] k = "Error" -> "<error>" [] OTHER -> "undefined"
ParamNames == <<"_a0", "_a1", "_a2">>

RECURSIVE write_type_ts(_, _)
TsAll(ctx, ts) == [i \in DOMAIN ts |-> write_type_ts(ctx, ts[i])]
write_func_ts(ctx, t) ==
    LET one(i) == <<ParamNames[i]>> \o (IF t.params[i].presence = Pre THEN <<>> ELSE <<"?">>)
                  \o <<":">> \o write_type_ts(ctx, t.params[i].ty)
    IN (IF t.this = Some(NewTarget) THEN <<"new">> ELSE <<>>)
       \o <<"(">> \o Separated([i \in DOMAIN t.params |-> one(i)], ",") \o <<")", "=>">>
       \o write_type_ts(ctx, t.ret)
write_row_ts(ctx, t) ==
    LET ks   == Keys(t.props)
        tail == IF t.tail.tail = "Open"
                THEN <<(<<"[", "k", ":", "string", "]", ":">> \o write_var(t.tail.v))>> ELSE <<>>
        one(n) == <<n, ":">> \o write_type_ts(ctx, t.props[n].ty)
    IN <<"{">> \o Separated([i \in DOMAIN ks |-> one(ks[i])] \o tail, ";") \o <<"}">>
write_type_ts(ctx, t) ==
    CASE t.k = "Var"  -> write_var(t.v)
      [] t.k = "Func" -> write_func_ts(ctx, t)
      [] t.k = "Row"  -> write_row_ts(ctx, t)
      [] t.k = "Array" ->
            InParens(prints_as_function(t.of) \/ IsUnion(t.of), write_type_ts(ctx, t.of)) \o <<"[]">>
      [] t.k = "Tuple" -> <<"[">> \o Separated(TsAll(ctx, t.ts), ",") \o <<"]">>
      [] t.k = "Map" -> <<"Record", "<", "string", ",">> \o write_type_ts(ctx, t.of) \o <<">">>
      [] t.k = "Promise" -> <<"Promise", "<">> \o write_type_ts(ctx, t.of) \o <<">">>
      [] t.k = "Literal" -> write_literal(t.lit)
      [] t = never -> <<"never">>
      [] t.k = "Maybe" -> write_type_ts(ctx, as_printed_union(t))
      [] t.k = "Union" -> Separated(TsAll(ctx, t.ts), "|")
      [] t.k \in {"Named", "Module"} -> write_type(ctx, t, FALSE)
      [] OTHER -> <<TsName(t.k)>>
format_type_ts(ctx, t) == write_type_ts(ctx, t)

=============================================================================
