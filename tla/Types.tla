------------------------------- MODULE Types -------------------------------
(***************************************************************************)
(* The types of inference (types/ty.rs) and what is asked of one: its      *)
(* parts, its free variables, and the normal form of a union.              *)
(*                                                                         *)
(* A type is a record whose k names its variant.  Names of parameters and  *)
(* the places of predicates are no part of a type's identity and are left  *)
(* out.  PropOrder lists the property names in the order of a row's map,   *)
(* the reserved names "call" and "iter" first, as their keys sort.         *)
(***************************************************************************)
EXTENDS Integers, FiniteSets, SequencesExt

CONSTANT PropOrder

None    == <<>>
Some(x) == <<x>>

Flex(n)   == <<"Flex", n>>
Skolem(n) == <<"Skolem", n>>

Pre     == [p |-> "Pre"]
Abs     == [p |-> "Abs"]
PVar(n) == [p |-> "Var", v |-> n]

Number        == [k |-> "Number"]
String        == [k |-> "String"]
Boolean       == [k |-> "Boolean"]
Undefined     == [k |-> "Undefined"]
Null          == [k |-> "Null"]
NewTarget     == [k |-> "NewTarget"]
ArrowThis     == [k |-> "ArrowThis"]
Error         == [k |-> "Error"]
Var(v)        == [k |-> "Var", v |-> v]
Literal(l)    == [k |-> "Literal", lit |-> l]
Array(t)      == [k |-> "Array", of |-> t]
Map(t)        == [k |-> "Map", of |-> t]
Promise(t)    == [k |-> "Promise", of |-> t]
Tuple(ts)     == [k |-> "Tuple", ts |-> ts]
Union(ts)     == [k |-> "Union", ts |-> ts]
Maybe(z, t)   == [k |-> "Maybe", z |-> z, of |-> t]
Named(id, ts) == [k |-> "Named", id |-> id, ts |-> ts]
ElidedId == 99
Module(src, exports) == [k |-> "Module", source |-> src, exports |-> exports]

FuncParam(p, t) == [presence |-> p, ty |-> t]
required(t)     == FuncParam(Pre, t)
optional(v, t)  == FuncParam(PVar(v), t)
raw_func(this, params, ret) ==
    [k |-> "Func", this |-> this, params |-> params, ret |-> ret]

FieldEntry(p, t, writable, own) ==
    [presence |-> p, ty |-> t, writable |-> writable, own |-> own]
pre(t)      == FieldEntry(Pre, t, Pre, Pre)
getter(t)   == FieldEntry(Pre, t, Abs, Pre)
proto(t)    == FieldEntry(Pre, t, Abs, Abs)
Presences(e) == <<e.presence, e.writable, e.own>>

Closed            == [tail |-> "Closed"]
Open(v)           == [tail |-> "Open", v |-> v]
Recursive(id, ts) == [tail |-> "Recursive", id |-> id, ts |-> ts]
Row(props, tail)  == [k |-> "Row", props |-> props, tail |-> tail]

wrap_callable(func) == Row("call" :> pre(func), Closed)
static_func(params, ret) == wrap_callable(raw_func(None, params, ret))

QualScheme(vars, pvars, preds, t) == [vars |-> vars, pvars |-> pvars, preds |-> preds, ty |-> t]
TypePred(class, types) == [class |-> class, types |-> types]

-----------------------------------------------------------------------------
(***************************************************************************)
(* A type's parts in the order every walk of the code visits them, and the *)
(* type with other parts in their place.                                   *)
(***************************************************************************)
Keys(props) == SelectSeq(PropOrder, LAMBDA n : n \in DOMAIN props)

Children(t) ==
    CASE t.k \in {"Array", "Map", "Promise", "Maybe"} -> <<t.of>>
      [] t.k \in {"Tuple", "Union", "Named"} -> t.ts
      [] t.k = "Func" -> t.this \o [i \in DOMAIN t.params |-> t.params[i].ty] \o <<t.ret>>
      [] t.k = "Row" -> LET ks == Keys(t.props) IN
                        [i \in DOMAIN ks |-> t.props[ks[i]].ty]
                        \o (IF t.tail.tail = "Recursive" THEN t.tail.ts ELSE <<>>)
      [] OTHER -> <<>>

With(t, cs) ==
    CASE t.k \in {"Array", "Map", "Promise", "Maybe"} -> [t EXCEPT !.of = cs[1]]
      [] t.k \in {"Tuple", "Union", "Named"} -> [t EXCEPT !.ts = cs]
      [] t.k = "Func" ->
            LET n == Len(t.this) IN
            [t EXCEPT !.this = SubSeq(cs, 1, n),
                      !.params = [i \in DOMAIN t.params |->
                                     [t.params[i] EXCEPT !.ty = cs[n + i]]],
                      !.ret = cs[Len(cs)]]
      [] t.k = "Row" ->
            LET ks == Keys(t.props)
                At(name) == CHOOSE i \in DOMAIN ks : ks[i] = name
            IN [t EXCEPT !.props = [name \in DOMAIN t.props |->
                                       [t.props[name] EXCEPT !.ty = cs[At(name)]]],
                         !.tail = IF t.tail.tail = "Recursive"
                                  THEN [t.tail EXCEPT !.ts = SubSeq(cs, Len(ks) + 1, Len(cs))]
                                  ELSE t.tail]
      [] OTHER -> t

(***************************************************************************)
(* The free type variables, presence variables and named types of a type:  *)
(* a module's exports are schemes, which bind their own.                   *)
(***************************************************************************)
SchemeTypes(s) == <<s.ty>> \o FlattenSeq([i \in DOMAIN s.preds |-> s.preds[i].types])

RECURSIVE free_vars(_)
free_vars(t) ==
    CASE t.k = "Var" -> {t.v}
      [] t.k = "Module" ->
            UNION {LET s == t.exports[n] IN
                   UNION {free_vars(c) : c \in ToSet(SchemeTypes(s))} \ ToSet(s.vars) :
                   n \in DOMAIN t.exports}
      [] OTHER -> UNION {free_vars(c) : c \in ToSet(Children(t))}
                  \cup (IF t.k = "Row" /\ t.tail.tail = "Open" THEN {t.tail.v} ELSE {})

OwnPresences(t) ==
    CASE t.k = "Func" -> {t.params[i].presence : i \in DOMAIN t.params}
      [] t.k = "Row"  -> UNION {ToSet(Presences(t.props[n])) : n \in DOMAIN t.props}
      [] OTHER        -> {}
PVarsOf(ps) == {p.v : p \in {q \in ps : q.p = "Var"}}

RECURSIVE free_pvars(_)
free_pvars(t) ==
    IF t.k = "Module"
    THEN UNION {LET s == t.exports[n] IN
                UNION {free_pvars(c) : c \in ToSet(SchemeTypes(s))} \ ToSet(s.pvars) :
                n \in DOMAIN t.exports}
    ELSE PVarsOf(OwnPresences(t)) \cup UNION {free_pvars(c) : c \in ToSet(Children(t))}

RECURSIVE named_ids(_)
named_ids(t) ==
    UNION {named_ids(c) : c \in ToSet(Children(t))}
    \cup (IF t.k = "Named" THEN {t.id} ELSE {})
    \cup (IF t.k = "Row" /\ t.tail.tail = "Recursive" THEN {t.tail.id} ELSE {})

(***************************************************************************)
(* Literals: a string (one of the property names), a number or a Boolean,  *)
(* as <<kind, rank>>; and the text of one.                                 *)
(***************************************************************************)
Rank(s, x) == CHOOSE i \in DOMAIN s : s[i] = x
Quoted(name) == "\"" \o name \o "\""
StringLit(name) == Literal(<<0, Rank(PropOrder, name)>>)
Numerals == <<"1", "2">>

-----------------------------------------------------------------------------
(***************************************************************************)
(* Unions.  A member's sort key is its variant's number and a string of    *)
(* its content, here a sequence of numbers that compares as the string     *)
(* does.  What holds one type keys by that type's content alone, so the    *)
(* keys of two arrays differ only where their elements' contents do.       *)
(***************************************************************************)
VariantOrder == <<"Number", "String", "Boolean", "Undefined", "Null", "Regex", "Literal",
                  "Flex", "Skolem", "Func", "Row", "Array", "Map", "Promise", "Named",
                  "Union", "Module", "Error", "Tuple", "TypedArray", "Maybe">>

RECURSIVE Content(_)
Content(t) ==
    CASE t.k = "Literal" -> t.lit
      [] t.k = "Var"     -> <<t.v[2]>>
      [] t.k = "Func"    -> <<Len(t.params)>> \o Content(t.ret)
      [] t.k = "Row"     -> LET ks == Keys(t.props) IN
                            [i \in DOMAIN ks |-> Rank(PropOrder, ks[i])]
      [] t.k \in {"Array", "Map", "Promise", "Maybe"} -> Content(t.of)
      [] t.k = "Tuple"   -> FlattenSeq([i \in DOMAIN t.ts |-> Content(t.ts[i]) \o <<0>>])
      [] t.k = "Named"   -> <<t.id>>
      [] t.k = "NewTarget" -> <<2>>
      [] t.k = "ArrowThis" -> <<1>>
      [] OTHER -> <<>>

union_member_sort_key(t) ==
    LET variant == CASE t.k = "Var" -> t.v[1]
                     [] t.k \in {"NewTarget", "ArrowThis"} -> "Regex"
                     [] OTHER -> t.k
    IN <<Rank(VariantOrder, variant)>> \o Content(t)

Before(a, b) ==
    \/ IsStrictPrefix(a, b)
    \/ \E i \in DOMAIN a \cap DOMAIN b :
          a[i] < b[i] /\ \A j \in 1..(i - 1) : a[j] = b[j]

Later(acc, key) == {i \in DOMAIN acc : Before(key, union_member_sort_key(acc[i]))}
PlaceBefore(acc, t, after) ==
    IF after = {} THEN Append(acc, t)
    ELSE InsertAt(acc, CHOOSE i \in after : \A j \in after : i <= j, t)
SortMembers(ts) ==
    FoldLeft(LAMBDA acc, t : PlaceBefore(acc, t, Later(acc, union_member_sort_key(t))), <<>>, ts)

Dedup(ts) == FoldLeft(LAMBDA acc, t : IF t \in ToSet(acc) THEN acc ELSE Append(acc, t), <<>>, ts)

(***************************************************************************)
(* The members of a union in the order its work list yields them: the list *)
(* is popped from its end, a nested union and the two parts of a sum going *)
(* back on it.                                                             *)
(***************************************************************************)
NothingType(z) == IF z = "Null" THEN Null ELSE Undefined

RECURSIVE PopAll(_)
PopAll(ts) ==
    LET one(t) == CASE t.k = "Union" -> PopAll(t.ts)
                    [] t.k = "Maybe" -> PopAll(<<NothingType(t.z), t.of>>)
                    [] OTHER -> <<t>>
    IN FlattenSeq([i \in DOMAIN ts |-> one(Reverse(ts)[i])])

OneOrUnion(seen)    == IF Len(seen) = 1 THEN seen[1] ELSE Union(seen)
NormalMembers(flat) == OneOrUnion(SortMembers(Dedup(flat)))

SumOf(core, empty, null, undefined) ==
    LET with_undefined == CASE empty -> Undefined
                            [] undefined -> Maybe("Undefined", core)
                            [] OTHER -> core
    IN CASE ~null -> IF undefined THEN with_undefined ELSE core
         [] empty /\ ~undefined -> Null
         [] OTHER -> Maybe("Null", with_undefined)
InLastOrder(flat, reversed) == IF reversed THEN Reverse(flat) ELSE flat
UnionFrom(flat, null, undefined) ==
    SumOf(NormalMembers(InLastOrder(flat, null \/ undefined)), flat = <<>>, null, undefined)
UnionOfAll(all) ==
    UnionFrom(SelectSeq(all, LAMBDA t : t.k \notin {"Null", "Undefined"}),
              Contains(all, Null), Contains(all, Undefined))

UnionWithoutSums(ts) == NormalMembers(PopAll(ts))
UnionOf(ts) == UnionOfAll(PopAll(ts))

RECURSIVE arms(_)
arms(t) ==
    CASE t.k = "Union" -> t.ts
      [] t.k = "Maybe" -> <<NothingType(t.z)>> \o arms(t.of)
      [] OTHER -> <<t>>

as_printed_union(t) == Union(SortMembers(arms(t)))

never == Union(<<>>)

=============================================================================
