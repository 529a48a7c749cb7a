------------------------------ MODULE Classes ------------------------------
(***************************************************************************)
(* Lowering of a class (frontends/javascript/parser/mod.rs, the end of     *)
(* parse_class_declaration_named, and parser/class_fields.rs).  A class    *)
(* becomes a factory: each field's settings run in turn, each kept in a    *)
(* local, and the instance is built from the last of each.                 *)
(*                                                                         *)
(* The members come in the order of the text: [m |-> "field", n, init,    *)
(* ann], "getter", "method" and "ctor".  A lowering is [ok, v, temp].      *)
(***************************************************************************)
EXTENDS Patterns

LOCAL Free == INSTANCE FreeIdents

Rejected == [k |-> "rejected"]
Key(n)   == <<"ident", n>>

ProtoMethod(n, ps, body) == [k |-> "method", key |-> Key(n), s |-> 0, ps |-> ps, body |-> body]
ProtoGetter(n, body)     == [k |-> "getter", key |-> Key(n), s |-> 0, body |-> body]
FieldProp(n, v, ann)     == [k |-> "prop", key |-> Key(n), v |-> v, ann |-> ann]

(***************************************************************************)
(* this in an initialiser: a read of a field already set becomes a read of *)
(* its local, and every other use is rejected.  fields maps each field set *)
(* so far to its local, or to "" for an arrow function.                    *)
(***************************************************************************)
is_this_place(e) == e.k \in {"member", "computed"} /\ e.o = This
Arrow == ""

RECURSIVE rewrite(_, _)
Rewritten(es, fields) == [i \in DOMAIN es |-> IF es[i] = None THEN None ELSE rewrite(es[i], fields)]
RewrittenProps(ps, fields) ==
    [i \in DOMAIN ps |->
        CASE ps[i].k = "prop" -> [ps[i] EXCEPT !.v = rewrite(@, fields)]
          [] ps[i].k = "spreadprop" -> [ps[i] EXCEPT !.e = rewrite(@, fields)]
          [] OTHER -> ps[i]]
RewrittenParts(e, fields) ==
    CASE e.k \in {"array", "seq", "template"} -> [e EXCEPT !.es = Rewritten(@, fields)]
      [] e.k = "object" -> [e EXCEPT !.ps = RewrittenProps(@, fields)]
      [] e.k = "member" -> [e EXCEPT !.o = rewrite(@, fields)]
      [] e.k = "computed" -> [e EXCEPT !.o = rewrite(@, fields), !.i = rewrite(@, fields)]
      [] e.k \in {"call", "new"} ->
            [e EXCEPT !.f = rewrite(@, fields), !.as = Rewritten(@, fields)]
      [] e.k \in {"unary", "spread", "restarray", "restrow"} -> [e EXCEPT !.e = rewrite(@, fields)]
      [] e.k \in {"binary", "nullish", "assign"} ->
            [e EXCEPT !.l = rewrite(@, fields), !.r = rewrite(@, fields)]
      [] e.k = "cond" ->
            [e EXCEPT !.t = rewrite(@, fields), !.c = rewrite(@, fields), !.a = rewrite(@, fields)]
      [] e.k = "chain" ->
            [e EXCEPT !.head = rewrite(@, fields),
                      !.segs = [i \in DOMAIN @ |-> [@[i] EXCEPT !.as = Rewritten(@, fields)]]]
      [] OTHER -> e
PartsOf(e) ==
    CASE e.k = "object" -> [i \in DOMAIN e.ps |->
                               IF e.ps[i].k = "prop" THEN e.ps[i].v
                               ELSE IF e.ps[i].k = "spreadprop" THEN e.ps[i].e ELSE None]
      [] e.k = "chain" -> <<e.head>> \o FlattenSeq([i \in DOMAIN e.segs |-> e.segs[i].as])
      [] OTHER -> Children(e)
Refused(e) ==
    \/ e.k = "fn" /\ Free!MentionsThis(e)
    \/ e.k = "call" /\ is_this_place(e.f)
    \/ e.k = "unary" /\ (IsUpdate(e.op) \/ e.op = "delete") /\ is_this_place(e.e)
    \/ e.k = "assign" /\ is_this_place(e.l)
    \/ e.k = "chain" /\ is_this_place(e.head) /\ e.segs[1].k = "call"
rewrite(e, fields) ==
    IF e.k = "member" /\ e.o = This
    THEN IF e.p \in DOMAIN fields /\ fields[e.p] # Arrow THEN Name(fields[e.p]) ELSE Rejected
    ELSE IF e = This \/ Refused(e) THEN Rejected
    ELSE LET r == RewrittenParts(e, fields)
         IN  IF \E i \in DOMAIN PartsOf(r) : PartsOf(r)[i] = Rejected THEN Rejected ELSE r

(***************************************************************************)
(* The settings of the fields, in the order of the text, and what the      *)
(* checks on the whole class look at.                                      *)
(***************************************************************************)
extract_this_assignment(s) ==
    IF s.k = "expr" /\ s.e.k = "assign" /\ s.e.op = "=" /\ s.e.l.k = "member" /\ s.e.l.o = This
    THEN <<[n |-> s.e.l.p, v |-> s.e.r]>>
    ELSE <<>>
SetsOf(m) ==
    CASE m.m = "field" -> <<[n |-> m.n, v |-> IF m.init = None THEN Undefined ELSE m.init]>>
      [] m.m = "ctor" -> FlattenSeq([i \in DOMAIN m.body.body |->
                                        extract_this_assignment(m.body.body[i])])
      [] OTHER -> <<>>
FieldSets(ms) == FlattenSeq([i \in DOMAIN ms |-> SetsOf(ms[i])])

Of(ms, kinds)   == SelectSeq(ms, LAMBDA m : m.m \in kinds)
NamesOf(ms)     == [i \in DOMAIN ms |-> ms[i].n]
CtorParams(ms)  == LET cs == Of(ms, {"ctor"}) IN IF cs = <<>> THEN <<>> ELSE Last(cs).ps
MethodProps(ms) ==
    LET fs == Of(ms, {"getter", "method"})
    IN  [i \in DOMAIN fs |-> IF fs[i].m = "getter" THEN ProtoGetter(fs[i].n, fs[i].body)
                             ELSE ProtoMethod(fs[i].n, fs[i].ps, fs[i].body)]
AnnotationOf(ms, n) ==
    LET fs == SelectSeq(Of(ms, {"field"}), LAMBDA m : m.n = n)
    IN  IF fs = <<>> THEN NoAnn ELSE fs[1].ann
OuterNames(ms) ==
    Free!FreeInExpr(ObjectLit(MethodProps(ms)))
    \cup UNION {IF ms[i].m = "field" /\ ms[i].init # None THEN Free!FreeInExpr(ms[i].init) ELSE {} :
                   i \in DOMAIN ms}

ClassOk(ms) ==
    /\ IsInjective(NamesOf(Of(ms, {"field", "getter"})))
    /\ \A i \in DOMAIN ms : ms[i].m = "ctor" =>
          \A j \in DOMAIN ms[i].body.body : extract_this_assignment(ms[i].body.body[j]) # <<>>
    /\ \A i \in DOMAIN CtorParams(ms) : CtorParams(ms)[i].n \notin OuterNames(ms)
    /\ ToSet(NamesOf(FieldSets(ms))) \cap ToSet(NamesOf(Of(ms, {"getter", "method"}))) = {}

(***************************************************************************)
(* The settings one after the other: c is [sets, fields, last, order,      *)
(* body, temp, ok].                                                        *)
(***************************************************************************)
SetArrow(c, f, v, ms) ==
    [c EXCEPT !.fields = (f :> Arrow) @@ @,
              !.last = (f :> ProtoMethod(f, v.ps, v.body)) @@ @,
              !.ok = AnnotationOf(ms, f) = NoAnn]
SetValue(c, f, v, ms) ==
    LET local == "$field$" \o ToString(c.temp)
        r     == rewrite(v, c.fields)
    IN  [c EXCEPT !.fields = (f :> local) @@ @,
                  !.last = (f :> FieldProp(f, Name(local), AnnotationOf(ms, f))) @@ @,
                  !.body = Append(@, VarStmt("const", <<Decl(local, r, NoAnn)>>)),
                  !.temp = @ + 1,
                  !.ok = r # Rejected]
SetField(c, ms) ==
    LET f == Head(c.sets).n
        v == Head(c.sets).v
        d == IF v.k = "fn" /\ v.arrow /\ Free!MentionsThis(v) THEN SetArrow(c, f, v, ms)
             ELSE SetValue(c, f, v, ms)
    IN  [d EXCEPT !.sets = Tail(@), !.order = IF Contains(@, f) THEN @ ELSE Append(@, f)]
RECURSIVE SetFields(_, _)
SetFields(c, ms) == IF c.sets = <<>> \/ ~c.ok THEN c ELSE SetFields(SetField(c, ms), ms)

LowerClass(name, ms, temp) ==
    LET c == SetFields([sets |-> FieldSets(ms), fields |-> << >>, last |-> << >>, order |-> <<>>,
                        body |-> <<>>, temp |-> temp, ok |-> ClassOk(ms)], ms)
        props == [i \in DOMAIN c.order |-> c.last[c.order[i]]] \o MethodProps(ms)
    IN  [ok |-> c.ok, temp |-> c.temp,
         v  |-> FnDecl(name, CtorParams(ms), Block(Append(c.body, Return(ObjectLit(props)))),
                       NoAnn)]
=============================================================================
