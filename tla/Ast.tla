-------------------------------- MODULE Ast --------------------------------
(***************************************************************************)
(* The syntax tree the frontends produce (crates/inty/src/ast/mod.rs).    *)
(* A node is a record whose field k names the Rust variant.  A name is a  *)
(* string, a span is a number that identifies one occurrence of a name,   *)
(* and everything the passes modelled here ignore (type annotations,      *)
(* literal spellings) is left out.  None stands for an absent child.      *)
(***************************************************************************)
EXTENDS Integers, Sequences

None == [k |-> "none"]

(***************************************************************************)
(* Expressions.                                                           *)
(***************************************************************************)
Lit(v)            == [k |-> "lit", v |-> v]
Ident(n, s)       == [k |-> "id", n |-> n, s |-> s]
This              == [k |-> "this"]
ArrayLit(es)      == [k |-> "array", es |-> es]
SpreadArg(e)      == [k |-> "spread", e |-> e]
ObjectLit(ps)     == [k |-> "object", ps |-> ps]
Function(n, s, ps, body, arrow) ==
    [k |-> "fn", n |-> n, s |-> s, ps |-> ps, body |-> body, arrow |-> arrow]
Member(o, p)      == [k |-> "member", o |-> o, p |-> p]
Computed(o, i)    == [k |-> "computed", o |-> o, i |-> i]
Call(f, as)       == [k |-> "call", f |-> f, as |-> as]
New(f, as)        == [k |-> "new", f |-> f, as |-> as]
Unary(op, e)      == [k |-> "unary", op |-> op, e |-> e]
Binary(op, l, r)  == [k |-> "binary", op |-> op, l |-> l, r |-> r]
Assign(op, l, r)  == [k |-> "assign", op |-> op, l |-> l, r |-> r]
Conditional(t, c, a) == [k |-> "cond", t |-> t, c |-> c, a |-> a]
Nullish(l, r)     == [k |-> "nullish", l |-> l, r |-> r]
RestArray(e, n)   == [k |-> "restarray", e |-> e, skip |-> n]
RestRow(e, ex)    == [k |-> "restrow", e |-> e, excluded |-> ex]
Sequence(es)      == [k |-> "seq", es |-> es]
Template(es)      == [k |-> "template", es |-> es]
OptionalChain(es) == [k |-> "chain", es |-> es]

(***************************************************************************)
(* Property definitions of an object literal.                             *)
(***************************************************************************)
Property(key, v)      == [k |-> "prop", key |-> key, v |-> v]
Method(key, s, ps, body) == [k |-> "method", key |-> key, s |-> s, ps |-> ps, body |-> body]
Getter(key, s, body)  == [k |-> "getter", key |-> key, s |-> s, body |-> body]
Setter(key, p, body)  == [k |-> "setter", key |-> key, p |-> p, body |-> body]
SpreadProp(e)         == [k |-> "spreadprop", e |-> e]

(***************************************************************************)
(* Statements.  A parameter is a name with its span.                      *)
(***************************************************************************)
Param(n, s)           == [n |-> n, s |-> s]
Block(body)           == [k |-> "block", body |-> body]
Empty                 == [k |-> "empty"]
ExprStmt(e)           == [k |-> "expr", e |-> e]
Declarator(n, s, init) == [n |-> n, s |-> s, init |-> init]
VarStmt(kind, ds)     == [k |-> "var", kind |-> kind, ds |-> ds]
FunctionDecl(n, s, ps, body) ==
    [k |-> "fdecl", n |-> n, s |-> s, ps |-> ps, body |-> body]
If(t, c, a)           == [k |-> "if", t |-> t, c |-> c, a |-> a]
While(t, body)        == [k |-> "while", t |-> t, body |-> body]
DoWhile(body, t)      == [k |-> "dowhile", t |-> t, body |-> body]
For(init, t, u, body) == [k |-> "for", init |-> init, t |-> t, u |-> u, body |-> body]
ForDecl(kind, n, s)   == [k |-> "decl", kind |-> kind, n |-> n, s |-> s]
ForIn(left, right, body) == [k |-> "forin", left |-> left, right |-> right, body |-> body]
ForOf(left, right, body) == [k |-> "forof", left |-> left, right |-> right, body |-> body]
Return(e)             == [k |-> "return", e |-> e]
Throw(e)              == [k |-> "throw", e |-> e]
Break(label)          == [k |-> "break", label |-> label]
Continue(label)       == [k |-> "continue", label |-> label]
Catch(n, s, body)     == [k |-> "catch", n |-> n, s |-> s, body |-> body]
Try(block, h, f)      == [k |-> "try", block |-> block, handler |-> h, finalizer |-> f]
Case(t, body)         == [t |-> t, body |-> body]
Switch(d, cases)      == [k |-> "switch", d |-> d, cases |-> cases]
Labeled(label, body)  == [k |-> "labeled", label |-> label, body |-> body]
Import(n, s)          == [k |-> "import", n |-> n, s |-> s]
ExportVar(kind, ds)   == [k |-> "exportvar", kind |-> kind, ds |-> ds]
ExportFunction(n, s, ps, body) ==
    [k |-> "exportfn", n |-> n, s |-> s, ps |-> ps, body |-> body]
ExportDefault(e)      == [k |-> "exportdefault", e |-> e]
ExportList(n, s)      == [k |-> "exportlist", n |-> n, s |-> s]

(***************************************************************************)
(* The expressions directly inside a node that hold no function body and  *)
(* are no assignment target, in source order: what every pass walks the   *)
(* same way.                                                              *)
(***************************************************************************)
Children(e) ==
    CASE e.k \in {"array", "seq", "template", "chain"} -> SelectSeq(e.es, LAMBDA x : x # None)
      [] e.k = "member" -> <<e.o>>
      [] e.k = "computed" -> <<e.o, e.i>>
      [] e.k \in {"call", "new"} -> <<e.f>> \o e.as
      [] e.k \in {"unary", "spread", "restarray", "restrow"} -> <<e.e>>
      [] e.k \in {"binary", "nullish", "assign"} -> <<e.l, e.r>>
      [] e.k = "cond" -> <<e.t, e.c, e.a>>
      [] OTHER -> <<>>

IsUpdate(op) == op \in {"++x", "--x", "x++", "x--"}

(***************************************************************************)
(* The statements of a function body: a block shares the function's scope. *)
(***************************************************************************)
BodyStmts(body) == IF body.k = "block" THEN body.body ELSE <<body>>
============================================================================
