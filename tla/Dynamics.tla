------------------------------ MODULE Dynamics ------------------------------
(***************************************************************************)
(* The operational semantics of the typed subset                          *)
(* (crates/inty/src/dynamics/step.rs): a big-step evaluator that threads a *)
(* heap and a fuel counter through recursive operators.                   *)
(*                                                                        *)
(* Data.  A number is a small integer; a string is a sequence of character *)
(* codes, and a property name is a string.  An environment is a function   *)
(* from names to locations (RuntimeEnv::lookup finds the newest binding).  *)
(*                                                                        *)
(* Two ghosts are added, which no evaluation step looks at: a variable     *)
(* cell remembers the span of the declaration it was made for and whether  *)
(* a value has been stored, and st.reads collects what each identifier    *)
(* occurrence read.  The properties of the scope passes are about them.    *)
(***************************************************************************)
EXTENDS Ast, TLC

LOCAL INSTANCE SequencesExt

(***************************************************************************)
(* Values and cells (value.rs, heap.rs).                                  *)
(***************************************************************************)
Num(n)    == [t |-> "number", v |-> <<n>>]
Str(s)    == [t |-> "string", v |-> s]
Bool(b)   == [t |-> "boolean", v |-> <<IF b THEN 1 ELSE 0>>]
Null      == [t |-> "null"]
Undefined == [t |-> "undefined"]
ArrayAt(l)  == [t |-> "array", v |-> <<l>>]
ObjectAt(l) == [t |-> "object", v |-> <<l>>]
Builtin(m)  == [t |-> "builtin", m |-> m]
Closure(n, s, ps, body, env, arrow, ctor) ==
    [t |-> "closure", n |-> n, s |-> s, ps |-> ps, body |-> body, env |-> env,
     arrow |-> arrow, ctor |-> ctor]
GetterOf(c) == [t |-> "getter", c |-> c]

VarCell(v, d, ready) == [c |-> "var", v |-> v, d |-> d, ready |-> ready]
ObjectCell(props)    == [c |-> "object", props |-> props]
ArrayCell(items)     == [c |-> "array", items |-> items]

LengthKey  == <<1001>>
SliceKey   == <<1002>>
IndexOfKey == <<1003>>
DigitKey(n) == <<48 + n>>     \* n.to_string() of a one-digit number

Truthy(v) ==
    CASE v.t = "number" -> v.v # <<0>>
      [] v.t = "string" -> v.v # <<>>
      [] v.t = "boolean" -> v.v = <<1>>
      [] OTHER -> v.t \notin {"null", "undefined"}

\* The string typeof gives, one code per spelling.
TypeString(v) ==
    CASE v.t = "number" -> <<2001>>
      [] v.t = "string" -> <<2002>>
      [] v.t = "boolean" -> <<2003>>
      [] v.t = "undefined" -> <<2004>>
      [] v.t \in {"closure", "builtin", "getter"} -> <<2005>>
      [] OTHER -> <<2006>>

StrictEqual(l, r) == l.t = r.t /\ l.t \notin {"closure", "builtin", "getter"} /\ l = r

Nothing(v) == v.t \in {"null", "undefined"}
LooseEqual(l, r) == StrictEqual(l, r) \/ (Nothing(l) /\ Nothing(r))

(***************************************************************************)
(* Props: properties in the order they were made; a store to one that is  *)
(* there keeps its place.                                                 *)
(***************************************************************************)
HasProp(props, key) == \E i \in DOMAIN props : props[i][1] = key
PropValue(props, key) == props[CHOOSE i \in DOMAIN props : props[i][1] = key][2]
PutProp(props, key, v) ==
    IF HasProp(props, key)
    THEN [i \in DOMAIN props |-> IF props[i][1] = key THEN <<key, v>> ELSE props[i]]
    ELSE Append(props, <<key, v>>)

(***************************************************************************)
(* Interpreter state and results.  An expression ends in Ok or Stuck; a    *)
(* statement ends in one of the StmtOutcomes or in Stuck.                  *)
(***************************************************************************)
State(fuel) == [heap |-> <<>>, fuel |-> fuel, reads |-> {}]

Ok(st, v)         == [k |-> "normal", why |-> "", v |-> v, st |-> st]
Stuck(st, why)    == [k |-> "stuck", why |-> why, v |-> Undefined, st |-> st]
Uncaught(st, v)   == [k |-> "stuck", why |-> "UncaughtThrow", v |-> v, st |-> st]
Outcome(st, env, k, v) == [k |-> k, v |-> v, label |-> "", env |-> env, st |-> st]
Jump(st, env, k, label) ==
    [k |-> k, v |-> Undefined, label |-> label, env |-> env, st |-> st]
Normal(st, env)   == Outcome(st, env, "normal", Undefined)

IsOk(r) == r.k = "normal"
Then(r, F(_)) == IF IsOk(r) THEN F(r) ELSE r

Tick(st) == [st EXCEPT !.fuel = @ - 1]

Alloc(st, cell) == [st EXCEPT !.heap = Append(@, cell)]
Fresh(st) == Len(st.heap) + 1
SetVar(st, l, v) == [st EXCEPT !.heap[l].v = v]
\* The variable at l gets its value from its declaration or an assignment.
Initialise(st, l, v) == [st EXCEPT !.heap[l].v = v, !.heap[l].ready = TRUE]
Seen(st, op, n, s, l) ==
    [st EXCEPT !.reads = @ \cup {[op |-> op, n |-> n, s |-> s, l |-> l, v |-> st.heap[l].v,
                                  d |-> st.heap[l].d, ready |-> st.heap[l].ready]}]
Extend(env, n, l) == (n :> l) @@ env

(***************************************************************************)
(* Operators (apply_unary, apply_binary).  The arithmetic and bitwise     *)
(* operators all have the shape of "-"; "*" stands for them.              *)
(***************************************************************************)
ApplyUnary(st, op, v) ==
    CASE op = "!" -> Ok(st, Bool(~Truthy(v)))
      [] op = "typeof" -> Ok(st, Str(TypeString(v)))
      [] op = "void" -> Ok(st, Undefined)
      [] op = "delete" -> Ok(st, Bool(TRUE))
      [] op = "await" -> Ok(st, v)
      [] op = "-" /\ v.t = "number" -> Ok(st, Num(-v.v[1]))
      [] OTHER -> Stuck(st, "TypeMismatch")

ApplyBinary(st, op, l, r) ==
    CASE op = "===" -> Ok(st, Bool(StrictEqual(l, r)))
      [] op = "!==" -> Ok(st, Bool(~StrictEqual(l, r)))
      [] op = "==" -> Ok(st, Bool(LooseEqual(l, r)))
      [] op = "+" /\ l.t = "string" /\ r.t = "string" -> Ok(st, Str(l.v \o r.v))
      [] op = "instanceof" -> Stuck(st, "NotImplemented")
      [] l.t = "number" /\ r.t = "number" ->
           Ok(st, CASE op = "+" -> Num(l.v[1] + r.v[1])
                    [] op = "-" -> Num(l.v[1] - r.v[1])
                    [] op = "*" -> Num(l.v[1] * r.v[1])
                    [] op = "<" -> Bool(l.v[1] < r.v[1]))
      [] OTHER -> Stuck(st, "TypeMismatch")

(***************************************************************************)
(* Reading members (read_member, read_index) without running getters.     *)
(***************************************************************************)
ReadMember(st, obj, p) ==
    CASE obj.t = "object" ->
           LET props == st.heap[obj.v[1]].props
           IN IF HasProp(props, p) THEN Ok(st, PropValue(props, p))
              ELSE Stuck(st, "PropertyNotFound")
      [] obj.t = "array" /\ p = LengthKey -> Ok(st, Num(Len(st.heap[obj.v[1]].items)))
      [] obj.t = "string" /\ p = LengthKey -> Ok(st, Num(Len(obj.v)))
      [] obj.t \in {"array", "string"} /\ p \in {SliceKey, IndexOfKey} -> Ok(st, Builtin(p))
      [] obj.t \in {"array", "string"} -> Stuck(st, "PropertyNotFound")
      [] OTHER -> Stuck(st, "NotIndexable")

KeyOf(v) == IF v.t = "number" THEN DigitKey(v.v[1]) ELSE v.v

ReadIndex(st, obj, i) ==
    CASE obj.t = "array" /\ i.t = "number" ->
           LET items == st.heap[obj.v[1]].items
           IN IF i.v[1] + 1 \in DOMAIN items THEN Ok(st, items[i.v[1] + 1])
              ELSE Stuck(st, "OutOfBounds")
      [] obj.t = "string" /\ i.t = "number" ->
           IF i.v[1] + 1 \in DOMAIN obj.v THEN Ok(st, Str(<<obj.v[i.v[1] + 1]>>))
           ELSE Stuck(st, "OutOfBounds")
      [] obj.t = "object" /\ i.t \in {"number", "string"} ->
           LET props == st.heap[obj.v[1]].props
           IN Ok(st, IF HasProp(props, KeyOf(i)) THEN PropValue(props, KeyOf(i)) ELSE Undefined)
      [] OTHER -> Stuck(st, "NotIndexable")

IsGetter(st, obj, p) ==
    /\ obj.t = "object"
    /\ HasProp(st.heap[obj.v[1]].props, p)
    /\ PropValue(st.heap[obj.v[1]].props, p).t = "getter"

(***************************************************************************)
(* Built-in methods (apply_builtin): slice counts a negative index from   *)
(* the end, indexOf compares by ===.                                      *)
(***************************************************************************)
SliceAt(args, i, default, len) ==
    LET n == IF i > Len(args) \/ args[i].t = "undefined" THEN default ELSE args[i].v[1]
    IN IF n < 0 THEN (IF len + n < 0 THEN 0 ELSE len + n)
       ELSE IF n < len THEN n ELSE len

ApplyBuiltin(st, m, this, args) ==
    LET items == IF this.t = "string" THEN [i \in DOMAIN this.v |-> Str(<<this.v[i]>>)]
                 ELSE st.heap[this.v[1]].items
        a == SliceAt(args, 1, 0, Len(items))
        b == SliceAt(args, 2, Len(items), Len(items))
        found == IF this.t = "string"
                 THEN {i \in 1..(Len(items) - Len(args[1].v) + 1) :
                         SubSeq(this.v, i, i + Len(args[1].v) - 1) = args[1].v}
                 ELSE {i \in DOMAIN items : StrictEqual(items[i], args[1])}
    IN CASE this.t \notin {"string", "array"} -> Stuck(st, "TypeMismatch")
         [] m = SliceKey /\ Len(args) > 2 -> Stuck(st, "ArityMismatch")
         [] m = SliceKey /\ \E i \in DOMAIN args : args[i].t \notin {"number", "undefined"} ->
              Stuck(st, "NotImplemented")
         [] m = SliceKey /\ this.t = "string" -> Ok(st, Str(SubSeq(this.v, a + 1, b)))
         [] m = SliceKey -> Ok(Alloc(st, ArrayCell(SubSeq(items, a + 1, b))), ArrayAt(Fresh(st)))
         [] Len(args) # 1 -> Stuck(st, "ArityMismatch")
         [] this.t = "string" /\ args[1].t # "string" -> Stuck(st, "NotImplemented")
         [] OTHER -> Ok(st, Num(IF found = {} THEN -1
                                ELSE (CHOOSE i \in found : \A j \in found : i <= j) - 1))

(***************************************************************************)
(* Stores (write_place).  A place is an identifier, a member or an index  *)
(* with its object and index already evaluated.                           *)
(***************************************************************************)
PlaceVar(n, s)     == [k |-> "pvar", n |-> n, s |-> s]
PlaceMember(obj, p) == [k |-> "pmember", obj |-> obj, p |-> p]
PlaceIndex(obj, i)  == [k |-> "pindex", obj |-> obj, i |-> i]
PlaceInvalid        == [k |-> "pinvalid"]

StoreProp(st, obj, p, v) ==
    IF IsGetter(st, obj, p) THEN Stuck(st, "ReadOnly")
    ELSE Ok([st EXCEPT !.heap[obj.v[1]].props = PutProp(@, p, v)], v)

StoreItem(st, obj, i, v) ==
    LET len == Len(st.heap[obj.v[1]].items)
    IN CASE i + 1 \in 1..len -> Ok([st EXCEPT !.heap[obj.v[1]].items[i + 1] = v], v)
         [] i = len -> Ok([st EXCEPT !.heap[obj.v[1]].items = Append(@, v)], v)
         [] OTHER -> Stuck(st, "OutOfBounds")

Truncate(st, obj, v) ==
    CASE v.t # "number" -> Stuck(st, "BadAssignmentTarget")
      [] v.v[1] \in 0..Len(st.heap[obj.v[1]].items) ->
           Ok([st EXCEPT !.heap[obj.v[1]].items = SubSeq(@, 1, v.v[1])], v)
      [] OTHER -> Stuck(st, "OutOfBounds")

WritePlace(st, env, place, v) ==
    CASE place.k = "pvar" ->
           IF place.n \in DOMAIN env
           THEN Ok(Initialise(Seen(st, "write", place.n, place.s, env[place.n]), env[place.n], v), v)
           ELSE Stuck(st, "UndefinedVariable")
      [] place.k = "pmember" /\ place.obj.t = "object" -> StoreProp(st, place.obj, place.p, v)
      [] place.k = "pmember" /\ place.obj.t = "array" /\ place.p = LengthKey ->
           Truncate(st, place.obj, v)
      [] place.k = "pindex" /\ place.obj.t = "object" /\ place.i.t = "string" ->
           StoreProp(st, place.obj, place.i.v, v)
      [] place.k = "pindex" /\ place.obj.t = "array" /\ place.i.t = "number" ->
           StoreItem(st, place.obj, place.i.v[1], v)
      [] OTHER -> Stuck(st, "BadAssignmentTarget")

(***************************************************************************)
(* Declarations.  A block allocates a cell for every name its statements  *)
(* declare before any of them runs (declared_names, eval_block); a cell's *)
(* ghost span is that of the first declaration of its name.               *)
(***************************************************************************)
DefaultName == "default"

DeclaredNames(s) ==
    CASE s.k \in {"var", "exportvar"} -> [i \in DOMAIN s.ds |-> <<s.ds[i].n, s.ds[i].s>>]
      [] s.k \in {"fdecl", "exportfn"} -> <<<<s.n, s.s>>>>
      [] s.k = "exportdefault" ->
           IF s.e.k = "fn" /\ s.e.n # "" THEN <<<<s.e.n, s.e.s>>, <<DefaultName, 0>>>>
           ELSE <<<<DefaultName, 0>>>>
      [] OTHER -> <<>>

Unexported(s) ==
    CASE s.k = "exportvar" -> VarStmt(s.kind, s.ds)
      [] s.k = "exportfn" -> FunctionDecl(s.n, s.s, s.ps, s.body)
      [] s.k = "exportdefault" /\ s.e.k = "fn" /\ s.e.n # "" /\ ~s.e.arrow ->
           FunctionDecl(s.e.n, s.e.s, s.e.ps, s.e.body)
      [] s.k = "exportdefault" -> VarStmt("const", <<Declarator(DefaultName, 0, s.e)>>)
      [] s.k = "exportlist" -> Empty
      [] OTHER -> s

RECURSIVE Allocate(_, _, _)
Allocate(st, env, names) ==
    IF names = <<>> THEN [st |-> st, env |-> env, new |-> {}]
    ELSE LET rest == Allocate(st, env, SubSeq(names, 1, Len(names) - 1))
             n == names[Len(names)]
         IN IF n[1] \in rest.new THEN rest
            ELSE [st |-> Alloc(rest.st, VarCell(Undefined, n[2], FALSE)),
                  env |-> Extend(rest.env, n[1], Fresh(rest.st)),
                  new |-> rest.new \cup {n[1]}]

RECURSIVE BindFunctions(_, _, _)
BindFunctions(st, env, body) ==
    IF body = <<>> THEN st
    ELSE LET f == Head(body)
         IN BindFunctions(
              IF f.k = "fdecl"
              THEN Initialise(st, env[f.n], Closure(f.n, f.s, f.ps, f.body, env, FALSE, TRUE))
              ELSE st,
              env, Tail(body))

RECURSIVE BindParams(_, _, _)
BindParams(a, ps, args) ==
    IF ps = <<>> THEN a
    ELSE BindParams([st |-> Alloc(a.st, VarCell(Head(args), Head(ps).s, TRUE)),
                     env |-> Extend(a.env, Head(ps).n, Fresh(a.st))], Tail(ps), Tail(args))

(***************************************************************************)
(* The evaluator.                                                         *)
(***************************************************************************)
\* Every recursive call goes through Eval: `what` names the function of the
\* source, `x` holds what it takes besides the state and the environment.
RECURSIVE Eval(_, _, _, _)
EvalExpr(st, env, e)      == Eval("expr", st, env, e)
EvalStmt(st, env, s)      == Eval("stmt", st, env, s)
Apply(st, f, this, args)  == Eval("apply", st, << >>, [f |-> f, this |-> this, args |-> args])
EvalElements(st, env, es, vs, spreads) ==
    Eval("elements", st, env, [es |-> es, vs |-> vs, spreads |-> spreads])
CopyProps(st, obj, keys, props) ==
    Eval("copy", st, << >>, [obj |-> obj, keys |-> keys, props |-> props])
EvalProps(st, env, ps, props) == Eval("props", st, env, [ps |-> ps, props |-> props])
EvalDecls(st, env, kind, ds, allocated) ==
    Eval("decls", st, env, [kind |-> kind, ds |-> ds, allocated |-> allocated])
RunStmts(st, env, body, last) == Eval("stmts", st, env, [body |-> body, last |-> last])
Iterate(st, env, s)       == Eval("iterate", st, env, s)
ForEach(st, env, s, vs)   == Eval("foreach", st, env, [s |-> s, vs |-> vs])
RunCase(st, env, body)    == Eval("case", st, env, body)
RunCases(st, env, d, cases, matched) ==
    Eval("cases", st, env, [d |-> d, cases |-> cases, matched |-> matched])

\* The body of a closure runs in its environment extended with `this`
\* (not for an arrow function), its own name and its parameters.
WithThis(st, f, this) ==
    IF f.arrow THEN [st |-> st, env |-> f.env]
    ELSE [st |-> Alloc(st, VarCell(this, 0, TRUE)), env |-> Extend(f.env, "this", Fresh(st))]

WithSelf(a, f) ==
    IF f.n = "" THEN a
    ELSE [st |-> Alloc(a.st, VarCell(f, f.s, TRUE)), env |-> Extend(a.env, f.n, Fresh(a.st))]

RunBody(a, body) == EvalStmt(a.st, a.env, body)

Returned(r) ==
    CASE r.k = "stuck" -> r
      [] r.k = "return" -> Ok(r.st, r.v)
      [] r.k = "throw" -> Uncaught(r.st, r.v)
      [] OTHER -> Ok(r.st, Undefined)

ApplyClosure(st, f, this, args) ==
    CASE f.t = "builtin" -> ApplyBuiltin(st, f.m, this, args)
      [] f.t # "closure" -> Stuck(st, "NotCallable")
      [] Len(args) < Len(f.ps) -> Stuck(st, "ArityMismatch")
      [] OTHER -> Returned(RunBody(BindParams(WithSelf(WithThis(st, f, this), f), f.ps, args), f.body))

\* Mutant: a getter is handed out as a value.
RunNoGetter(r, obj) == r

RunGetter(r, obj) ==
    IF IsOk(r) /\ r.v.t = "getter" THEN Apply(r.st, r.v.c, obj, <<>>) ELSE r
GetMember(st, obj, p) == RunGetter(ReadMember(st, obj, p), obj)
GetIndex(st, obj, i)  == RunGetter(ReadIndex(st, obj, i), obj)

\* Elements of an array or arguments of a call, left to right; only an
\* array spreads.
Spread(r, vs) ==
    CASE r.v.t = "array" -> Ok(r.st, vs \o r.st.heap[r.v.v[1]].items)
      [] r.v.t = "string" -> Ok(r.st, vs \o [i \in DOMAIN r.v.v |-> Str(<<r.v.v[i]>>)])
      [] OTHER -> Stuck(r.st, "NotImplemented")

NextElement(st, env, es, vs, spreads) ==
    IF es = <<>> THEN Ok(st, vs)
    ELSE Then(CASE Head(es).k = "none" -> Ok(st, Append(vs, Undefined))
                [] Head(es).k = "spread" /\ spreads ->
                     Then(EvalExpr(st, env, Head(es).e), LAMBDA r : Spread(r, vs))
                [] OTHER -> Then(EvalExpr(st, env, Head(es)), LAMBDA r : Ok(r.st, Append(vs, r.v))),
              LAMBDA q : EvalElements(q.st, env, Tail(es), q.v, spreads))

\* A spread copies the properties in order; each is read when it is
\* reached, since a getter run before it may have stored to it.
NextCopy(st, obj, keys, props) ==
    IF keys = <<>> THEN Ok(st, props)
    ELSE Then(RunGetter(Ok(st, PropValue(st.heap[obj.v[1]].props, Head(keys))), obj), LAMBDA r :
           CopyProps(r.st, obj, Tail(keys), PutProp(props, Head(keys), r.v)))

Keys(props) == [i \in DOMAIN props |-> props[i][1]]

NextProp(st, env, ps, props) ==
    IF ps = <<>> THEN Ok(st, props)
    ELSE Then(CASE Head(ps).k = "prop" ->
                     Then(EvalExpr(st, env, Head(ps).v), LAMBDA r :
                       Ok(r.st, PutProp(props, Head(ps).key, r.v)))
                [] Head(ps).k = "method" ->
                     Ok(st, PutProp(props, Head(ps).key,
                                    Closure("", Head(ps).s, Head(ps).ps, Head(ps).body, env, FALSE, FALSE)))
                [] Head(ps).k = "getter" ->
                     Ok(st, PutProp(props, Head(ps).key,
                                    GetterOf(Closure("", Head(ps).s, <<>>, Head(ps).body, env, FALSE, FALSE))))
                [] Head(ps).k = "setter" -> Stuck(st, "NotImplemented")
                [] Head(ps).k = "spreadprop" ->
                     Then(EvalExpr(st, env, Head(ps).e), LAMBDA r :
                       IF r.v.t # "object" THEN Stuck(r.st, "NotImplemented")
                       ELSE CopyProps(r.st, r.v, Keys(r.st.heap[r.v.v[1]].props), props)),
              LAMBDA q : EvalProps(q.st, env, Tail(ps), q.v))

EvalPlace(st, env, target) ==
    CASE target.k = "id" -> Ok(st, PlaceVar(target.n, target.s))
      [] target.k = "member" ->
           Then(EvalExpr(st, env, target.o), LAMBDA o : Ok(o.st, PlaceMember(o.v, target.p)))
      [] target.k = "computed" ->
           Then(EvalExpr(st, env, target.o), LAMBDA o :
             Then(EvalExpr(o.st, env, target.i), LAMBDA i : Ok(i.st, PlaceIndex(o.v, i.v))))
      [] OTHER -> Ok(st, PlaceInvalid)

ReadPlace(st, env, place) ==
    CASE place.k = "pvar" -> EvalExpr(st, env, Ident(place.n, place.s))
      [] place.k = "pmember" -> GetMember(st, place.obj, place.p)
      [] place.k = "pindex" -> GetIndex(st, place.obj, place.i)
      [] OTHER -> Stuck(st, "BadAssignmentTarget")

\* The callee of a call with its receiver, as a pair.
EvalCallee(st, env, f) ==
    IF f.k \in {"member", "computed"}
    THEN Then(EvalPlace(st, env, f), LAMBDA p :
           Then(ReadPlace(p.st, env, p.v), LAMBDA m : Ok(m.st, <<m.v, p.v.obj>>)))
    ELSE Then(EvalExpr(st, env, f), LAMBDA m : Ok(m.st, <<m.v, Undefined>>))

CompoundOp(op) == IF op = "+=" THEN "+" ELSE "-"

Store(r, env, place) == Then(r, LAMBDA v : WritePlace(v.st, env, place, v.v))

\* A logical assignment that is decided by the current value stores nothing.
Settled(op, v) ==
    \/ op = "??=" /\ ~Nothing(v)
    \/ op = "&&=" /\ ~Truthy(v)
    \/ op = "||=" /\ Truthy(v)

Combine(cur, env, e) ==
    Then(EvalExpr(cur.st, env, e.r), LAMBDA r :
      IF e.op \in {"??=", "&&=", "||="} THEN r
      ELSE ApplyBinary(r.st, CompoundOp(e.op), cur.v, r.v))

EvalAssign(st, env, e) ==
    Then(EvalPlace(st, env, e.l), LAMBDA p :
      IF e.op = "=" THEN Store(EvalExpr(p.st, env, e.r), env, p.v)
      ELSE Then(ReadPlace(p.st, env, p.v), LAMBDA cur :
             IF Settled(e.op, cur.v) THEN cur ELSE Store(Combine(cur, env, e), env, p.v)))

Delta(op) == IF op \in {"++x", "x++"} THEN 1 ELSE -1

EvalUpdate(st, env, e) ==
    Then(EvalPlace(st, env, e.e), LAMBDA p :
      Then(ReadPlace(p.st, env, p.v), LAMBDA cur :
        IF cur.v.t # "number" THEN Stuck(cur.st, "TypeMismatch")
        ELSE Then(WritePlace(cur.st, env, p.v, Num(cur.v.v[1] + Delta(e.op))), LAMBDA w :
               Ok(w.st, IF e.op \in {"++x", "--x"} THEN w.v ELSE cur.v))))

EvalRest(st, env, e) ==
    Then(EvalExpr(st, env, e.e), LAMBDA r :
      CASE e.k = "restarray" /\ r.v.t = "array" ->
             Ok(Alloc(r.st, ArrayCell(LET items == r.st.heap[r.v.v[1]].items
                                      IN SubSeq(items, e.skip + 1, Len(items)))),
                ArrayAt(Fresh(r.st)))
        [] e.k = "restrow" /\ r.v.t = "object" ->
             Ok(Alloc(r.st, ObjectCell(SelectSeq(r.st.heap[r.v.v[1]].props,
                                                 LAMBDA p : p[1] \notin e.excluded))),
                ObjectAt(Fresh(r.st)))
        [] OTHER -> Stuck(r.st, "NotImplemented"))

EvalNew(st, env, e) ==
    Then(EvalExpr(st, env, e.f), LAMBDA f :
      Then(EvalElements(f.st, env, e.as, <<>>, FALSE), LAMBDA as :
        IF f.v.t = "closure" /\ ~f.v.ctor THEN Stuck(as.st, "NotConstructor")
        ELSE LET this == ObjectAt(Fresh(as.st))
             IN Then(Apply(Alloc(as.st, ObjectCell(<<>>)), f.v, this, as.v), LAMBDA r :
                  Ok(r.st, IF r.v.t \in {"object", "array", "closure"} THEN r.v ELSE this))))

\* Template literals put the pieces' strings together.
RECURSIVE Concatenate(_)
Concatenate(vs) ==
    IF vs = <<>> THEN <<>>
    ELSE LET v == Head(vs)
         IN (CASE v.t = "string" -> v.v
               [] v.t = "number" -> DigitKey(v.v[1])
               [] OTHER -> TypeString(v)) \o Concatenate(Tail(vs))

ExprRule(st0, env, e) ==
    IF st0.fuel = 0 THEN Stuck(st0, "FuelExhausted")
    ELSE LET st == Tick(st0) IN
    CASE e.k = "lit" -> Ok(st, e.v)
      [] e.k = "id" ->
           CASE e.n \in DOMAIN env ->
                  Ok(Seen(st, "read", e.n, e.s, env[e.n]), st.heap[env[e.n]].v)
             [] e.n = "undefined" -> Ok(st, Undefined)
             [] OTHER -> Stuck(st, "UndefinedVariable")
      [] e.k = "this" ->
           Ok(st, IF "this" \in DOMAIN env THEN st.heap[env["this"]].v ELSE Undefined)
      [] e.k = "array" ->
           Then(EvalElements(st, env, e.es, <<>>, TRUE), LAMBDA r :
             Ok(Alloc(r.st, ArrayCell(r.v)), ArrayAt(Fresh(r.st))))
      [] e.k = "object" ->
           Then(EvalProps(st, env, e.ps, <<>>), LAMBDA r :
             Ok(Alloc(r.st, ObjectCell(r.v)), ObjectAt(Fresh(r.st))))
      [] e.k = "fn" -> Ok(st, Closure(e.n, e.s, e.ps, e.body, env, e.arrow, ~e.arrow))
      [] e.k \in {"member", "computed"} ->
           Then(EvalPlace(st, env, e), LAMBDA p : ReadPlace(p.st, env, p.v))
      [] e.k = "call" ->
           Then(EvalCallee(st, env, e.f), LAMBDA c :
             Then(EvalElements(c.st, env, e.as, <<>>, FALSE), LAMBDA as :
               Apply(as.st, c.v[1], c.v[2], as.v)))
      [] e.k = "new" -> EvalNew(st, env, e)
      [] e.k = "unary" ->
           IF IsUpdate(e.op) THEN EvalUpdate(st, env, e)
           ELSE Then(EvalExpr(st, env, e.e), LAMBDA r : ApplyUnary(r.st, e.op, r.v))
      [] e.k = "binary" ->
           Then(EvalExpr(st, env, e.l), LAMBDA l :
             CASE e.op \in {"&&", "||"} ->
                    IF Truthy(l.v) = (e.op = "&&") THEN EvalExpr(l.st, env, e.r) ELSE l
               [] OTHER -> Then(EvalExpr(l.st, env, e.r), LAMBDA r :
                             ApplyBinary(r.st, e.op, l.v, r.v)))
      [] e.k = "assign" -> EvalAssign(st, env, e)
      [] e.k = "cond" ->
           Then(EvalExpr(st, env, e.t), LAMBDA t :
             EvalExpr(t.st, env, IF Truthy(t.v) THEN e.c ELSE e.a))
      [] e.k = "nullish" ->
           Then(EvalExpr(st, env, e.l), LAMBDA l :
             IF Nothing(l.v) THEN EvalExpr(l.st, env, e.r) ELSE l)
      [] e.k \in {"restarray", "restrow"} -> EvalRest(st, env, e)
      [] e.k = "seq" ->
           Then(EvalElements(st, env, e.es, <<>>, FALSE), LAMBDA r :
             Ok(r.st, IF r.v = <<>> THEN Undefined ELSE r.v[Len(r.v)]))
      [] e.k = "template" ->
           Then(EvalElements(st, env, e.es, <<>>, FALSE), LAMBDA r :
             Ok(r.st, Str(Concatenate(r.v))))
      [] OTHER -> Stuck(st, "NotImplemented")     \* optional chains, bare spreads

(***************************************************************************)
(* Statements.                                                            *)
(***************************************************************************)
\* Declarators whose cells the block allocated write them; elsewhere each
\* allocates its own.
NextDecl(st, env, kind, ds, allocated) ==
    IF ds = <<>> THEN Normal(st, env)
    ELSE LET d == Head(ds)
         IN Then(IF d.init = None THEN Ok(st, Undefined) ELSE EvalExpr(st, env, d.init), LAMBDA r :
              CASE allocated /\ d.init = None /\ kind = "var" ->
                     EvalDecls(SetVar(r.st, env[d.n], Undefined), env, kind, Tail(ds), allocated)
                [] allocated ->
                     EvalDecls(Initialise(r.st, env[d.n], r.v), env, kind, Tail(ds), allocated)
                [] OTHER ->
                     EvalDecls(Alloc(r.st, VarCell(r.v, d.s, d.init # None \/ kind # "var")),
                               Extend(env, d.n, Fresh(r.st)), kind, Tail(ds), allocated))

NextStmt(st, env, body, last) ==
    IF body = <<>> THEN Outcome(st, env, "normal", last)
    ELSE LET s == Head(body)
         IN CASE s.k = "fdecl" -> RunStmts(st, env, Tail(body), last)
              [] s.k = "var" ->
                   Then(EvalDecls(st, env, s.kind, s.ds, TRUE), LAMBDA r :
                     RunStmts(r.st, env, Tail(body), last))
              [] OTHER ->
                   Then(EvalStmt(st, env, s), LAMBDA r :
                     RunStmts(r.st, r.env, Tail(body), r.v))

EvalBlock(st, env, stmts) ==
    LET body == [i \in DOMAIN stmts |-> Unexported(stmts[i])]
        a == Allocate(st, env, FlattenSeq([i \in DOMAIN stmts |-> DeclaredNames(body[i])]))
    IN RunStmts(BindFunctions(a.st, a.env, body), a.env, body, Undefined)

Continues(r) == r.k = "normal" \/ (r.k = "continue" /\ r.label = "")
Breaks(r) == r.k = "break" /\ r.label = ""
Leaving(r, env) == IF r.k = "stuck" THEN r ELSE [r EXCEPT !.env = env]

\* while, do-while and for: one tick per iteration.
BeforeBody(st, env, s) ==
    IF s.k = "dowhile" \/ s.t = None THEN Ok(st, Bool(TRUE)) ELSE EvalExpr(st, env, s.t)

AfterBody(st, env, s) ==
    CASE s.k = "dowhile" -> EvalExpr(st, env, s.t)
      [] s.k = "for" /\ s.u # None -> Then(EvalExpr(st, env, s.u), LAMBDA u : Ok(u.st, Bool(TRUE)))
      [] OTHER -> Ok(st, Bool(TRUE))

AfterIteration(r, env, s) ==
    CASE Breaks(r) -> Normal(r.st, env)
      [] ~Continues(r) -> Leaving(r, env)
      [] OTHER -> Then(AfterBody(r.st, env, s), LAMBDA more :
                    IF Truthy(more.v) THEN Iterate(more.st, env, s) ELSE Normal(more.st, env))

NextIteration(st, env, s) ==
    IF st.fuel = 0 THEN Stuck(st, "FuelExhausted")
    ELSE Then(BeforeBody(Tick(st), env, s), LAMBDA t :
           IF Truthy(t.v) THEN AfterIteration(EvalStmt(t.st, env, s.body), env, s)
           ELSE Normal(t.st, env))

BindForLhs(st, env, left, v) ==
    IF left.k = "decl"
    THEN Normal(Alloc(st, VarCell(v, left.s, TRUE)), Extend(env, left.n, Fresh(st)))
    ELSE Then(EvalPlace(st, env, left), LAMBDA p :
           Then(WritePlace(p.st, env, p.v, v), LAMBDA w : Normal(w.st, env)))

AfterItem(r, env, s, vs) ==
    CASE Breaks(r) -> Normal(r.st, env)
      [] Continues(r) -> ForEach(r.st, env, s, vs)
      [] OTHER -> Leaving(r, env)

NextItem(st, env, s, vs) ==
    IF vs = <<>> THEN Normal(st, env)
    ELSE Then(BindForLhs(st, env, s.left, Head(vs)), LAMBDA b :
           AfterItem(EvalStmt(b.st, b.env, s.body), env, s, Tail(vs)))

\* The keys or elements a loop visits, fixed before the first iteration.
Iterated(st, k, v) ==
    CASE v.t = "array" /\ k = "forof" -> Ok(st, st.heap[v.v[1]].items)
      [] v.t = "array" -> Ok(st, [i \in DOMAIN st.heap[v.v[1]].items |-> Str(DigitKey(i - 1))])
      [] v.t = "object" /\ k = "forin" ->
           Ok(st, [i \in DOMAIN st.heap[v.v[1]].props |-> Str(st.heap[v.v[1]].props[i][1])])
      [] v.t = "string" /\ k = "forof" -> Ok(st, [i \in DOMAIN v.v |-> Str(<<v.v[i]>>)])
      [] OTHER -> Stuck(st, "TypeMismatch")

\* A throw out of a function called in a try is the try's throw.
Completed(r, env) ==
    IF r.k = "stuck" /\ r.why = "UncaughtThrow" THEN Outcome(r.st, env, "throw", r.v)
    ELSE Leaving(r, env)

Handle(r, env, h) ==
    IF r.k # "throw" \/ h = None THEN r
    ELSE Completed(EvalStmt(Alloc(r.st, VarCell(r.v, h.s, TRUE)),
                            Extend(env, h.n, Fresh(r.st)), h.body), env)

\* A finalizer that ends abruptly replaces the outcome.
Override(r, final) == IF final.k = "normal" THEN [r EXCEPT !.st = final.st] ELSE final

\* Mutant: a jump out of the block skips the finalizer.
FinalizeNoJump(r, env, f) ==
    IF r.k \in {"stuck", "break", "continue"} \/ f = None THEN r
    ELSE Override(r, Completed(EvalStmt(r.st, env, f), env))

Finalize(r, env, f) ==
    IF r.k = "stuck" \/ f = None THEN r ELSE Override(r, Completed(EvalStmt(r.st, env, f), env))

EvalTry(st, env, s) ==
    Finalize(Handle(Completed(EvalStmt(st, env, s.block), env), env, s.handler), env, s.finalizer)

\* Statements of a matched case run one by one in the switch's own
\* environment; control falls through to the next case.
AfterInCase(r, env, body) == IF r.k = "normal" THEN RunCase(r.st, env, body) ELSE Leaving(r, env)
NextInCase(st, env, body) ==
    IF body = <<>> THEN Normal(st, env)
    ELSE AfterInCase(EvalStmt(st, env, Head(body)), env, Tail(body))

Matches(st, env, d, c, matched) ==
    IF matched \/ c.t = None THEN Ok(st, Bool(TRUE))
    ELSE Then(EvalExpr(st, env, c.t), LAMBDA t : Ok(t.st, Bool(StrictEqual(d, t.v))))

AfterCase(r, env, d, cases) ==
    CASE Breaks(r) -> Normal(r.st, env)
      [] r.k = "normal" -> RunCases(r.st, env, d, cases, TRUE)
      [] OTHER -> r

NextCase(st, env, d, cases, matched) ==
    IF cases = <<>> THEN Normal(st, env)
    ELSE Then(Matches(st, env, d, Head(cases), matched), LAMBDA h :
           IF Truthy(h.v) THEN AfterCase(RunCase(h.st, env, Head(cases).body), env, d, Tail(cases))
           ELSE RunCases(h.st, env, d, Tail(cases), FALSE))

StmtRule(st0, env, s) ==
    IF st0.fuel = 0 THEN Stuck(st0, "FuelExhausted")
    ELSE LET st == Tick(st0)
             value(e) == IF e = None THEN Ok(st, Undefined) ELSE EvalExpr(st, env, e)
         IN
    CASE s.k = "block" -> Leaving(EvalBlock(st, env, s.body), env)
      [] s.k = "expr" -> Then(value(s.e), LAMBDA r : Outcome(r.st, env, "normal", r.v))
      [] s.k = "var" -> EvalDecls(st, env, s.kind, s.ds, FALSE)
      [] s.k = "fdecl" ->
           Normal(Alloc(st, VarCell(Closure(s.n, s.s, s.ps, s.body, env, FALSE, TRUE), s.s, TRUE)),
                  Extend(env, s.n, Fresh(st)))
      [] s.k = "return" -> Then(value(s.e), LAMBDA r : Outcome(r.st, env, "return", r.v))
      [] s.k = "throw" -> Then(value(s.e), LAMBDA r : Outcome(r.st, env, "throw", r.v))
      [] s.k \in {"break", "continue"} -> Jump(st, env, s.k, s.label)
      [] s.k = "if" ->
           Then(value(s.t), LAMBDA t :
             CASE Truthy(t.v) -> Leaving(EvalStmt(t.st, env, s.c), env)
               [] s.a = None -> Normal(t.st, env)
               [] OTHER -> Leaving(EvalStmt(t.st, env, s.a), env))
      [] s.k \in {"while", "dowhile"} -> Iterate(st, env, s)
      [] s.k = "for" ->
           Then(CASE s.init = None -> Normal(st, env)
                  [] s.init.k = "var" -> EvalDecls(st, env, s.init.kind, s.init.ds, FALSE)
                  [] OTHER -> Then(EvalExpr(st, env, s.init), LAMBDA i : Normal(i.st, env)),
                LAMBDA i : Leaving(Iterate(i.st, i.env, s), env))
      [] s.k \in {"forin", "forof"} ->
           Then(value(s.right), LAMBDA v :
             Then(Iterated(v.st, s.k, v.v), LAMBDA vs : ForEach(vs.st, env, s, vs.v)))
      [] s.k = "try" -> EvalTry(st, env, s)
      [] s.k = "switch" ->
           Then(value(s.d), LAMBDA d : RunCases(d.st, env, d.v, s.cases, FALSE))
      [] s.k = "labeled" -> EvalStmt(st, env, s.body)
      [] OTHER -> Normal(st, env)     \* empty, import, export

Eval(what, st, env, x) ==
    CASE what = "expr" -> ExprRule(st, env, x)
      [] what = "stmt" -> StmtRule(st, env, x)
      [] what = "apply" -> ApplyClosure(st, x.f, x.this, x.args)
      [] what = "elements" -> NextElement(st, env, x.es, x.vs, x.spreads)
      [] what = "copy" -> NextCopy(st, x.obj, x.keys, x.props)
      [] what = "props" -> NextProp(st, env, x.ps, x.props)
      [] what = "decls" -> NextDecl(st, env, x.kind, x.ds, x.allocated)
      [] what = "stmts" -> NextStmt(st, env, x.body, x.last)
      [] what = "iterate" -> NextIteration(st, env, x)
      [] what = "foreach" -> NextItem(st, env, x.s, x.vs)
      [] what = "case" -> NextInCase(st, env, x)
      [] what = "cases" -> NextCase(st, env, x.d, x.cases, x.matched)

(***************************************************************************)
(* run_program: the value of the last statement, or why it is stuck.      *)
(***************************************************************************)
RunProgram(fuel, stmts) ==
    LET r == EvalBlock(State(fuel), << >>, stmts)
    IN CASE r.k \in {"normal", "return"} -> Ok(r.st, r.v)
         [] r.k = "throw" -> Uncaught(r.st, r.v)
         [] r.k = "stuck" -> r
         [] OTHER -> Stuck(r.st, "NotImplemented")
============================================================================
