---------------------------- MODULE Declarations ----------------------------
(***************************************************************************)
(* `inty declarations` (declarations.rs): each export's scheme as an       *)
(* annotation other modules read back, or as TypeScript.                   *)
(***************************************************************************)
EXTENDS Substs, TypePretty

(***************************************************************************)
(* Callable rows lose an open tail that is all they have besides the call. *)
(***************************************************************************)
RECURSIVE close_call_tails(_)
close_call_tails(t) ==
    LET u == Rebuild(t, [i \in DOMAIN Children(t) |-> close_call_tails(Children(t)[i])])
    IN CASE t.k \in {"Named", "Module"} -> t
         [] t.k = "Row" /\ DOMAIN t.props = {"call"} /\ t.tail.tail = "Open" ->
               [u EXCEPT !.tail = Closed]
         [] t.k = "Row" -> [u EXCEPT !.tail = t.tail]
         [] OTHER -> u

declarable(sc) ==
    LET closed == MapScheme(sc, close_call_tails)
        used   == UNION {free_vars(t) : t \in ToSet(SchemeTypes(closed))}
    IN [closed EXCEPT !.vars = SelectSeq(@, LAMBDA v : v \in used)]

\* Both flavours print without the names of nominal types.
NoNames == [i \in {} |-> ""]
emit_one(sc) == format_scheme(PrettyContext(NoNames), declarable(sc))

(***************************************************************************)
(* TypeScript has no constraints: a quantified variable that properties    *)
(* are read from becomes an open record of them, the first read of a name  *)
(* deciding its type.                                                      *)
(***************************************************************************)
ReceiverFields(sc, v) ==
    LET reads == SelectSeq(sc.preds, LAMBDA p : as_has_prop(p) # None
                                                /\ as_has_prop(p)[1].recv = Var(v))
        read(i) == as_has_prop(reads[i])[1]
        names == {read(i).name : i \in DOMAIN reads}
    IN [n \in names |->
           pre(read(CHOOSE i \in DOMAIN reads :
                       read(i).name = n /\ \A j \in 1..(i - 1) : read(j).name # n).result)]

RECURSIVE ApplyRepeatedly(_, _, _)
ApplyRepeatedly(s, t, n) ==
    LET next == apply_subst(s, t)
    IN IF n = 0 \/ next = t THEN t ELSE ApplyRepeatedly(s, next, n - 1)
Rounds == 8

with_has_props_as_rows(sc) ==
    LET recvs == SelectSeq(Dedup(FlattenSeq([i \in DOMAIN sc.preds |->
                     IF as_has_prop(sc.preds[i]) # None /\ as_has_prop(sc.preds[i])[1].recv.k = "Var"
                     THEN <<as_has_prop(sc.preds[i])[1].recv.v>> ELSE <<>>])),
                     LAMBDA v : Contains(sc.vars, v))
        ids   == {v[2] : v \in ToSet(sc.vars) \cup free_vars(sc.ty)}
        first == 1 + (CHOOSE m \in ids \cup {0} : \A n \in ids \cup {0} : n <= m)
        tail(i) == Flex(first + i - 1)
        row(v) == Row(ReceiverFields(sc, v), Open(tail(Rank(recvs, v))))
        s     == Subst([v \in ToSet(recvs) |-> row(v)], [p \in {} |-> Pre])
    IN IF recvs = <<>> THEN sc
       ELSE QualScheme(sc.vars \o [i \in DOMAIN recvs |-> tail(i)], sc.pvars, <<>>,
                       ApplyRepeatedly(s, sc.ty, Rounds))

emit_one_ts(sc) == format_type_ts(PrettyContext(NoNames), with_has_props_as_rows(sc).ty)

=============================================================================
