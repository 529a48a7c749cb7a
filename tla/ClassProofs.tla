---------------------------- MODULE ClassProofs ----------------------------
(***************************************************************************)
(* The union-find table of InferStore implements ClassStore for any number *)
(* of variables, heads and nested speculations (ImplementsClasses): what a *)
(* sequence of cells means is a partition of the variables, and each step  *)
(* of inference is a lookup, a merge, an assignment, a rebinding, or the   *)
(* start or the end of an attempt.                                         *)
(*                                                                         *)
(* The argument: compression leaves the meaning of the cells alone         *)
(* (SameView), a unification writes at most one cell (Moves), and          *)
(* AgreementProofs!AgreeInv says that the class it writes was free.        *)
(***************************************************************************)
EXTENDS AgreementProofs

-----------------------------------------------------------------------------
(* What the cells mean.                                                    *)

(* Following the links ends where find does. *)
LEMMA RepresentativeIsRoot ==
    ASSUME NEW c, OkCells(c)
    PROVE  Representative(c) = [v \in Var |-> Root(c, v)]
<1> DEFINE Body(r) == [v \in Var |-> IF c[v].tag = "Link" THEN r[c[v].to] ELSE v]
           R == [v \in Var |-> Root(c, v)]
           rep == CHOOSE r : r = Body(r)
<1>0. \A v \in Var : \/ c[v].tag # "Link"
                     \/ c[v].tag = "Link" /\ c[v].to \in Var /\ c[v] = Link(c[v].to)
  BY CellCases DEF OkCells
<1>1. R = Body(R)
  <2>1. ASSUME NEW v \in Var
        PROVE  Root(c, v) = IF c[v].tag = "Link" THEN R[c[v].to] ELSE v
    BY <1>0, RootRules
  <2> QED BY <2>1
<1>2. Representative(c) = rep BY DEF Representative
<1>3. rep = Body(rep)
  <2> HIDE DEF Body, R
  <2> QED BY <1>1
<1> HIDE DEF rep
<1>4. \A v \in Var : rep[v] = IF c[v].tag = "Link" THEN rep[c[v].to] ELSE v
  BY <1>3
<1> DEFINE H == {v \in Var : rep[v] = Root(c, v)}
<1>5. H = Var
  <2>1. \A v \in Var : c[v].tag # "Link" => v \in H BY <1>4, RootRules
  <2>2. \A v \in Var, w \in H : c[v] = Link(w) => v \in H
    <3> SUFFICES ASSUME NEW v \in Var, NEW w \in H, c[v] = Link(w)
                 PROVE  rep[v] = Root(c, v)
      OBVIOUS
    <3>1. c[v].tag = "Link" /\ c[v].to = w BY DEF Link
    <3> QED BY <1>4, <3>1, RootRules
  <2>3. H \in SUBSET Var OBVIOUS
  <2> HIDE DEF H
  <2> QED BY <2>1, <2>2, <2>3, AlongLinks
<1>6. rep = [v \in Var |-> rep[v]] BY <1>3
<1>7. \A v \in Var : rep[v] = Root(c, v) BY <1>5
<1> QED BY <1>2, <1>6, <1>7

HeadAt(c, v) == IF c[v].tag = "Bound" THEN c[v].head ELSE None

LEMMA View ==
    ASSUME NEW c, OkCells(c)
    PROVE  ViewOf(c) = [rep  |-> [v \in Var |-> Root(c, v)],
                        type |-> [v \in Var |-> HeadAt(c, v)]]
BY RepresentativeIsRoot DEF ViewOf, HeadAt

LEMMA ViewParts ==
    ASSUME NEW c, OkCells(c), NEW v \in Var
    PROVE  ViewOf(c).rep[v] = Root(c, v) /\ ViewOf(c).type[v] = HeadAt(c, v)
BY View

(* Compression is invisible. *)
LEMMA SameView ==
    ASSUME NEW c, OkCells(c), NEW d, SameClasses(c, d)
    PROVE  ViewOf(d) = ViewOf(c)
<1>1. OkCells(d) BY DEF SameClasses
<1>2. \A v \in Var : Root(d, v) = Root(c, v) /\ HeadAt(d, v) = HeadAt(c, v)
  BY DEF SameClasses, HeadAt
<1> QED BY <1>1, <1>2, View

LEMMA RootInView ==
    ASSUME NEW c, OkCells(c), NEW a \in Var, c[a].tag # "Link"
    PROVE  /\ a \in Classes!Reps(ViewOf(c))
           /\ c[a] = Unbound => a \in Classes!Free(ViewOf(c))
<1>1. Root(c, a) = a BY RootRules
<1>2. c[a] = Unbound => HeadAt(c, a) = None BY DEF HeadAt, Unbound
<1> QED BY <1>1, <1>2, ViewParts DEF Classes!Reps, Classes!Free

(* A record with one field replaced. *)
LEMMA WithRep ==
    ASSUME NEW r, NEW t, NEW x
    PROVE  [[rep |-> r, type |-> t] EXCEPT !.rep = x] = [rep |-> x, type |-> t]
OBVIOUS

LEMMA WithType ==
    ASSUME NEW r, NEW t, NEW x
    PROVE  [[rep |-> r, type |-> t] EXCEPT !.type = x] = [rep |-> r, type |-> x]
OBVIOUS

(* Linking a free root merges two classes. *)
LEMMA JoinedView ==
    ASSUME NEW c, OkCells(c), NEW d, NEW a \in Var, NEW b, ClassJoined(c, d, a, b)
    PROVE  ViewOf(d) \in Classes!Merged(ViewOf(c))
<1>1. OkCells(d) /\ b \in Var /\ c[a] = Unbound /\ c[a].tag # "Link" /\ c[b].tag # "Link"
  BY DEF ClassJoined, Unbound
<1>2. a \in Classes!Free(ViewOf(c)) /\ b \in Classes!Reps(ViewOf(c))
  BY <1>1, RootInView
<1>3. \A v \in Var : HeadAt(d, v) = HeadAt(c, v)
  <2> SUFFICES ASSUME NEW v \in Var PROVE HeadAt(d, v) = HeadAt(c, v) OBVIOUS
  <2>1. v = a => d[v].tag = "Link" /\ c[v].tag = "Unbound"
    BY <1>1 DEF ClassJoined, Link, Unbound
  <2>2. v # a => d[v] = c[v] BY DEF ClassJoined
  <2> QED BY <2>1, <2>2 DEF HeadAt
<1> DEFINE R == ViewOf(c).rep
           M == [v \in Var |-> IF R[v] = a THEN b ELSE R[v]]
<1>4. \A v \in Var : Root(d, v) = IF R[v] = a THEN b ELSE R[v]
  BY ViewParts DEF ClassJoined
<1>5. ViewOf(d) = [rep |-> M, type |-> [v \in Var |-> HeadAt(c, v)]]
  <2> HIDE DEF R
  <2> QED BY <1>1, <1>3, <1>4, View
<1>6. [ViewOf(c) EXCEPT !.rep = M] = ViewOf(d)
  <2> HIDE DEF M
  <2> QED BY <1>5, View, WithRep
<1> QED BY <1>2, <1>6 DEF Classes!Merged

(* Binding one gives its class a type. *)
LEMMA GivenView ==
    ASSUME NEW c, OkCells(c), NEW d, NEW a \in Var, NEW h, HeadGiven(c, d, a, h)
    PROVE  ViewOf(d) \in Classes!Assigned(ViewOf(c))
<1>1. OkCells(d) /\ h \in Heads /\ c[a] = Unbound /\ c[a].tag # "Link"
  BY DEF HeadGiven, Unbound
<1>2. a \in Classes!Free(ViewOf(c)) BY <1>1, RootInView
<1> DEFINE T == ViewOf(c).type
           U == [T EXCEPT ![a] = h]
<1>3. T = [v \in Var |-> HeadAt(c, v)] BY View
<1>4. U = [v \in Var |-> HeadAt(d, v)]
  <2>1. \A v \in Var : HeadAt(d, v) = IF v = a THEN h ELSE HeadAt(c, v)
    BY DEF HeadGiven, HeadAt, Bound
  <2> HIDE DEF T
  <2> QED BY <1>3, <2>1
<1>5. \A v \in Var : Root(d, v) = Root(c, v) BY DEF HeadGiven
<1>6. [ViewOf(c) EXCEPT !.type[a] = h] = ViewOf(d)
  <2>1. [ViewOf(c) EXCEPT !.type = U] = ViewOf(d)
    <3> HIDE DEF U
    <3> QED BY <1>1, <1>4, <1>5, View, WithType
  <2> QED BY <2>1
<1> QED BY <1>1, <1>2, <1>6 DEF Classes!Assigned

-----------------------------------------------------------------------------
(* What a unification does to the classes.                                 *)

(* Nothing, or a free class gets a head; *)
Given(c, d) == ViewOf(d) \in {ViewOf(c)} \cup Classes!Assigned(ViewOf(c))

(* or it becomes part of another. *)
Moves(c, d) == Given(c, d) \/ ViewOf(d) \in Classes!Merged(ViewOf(c))

LEMMA ExtendFreshMoves ==
    ASSUME NEW st \in Stores, Good(st.tab.cells, st.sub.map), NEW v, NEW ty,
           NEW u, Binds(st, u, v, ty)
    PROVE  /\ Moves(st.tab.cells, u.tab.cells)
           /\ ty.tag = "Head" => Given(st.tab.cells, u.tab.cells)
<1> DEFINE c == st.tab.cells
           d == MirrorExtend(st.tab, v, ty).cells
<1>1. /\ st.tab \in Tables /\ OkCells(c) /\ v \in Var /\ ty \in Type /\ c[v] = Unbound
      /\ ty.tag = "Var" => Root(c, ty.id) # v
  BY DEF Stores, Good, Binds
<1>2. u.tab.cells = d BY DEF Binds, ExtendFresh, Stores
<1>3. PICK f : /\ SameClasses(c, f)
               /\ \/ ty.tag = "Head" /\ HeadGiven(f, d, v, ty.head)
                  \/ ty.tag = "Var" /\ ClassJoined(f, d, v, Root(f, ty.id))
  BY <1>1, MirrorWrites
<1> HIDE DEF c, d
<1>4. OkCells(f) /\ ViewOf(f) = ViewOf(c) BY <1>1, <1>3, SameView DEF SameClasses
<1>5. CASE ty.tag = "Head"
  <2>1. ViewOf(d) \in Classes!Assigned(ViewOf(c)) BY <1>1, <1>3, <1>4, <1>5, GivenView
  <2> QED BY <1>2, <2>1 DEF Moves, Given, c
<1>6. CASE ty.tag = "Var"
  <2>1. ViewOf(d) \in Classes!Merged(ViewOf(c)) BY <1>1, <1>3, <1>4, <1>6, JoinedView
  <2> QED BY <1>2, <1>6, <2>1 DEF Moves, c
<1> QED BY <1>1, <1>5, <1>6, TypeCases

LEMMA UnifyMoves ==
    ASSUME NEW st \in Stores, Good(st.tab.cells, st.sub.map),
           NEW t1 \in Type, NEW t2 \in Type
    PROVE  /\ Moves(st.tab.cells, Unify(st, t1, t2).tab.cells)
           /\ t2.tag = "Head" => Given(st.tab.cells, Unify(st, t1, t2).tab.cells)
<1> DEFINE u == Unify(st, t1, t2)
<1>1. PICK s1 \in Stores :
         /\ SameClasses(st.tab.cells, s1.tab.cells) /\ s1.sub = st.sub
         /\ \/ u.tab = s1.tab
            \/ \E v, ty : Binds(s1, u, v, ty) /\ (t2.tag = "Head" => ty.tag = "Head")
  BY UnifyWrites
<1>2. Good(s1.tab.cells, s1.sub.map) /\ ViewOf(s1.tab.cells) = ViewOf(st.tab.cells)
  <2>1. OkCells(st.tab.cells) BY DEF Good
  <2> QED BY <1>1, <2>1, FindGood, SameView
<1> HIDE DEF u
<1>3. CASE u.tab = s1.tab BY <1>2, <1>3 DEF Moves, Given, u
<1>4. ASSUME NEW v, NEW ty, Binds(s1, u, v, ty), t2.tag = "Head" => ty.tag = "Head"
      PROVE  /\ Moves(st.tab.cells, u.tab.cells)
             /\ t2.tag = "Head" => Given(st.tab.cells, u.tab.cells)
  BY <1>2, <1>4, ExtendFreshMoves DEF Moves, Given
<1> QED BY <1>1, <1>3, <1>4 DEF u

LEMMA ExtendSubstMoves ==
    ASSUME NEW st \in Stores, Good(st.tab.cells, st.sub.map), NEW v \in Var,
           NEW ty \in Type,
           st.sub.map[v] = None /\ ty.tag = "Var" => Root(st.tab.cells, ty.id) # v
    PROVE  /\ Moves(st.tab.cells, ExtendSubst(st, v, ty).tab.cells)
           /\ ty.tag = "Head" => Given(st.tab.cells, ExtendSubst(st, v, ty).tab.cells)
<1> DEFINE s1 == [st EXCEPT !.sub = Resolve(st.sub, v)]
           e == Resolved(st.sub.map, v)
<1>1. /\ s1 \in Stores /\ s1.tab = st.tab /\ Good(s1.tab.cells, s1.sub.map)
      /\ e \in Type \cup {None}
      /\ e = None => Binds(s1, ExtendFresh(s1, v, ty), v, ty)
  BY ExtendSubstReady
<1>2. ExtendSubst(st, v, ty) = IF e = None THEN ExtendFresh(s1, v, ty) ELSE Unify(s1, e, ty)
  BY DEF ExtendSubst
<1> HIDE DEF s1, e
<1>3. CASE e = None BY <1>1, <1>2, <1>3, ExtendFreshMoves
<1>4. CASE e # None BY <1>1, <1>2, <1>4, UnifyMoves
<1> QED BY <1>3, <1>4

LEMMA UnifyTailsMoves ==
    ASSUME NEW st \in Stores, Good(st.tab.cells, st.sub.map),
           NEW v \in Var, NEW w \in Var
    PROVE  Moves(st.tab.cells, UnifyTails(st, v, w).tab.cells)
<1> DEFINE s1 == [st EXCEPT !.sub = Resolve(Resolve(st.sub, v), w)]
           a == TailRoot(s1.sub.map, v)
           b == TailRoot(s1.sub.map, w)
<1>1. /\ s1 \in Stores /\ s1.tab = st.tab /\ Good(s1.tab.cells, s1.sub.map)
      /\ a \in Var /\ b \in Var /\ VarT(b) \in Type
      /\ a # b => (s1.sub.map[a] = None => Root(s1.tab.cells, b) # a)
  BY UnifyTailsReady
<1>2. UnifyTails(st, v, w) = IF a = b THEN s1 ELSE ExtendSubst(s1, a, VarT(b))
  BY DEF UnifyTails
<1> HIDE DEF s1, a, b
<1>3. CASE a = b BY <1>1, <1>2, <1>3 DEF Moves, Given
<1>4. CASE a # b BY <1>1, <1>2, <1>4, ExtendSubstMoves, Tags
<1> QED BY <1>3, <1>4

(* rebind_var: the class has had its row since before the member was       *)
(* typed, and in between only the row's tail has got a head.               *)
LEMMA ReboundView ==
    ASSUME NEW c, OkCells(c), NEW f, OkCells(f), Given(c, f), NEW v \in Var,
           ZonkHead(c, VarT(v)) = HeadT(ArrayLikeRow)
    PROVE  ViewOf([f EXCEPT ![Root(f, v)] = Bound(ArrayOf)]) \in Classes!Rebound(ViewOf(c))
<1> DEFINE a == Root(f, v)
           d == [f EXCEPT ![a] = Bound(ArrayOf)]
           w == ViewOf(c)
           x == ViewOf(f)
<1>1. Root(c, v) = a
  <2>1. x.rep = w.rep
    <3>1. CASE x = w BY <3>1
    <3>2. CASE x \in Classes!Assigned(w) BY <3>2, View DEF Classes!Assigned
    <3> QED BY <3>1, <3>2 DEF Given
  <2> QED BY <2>1, ViewParts
<1>2. a \in Var /\ f[a].tag # "Link" /\ c[a].tag # "Link" BY <1>1, RootRules
<1> HIDE DEF a
<1>3. a \in Classes!Reps(w) BY <1>2, RootInView
<1>4. w.type[a] = ArrayLikeRow
  <2>1. c[a].tag = "Bound" /\ c[a].head = ArrayLikeRow
    BY <1>1, ZonkVar, Tags
  <2> QED BY <1>2, <2>1, ViewParts DEF HeadAt
<1>5. OkCells(d) /\ \A y \in Var : Root(d, y) = Root(f, y)
  <2>1. ArrayOf \in Heads BY StoreAssumption
  <2> QED BY <1>2, <2>1, BindCells
<1>6. \A y \in Var : d[y] = IF y = a THEN Bound(ArrayOf) ELSE f[y]
  BY <1>2 DEF OkCells
<1> HIDE DEF d
<1>7. [x EXCEPT !.type[a] = ArrayOf] = ViewOf(d)
  <2> DEFINE T == x.type
             U == [T EXCEPT ![a] = ArrayOf]
  <2>1. T = [y \in Var |-> HeadAt(f, y)] BY View
  <2>2. U = [y \in Var |-> HeadAt(d, y)]
    <3>1. \A y \in Var : HeadAt(d, y) = IF y = a THEN ArrayOf ELSE HeadAt(f, y)
      BY <1>6 DEF HeadAt, Bound
    <3> HIDE DEF T
    <3> QED BY <2>1, <3>1
  <2>3. [x EXCEPT !.type = U] = ViewOf(d)
    <3> HIDE DEF U
    <3> QED BY <1>5, <2>2, View, WithType
  <2> QED BY <2>3
<1>8. x \in Classes!Assigned(w) \cup {w} BY DEF Given
<1> HIDE DEF x, w
<1>9. ViewOf(d) \in {[y EXCEPT !.type[a] = ArrayOf] : y \in Classes!Assigned(w) \cup {w}}
  BY <1>7, <1>8
<1>10. a \in {y \in Classes!Reps(w) : w.type[y] = ArrayLikeRow} BY <1>3, <1>4
<1>11. ViewOf(d) \in Classes!Rebound(w) BY <1>9, <1>10 DEF Classes!Rebound
<1> QED BY <1>11 DEF d, a, w

-----------------------------------------------------------------------------
(* Steps of inference.                                                     *)

(* The views that the snapshots' copies hold. *)
Views(copies) == [k \in DOMAIN copies |-> ViewOf(copies[k].cells)]

LEMMA MappedSaved ==
    [k \in DOMAIN snaps |-> ViewOf(At(snaps[k]).cells)] = Views(Saved)
BY DEF Saved, Views

LEMMA ViewsSeq ==
    ASSUME NEW T, NEW q \in Seq(T)
    PROVE  /\ Views(q) \in Seq({ViewOf(x.cells) : x \in T}) /\ Len(Views(q)) = Len(q)
           /\ \A k \in 1 .. Len(q) : Views(q)[k] = ViewOf(q[k].cells)
<1>1. DOMAIN q = 1 .. Len(q) /\ Len(q) \in Nat /\ \A k \in 1 .. Len(q) : q[k] \in T
  OBVIOUS
<1> DEFINE V == {ViewOf(x.cells) : x \in T}
<1>2. Views(q) = [k \in 1 .. Len(q) |-> ViewOf(q[k].cells)] BY <1>1 DEF Views
<1>3. \A k \in 1 .. Len(q) : ViewOf(q[k].cells) \in V BY <1>1
<1> HIDE DEF V
<1>4. Views(q) \in [1 .. Len(q) -> V] BY <1>2, <1>3
<1>5. Views(q) \in Seq(V) /\ Len(Views(q)) = Len(q) BY <1>1, <1>4
<1> QED BY <1>2, <1>5 DEF V

LEMMA ViewsAppend ==
    ASSUME NEW T, NEW q \in Seq(T), NEW x
    PROVE  Views(Append(q, x)) = Append(Views(q), ViewOf(x.cells))
<1> DEFINE U == T \cup {x}
           n == Len(q) + 1
           z == ViewOf(x.cells)
<1>1. q \in Seq(U) /\ x \in U /\ Append(q, x) \in Seq(U) /\ Len(q) \in Nat OBVIOUS
<1>2. /\ Len(Append(q, x)) = n /\ \A k \in 1 .. Len(q) : Append(q, x)[k] = q[k]
      /\ Append(q, x)[n] = x
  BY <1>1
<1>3. DOMAIN Append(q, x) = 1 .. n BY <1>1, <1>2
<1>4. /\ Len(Views(q)) = Len(q)
      /\ \A k \in 1 .. Len(q) : Views(q)[k] = ViewOf(q[k].cells)
  BY ViewsSeq
<1>5. Views(Append(q, x)) = [k \in 1 .. n |-> ViewOf(Append(q, x)[k].cells)]
  BY <1>3 DEF Views
<1>6. \A k \in 1 .. n : k = n \/ k \in 1 .. Len(q) BY <1>1
<1>7. Views(Append(q, x)) = [k \in 1 .. n |-> IF k = n THEN z ELSE Views(q)[k]]
  BY <1>2, <1>4, <1>5, <1>6
<1> DEFINE V == {ViewOf(y.cells) : y \in U}
<1>8. z \in V BY <1>1
<1>9. Views(q) \in Seq(V)
  <2> HIDE DEF U
  <2> QED BY <1>1, ViewsSeq
<1>10. Views(Append(q, x)) =
           [k \in 1 .. (Len(Views(q)) + 1) |-> IF k = Len(Views(q)) + 1 THEN z ELSE Views(q)[k]]
  BY <1>4, <1>7
<1>11. Append(Views(q), z) =
           [k \in 1 .. (Len(Views(q)) + 1) |-> IF k = Len(Views(q)) + 1 THEN z ELSE Views(q)[k]]
  <2> HIDE DEF z, V
  <2> QED BY <1>8, <1>9, AppendForm
<1> QED BY <1>10, <1>11

LEMMA ViewsOuter ==
    ASSUME NEW T, NEW q \in Seq(T), q # <<>>
    PROVE  /\ Views(SubSeq(q, 1, Len(q) - 1)) = SubSeq(Views(q), 1, Len(Views(q)) - 1)
           /\ Views(q) # <<>> /\ Views(q)[Len(Views(q))] = ViewOf(q[Len(q)].cells)
<1> DEFINE n == Len(q) - 1
           o == SubSeq(q, 1, n)
<1>1. Len(q) \in Nat /\ Len(q) > 0 /\ n \in Nat OBVIOUS
<1>2. DOMAIN o = 1 .. n /\ \A k \in 1 .. n : o[k] = q[k]
  <2>1. o = [k \in 1 .. n |-> q[k]] BY <1>1
  <2> HIDE DEF o
  <2> QED BY <2>1
<1>3. /\ Len(Views(q)) = Len(q)
      /\ \A k \in 1 .. Len(q) : Views(q)[k] = ViewOf(q[k].cells)
  BY ViewsSeq
<1>4. PICK V : Views(q) \in Seq(V) BY ViewsSeq
<1>5. Views(o) = [k \in 1 .. n |-> ViewOf(o[k].cells)] BY <1>2 DEF Views
<1>6. Views(o) = [k \in 1 .. n |-> Views(q)[k]]
  <2>1. \A k \in 1 .. n : k \in 1 .. Len(q) BY <1>1
  <2>2. \A k \in 1 .. n : ViewOf(o[k].cells) = Views(q)[k] BY <1>2, <1>3, <2>1
  <2> HIDE DEF o
  <2> QED BY <1>5, <2>2
<1>7. SubSeq(Views(q), 1, n) = [k \in 1 .. n |-> Views(q)[k]] BY <1>1, <1>3, <1>4
<1> QED BY <1>1, <1>3, <1>4, <1>6, <1>7

LEMMA WorkMoves ==
    ASSUME TypeOK, Good(cells, subst), [Next]_vars, ~RestoreSnapshot
    PROVE  \/ Moves(cells, cells')
           \/ snaps = <<>> /\ ViewOf(cells') \in Classes!Rebound(ViewOf(cells))
<1>0. /\ Store \in Stores /\ Allocated \subseteq Var /\ Known \subseteq Type
      /\ Store.tab.cells = cells /\ Store.sub.map = subst /\ OkCells(cells)
  <2>1. Store \in Stores BY StoreType
  <2>2. Allocated \subseteq Var /\ Known \subseteq Type
    BY StoreAssumption DEF TypeOK, Allocated, Var, Known, Type
  <2>3. Store.tab.cells = cells /\ Store.sub.map = subst BY DEF Store
  <2>4. OkCells(cells) BY DEF Good
  <2> QED BY <2>1, <2>2, <2>3, <2>4
<1>1. ASSUME NEW t1 \in Known, NEW t2 \in Known, DoUnify(t1, t2)
      PROVE  Moves(cells, cells')
  <2>1. cells' = Unify(Store, t1, t2).tab.cells BY <1>1 DEF DoUnify, Become
  <2> QED BY <1>0, <2>1, UnifyMoves
<1>2. ASSUME NEW v \in Allocated, NEW h \in RowHeads, BindTail(v, h)
      PROVE  Moves(cells, cells')
  <2>1. HeadT(h) \in Type /\ v \in Var BY <1>0, StoreAssumption DEF Type
  <2>2. cells' = ExtendSubst(Store, v, HeadT(h)).tab.cells BY <1>2 DEF BindTail, Become
  <2> QED BY <1>0, <2>1, <2>2, ExtendSubstMoves, Tags
<1>3. ASSUME NEW v \in Allocated, NEW w \in Allocated, DoUnifyTails(v, w)
      PROVE  Moves(cells, cells')
  <2>1. cells' = UnifyTails(Store, v, w).tab.cells BY <1>3 DEF DoUnifyTails, Become
  <2> QED BY <1>0, <2>1, UnifyTailsMoves
<1>4. ASSUME NEW p1 \in Presence, NEW p2 \in Presence, DoUnifyPresence(p1, p2)
      PROVE  Moves(cells, cells')
  <2>1. UnifyPresence(Store, p1, p2).tab = Store.tab BY <1>0 DEF UnifyPresence, Stores
  <2>2. cells' = cells BY <1>0, <1>4, <2>1 DEF DoUnifyPresence, Become
  <2> QED BY <2>2 DEF Moves, Given
<1>5. ASSUME NEW v \in Allocated, ReadHead(v) PROVE Moves(cells, cells')
  <2>1. cells' = Find(Store.tab, v).cells BY <1>0, <1>5 DEF ReadHead, Become, Stores
  <2>2. SameClasses(cells, cells') BY <1>0, <2>1, FindCells DEF Stores
  <2>3. ViewOf(cells') = ViewOf(cells) BY <1>0, <2>2, SameView
  <2> QED BY <2>3 DEF Moves, Given
<1>6. ASSUME NEW v \in Allocated, NEW w \in Allocated, ComputedMember(v, w)
      PROVE  snaps = <<>> /\ ViewOf(cells') \in Classes!Rebound(ViewOf(cells))
  <2>1. PICK s, f :
           /\ s = ArrayUse(Store, w) /\ Kept(Store, s)
           /\ SameClasses(s.tab.cells, f)
           /\ cells' = [f EXCEPT ![Root(f, v)] = Bound(ArrayOf)]
    BY <1>0, <1>6, ComputedMemberWrites
  <2>2. HeadT(ClosedRow) \in Type /\ v \in Var /\ w \in Var
    BY <1>0, StoreAssumption DEF Type
  <2>3. Given(cells, s.tab.cells)
    BY <1>0, <2>1, <2>2, ExtendSubstMoves, Tags DEF ArrayUse
  <2>4. OkCells(s.tab.cells) /\ OkCells(f) BY <2>1 DEF Kept, Good, SameClasses
  <2>5. Given(cells, f) BY <2>1, <2>3, <2>4, SameView DEF Given
  <2>6. ZonkHead(cells, VarT(v)) = HeadT(ArrayLikeRow) /\ snaps = <<>>
    BY <1>6 DEF ComputedMember
  <2> QED BY <1>0, <2>1, <2>2, <2>4, <2>5, <2>6, ReboundView
<1>7. ASSUME \/ FreshFlex \/ TakeSnapshot \/ KeepAttempt \/ UNCHANGED vars
             \/ \E c \in Preds : AddConstraint(c)
             \/ \E i \in DOMAIN pending : RemoveConstraint(i)
      PROVE  Moves(cells, cells')
  <2>1. cells' = cells
    BY <1>7 DEF FreshFlex, TakeSnapshot, KeepAttempt, AddConstraint, RemoveConstraint,
                vars, table
  <2> QED BY <2>1 DEF Moves, Given
<1> QED BY <1>1, <1>2, <1>3, <1>4, <1>5, <1>6, <1>7 DEF Next

(***************************************************************************)
(* The union-find table (VarTable) implements a partition into classes     *)
(* with at most one type each: lookups are invisible, only a free class is *)
(* merged into another or given a type, only rebind_var replaces one, and  *)
(* an abandoned attempt leaves the partition as it found it.               *)
(***************************************************************************)
THEOREM TableIsPartition == Spec => ImplementsClasses
<1>1. Init => Classes!Init
  <2> SUFFICES ASSUME Init PROVE Classes!Init OBVIOUS
  <2>1. cells = [v \in Var |-> Unbound] /\ snaps = <<>> BY DEF Init
  <2>2. OkCells(cells) BY <2>1, FreshGood DEF Good
  <2>3. \A v \in Var : Root(cells, v) = v /\ HeadAt(cells, v) = None
    BY <2>1, <2>2, RootRules DEF HeadAt, Unbound
  <2>4. ViewOf(cells) = [rep |-> [v \in Var |-> v], type |-> [v \in Var |-> None]]
    BY <2>2, <2>3, View
  <2> QED BY <2>1, <2>4 DEF Classes!Init
<1>2. AgreeInv /\ [Next]_vars => [Classes!Next]_(Classes!vars)
  <2> SUFFICES ASSUME AgreeInv, [Next]_vars PROVE Classes!Next BY DEF Classes!vars
  <2> DEFINE w == ViewOf(cells)
             q == Views(Saved)
  <2>1. TypeOK /\ Good(cells, subst) BY AgreeNow DEF AgreeInv
  <2>2. PICK T : Saved \in Seq(T)
    <3> DEFINE T == {At(snaps[k]) : k \in DOMAIN snaps}
    <3>1. Saved \in Seq(T) BY <2>1, SavedSeq
    <3> HIDE DEF T
    <3> QED BY <3>1
  <2>3. \/ Moves(cells, cells')
        \/ Saved = <<>> /\ ViewOf(cells') \in Classes!Rebound(w)
        \/ RestoreSnapshot
    <3>1. snaps = <<>> => Saved = <<>> BY DEF Saved
    <3> QED BY <2>1, <3>1, WorkMoves
  <2>4. Saved = <<>> => q = <<>> BY DEF Views
  <2>5. Current.cells = cells /\ Current'.cells = cells' BY DEF Current
  <2>6. [k \in DOMAIN snaps |-> ViewOf(At(snaps[k]).cells)] = q BY MappedSaved
  <2>7. ([k \in DOMAIN snaps |-> ViewOf(At(snaps[k]).cells)])' = Views(Saved')
    BY DEF Saved, Views
  <2> DEFINE outer == SubSeq(q, 1, Len(q) - 1)
  <2>8. ASSUME Saved # <<>>, Saved' = SubSeq(Saved, 1, Len(Saved) - 1)
        PROVE  /\ Views(Saved') = outer /\ q # <<>>
               /\ q[Len(q)] = ViewOf(Saved[Len(Saved)].cells)
    BY <2>2, <2>8, ViewsOuter
  <2>9. ASSUME Current' = Saved[Len(Saved)], Saved # <<>>,
               Saved' = SubSeq(Saved, 1, Len(Saved) - 1)
        PROVE  Classes!Next
    <3>1. ViewOf(cells') = q[Len(q)] BY <2>5, <2>8, <2>9
    <3> HIDE DEF q, w
    <3> QED BY <2>6, <2>7, <2>8, <2>9, <3>1 DEF Classes!Next, Classes!Abandon, Classes!Outer
  <2>10. CASE RestoreSnapshot BY <2>1, <2>9, <2>10, RestoreStep
  <2>11. CASE ~RestoreSnapshot /\ Saved' = Saved
    <3>1. Views(Saved') = q BY <2>11
    <3>2. CASE ViewOf(cells') = w
      <4> HIDE DEF q
      <4> QED BY <2>6, <2>7, <3>1, <3>2 DEF Classes!Next, Classes!Read, Classes!vars
    <3>3. CASE \/ ViewOf(cells') \in Classes!Merged(w) \cup Classes!Assigned(w)
               \/ q = <<>> /\ ViewOf(cells') \in Classes!Rebound(w)
      <4> HIDE DEF q
      <4> QED BY <2>6, <2>7, <3>1, <3>3 DEF Classes!Next, Classes!Write
    <3> QED BY <2>3, <2>4, <2>11, <3>2, <3>3 DEF Moves, Given
  <2>12. CASE Current' = Current /\ Saved' = Append(Saved, Current)
    <3>1. ViewOf(cells') = w BY <2>5, <2>12
    <3>2. Views(Saved') = Append(q, w) BY <2>2, <2>5, <2>12, ViewsAppend
    <3> HIDE DEF q
    <3> QED BY <2>6, <2>7, <3>1, <3>2 DEF Classes!Next, Classes!Begin
  <2>13. CASE /\ Saved # <<>> /\ Saved' = SubSeq(Saved, 1, Len(Saved) - 1)
              /\ Current' = Current
    <3>1. ViewOf(cells') = w BY <2>5, <2>13
    <3> HIDE DEF q
    <3> QED BY <2>6, <2>7, <2>8, <2>13, <3>1 DEF Classes!Next, Classes!Keep, Classes!Outer
  <2> QED BY <2>1, <2>9, <2>10, <2>11, <2>12, <2>13, NextStep
<1> QED BY <1>1, <1>2, AgreeAlways, PTL DEF Spec, ImplementsClasses, Classes!Spec
=============================================================================
