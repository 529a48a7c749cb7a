-------------------------- MODULE InferStoreProofs --------------------------
(***************************************************************************)
(* For any number of variables, heads, presences, constraints and nested   *)
(* speculations, the store of InferStore                                   *)
(*   - keeps its types (TypeCorrect), and                                  *)
(*   - implements a store whose snapshots are copies (RollbackIsExact).    *)
(*                                                                         *)
(* The argument: each write of each table is Logged, i.e. it leaves what   *)
(* undoing to any earlier mark gives unchanged (TrailProofs!LoggedBatch).  *)
(* Being logged is transitive, so it carries over to find, resolve,        *)
(* mirror_extend, unify and whatever else is put together from writes; and *)
(* a snapshot's copy is what undoing to its marks gives.                   *)
(***************************************************************************)
EXTENDS InferStore, TrailProofs

Tables == [cells : [Var -> Resolution], trail : Seq(CellLines)]

Maps == {m \in [Key -> Type \cup Presence \cup {None}] : \A x \in Key : m[x] \in EntryOf(x)}

Substs == [map : Maps, trail : Seq(SubstLines)]

Stores == [tab : Tables, sub : Substs, ok : SUBSET BOOLEAN]

(* Table u comes from table t by logged writes.                            *)
LoggedTab(t, u) ==
    /\ u \in Tables
    /\ Len(t.trail) <= Len(u.trail)
    /\ \A m \in 0 .. Len(t.trail) :
         UndoTo(u.cells, u.trail, m) = UndoTo(t.cells, t.trail, m)

(* The same for the substitution. *)
LoggedSub(s, u) ==
    /\ u \in Substs
    /\ Len(s.trail) <= Len(u.trail)
    /\ \A m \in 0 .. Len(s.trail) :
         UndoTo(u.map, u.trail, m) = UndoTo(s.map, s.trail, m)

LoggedStore(s, u) ==
    /\ u \in Stores
    /\ LoggedTab(s.tab, u.tab)
    /\ LoggedSub(s.sub, u.sub)

-----------------------------------------------------------------------------
(* Being logged is reflexive and transitive.                               *)

LEMMA TabRefl ==
    ASSUME NEW t \in Tables PROVE LoggedTab(t, t)
BY DEF LoggedTab, Tables

LEMMA TabTrans ==
    ASSUME NEW t \in Tables, NEW u, NEW w, LoggedTab(t, u), LoggedTab(u, w)
    PROVE  LoggedTab(t, w)
BY DEF LoggedTab, Tables

LEMMA SubRefl ==
    ASSUME NEW s \in Substs PROVE LoggedSub(s, s)
BY DEF LoggedSub, Substs

LEMMA SubTrans ==
    ASSUME NEW s \in Substs, NEW u, NEW w, LoggedSub(s, u), LoggedSub(u, w)
    PROVE  LoggedSub(s, w)
<1>1. Len(s.trail) \in Nat /\ Len(u.trail) \in Nat /\ Len(w.trail) \in Nat
    BY DEF LoggedSub, Substs
<1> QED BY <1>1 DEF LoggedSub

LEMMA StoreRefl ==
    ASSUME NEW s \in Stores PROVE LoggedStore(s, s)
BY TabRefl, SubRefl DEF LoggedStore, Stores

LEMMA StoreTrans ==
    ASSUME NEW s \in Stores, NEW u, NEW w, LoggedStore(s, u), LoggedStore(u, w)
    PROVE  LoggedStore(s, w)
BY TabTrans, SubTrans DEF LoggedStore, Stores

-----------------------------------------------------------------------------
(* The union-find table.                                                   *)

(* find's path is a sequence of variables, never empty. *)
LEMMA PathType ==
    ASSUME NEW c, NEW id \in Var
    PROVE  Path(c, id) \in Seq(Var) /\ Len(Path(c, id)) > 0
<1>1. CASE IsPath(c, id, Chase(c, id))
    BY <1>1 DEF Path, IsPath
<1>2. CASE ~IsPath(c, id, Chase(c, id))
    <2>1. Path(c, id) = <<id>>
        BY <1>2 DEF Path
    <2> QED BY <2>1
<1> QED BY <1>1, <1>2

LEMMA RootType ==
    ASSUME NEW c, NEW id \in Var
    PROVE  Root(c, id) \in Var
BY PathType DEF Root

(* Writing several cells with one value, each logged, is logged. *)
LEMMA WriteAllLogged ==
    ASSUME NEW t \in Tables, NEW ks \in Seq(Var), NEW r \in Resolution
    PROVE  LoggedTab(t, [cells |-> WriteAll(t.cells, ks, r),
                         trail |-> LogAll(t.cells, t.trail, ks)])
<1> DEFINE g   == WriteAll(t.cells, ks, r)
           ext == [k \in DOMAIN ks |-> Logged(t.cells, ks[k])]
<1>1. t.cells \in [Var -> Resolution] /\ t.trail \in Seq(CellLines)
    BY DEF Tables
<1>2. g \in [Var -> Resolution]
    BY <1>1 DEF WriteAll
<1>3. ext \in Seq(CellLines) /\ Len(ext) = Len(ks)
    <2>1. \A k \in 1 .. Len(ks) : Logged(t.cells, ks[k]) \in CellLines
        BY <1>1 DEF Logged, CellLines
    <2> QED BY <2>1
<1>4. \A k \in 1 .. Len(ext) : ext[k].key = ks[k] /\ ext[k].prev = t.cells[ext[k].key]
    BY <1>3 DEF Logged
<1>5. \A x \in Var : (\A k \in 1 .. Len(ext) : ext[k].key # x) => g[x] = t.cells[x]
    <2>1. DOMAIN ks = 1 .. Len(ext) /\ DOMAIN t.cells = Var
        BY <1>1, <1>3
    <2>2. \A x \in Var : (\A k \in DOMAIN ks : ks[k] # x) => g[x] = t.cells[x]
        BY <2>1 DEF WriteAll
    <2> HIDE DEF g, ext
    <2> QED BY <2>1, <2>2, <1>4
<1>6. LogAll(t.cells, t.trail, ks) = t.trail \o ext
    BY DEF LogAll
<1> HIDE DEF g, ext
<1>7. \A m \in 0 .. Len(t.trail) :
         UndoTo(g, t.trail \o ext, m) = UndoTo(t.cells, t.trail, m)
    <2>1. IsBatch(t.cells, g, ext)
        BY <1>1, <1>2, <1>4, <1>5 DEF IsBatch
    <2> QED BY <2>1, <1>1, <1>3, LoggedBatch
<1>8. t.trail \o ext \in Seq(CellLines) /\ Len(t.trail) <= Len(t.trail \o ext)
    BY <1>1, <1>3
<1> QED BY <1>2, <1>6, <1>7, <1>8 DEF LoggedTab, Tables, g

LEMMA WriteCellLogged ==
    ASSUME NEW t \in Tables, NEW id \in Var, NEW r \in Resolution
    PROVE  LoggedTab(t, WriteCell(t, id, r))
<1> DEFINE g   == [t.cells EXCEPT ![id] = r]
           ext == <<Logged(t.cells, id)>>
<1>1. t.cells \in [Var -> Resolution] /\ t.trail \in Seq(CellLines)
    BY DEF Tables
<1>2. g \in [Var -> Resolution]
    BY <1>1
<1>3. ext \in Seq(CellLines) /\ Len(ext) = 1 /\ ext[1].key = id
    BY <1>1 DEF Logged, CellLines
<1>4. \A k \in 1 .. Len(ext) : ext[k].prev = t.cells[ext[k].key]
    BY <1>3 DEF Logged
<1>5. \A x \in Var : (\A k \in 1 .. Len(ext) : ext[k].key # x) => g[x] = t.cells[x]
    BY <1>1, <1>3
<1>6. Append(t.trail, Logged(t.cells, id)) = t.trail \o ext
    BY <1>1, <1>3 DEF Logged, CellLines
<1> HIDE DEF g, ext
<1>7. \A m \in 0 .. Len(t.trail) :
         UndoTo(g, t.trail \o ext, m) = UndoTo(t.cells, t.trail, m)
    <2>1. IsBatch(t.cells, g, ext)
        BY <1>1, <1>2, <1>4, <1>5 DEF IsBatch
    <2> QED BY <2>1, <1>1, <1>3, LoggedBatch
<1>8. t.trail \o ext \in Seq(CellLines) /\ Len(t.trail) <= Len(t.trail \o ext)
    BY <1>1, <1>3
<1> QED BY <1>2, <1>6, <1>7, <1>8 DEF LoggedTab, Tables, WriteCell, g

LEMMA FindLogged ==
    ASSUME NEW t \in Tables, NEW id \in Var
    PROVE  LoggedTab(t, Find(t, id))
<1> DEFINE p == Path(t.cells, id)
<1>1. p \in Seq(Var) /\ Len(p) > 0
    BY PathType
<1>2. p[Len(p)] \in Var
    BY <1>1
<1>3. Stale(p) \in Seq(Var)
    BY <1>1 DEF Stale
<1>4. Link(p[Len(p)]) \in Resolution
    BY <1>2 DEF Resolution
<1> HIDE DEF p
<1> QED BY <1>3, <1>4, WriteAllLogged DEF Find, p

LEMMA LinkToRootLogged ==
    ASSUME NEW t \in Tables, NEW a \in Var, NEW b \in Var
    PROVE  LoggedTab(t, LinkToRoot(t, a, b))
<1>1. Link(b) \in Resolution
    BY DEF Resolution
<1> QED BY <1>1, WriteCellLogged, TabRefl DEF LinkToRoot

LEMMA BindLogged ==
    ASSUME NEW t \in Tables, NEW a \in Var, NEW h \in Heads
    PROVE  LoggedTab(t, BindShared(t, a, h)) /\ LoggedTab(t, ForceBindRoot(t, a, h))
<1>1. Bound(h) \in Resolution
    BY DEF Resolution
<1> QED BY <1>1, WriteCellLogged DEF BindShared, ForceBindRoot

(* A type is a variable or a head. *)
LEMMA TypeCases ==
    ASSUME NEW ty \in Type
    PROVE  \/ ty.tag = "Var" /\ ty.id \in Var /\ ty = VarT(ty.id)
           \/ ty.tag = "Head" /\ ty.head \in Heads /\ ty = HeadT(ty.head)
BY DEF Type, VarT, HeadT

LEMMA MirrorExtendLogged ==
    ASSUME NEW t \in Tables, NEW v \in Var, NEW ty \in Type
    PROVE  LoggedTab(t, MirrorExtend(t, v, ty))
<1> DEFINE u == IF ty.tag = "Var" THEN Find(Find(t, v), ty.id) ELSE Find(t, v)
<1>1. LoggedTab(t, Find(t, v)) /\ Find(t, v) \in Tables
    BY FindLogged DEF LoggedTab
<1>2. LoggedTab(t, u)
    <2>1. CASE ty.tag = "Var"
        <3>1. ty.id \in Var
            BY <2>1, TypeCases
        <3>2. LoggedTab(Find(t, v), Find(Find(t, v), ty.id))
            BY <1>1, <3>1, FindLogged
        <3> QED BY <1>1, <2>1, <3>2, TabTrans
    <2> QED BY <1>1, <2>1
<1>3. u \in Tables
    BY <1>2 DEF LoggedTab
<1>4. Root(u.cells, v) \in Var
    BY RootType
<1> HIDE DEF u
<1>5. CASE ty.tag = "Head"
    <2>1. ty.head \in Heads
        BY <1>5, TypeCases
    <2>2. LoggedTab(u, BindShared(u, Root(u.cells, v), ty.head))
        BY <1>3, <1>4, <2>1, BindLogged
    <2>3. MirrorExtend(t, v, ty) = u \/
          MirrorExtend(t, v, ty) = BindShared(u, Root(u.cells, v), ty.head)
        BY <1>5 DEF MirrorExtend, u
    <2> QED BY <1>2, <2>2, <2>3, TabTrans
<1>6. CASE ty.tag = "Var"
    <2>1. Root(u.cells, ty.id) \in Var
        BY <1>6, TypeCases, RootType
    <2>2. /\ LoggedTab(u, LinkToRoot(u, Root(u.cells, v), Root(u.cells, ty.id)))
          /\ LoggedTab(u, LinkToRoot(u, Root(u.cells, ty.id), Root(u.cells, v)))
        BY <1>3, <1>4, <2>1, LinkToRootLogged
    <2>3. \/ MirrorExtend(t, v, ty) = u
          \/ MirrorExtend(t, v, ty) = LinkToRoot(u, Root(u.cells, v), Root(u.cells, ty.id))
          \/ MirrorExtend(t, v, ty) = LinkToRoot(u, Root(u.cells, ty.id), Root(u.cells, v))
        BY <1>6 DEF MirrorExtend, u
    <2> QED BY <1>2, <2>2, <2>3, TabTrans
<1> QED BY <1>5, <1>6, TypeCases

-----------------------------------------------------------------------------
(* The substitution.                                                       *)

LEMMA EntryTypes ==
    /\ \A x \in Var : x \in Key /\ EntryOf(x) = Type \cup {None}
    /\ \A x \in PVar : x \in Key /\ EntryOf(x) = Presence \cup {None}
BY StoreAssumption DEF EntryOf, Key

LEMMA LineType ==
    ASSUME NEW m \in Maps, NEW x \in Key
    PROVE  Logged(m, x) \in SubstLines
<1>1. m[x] \in EntryOf(x)
    BY DEF Maps
<1>2. Logged(m, x) \in [key : {x}, prev : EntryOf(x)]
    BY <1>1 DEF Logged
<1> QED BY <1>2 DEF SubstLines

LEMMA LineParts ==
    ASSUME NEW l \in SubstLines
    PROVE  l.key \in Key /\ l.prev \in EntryOf(l.key)
BY DEF SubstLines

LEMMA MapUpdate ==
    ASSUME NEW m \in Maps, NEW g, DOMAIN g = Key, g = [x \in Key |-> g[x]],
           \A x \in Key : g[x] \in EntryOf(x)
    PROVE  g \in Maps
<1>1. \A x \in Key : g[x] \in Type \cup Presence \cup {None}
    BY DEF EntryOf
<1> QED BY <1>1 DEF Maps

(* A batch of logged writes to the map. *)
LEMMA SubBatch ==
    ASSUME NEW s \in Substs, NEW g \in Maps, NEW ext \in Seq(SubstLines),
           IsBatch(s.map, g, ext)
    PROVE  LoggedSub(s, [map |-> g, trail |-> s.trail \o ext])
<1>1. s.trail \in Seq(SubstLines)
    BY DEF Substs
<1>2. \A m \in 0 .. Len(s.trail) :
         UndoTo(g, s.trail \o ext, m) = UndoTo(s.map, s.trail, m)
    BY <1>1, LoggedBatch
<1>3. s.trail \o ext \in Seq(SubstLines) /\ Len(s.trail) <= Len(s.trail \o ext)
    BY <1>1
<1> QED BY <1>2, <1>3 DEF LoggedSub, Substs

LEMMA InsertLogged ==
    ASSUME NEW s \in Substs, NEW key \in Key, NEW e \in EntryOf(key)
    PROVE  LoggedSub(s, Insert(s, key, e))
<1> DEFINE g   == [s.map EXCEPT ![key] = e]
           ext == <<Logged(s.map, key)>>
<1>1. s.map \in Maps /\ s.trail \in Seq(SubstLines)
    BY DEF Substs
<1>2. /\ DOMAIN s.map = Key /\ DOMAIN g = Key /\ g = [x \in Key |-> g[x]]
      /\ \A x \in Key : g[x] = IF x = key THEN e ELSE s.map[x]
    BY <1>1 DEF Maps
<1>3. g \in Maps
    <2>1. \A x \in Key : g[x] \in EntryOf(x)
        BY <1>1, <1>2 DEF Maps
    <2> QED BY <1>1, <1>2, <2>1, MapUpdate
<1>4. ext \in Seq(SubstLines) /\ Len(ext) = 1 /\ ext[1] = Logged(s.map, key)
    BY <1>1, LineType
<1>5. IsBatch(s.map, g, ext)
    BY <1>2, <1>4 DEF IsBatch, Logged
<1>6. Append(s.trail, Logged(s.map, key)) = s.trail \o ext
    BY <1>1, LineType
<1> QED BY <1>3, <1>4, <1>5, <1>6, SubBatch DEF Insert

(* resolve's chain is a sequence of type variables, never empty. *)
LEMMA ChainType ==
    ASSUME NEW m, NEW v \in Var
    PROVE  Chain(m, v) \in Seq(Var) /\ Len(Chain(m, v)) > 0
<1>1. CASE IsChain(m, v, SubstChase(m, v))
    BY <1>1 DEF Chain, IsChain
<1>2. CASE ~IsChain(m, v, SubstChase(m, v))
    <2>1. Chain(m, v) = <<v>>
        BY <1>2 DEF Chain
    <2> QED BY <2>1
<1> QED BY <1>1, <1>2

LEMMA ResolvedType ==
    ASSUME NEW m \in Maps, NEW v \in Var
    PROVE  Resolved(m, v) \in Type \cup {None}
<1> DEFINE p == Chain(m, v)
<1>1. p[Len(p)] \in Var
    BY ChainType
<1>2. m[p[Len(p)]] \in Type \cup {None}
    BY <1>1, EntryTypes DEF Maps
<1> QED BY <1>2 DEF Resolved

LEMMA ResolveLogged ==
    ASSUME NEW s \in Substs, NEW v \in Var
    PROVE  LoggedSub(s, Resolve(s, v))
<1> DEFINE ks  == Compressed(s.map, v)
           e   == Resolved(s.map, v)
           g   == WriteAll(s.map, ks, e)
           ext == [k \in DOMAIN ks |-> Logged(s.map, ks[k])]
<1>1. s.map \in Maps /\ s.trail \in Seq(SubstLines) /\ DOMAIN s.map = Key
    BY DEF Substs, Maps
<1>2. ks \in Seq(Var)
    BY ChainType DEF Compressed
<1>3. e \in Type \cup {None}
    BY <1>1, ResolvedType
<1> HIDE DEF ks, e
<1>4. /\ DOMAIN g = Key /\ g = [x \in Key |-> g[x]]
      /\ \A x \in Key : g[x] = IF \E k \in DOMAIN ks : ks[k] = x THEN e ELSE s.map[x]
    BY <1>1 DEF WriteAll
<1>5. g \in Maps
    <2>1. \A x \in Key : g[x] \in EntryOf(x)
        <3> SUFFICES ASSUME NEW x \in Key PROVE g[x] \in EntryOf(x)
            OBVIOUS
        <3>1. CASE \E k \in DOMAIN ks : ks[k] = x
            BY <3>1, <1>2, <1>3, <1>4, EntryTypes
        <3>2. CASE ~\E k \in DOMAIN ks : ks[k] = x
            BY <3>2, <1>1, <1>4 DEF Maps
        <3> QED BY <3>1, <3>2
    <2> QED BY <1>1, <1>4, <2>1, MapUpdate
<1>6. ext \in Seq(SubstLines) /\ Len(ext) = Len(ks)
    <2>1. \A k \in 1 .. Len(ks) : Logged(s.map, ks[k]) \in SubstLines
        BY <1>1, <1>2, EntryTypes, LineType
    <2> QED BY <1>2, <2>1
<1>7. \A k \in 1 .. Len(ext) : ext[k].key = ks[k] /\ ext[k].prev = s.map[ks[k]]
    BY <1>2, <1>6 DEF Logged
<1>8. DOMAIN ks = 1 .. Len(ext)
    BY <1>2, <1>6
<1> HIDE DEF g, ext
<1>9. IsBatch(s.map, g, ext)
    BY <1>1, <1>4, <1>7, <1>8 DEF IsBatch
<1>10. Resolve(s, v) = [map |-> g, trail |-> s.trail \o ext]
    BY DEF Resolve, LogAll, g, ext, ks, e
<1> QED BY <1>5, <1>6, <1>9, <1>10, SubBatch

-----------------------------------------------------------------------------
(* Operations on both tables.                                              *)

LEMMA SetTab ==
    ASSUME NEW st \in Stores, NEW u, LoggedTab(st.tab, u)
    PROVE  LoggedStore(st, [st EXCEPT !.tab = u])
BY SubRefl DEF LoggedStore, LoggedTab, Stores

LEMMA SetSub ==
    ASSUME NEW st \in Stores, NEW u, LoggedSub(st.sub, u)
    PROVE  LoggedStore(st, [st EXCEPT !.sub = u])
BY TabRefl DEF LoggedStore, LoggedSub, Stores

LEMMA SetOk ==
    ASSUME NEW st \in Stores, NEW o \in SUBSET BOOLEAN
    PROVE  LoggedStore(st, [st EXCEPT !.ok = o])
BY TabRefl, SubRefl DEF LoggedStore, Stores

LEMMA SetBoth ==
    ASSUME NEW st \in Stores, NEW u, LoggedTab(st.tab, u), NEW w, LoggedSub(st.sub, w)
    PROVE  LoggedStore(st, [st EXCEPT !.tab = u, !.sub = w])
<1> DEFINE s1 == [st EXCEPT !.tab = u]
<1>1. LoggedStore(st, s1) /\ s1 \in Stores /\ s1.sub = st.sub
    BY SetTab DEF LoggedStore, Stores
<1>2. LoggedStore(s1, [s1 EXCEPT !.sub = w])
    BY <1>1, SetSub
<1> QED BY <1>1, <1>2, StoreTrans

LEMMA ExtendFreshLogged ==
    ASSUME NEW st \in Stores, NEW v \in Var, NEW ty \in Type
    PROVE  LoggedStore(st, ExtendFresh(st, v, ty))
<1>1. st.tab \in Tables /\ st.sub \in Substs /\ st.ok \in SUBSET BOOLEAN
    BY DEF Stores
<1>2. LoggedTab(st.tab, MirrorExtend(st.tab, v, ty))
    BY <1>1, MirrorExtendLogged
<1>3. LoggedSub(st.sub, Insert(st.sub, v, ty))
    BY <1>1, InsertLogged, EntryTypes
<1> QED BY <1>2, <1>3, SetBoth DEF ExtendFresh

LEMMA ZonkHeadType ==
    ASSUME NEW c \in [Var -> Resolution], NEW ty \in Type
    PROVE  ZonkHead(c, ty) \in Type
<1>1. CASE ty.tag = "Var"
    <2>1. Root(c, ty.id) \in Var
        BY <1>1, TypeCases, RootType
    <2>2. c[Root(c, ty.id)].tag = "Bound" => c[Root(c, ty.id)].head \in Heads
        BY <2>1 DEF Resolution, Unbound, Link, Bound
    <2>3. VarT(Root(c, ty.id)) \in Type
        BY <2>1 DEF Type
    <2>4. c[Root(c, ty.id)].tag = "Bound" => HeadT(c[Root(c, ty.id)].head) \in Type
        BY <2>2 DEF Type
    <2> QED BY <1>1, <2>3, <2>4 DEF ZonkHead
<1>2. CASE ty.tag # "Var"
    BY <1>2 DEF ZonkHead
<1> QED BY <1>1, <1>2

LEMMA FindInLogged ==
    ASSUME NEW t \in Tables, NEW ty \in Type
    PROVE  LoggedTab(t, FindIn(t, ty))
BY TypeCases, FindLogged, TabRefl DEF FindIn

LEMMA UnifyLogged ==
    ASSUME NEW st \in Stores, NEW t1 \in Type, NEW t2 \in Type
    PROVE  LoggedStore(st, Unify(st, t1, t2))
<1> DEFINE u  == FindIn(FindIn(st.tab, t1), t2)
           s1 == [st EXCEPT !.tab = u]
           h1 == ZonkHead(s1.tab.cells, t1)
           h2 == ZonkHead(s1.tab.cells, t2)
<1>1. LoggedTab(st.tab, u)
    <2>1. st.tab \in Tables
        BY DEF Stores
    <2>2. LoggedTab(st.tab, FindIn(st.tab, t1))
        BY <2>1, FindInLogged
    <2>3. LoggedTab(FindIn(st.tab, t1), u)
        BY <2>2, FindInLogged DEF LoggedTab
    <2> QED BY <2>1, <2>2, <2>3, TabTrans
<1> HIDE DEF u
<1>2. LoggedStore(st, s1) /\ s1 \in Stores
    BY <1>1, SetTab DEF LoggedStore
<1>3. s1.tab.cells \in [Var -> Resolution]
    BY <1>2 DEF Stores, Tables
<1> HIDE DEF s1
<1>4. h1 \in Type /\ h2 \in Type
    BY <1>3, ZonkHeadType
<1>5. HeadsUnify(h1.head, h2.head) \in SUBSET BOOLEAN
    BY DEF HeadsUnify
<1> HIDE DEF h1, h2
<1>6. /\ h1.tag = "Var" => LoggedStore(s1, ExtendFresh(s1, h1.id, h2))
      /\ h2.tag = "Var" => LoggedStore(s1, ExtendFresh(s1, h2.id, h1))
      /\ LoggedStore(s1, [s1 EXCEPT !.ok = HeadsUnify(h1.head, h2.head)])
      /\ LoggedStore(s1, s1)
    BY <1>2, <1>4, <1>5, TypeCases, ExtendFreshLogged, SetOk, StoreRefl
<1>7. \/ Unify(st, t1, t2) = s1
      \/ h1.tag = "Var" /\ Unify(st, t1, t2) = ExtendFresh(s1, h1.id, h2)
      \/ h2.tag = "Var" /\ Unify(st, t1, t2) = ExtendFresh(s1, h2.id, h1)
      \/ Unify(st, t1, t2) = [s1 EXCEPT !.ok = HeadsUnify(h1.head, h2.head)]
    BY DEF Unify, h1, h2, s1, u
<1>8. LoggedStore(s1, Unify(st, t1, t2))
    BY <1>6, <1>7
<1> QED BY <1>2, <1>8, StoreTrans

LEMMA ExtendSubstLogged ==
    ASSUME NEW st \in Stores, NEW v \in Var, NEW ty \in Type
    PROVE  LoggedStore(st, ExtendSubst(st, v, ty))
<1> DEFINE s1 == [st EXCEPT !.sub = Resolve(st.sub, v)]
           e  == Resolved(st.sub.map, v)
<1>1. st.sub \in Substs /\ st.sub.map \in Maps
    BY DEF Stores, Substs
<1>2. LoggedStore(st, s1) /\ s1 \in Stores
    BY <1>1, ResolveLogged, SetSub DEF LoggedStore
<1>3. e \in Type \cup {None}
    BY <1>1, ResolvedType
<1> HIDE DEF s1, e
<1>4. LoggedStore(s1, ExtendFresh(s1, v, ty))
    BY <1>2, ExtendFreshLogged
<1>5. e # None => LoggedStore(s1, Unify(s1, e, ty))
    BY <1>2, <1>3, UnifyLogged
<1>6. ExtendSubst(st, v, ty) = IF e = None THEN ExtendFresh(s1, v, ty) ELSE Unify(s1, e, ty)
    BY DEF ExtendSubst, s1, e
<1> QED BY <1>2, <1>4, <1>5, <1>6, StoreTrans

LEMMA UnifyTailsLogged ==
    ASSUME NEW st \in Stores, NEW v \in Var, NEW w \in Var
    PROVE  LoggedStore(st, UnifyTails(st, v, w))
<1> DEFINE s1 == [st EXCEPT !.sub = Resolve(Resolve(st.sub, v), w)]
           a  == TailRoot(s1.sub.map, v)
           b  == TailRoot(s1.sub.map, w)
<1>1. st.sub \in Substs
    BY DEF Stores
<1>2. LoggedSub(st.sub, Resolve(st.sub, v)) /\ Resolve(st.sub, v) \in Substs
    BY <1>1, ResolveLogged DEF LoggedSub
<1>3. LoggedSub(st.sub, Resolve(Resolve(st.sub, v), w))
    BY <1>1, <1>2, ResolveLogged, SubTrans
<1>4. LoggedStore(st, s1) /\ s1 \in Stores
    BY <1>3, SetSub DEF LoggedStore
<1>5. s1.sub.map \in Maps
    BY <1>4 DEF Stores, Substs
<1> HIDE DEF s1
<1>6. \A x \in Var : TailRoot(s1.sub.map, x) \in Var
    <2> TAKE x \in Var
    <2>1. Resolved(s1.sub.map, x) \in Type \cup {None}
        BY <1>5, ResolvedType
    <2>2. Resolved(s1.sub.map, x).tag = "Var" => Resolved(s1.sub.map, x).id \in Var
        BY <2>1, TypeCases DEF None
    <2> QED BY <2>2 DEF TailRoot
<1>7. VarT(b) \in Type
    BY <1>6 DEF Type
<1>8. LoggedStore(s1, ExtendSubst(s1, a, VarT(b)))
    BY <1>4, <1>6, <1>7, ExtendSubstLogged
<1>9. UnifyTails(st, v, w) = IF a = b THEN s1 ELSE ExtendSubst(s1, a, VarT(b))
    BY DEF UnifyTails, s1
<1> QED BY <1>4, <1>8, <1>9, StoreTrans

LEMMA UnifyPresenceLogged ==
    ASSUME NEW st \in Stores, NEW p1 \in Presence, NEW p2 \in Presence
    PROVE  LoggedStore(st, UnifyPresence(st, p1, p2))
<1> DEFINE q1 == ResolvePresence(st.sub.map, p1)
           q2 == ResolvePresence(st.sub.map, p2)
<1>1. q1 \in Presence /\ q2 \in Presence
    BY DEF ResolvePresence
<1> HIDE DEF q1, q2
<1>2. \A q \in Presence : q.tag = "PVar" => q.id \in PVar
    BY DEF Presence, Pre, Abs, PVarP
<1>3. st.sub \in Substs
    BY DEF Stores
<1>4. \A q, r \in Presence : q.tag = "PVar" => LoggedSub(st.sub, Insert(st.sub, q.id, r))
    BY <1>2, <1>3, EntryTypes, InsertLogged
<1>5. \A q, r \in Presence : q.tag = "PVar" =>
         LoggedStore(st, [st EXCEPT !.sub = Insert(st.sub, q.id, r)])
    BY <1>4, SetSub
<1>6. LoggedStore(st, st) /\ LoggedStore(st, [st EXCEPT !.ok = {FALSE}])
    BY StoreRefl, SetOk
<1> QED BY <1>1, <1>5, <1>6 DEF UnifyPresence, q1, q2

-----------------------------------------------------------------------------
(* Steps.  Current and Saved are what InferStore maps the variables of     *)
(* CopyStore to.                                                           *)

Current == [cells |-> cells, subst |-> subst, pending |-> pending]

Saved == [k \in DOMAIN snaps |-> At(snaps[k])]

LEMMA StoreType ==
    ASSUME TypeOK PROVE Store \in Stores
<1>1. subst \in Maps
    BY DEF TypeOK, Maps
<1> QED BY <1>1 DEF TypeOK, Store, Stores, Tables, Substs

LEMMA MarksType ==
    ASSUME TypeOK, NEW k \in DOMAIN snaps
    PROVE  /\ snaps[k].trail \in 0 .. Len(trail)
           /\ snaps[k].subst \in 0 .. Len(subst_trail)
           /\ snaps[k].pending \in 0 .. Len(pending)
<1>1. snaps[k] \in Snapshot
    BY DEF TypeOK, SnapsOK
<1>2. Len(trail) \in Nat /\ Len(subst_trail) \in Nat /\ Len(pending) \in Nat
    BY DEF TypeOK
<1> QED BY <1>1, <1>2 DEF TypeOK, SnapsOK, Snapshot

(* A step that takes over a store reached by logged writes keeps the types *)
(* and every snapshot's copy.                                              *)
LEMMA WorkStep ==
    ASSUME TypeOK, NEW st, LoggedStore(Store, st), Become(st),
           name_source' \in 0 .. MaxVars, pending' = pending, snaps' = snaps
    PROVE  TypeOK' /\ Saved' = Saved
<1>1. /\ LoggedTab([cells |-> cells, trail |-> trail], st.tab)
      /\ LoggedSub([map |-> subst, trail |-> subst_trail], st.sub)
      /\ st \in Stores
    BY DEF LoggedStore, Store
<1>2. /\ st.tab.cells \in [Var -> Resolution] /\ st.tab.trail \in Seq(CellLines)
      /\ st.sub.map \in Maps /\ st.sub.trail \in Seq(SubstLines)
      /\ st.ok \in SUBSET BOOLEAN
    BY <1>1 DEF Stores, Tables, Substs
<1>3. /\ cells' = st.tab.cells /\ trail' = st.tab.trail
      /\ subst' = st.sub.map /\ subst_trail' = st.sub.trail
      /\ failing' \in {~ok /\ snaps # <<>> : ok \in st.ok}
    BY DEF Become
<1>4. /\ Len(trail) <= Len(trail') /\ Len(subst_trail) <= Len(subst_trail')
      /\ \A m \in 0 .. Len(trail) : UndoTo(cells', trail', m) = UndoTo(cells, trail, m)
      /\ \A m \in 0 .. Len(subst_trail) :
            UndoTo(subst', subst_trail', m) = UndoTo(subst, subst_trail, m)
    BY <1>1, <1>3 DEF LoggedTab, LoggedSub
<1>5. TypeOK'
    <2>1. failing' \in BOOLEAN
        BY <1>2, <1>3
    <2>2. SnapsOK'
        <3>1. /\ Len(trail) \in Nat /\ Len(subst_trail) \in Nat
              /\ Len(trail') \in Nat /\ Len(subst_trail') \in Nat
            BY <1>2, <1>3 DEF TypeOK
        <3>2. \A k \in DOMAIN snaps : snaps[k] \in Snapshot
            BY DEF TypeOK, SnapsOK
        <3> QED BY <1>4, <3>1, <3>2 DEF TypeOK, SnapsOK, Snapshot
    <2>3. /\ subst' \in [Key -> Type \cup Presence \cup {None}]
          /\ \A x \in Key : subst'[x] \in EntryOf(x)
        BY <1>2, <1>3 DEF Maps
    <2> QED BY <1>2, <1>3, <2>1, <2>2, <2>3 DEF TypeOK
<1>6. \A k \in DOMAIN snaps : At(snaps[k])' = At(snaps[k])
    BY <1>4, MarksType DEF At
<1> QED BY <1>5, <1>6 DEF Saved

LEMMA ComputedMemberLogged ==
    ASSUME TypeOK, NEW v \in Var, NEW w \in Var, NEW s, s = ArrayUse(Store, w)
    PROVE  LoggedStore(Store,
                       RebindVar([s EXCEPT !.tab = Find(s.tab, v), !.ok = {TRUE}], v))
<1> DEFINE s1 == [s EXCEPT !.tab = Find(s.tab, v)]
           s2 == [s EXCEPT !.tab = Find(s.tab, v), !.ok = {TRUE}]
           s3 == RebindVar(s2, v)
<1>1. HeadT(ClosedRow) \in Type /\ HeadT(ArrayOf) \in Type /\ ArrayOf \in Heads
    BY StoreAssumption DEF Type
<1>2. LoggedStore(Store, s) /\ s \in Stores /\ s.tab \in Tables
    BY <1>1, StoreType, ExtendSubstLogged DEF LoggedStore, Stores, ArrayUse
<1>3. LoggedStore(s, s1) /\ s1 \in Stores
    BY <1>2, FindLogged, SetTab DEF LoggedStore
<1>4. s2 = [s1 EXCEPT !.ok = {TRUE}]
    BY <1>2 DEF Stores
<1> HIDE DEF s1, s2
<1>5. LoggedStore(s1, s2) /\ s2 \in Stores /\ s2.tab \in Tables /\ s2.sub \in Substs
    BY <1>3, <1>4, SetOk DEF LoggedStore, Stores
<1>6. LoggedStore(s2, s3) /\ s3 \in Stores
    <2>1. LoggedTab(s2.tab, ForceBindRoot(s2.tab, Root(s2.tab.cells, v), ArrayOf))
        BY <1>1, <1>5, RootType, BindLogged
    <2>2. LoggedSub(s2.sub, Insert(s2.sub, v, HeadT(ArrayOf)))
        BY <1>1, <1>5, EntryTypes, InsertLogged
    <2> QED BY <1>5, <2>1, <2>2, SetBoth DEF RebindVar, LoggedStore
<1> HIDE DEF s3
<1>7. LoggedStore(Store, s1)
    BY <1>2, <1>3, StoreType, StoreTrans
<1>8. LoggedStore(Store, s2)
    BY <1>5, <1>7, <1>3, StoreType, StoreTrans
<1> QED BY <1>5, <1>6, <1>8, StoreType, StoreTrans DEF s3, s2

(* Undoing keeps a table's type, as every logged line holds an entry of it. *)
LEMMA UndoCells ==
    ASSUME NEW f \in [Var -> Resolution], NEW log \in Seq(CellLines),
           NEW mark \in 0 .. Len(log)
    PROVE  UndoTo(f, log, mark) \in [Var -> Resolution]
<1> DEFINE c(x) == CHOOSE k \in 1 .. Len(log) : IsOldest(log, mark, x, k)
<1>1. \A x \in Var : (\E k \in 1 .. Len(log) : IsOldest(log, mark, x, k)) =>
                      c(x) \in 1 .. Len(log)
    OBVIOUS
<1> HIDE DEF c
<1>2. \A k \in 1 .. Len(log) : log[k].prev \in Resolution
    <2>1. \A k \in 1 .. Len(log) : log[k] \in CellLines
        OBVIOUS
    <2> QED BY <2>1 DEF CellLines
<1>3. UndoTo(f, log, mark) =
        [x \in Var |-> IF \E k \in 1 .. Len(log) : IsOldest(log, mark, x, k)
                       THEN log[c(x)].prev ELSE f[x]]
    BY DEF UndoTo, c
<1> QED BY <1>1, <1>2, <1>3

LEMMA UndoMap ==
    ASSUME NEW f \in Maps, NEW log \in Seq(SubstLines), NEW mark \in 0 .. Len(log)
    PROVE  UndoTo(f, log, mark) \in Maps
<1> DEFINE g == UndoTo(f, log, mark)
<1>1. DOMAIN f = Key /\ Len(log) \in Nat /\ mark \in Nat
    BY DEF Maps
<1>2. DOMAIN g = Key /\ g = [x \in Key |-> g[x]]
    BY <1>1 DEF UndoTo
<1>3. \A x \in Key : g[x] \in EntryOf(x)
    <2> TAKE x \in Key
    <2>1. CASE \E k : IsOldest(log, mark, x, k)
        <3>1. PICK k : IsOldest(log, mark, x, k)
            BY <2>1
        <3>2. g[x] = log[k].prev
            BY <3>1, <1>1, UndoOldest
        <3>3. log[k] \in SubstLines /\ log[k].key = x
            BY <3>1, <1>1 DEF IsOldest
        <3> QED BY <3>2, <3>3, LineParts
    <2>2. CASE ~\E k : IsOldest(log, mark, x, k)
        <3>1. g[x] = f[x]
            BY <2>2, <1>1 DEF UndoTo
        <3> QED BY <3>1 DEF Maps
    <2> QED BY <2>1, <2>2
<1> HIDE DEF g
<1>4. g \in Maps
    BY <1>2, <1>3, MapUpdate
<1> QED BY <1>4 DEF g

(* The mapped stack is a sequence, as long as the stack of snapshots. *)
LEMMA SavedSeq ==
    ASSUME TypeOK
    PROVE  /\ DOMAIN snaps = 1 .. Len(snaps) /\ Len(snaps) \in Nat
           /\ Saved \in Seq({At(snaps[k]) : k \in DOMAIN snaps})
           /\ Len(Saved) = Len(snaps)
           /\ \A k \in DOMAIN snaps : Saved[k] = At(snaps[k])
<1>1. DOMAIN snaps = 1 .. Len(snaps) /\ Len(snaps) \in Nat
    BY DEF TypeOK, SnapsOK
<1>2. /\ DOMAIN Saved = DOMAIN snaps
      /\ \A k \in DOMAIN snaps : Saved[k] = At(snaps[k])
      /\ Saved \in [DOMAIN snaps -> {At(snaps[k]) : k \in DOMAIN snaps}]
    BY DEF Saved
<1> QED BY <1>1, <1>2

LEMMA AppendForm ==
    ASSUME NEW T, NEW q \in Seq(T), NEW e \in T
    PROVE  Append(q, e) = [k \in 1 .. (Len(q) + 1) |-> IF k = Len(q) + 1 THEN e ELSE q[k]]
<1> DEFINE r == [k \in 1 .. (Len(q) + 1) |-> IF k = Len(q) + 1 THEN e ELSE q[k]]
<1>1. r \in Seq(T) /\ Len(r) = Len(q) + 1
    OBVIOUS
<1>2. Append(q, e) \in Seq(T) /\ Len(Append(q, e)) = Len(q) + 1
    OBVIOUS
<1>3. \A k \in 1 .. (Len(q) + 1) : Append(q, e)[k] = r[k]
    OBVIOUS
<1> HIDE DEF r
<1>4. Append(q, e) = r
    BY <1>1, <1>2, <1>3
<1> QED BY <1>4 DEF r

LEMMA SnapshotStep ==
    ASSUME TypeOK, TakeSnapshot
    PROVE  TypeOK' /\ Current' = Current /\ Saved' = Append(Saved, Current)
<1> DEFINE m == [trail |-> Len(trail), subst |-> Len(subst_trail),
                 pending |-> Len(pending)]
<1>1. /\ snaps' = Append(snaps, m) /\ cells' = cells /\ trail' = trail
      /\ subst' = subst /\ subst_trail' = subst_trail /\ pending' = pending
      /\ name_source' = name_source /\ failing' = failing
    BY DEF TakeSnapshot, table, substitution
<1>2. /\ Len(trail) \in Nat /\ Len(subst_trail) \in Nat /\ Len(pending) \in Nat
      /\ m \in Snapshot /\ snaps \in Seq(Snapshot)
    BY DEF TypeOK, SnapsOK, Snapshot
<1>3. /\ snaps' \in Seq(Snapshot) /\ Len(snaps') = Len(snaps) + 1
      /\ DOMAIN snaps' = 1 .. (Len(snaps) + 1) /\ DOMAIN snaps = 1 .. Len(snaps)
      /\ \A k \in DOMAIN snaps : snaps'[k] = snaps[k]
      /\ snaps'[Len(snaps) + 1] = m /\ Len(snaps) \in Nat
    BY <1>1, <1>2
<1>4. SnapsOK'
    <2>1. \A k \in DOMAIN snaps' : k \in DOMAIN snaps \/ k = Len(snaps) + 1
        BY <1>3
    <2>2. \A k \in DOMAIN snaps : /\ snaps[k].trail \in Nat /\ snaps[k].trail <= Len(trail)
                                   /\ snaps[k].subst \in Nat
                                   /\ snaps[k].subst <= Len(subst_trail)
                                   /\ snaps[k].pending \in Nat
                                   /\ snaps[k].pending <= Len(pending)
        BY <1>2, MarksType
    <2>3. \A k \in DOMAIN snaps' : /\ snaps'[k].trail <= Len(trail')
                                    /\ snaps'[k].subst <= Len(subst_trail')
                                    /\ snaps'[k].pending <= Len(pending')
        BY <1>1, <1>2, <1>3, <2>1, <2>2
    <2>4. ASSUME NEW j \in DOMAIN snaps', NEW k \in DOMAIN snaps', j < k
          PROVE  /\ snaps'[j].trail <= snaps'[k].trail
                 /\ snaps'[j].subst <= snaps'[k].subst
                 /\ snaps'[j].pending <= snaps'[k].pending
        <3>1. j \in DOMAIN snaps
            BY <1>3, <2>4
        <3>2. CASE k \in DOMAIN snaps
            BY <3>1, <3>2, <1>3, <2>4 DEF TypeOK, SnapsOK
        <3>3. CASE k = Len(snaps) + 1
            BY <3>1, <3>3, <1>3, <2>2
        <3> QED BY <2>1, <3>2, <3>3
    <2> QED BY <1>3, <2>3, <2>4 DEF SnapsOK
<1>5. TypeOK'
    BY <1>1, <1>4 DEF TypeOK
<1>6. At(m) = Current
    <2>1. UndoTo(cells, trail, Len(trail)) = cells
        BY <1>2, UndoNothing DEF TypeOK
    <2>2. UndoTo(subst, subst_trail, Len(subst_trail)) = subst
        BY <1>2, UndoNothing DEF TypeOK
    <2>3. CutTo(pending, Len(pending)) = pending
        BY DEF CutTo, TypeOK
    <2> QED BY <2>1, <2>2, <2>3 DEF At, Current
<1> HIDE DEF m
<1>7. \A k \in DOMAIN snaps : At(snaps[k])' = At(snaps[k])
    BY <1>1, <1>3 DEF At
<1>8. At(m)' = At(m)
    BY <1>1 DEF At, m
<1>9. Saved' = Append(Saved, Current)
    <2> DEFINE n == Len(snaps) + 1
               T == {At(snaps[k]) : k \in DOMAIN snaps} \cup {Current}
    <2>1. \A k \in 1 .. n : k # n => k \in DOMAIN snaps
        BY <1>3
    <2>2. \A k \in 1 .. n : (At(snaps[k]))' = IF k = n THEN Current ELSE Saved[k]
        <3> SUFFICES ASSUME NEW k \in 1 .. n
                     PROVE  (At(snaps[k]))' = IF k = n THEN Current ELSE Saved[k]
            OBVIOUS
        <3>1. CASE k = n
            <4>1. snaps'[k] = m
                BY <3>1, <1>3
            <4>2. (At(snaps[k]))' = At(m)
                BY <4>1, <1>1 DEF At
            <4> QED BY <3>1, <4>2, <1>6
        <3>2. CASE k # n
            BY <3>2, <2>1, <1>7, SavedSeq
        <3> QED BY <3>1, <3>2
    <2>3. Saved' = [k \in 1 .. n |-> (At(snaps[k]))']
        BY <1>3 DEF Saved
    <2>4. Saved' = [k \in 1 .. n |-> IF k = n THEN Current ELSE Saved[k]]
        BY <2>2, <2>3
    <2>5. Saved \in Seq(T) /\ Len(Saved) = Len(snaps) /\ Current \in T
        <3>1. /\ DOMAIN Saved = 1 .. Len(snaps) /\ Len(snaps) \in Nat
              /\ Saved \in [1 .. Len(snaps) -> T]
            BY SavedSeq DEF Saved
        <3> QED BY <3>1, SavedSeq
    <2> HIDE DEF T
    <2> QED BY <2>4, <2>5, AppendForm
<1> QED BY <1>1, <1>5, <1>9 DEF Current

LEMMA CutType ==
    ASSUME NEW T, NEW q \in Seq(T), NEW m \in 0 .. Len(q)
    PROVE  CutTo(q, m) \in Seq(T) /\ Len(CutTo(q, m)) = m
BY DEF CutTo

(* Dropping the innermost snapshot leaves the marks of the others. *)
LEMMA Dropped ==
    ASSUME TypeOK, snaps # <<>>, snaps' = CutTo(snaps, Len(snaps) - 1)
    PROVE  /\ snaps' \in Seq(Snapshot) /\ Len(snaps) \in Nat \ {0}
           /\ DOMAIN snaps' = 1 .. (Len(snaps) - 1)
           /\ DOMAIN snaps = 1 .. Len(snaps)
           /\ \A k \in DOMAIN snaps' : k \in DOMAIN snaps /\ snaps'[k] = snaps[k]
           /\ Len(snaps) \in DOMAIN snaps
<1>1. snaps \in Seq(Snapshot)
    BY DEF TypeOK, SnapsOK
<1> QED BY <1>1 DEF CutTo

(* If the copies of the remaining snapshots are what they were, the mapped *)
(* stack has lost its top and nothing else.                                *)
LEMMA SavedOuter ==
    ASSUME TypeOK, snaps # <<>>, snaps' = CutTo(snaps, Len(snaps) - 1),
           \A k \in DOMAIN snaps' : (At(snaps[k]))' = At(snaps[k])
    PROVE  Saved # <<>> /\ Saved' = SubSeq(Saved, 1, Len(Saved) - 1)
           /\ Saved[Len(Saved)] = At(Top)
<1> DEFINE T == {At(snaps[k]) : k \in DOMAIN snaps}
           n == Len(snaps) - 1
<1>1. /\ Len(snaps) \in Nat \ {0} /\ DOMAIN snaps' = 1 .. n
      /\ \A k \in DOMAIN snaps' : k \in DOMAIN snaps
      /\ Len(snaps) \in DOMAIN snaps
    BY Dropped
<1>2. /\ Saved \in Seq(T) /\ Len(Saved) = Len(snaps)
      /\ \A k \in DOMAIN snaps : Saved[k] = At(snaps[k])
    BY SavedSeq
<1>3. Saved' = [k \in 1 .. n |-> Saved[k]]
    <2>1. Saved' = [k \in DOMAIN snaps' |-> (At(snaps[k]))']
        BY DEF Saved
    <2> QED BY <1>1, <1>2, <2>1
<1> HIDE DEF T
<1>4. SubSeq(Saved, 1, Len(Saved) - 1) = [k \in 1 .. n |-> Saved[k]]
    BY <1>1, <1>2
<1>5. Saved # <<>>
    BY <1>1, <1>2
<1> QED BY <1>1, <1>2, <1>3, <1>4, <1>5 DEF Top

LEMMA KeepStep ==
    ASSUME TypeOK, KeepAttempt
    PROVE  /\ TypeOK' /\ Saved # <<>> /\ Current' = Current
           /\ Saved' = SubSeq(Saved, 1, Len(Saved) - 1)
<1>1. /\ snaps # <<>> /\ snaps' = CutTo(snaps, Len(snaps) - 1)
      /\ cells' = cells /\ trail' = trail /\ subst' = subst /\ failing' = failing
      /\ subst_trail' = subst_trail /\ pending' = pending /\ name_source' = name_source
    BY DEF KeepAttempt, table, substitution
<1>2. \A k \in DOMAIN snaps' : (At(snaps[k]))' = At(snaps[k])
    BY <1>1, Dropped DEF At
<1>3. SnapsOK'
    BY <1>1, Dropped DEF TypeOK, SnapsOK
<1> QED BY <1>1, <1>2, <1>3, SavedOuter DEF TypeOK, Current

LEMMA RestoreStep ==
    ASSUME TypeOK, RestoreSnapshot
    PROVE  /\ TypeOK' /\ Saved # <<>> /\ Current' = Saved[Len(Saved)]
           /\ Saved' = SubSeq(Saved, 1, Len(Saved) - 1)
<1>1. /\ snaps # <<>> /\ snaps' = CutTo(snaps, Len(snaps) - 1)
      /\ subst' = UndoTo(subst, subst_trail, Top.subst)
      /\ subst_trail' = CutTo(subst_trail, Top.subst)
      /\ pending' = CutTo(pending, Top.pending)
      /\ cells' = UndoTo(cells, trail, Top.trail)
      /\ trail' = CutTo(trail, Top.trail)
      /\ failing' \in BOOLEAN /\ name_source' = name_source
    BY DEF RestoreSnapshot
<1>2. /\ Top.trail \in 0 .. Len(trail) /\ Top.subst \in 0 .. Len(subst_trail)
      /\ Top.pending \in 0 .. Len(pending)
    BY <1>1, Dropped, MarksType DEF Top
<1>3. \A k \in DOMAIN snaps' :
        /\ k \in DOMAIN snaps /\ snaps'[k] = snaps[k]
        /\ snaps[k].trail \in 0 .. Top.trail
        /\ snaps[k].subst \in 0 .. Top.subst
        /\ snaps[k].pending \in 0 .. Top.pending
    <2> SUFFICES ASSUME NEW k \in DOMAIN snaps'
                 PROVE  /\ k \in DOMAIN snaps /\ snaps'[k] = snaps[k]
                        /\ snaps[k].trail \in 0 .. Top.trail
                        /\ snaps[k].subst \in 0 .. Top.subst
                        /\ snaps[k].pending \in 0 .. Top.pending
        OBVIOUS
    <2>1. k \in DOMAIN snaps /\ snaps'[k] = snaps[k] /\ k < Len(snaps)
        BY <1>1, Dropped
    <2>2. /\ snaps[k].trail <= Top.trail /\ snaps[k].subst <= Top.subst
          /\ snaps[k].pending <= Top.pending
        BY <1>1, <2>1, Dropped DEF TypeOK, SnapsOK, Top
    <2>3. /\ snaps[k].trail \in 0 .. Len(trail) /\ snaps[k].subst \in 0 .. Len(subst_trail)
          /\ snaps[k].pending \in 0 .. Len(pending)
        BY <2>1, MarksType
    <2>4. Len(trail) \in Nat /\ Len(subst_trail) \in Nat /\ Len(pending) \in Nat
        BY DEF TypeOK
    <2> QED BY <1>2, <2>1, <2>2, <2>3, <2>4
<1>4. /\ cells \in [Var -> Resolution] /\ trail \in Seq(CellLines)
      /\ subst \in Maps /\ subst_trail \in Seq(SubstLines) /\ pending \in Seq(Preds)
      /\ DOMAIN cells = Var /\ DOMAIN subst = Key
    BY DEF TypeOK, Maps
<1>5. /\ trail' \in Seq(CellLines) /\ Len(trail') = Top.trail
      /\ subst_trail' \in Seq(SubstLines) /\ Len(subst_trail') = Top.subst
      /\ pending' \in Seq(Preds) /\ Len(pending') = Top.pending
    BY <1>1, <1>2, <1>4, CutType
<1>6. TypeOK'
    <2>1. cells' \in [Var -> Resolution]
        BY <1>1, <1>2, <1>4, UndoCells
    <2>2. subst' \in Maps
        BY <1>1, <1>2, <1>4, UndoMap
    <2>3. SnapsOK'
        <3>1. snaps' \in Seq(Snapshot)
            BY <1>1, Dropped
        <3>2. \A k \in DOMAIN snaps' : /\ snaps'[k].trail <= Len(trail')
                                        /\ snaps'[k].subst <= Len(subst_trail')
                                        /\ snaps'[k].pending <= Len(pending')
            BY <1>2, <1>3, <1>5
        <3>3. \A i, k \in DOMAIN snaps' : i < k =>
                /\ snaps'[i].trail <= snaps'[k].trail
                /\ snaps'[i].subst <= snaps'[k].subst
                /\ snaps'[i].pending <= snaps'[k].pending
            BY <1>3 DEF TypeOK, SnapsOK
        <3> QED BY <3>1, <3>2, <3>3 DEF SnapsOK
    <2>4. failing' \in BOOLEAN
        BY <1>1
    <2>5. /\ subst' \in [Key -> Type \cup Presence \cup {None}]
          /\ \A x \in Key : subst'[x] \in EntryOf(x)
        BY <2>2 DEF Maps
    <2>6. name_source' \in 0 .. MaxVars
        BY <1>1 DEF TypeOK
    <2> QED BY <1>5, <2>1, <2>3, <2>4, <2>5, <2>6 DEF TypeOK
<1>7. \A k \in DOMAIN snaps' : (At(snaps[k]))' = At(snaps[k])
    <2> SUFFICES ASSUME NEW k \in DOMAIN snaps' PROVE (At(snaps[k]))' = At(snaps[k])
        OBVIOUS
    <2>1. UndoTo(cells', trail', snaps[k].trail) = UndoTo(cells, trail, snaps[k].trail)
        BY <1>1, <1>2, <1>3, <1>4, UndoTwice
    <2>2. UndoTo(subst', subst_trail', snaps[k].subst) =
          UndoTo(subst, subst_trail, snaps[k].subst)
        BY <1>1, <1>2, <1>3, <1>4, UndoTwice
    <2>3. CutTo(pending', snaps[k].pending) = CutTo(pending, snaps[k].pending)
        <3>1. snaps[k].pending \in 0 .. Top.pending
            BY <1>3
        <3> QED BY <3>1, <1>1, <1>2, <1>4 DEF CutTo
    <2> QED BY <1>3, <2>1, <2>2, <2>3 DEF At
<1>8. Current' = At(Top)
    BY <1>1 DEF Current, At
<1> QED BY <1>1, <1>6, <1>7, <1>8, SavedOuter

(* Steps that only touch the pending constraints or the ids. *)
LEMMA PlainStep ==
    ASSUME TypeOK, UNCHANGED <<table, substitution, snaps, failing>>,
           name_source' \in 0 .. MaxVars, pending' \in Seq(Preds),
           \A k \in DOMAIN snaps :
              /\ snaps[k].pending <= Len(pending')
              /\ CutTo(pending', snaps[k].pending) = CutTo(pending, snaps[k].pending)
    PROVE  TypeOK' /\ Saved' = Saved
<1>1. /\ cells' = cells /\ trail' = trail /\ subst' = subst /\ subst_trail' = subst_trail
      /\ snaps' = snaps /\ failing' = failing
    BY DEF table, substitution
<1>2. TypeOK'
    BY <1>1 DEF TypeOK, SnapsOK
<1>3. \A k \in DOMAIN snaps : (At(snaps[k]))' = At(snaps[k])
    BY <1>1 DEF At
<1> QED BY <1>1, <1>2, <1>3 DEF Saved

LEMMA AddConstraintStep ==
    ASSUME TypeOK, NEW c \in Preds, AddConstraint(c)
    PROVE  TypeOK' /\ Saved' = Saved
<1>1. pending \in Seq(Preds) /\ pending' = Append(pending, c)
    BY DEF TypeOK, AddConstraint
<1>2. pending' \in Seq(Preds) /\ Len(pending') = Len(pending) + 1 /\ Len(pending) \in Nat
    BY <1>1
<1>3. \A m \in 0 .. Len(pending) : CutTo(pending', m) = CutTo(pending, m)
    BY <1>1 DEF CutTo
<1>4. \A k \in DOMAIN snaps : snaps[k].pending \in 0 .. Len(pending)
    BY MarksType
<1>5. \A k \in DOMAIN snaps :
        /\ snaps[k].pending <= Len(pending')
        /\ CutTo(pending', snaps[k].pending) = CutTo(pending, snaps[k].pending)
    BY <1>2, <1>3, <1>4
<1>6. UNCHANGED <<table, substitution, snaps, failing>> /\ name_source' \in 0 .. MaxVars
    BY DEF AddConstraint, TypeOK
<1> QED BY <1>2, <1>5, <1>6, PlainStep

(* Constraints are only taken out when no snapshot is held. *)
LEMMA RemoveConstraintStep ==
    ASSUME TypeOK, NEW i \in DOMAIN pending, RemoveConstraint(i)
    PROVE  TypeOK' /\ Saved' = Saved
<1>1. pending \in Seq(Preds) /\ i \in 1 .. Len(pending)
    BY DEF TypeOK
<1>2. Without(pending, i) \in Seq(Preds)
    BY <1>1 DEF Without
<1>3. /\ pending' \in Seq(Preds) /\ snaps = <<>>
      /\ UNCHANGED <<table, substitution, snaps, failing>>
      /\ name_source' \in 0 .. MaxVars
    BY <1>2 DEF TypeOK, RemoveConstraint
<1>4. DOMAIN snaps = {}
    BY <1>3
<1> QED BY <1>3, <1>4, PlainStep

(***************************************************************************)
(* One step of inference keeps the types, and is a step of a store whose   *)
(* snapshots are copies: work that leaves the copies alone, a new copy, or *)
(* the return to the innermost one, or its being dropped.                  *)
(***************************************************************************)
LEMMA NextStep ==
    ASSUME TypeOK, [Next]_vars
    PROVE  /\ TypeOK'
           /\ \/ Saved' = Saved
              \/ Current' = Current /\ Saved' = Append(Saved, Current)
              \/ /\ Saved # <<>> /\ Saved' = SubSeq(Saved, 1, Len(Saved) - 1)
                 /\ Current' \in {Current, Saved[Len(Saved)]}
<1> DEFINE Kept == TypeOK' /\ Saved' = Saved
<1>0. Store \in Stores /\ Allocated \subseteq Var /\ Known \subseteq Type
    BY StoreType, StoreAssumption DEF TypeOK, Allocated, Var, Known, Type
<1>1. CASE FreshFlex
    <2>1. /\ UNCHANGED <<table, substitution, snaps, failing>> /\ pending' = pending
          /\ name_source' \in 0 .. MaxVars
        BY <1>1, StoreAssumption DEF FreshFlex, TypeOK
    <2>2. pending \in Seq(Preds) /\ \A k \in DOMAIN snaps : snaps[k].pending <= Len(pending)
        BY DEF TypeOK, SnapsOK
    <2> QED BY <2>1, <2>2, PlainStep
<1>2. ASSUME NEW t1 \in Known, NEW t2 \in Known, DoUnify(t1, t2) PROVE Kept
    BY <1>0, <1>2, UnifyLogged, WorkStep DEF DoUnify, TypeOK
<1>3. ASSUME NEW v \in Allocated, NEW h \in RowHeads, BindTail(v, h) PROVE Kept
    <2>1. HeadT(h) \in Type
        BY StoreAssumption DEF Type
    <2> QED BY <1>0, <1>3, <2>1, ExtendSubstLogged, WorkStep DEF BindTail, TypeOK
<1>4. ASSUME NEW v \in Allocated, NEW w \in Allocated, DoUnifyTails(v, w) PROVE Kept
    BY <1>0, <1>4, UnifyTailsLogged, WorkStep DEF DoUnifyTails, TypeOK
<1>5. ASSUME NEW p1 \in Presence, NEW p2 \in Presence, DoUnifyPresence(p1, p2) PROVE Kept
    BY <1>0, <1>5, UnifyPresenceLogged, WorkStep DEF DoUnifyPresence, TypeOK
<1>6. ASSUME NEW v \in Allocated, ReadHead(v) PROVE Kept
    <2>1. LoggedTab(Store.tab, Find(Store.tab, v))
        BY <1>0, FindLogged DEF Stores
    <2>2. LoggedStore(Store, [Store EXCEPT !.tab = Find(Store.tab, v)])
        BY <1>0, <2>1, SetTab
    <2> QED BY <1>6, <2>2, WorkStep DEF ReadHead, TypeOK
<1>7. ASSUME NEW v \in Allocated, NEW w \in Allocated, ComputedMember(v, w) PROVE Kept
    <2> DEFINE Rebound(s) == RebindVar([s EXCEPT !.tab = Find(s.tab, v), !.ok = {TRUE}], v)
    <2>1. PICK s \in {ArrayUse(Store, w)} : Become(Rebound(s))
        BY <1>7 DEF ComputedMember
    <2>2. name_source' \in 0 .. MaxVars /\ pending' = pending /\ snaps' = snaps
        BY <1>7, StoreAssumption DEF ComputedMember, TypeOK
    <2>3. LoggedStore(Store, Rebound(s))
        BY <1>0, <2>1, ComputedMemberLogged
    <2> QED BY <1>0, <2>1, <2>2, <2>3, WorkStep
<1>8. ASSUME NEW c \in Preds, AddConstraint(c) PROVE Kept
    BY <1>8, AddConstraintStep
<1>9. ASSUME NEW i \in DOMAIN pending, RemoveConstraint(i) PROVE Kept
    BY <1>9, RemoveConstraintStep
<1>10. CASE TakeSnapshot
    BY <1>10, SnapshotStep
<1>11. CASE RestoreSnapshot
    BY <1>11, RestoreStep
<1>12. CASE KeepAttempt
    BY <1>12, KeepStep
<1>13. CASE UNCHANGED vars
    <2>1. /\ UNCHANGED <<table, substitution, snaps, failing>> /\ pending' = pending
          /\ name_source' = name_source
        BY <1>13 DEF vars, table, substitution
    <2>2. /\ pending \in Seq(Preds) /\ name_source \in 0 .. MaxVars
          /\ \A k \in DOMAIN snaps : snaps[k].pending <= Len(pending)
        BY DEF TypeOK, SnapsOK
    <2> QED BY <2>1, <2>2, PlainStep
<1> QED
    BY <1>1, <1>2, <1>3, <1>4, <1>5, <1>6, <1>7, <1>8, <1>9, <1>10, <1>11, <1>12, <1>13
    DEF Next

(***************************************************************************)
(* The types of the store are kept: tables, logs and marks fit each other  *)
(* whatever is unified, read, rolled back or kept (InferState).            *)
(***************************************************************************)
THEOREM TypeCorrect == Spec => []TypeOK
<1>1. Init => TypeOK
    <2> SUFFICES ASSUME Init PROVE TypeOK
        OBVIOUS
    <2>1. name_source \in 0 .. MaxVars
        BY StoreAssumption DEF Init
    <2>0. failing \in BOOLEAN
        BY Zenon DEF Init
    <2>2. cells \in [Var -> Resolution]
        BY DEF Init, Resolution
    <2>3. /\ subst \in [Key -> Type \cup Presence \cup {None}]
          /\ \A x \in Key : subst[x] \in EntryOf(x)
        <3>1. subst = [x \in Key |-> None] /\ \A x \in Key : None \in EntryOf(x)
            BY DEF Init, EntryOf
        <3> QED BY <3>1
    <2>4. trail \in Seq(CellLines) /\ subst_trail \in Seq(SubstLines) /\ pending \in Seq(Preds)
        BY DEF Init
    <2>5. SnapsOK
        BY DEF Init, SnapsOK
    <2> QED BY <2>0, <2>1, <2>2, <2>3, <2>4, <2>5 DEF TypeOK
<1>2. TypeOK /\ [Next]_vars => TypeOK'
    BY NextStep
<1> QED BY <1>1, <1>2, PTL DEF Spec

(***************************************************************************)
(* restore_snapshot is exact: the logs and marks of InferState implement   *)
(* snapshots that are full copies of the tables and of the pending         *)
(* constraints.                                                            *)
(***************************************************************************)
THEOREM RollbackIsExact == Spec => ImplementsCopies
<1>1. Init => Copies!Init
    <2> SUFFICES ASSUME Init PROVE Copies!Init
        OBVIOUS
    <2>1. Saved = <<>>
        BY DEF Init, Saved
    <2> QED BY <2>1 DEF Init, Copies!Init, Saved
<1>2. TypeOK /\ [Next]_vars => [Copies!Next]_(Copies!vars)
    <2> SUFFICES ASSUME TypeOK, [Next]_vars PROVE Copies!Next
        BY DEF Copies!vars
    <2>1. CASE Saved' = Saved
        BY <2>1 DEF Copies!Next, Copies!Work, Saved
    <2>2. CASE Current' = Current /\ Saved' = Append(Saved, Current)
        BY <2>2 DEF Copies!Next, Copies!Begin, Saved, Current
    <2>3. CASE /\ Saved # <<>> /\ Saved' = SubSeq(Saved, 1, Len(Saved) - 1)
               /\ Current' = Current
        BY <2>3 DEF Copies!Next, Copies!Keep, Copies!Outer, Saved, Current
    <2>4. CASE /\ Saved # <<>> /\ Saved' = SubSeq(Saved, 1, Len(Saved) - 1)
               /\ Current' = Saved[Len(Saved)]
        BY <2>4 DEF Copies!Next, Copies!Abandon, Copies!Outer, Saved, Current
    <2> QED BY <2>1, <2>2, <2>3, <2>4, NextStep
<1> QED BY <1>1, <1>2, TypeCorrect, PTL DEF Spec, ImplementsCopies, Copies!Spec

(***************************************************************************)
(* The rollback loops of both tables, which pop and put back line after    *)
(* line, end where UndoTo says, for any table, log and mark.               *)
(***************************************************************************)
THEOREM PoppingIsExact == Spec => []UndoIsPopping
<1>1. TypeOK => UndoIsPopping
    <2> SUFFICES ASSUME TypeOK PROVE UndoIsPopping
        OBVIOUS
    <2>1. /\ cells \in [Var -> Resolution] /\ Len(trail) \in Nat
          /\ subst \in [Key -> Type \cup Presence \cup {None}] /\ Len(subst_trail) \in Nat
        BY DEF TypeOK
    <2>2. \A m \in 0 .. Len(trail) : PopTo(cells, trail, m) = UndoTo(cells, trail, m)
        BY <2>1, PopIsUndo
    <2>3. \A m \in 0 .. Len(subst_trail) :
              PopTo(subst, subst_trail, m) = UndoTo(subst, subst_trail, m)
        BY <2>1, PopIsUndo
    <2> QED BY <2>2, <2>3 DEF UndoIsPopping
<1> QED BY <1>1, TypeCorrect, PTL
=============================================================================
