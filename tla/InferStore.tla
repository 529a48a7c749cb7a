----------------------------- MODULE InferStore -----------------------------
(***************************************************************************)
(* The speculative store of inty's type inference (infer/state.rs):        *)
(*                                                                         *)
(*   - var_table, the union-find table of type variables                   *)
(*     (infer/var_table.rs): cells and their trail;                        *)
(*   - main_subst, the substitution (types/subst.rs) that mirrors it: a    *)
(*     map from type and presence variables, with its own trail;           *)
(*   - pending_constraints, a list that speculation only appends to;       *)
(*   - the snapshots speculative callers hold on their call stack          *)
(*     (snapshot_inference / restore_snapshot).                            *)
(*                                                                         *)
(* A type is abstracted to what the store looks at: a flexible variable,   *)
(* or a head (everything that is not one).  Two heads the code treats      *)
(* apart are kept: the array-like open row and the array that              *)
(* infer_computed_member rebinds it to, and the Error sentinel.            *)
(***************************************************************************)
EXTENDS Trail, FiniteSets

CONSTANTS
    MaxVars,       \* bound on the ids fresh_flex hands out
    Heads,         \* resolved type heads
    ArrayLikeRow,  \* the head of an open row with at most a length property
    ArrayOf,       \* the head of the array type it is rebound to
    ErrorHead,     \* Type::Error
    RowHeads,      \* the heads that are rows: what a row's tail is bound to
    ClosedRow,     \* the head of the empty closed row
    PVar,          \* presence variables
    Preds,         \* predicates a constraint may hold
    MaxTrail,      \* bound on the length of each trail
    MaxPending,    \* bound on the number of pending constraints
    MaxDepth       \* bound on the nesting of speculation

Var == 1 .. MaxVars

ASSUME StoreAssumption ==
    /\ MaxVars \in Nat /\ MaxTrail \in Nat
    /\ MaxPending \in Nat /\ MaxDepth \in Nat
    /\ {ArrayOf, ErrorHead} \subseteq Heads \ RowHeads
    /\ {ArrayLikeRow, ClosedRow} \subseteq RowHeads /\ RowHeads \subseteq Heads
    /\ ArrayOf # ErrorHead /\ ArrayLikeRow # ClosedRow
    /\ PVar \cap Var = {}

VARIABLES
    name_source,   \* ids allocated so far (and the length of the table)
    cells,         \* VarTable::cells
    trail,         \* VarTable::trail
    subst,         \* Subst::map and Subst::presences, one function
    subst_trail,   \* Subst::trail
    pending,       \* pending_constraints
    snaps,         \* snapshots held by the speculations under way
    failing        \* the innermost speculation's attempt has failed

table == <<cells, trail>>
substitution == <<subst, subst_trail>>
vars == <<name_source, cells, trail, subst, subst_trail, pending, snaps, failing>>

-----------------------------------------------------------------------------
(* Resolutions, types, presences.                                          *)

Unbound  == [tag |-> "Unbound"]
Link(i)  == [tag |-> "Link", to |-> i]
Bound(h) == [tag |-> "Bound", head |-> h]
Resolution == {Unbound} \cup {Link(i) : i \in Var} \cup {Bound(h) : h \in Heads}

VarT(i)  == [tag |-> "Var", id |-> i]
HeadT(h) == [tag |-> "Head", head |-> h]
Type     == {VarT(i) : i \in Var} \cup {HeadT(h) : h \in Heads}

Pre      == [tag |-> "Pre"]
Abs      == [tag |-> "Abs"]
PVarP(p) == [tag |-> "PVar", id |-> p]
Presence == {Pre, Abs} \cup {PVarP(p) : p \in PVar}

None == [tag |-> "None"]
Key  == Var \cup PVar

EntryOf(key) == {None} \cup (IF key \in Var THEN Type ELSE Presence)
Snapshot  == [trail : Nat, subst : Nat, pending : Nat]

(* Variables allocated so far. *)
Allocated == 1 .. name_source

-----------------------------------------------------------------------------
(***************************************************************************)
(* VarTable.  A table value is a record t of cells and trail, so that an   *)
(* operation that calls find several times threads it through.             *)
(***************************************************************************)

(* No further node. *)
Stop == 0

(* The nodes visited from id, each followed by the next, up to a node whose *)
(* next is Stop (or, on a cycle, until every variable could have been met). *)
Follow(next, id) ==
    LET walk[k \in 1 .. MaxVars] ==
            IF k = 1 THEN <<id>>
            ELSE LET p == walk[k - 1]
                     at == next[p[Len(p)]]
                 IN IF at = Stop THEN p ELSE Append(p, at)
    IN walk[MaxVars]

Links(c) == [v \in Var |-> IF c[v].tag = "Link" THEN c[v].to ELSE Stop]

(* The nodes find visits from id, root last: its first pass, which stops   *)
(* at the first cell that is no link.                                      *)
Chase(c, id) == Follow(Links(c), id)

IsPath(c, id, p) ==
    /\ p \in Seq(Var) /\ Len(p) > 0 /\ p[1] = id
    /\ \A k \in 1 .. (Len(p) - 1) : c[p[k]] = Link(p[k + 1])
    /\ c[p[Len(p)]].tag # "Link"

(* A walk that is no path (a cycle) is given up: find returns its input    *)
(* and rewrites nothing.                                                   *)
Path(c, id) == LET p == Chase(c, id) IN IF IsPath(c, id, p) THEN p ELSE <<id>>

Root(c, id) == LET p == Path(c, id) IN p[Len(p)]

(* The nodes find rewrites: those on the path that do not point at the     *)
(* root already, i.e. all but the root and the node before it.             *)
Stale(p) == SubSeq(p, 1, Len(p) - 2)

(* A seeded defect: a path compression that is not logged. *)
FindUnlogged(t, id) ==
    LET p == Path(t.cells, id) IN
    [cells |-> WriteAll(t.cells, Stale(p), Link(p[Len(p)])), trail |-> t.trail]

(* find: point each stale node at the root, logging each rewrite. *)
Find(t, id) ==
    LET p == Path(t.cells, id) IN
    [cells |-> WriteAll(t.cells, Stale(p), Link(p[Len(p)])),
     trail |-> LogAll(t.cells, t.trail, Stale(p))]

(* The logged write of one cell (bind_shared, force_bind_root and          *)
(* link_to_root share it).                                                 *)
WriteCell(t, id, r) ==
    [cells |-> [t.cells EXCEPT ![id] = r],
     trail |-> Append(t.trail, Logged(t.cells, id))]

(* A seeded defect: the link points from the survivor to the other root.   *)
LinkToRootSwapped(t, child, parent) ==
    IF child = parent THEN t ELSE WriteCell(t, parent, Link(child))

LinkToRoot(t, child, parent) ==
    IF child = parent THEN t ELSE WriteCell(t, child, Link(parent))

BindShared(t, root, h) == WriteCell(t, root, Bound(h))

ForceBindRoot(t, root, h) == WriteCell(t, root, Bound(h))

IsFree(t, root) == t.cells[root] = Unbound

-----------------------------------------------------------------------------
(* Subst.  A value s holds the map and its trail.                          *)

(* The variable an entry is an alias of, if that has an entry itself. *)
Aliases(m) ==
    [v \in Var |-> IF m[v].tag = "Var" /\ m[m[v].id] # None THEN m[v].id ELSE Stop]

(* The keys resolve visits from v: v, and on through variables that are    *)
(* keys themselves.                                                        *)
SubstChase(m, v) == Follow(Aliases(m), v)

IsChain(m, v, p) ==
    /\ p \in Seq(Var) /\ Len(p) > 0 /\ p[1] = v
    /\ \A k \in 1 .. (Len(p) - 1) : m[p[k]] = VarT(p[k + 1])
    /\ LET end == m[p[Len(p)]] IN end.tag = "Var" => m[end.id] = None

(* A chain that is a cycle is left as it stands. *)
Chain(m, v) == LET p == SubstChase(m, v) IN IF IsChain(m, v, p) THEN p ELSE <<v>>

(* What resolve returns: the entry the chain ends in (None: no entry). *)
Resolved(m, v) == LET p == Chain(m, v) IN m[p[Len(p)]]

(* resolve's path compression: when the first entry is a variable, every   *)
(* key of the chain is rewritten to its endpoint, the last one included.   *)
Compressed(m, v) == IF m[v].tag = "Var" THEN Chain(m, v) ELSE <<>>

Resolve(s, v) ==
    [map   |-> WriteAll(s.map, Compressed(s.map, v), Resolved(s.map, v)),
     trail |-> LogAll(s.map, s.trail, Compressed(s.map, v))]

(* A seeded defect: presences are not logged.                              *)
InsertPresenceUnlogged(s, key, e) ==
    [map   |-> [s.map EXCEPT ![key] = e],
     trail |-> IF key \in PVar THEN s.trail ELSE Append(s.trail, Logged(s.map, key))]

(* Subst::write, behind insert_shared and insert; insert_presence logs the *)
(* same way.                                                               *)
Insert(s, key, e) ==
    [map   |-> [s.map EXCEPT ![key] = e],
     trail |-> Append(s.trail, Logged(s.map, key))]

PresenceEnd(m, pr) ==
    LET walk[k \in 0 .. Cardinality(PVar)] ==
            IF k = 0 THEN pr
            ELSE LET at == walk[k - 1]
                 IN IF at.tag = "PVar" /\ m[at.id] # None THEN m[at.id] ELSE at
    IN walk[Cardinality(PVar)]

ResolvePresence(m, pr) ==
    LET e == PresenceEnd(m, pr) IN IF e \in Presence THEN e ELSE pr

-----------------------------------------------------------------------------
(***************************************************************************)
(* InferState: writes that go to both tables.  A store value st has the    *)
(* fields tab, sub and ok, the outcomes unification may have there: both,  *)
(* where what the heads hold inside decides.                               *)
(***************************************************************************)
Store == [tab |-> [cells |-> cells, trail |-> trail],
          sub |-> [map |-> subst, trail |-> subst_trail],
          ok  |-> {TRUE}]

(* A seeded defect: the older (smaller) root survives a merge of two free  *)
(* ones, whichever side of the binding it is on.                           *)
MirrorExtendOldestSurvives(t, v, ty) ==
    LET u == IF ty.tag = "Var" THEN Find(Find(t, v), ty.id) ELSE Find(t, v)
        a == Root(u.cells, v)
        b == Root(u.cells, ty.id)
    IN IF ty.tag = "Head"
       THEN IF IsFree(u, a) THEN BindShared(u, a, ty.head) ELSE u
       ELSE IF a < b /\ IsFree(u, b) THEN LinkToRoot(u, b, a)
       ELSE IF IsFree(u, a) THEN LinkToRoot(u, a, b)
       ELSE u

(* mirror_extend: the left variable's root becomes an alias of the right   *)
(* one's, unless only the left is bound.  Two bound roots, or a bound root *)
(* for a head, would be drift: the code asserts and leaves the table.      *)
MirrorExtend(t, v, ty) ==
    LET u == IF ty.tag = "Var" THEN Find(Find(t, v), ty.id) ELSE Find(t, v)
        a == Root(u.cells, v)
        b == Root(u.cells, ty.id)
    IN IF ty.tag = "Head"
       THEN IF IsFree(u, a) THEN BindShared(u, a, ty.head) ELSE u
       ELSE IF IsFree(u, a) THEN LinkToRoot(u, a, b)
       ELSE IF IsFree(u, b) THEN LinkToRoot(u, b, a)
       ELSE u

(* extend_subst's own write, for a variable that has no entry yet. *)
ExtendFresh(st, v, ty) ==
    [st EXCEPT !.tab = MirrorExtend(st.tab, v, ty), !.sub = Insert(st.sub, v, ty)]

(* zonk_head_cow: a type's head through the table. *)
ZonkHead(c, ty) ==
    IF ty.tag = "Var"
    THEN LET r == Root(c, ty.id)
         IN IF c[r].tag = "Bound" THEN HeadT(c[r].head) ELSE VarT(r)
    ELSE ty

FindIn(t, ty) == IF ty.tag = "Var" THEN Find(t, ty.id) ELSE t

(* unify_impl on two heads other than variables.  Rows and arrays go on to *)
(* compare what they hold, further steps of this model; the others are     *)
(* equal or not.                                                           *)
HeadsUnify(g, h) ==
    IF {g, h} \subseteq RowHeads \cup {ArrayOf} THEN BOOLEAN ELSE {g = h}

(* unify: resolve both heads, then bind a free variable (var_bind) or      *)
(* compare heads.  The Error sentinel absorbs before a variable is bound.  *)
(* var_bind calls extend_subst, whose lookup finds nothing for the root of *)
(* a free class (MirrorKeys): ExtendFresh is what is left of it.           *)
Unify(st, t1, t2) ==
    LET s1 == [st EXCEPT !.tab = FindIn(FindIn(st.tab, t1), t2)]
        h1 == ZonkHead(s1.tab.cells, t1)
        h2 == ZonkHead(s1.tab.cells, t2)
    IN IF HeadT(ErrorHead) \in {h1, h2} \/ (h1 = h2 /\ h1.tag = "Var") THEN s1
       ELSE IF h1.tag = "Var" THEN ExtendFresh(s1, h1.id, h2)
       ELSE IF h2.tag = "Var" THEN ExtendFresh(s1, h2.id, h1)
       ELSE [s1 EXCEPT !.ok = HeadsUnify(h1.head, h2.head)]

(* extend_subst of a variable as it stands in a row (a tail): look it up   *)
(* in the substitution first, and unify with what it is bound to.          *)
ExtendSubst(st, v, ty) ==
    LET s1 == [st EXCEPT !.sub = Resolve(st.sub, v)]
        existing == Resolved(st.sub.map, v)
    IN IF existing = None THEN ExtendFresh(s1, v, ty) ELSE Unify(s1, existing, ty)

(* The variable unify_rows takes for a tail: the chain's free endpoint, or *)
(* the tail itself when it is bound to a row.                              *)
TailRoot(m, v) == LET e == Resolved(m, v) IN IF e.tag = "Var" THEN e.id ELSE v

(* A seeded defect: the tails are not resolved to their roots first.       *)
UnifyTailsUnresolved(st, v, w) == ExtendSubst(st, v, VarT(w))

(* unify_rows on two open tails with the same properties: resolve both;    *)
(* the same root needs nothing, else one becomes an alias of the other.    *)
UnifyTails(st, v, w) ==
    LET s1 == [st EXCEPT !.sub = Resolve(Resolve(st.sub, v), w)]
        a  == TailRoot(s1.sub.map, v)
        b  == TailRoot(s1.sub.map, w)
    IN IF a = b THEN s1 ELSE ExtendSubst(s1, a, VarT(b))

(* unify_presence and extend_subst_presence: both sides are resolved, so a *)
(* variable that is left is unbound.                                       *)
UnifyPresence(st, p1, p2) ==
    LET q1 == ResolvePresence(st.sub.map, p1)
        q2 == ResolvePresence(st.sub.map, p2)
    IN IF q1 = q2 THEN st
       ELSE IF q1.tag = "PVar" THEN [st EXCEPT !.sub = Insert(st.sub, q1.id, q2)]
       ELSE IF q2.tag = "PVar" THEN [st EXCEPT !.sub = Insert(st.sub, q2.id, q1)]
       ELSE [st EXCEPT !.ok = {FALSE}]

-----------------------------------------------------------------------------
(* The specification.                                                      *)

Init ==
    /\ name_source = 0
    /\ cells = [v \in Var |-> Unbound] /\ trail = <<>>
    /\ subst = [k \in Key |-> None]    /\ subst_trail = <<>>
    /\ pending = <<>> /\ snaps = <<>> /\ failing = FALSE

(* Take over the store value st.  A failed unification ends the attempt it *)
(* is part of; outside speculation the error is reported and inference     *)
(* goes on.                                                                *)
Become(st) ==
    /\ Len(st.tab.trail) <= MaxTrail /\ Len(st.sub.trail) <= MaxTrail
    /\ cells' = st.tab.cells /\ trail' = st.tab.trail
    /\ subst' = st.sub.map   /\ subst_trail' = st.sub.trail
    /\ failing' \in {~ok /\ snaps # <<>> : ok \in st.ok}

(* What inference may mention: an allocated variable, or a head. *)
Known == {VarT(v) : v \in Allocated} \cup {HeadT(h) : h \in Heads}

(* fresh_flex.  The new cell is not logged: it is Unbound already. *)
FreshFlex ==
    /\ ~failing /\ name_source < MaxVars
    /\ name_source' = name_source + 1
    /\ UNCHANGED <<table, substitution, pending, snaps, failing>>

DoUnify(t1, t2) ==
    /\ ~failing
    /\ Become(Unify(Store, t1, t2))
    /\ UNCHANGED <<name_source, pending, snaps>>

(* An open row's tail meets a closed row, or an array: it is bound to the  *)
(* rest (unify_rows, unify_array_with_row).                                *)
BindTail(v, h) ==
    /\ ~failing
    /\ Become(ExtendSubst(Store, v, HeadT(h)))
    /\ UNCHANGED <<name_source, pending, snaps>>

DoUnifyTails(v, w) ==
    /\ ~failing /\ v # w
    /\ Become(UnifyTails(Store, v, w))
    /\ UNCHANGED <<name_source, pending, snaps>>

DoUnifyPresence(p1, p2) ==
    /\ ~failing
    /\ Become(UnifyPresence(Store, p1, p2))
    /\ UNCHANGED <<name_source, pending, snaps>>

(* A read of a variable's head: it only compresses. *)
ReadHead(v) ==
    /\ ~failing
    /\ Become([Store EXCEPT !.tab = Find(Store.tab, v)])
    /\ UNCHANGED <<name_source, pending, snaps>>

(* infer_computed_member on a variable whose head is an open row with at   *)
(* most a length: a fresh element variable, the row is unified with the    *)
(* array (which closes the row's tail w), and rebind_var replaces the      *)
(* root's cell and the variable's own entry of the substitution.           *)
ArrayUse(st, w) == ExtendSubst(st, w, HeadT(ClosedRow))

RebindVar(st, v) ==
    [st EXCEPT !.tab = ForceBindRoot(st.tab, Root(st.tab.cells, v), ArrayOf),
               !.sub = Insert(st.sub, v, HeadT(ArrayOf))]

ComputedMember(v, w) ==
    /\ snaps = <<>> /\ name_source < MaxVars
    /\ ZonkHead(cells, VarT(v)) = HeadT(ArrayLikeRow)
    /\ Root(cells, w) # Root(cells, v)
    /\ \E s \in {ArrayUse(Store, w)} :
         /\ TRUE \in s.ok
         /\ Become(RebindVar([s EXCEPT !.tab = Find(s.tab, v), !.ok = {TRUE}], v))
    /\ name_source' = name_source + 1
    /\ UNCHANGED <<pending, snaps>>

AddConstraint(c) ==
    /\ ~failing /\ Len(pending) < MaxPending
    /\ pending' = Append(pending, c)
    /\ UNCHANGED <<name_source, table, substitution, snaps, failing>>

(* The list without its i-th constraint. *)
Without(q, i) == SubSeq(q, 1, i - 1) \o SubSeq(q, i + 1, Len(q))

(* A seeded defect: a constraint solved in the middle of an attempt.       *)
RemoveConstraintAnytime(i) ==
    /\ ~failing
    /\ pending' = Without(pending, i)
    /\ UNCHANGED <<name_source, table, substitution, snaps, failing>>

(* Solving and generalising take constraints out.  Neither runs inside a   *)
(* speculative attempt, which only unifies and subsumes.                   *)
RemoveConstraint(i) ==
    /\ snaps = <<>>
    /\ pending' = Without(pending, i)
    /\ UNCHANGED <<name_source, table, substitution, snaps, failing>>

(* snapshot_inference: three lengths, nothing is copied. *)
TakeSnapshot ==
    /\ ~failing /\ Len(snaps) < MaxDepth
    /\ snaps' = Append(snaps, [trail   |-> Len(trail),
                               subst   |-> Len(subst_trail),
                               pending |-> Len(pending)])
    /\ UNCHANGED <<name_source, table, substitution, pending, failing>>

Top == snaps[Len(snaps)]

(* restore_snapshot, after a failed attempt or a probe.  If an outer       *)
(* attempt is under way it may now fail in turn (no rule is left to try).  *)
RestoreSnapshot ==
    /\ snaps # <<>>
    /\ subst' = UndoTo(subst, subst_trail, Top.subst)
    /\ subst_trail' = CutTo(subst_trail, Top.subst)
    /\ pending' = CutTo(pending, Top.pending)
    /\ cells' = UndoTo(cells, trail, Top.trail)
    /\ trail' = CutTo(trail, Top.trail)
    /\ snaps' = CutTo(snaps, Len(snaps) - 1)
    /\ failing' \in BOOLEAN /\ (failing' => Len(snaps) > 1)
    /\ UNCHANGED name_source

(* The attempt succeeded: the caller returns without restoring. *)
KeepAttempt ==
    /\ ~failing /\ snaps # <<>>
    /\ snaps' = CutTo(snaps, Len(snaps) - 1)
    /\ UNCHANGED <<name_source, table, substitution, pending, failing>>

Next ==
    \/ FreshFlex
    \/ \E t1, t2 \in Known : DoUnify(t1, t2)
    \/ \E v \in Allocated, h \in RowHeads : BindTail(v, h)
    \/ \E v, w \in Allocated : DoUnifyTails(v, w)
    \/ \E p1, p2 \in Presence : DoUnifyPresence(p1, p2)
    \/ \E v \in Allocated : ReadHead(v)
    \/ \E v, w \in Allocated : ComputedMember(v, w)
    \/ \E c \in Preds : AddConstraint(c)
    \/ \E i \in DOMAIN pending : RemoveConstraint(i)
    \/ TakeSnapshot
    \/ RestoreSnapshot
    \/ KeepAttempt

Spec == Init /\ [][Next]_vars
-----------------------------------------------------------------------------
(* Properties.                                                             *)

(***************************************************************************)
(* Every cell, entry and log line holds what its table holds: a presence   *)
(* never lands under a type variable, and each snapshot's marks lie inside *)
(* the logs and nest (the bounds restore's debug assertion relies on).     *)
(***************************************************************************)
SnapsOK ==
    /\ snaps \in Seq(Snapshot)
    /\ \A k \in DOMAIN snaps :
         /\ snaps[k].trail <= Len(trail)
         /\ snaps[k].subst <= Len(subst_trail)
         /\ snaps[k].pending <= Len(pending)
    /\ \A j, k \in DOMAIN snaps : j < k =>
         /\ snaps[j].trail <= snaps[k].trail
         /\ snaps[j].subst <= snaps[k].subst
         /\ snaps[j].pending <= snaps[k].pending

CellLines  == [key : Var, prev : Resolution]
SubstLines == UNION {[key : {x}, prev : EntryOf(x)] : x \in Key}

TypeOK ==
    /\ name_source \in 0 .. MaxVars
    /\ cells \in [Var -> Resolution] /\ trail \in Seq(CellLines)
    /\ subst \in [Key -> Type \cup Presence \cup {None}]
    /\ \A x \in Key : subst[x] \in EntryOf(x)
    /\ subst_trail \in Seq(SubstLines)
    /\ pending \in Seq(Preds)
    /\ failing \in BOOLEAN
    /\ SnapsOK

(***************************************************************************)
(* No walk meets a cycle: the give-up branches of find and resolve are     *)
(* dead code, whatever order aliases were made and compressed in. (A       *)
(* rollback adds nothing: by ImplementsCopies it only brings back tables   *)
(* that were current before.)                                              *)
(***************************************************************************)
NoCycles ==
    \A v \in Var :
      /\ IsPath(cells, v, Chase(cells, v))
      /\ IsChain(subst, v, SubstChase(subst, v))

(***************************************************************************)
(* A class is free in the union-find table exactly if its variable has no  *)
(* entry in the substitution: mirror_extend is never asked to bind a bound *)
(* root (its two assertions), and var_bind, which looks at the table only, *)
(* never overwrites an entry.                                              *)
(***************************************************************************)
MirrorKeys == \A v \in Var : (subst[v] = None) <=> (cells[v] = Unbound)

(* What a reader of each table sees of v: the class's head, or its root.   *)
TableHead(v) == ZonkHead(cells, VarT(v))

SubstHead(v) == IF subst[v] = None THEN VarT(v) ELSE Resolved(subst, v)

(***************************************************************************)
(* The tables agree on which variables are free and on their               *)
(* representative, and where the heads differ the union-find table has the *)
(* array and the substitution still the row it replaced: rebind_var        *)
(* rewrites the cell of the class, but in the substitution only the entry  *)
(* of the variable it was called with.                                     *)
(***************************************************************************)
DriftOnlyFromRebind ==
    \A v \in Var : TableHead(v) # SubstHead(v) =>
        TableHead(v) = HeadT(ArrayOf) /\ SubstHead(v) = HeadT(ArrayLikeRow)

(***************************************************************************)
(* VarTable::restore and Subst::undo_to, which pop newest first, end where *)
(* UndoTo says for every mark a log has: the oldest line of a key decides, *)
(* however often compression and rebinding rewrote it.                     *)
(***************************************************************************)
UndoIsPopping ==
    /\ \A m \in 0 .. Len(trail) : PopTo(cells, trail, m) = UndoTo(cells, trail, m)
    /\ \A m \in 0 .. Len(subst_trail) :
         PopTo(subst, subst_trail, m) = UndoTo(subst, subst_trail, m)

(***************************************************************************)
(* The logs implement copies: undoing to a snapshot's marks gives exactly  *)
(* the state that was current when it was taken, whatever was bound,       *)
(* compressed, rolled back or kept in between.                             *)
(***************************************************************************)
At(m) == [cells   |-> UndoTo(cells, trail, m.trail),
          subst   |-> UndoTo(subst, subst_trail, m.subst),
          pending |-> CutTo(pending, m.pending)]

Copies == INSTANCE CopyStore WITH
    Fresh <- [cells |-> [v \in Var |-> Unbound], subst |-> [k \in Key |-> None],
              pending |-> <<>>],
    store <- [cells |-> cells, subst |-> subst, pending |-> pending],
    saved <- [k \in DOMAIN snaps |-> At(snaps[k])]

ImplementsCopies == Copies!Spec

(***************************************************************************)
(* The union-find table implements classes of variables: path compression  *)
(* is invisible, a bound class is never rebound but by rebind_var, and an  *)
(* abandoned attempt leaves the partition as it found it.                  *)
(***************************************************************************)
(* Each variable's representative: its links, followed to their end. *)
Representative(c) ==
    LET rep[v \in Var] == IF c[v].tag = "Link" THEN rep[c[v].to] ELSE v IN rep

ViewOf(c) == [rep  |-> Representative(c),
              type |-> [v \in Var |-> IF c[v].tag = "Bound" THEN c[v].head ELSE None]]

Classes == INSTANCE ClassStore WITH
    Variables <- Var, Types <- Heads, Row <- ArrayLikeRow, Array <- ArrayOf,
    Nothing <- None, view <- ViewOf(cells),
    saved <- [k \in DOMAIN snaps |-> ViewOf(At(snaps[k]).cells)]

ImplementsClasses == Classes!Spec
=============================================================================
