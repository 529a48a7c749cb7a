---------------------------- MODULE TrailProofs ----------------------------
(***************************************************************************)
(* What the undo log guarantees, for every table, log and mark:            *)
(*   - a batch of logged writes changes nothing a rollback would restore;  *)
(*   - rolling back to the end of the log changes nothing;                 *)
(*   - rolling back in two stages is rolling back at once;                 *)
(*   - the loop that pops line after line ends where UndoTo says.          *)
(* The proofs rest on one fact: a key that has a line after the mark has   *)
(* an oldest one (NatMin), and it alone decides what the key goes back to. *)
(***************************************************************************)
EXTENDS Trail, WellFoundedInduction, TLAPS

(* Every set of naturals that has a member has a least one. *)
LEMMA NatMin ==
    ASSUME NEW T \in SUBSET Nat, T # {}
    PROVE  \E x \in T : \A y \in T : x <= y
<1> DEFINE R == OpToRel(<, Nat)
<1>1. IsWellFoundedOn(R, Nat)
    BY NatLessThanWellFounded
<1> HIDE DEF R
<1>2. \E x \in T : \A y \in T : ~(<<y, x>> \in R)
    BY <1>1, WFMin
<1>3. \A x, y \in Nat : ~(<<y, x>> \in R) => x <= y
    BY DEF R, OpToRel
<1> QED BY <1>2, <1>3

(* A key with a line after the mark has an oldest one. *)
LEMMA OldestExists ==
    ASSUME NEW log, Len(log) \in Nat, NEW mark \in Nat,
           NEW some \in (mark + 1) .. Len(log)
    PROVE  \E k \in (mark + 1) .. Len(log) : IsOldest(log, mark, log[some].key, k)
<1> DEFINE x == log[some].key
           T == {k \in (mark + 1) .. Len(log) : log[k].key = x}
<1>1. T \in SUBSET Nat /\ T # {}
    OBVIOUS
<1>2. PICK k \in T : \A j \in T : k <= j
    <2> HIDE DEF T
    <2> QED BY <1>1, NatMin
<1>3. IsOldest(log, mark, x, k)
    BY <1>2 DEF IsOldest
<1> QED BY <1>2, <1>3

(* The oldest line decides what its key goes back to. *)
LEMMA UndoOldest ==
    ASSUME NEW f, NEW log, Len(log) \in Nat, NEW mark \in Nat,
           NEW x \in DOMAIN f, NEW k, IsOldest(log, mark, x, k)
    PROVE  UndoTo(f, log, mark)[x] = log[k].prev
<1> DEFINE c == CHOOSE i \in 1 .. Len(log) : IsOldest(log, mark, x, i)
<1>1. k \in 1 .. Len(log)
    BY DEF IsOldest
<1>2. c \in 1 .. Len(log) /\ IsOldest(log, mark, x, c)
    BY <1>1
<1>3. c = k
    BY <1>2 DEF IsOldest
<1>4. UndoTo(f, log, mark)[x] = log[c].prev
    BY <1>1 DEF UndoTo
<1> QED BY <1>3, <1>4

(* A key without a line after the mark keeps its value. *)
LEMMA UndoUntouched ==
    ASSUME NEW f, NEW log, Len(log) \in Nat, NEW mark \in Nat, NEW x \in DOMAIN f,
           \A k \in (mark + 1) .. Len(log) : log[k].key # x
    PROVE  UndoTo(f, log, mark)[x] = f[x]
BY DEF UndoTo, IsOldest

(* Rolling back nothing changes nothing. *)
LEMMA UndoNothing ==
    ASSUME NEW D, NEW V, NEW f \in [D -> V], NEW log, Len(log) \in Nat
    PROVE  UndoTo(f, log, Len(log)) = f
<1>1. \A x \in D : UndoTo(f, log, Len(log))[x] = f[x]
    BY UndoUntouched
<1>2. UndoTo(f, log, Len(log)) = [x \in D |-> UndoTo(f, log, Len(log))[x]]
    BY DEF UndoTo
<1> QED BY <1>1, <1>2

(* Two rollbacks agree if they agree key by key. *)
LEMMA UndoEqual ==
    ASSUME NEW D, NEW f, NEW g, DOMAIN f = D, DOMAIN g = D, NEW l1, NEW l2, NEW mark,
           \A x \in D : UndoTo(f, l1, mark)[x] = UndoTo(g, l2, mark)[x]
    PROVE  UndoTo(f, l1, mark) = UndoTo(g, l2, mark)
<1>1. UndoTo(f, l1, mark) = [x \in D |-> UndoTo(f, l1, mark)[x]]
    BY DEF UndoTo
<1>2. UndoTo(g, l2, mark) = [x \in D |-> UndoTo(g, l2, mark)[x]]
    BY DEF UndoTo
<1> QED BY <1>1, <1>2

(* The lines ext log what table f held, and g differs from f only at their *)
(* keys.                                                                   *)
IsBatch(f, g, ext) ==
    /\ DOMAIN g = DOMAIN f
    /\ \A k \in 1 .. Len(ext) : ext[k].prev = f[ext[k].key]
    /\ \A x \in DOMAIN f : (\A k \in 1 .. Len(ext) : ext[k].key # x) => g[x] = f[x]

(* A logged batch of writes leaves every earlier mark's rollback as it was. *)
LEMMA LoggedBatch ==
    ASSUME NEW L, NEW log \in Seq(L), NEW ext \in Seq(L),
           NEW f, NEW g, IsBatch(f, g, ext),
           NEW mark \in 0 .. Len(log)
    PROVE  UndoTo(g, log \o ext, mark) = UndoTo(f, log, mark)
<1> DEFINE D == DOMAIN f
<1>b. /\ DOMAIN f = D /\ DOMAIN g = D
      /\ \A k \in 1 .. Len(ext) : ext[k].prev = f[ext[k].key]
      /\ \A x \in D : (\A k \in 1 .. Len(ext) : ext[k].key # x) => g[x] = f[x]
    BY DEF IsBatch
<1> HIDE DEF D
<1> USE <1>b
<1> DEFINE all == log \o ext
<1>1. /\ Len(all) = Len(log) + Len(ext)
      /\ \A k \in 1 .. Len(log) : all[k] = log[k]
      /\ \A k \in (Len(log) + 1) .. Len(all) : all[k] = ext[k - Len(log)]
    OBVIOUS
<1>l. Len(log) \in Nat /\ Len(ext) \in Nat /\ Len(all) \in Nat /\ mark \in Nat
    OBVIOUS
<1> HIDE DEF all
<1> SUFFICES \A x \in D : UndoTo(g, all, mark)[x] = UndoTo(f, log, mark)[x]
    BY UndoEqual DEF all
<1> TAKE x \in D
<1>2. CASE \E k \in (mark + 1) .. Len(log) : log[k].key = x
    <2>1. PICK k \in (mark + 1) .. Len(log) : IsOldest(log, mark, x, k)
        BY <1>2, <1>l, OldestExists
    <2>2. IsOldest(all, mark, x, k)
        BY <2>1, <1>1, <1>l DEF IsOldest
    <2>3. UndoTo(f, log, mark)[x] = log[k].prev
        BY <2>1, <1>l, UndoOldest
    <2>4. UndoTo(g, all, mark)[x] = all[k].prev
        BY <2>2, <1>l, UndoOldest
    <2> QED BY <2>3, <2>4, <1>1, <1>l
<1>3. CASE \A k \in (mark + 1) .. Len(log) : log[k].key # x
    <2>1. UndoTo(f, log, mark)[x] = f[x]
        BY <1>3, <1>l, UndoUntouched
    <2>2. CASE \E k \in 1 .. Len(ext) : ext[k].key = x
        <3>1. \E k \in (mark + 1) .. Len(all) : all[k].key = x
            <4>1. PICK k \in 1 .. Len(ext) : ext[k].key = x
                BY <2>2
            <4>2. /\ Len(log) + k \in (Len(log) + 1) .. Len(all)
                  /\ (Len(log) + k) - Len(log) = k
                BY <1>1, <1>l
            <4>3. all[Len(log) + k].key = x
                BY <4>1, <4>2, <1>1
            <4> QED BY <4>2, <4>3, <1>l
        <3>2. PICK k \in (mark + 1) .. Len(all) : IsOldest(all, mark, x, k)
            BY <3>1, <1>l, OldestExists
        <3>3. k \in (Len(log) + 1) .. Len(all)
            BY <3>2, <1>1, <1>3, <1>l DEF IsOldest
        <3>4. all[k] = ext[k - Len(log)] /\ k - Len(log) \in 1 .. Len(ext)
            BY <3>3, <1>1, <1>l
        <3>5. all[k].prev = f[x]
            BY <3>2, <3>4 DEF IsOldest
        <3>6. UndoTo(g, all, mark)[x] = all[k].prev
            BY <3>2, <1>l, UndoOldest
        <3> QED BY <2>1, <3>5, <3>6
    <2>3. CASE \A k \in 1 .. Len(ext) : ext[k].key # x
        <3>1. \A k \in (mark + 1) .. Len(all) : all[k].key # x
            <4> SUFFICES ASSUME NEW k \in (mark + 1) .. Len(all) PROVE all[k].key # x
                OBVIOUS
            <4>1. CASE k <= Len(log)
                BY <4>1, <1>1, <1>3, <1>l
            <4>2. CASE k > Len(log)
                <5>1. k - Len(log) \in 1 .. Len(ext) /\ k \in (Len(log) + 1) .. Len(all)
                    BY <4>2, <1>1, <1>l
                <5> QED BY <5>1, <1>1, <2>3
            <4> QED BY <4>1, <4>2, <1>l
        <3>2. UndoTo(g, all, mark)[x] = g[x]
            BY <3>1, <1>l, UndoUntouched
        <3> QED BY <2>1, <2>3, <3>2
    <2> QED BY <2>2, <2>3
<1> QED BY <1>2, <1>3

(* Rolling back to a mark and from there to an older one is rolling back   *)
(* to the older one.                                                       *)
LEMMA UndoTwice ==
    ASSUME NEW L, NEW log \in Seq(L), NEW D, NEW f, DOMAIN f = D,
           NEW mark \in 0 .. Len(log), NEW old \in 0 .. mark
    PROVE  UndoTo(UndoTo(f, log, mark), CutTo(log, mark), old) = UndoTo(f, log, old)
<1> DEFINE cut == CutTo(log, mark)
           g   == UndoTo(f, log, mark)
<1>1. /\ cut \in Seq(L) /\ Len(cut) = mark
      /\ \A k \in 1 .. mark : cut[k] = log[k]
    BY DEF CutTo
<1>l. Len(log) \in Nat /\ mark \in Nat /\ old \in Nat /\ Len(cut) \in Nat
    BY <1>1
<1>d. DOMAIN g = D
    BY DEF UndoTo
<1>g. \A x \in D : (\A k \in (mark + 1) .. Len(log) : log[k].key # x) => g[x] = f[x]
    BY <1>l, UndoUntouched
<1>o. \A x \in D : \A k : IsOldest(log, mark, x, k) => g[x] = log[k].prev
    BY <1>l, UndoOldest
<1> HIDE DEF cut, g
<1> SUFFICES \A x \in D : UndoTo(g, cut, old)[x] = UndoTo(f, log, old)[x]
    BY <1>d, UndoEqual DEF cut, g
<1> TAKE x \in D
<1>2. CASE \E k \in (old + 1) .. mark : log[k].key = x
    <2>0. PICK some \in (old + 1) .. Len(cut) : cut[some].key = x
        BY <1>2, <1>1, <1>l
    <2>1. PICK k \in (old + 1) .. Len(cut) : IsOldest(cut, old, x, k)
        BY <2>0, <1>l, OldestExists
    <2>2. IsOldest(log, old, x, k)
        BY <2>1, <1>1, <1>l DEF IsOldest
    <2>3. UndoTo(g, cut, old)[x] = cut[k].prev
        BY <2>1, <1>l, <1>d, UndoOldest
    <2>4. UndoTo(f, log, old)[x] = log[k].prev
        BY <2>2, <1>l, UndoOldest
    <2> QED BY <2>1, <2>3, <2>4, <1>1, <1>l
<1>3. CASE \A k \in (old + 1) .. mark : log[k].key # x
    <2>0. \A k \in (old + 1) .. Len(cut) : cut[k].key # x
        BY <1>3, <1>1, <1>l
    <2>1. UndoTo(g, cut, old)[x] = g[x]
        BY <2>0, <1>l, <1>d, UndoUntouched
    <2>2. CASE \E k \in (mark + 1) .. Len(log) : log[k].key = x
        <3>1. PICK k \in (mark + 1) .. Len(log) : IsOldest(log, mark, x, k)
            BY <2>2, <1>l, OldestExists
        <3>2. IsOldest(log, old, x, k)
            BY <3>1, <1>3, <1>l DEF IsOldest
        <3>3. UndoTo(f, log, old)[x] = log[k].prev
            BY <3>2, <1>l, UndoOldest
        <3> QED BY <2>1, <3>1, <3>3, <1>o
    <2>3. CASE \A k \in (mark + 1) .. Len(log) : log[k].key # x
        <3>1. \A k \in (old + 1) .. Len(log) : log[k].key # x
            BY <1>3, <2>3, <1>l
        <3>2. UndoTo(f, log, old)[x] = f[x]
            BY <3>1, <1>l, UndoUntouched
        <3> QED BY <2>1, <2>3, <3>2, <1>g
    <2> QED BY <2>2, <2>3
<1> QED BY <1>2, <1>3

(* One turn of the rollback loop: put back what the last line logged. *)
LEMMA UndoOne ==
    ASSUME NEW f, NEW log, Len(log) \in Nat, NEW n \in 0 .. (Len(log) - 1)
    PROVE  UndoTo(f, log, n) =
               [UndoTo(f, log, n + 1) EXCEPT ![log[n + 1].key] = log[n + 1].prev]
<1> DEFINE D == DOMAIN f
           g == UndoTo(f, log, n + 1)
           h == [g EXCEPT ![log[n + 1].key] = log[n + 1].prev]
<1>1. UndoTo(f, log, n) = [x \in D |-> UndoTo(f, log, n)[x]] /\ DOMAIN g = D
    BY DEF UndoTo
<1>2. ASSUME NEW x \in D
      PROVE  UndoTo(f, log, n)[x] = IF x = log[n + 1].key THEN log[n + 1].prev ELSE g[x]
    <2>1. CASE x = log[n + 1].key
        <3>1. IsOldest(log, n, x, n + 1)
            BY <2>1 DEF IsOldest
        <3> QED BY <2>1, <3>1, UndoOldest
    <2>2. CASE x # log[n + 1].key
        <3>1. \A k : IsOldest(log, n, x, k) <=> IsOldest(log, n + 1, x, k)
            BY <2>2 DEF IsOldest
        <3>2. UndoTo(f, log, n)[x] = g[x]
            BY <3>1 DEF UndoTo
        <3> QED BY <2>2, <3>2
    <2> QED BY <2>1, <2>2
<1>3. h = [x \in D |-> IF x = log[n + 1].key THEN log[n + 1].prev ELSE g[x]]
    <2> HIDE DEF g, D
    <2> QED BY <1>1
<1> HIDE DEF D, g, h
<1>4. UndoTo(f, log, n) = h
    BY <1>1, <1>2, <1>3
<1> QED BY <1>4 DEF h, g

(* The loop ends where UndoTo says: by downward induction on the lines     *)
(* left, the table with n of them left is what undoing to n gives.         *)
LEMMA PopIsUndo ==
    ASSUME NEW D, NEW V, NEW f \in [D -> V], NEW log, Len(log) \in Nat,
           NEW mark \in 0 .. Len(log)
    PROVE  PopTo(f, log, mark) = UndoTo(f, log, mark)
<1> DEFINE I == mark .. Len(log)
           Body(p) == [n \in I |->
               IF n = Len(log) THEN f
               ELSE [p[n + 1] EXCEPT ![log[n + 1].key] = log[n + 1].prev]]
           U == [n \in I |-> UndoTo(f, log, n)]
           popped == CHOOSE p : p = Body(p)
<1>1. U = Body(U)
    <2>1. ASSUME NEW n \in I
          PROVE  UndoTo(f, log, n) =
                     IF n = Len(log) THEN f
                     ELSE [U[n + 1] EXCEPT ![log[n + 1].key] = log[n + 1].prev]
        <3>1. CASE n = Len(log)
            BY <3>1, UndoNothing
        <3>2. CASE n # Len(log)
            <4>1. n \in 0 .. (Len(log) - 1) /\ n + 1 \in I
                BY <3>2
            <4>2. U[n + 1] = UndoTo(f, log, n + 1)
                BY <4>1
            <4> QED BY <3>2, <4>1, <4>2, UndoOne
        <3> QED BY <3>1, <3>2
    <2> QED BY <2>1
<1>2. popped = Body(popped)
    <2> HIDE DEF Body, U
    <2> QED BY <1>1
<1>3. PopTo(f, log, mark) = popped[mark]
    BY DEF PopTo
<1> HIDE DEF popped
<1>4. \A n \in I : popped[n] =
          IF n = Len(log) THEN f
          ELSE [popped[n + 1] EXCEPT ![log[n + 1].key] = log[n + 1].prev]
    BY <1>2
<1> DEFINE Wrong == {m \in 0 .. (Len(log) - mark) :
                        popped[Len(log) - m] # UndoTo(f, log, Len(log) - m)}
<1>5. Wrong = {}
    <2> SUFFICES ASSUME Wrong # {} PROVE FALSE
        OBVIOUS
    <2>1. PICK m \in Wrong : \A k \in Wrong : m <= k
        <3>1. Wrong \in SUBSET Nat
            OBVIOUS
        <3> HIDE DEF Wrong
        <3> QED BY <3>1, NatMin
    <2> DEFINE n == Len(log) - m
    <2>2. n \in I /\ m \in Nat /\ m <= Len(log) - mark /\ popped[n] # UndoTo(f, log, n)
        OBVIOUS
    <2>3. n # Len(log)
        BY <1>4, <2>2, UndoNothing
    <2>4. m - 1 \in 0 .. (Len(log) - mark) /\ Len(log) - (m - 1) = n + 1 /\ ~(m <= m - 1)
        BY <2>2, <2>3
    <2>5. popped[n + 1] = UndoTo(f, log, n + 1)
        <3>1. m - 1 \notin Wrong
            <4> HIDE DEF Wrong
            <4> QED BY <2>1, <2>4
        <3> QED BY <2>4, <3>1
    <2>6. n \in 0 .. (Len(log) - 1)
        BY <2>2, <2>3
    <2> HIDE DEF n, Wrong, I
    <2>7. popped[n] = [popped[n + 1] EXCEPT ![log[n + 1].key] = log[n + 1].prev]
        BY <1>4, <2>2, <2>3
    <2>8. UndoTo(f, log, n) =
              [UndoTo(f, log, n + 1) EXCEPT ![log[n + 1].key] = log[n + 1].prev]
        BY <2>6, UndoOne
    <2> QED BY <2>2, <2>5, <2>7, <2>8
<1>6. Len(log) - mark \in 0 .. (Len(log) - mark) /\ Len(log) - (Len(log) - mark) = mark
    OBVIOUS
<1>7. popped[mark] = UndoTo(f, log, mark)
    BY <1>5, <1>6
<1> QED BY <1>3, <1>7
=============================================================================
