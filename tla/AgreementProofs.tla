------------------------- MODULE AgreementProofs -------------------------
(***************************************************************************)
(* For any number of variables, heads and nested speculations, the two     *)
(* tables of InferStore stay free of cycles and agree with each other      *)
(* (NoCycles, MirrorKeys, DriftOnlyFromRebind).                            *)
(*                                                                         *)
(* The three do not stand alone.  An alias closes no cycle only if the two *)
(* tables agree on which class is free: var_bind looks at one of them and  *)
(* writes both.  So they are proved together, from Good, which looks at    *)
(* one entry at a time; and as a rollback brings back earlier tables, for  *)
(* the copy of each snapshot too (InferStoreProofs says which that is).    *)
(***************************************************************************)
EXTENDS InferStoreProofs, FiniteSetTheorems

-----------------------------------------------------------------------------
(* Following pointers.                                                     *)

Nexts == [Var -> Var \cup {Stop}]

(* Every set of variables has one that does not lead back into it. *)
Acyclic(n) == \A S \in SUBSET Var : S # {} => \E v \in S : n[v] \notin S

(* p is what following n from v passes. *)
IsTrail(n, v, p) ==
    /\ p \in Seq(Var) /\ Len(p) > 0 /\ p[1] = v
    /\ \A k \in 1 .. (Len(p) - 1) : n[p[k]] = p[k + 1]

Last(p) == p[Len(p)]

Longer(n, p) == IF n[Last(p)] = Stop THEN p ELSE Append(p, n[Last(p)])

LEMMA VarFacts == /\ MaxVars \in Nat /\ Stop \notin Var
                  /\ \A v \in Var : v \in Nat /\ MaxVars > 0
BY StoreAssumption DEF Var, Stop

(* A walk cut off after m nodes, step by step. *)
IsWalk(n, v, m, w) ==
    /\ w \in [1 .. m -> Seq(Var)]
    /\ \A k \in 1 .. m : w[k] = IF k = 1 THEN <<v>> ELSE Longer(n, w[k - 1])

LEMMA LongerTrail ==
    ASSUME NEW n \in Nexts, NEW v \in Var, NEW p, IsTrail(n, v, p)
    PROVE  /\ IsTrail(n, v, Longer(n, p)) /\ Len(p) \in Nat /\ Last(p) \in Var
           /\ \/ n[Last(p)] = Stop /\ Longer(n, p) = p
              \/ n[Last(p)] # Stop /\ Len(Longer(n, p)) = Len(p) + 1
<1>1. p \in Seq(Var) /\ Len(p) \in Nat \ {0} /\ p[1] = v
  BY DEF IsTrail
<1>2. Last(p) \in Var BY <1>1 DEF Last
<1>3. CASE n[Last(p)] = Stop BY <1>1, <1>2, <1>3 DEF Longer
<1>4. CASE n[Last(p)] # Stop
  <2>1. n[Last(p)] \in Var BY <1>2, <1>4 DEF Nexts
  <2> DEFINE q == Append(p, n[Last(p)])
  <2>2. /\ q \in Seq(Var) /\ Len(q) = Len(p) + 1 /\ q[Len(p) + 1] = n[Last(p)]
        /\ \A k \in 1 .. Len(p) : q[k] = p[k]
    BY <1>1, <2>1
  <2>3. Longer(n, p) = q BY <1>4 DEF Longer
  <2> HIDE DEF q
  <2>4. q[1] = v BY <1>1, <2>2
  <2>5. ASSUME NEW k \in 1 .. (Len(q) - 1) PROVE n[q[k]] = q[k + 1]
    <3>1. CASE k \in 1 .. (Len(p) - 1)
      <4>1. k \in 1 .. Len(p) /\ k + 1 \in 1 .. Len(p) BY <1>1, <3>1
      <4> QED BY <2>2, <3>1, <4>1 DEF IsTrail
    <3>2. CASE k = Len(p)
      BY <1>1, <2>2, <3>2 DEF Last
    <3> QED BY <1>1, <2>2, <3>1, <3>2
  <2> QED BY <1>1, <1>2, <1>4, <2>2, <2>3, <2>4, <2>5 DEF IsTrail
<1> QED BY <1>3, <1>4

(* All nodes of a walk are trails, each as long as it can be. *)
LEMMA WalkTrails ==
    ASSUME NEW n \in Nexts, NEW v \in Var, NEW m \in Nat, NEW w, IsWalk(n, v, m, w),
           NEW k \in 1 .. m
    PROVE  IsTrail(n, v, w[k]) /\ (Len(w[k]) = k \/ n[Last(w[k])] = Stop)
<1> DEFINE Fine(i) == IsTrail(n, v, w[i]) /\ (Len(w[i]) = i \/ n[Last(w[i])] = Stop)
           T == {i \in 1 .. m : ~Fine(i)}
<1>1. SUFFICES ASSUME T # {} PROVE FALSE OBVIOUS
<1>2. T \in SUBSET Nat OBVIOUS
<1>3. PICK i \in T : \A j \in T : i <= j
  <2> HIDE DEF T
  <2> QED BY <1>1, <1>2, NatMin
<1>4. i \in 1 .. m /\ ~Fine(i) OBVIOUS
<1>5. CASE i = 1
  <2>1. w[1] = <<v>> BY <1>4, <1>5 DEF IsWalk
  <2>2. <<v>> \in Seq(Var) /\ Len(<<v>>) = 1 OBVIOUS
  <2>3. IsTrail(n, v, <<v>>) BY <2>2 DEF IsTrail
  <2> QED BY <1>4, <1>5, <2>1, <2>2, <2>3
<1>6. CASE i # 1
  <2>1. i - 1 \in 1 .. m /\ i - 1 \notin T BY <1>3, <1>4, <1>6
  <2>2. Fine(i - 1) BY <2>1
  <2>3. w[i] = Longer(n, w[i - 1]) BY <1>4, <1>6 DEF IsWalk
  <2> HIDE DEF T
  <2> QED BY <1>4, <2>1, <2>2, <2>3, LongerTrail
<1> QED BY <1>5, <1>6

(* There is a walk of every length. *)
LEMMA WalkExists ==
    ASSUME NEW n \in Nexts, NEW v \in Var, NEW m \in Nat
    PROVE  \E w : IsWalk(n, v, m, w)
<1> DEFINE T == {i \in Nat : ~ \E w : IsWalk(n, v, i, w)}
<1>1. SUFFICES ASSUME T # {} PROVE FALSE OBVIOUS
<1>2. PICK i \in T : \A j \in T : i <= j
  <2>1. T \in SUBSET Nat OBVIOUS
  <2> HIDE DEF T
  <2> QED BY <1>1, <2>1, NatMin
<1>3. i \in Nat /\ ~ \E w : IsWalk(n, v, i, w) OBVIOUS
<1>4. CASE i = 0
  <2>1. [k \in 1 .. 0 |-> <<v>>] \in [1 .. 0 -> Seq(Var)] OBVIOUS
  <2>2. IsWalk(n, v, 0, [k \in 1 .. 0 |-> <<v>>]) BY <2>1 DEF IsWalk
  <2> QED BY <1>3, <1>4, <2>2
<1>5. CASE i # 0
  <2>1. i - 1 \in Nat /\ i - 1 \notin T BY <1>2, <1>3, <1>5
  <2>2. PICK w : IsWalk(n, v, i - 1, w) BY <2>1
  <2>3. \A k \in 1 .. i - 1 : IsTrail(n, v, w[k]) BY <2>1, <2>2, WalkTrails
  <2> HIDE DEF T
  <2> DEFINE u == [k \in 1 .. i |-> IF k = 1 THEN <<v>>
                                    ELSE IF k = i THEN Longer(n, w[i - 1]) ELSE w[k]]
  <2>4. ASSUME NEW k \in 1 .. i
        PROVE  /\ u[k] \in Seq(Var)
               /\ u[k] = IF k = 1 THEN <<v>> ELSE Longer(n, u[k - 1])
    <3>1. CASE k = 1 BY <3>1
    <3>2. CASE k # 1
      <4>1. k - 1 \in 1 .. i - 1 BY <1>3, <3>2
      <4>2. u[k - 1] = w[k - 1]
        <5>1. k - 1 \in 1 .. i /\ k - 1 # i BY <1>3, <4>1
        <5>2. u[k - 1] = IF k - 1 = 1 THEN <<v>> ELSE w[k - 1] BY <5>1
        <5>3. k - 1 = 1 => w[k - 1] = <<v>> BY <2>2, <4>1 DEF IsWalk
        <5> HIDE DEF u
        <5> QED BY <5>2, <5>3
      <4>3. CASE k = i
        <5>1. u[k] = Longer(n, w[k - 1]) BY <3>2, <4>3
        <5>2. Longer(n, w[k - 1]) \in Seq(Var)
          BY <2>3, <4>1, LongerTrail DEF IsTrail
        <5> HIDE DEF u
        <5> QED BY <3>2, <4>2, <5>1, <5>2
      <4>4. CASE k # i
        <5>1. k \in 1 .. i - 1 BY <1>3, <4>4
        <5>2. u[k] = w[k] BY <3>2, <4>4
        <5>3. w[k] \in Seq(Var) /\ w[k] = Longer(n, w[k - 1])
          BY <2>2, <3>2, <5>1 DEF IsWalk
        <5> HIDE DEF u
        <5> QED BY <3>2, <4>2, <5>2, <5>3
      <4> QED BY <4>3, <4>4
    <3> QED BY <3>1, <3>2
  <2>5. u \in [1 .. i -> Seq(Var)] BY <2>4
  <2> HIDE DEF u
  <2>6. IsWalk(n, v, i, u) BY <2>4, <2>5 DEF IsWalk
  <2> QED BY <1>3, <2>6
<1> QED BY <1>4, <1>5

(* Follow is the longest walk. *)
LEMMA FollowWalks ==
    ASSUME NEW n \in Nexts, NEW v \in Var
    PROVE  \E w : IsWalk(n, v, MaxVars, w) /\ Follow(n, v) = w[MaxVars]
<1> DEFINE Body(w) ==
             [k \in 1 .. MaxVars |->
                IF k = 1 THEN <<v>>
                ELSE LET p == w[k - 1]
                         at == n[p[Len(p)]]
                     IN IF at = Stop THEN p ELSE Append(p, at)]
           walk == CHOOSE w : w = Body(w)
<1>1. \A w : Body(w) = [k \in 1 .. MaxVars |->
                          IF k = 1 THEN <<v>> ELSE Longer(n, w[k - 1])]
  BY DEF Longer, Last
<1>2. Follow(n, v) = walk[MaxVars] BY DEF Follow
<1>3. MaxVars \in Nat BY VarFacts
<1>4. \E w : w = Body(w)
  <2>1. PICK w : IsWalk(n, v, MaxVars, w) BY <1>3, WalkExists
  <2>2. w = [k \in 1 .. MaxVars |-> w[k]] BY <2>1 DEF IsWalk
  <2>3. w = [k \in 1 .. MaxVars |-> IF k = 1 THEN <<v>> ELSE Longer(n, w[k - 1])]
    BY <2>1, <2>2 DEF IsWalk
  <2> HIDE DEF Body
  <2> QED BY <1>1, <2>3
<1>5. walk = Body(walk)
  <2> HIDE DEF Body
  <2> QED BY <1>4
<1> HIDE DEF walk
<1>6. walk = [k \in 1 .. MaxVars |-> IF k = 1 THEN <<v>> ELSE Longer(n, walk[k - 1])]
  <2> HIDE DEF Body
  <2> QED BY <1>1, <1>5
<1> HIDE DEF Body
<1>7. PICK u : IsWalk(n, v, MaxVars, u) BY <1>3, WalkExists
<1>8. ASSUME NEW k \in 1 .. MaxVars PROVE walk[k] = u[k]
  <2> DEFINE T == {i \in 1 .. MaxVars : walk[i] # u[i]}
  <2>1. SUFFICES ASSUME T # {} PROVE FALSE OBVIOUS
  <2>2. PICK i \in T : \A j \in T : i <= j
    <3>1. T \in SUBSET Nat OBVIOUS
    <3> HIDE DEF T
    <3> QED BY <2>1, <3>1, NatMin
  <2>3. i \in 1 .. MaxVars /\ walk[i] # u[i] OBVIOUS
  <2>4. walk[i] = IF i = 1 THEN <<v>> ELSE Longer(n, walk[i - 1]) BY <1>6, <2>3
  <2>5. u[i] = IF i = 1 THEN <<v>> ELSE Longer(n, u[i - 1]) BY <1>7, <2>3 DEF IsWalk
  <2>6. i # 1 => i - 1 \in 1 .. MaxVars /\ i - 1 \notin T BY <1>3, <2>2, <2>3
  <2>7. i # 1 => walk[i - 1] = u[i - 1] BY <2>6
  <2> HIDE DEF T
  <2> QED BY <2>3, <2>4, <2>5, <2>7
<1>9. MaxVars \in 1 .. MaxVars BY VarFacts
<1> QED BY <1>2, <1>7, <1>8, <1>9

(* Without cycles it goes to the end. *)
LEMMA FollowEnds ==
    ASSUME NEW n \in Nexts, Acyclic(n), NEW v \in Var
    PROVE  IsTrail(n, v, Follow(n, v)) /\ n[Last(Follow(n, v))] = Stop
<1> DEFINE p == Follow(n, v)
           N == MaxVars
<1>1. N \in Nat \ {0} BY VarFacts
<1>2. IsTrail(n, v, p) /\ (Len(p) = N \/ n[Last(p)] = Stop)
  <2>1. PICK w : IsWalk(n, v, N, w) /\ p = w[N] BY FollowWalks
  <2>2. N \in 1 .. N BY <1>1
  <2> HIDE DEF p, N
  <2> QED BY <1>1, <2>1, <2>2, WalkTrails
<1> HIDE DEF p, N
<1>3. SUFFICES ASSUME n[Last(p)] # Stop PROVE FALSE BY <1>2 DEF p
<1>4. Len(p) = N BY <1>2, <1>3
<1> DEFINE q == Longer(n, p)
<1>5. IsTrail(n, v, q) /\ Len(q) = N + 1 BY <1>2, <1>3, <1>4, LongerTrail
<1>6. q \in [1 .. N + 1 -> Var] /\ \A k \in 1 .. N : n[q[k]] = q[k + 1]
  <2>1. /\ q \in Seq(Var) /\ Len(q) = N + 1
        /\ \A k \in 1 .. (Len(q) - 1) : n[q[k]] = q[k + 1]
    BY <1>5 DEF IsTrail
  <2> HIDE DEF q
  <2>2. DOMAIN q = 1 .. N + 1 /\ Len(q) - 1 = N BY <1>1, <2>1
  <2>3. \A k \in 1 .. N : n[q[k]] = q[k + 1] BY <2>1, <2>2
  <2> QED BY <2>1, <2>2, <2>3
<1> HIDE DEF q
<1>7. \E i, j \in 1 .. N + 1 : i # j /\ q[i] = q[j]
  <2>1. IsFiniteSet(1 .. N + 1) /\ Cardinality(1 .. N + 1) = N + 1
    BY <1>1, FS_Interval
  <2>2. IsFiniteSet(Var) /\ Cardinality(Var) = N
    BY <1>1, FS_Interval DEF Var, N
  <2>3. Cardinality(Var) < Cardinality(1 .. N + 1) BY <1>1, <2>1, <2>2
  <2> DEFINE D == 1 .. N + 1
  <2>4. /\ IsFiniteSet(D) /\ IsFiniteSet(Var) /\ Cardinality(Var) < Cardinality(D)
        /\ q \in [D -> Var]
    BY <1>6, <2>1, <2>2, <2>3
  <2> HIDE DEF D
  <2>5. \E i, j \in D : i # j /\ q[i] = q[j] BY <2>4, FS_PigeonHole
  <2> QED BY <2>5 DEF D
<1>8. PICK i \in 1 .. N + 1, j \in 1 .. N + 1 : i < j /\ q[i] = q[j]
  BY <1>1, <1>7
<1> DEFINE S == {q[k] : k \in i .. (j - 1)}
<1>9. S \in SUBSET Var /\ S # {}
  <2>1. \A k \in i .. (j - 1) : k \in 1 .. N + 1 BY <1>1, <1>8
  <2>2. i \in i .. (j - 1) BY <1>8
  <2> QED BY <1>6, <2>1, <2>2
<1>10. \A x \in S : n[x] \in S
  <2> SUFFICES ASSUME NEW k \in i .. (j - 1) PROVE n[q[k]] \in S OBVIOUS
  <2>1. k \in 1 .. N /\ i \in i .. (j - 1) BY <1>1, <1>8
  <2>2. n[q[k]] = q[k + 1] BY <1>6, <2>1
  <2>3. CASE k = j - 1
    <3>1. n[q[k]] = q[i] BY <1>8, <2>2, <2>3
    <3> QED BY <2>1, <3>1
  <2>4. CASE k # j - 1
    <3>1. k + 1 \in i .. (j - 1) BY <1>8, <2>4
    <3> QED BY <2>2, <3>1
  <2> QED BY <2>3, <2>4
<1> HIDE DEF S
<1> QED BY <1>9, <1>10 DEF Acyclic

-----------------------------------------------------------------------------
(* Where following ends.                                                   *)

End(n, v) == Last(Follow(n, v))

(* A trail that meets another one ends where that ends. *)
LEMMA SameEnd ==
    ASSUME NEW n \in Nexts, NEW v \in Var, NEW w \in Var,
           NEW p, IsTrail(n, v, p), n[Last(p)] = Stop,
           NEW q, IsTrail(n, w, q), n[Last(q)] = Stop,
           NEW m \in 1 .. Len(p), p[m] = w
    PROVE  Last(p) = Last(q)
<1>1. /\ Len(p) \in Nat \ {0} /\ Len(q) \in Nat \ {0} /\ p[m] = q[1]
      /\ \A k \in 1 .. Len(p) : p[k] \in Var
      /\ \A k \in 1 .. Len(q) : q[k] \in Var
      /\ \A k \in 1 .. (Len(p) - 1) : n[p[k]] = p[k + 1]
      /\ \A k \in 1 .. (Len(q) - 1) : n[q[k]] = q[k + 1]
  BY DEF IsTrail
<1> DEFINE Met(k) == \E i \in 1 .. Len(p) : p[i] = q[k]
           T == {k \in 1 .. Len(q) : ~Met(k)}
<1>2. T = {}
  <2> SUFFICES ASSUME T # {} PROVE FALSE OBVIOUS
  <2>1. PICK k \in T : \A j \in T : k <= j
    <3>1. T \in SUBSET Nat OBVIOUS
    <3> HIDE DEF T
    <3> QED BY <3>1, NatMin
  <2>2. k \in 1 .. Len(q) /\ ~Met(k) OBVIOUS
  <2>3. k # 1 BY <1>1, <2>2
  <2>4. k - 1 \in 1 .. Len(q) /\ k - 1 \notin T BY <1>1, <2>1, <2>2, <2>3
  <2>5. PICK i \in 1 .. Len(p) : p[i] = q[k - 1] BY <2>4
  <2>6. n[q[k - 1]] = q[k]
    <3>1. k - 1 \in 1 .. (Len(q) - 1) /\ (k - 1) + 1 = k BY <1>1, <2>2, <2>3
    <3> QED BY <1>1, <3>1
  <2>7. n[p[i]] # Stop BY <1>1, <2>2, <2>5, <2>6, VarFacts
  <2>8. i # Len(p) BY <2>7 DEF Last
  <2>9. i \in 1 .. (Len(p) - 1) /\ i + 1 \in 1 .. Len(p) BY <1>1, <2>8
  <2>10. p[i + 1] = q[k] BY <1>1, <2>5, <2>6, <2>9
  <2> QED BY <2>2, <2>9, <2>10
<1>3. Len(q) \in 1 .. Len(q) BY <1>1
<1>4. PICK i \in 1 .. Len(p) : p[i] = Last(q) BY <1>2, <1>3 DEF Last
<1>5. CASE i = Len(p) BY <1>4, <1>5 DEF Last
<1>6. CASE i # Len(p)
  <2>1. i \in 1 .. (Len(p) - 1) /\ i + 1 \in 1 .. Len(p) BY <1>1, <1>6
  <2>2. n[p[i]] = p[i + 1] /\ p[i + 1] \in Var BY <1>1, <2>1
  <2> QED BY <1>4, <2>2, VarFacts
<1> QED BY <1>5, <1>6

(* End, by its equation. *)
LEMMA EndRules ==
    ASSUME NEW n \in Nexts, Acyclic(n), NEW v \in Var
    PROVE  /\ End(n, v) \in Var /\ n[End(n, v)] = Stop
           /\ n[v] = Stop => End(n, v) = v
           /\ n[v] # Stop => n[v] \in Var /\ End(n, v) = End(n, n[v])
<1> DEFINE p == Follow(n, v)
<1>1. IsTrail(n, v, p) /\ n[Last(p)] = Stop BY FollowEnds
<1> HIDE DEF p
<1>2. /\ p \in Seq(Var) /\ Len(p) \in Nat \ {0} /\ p[1] = v
      /\ \A k \in 1 .. (Len(p) - 1) : n[p[k]] = p[k + 1]
  BY <1>1 DEF IsTrail
<1>3. Last(p) \in Var BY <1>2 DEF Last
<1>4. ASSUME n[v] = Stop PROVE Last(p) = v
  <2>1. IsTrail(n, v, <<v>>) /\ Last(<<v>>) = v
    <3>1. <<v>> \in Seq(Var) /\ Len(<<v>>) = 1 OBVIOUS
    <3> QED BY <3>1 DEF IsTrail, Last
  <2>2. 1 \in 1 .. Len(p) BY <1>2
  <2> QED BY <1>1, <1>2, <1>4, <2>1, <2>2, SameEnd
<1>5. ASSUME n[v] # Stop PROVE n[v] \in Var /\ Last(p) = End(n, n[v])
  <2>1. n[v] \in Var BY <1>5 DEF Nexts
  <2>2. IsTrail(n, n[v], Follow(n, n[v])) /\ n[Last(Follow(n, n[v]))] = Stop
    BY <2>1, FollowEnds
  <2>3. Len(p) # 1 BY <1>1, <1>2, <1>5 DEF Last
  <2>4. 1 \in 1 .. (Len(p) - 1) /\ 2 \in 1 .. Len(p)
    <3>1. PICK l \in Nat : l = Len(p) /\ l # 0 BY <1>2
    <3>2. 1 \in 1 .. (l - 1) /\ 2 \in 1 .. l BY <2>3, <3>1
    <3> QED BY <3>1, <3>2
  <2>5. p[2] = n[v]
    <3>1. n[p[1]] = p[1 + 1] BY <1>2, <2>4
    <3> QED BY <1>2, <3>1
  <2> QED BY <1>1, <2>1, <2>2, <2>4, <2>5, SameEnd DEF End
<1> QED BY <1>1, <1>3, <1>4, <1>5 DEF End, p

(* What holds where a trail ends, and of each node if of the next, holds   *)
(* of all: the form the induction along the pointers takes here.           *)
LEMMA AlongTrails ==
    ASSUME NEW n \in Nexts, Acyclic(n), NEW H \in SUBSET Var,
           \A v \in Var : n[v] = Stop => v \in H,
           \A v \in Var : n[v] \in H => v \in H
    PROVE  H = Var
<1> DEFINE S == Var \ H
<1>1. \A v \in S : n[v] \in S BY VarFacts DEF Nexts
<1>2. S \in SUBSET Var OBVIOUS
<1>3. S = {} \/ \E v \in S : n[v] \notin S
  <2> HIDE DEF S
  <2> QED BY <1>2 DEF Acyclic
<1>4. S = {}
  <2> HIDE DEF S
  <2> QED BY <1>1, <1>3
<1> QED BY <1>4

(* The equation determines it. *)
LEMMA EndUnique ==
    ASSUME NEW n \in Nexts, Acyclic(n), NEW rep \in [Var -> Var],
           \A v \in Var : n[v] = Stop => rep[v] = v,
           \A v \in Var : n[v] # Stop => rep[v] = rep[n[v]]
    PROVE  \A v \in Var : End(n, v) = rep[v]
<1> DEFINE H == {v \in Var : End(n, v) = rep[v]}
<1>1. \A v \in Var : n[v] = Stop => v \in H BY EndRules
<1>2. \A v \in Var : n[v] \in H => v \in H
  <2> SUFFICES ASSUME NEW v \in Var, n[v] \in H PROVE End(n, v) = rep[v] OBVIOUS
  <2>1. n[v] # Stop /\ End(n, n[v]) = rep[n[v]] BY VarFacts
  <2> QED BY <2>1, EndRules
<1>3. H = Var
  <2>1. H \in SUBSET Var OBVIOUS
  <2> HIDE DEF H
  <2> QED BY <1>1, <1>2, <2>1, AlongTrails
<1> QED BY <1>3

-----------------------------------------------------------------------------
(* The union-find table.                                                   *)

OkCells(c) == c \in [Var -> Resolution] /\ Acyclic(Links(c))

LEMMA CellCases ==
    ASSUME NEW r \in Resolution
    PROVE  \/ r = Unbound /\ r.tag = "Unbound"
           \/ r.tag = "Link" /\ r.to \in Var /\ r = Link(r.to)
           \/ r.tag = "Bound" /\ r.head \in Heads /\ r = Bound(r.head)
BY DEF Resolution, Unbound, Link, Bound

LEMMA LinksType ==
    ASSUME NEW c \in [Var -> Resolution]
    PROVE  Links(c) \in Nexts
<1>1. \A x \in Var : c[x].tag = "Link" => c[x].to \in Var BY CellCases
<1> QED BY <1>1 DEF Links, Nexts

LEMMA LinksRules ==
    ASSUME NEW c \in [Var -> Resolution], NEW v \in Var
    PROVE  /\ c[v].tag # "Link" <=> Links(c)[v] = Stop
           /\ c[v].tag = "Link" => /\ c[v] = Link(Links(c)[v])
                                   /\ Links(c)[v] \in Var
           /\ \A w \in Var : c[v] = Link(w) => Links(c)[v] = w
<1>1. \A x \in Var : c[x].tag = "Link" => c[x].to \in Var /\ c[x] = Link(c[x].to)
  BY CellCases
<1>3. \A w : Link(w).tag = "Link" /\ Link(w).to = w BY DEF Link
<1>4. Links(c)[v] = IF c[v].tag = "Link" THEN c[v].to ELSE Stop BY DEF Links
<1> QED BY <1>1, <1>3, <1>4, VarFacts

(* find's walk is a path, so the branch that gives up is not taken. *)
LEMMA PathIsTrail ==
    ASSUME NEW c, OkCells(c), NEW v \in Var
    PROVE  /\ IsPath(c, v, Chase(c, v))
           /\ Path(c, v) = Follow(Links(c), v) /\ Root(c, v) = End(Links(c), v)
<1> DEFINE n == Links(c)
           p == Follow(n, v)
<1>1. c \in [Var -> Resolution] /\ Acyclic(n) BY DEF OkCells
<1>2. n \in Nexts BY <1>1, LinksType
<1>3. IsTrail(n, v, p) /\ n[Last(p)] = Stop
  <2> HIDE DEF n
  <2> QED BY <1>1, <1>2, FollowEnds
<1>4. p = Chase(c, v) BY DEF Chase
<1> HIDE DEF p, n
<1>5. /\ p \in Seq(Var) /\ Len(p) \in Nat \ {0} /\ p[1] = v
      /\ \A k \in 1 .. (Len(p) - 1) : n[p[k]] = p[k + 1]
  BY <1>3 DEF IsTrail
<1>6. Last(p) \in Var BY <1>5 DEF Last
<1>7. c[p[Len(p)]].tag # "Link" BY <1>1, <1>3, <1>6, LinksRules DEF n, Last
<1>8. ASSUME NEW k \in 1 .. (Len(p) - 1) PROVE c[p[k]] = Link(p[k + 1])
  <2>1. p[k] \in Var /\ p[k + 1] \in Var BY <1>5
  <2>2. n[p[k]] = p[k + 1] BY <1>5
  <2>3. n[p[k]] # Stop BY <2>1, <2>2, VarFacts
  <2> QED BY <1>1, <2>1, <2>2, <2>3, LinksRules DEF n
<1>9. IsPath(c, v, p) BY <1>5, <1>7, <1>8 DEF IsPath
<1>10. Path(c, v) = p BY <1>4, <1>9 DEF Path
<1> QED BY <1>4, <1>9, <1>10 DEF Root, End, Last, p, n

(* Root, by its equation. *)
LEMMA RootRules ==
    ASSUME NEW c, OkCells(c), NEW v \in Var
    PROVE  /\ Root(c, v) \in Var /\ c[Root(c, v)].tag # "Link"
           /\ c[v].tag # "Link" => Root(c, v) = v
           /\ \A w \in Var : c[v] = Link(w) => Root(c, v) = Root(c, w)
<1>1. c \in [Var -> Resolution] /\ Acyclic(Links(c)) /\ Links(c) \in Nexts
  BY LinksType DEF OkCells
<1>2. \A w \in Var : Root(c, w) = End(Links(c), w) BY PathIsTrail
<1>3. ASSUME NEW w \in Var, c[v] = Link(w) PROVE Root(c, v) = Root(c, w)
  <2>1. Links(c)[v] = w BY <1>1, <1>3, LinksRules
  <2> QED BY <1>1, <1>2, <2>1, EndRules, VarFacts
<1>4. End(Links(c), v) \in Var /\ Links(c)[End(Links(c), v)] = Stop BY <1>1, EndRules
<1>5. c[v].tag # "Link" => Root(c, v) = v BY <1>1, <1>2, EndRules, LinksRules
<1> QED BY <1>1, <1>2, <1>3, <1>4, <1>5, LinksRules

(* The equation determines it. *)
LEMMA RootIs ==
    ASSUME NEW c, OkCells(c), NEW rep \in [Var -> Var],
           \A v \in Var : c[v].tag # "Link" => rep[v] = v,
           \A v \in Var, w \in Var : c[v] = Link(w) => rep[v] = rep[w]
    PROVE  \A v \in Var : Root(c, v) = rep[v]
<1> DEFINE n == Links(c)
<1>1. c \in [Var -> Resolution] /\ Acyclic(n) /\ n \in Nexts
  BY LinksType DEF OkCells
<1>2. \A v \in Var : n[v] = Stop => rep[v] = v BY <1>1, LinksRules
<1>3. \A v \in Var : n[v] # Stop => rep[v] = rep[n[v]] BY <1>1, LinksRules
<1>4. \A v \in Var : Root(c, v) = End(n, v) BY PathIsTrail
<1> HIDE DEF n
<1> QED BY <1>1, <1>2, <1>3, <1>4, EndUnique

(* What holds of each root, and of each node if of the node it links to,   *)
(* holds of all.                                                           *)
LEMMA AlongLinks ==
    ASSUME NEW c, OkCells(c), NEW H \in SUBSET Var,
           \A v \in Var : c[v].tag # "Link" => v \in H,
           \A v \in Var, w \in H : c[v] = Link(w) => v \in H
    PROVE  H = Var
<1> DEFINE n == Links(c)
<1>1. c \in [Var -> Resolution] /\ Acyclic(n) /\ n \in Nexts
  BY LinksType DEF OkCells
<1>2. \A v \in Var : n[v] = Stop => v \in H BY <1>1, LinksRules
<1>3. \A v \in Var : n[v] \in H => v \in H
  <2> SUFFICES ASSUME NEW v \in Var, n[v] \in H PROVE v \in H OBVIOUS
  <2>1. n[v] \in Var /\ n[v] # Stop BY VarFacts
  <2>2. c[v] = Link(n[v]) BY <1>1, <2>1, LinksRules
  <2> QED BY <2>2
<1> HIDE DEF n
<1> QED BY <1>1, <1>2, <1>3, AlongTrails

(* No cycle arises in a table d if every set that d's links do not leave   *)
(* would, at least in part, not have been left by c's.                     *)
LEMMA StaysAcyclic ==
    ASSUME NEW n, Acyclic(n), NEW e,
           \A S \in SUBSET Var : S # {} /\ (\A v \in S : e[v] \in S) =>
              \E T \in SUBSET Var : T # {} /\ \A v \in T : n[v] \in T
    PROVE  Acyclic(e)
BY DEF Acyclic

(* A root that is bound, or bound to another head: no class changes.       *)
LEMMA BindCells ==
    ASSUME NEW c, OkCells(c), NEW a \in Var, c[a].tag # "Link", NEW h \in Heads
    PROVE  LET d == [c EXCEPT ![a] = Bound(h)] IN
           OkCells(d) /\ \A v \in Var : Root(d, v) = Root(c, v)
<1> DEFINE d == [c EXCEPT ![a] = Bound(h)]
<1>1. c \in [Var -> Resolution] /\ Bound(h) \in Resolution /\ Bound(h).tag = "Bound"
  BY DEF OkCells, Resolution, Bound
<1>2. /\ d \in [Var -> Resolution] /\ d[a] = Bound(h)
      /\ \A v \in Var : v # a => d[v] = c[v]
  BY <1>1
<1> HIDE DEF d
<1>3. \A v \in Var : d[v].tag = "Link" <=> c[v].tag = "Link"
  <2> SUFFICES ASSUME NEW v \in Var PROVE d[v].tag = "Link" <=> c[v].tag = "Link"
    OBVIOUS
  <2>1. CASE v = a BY <1>1, <1>2, <2>1
  <2>2. CASE v # a BY <1>2, <2>2
  <2> QED BY <2>1, <2>2
<1>4. \A v \in Var, w \in Var : d[v] = Link(w) => c[v] = Link(w)
  <2>1. \A w : Link(w).tag = "Link" BY DEF Link
  <2> QED BY <1>1, <1>2, <2>1
<1>5. Links(d) = Links(c)
  <2>1. \A v \in Var : c[v].tag = "Link" => d[v] = c[v] BY <1>2
  <2> QED BY <1>3, <2>1 DEF Links
<1>6. OkCells(d) BY <1>2, <1>5 DEF OkCells
<1> DEFINE rep == [v \in Var |-> Root(c, v)]
<1>7. rep \in [Var -> Var] /\ \A v \in Var : rep[v] = Root(c, v) BY RootRules
<1>8. \A v \in Var : d[v].tag # "Link" => rep[v] = v BY <1>3, <1>7, RootRules
<1>9. \A v \in Var, w \in Var : d[v] = Link(w) => rep[v] = rep[w]
  BY <1>4, <1>7, RootRules
<1> HIDE DEF rep
<1>10. \A v \in Var : Root(d, v) = rep[v] BY <1>6, <1>7, <1>8, <1>9, RootIs
<1> QED BY <1>6, <1>7, <1>10 DEF d

(* A root that becomes an alias of another root: its class joins the       *)
(* other's.                                                                *)
LEMMA LinkCells ==
    ASSUME NEW c, OkCells(c), NEW a \in Var, NEW b \in Var, a # b,
           c[a].tag # "Link", c[b].tag # "Link",
           NEW d \in [Var -> Resolution], d[a] = Link(b),
           \A v \in Var : v # a => d[v] = c[v]
    PROVE  /\ OkCells(d)
           /\ \A v \in Var : /\ Root(c, v) = a => Root(d, v) = b
                             /\ Root(c, v) # a => Root(d, v) = Root(c, v)
<1>1. c \in [Var -> Resolution] /\ Link(b) \in Resolution /\ Link(b).tag = "Link"
  BY DEF OkCells, Resolution, Link
<1>2. /\ d \in [Var -> Resolution] /\ d[a] = Link(b)
      /\ \A v \in Var : v # a => d[v] = c[v]
  OBVIOUS
<1>3. Root(c, a) = a /\ Root(c, b) = b BY RootRules
<1>4. Links(d)[a] = b /\ \A v \in Var : v # a => Links(d)[v] = Links(c)[v]
  <2>1. Link(b).to = b BY DEF Link
  <2> QED BY <1>1, <1>2, <2>1 DEF Links
<1>5. Acyclic(Links(d))
  <2> SUFFICES ASSUME NEW S \in SUBSET Var, S # {}, \A v \in S : Links(d)[v] \in S
               PROVE  \E T \in SUBSET Var : T # {} /\ \A v \in T : Links(c)[v] \in T
    BY StaysAcyclic DEF OkCells
  <2>1. CASE a \notin S BY <1>4, <2>1
  <2>2. CASE a \in S
    <3> DEFINE T == {v \in S : Root(c, v) # a}
    <3>1. b \in T BY <1>3, <1>4, <2>2
    <3>2. ASSUME NEW v \in T PROVE Links(c)[v] \in T
      <4>1. v \in S /\ v \in Var /\ v # a /\ Root(c, v) # a BY <1>3
      <4>2. Links(c)[v] \in S BY <1>4, <4>1
      <4>3. Links(c)[v] # Stop BY <4>2, VarFacts
      <4>4. c[v] = Link(Links(c)[v]) BY <1>1, <4>1, <4>3, LinksRules
      <4>5. Root(c, v) = Root(c, Links(c)[v]) BY <4>1, <4>2, <4>4, RootRules
      <4> QED BY <4>1, <4>2, <4>5
    <3>3. T \in SUBSET Var OBVIOUS
    <3> HIDE DEF T
    <3> QED BY <3>1, <3>2, <3>3
  <2> QED BY <2>1, <2>2
<1>6. OkCells(d) BY <1>2, <1>5 DEF OkCells
<1> DEFINE rep == [v \in Var |-> IF Root(c, v) = a THEN b ELSE Root(c, v)]
<1>7. rep \in [Var -> Var] BY RootRules
<1>8. \A v \in Var : rep[v] = IF Root(c, v) = a THEN b ELSE Root(c, v) OBVIOUS
<1> HIDE DEF rep
<1>9. \A v \in Var : d[v].tag # "Link" => rep[v] = v
  <2> SUFFICES ASSUME NEW v \in Var, d[v].tag # "Link" PROVE rep[v] = v OBVIOUS
  <2>1. v # a BY <1>1, <1>2
  <2>2. Root(c, v) = v BY <1>2, <2>1, RootRules
  <2> QED BY <1>8, <2>1, <2>2
<1>10. \A v \in Var, w \in Var : d[v] = Link(w) => rep[v] = rep[w]
  <2> SUFFICES ASSUME NEW v \in Var, NEW w \in Var, d[v] = Link(w)
               PROVE  rep[v] = rep[w]
    OBVIOUS
  <2>1. CASE v = a
    <3>1. w = b BY <1>2, <2>1 DEF Link
    <3> QED BY <1>3, <1>8, <2>1, <3>1
  <2>2. CASE v # a
    <3>1. Root(c, v) = Root(c, w) BY <1>2, <2>2, RootRules
    <3> QED BY <1>8, <3>1
  <2> QED BY <2>1, <2>2
<1>11. \A v \in Var : Root(d, v) = rep[v] BY <1>6, <1>7, <1>9, <1>10, RootIs
<1> QED BY <1>6, <1>8, <1>11

(* find rewrites links, and no class changes. *)
SameClasses(c, d) ==
    /\ OkCells(d)
    /\ \A v \in Var : /\ Root(d, v) = Root(c, v)
                      /\ d[v] = c[v] \/ (d[v].tag = "Link" /\ c[v].tag = "Link")

LEMMA FindCells ==
    ASSUME NEW t \in Tables, OkCells(t.cells), NEW id \in Var
    PROVE  SameClasses(t.cells, Find(t, id).cells)
<1> DEFINE c == t.cells
           n == Links(c)
           p == Path(c, id)
           r == Root(c, id)
           d == Find(t, id).cells
<1>1. c \in [Var -> Resolution] /\ Acyclic(n) /\ n \in Nexts
  BY LinksType DEF OkCells
<1>2. IsPath(c, id, p) /\ p[Len(p)] = r
  <2>1. p = Chase(c, id) BY PathIsTrail DEF Chase
  <2> QED BY <2>1, PathIsTrail DEF Root
<1>3. r \in Var /\ c[r].tag # "Link" /\ Root(c, r) = r BY RootRules
<1>4. /\ Link(r) \in Resolution /\ Link(r).tag = "Link" /\ Link(r).to = r
  BY <1>3 DEF Resolution, Link
<1>5. d = [x \in Var |-> IF \E k \in DOMAIN Stale(p) : Stale(p)[k] = x THEN Link(r)
                         ELSE c[x]]
  BY <1>1, <1>2 DEF Find, WriteAll
<1> HIDE DEF c, n, p, r, d
<1>6. /\ p \in Seq(Var) /\ Len(p) \in Nat \ {0} /\ p[1] = id
      /\ \A k \in 1 .. (Len(p) - 1) : c[p[k]] = Link(p[k + 1])
  BY <1>2 DEF IsPath
<1> DEFINE Old == {x \in Var : \E k \in DOMAIN Stale(p) : Stale(p)[k] = x}
<1>7. \A x \in Old : \E k \in 1 .. (Len(p) - 1) : p[k] = x
  <2> SUFFICES ASSUME NEW k \in DOMAIN Stale(p)
               PROVE  k \in 1 .. (Len(p) - 1) /\ Stale(p)[k] = p[k]
    OBVIOUS
  <2> QED BY <1>6 DEF Stale
<1> DEFINE H == {x \in Var : (\E k \in 1 .. Len(p) : p[k] = x) => Root(c, x) = r}
<1>8. \A k \in 1 .. Len(p) : Root(c, p[k]) = r
  <2>1. \A x \in Var : c[x].tag # "Link" => x \in H
    <3> SUFFICES ASSUME NEW k \in 1 .. Len(p), c[p[k]].tag # "Link"
                 PROVE  Root(c, p[k]) = r
      OBVIOUS
    <3>1. CASE k = Len(p) BY <1>2, <1>3, <3>1
    <3>2. CASE k # Len(p)
      <4>1. k \in 1 .. (Len(p) - 1) BY <1>6, <3>2
      <4>2. c[p[k]] = Link(p[k + 1]) BY <1>6, <4>1
      <4> QED BY <4>2 DEF Link
    <3> QED BY <3>1, <3>2
  <2>2. \A x \in Var, w \in H : c[x] = Link(w) => x \in H
    <3> SUFFICES ASSUME NEW w \in H, NEW k \in 1 .. Len(p), c[p[k]] = Link(w)
                 PROVE  Root(c, p[k]) = r
      OBVIOUS
    <3>1. k # Len(p) BY <1>2, <1>3 DEF Link
    <3>2. k \in 1 .. (Len(p) - 1) /\ k + 1 \in 1 .. Len(p) BY <1>6, <3>1
    <3>3. c[p[k]] = Link(p[k + 1]) BY <1>6, <3>2
    <3>4. p[k + 1] = w BY <3>3 DEF Link
    <3>5. Root(c, w) = r BY <3>2, <3>4
    <3>6. p[k] \in Var BY <1>6
    <3> QED BY <3>5, <3>6, RootRules DEF c
  <2>3. H = Var
    <3>1. H \in SUBSET Var OBVIOUS
    <3> HIDE DEF H
    <3> QED BY <2>1, <2>2, <3>1, AlongLinks DEF c
  <2>4. \A k \in 1 .. Len(p) : p[k] \in Var BY <1>6
  <2> QED BY <2>3, <2>4
<1>9. \A x \in Old : c[x].tag = "Link" /\ Root(c, x) = r /\ x # r
  <2> SUFFICES ASSUME NEW x \in Old PROVE c[x].tag = "Link" /\ Root(c, x) = r /\ x # r
    OBVIOUS
  <2>1. PICK k \in 1 .. (Len(p) - 1) : p[k] = x BY <1>7
  <2>2. c[x] = Link(p[k + 1]) /\ k \in 1 .. Len(p) BY <1>6, <2>1
  <2>3. c[x].tag = "Link" BY <2>2 DEF Link
  <2>4. x # r BY <1>3, <2>3
  <2> QED BY <1>8, <2>1, <2>2, <2>3, <2>4
<1>10. /\ \A x \in Old : d[x] = Link(r)
       /\ \A x \in Var : x \notin Old => d[x] = c[x]
  BY <1>5
<1>11. d \in [Var -> Resolution] BY <1>1, <1>4, <1>5
<1>12. Old \in SUBSET Var OBVIOUS
<1> HIDE DEF Old
<1>13. \A x \in Var : d[x] = c[x] \/ (d[x].tag = "Link" /\ c[x].tag = "Link")
  BY <1>4, <1>9, <1>10
<1>14. d[r].tag # "Link" BY <1>3, <1>9, <1>10
<1>15. Acyclic(Links(d))
  <2> SUFFICES ASSUME NEW S \in SUBSET Var, S # {}, \A v \in S : Links(d)[v] \in S
               PROVE  \E T \in SUBSET Var : T # {} /\ \A v \in T : n[v] \in T
    BY <1>1, StaysAcyclic
  <2>1. r \notin S BY <1>3, <1>11, <1>14, LinksRules, VarFacts
  <2>2. ASSUME NEW x \in S PROVE n[x] \in S
    <3>1. CASE x \in Old
      <4>1. d[x] = Link(r) BY <1>10, <3>1
      <4>2. Links(d)[x] = r BY <1>3, <1>11, <4>1, LinksRules
      <4> QED BY <2>1, <4>2
    <3>2. CASE x \notin Old
      <4>1. x \in Var /\ d[x] = c[x] BY <1>10, <3>2
      <4>2. Links(d)[x] = n[x] BY <4>1 DEF Links, n
      <4> QED BY <4>2
    <3> QED BY <3>1, <3>2
  <2> QED BY <2>2
<1>16. OkCells(d) BY <1>11, <1>15 DEF OkCells
<1> DEFINE rep == [v \in Var |-> Root(c, v)]
<1>17. rep \in [Var -> Var] /\ \A v \in Var : rep[v] = Root(c, v) BY RootRules DEF c
<1> HIDE DEF rep
<1>18. \A v \in Var : d[v].tag # "Link" => rep[v] = v
  BY <1>13, <1>17, RootRules DEF c
<1>19. \A v \in Var, w \in Var : d[v] = Link(w) => rep[v] = rep[w]
  <2> SUFFICES ASSUME NEW v \in Var, NEW w \in Var, d[v] = Link(w)
               PROVE  Root(c, v) = Root(c, w)
    BY <1>17
  <2>1. CASE v \in Old
    <3>1. w = r BY <1>10, <2>1 DEF Link
    <3> QED BY <1>3, <1>9, <2>1, <3>1
  <2>2. CASE v \notin Old
    <3>1. c[v] = Link(w) BY <1>10, <2>2
    <3> QED BY <3>1, RootRules DEF c
  <2> QED BY <2>1, <2>2
<1>20. \A v \in Var : Root(d, v) = rep[v] BY <1>16, <1>17, <1>18, <1>19, RootIs
<1> QED BY <1>13, <1>16, <1>17, <1>20 DEF SameClasses, c, d

LEMMA SameClassesTrans ==
    ASSUME NEW c, NEW d, NEW e, SameClasses(c, d), SameClasses(d, e)
    PROVE  SameClasses(c, e)
BY DEF SameClasses

LEMMA SameClassesRefl ==
    ASSUME NEW c, OkCells(c)
    PROVE  SameClasses(c, c)
BY DEF SameClasses

-----------------------------------------------------------------------------
(* The substitution.                                                       *)

OkMap(m) == m \in Maps /\ Acyclic(Aliases(m))

LEMMA EntryCases ==
    ASSUME NEW m \in Maps, NEW v \in Var
    PROVE  \/ m[v] = None /\ m[v].tag = "None"
           \/ m[v].tag = "Var" /\ m[v].id \in Var /\ m[v] = VarT(m[v].id)
           \/ m[v].tag = "Head" /\ m[v].head \in Heads /\ m[v] = HeadT(m[v].head)
<1>1. m[v] \in Type \cup {None} BY EntryTypes DEF Maps
<1>2. None.tag = "None" BY DEF None
<1> QED BY <1>1, <1>2, TypeCases

LEMMA Tags ==
    /\ \A x : VarT(x).tag = "Var" /\ VarT(x).id = x /\ VarT(x) # None
    /\ \A h : HeadT(h).tag = "Head" /\ HeadT(h).head = h /\ HeadT(h) # None
    /\ \A x, h : VarT(x) # HeadT(h)
BY DEF VarT, HeadT, None

LEMMA AliasesType ==
    ASSUME NEW m \in Maps
    PROVE  Aliases(m) \in Nexts
<1>1. \A v \in Var : m[v].tag = "Var" => m[v].id \in Var BY EntryCases
<1> QED BY <1>1 DEF Aliases, Nexts

LEMMA AliasesRules ==
    ASSUME NEW m \in Maps, NEW v \in Var
    PROVE  /\ Aliases(m)[v] # Stop => /\ Aliases(m)[v] \in Var
                                      /\ m[v] = VarT(Aliases(m)[v])
                                      /\ m[Aliases(m)[v]] # None
           /\ \A w \in Var : m[v] = VarT(w) /\ m[w] # None => Aliases(m)[v] = w
<1>1. Aliases(m)[v] = IF m[v].tag = "Var" /\ m[m[v].id] # None THEN m[v].id ELSE Stop
  BY DEF Aliases
<1> QED BY <1>1, EntryCases, Tags

(* resolve's walk is a chain, so the branch that gives up is not taken. *)
LEMMA ChainIsTrail ==
    ASSUME NEW m, OkMap(m), NEW v \in Var
    PROVE  /\ IsChain(m, v, SubstChase(m, v))
           /\ Chain(m, v) = Follow(Aliases(m), v)
           /\ Resolved(m, v) = m[End(Aliases(m), v)]
<1> DEFINE n == Aliases(m)
           p == Follow(n, v)
<1>1. m \in Maps /\ Acyclic(n) BY DEF OkMap
<1>2. n \in Nexts BY <1>1, AliasesType
<1>3. IsTrail(n, v, p) /\ n[Last(p)] = Stop
  <2> HIDE DEF n
  <2> QED BY <1>1, <1>2, FollowEnds
<1>4. p = SubstChase(m, v) BY DEF SubstChase
<1> HIDE DEF p, n
<1>5. /\ p \in Seq(Var) /\ Len(p) \in Nat \ {0} /\ p[1] = v
      /\ \A k \in 1 .. (Len(p) - 1) : n[p[k]] = p[k + 1]
  BY <1>3 DEF IsTrail
<1>6. Last(p) \in Var BY <1>5 DEF Last
<1>7. LET end == m[p[Len(p)]] IN end.tag = "Var" => m[end.id] = None
  <2> SUFFICES ASSUME m[Last(p)].tag = "Var", m[m[Last(p)].id] # None PROVE FALSE
    BY DEF Last
  <2>1. m[Last(p)].id \in Var /\ m[Last(p)] = VarT(m[Last(p)].id)
    BY <1>1, <1>6, EntryCases
  <2>2. n[Last(p)] = m[Last(p)].id BY <1>1, <1>6, <2>1, AliasesRules DEF n
  <2> QED BY <1>3, <2>1, <2>2, VarFacts
<1>8. ASSUME NEW k \in 1 .. (Len(p) - 1) PROVE m[p[k]] = VarT(p[k + 1])
  <2>1. p[k] \in Var /\ p[k + 1] \in Var BY <1>5
  <2>2. n[p[k]] = p[k + 1] BY <1>5
  <2>3. n[p[k]] # Stop BY <2>1, <2>2, VarFacts
  <2> QED BY <1>1, <2>1, <2>2, <2>3, AliasesRules DEF n
<1>9. IsChain(m, v, p) BY <1>5, <1>7, <1>8 DEF IsChain
<1>10. Chain(m, v) = p BY <1>4, <1>9 DEF Chain
<1> QED BY <1>4, <1>9, <1>10 DEF Resolved, End, Last, p, n

(* Following, by its equations. *)
Tip(m, v) == End(Aliases(m), v)

LEMMA TipRules ==
    ASSUME NEW m, OkMap(m), NEW v \in Var
    PROVE  /\ Tip(m, v) \in Var /\ Resolved(m, v) = m[Tip(m, v)]
           /\ \A x \in Var : m[Tip(m, v)] = VarT(x) => m[x] = None
           /\ Aliases(m)[v] = Stop => Tip(m, v) = v
           /\ Aliases(m)[v] # Stop => Tip(m, v) = Tip(m, Aliases(m)[v])
<1>1. m \in Maps /\ Acyclic(Aliases(m)) /\ Aliases(m) \in Nexts
  BY AliasesType DEF OkMap
<1>2. Tip(m, v) \in Var /\ Aliases(m)[Tip(m, v)] = Stop
  BY <1>1, EndRules DEF Tip
<1>3. \A x \in Var : m[Tip(m, v)] = VarT(x) => m[x] = None
  BY <1>1, <1>2, AliasesRules, VarFacts
<1> QED BY <1>1, <1>2, <1>3, ChainIsTrail, EndRules DEF Tip

LEMMA AlongAliases ==
    ASSUME NEW m, OkMap(m), NEW H \in SUBSET Var,
           \A v \in Var : Aliases(m)[v] = Stop => v \in H,
           \A v \in Var, w \in H : m[v] = VarT(w) /\ m[w] # None => v \in H
    PROVE  H = Var
<1> DEFINE n == Aliases(m)
<1>1. m \in Maps /\ Acyclic(n) /\ n \in Nexts
  BY AliasesType DEF OkMap
<1>2. \A v \in Var : n[v] \in H => v \in H
  <2> SUFFICES ASSUME NEW v \in Var, n[v] \in H PROVE v \in H OBVIOUS
  <2>1. n[v] \in Var /\ n[v] # Stop BY VarFacts
  <2>2. m[v] = VarT(n[v]) /\ m[n[v]] # None BY <1>1, <2>1, AliasesRules
  <2> QED BY <2>2
<1> HIDE DEF n
<1> QED BY <1>1, <1>2, AlongTrails DEF n

(* Only a variable without an entry resolves to none. *)
LEMMA ResolvedNone ==
    ASSUME NEW m, OkMap(m), NEW v \in Var
    PROVE  Resolved(m, v) = None <=> m[v] = None
<1>1. m \in Maps BY DEF OkMap
<1> DEFINE H == {x \in Var : m[x] # None => m[Tip(m, x)] # None}
<1>2. H = Var
  <2>1. \A x \in Var : Aliases(m)[x] = Stop => x \in H BY TipRules
  <2>2. \A x \in Var, w \in H : m[x] = VarT(w) /\ m[w] # None => x \in H
    <3> SUFFICES ASSUME NEW x \in Var, NEW w \in H, m[x] = VarT(w), m[w] # None
                 PROVE  m[Tip(m, x)] # None
      OBVIOUS
    <3>1. Aliases(m)[x] = w /\ w \in Var BY <1>1, AliasesRules
    <3>2. Tip(m, x) = Tip(m, w) BY <3>1, TipRules, VarFacts
    <3> QED BY <3>2
  <2>3. H \in SUBSET Var OBVIOUS
  <2> HIDE DEF H
  <2> QED BY <2>1, <2>2, <2>3, AlongAliases
<1>3. ASSUME m[v] = None PROVE m[Tip(m, v)] = None
  <2>1. Aliases(m)[v] = Stop
    <3>1. m[v].tag = "None" BY <1>3 DEF None
    <3> QED BY <3>1 DEF Aliases
  <2> QED BY <1>3, <2>1, TipRules
<1> QED BY <1>2, <1>3, TipRules

-----------------------------------------------------------------------------
(* The tables together.                                                    *)

(* A head of the substitution fits the table's: it is the same, or the row *)
(* that rebind_var replaced by the array.                                  *)
Fits(ty, h) == ty = HeadT(h) \/ (ty = HeadT(ArrayOf) /\ h = ArrayLikeRow)

Good(c, m) ==
    /\ OkCells(c) /\ OkMap(m)
    /\ \A v \in Var : m[v] = None <=> c[v] = Unbound
    /\ \A x, y \in Var : m[x] = VarT(y) => Root(c, x) = Root(c, y)
    /\ \A x \in Var, h \in Heads : m[x] = HeadT(h) => Fits(ZonkHead(c, VarT(x)), h)

LEMMA ZonkVar ==
    ASSUME NEW c, OkCells(c), NEW v \in Var
    PROVE  /\ c[Root(c, v)].tag = "Bound" =>
                 /\ ZonkHead(c, VarT(v)) = HeadT(c[Root(c, v)].head)
                 /\ c[Root(c, v)].head \in Heads
           /\ c[Root(c, v)].tag # "Bound" =>
                 /\ ZonkHead(c, VarT(v)) = VarT(Root(c, v))
                 /\ c[Root(c, v)] = Unbound
<1>1. Root(c, v) \in Var /\ c[Root(c, v)].tag # "Link" /\ c \in [Var -> Resolution]
  BY RootRules DEF OkCells
<1>2. c[Root(c, v)] \in Resolution BY <1>1
<1> QED BY <1>1, <1>2, CellCases, Tags DEF ZonkHead

(* Aliases of the substitution stay in one class. *)
LEMMA TipInClass ==
    ASSUME NEW c, NEW m, Good(c, m), NEW v \in Var
    PROVE  Root(c, v) = Root(c, Tip(m, v))
<1> DEFINE H == {x \in Var : Root(c, x) = Root(c, Tip(m, x))}
<1>0. OkMap(m) /\ m \in Maps BY DEF Good, OkMap
<1>1. \A x \in Var : Aliases(m)[x] = Stop => x \in H BY <1>0, TipRules
<1>2. \A x \in Var, w \in H : m[x] = VarT(w) /\ m[w] # None => x \in H
  <2> SUFFICES ASSUME NEW x \in Var, NEW w \in H, m[x] = VarT(w), m[w] # None
               PROVE  Root(c, x) = Root(c, Tip(m, x))
    OBVIOUS
  <2>1. Aliases(m)[x] = w /\ w \in Var BY <1>0, AliasesRules
  <2>2. Tip(m, x) = Tip(m, w) BY <1>0, <2>1, TipRules, VarFacts
  <2>3. Root(c, x) = Root(c, w) BY <2>1 DEF Good
  <2> QED BY <2>2, <2>3
<1>3. H = Var
  <2>1. H \in SUBSET Var OBVIOUS
  <2> HIDE DEF H
  <2> QED BY <1>0, <1>1, <1>2, <2>1, AlongAliases
<1> QED BY <1>3

(* What a reader of each table sees of v agrees, but for a rebound row.    *)
LEMMA ReadersAgree ==
    ASSUME NEW c, NEW m, Good(c, m), NEW v \in Var
    PROVE  /\ m[v] = None => ZonkHead(c, VarT(v)) = VarT(v)
           /\ m[v] # None =>
                 \/ /\ Resolved(m, v).tag = "Var" /\ ZonkHead(c, VarT(v)) = Resolved(m, v)
                    /\ \E x \in Var : Resolved(m, v) = VarT(x) /\ m[x] = None
                 \/ \E h \in Heads : /\ Resolved(m, v) = HeadT(h)
                                     /\ Fits(ZonkHead(c, VarT(v)), h)
<1>0. OkMap(m) /\ m \in Maps /\ OkCells(c) BY DEF Good, OkMap
<1>1. ASSUME NEW x \in Var, m[x] = None PROVE Root(c, x) = x /\ c[x] = Unbound
  <2>1. c[x] = Unbound BY <1>1 DEF Good
  <2>2. c[x].tag # "Link" BY <2>1 DEF Unbound
  <2> QED BY <1>0, <2>1, <2>2, RootRules
<1>2. ASSUME NEW x \in Var, m[x] = None, NEW y \in Var, Root(c, y) = x
      PROVE  ZonkHead(c, VarT(y)) = VarT(x)
  <2>1. c[Root(c, y)].tag # "Bound" BY <1>1, <1>2 DEF Unbound
  <2> QED BY <1>0, <1>2, <2>1, ZonkVar
<1>3. ASSUME m[v] # None
      PROVE  \/ /\ Resolved(m, v).tag = "Var" /\ ZonkHead(c, VarT(v)) = Resolved(m, v)
                /\ \E x \in Var : Resolved(m, v) = VarT(x) /\ m[x] = None
             \/ \E h \in Heads : /\ Resolved(m, v) = HeadT(h)
                                 /\ Fits(ZonkHead(c, VarT(v)), h)
  <2> DEFINE e == Tip(m, v)
  <2>1. e \in Var /\ Resolved(m, v) = m[e] /\ m[e] # None
    BY <1>0, <1>3, TipRules, ResolvedNone
  <2>2. Root(c, v) = Root(c, e) BY TipInClass
  <2>3. \A x \in Var : m[e] = VarT(x) => m[x] = None BY <1>0, TipRules
  <2> HIDE DEF e
  <2>4. CASE m[e].tag = "Var"
    <3>1. PICK x \in Var : m[e] = VarT(x) BY <1>0, <2>1, <2>4, EntryCases
    <3>2. m[x] = None BY <2>3, <3>1
    <3>3. Root(c, e) = Root(c, x) BY <2>1, <3>1 DEF Good
    <3>4. Root(c, v) = x BY <1>1, <2>2, <3>2, <3>3
    <3> QED BY <1>2, <2>1, <3>1, <3>2, <3>4, Tags
  <2>5. CASE m[e].tag # "Var"
    <3>1. PICK h \in Heads : m[e] = HeadT(h) BY <1>0, <2>1, <2>5, EntryCases
    <3>2. Fits(ZonkHead(c, VarT(e)), h) BY <2>1, <3>1 DEF Good
    <3>3. ZonkHead(c, VarT(e)) = ZonkHead(c, VarT(v)) BY <2>2, Tags DEF ZonkHead
    <3> QED BY <2>1, <3>1, <3>2, <3>3
  <2> QED BY <2>4, <2>5
<1> QED BY <1>1, <1>2, <1>3

-----------------------------------------------------------------------------
(* Writes keep the tables good.                                            *)

(* A class that has a head keeps it. *)
Grows(c, d) == \A x \in Var : \A h \in Heads :
    ZonkHead(c, VarT(x)) = HeadT(h) => ZonkHead(d, VarT(x)) = HeadT(h)

LEMMA SameHeads ==
    ASSUME NEW c, OkCells(c), NEW d, SameClasses(c, d), NEW v \in Var
    PROVE  ZonkHead(d, VarT(v)) = ZonkHead(c, VarT(v))
<1>1. Root(d, v) = Root(c, v) /\ Root(c, v) \in Var /\ c[Root(c, v)].tag # "Link"
  BY RootRules DEF SameClasses
<1>2. d[Root(c, v)] = c[Root(c, v)] BY <1>1 DEF SameClasses
<1> QED BY <1>1, <1>2, Tags DEF ZonkHead

LEMMA FindGood ==
    ASSUME NEW c, NEW m, Good(c, m), NEW d, SameClasses(c, d)
    PROVE  Good(d, m) /\ Grows(c, d)
<1>1. OkCells(c) /\ OkMap(m) /\ OkCells(d) BY DEF Good, SameClasses
<1>2. \A v \in Var : ZonkHead(d, VarT(v)) = ZonkHead(c, VarT(v)) BY <1>1, SameHeads
<1>3. \A v \in Var : d[v] = Unbound <=> c[v] = Unbound
  BY DEF SameClasses, Unbound
<1>4. \A v \in Var : Root(d, v) = Root(c, v) BY DEF SameClasses
<1> QED BY <1>1, <1>2, <1>3, <1>4 DEF Good, Grows

(* resolve's path compression. *)
LEMMA ResolveGood ==
    ASSUME NEW c, NEW s \in Substs, Good(c, s.map), NEW v \in Var
    PROVE  Good(c, Resolve(s, v).map)
<1> DEFINE m == s.map
           g == Resolve(s, v).map
           p == Chain(m, v)
           e == Tip(m, v)
<1>0. m \in Maps /\ OkMap(m) /\ OkCells(c) BY DEF Good, OkMap
<1>1. g \in Maps BY ResolveLogged DEF LoggedSub, Substs
<1>2. Resolved(m, v) = m[e] /\ e \in Var BY <1>0, TipRules
<1>3. g = WriteAll(m, Compressed(m, v), m[e]) BY <1>2 DEF Resolve
<1>4. DOMAIN m = Key /\ \A x \in Var : x \in Key BY <1>0, EntryTypes DEF Maps
<1>5. CASE m[v].tag # "Var"
  <2>1. Compressed(m, v) = <<>> BY <1>5 DEF Compressed
  <2>2. \A x \in Key : g[x] = m[x] BY <1>3, <1>4, <2>1 DEF WriteAll
  <2>3. g = [x \in Key |-> g[x]] /\ m = [x \in Key |-> m[x]] BY <1>0, <1>1 DEF Maps
  <2>4. g = m
    <3> HIDE DEF g, m
    <3> QED BY <2>2, <2>3
  <2> QED BY <2>4
<1>6. CASE m[v].tag = "Var"
  <2>1. Compressed(m, v) = p BY <1>6 DEF Compressed
  <2>2. IsChain(m, v, p)
    <3>1. p = SubstChase(m, v) BY <1>0, ChainIsTrail DEF SubstChase
    <3> QED BY <1>0, <3>1, ChainIsTrail
  <2>3. m[e] # None BY <1>0, <1>2, <1>6, ResolvedNone DEF None
  <2>4. p[Len(p)] = e
    <3>1. p = Follow(Aliases(m), v) BY <1>0, ChainIsTrail
    <3> QED BY <3>1 DEF Tip, End, Last
  <2> DEFINE On == {x \in Var : \E k \in DOMAIN p : p[k] = x}
  <2>5. \A x \in Var : g[x] = IF x \in On THEN m[e] ELSE m[x]
    BY <1>3, <1>4, <2>1 DEF WriteAll
  <2>6. \A y \in Var : m[e] = VarT(y) => m[y] = None BY <1>0, TipRules
  <2> HIDE DEF m, g, p, e
  <2>7. /\ p \in Seq(Var) /\ Len(p) \in Nat \ {0} /\ DOMAIN p = 1 .. Len(p)
        /\ \A k \in 1 .. (Len(p) - 1) : m[p[k]] = VarT(p[k + 1])
    BY <2>2 DEF IsChain
  <2>8. \A x \in On : m[x] # None
    <3> SUFFICES ASSUME NEW k \in DOMAIN p PROVE m[p[k]] # None OBVIOUS
    <3>1. CASE k = Len(p) BY <2>3, <2>4, <3>1
    <3>2. CASE k # Len(p)
      <4>1. k \in 1 .. (Len(p) - 1) BY <2>7, <3>2
      <4> QED BY <2>7, <4>1, Tags
    <3> QED BY <3>1, <3>2
  <2>9. \A x \in On : Root(c, x) = Root(c, e)
    <3> DEFINE H == {x \in Var : x \in On => Tip(m, x) = e}
    <3>1. H = Var
      <4>1. \A x \in Var : Aliases(m)[x] = Stop => x \in H
        <5> SUFFICES ASSUME NEW k \in DOMAIN p, Aliases(m)[p[k]] = Stop
                     PROVE  Tip(m, p[k]) = e
          BY DEF On
        <5>1. p[k] \in Var BY <2>7
        <5>2. k = Len(p)
          <6> SUFFICES ASSUME k # Len(p) PROVE FALSE OBVIOUS
          <6>1. k \in 1 .. (Len(p) - 1) /\ k + 1 \in DOMAIN p BY <2>7
          <6>2. p[k + 1] \in Var /\ p[k + 1] \in On BY <2>7, <6>1
          <6>3. m[p[k]] = VarT(p[k + 1]) /\ m[p[k + 1]] # None BY <2>7, <2>8, <6>1, <6>2
          <6>4. Aliases(m)[p[k]] = p[k + 1]
            BY <1>0, <5>1, <6>2, <6>3, AliasesRules DEF m
          <6> QED BY <6>2, <6>4, VarFacts
        <5> QED BY <1>0, <2>4, <5>1, <5>2, TipRules DEF m
      <4>2. \A x \in Var, w \in H : m[x] = VarT(w) /\ m[w] # None => x \in H
        <5> SUFFICES ASSUME NEW w \in H, NEW k \in DOMAIN p,
                            m[p[k]] = VarT(w), m[w] # None
                     PROVE  Tip(m, p[k]) = e
          BY DEF On
        <5>1. p[k] \in Var /\ w \in Var BY <2>7
        <5>2. Aliases(m)[p[k]] = w BY <1>0, <5>1, AliasesRules DEF m
        <5>3. Tip(m, p[k]) = Tip(m, w) BY <1>0, <5>1, <5>2, TipRules, VarFacts DEF m
        <5>4. k # Len(p) BY <2>4, <2>6, <5>1
        <5>5. k \in 1 .. (Len(p) - 1) /\ k + 1 \in DOMAIN p BY <2>7, <5>4
        <5>6. m[p[k]] = VarT(p[k + 1]) BY <2>7, <5>5
        <5>7. w = p[k + 1] BY <5>6 DEF VarT
        <5>8. w \in On BY <5>1, <5>5, <5>7
        <5> QED BY <5>3, <5>8
      <4>3. H \in SUBSET Var OBVIOUS
      <4> HIDE DEF H
      <4> QED BY <1>0, <4>1, <4>2, <4>3, AlongAliases DEF m
    <3>2. \A x \in On : x \in Var /\ Tip(m, x) = e BY <3>1
    <3> QED BY <3>2, TipInClass DEF m
  <2>10. On \in SUBSET Var OBVIOUS
  <2> HIDE DEF On
  <2>11. \A x \in Var : g[x] = None <=> m[x] = None BY <2>3, <2>5, <2>8
  <2>12. ASSUME NEW x \in Var, NEW y \in Var, g[x] = VarT(y)
         PROVE  Root(c, x) = Root(c, y)
    <3>1. CASE x \in On
      <4>1. m[e] = VarT(y) BY <2>5, <2>12, <3>1
      <4>2. Root(c, e) = Root(c, y) BY <1>2, <4>1 DEF Good, m
      <4> QED BY <2>9, <3>1, <4>2
    <3>2. CASE x \notin On
      <4>1. m[x] = VarT(y) BY <2>5, <2>12, <3>2
      <4> QED BY <4>1 DEF Good, m
    <3> QED BY <3>1, <3>2
  <2>13. ASSUME NEW x \in Var, NEW h \in Heads, g[x] = HeadT(h)
         PROVE  Fits(ZonkHead(c, VarT(x)), h)
    <3>1. CASE x \in On
      <4>1. m[e] = HeadT(h) BY <2>5, <2>13, <3>1
      <4>2. Fits(ZonkHead(c, VarT(e)), h) BY <1>2, <4>1 DEF Good, m
      <4>3. ZonkHead(c, VarT(x)) = ZonkHead(c, VarT(e))
        BY <2>9, <3>1, Tags DEF ZonkHead
      <4> QED BY <4>2, <4>3
    <3>2. CASE x \notin On
      <4>1. m[x] = HeadT(h) BY <2>5, <2>13, <3>2
      <4> QED BY <4>1 DEF Good, m
    <3> QED BY <3>1, <3>2
  <2>14. Acyclic(Aliases(g))
    <3> SUFFICES ASSUME NEW S \in SUBSET Var, S # {}, \A x \in S : Aliases(g)[x] \in S
                 PROVE  \A x \in S : Aliases(m)[x] \in S
      BY <1>0, StaysAcyclic DEF OkMap, m
    <3>1. TAKE x \in S
    <3>2. Aliases(g)[x] \in Var /\ Aliases(g)[x] # Stop /\ x \in Var BY VarFacts
    <3>3. g[x] = VarT(Aliases(g)[x]) /\ g[Aliases(g)[x]] # None
      BY <1>1, <3>2, AliasesRules DEF g
    <3>4. x \notin On BY <2>5, <2>6, <2>11, <3>2, <3>3
    <3>5. m[x] = VarT(Aliases(g)[x]) /\ m[Aliases(g)[x]] # None
      BY <2>5, <2>11, <3>2, <3>3, <3>4
    <3>6. Aliases(m)[x] = Aliases(g)[x] BY <1>0, <3>2, <3>5, AliasesRules DEF m
    <3> QED BY <3>6
  <2>15. \A x \in Var : g[x] = None <=> c[x] = Unbound BY <2>11 DEF Good, m
  <2> QED BY <1>0, <1>1, <2>12, <2>13, <2>14, <2>15 DEF Good, OkMap, g
<1> QED BY <1>5, <1>6

(* An entry of a presence variable. *)
LEMMA PresenceGood ==
    ASSUME NEW c, NEW m, Good(c, m), NEW key \in PVar, NEW g \in Maps, NEW e,
           g = [m EXCEPT ![key] = e]
    PROVE  Good(c, g)
<1>1. OkMap(m) /\ m \in Maps /\ DOMAIN m = Key BY DEF Good, OkMap, Maps
<1>2. \A x \in Var : x # key BY StoreAssumption
<1>3. \A x \in Var : g[x] = m[x] BY <1>1, <1>2, EntryTypes
<1>4. Aliases(g) = Aliases(m)
  <2>1. \A x \in Var : m[x].tag = "Var" => m[x].id \in Var BY <1>1, EntryCases
  <2>2. \A x \in Var : (g[x].tag = "Var" /\ g[g[x].id] # None) <=>
                       (m[x].tag = "Var" /\ m[m[x].id] # None)
    BY <1>3, <2>1
  <2> QED BY <1>3, <2>2 DEF Aliases
<1> QED BY <1>1, <1>3, <1>4 DEF Good, OkMap

(* Cells d are c with head h for the free class of a.                       *)
HeadGiven(c, d, a, h) ==
    /\ OkCells(d) /\ c[a] = Unbound /\ h \in Heads /\ d[a] = Bound(h)
    /\ \A x \in Var : (x # a => d[x] = c[x]) /\ Root(d, x) = Root(c, x)

(* Cells d are c with the free class of a made part of that of root b.      *)
ClassJoined(c, d, a, b) ==
    /\ OkCells(d) /\ c[a] = Unbound /\ b \in Var /\ a # b /\ c[b].tag # "Link"
    /\ d[a] = Link(b)
    /\ \A x \in Var : /\ x # a => d[x] = c[x]
                      /\ Root(c, x) = a => Root(d, x) = b
                      /\ Root(c, x) # a => Root(d, x) = Root(c, x)

(* mirror_extend, of a free variable and a type in another class: it       *)
(* compresses, and then writes one cell.                                   *)
LEMMA MirrorWrites ==
    ASSUME NEW t \in Tables, OkCells(t.cells), NEW v \in Var, t.cells[v] = Unbound,
           NEW ty \in Type, ty.tag = "Var" => Root(t.cells, ty.id) # v
    PROVE  \E f : /\ SameClasses(t.cells, f)
                  /\ \/ /\ ty.tag = "Head"
                        /\ HeadGiven(f, MirrorExtend(t, v, ty).cells, v, ty.head)
                     \/ /\ ty.tag = "Var"
                        /\ ClassJoined(f, MirrorExtend(t, v, ty).cells, v, Root(f, ty.id))
<1> DEFINE c == t.cells
           found == IF ty.tag = "Var" THEN Find(Find(t, v), ty.id) ELSE Find(t, v)
           f == found.cells
           d == MirrorExtend(t, v, ty).cells
<1>1. found \in Tables /\ SameClasses(c, f)
  <2>1. Find(t, v) \in Tables /\ SameClasses(c, Find(t, v).cells)
    BY FindLogged, FindCells DEF LoggedTab
  <2>2. OkCells(Find(t, v).cells) BY <2>1 DEF SameClasses
  <2>3. CASE ty.tag = "Var"
    <3>1. ty.id \in Var BY <2>3, TypeCases
    <3>2. /\ Find(Find(t, v), ty.id) \in Tables
          /\ SameClasses(Find(t, v).cells, Find(Find(t, v), ty.id).cells)
      BY <2>1, <2>2, <3>1, FindLogged, FindCells DEF LoggedTab
    <3>3. SameClasses(c, Find(Find(t, v), ty.id).cells)
      BY <2>1, <3>2, SameClassesTrans
    <3> QED BY <2>3, <3>2, <3>3
  <2> QED BY <2>1, <2>3
<1>2. f[v] = Unbound /\ f[v].tag # "Link" /\ Root(f, v) = v /\ OkCells(f)
  <2>1. OkCells(f) BY <1>1 DEF SameClasses
  <2>2. f[v] = Unbound BY <1>1 DEF SameClasses, Unbound
  <2> QED BY <2>1, <2>2, RootRules DEF Unbound
<1>3. IsFree(found, v) BY <1>2 DEF IsFree
<1>4. CASE ty.tag = "Head"
  <2>1. PICK h \in Heads : ty = HeadT(h) BY <1>4, TypeCases
  <2>2. d = [f EXCEPT ![v] = Bound(h)]
    <3>1. MirrorExtend(t, v, ty) = BindShared(found, v, h)
      BY <1>2, <1>3, <1>4, <2>1, Tags DEF MirrorExtend
    <3> QED BY <3>1 DEF BindShared, WriteCell
  <2> HIDE DEF c, d, f, found
  <2>3. OkCells(d) /\ \A x \in Var : Root(d, x) = Root(f, x)
    BY <1>2, <2>2, BindCells
  <2>4. d[v] = Bound(h) /\ \A x \in Var : x # v => d[x] = f[x]
    BY <1>2, <2>2 DEF OkCells
  <2>5. HeadGiven(f, d, v, ty.head) BY <1>2, <2>1, <2>3, <2>4, Tags DEF HeadGiven
  <2> QED BY <1>1, <1>4, <2>5 DEF c, d
<1>5. CASE ty.tag = "Var"
  <2>1. PICK b \in Var : ty = VarT(b) BY <1>5, TypeCases
  <2> DEFINE r == Root(f, b)
  <2>2. r \in Var /\ f[r].tag # "Link" /\ r # v /\ ty.id = b
    <3>1. Root(f, b) = Root(c, b) BY <1>1, <2>1 DEF SameClasses
    <3>2. Root(c, b) # v BY <1>5, <2>1, Tags
    <3> HIDE DEF f, c
    <3> QED BY <1>2, <2>1, <3>1, <3>2, RootRules, Tags
  <2>3. d = [f EXCEPT ![v] = Link(r)]
    <3>1. ty.tag # "Head" BY <1>5
    <3>2. MirrorExtend(t, v, ty) = LinkToRoot(found, v, r)
      BY <1>2, <1>3, <2>2, <3>1 DEF MirrorExtend
    <3> QED BY <2>2, <3>2 DEF LinkToRoot, WriteCell
  <2> HIDE DEF c, d, f, found
  <2>4. r = Root(f, ty.id) BY <2>2
  <2> HIDE DEF r
  <2>5. Link(r) \in Resolution /\ f \in [Var -> Resolution]
    BY <1>2, <2>2 DEF Resolution, OkCells
  <2>6. /\ d \in [Var -> Resolution] /\ d[v] = Link(r)
        /\ \A x \in Var : x # v => d[x] = f[x]
    BY <2>3, <2>5
  <2>7. /\ OkCells(d)
        /\ \A x \in Var : /\ Root(f, x) = v => Root(d, x) = r
                          /\ Root(f, x) # v => Root(d, x) = Root(f, x)
    BY <1>2, <2>2, <2>6, LinkCells
  <2>8. ClassJoined(f, d, v, r) BY <1>2, <2>2, <2>6, <2>7 DEF ClassJoined
  <2> QED BY <1>1, <1>5, <2>4, <2>8 DEF c, d
<1> QED BY <1>4, <1>5, TypeCases

(* extend_subst's write, when the variable has no entry and the type is in *)
(* another class.                                                          *)
LEMMA ExtendFreshGood ==
    ASSUME NEW st \in Stores, Good(st.tab.cells, st.sub.map), NEW v \in Var,
           st.sub.map[v] = None, NEW ty \in Type,
           ty.tag = "Var" => Root(st.tab.cells, ty.id) # v
    PROVE  LET u == ExtendFresh(st, v, ty) IN
           /\ Good(u.tab.cells, u.sub.map)
           /\ Grows(st.tab.cells, u.tab.cells)
<1> DEFINE c == st.tab.cells
           m == st.sub.map
           d == ExtendFresh(st, v, ty).tab.cells
           g == ExtendFresh(st, v, ty).sub.map
<1>0. /\ OkCells(c) /\ OkMap(m) /\ m \in Maps /\ st.tab \in Tables
      /\ st.sub \in Substs /\ DOMAIN m = Key
  BY DEF Good, OkMap, Stores, Maps
<1>1. PICK f : /\ SameClasses(c, f)
               /\ \/ /\ ty.tag = "Head"
                     /\ HeadGiven(f, MirrorExtend(st.tab, v, ty).cells, v, ty.head)
                  \/ /\ ty.tag = "Var"
                     /\ ClassJoined(f, MirrorExtend(st.tab, v, ty).cells, v, Root(f, ty.id))
  <2>1. c[v] = Unbound BY DEF Good
  <2> QED BY <1>0, <2>1, MirrorWrites
<1>2. Good(f, m) /\ Grows(c, f) BY <1>1, FindGood
<1>3. f[v] = Unbound /\ f[v].tag # "Link" /\ Root(f, v) = v /\ OkCells(f)
  <2>1. f[v] = Unbound BY <1>2 DEF Good
  <2> QED BY <1>2, <2>1, RootRules DEF Good, Unbound
<1>4. /\ g = [m EXCEPT ![v] = ty] /\ g \in Maps
      /\ d = MirrorExtend(st.tab, v, ty).cells
  <2>1. /\ ExtendFresh(st, v, ty).sub = Insert(st.sub, v, ty)
        /\ ExtendFresh(st, v, ty).tab = MirrorExtend(st.tab, v, ty)
    BY DEF ExtendFresh, Stores
  <2>2. ExtendFresh(st, v, ty).sub \in Substs
    BY ExtendFreshLogged DEF LoggedStore, LoggedSub
  <2> QED BY <2>1, <2>2 DEF Insert, Substs
<1>5. g[v] = ty /\ (\A x \in Var : x # v => g[x] = m[x]) /\ ty # None
  BY <1>0, <1>4, EntryTypes, TypeCases, Tags
<1>6. CASE ty.tag = "Head"
  <2>1. PICK h \in Heads : ty = HeadT(h) BY <1>6, TypeCases
  <2>2. HeadGiven(f, d, v, h) BY <1>1, <1>4, <1>6, <2>1, Tags
  <2> HIDE DEF c, m, d, g
  <2>3. OkCells(d) /\ \A x \in Var : Root(d, x) = Root(f, x)
    BY <2>2 DEF HeadGiven
  <2>4. d[v] = Bound(h) /\ \A x \in Var : x # v => d[x] = f[x]
    BY <2>2 DEF HeadGiven
  <2>5. \A x \in Var : g[x] = None <=> d[x] = Unbound
    BY <1>2, <1>5, <2>4 DEF Good, Unbound, Bound
  <2>6. \A x, y \in Var : g[x] = VarT(y) => Root(d, x) = Root(d, y)
    BY <1>2, <1>5, <2>1, <2>3, Tags DEF Good
  <2>7. ASSUME NEW x \in Var, NEW k \in Heads, ZonkHead(f, VarT(x)) = HeadT(k)
        PROVE  ZonkHead(d, VarT(x)) = HeadT(k)
    <3>1. Root(f, x) # v /\ Root(f, x) \in Var
      BY <1>3, <2>7, ZonkVar, RootRules, Tags DEF Unbound
    <3>2. ZonkHead(d, VarT(x)) = ZonkHead(f, VarT(x))
      BY <2>3, <2>4, <3>1, Tags DEF ZonkHead
    <3> QED BY <2>7, <3>2
  <2>8. ASSUME NEW x \in Var, NEW k \in Heads, g[x] = HeadT(k)
        PROVE  Fits(ZonkHead(d, VarT(x)), k)
    <3>1. CASE x = v
      <4>1. k = h BY <1>5, <2>1, <2>8, <3>1 DEF HeadT
      <4>2. d[Root(d, v)] = Bound(h) BY <1>3, <2>3, <2>4
      <4>3. ZonkHead(d, VarT(v)) = HeadT(h)
        BY <2>3, <4>2, ZonkVar DEF Bound
      <4> QED BY <3>1, <4>1, <4>3 DEF Fits
    <3>2. CASE x # v
      <4>1. Fits(ZonkHead(f, VarT(x)), k) BY <1>2, <1>5, <2>8, <3>2 DEF Good
      <4>2. ArrayOf \in Heads BY StoreAssumption
      <4> QED BY <2>7, <4>1, <4>2 DEF Fits
    <3> QED BY <3>1, <3>2
  <2>9. Acyclic(Aliases(g))
    <3> SUFFICES ASSUME NEW S \in SUBSET Var, S # {}, \A x \in S : Aliases(g)[x] \in S
                 PROVE  \A x \in S : Aliases(m)[x] \in S
      BY <1>0, StaysAcyclic DEF OkMap
    <3>1. TAKE x \in S
    <3>2. \A z \in S : /\ Aliases(g)[z] \in S /\ Aliases(g)[z] # Stop /\ z \in Var
                       /\ g[z] = VarT(Aliases(g)[z]) /\ g[Aliases(g)[z]] # None
      <4>1. TAKE z \in S
      <4>2. z \in Var /\ Aliases(g)[z] \in Var /\ Aliases(g)[z] # Stop BY VarFacts
      <4> QED BY <1>4, <4>2, AliasesRules
    <3>3. v \notin S BY <1>5, <2>1, <3>2, Tags
    <3>4. m[x] = VarT(Aliases(g)[x]) /\ m[Aliases(g)[x]] # None
      BY <1>5, <3>2, <3>3
    <3>5. Aliases(m)[x] = Aliases(g)[x] BY <1>0, <3>2, <3>4, AliasesRules
    <3> QED BY <3>2, <3>5
  <2>10. Good(d, g) BY <1>4, <2>3, <2>5, <2>6, <2>8, <2>9 DEF Good, OkMap
  <2>11. Grows(c, d) BY <1>2, <2>7 DEF Grows
  <2> QED BY <2>10, <2>11 DEF c, d, g
<1>7. CASE ty.tag = "Var"
  <2>1. PICK b \in Var : ty = VarT(b) BY <1>7, TypeCases
  <2> DEFINE r == Root(f, b)
  <2>2. ClassJoined(f, d, v, r) BY <1>1, <1>4, <1>7, <2>1, Tags
  <2> HIDE DEF c, m, d, g
  <2>3. r \in Var /\ f[r].tag # "Link" /\ r # v /\ Root(f, r) = r /\ Root(f, b) = r
    BY <1>3, <2>2, RootRules DEF ClassJoined
  <2>4. /\ OkCells(d)
        /\ \A x \in Var : /\ Root(f, x) = v => Root(d, x) = r
                          /\ Root(f, x) # v => Root(d, x) = Root(f, x)
    BY <2>2 DEF ClassJoined
  <2>5. d[v] = Link(r) /\ \A x \in Var : x # v => d[x] = f[x]
    BY <2>2 DEF ClassJoined
  <2> HIDE DEF r
  <2>6. \A x \in Var : g[x] = None <=> d[x] = Unbound
    BY <1>2, <1>5, <2>5 DEF Good, Unbound, Link
  <2>7. ASSUME NEW x \in Var, NEW y \in Var, g[x] = VarT(y)
        PROVE  Root(d, x) = Root(d, y)
    <3>1. CASE x = v
      <4>1. y = b BY <1>5, <2>1, <2>7, <3>1 DEF VarT
      <4> QED BY <1>3, <2>3, <2>4, <3>1, <4>1
    <3>2. CASE x # v
      <4>1. Root(f, x) = Root(f, y) BY <1>2, <1>5, <2>7, <3>2 DEF Good
      <4> QED BY <2>4, <4>1
    <3> QED BY <3>1, <3>2
  <2>8. ASSUME NEW x \in Var, NEW k \in Heads, ZonkHead(f, VarT(x)) = HeadT(k)
        PROVE  ZonkHead(d, VarT(x)) = HeadT(k)
    <3>1. Root(f, x) # v /\ Root(f, x) \in Var
      BY <1>3, <2>8, ZonkVar, RootRules, Tags DEF Unbound
    <3>2. ZonkHead(d, VarT(x)) = ZonkHead(f, VarT(x))
      BY <2>4, <2>5, <3>1, Tags DEF ZonkHead
    <3> QED BY <2>8, <3>2
  <2>9. ASSUME NEW x \in Var, NEW k \in Heads, g[x] = HeadT(k)
        PROVE  Fits(ZonkHead(d, VarT(x)), k)
    <3>1. x # v BY <1>5, <2>1, <2>9, Tags
    <3>2. Fits(ZonkHead(f, VarT(x)), k) BY <1>2, <1>5, <2>9, <3>1 DEF Good
    <3>3. ArrayOf \in Heads BY StoreAssumption
    <3> QED BY <2>8, <3>2, <3>3 DEF Fits
  <2>10. Acyclic(Aliases(g))
    <3> SUFFICES ASSUME NEW S \in SUBSET Var, S # {}, \A x \in S : Aliases(g)[x] \in S
                 PROVE  \E T \in SUBSET Var : T # {} /\ \A x \in T : Aliases(m)[x] \in T
      BY <1>0, StaysAcyclic DEF OkMap
    <3>1. \A z \in S : /\ Aliases(g)[z] \in S /\ Aliases(g)[z] # Stop /\ z \in Var
                       /\ g[z] = VarT(Aliases(g)[z]) /\ g[Aliases(g)[z]] # None
      <4>1. TAKE z \in S
      <4>2. z \in Var /\ Aliases(g)[z] \in Var /\ Aliases(g)[z] # Stop BY VarFacts
      <4> QED BY <1>4, <4>2, AliasesRules
    <3> DEFINE T == {z \in S : Root(f, z) # v}
    <3>2. T # {}
      <4>1. CASE v \in S
        <5>1. Aliases(g)[v] \in S /\ g[v] = VarT(Aliases(g)[v]) BY <3>1, <4>1
        <5>2. Aliases(g)[v] = b BY <1>5, <2>1, <5>1 DEF VarT
        <5> QED BY <2>3, <5>1, <5>2
      <4>2. CASE v \notin S
        <5>1. PICK x \in S : TRUE OBVIOUS
        <5> DEFINE y == Aliases(g)[x]
        <5>2. CASE \E z \in S : Root(f, z) # v BY <5>2
        <5>3. CASE \A z \in S : Root(f, z) = v
          <6> SUFFICES \A z \in S : Aliases(m)[z] \in S /\ m[z] # None
            BY <1>0, <4>2 DEF OkMap, Acyclic
          <6>1. TAKE z \in S
          <6>2. m[z] = VarT(Aliases(g)[z]) /\ m[Aliases(g)[z]] # None
            BY <1>5, <3>1, <4>2
          <6>3. Aliases(m)[z] = Aliases(g)[z] BY <1>0, <3>1, <6>2, AliasesRules
          <6> QED BY <3>1, <6>2, <6>3, Tags
        <5> QED BY <5>2, <5>3
      <4> QED BY <4>1, <4>2
    <3>3. ASSUME NEW x \in T PROVE Aliases(m)[x] \in T
      <4> DEFINE y == Aliases(g)[x]
      <4>1. x \in S /\ x # v /\ Root(f, x) # v BY <1>3
      <4>2. y \in S /\ y # Stop /\ y \in Var /\ g[x] = VarT(y) /\ g[y] # None
        BY <3>1, <4>1
      <4>3. m[x] = VarT(y) BY <1>5, <3>1, <4>1, <4>2
      <4>4. Root(f, y) = Root(f, x) BY <1>2, <3>1, <4>1, <4>2, <4>3 DEF Good
      <4>5. y # v BY <1>3, <4>1, <4>4
      <4>6. m[y] # None BY <1>5, <4>2, <4>5
      <4>7. Aliases(m)[x] = y BY <1>0, <3>1, <4>1, <4>2, <4>3, <4>6, AliasesRules
      <4> QED BY <4>1, <4>2, <4>4, <4>7
    <3>4. T \in SUBSET Var OBVIOUS
    <3> HIDE DEF T
    <3> QED BY <3>2, <3>3, <3>4
  <2>11. Good(d, g) BY <1>4, <2>4, <2>6, <2>7, <2>9, <2>10 DEF Good, OkMap
  <2>12. Grows(c, d) BY <1>2, <2>8 DEF Grows
  <2> QED BY <2>11, <2>12 DEF c, d, g
<1> QED BY <1>6, <1>7, TypeCases

(* A step of the store keeps it good, and no class loses its head.         *)
Kept(s, u) ==
    /\ Good(u.tab.cells, u.sub.map)
    /\ Grows(s.tab.cells, u.tab.cells)

LEMMA KeptTrans ==
    ASSUME NEW s, NEW u, NEW w, Kept(s, u), Kept(u, w)
    PROVE  Kept(s, w)
BY DEF Kept, Grows

LEMMA FindInClasses ==
    ASSUME NEW t \in Tables, OkCells(t.cells), NEW ty \in Type
    PROVE  FindIn(t, ty) \in Tables /\ SameClasses(t.cells, FindIn(t, ty).cells)
<1>1. CASE ty.tag = "Var"
  <2>1. ty.id \in Var /\ FindIn(t, ty) = Find(t, ty.id)
    BY <1>1, TypeCases DEF FindIn
  <2> QED BY <2>1, FindLogged, FindCells DEF LoggedTab
<1>2. CASE ty.tag # "Var"
  <2>1. FindIn(t, ty) = t BY <1>2 DEF FindIn
  <2> QED BY <2>1, SameClassesRefl
<1> QED BY <1>1, <1>2

(* A head that is a variable is the root of a class without an entry.      *)
LEMMA FreeHead ==
    ASSUME NEW c, NEW m, Good(c, m), NEW ty \in Type, ZonkHead(c, ty).tag = "Var"
    PROVE  LET h == ZonkHead(c, ty) IN
           h.id \in Var /\ h = VarT(h.id) /\ Root(c, h.id) = h.id /\ m[h.id] = None
<1>0. OkCells(c) BY DEF Good
<1>1. ty.tag = "Var" /\ ty.id \in Var /\ ty = VarT(ty.id)
  BY TypeCases, Tags DEF ZonkHead
<1> DEFINE r == Root(c, ty.id)
<1>2. r \in Var /\ c[r].tag # "Link" /\ Root(c, r) = r BY <1>0, <1>1, RootRules
<1>3. ZonkHead(c, ty) = VarT(r) /\ c[r] = Unbound
  BY <1>0, <1>1, ZonkVar, Tags
<1>4. m[r] = None BY <1>2, <1>3 DEF Good
<1> HIDE DEF r
<1> QED BY <1>2, <1>3, <1>4, Tags

(* var_bind looks at the table alone, and still finds the substitution     *)
(* without an entry, and its right side in another class; it binds to a    *)
(* head when the right side is one.                                        *)
Binds(s, u, v, ty) ==
    /\ v \in Var /\ ty \in Type /\ s.sub.map[v] = None
    /\ ty.tag = "Var" => Root(s.tab.cells, ty.id) # v
    /\ u = ExtendFresh(s, v, ty)

LEMMA UnifyWrites ==
    ASSUME NEW st \in Stores, Good(st.tab.cells, st.sub.map),
           NEW t1 \in Type, NEW t2 \in Type
    PROVE  \E s1 \in Stores :
             /\ SameClasses(st.tab.cells, s1.tab.cells) /\ s1.sub = st.sub
             /\ \/ /\ Unify(st, t1, t2).tab = s1.tab
                   /\ Unify(st, t1, t2).sub = s1.sub
                \/ \E v, ty : /\ Binds(s1, Unify(st, t1, t2), v, ty)
                              /\ t2.tag = "Head" => ty.tag = "Head"
<1> DEFINE u == FindIn(FindIn(st.tab, t1), t2)
           s1 == [st EXCEPT !.tab = u]
           c == s1.tab.cells
           h1 == ZonkHead(c, t1)
           h2 == ZonkHead(c, t2)
<1>1. u \in Tables /\ SameClasses(st.tab.cells, u.cells)
  <2>1. st.tab \in Tables /\ OkCells(st.tab.cells) BY DEF Stores, Good
  <2>2. /\ FindIn(st.tab, t1) \in Tables
        /\ SameClasses(st.tab.cells, FindIn(st.tab, t1).cells)
    BY <2>1, FindInClasses
  <2>3. OkCells(FindIn(st.tab, t1).cells) BY <2>2 DEF SameClasses
  <2>4. u \in Tables /\ SameClasses(FindIn(st.tab, t1).cells, u.cells)
    BY <2>2, <2>3, FindInClasses
  <2> QED BY <2>2, <2>4, SameClassesTrans
<1>2. s1 \in Stores /\ s1.tab = u /\ s1.sub = st.sub
  <2> HIDE DEF u
  <2> QED BY <1>1 DEF Stores
<1>3. Good(c, s1.sub.map) BY <1>1, <1>2, FindGood
<1>4. h1 \in Type /\ h2 \in Type /\ (t2.tag = "Head" => h2.tag = "Head")
  <2>1. c \in [Var -> Resolution] BY <1>3 DEF Good, OkCells
  <2> HIDE DEF c
  <2> QED BY <2>1, ZonkHeadType DEF ZonkHead
<1>5. Unify(st, t1, t2) =
        IF HeadT(ErrorHead) \in {h1, h2} \/ (h1 = h2 /\ h1.tag = "Var") THEN s1
        ELSE IF h1.tag = "Var" THEN ExtendFresh(s1, h1.id, h2)
        ELSE IF h2.tag = "Var" THEN ExtendFresh(s1, h2.id, h1)
        ELSE [s1 EXCEPT !.ok = HeadsUnify(h1.head, h2.head)]
  BY DEF Unify
<1> HIDE DEF u, c, h1, h2
<1>6. ASSUME NEW t \in Type, NEW o \in Type, NEW h \in Type, NEW k \in Type,
             h = ZonkHead(c, t), k = ZonkHead(c, o), h.tag = "Var", h # k
      PROVE  Binds(s1, ExtendFresh(s1, h.id, k), h.id, k)
  <2>1. h.id \in Var /\ h = VarT(h.id) /\ s1.sub.map[h.id] = None
    BY <1>3, <1>6, FreeHead
  <2>2. ASSUME k.tag = "Var" PROVE Root(c, k.id) # h.id
    <3>1. k = VarT(k.id) /\ Root(c, k.id) = k.id BY <1>3, <1>6, <2>2, FreeHead
    <3> QED BY <1>6, <2>1, <3>1
  <2> QED BY <2>1, <2>2 DEF Binds, c
<1>7. \A o : [s1 EXCEPT !.ok = o].tab = s1.tab /\ [s1 EXCEPT !.ok = o].sub = s1.sub
  BY <1>2 DEF Stores
<1>8. h1.tag = "Var" /\ h1 # h2 => Binds(s1, ExtendFresh(s1, h1.id, h2), h1.id, h2)
  BY <1>4, <1>6 DEF h1, h2
<1>9. h2.tag = "Var" /\ h1.tag # "Var" => Binds(s1, ExtendFresh(s1, h2.id, h1), h2.id, h1)
  BY <1>4, <1>6 DEF h1, h2
<1>10. SameClasses(st.tab.cells, s1.tab.cells) BY <1>1, <1>2
<1> HIDE DEF s1
<1> QED BY <1>2, <1>4, <1>5, <1>7, <1>8, <1>9, <1>10

LEMMA UnifyGood ==
    ASSUME NEW st \in Stores, Good(st.tab.cells, st.sub.map),
           NEW t1 \in Type, NEW t2 \in Type
    PROVE  Kept(st, Unify(st, t1, t2))
<1> DEFINE u == Unify(st, t1, t2)
<1>1. PICK s1 \in Stores :
         /\ SameClasses(st.tab.cells, s1.tab.cells) /\ s1.sub = st.sub
         /\ \/ u.tab = s1.tab /\ u.sub = s1.sub
            \/ \E v, ty : Binds(s1, u, v, ty)
  BY UnifyWrites
<1>2. Kept(st, s1) BY <1>1, FindGood DEF Kept
<1> HIDE DEF u
<1>3. CASE u.tab = s1.tab /\ u.sub = s1.sub BY <1>2, <1>3 DEF Kept, u
<1>4. ASSUME NEW v, NEW ty, Binds(s1, u, v, ty) PROVE Kept(st, u)
  <2>1. Kept(s1, u) BY <1>2, <1>4, ExtendFreshGood DEF Binds, Kept
  <2> QED BY <1>2, <2>1, KeptTrans
<1> QED BY <1>1, <1>3, <1>4 DEF u

(* extend_subst, of a variable that is not of the type's own class.        *)
LEMMA ExtendSubstReady ==
    ASSUME NEW st \in Stores, Good(st.tab.cells, st.sub.map), NEW v \in Var,
           NEW ty \in Type,
           st.sub.map[v] = None /\ ty.tag = "Var" => Root(st.tab.cells, ty.id) # v
    PROVE  LET s1 == [st EXCEPT !.sub = Resolve(st.sub, v)]
               e == Resolved(st.sub.map, v)
           IN /\ s1 \in Stores /\ s1.tab = st.tab /\ Good(s1.tab.cells, s1.sub.map)
              /\ e \in Type \cup {None}
              /\ e = None => Binds(s1, ExtendFresh(s1, v, ty), v, ty)
<1> DEFINE s1 == [st EXCEPT !.sub = Resolve(st.sub, v)]
           e == Resolved(st.sub.map, v)
<1>1. st.sub \in Substs /\ st.sub.map \in Maps /\ OkMap(st.sub.map)
  BY DEF Stores, Substs, Good
<1>2. Resolve(st.sub, v) \in Substs BY <1>1, ResolveLogged DEF LoggedSub
<1>3. s1 \in Stores /\ s1.tab = st.tab /\ s1.sub = Resolve(st.sub, v)
  BY <1>2 DEF Stores
<1>4. Good(st.tab.cells, s1.sub.map) BY <1>1, <1>3, ResolveGood
<1>5. e \in Type \cup {None} BY <1>1, ResolvedType
<1>6. e = None => st.sub.map[v] = None BY <1>1, ResolvedNone
<1>7. st.sub.map[v] = None => s1.sub.map[v] = None
  <2> HIDE DEF s1
  <2> QED BY <1>4 DEF Good
<1> HIDE DEF s1, e
<1>8. e = None => Binds(s1, ExtendFresh(s1, v, ty), v, ty)
  BY <1>3, <1>6, <1>7 DEF Binds
<1> QED BY <1>3, <1>4, <1>5, <1>8 DEF s1, e

LEMMA ExtendSubstGood ==
    ASSUME NEW st \in Stores, Good(st.tab.cells, st.sub.map), NEW v \in Var,
           NEW ty \in Type,
           st.sub.map[v] = None /\ ty.tag = "Var" => Root(st.tab.cells, ty.id) # v
    PROVE  Kept(st, ExtendSubst(st, v, ty))
<1> DEFINE s1 == [st EXCEPT !.sub = Resolve(st.sub, v)]
           e == Resolved(st.sub.map, v)
<1>1. /\ s1 \in Stores /\ s1.tab = st.tab /\ Good(s1.tab.cells, s1.sub.map)
      /\ e \in Type \cup {None}
      /\ e = None => Binds(s1, ExtendFresh(s1, v, ty), v, ty)
  BY ExtendSubstReady
<1>2. ExtendSubst(st, v, ty) = IF e = None THEN ExtendFresh(s1, v, ty) ELSE Unify(s1, e, ty)
  BY DEF ExtendSubst
<1> HIDE DEF s1, e
<1>3. Kept(st, s1) BY <1>1 DEF Kept, Grows
<1>4. e = None => Kept(s1, ExtendFresh(s1, v, ty))
  BY <1>1, ExtendFreshGood DEF Kept, Binds
<1>5. e # None => Kept(s1, Unify(s1, e, ty)) BY <1>1, UnifyGood
<1> QED BY <1>2, <1>3, <1>4, <1>5, KeptTrans

(* The tails unify_rows takes are not of one class unless they are one:    *)
(* both are resolved first.                                                *)
LEMMA TailsApart ==
    ASSUME NEW c, NEW m, Good(c, m), NEW a \in Var, NEW w \in Var, m[a] = None,
           a # TailRoot(m, w)
    PROVE  TailRoot(m, w) \in Var /\ Root(c, TailRoot(m, w)) # a
<1> DEFINE b == TailRoot(m, w)
<1>0. OkMap(m) /\ m \in Maps /\ OkCells(c) BY DEF Good, OkMap
<1>1. Root(c, a) = a /\ c[a] = Unbound /\ \A y \in Var : m[y] = None => Root(c, y) = y
  <2>1. \A y \in Var : m[y] = None => c[y] = Unbound /\ c[y].tag # "Link"
    BY DEF Good, Unbound
  <2> QED BY <1>0, <2>1, RootRules
<1>2. CASE Resolved(m, w).tag = "Var"
  <2>1. m[w] # None BY <1>0, <1>2, ResolvedNone DEF None
  <2>2. PICK x \in Var : Resolved(m, w) = VarT(x) /\ m[x] = None
    BY <1>2, <2>1, ReadersAgree, Tags
  <2>3. b = x BY <1>2, <2>2, Tags DEF TailRoot
  <2> QED BY <1>1, <2>2, <2>3
<1>3. CASE Resolved(m, w).tag # "Var"
  <2>1. b = w BY <1>3 DEF TailRoot
  <2> SUFFICES ASSUME Root(c, w) = a PROVE FALSE BY <2>1
  <2>2. m[w] # None BY <1>1, <2>1
  <2>3. PICK h \in Heads : Fits(ZonkHead(c, VarT(w)), h)
    BY <1>3, <2>2, ReadersAgree
  <2>4. c[Root(c, w)].tag # "Bound" BY <1>1 DEF Unbound
  <2>5. ZonkHead(c, VarT(w)) = VarT(a) BY <1>0, <2>4, ZonkVar
  <2> QED BY <2>3, <2>5, Tags DEF Fits
<1> QED BY <1>2, <1>3

LEMMA UnifyTailsReady ==
    ASSUME NEW st \in Stores, Good(st.tab.cells, st.sub.map),
           NEW v \in Var, NEW w \in Var
    PROVE  LET s1 == [st EXCEPT !.sub = Resolve(Resolve(st.sub, v), w)]
               a == TailRoot(s1.sub.map, v)
               b == TailRoot(s1.sub.map, w)
           IN /\ s1 \in Stores /\ s1.tab = st.tab /\ Good(s1.tab.cells, s1.sub.map)
              /\ a \in Var /\ b \in Var /\ VarT(b) \in Type
              /\ a # b => (s1.sub.map[a] = None => Root(s1.tab.cells, b) # a)
<1> DEFINE s1 == [st EXCEPT !.sub = Resolve(Resolve(st.sub, v), w)]
           a == TailRoot(s1.sub.map, v)
           b == TailRoot(s1.sub.map, w)
<1>1. st.sub \in Substs BY DEF Stores
<1>2. Resolve(st.sub, v) \in Substs /\ Good(st.tab.cells, Resolve(st.sub, v).map)
  BY <1>1, ResolveLogged, ResolveGood DEF LoggedSub
<1>3. /\ Resolve(Resolve(st.sub, v), w) \in Substs
      /\ Good(st.tab.cells, Resolve(Resolve(st.sub, v), w).map)
  BY <1>2, ResolveLogged, ResolveGood DEF LoggedSub
<1>4. /\ s1 \in Stores /\ s1.tab = st.tab
      /\ s1.sub = Resolve(Resolve(st.sub, v), w)
  BY <1>3 DEF Stores
<1>5. Good(s1.tab.cells, s1.sub.map) BY <1>3, <1>4
<1> HIDE DEF s1
<1>6. a \in Var /\ b \in Var
  <2>1. s1.sub.map \in Maps BY <1>4 DEF Stores, Substs
  <2>2. \A x \in Var : Resolved(s1.sub.map, x).tag = "Var" => Resolved(s1.sub.map, x).id \in Var
    BY <2>1, ResolvedType, TypeCases DEF None
  <2> QED BY <2>2 DEF TailRoot
<1>7. a # b => (s1.sub.map[a] = None => Root(s1.tab.cells, b) # a)
  BY <1>5, <1>6, TailsApart
<1>8. VarT(b) \in Type
  <2> HIDE DEF b
  <2> QED BY <1>6 DEF Type
<1> HIDE DEF a, b
<1> QED BY <1>4, <1>5, <1>6, <1>7, <1>8 DEF s1, a, b

LEMMA UnifyTailsGood ==
    ASSUME NEW st \in Stores, Good(st.tab.cells, st.sub.map),
           NEW v \in Var, NEW w \in Var
    PROVE  Kept(st, UnifyTails(st, v, w))
<1> DEFINE s1 == [st EXCEPT !.sub = Resolve(Resolve(st.sub, v), w)]
           a == TailRoot(s1.sub.map, v)
           b == TailRoot(s1.sub.map, w)
<1>1. /\ s1 \in Stores /\ s1.tab = st.tab /\ Good(s1.tab.cells, s1.sub.map)
      /\ a \in Var /\ b \in Var /\ VarT(b) \in Type
      /\ a # b => (s1.sub.map[a] = None => Root(s1.tab.cells, b) # a)
  BY UnifyTailsReady
<1>2. UnifyTails(st, v, w) = IF a = b THEN s1 ELSE ExtendSubst(s1, a, VarT(b))
  BY DEF UnifyTails
<1> HIDE DEF s1, a, b
<1>3. Kept(st, s1) BY <1>1 DEF Kept, Grows
<1>4. a # b => Kept(s1, ExtendSubst(s1, a, VarT(b))) BY <1>1, ExtendSubstGood, Tags
<1> QED BY <1>2, <1>3, <1>4, KeptTrans

(* unify_presence writes entries of presence variables only.               *)
LEMMA UnifyPresenceGood ==
    ASSUME NEW st \in Stores, Good(st.tab.cells, st.sub.map),
           NEW p1 \in Presence, NEW p2 \in Presence
    PROVE  Kept(st, UnifyPresence(st, p1, p2))
<1> DEFINE q1 == ResolvePresence(st.sub.map, p1)
           q2 == ResolvePresence(st.sub.map, p2)
<1>0. st.sub \in Substs BY DEF Stores
<1>1. q1 \in Presence /\ q2 \in Presence BY DEF ResolvePresence
<1>2. \A q \in Presence : q.tag = "PVar" => q.id \in PVar
  BY DEF Presence, Pre, Abs, PVarP
<1>3. Kept(st, st) BY DEF Kept, Grows
<1>4. ASSUME NEW key \in PVar, NEW e \in Presence
      PROVE  Kept(st, [st EXCEPT !.sub = Insert(st.sub, key, e)])
  <2> DEFINE i == Insert(st.sub, key, e)
             u == [st EXCEPT !.sub = i]
  <2>1. i \in Substs /\ i.map = [st.sub.map EXCEPT ![key] = e]
    <3>1. key \in Key /\ e \in EntryOf(key) BY EntryTypes
    <3> QED BY <1>0, <3>1, InsertLogged DEF LoggedSub, Insert
  <2>2. Good(st.tab.cells, i.map)
    <3>1. i.map \in Maps BY <2>1 DEF Substs
    <3> HIDE DEF i
    <3> QED BY <2>1, <3>1, PresenceGood
  <2> HIDE DEF i
  <2>3. u.tab = st.tab /\ u.sub = i BY <2>1 DEF Stores
  <2> HIDE DEF u
  <2>4. Kept(st, u) BY <2>2, <2>3 DEF Kept, Grows
  <2> QED BY <2>4 DEF u, i
<1>5. Kept(st, [st EXCEPT !.ok = {FALSE}])
  <2>1. /\ [st EXCEPT !.ok = {FALSE}].tab = st.tab
        /\ [st EXCEPT !.ok = {FALSE}].sub = st.sub
    BY DEF Stores
  <2> QED BY <2>1 DEF Kept, Grows
<1>6. UnifyPresence(st, p1, p2) =
        IF q1 = q2 THEN st
        ELSE IF q1.tag = "PVar" THEN [st EXCEPT !.sub = Insert(st.sub, q1.id, q2)]
        ELSE IF q2.tag = "PVar" THEN [st EXCEPT !.sub = Insert(st.sub, q2.id, q1)]
        ELSE [st EXCEPT !.ok = {FALSE}]
  BY DEF UnifyPresence
<1> HIDE DEF q1, q2
<1>7. q1.tag = "PVar" => Kept(st, [st EXCEPT !.sub = Insert(st.sub, q1.id, q2)])
  BY <1>1, <1>2, <1>4
<1>8. q2.tag = "PVar" => Kept(st, [st EXCEPT !.sub = Insert(st.sub, q2.id, q1)])
  BY <1>1, <1>2, <1>4
<1> QED BY <1>3, <1>5, <1>6, <1>7, <1>8

(* rebind_var, on a class whose head is the row: the class gets the array, *)
(* and of the entries that resolve to its head only that of v.             *)
LEMMA RebindGood ==
    ASSUME NEW c, NEW m, Good(c, m), NEW v \in Var,
           ZonkHead(c, VarT(v)) = HeadT(ArrayLikeRow)
    PROVE  Good([c EXCEPT ![Root(c, v)] = Bound(ArrayOf)],
                [m EXCEPT ![v] = HeadT(ArrayOf)])
<1> DEFINE r == Root(c, v)
           d == [c EXCEPT ![r] = Bound(ArrayOf)]
           g == [m EXCEPT ![v] = HeadT(ArrayOf)]
<1>0. OkCells(c) /\ OkMap(m) /\ m \in Maps /\ c \in [Var -> Resolution]
  BY DEF Good, OkMap, OkCells
<1>1. /\ ArrayOf \in Heads /\ ArrayLikeRow \in Heads /\ ArrayOf # ArrayLikeRow
      /\ HeadT(ArrayOf) \in Type
  BY StoreAssumption DEF Type
<1>2. r \in Var /\ c[r].tag # "Link" /\ c[r] # Unbound
  BY <1>0, RootRules, ZonkVar, Tags DEF Unbound
<1>3. OkCells(d) /\ \A x \in Var : Root(d, x) = Root(c, x)
  <2> HIDE DEF r
  <2> QED BY <1>0, <1>1, <1>2, BindCells
<1>4. d[r] = Bound(ArrayOf) /\ \A x \in Var : x # r => d[x] = c[x]
  <2> HIDE DEF r
  <2> QED BY <1>0, <1>2
<1>5. g[v] = HeadT(ArrayOf) /\ \A x \in Var : x # v => g[x] = m[x]
  BY <1>0, EntryTypes DEF Maps
<1>6. g \in Maps
  <2>1. /\ DOMAIN m = Key /\ DOMAIN g = Key /\ g = [x \in Key |-> g[x]]
        /\ \A x \in Key : g[x] = IF x = v THEN HeadT(ArrayOf) ELSE m[x]
    BY <1>0, EntryTypes DEF Maps
  <2>2. \A x \in Key : g[x] \in EntryOf(x)
    BY <1>0, <1>1, <2>1, EntryTypes DEF Maps
  <2> HIDE DEF g
  <2> QED BY <1>0, <2>1, <2>2, MapUpdate
<1> HIDE DEF d, g
<1>7. m[v] # None /\ c[v] # Unbound /\ d[v] # Unbound
  <2>1. c[v] # Unbound
    <3> SUFFICES ASSUME c[v] = Unbound PROVE FALSE OBVIOUS
    <3>1. r = v BY <1>0, RootRules DEF Unbound
    <3> QED BY <1>2, <3>1
  <2>2. m[v] # None BY <2>1 DEF Good
  <2>3. d[v] # Unbound
    <3>1. Bound(ArrayOf) # Unbound BY DEF Bound, Unbound
    <3> HIDE DEF r
    <3> QED BY <1>4, <2>1, <3>1
  <2> QED BY <2>1, <2>2, <2>3
<1>8. ASSUME NEW x \in Var PROVE g[x] = None <=> d[x] = Unbound
  <2>1. CASE x = v BY <1>5, <1>7, <2>1, Tags
  <2>2. CASE x # v
    <3>1. d[x] = Unbound <=> c[x] = Unbound
      <4>1. Bound(ArrayOf) # Unbound BY DEF Bound, Unbound
      <4> HIDE DEF r
      <4> QED BY <1>2, <1>4, <4>1
    <3> QED BY <1>5, <2>2, <3>1 DEF Good
  <2> QED BY <2>1, <2>2
<1>9. ASSUME NEW x \in Var, NEW y \in Var, g[x] = VarT(y)
      PROVE  Root(d, x) = Root(d, y)
  <2>1. x # v BY <1>5, <1>9, Tags
  <2>2. Root(c, x) = Root(c, y) BY <1>5, <1>9, <2>1 DEF Good
  <2> QED BY <1>3, <2>2
<1>10. ASSUME NEW x \in Var, NEW h \in Heads, g[x] = HeadT(h)
       PROVE  Fits(ZonkHead(d, VarT(x)), h)
  <2>1. Root(c, x) = r => ZonkHead(d, VarT(x)) = HeadT(ArrayOf)
    <3> SUFFICES ASSUME Root(c, x) = r PROVE ZonkHead(d, VarT(x)) = HeadT(ArrayOf)
      OBVIOUS
    <3>1. d[Root(d, x)] = Bound(ArrayOf) BY <1>3, <1>4
    <3>2. d[Root(d, x)].tag = "Bound" /\ d[Root(d, x)].head = ArrayOf
      BY <3>1 DEF Bound
    <3> QED BY <3>2, Tags DEF ZonkHead
  <2>2. CASE x = v
    <3>1. h = ArrayOf BY <1>5, <1>10, <2>2 DEF HeadT
    <3> QED BY <2>1, <2>2, <3>1 DEF Fits
  <2>3. CASE x # v
    <3>1. Fits(ZonkHead(c, VarT(x)), h) BY <1>5, <1>10, <2>3 DEF Good
    <3>2. CASE Root(c, x) = r
      <4>1. ZonkHead(c, VarT(x)) = HeadT(ArrayLikeRow) BY <3>2, Tags DEF ZonkHead
      <4>2. h = ArrayLikeRow BY <1>1, <3>1, <4>1, Tags DEF Fits
      <4> QED BY <2>1, <3>2, <4>2 DEF Fits
    <3>3. CASE Root(c, x) # r
      <4>1. d[Root(d, x)] = c[Root(c, x)] /\ Root(d, x) = Root(c, x)
        BY <1>0, <1>3, <1>4, <3>3, RootRules
      <4>2. ZonkHead(d, VarT(x)) = ZonkHead(c, VarT(x)) BY <4>1, Tags DEF ZonkHead
      <4> QED BY <3>1, <4>2
    <3> QED BY <3>2, <3>3
  <2> QED BY <2>2, <2>3
<1>11. Acyclic(Aliases(g))
  <2> SUFFICES ASSUME NEW S \in SUBSET Var, S # {}, \A x \in S : Aliases(g)[x] \in S
               PROVE  \A x \in S : Aliases(m)[x] \in S
    BY <1>0, StaysAcyclic DEF OkMap
  <2>1. \A z \in S : /\ Aliases(g)[z] \in S /\ Aliases(g)[z] # Stop /\ z \in Var
                     /\ g[z] = VarT(Aliases(g)[z]) /\ g[Aliases(g)[z]] # None
    <3>1. TAKE z \in S
    <3>2. z \in Var /\ Aliases(g)[z] \in Var /\ Aliases(g)[z] # Stop BY VarFacts
    <3> QED BY <1>6, <3>2, AliasesRules
  <2>2. v \notin S BY <1>5, <2>1, Tags
  <2>3. TAKE x \in S
  <2>4. m[x] = VarT(Aliases(g)[x]) /\ m[Aliases(g)[x]] # None
    BY <1>5, <2>1, <2>2
  <2>5. Aliases(m)[x] = Aliases(g)[x] BY <1>0, <2>1, <2>4, AliasesRules
  <2> QED BY <2>1, <2>5
<1>12. Good(d, g) BY <1>3, <1>6, <1>8, <1>9, <1>10, <1>11 DEF Good, OkMap
<1> QED BY <1>12 DEF d, g, r

-----------------------------------------------------------------------------
(* Steps of inference.                                                     *)

LEMMA FreshGood ==
    Good([v \in Var |-> Unbound], [k \in Key |-> None])
<1> DEFINE c == [v \in Var |-> Unbound]
           m == [k \in Key |-> None]
<1>1. c \in [Var -> Resolution] BY DEF Resolution
<1>2. m \in Maps BY DEF Maps, EntryOf
<1>3. \A v \in Var : c[v] = Unbound /\ c[v].tag # "Link" /\ m[v] = None /\ m[v].tag # "Var"
  BY EntryTypes DEF Unbound, None
<1> HIDE DEF c, m
<1>4. \A v \in Var : Links(c)[v] = Stop /\ Aliases(m)[v] = Stop
  BY <1>3 DEF Links, Aliases
<1>5. Acyclic(Links(c)) /\ Acyclic(Aliases(m)) BY <1>4, VarFacts DEF Acyclic
<1>6. \A x \in Var : m[x] # VarT(x) /\ \A y : m[x] # VarT(y) /\ m[x] # HeadT(y)
  BY <1>3, Tags
<1>7. Good(c, m) BY <1>1, <1>2, <1>3, <1>5, <1>6 DEF Good, OkCells, OkMap
<1> QED BY <1>7 DEF c, m

LEMMA BecomeGood ==
    ASSUME NEW st, Kept(Store, st), Become(st)
    PROVE  Good(cells', subst')
BY DEF Kept, Become

(* infer_computed_member: closing the row's tail takes no head away, so    *)
(* the class that is rebound still has the row.                            *)
LEMMA ComputedMemberWrites ==
    ASSUME TypeOK, Good(cells, subst), NEW v \in Var, NEW w \in Var,
           ComputedMember(v, w)
    PROVE  \E s, f :
             /\ s = ArrayUse(Store, w) /\ Kept(Store, s)
             /\ SameClasses(s.tab.cells, f) /\ Good(f, s.sub.map)
             /\ ZonkHead(f, VarT(v)) = HeadT(ArrayLikeRow)
             /\ cells' = [f EXCEPT ![Root(f, v)] = Bound(ArrayOf)]
             /\ subst' = [s.sub.map EXCEPT ![v] = HeadT(ArrayOf)]
<1> DEFINE Read(s) == [s EXCEPT !.tab = Find(s.tab, v), !.ok = {TRUE}]
<1>1. Store \in Stores /\ Store.tab.cells = cells /\ Store.sub.map = subst
  BY StoreType DEF Store
<1>2. HeadT(ClosedRow) \in Type /\ ArrayLikeRow \in Heads
  BY StoreAssumption DEF Type
<1>3. PICK s \in {ArrayUse(Store, w)} : Become(RebindVar(Read(s), v))
  BY DEF ComputedMember
<1>4. /\ LoggedStore(Store, s) /\ s \in Stores /\ s.tab \in Tables
  BY <1>1, <1>2, <1>3, ExtendSubstLogged DEF ArrayUse, LoggedStore, Stores
<1>5. Kept(Store, s)
  BY <1>1, <1>2, <1>3, ExtendSubstGood, Tags DEF ArrayUse
<1>6. ZonkHead(s.tab.cells, VarT(v)) = HeadT(ArrayLikeRow)
  <2>1. ZonkHead(cells, VarT(v)) = HeadT(ArrayLikeRow) BY DEF ComputedMember
  <2> QED BY <1>1, <1>2, <1>5, <2>1 DEF Kept, Grows
<1> DEFINE f == Find(s.tab, v).cells
<1>7. SameClasses(s.tab.cells, f) /\ Good(f, s.sub.map)
  <2>1. OkCells(s.tab.cells) /\ Good(s.tab.cells, s.sub.map) BY <1>5 DEF Kept, Good
  <2>2. SameClasses(s.tab.cells, f) BY <1>4, <2>1, FindCells
  <2> HIDE DEF f
  <2> QED BY <2>1, <2>2, FindGood
<1>8. ZonkHead(f, VarT(v)) = HeadT(ArrayLikeRow)
  <2>1. OkCells(s.tab.cells) BY <1>5 DEF Kept, Good
  <2> HIDE DEF f
  <2> QED BY <1>6, <1>7, <2>1, SameHeads
<1>9. /\ Read(s).tab = Find(s.tab, v) /\ Read(s).sub = s.sub /\ Read(s) \in Stores
  <2>1. Find(s.tab, v) \in Tables BY <1>4, FindLogged DEF LoggedTab
  <2> QED BY <1>4, <2>1 DEF Stores
<1> DEFINE u == RebindVar(Read(s), v)
<1>10. /\ u.tab.cells = [f EXCEPT ![Root(f, v)] = Bound(ArrayOf)]
       /\ u.sub.map = [s.sub.map EXCEPT ![v] = HeadT(ArrayOf)]
  <2> DEFINE a == Read(s)
             tb == ForceBindRoot(a.tab, Root(a.tab.cells, v), ArrayOf)
             sb == Insert(a.sub, v, HeadT(ArrayOf))
  <2>1. u = [a EXCEPT !.tab = tb, !.sub = sb] BY DEF RebindVar
  <2>2. tb.cells = [f EXCEPT ![Root(f, v)] = Bound(ArrayOf)]
    BY <1>9 DEF ForceBindRoot, WriteCell
  <2>3. sb.map = [s.sub.map EXCEPT ![v] = HeadT(ArrayOf)] BY <1>9 DEF Insert
  <2> HIDE DEF tb, sb, u, f
  <2>4. u.tab = tb /\ u.sub = sb
    <3>1. a \in Stores BY <1>9
    <3> HIDE DEF a
    <3> QED BY <2>1, <3>1 DEF Stores
  <2> QED BY <2>2, <2>3, <2>4
<1>11. cells' = u.tab.cells /\ subst' = u.sub.map
  <2> HIDE DEF u
  <2>1. Become(u) BY <1>3 DEF u
  <2> QED BY <2>1 DEF Become
<1> HIDE DEF u, f
<1> QED BY <1>3, <1>5, <1>7, <1>8, <1>10, <1>11

LEMMA ComputedMemberGood ==
    ASSUME TypeOK, Good(cells, subst), NEW v \in Var, NEW w \in Var,
           ComputedMember(v, w)
    PROVE  Good(cells', subst')
<1>1. PICK s, f :
         /\ Good(f, s.sub.map) /\ ZonkHead(f, VarT(v)) = HeadT(ArrayLikeRow)
         /\ cells' = [f EXCEPT ![Root(f, v)] = Bound(ArrayOf)]
         /\ subst' = [s.sub.map EXCEPT ![v] = HeadT(ArrayOf)]
  BY ComputedMemberWrites
<1> QED BY <1>1, RebindGood

LEMMA WorkGood ==
    ASSUME TypeOK, Good(cells, subst), [Next]_vars, ~RestoreSnapshot
    PROVE  Good(cells', subst')
<1>0. /\ Store \in Stores /\ Allocated \subseteq Var /\ Known \subseteq Type
      /\ Store.tab.cells = cells /\ Store.sub.map = subst
  BY StoreType, StoreAssumption DEF TypeOK, Allocated, Var, Known, Type, Store
<1>1. ASSUME UNCHANGED <<table, substitution>> PROVE Good(cells', subst')
  BY <1>1 DEF table, substitution
<1>2. ASSUME NEW t1 \in Known, NEW t2 \in Known, DoUnify(t1, t2)
      PROVE  Good(cells', subst')
  <2>1. Kept(Store, Unify(Store, t1, t2)) BY <1>0, UnifyGood
  <2> QED BY <1>2, <2>1, BecomeGood DEF DoUnify
<1>3. ASSUME NEW v \in Allocated, NEW h \in RowHeads, BindTail(v, h)
      PROVE  Good(cells', subst')
  <2>1. HeadT(h) \in Type /\ v \in Var BY <1>0, StoreAssumption DEF Type
  <2>2. Kept(Store, ExtendSubst(Store, v, HeadT(h)))
    BY <1>0, <2>1, ExtendSubstGood, Tags
  <2> QED BY <1>3, <2>2, BecomeGood DEF BindTail
<1>4. ASSUME NEW v \in Allocated, NEW w \in Allocated, DoUnifyTails(v, w)
      PROVE  Good(cells', subst')
  <2>1. Kept(Store, UnifyTails(Store, v, w)) BY <1>0, UnifyTailsGood
  <2> QED BY <1>4, <2>1, BecomeGood DEF DoUnifyTails
<1>5. ASSUME NEW p1 \in Presence, NEW p2 \in Presence, DoUnifyPresence(p1, p2)
      PROVE  Good(cells', subst')
  <2>1. Kept(Store, UnifyPresence(Store, p1, p2)) BY <1>0, UnifyPresenceGood
  <2> QED BY <1>5, <2>1, BecomeGood DEF DoUnifyPresence
<1>6. ASSUME NEW v \in Allocated, ReadHead(v) PROVE Good(cells', subst')
  <2> DEFINE u == [Store EXCEPT !.tab = Find(Store.tab, v)]
  <2>1. u.tab = Find(Store.tab, v) /\ u.sub = Store.sub BY <1>0 DEF Stores
  <2>2. SameClasses(Store.tab.cells, Find(Store.tab, v).cells)
    <3>1. Store.tab \in Tables /\ OkCells(Store.tab.cells) BY <1>0 DEF Stores, Good
    <3> QED BY <1>0, <3>1, FindCells
  <2>3. Kept(Store, u) BY <1>0, <2>1, <2>2, FindGood DEF Kept
  <2> QED BY <1>6, <2>3, BecomeGood DEF ReadHead
<1>7. ASSUME NEW v \in Allocated, NEW w \in Allocated, ComputedMember(v, w)
      PROVE  Good(cells', subst')
  BY <1>0, <1>7, ComputedMemberGood
<1>8. ASSUME \/ FreshFlex \/ TakeSnapshot \/ KeepAttempt \/ UNCHANGED vars
             \/ \E c \in Preds : AddConstraint(c)
             \/ \E i \in DOMAIN pending : RemoveConstraint(i)
      PROVE  Good(cells', subst')
  <2>1. UNCHANGED <<table, substitution>>
    BY <1>8 DEF FreshFlex, TakeSnapshot, KeepAttempt, AddConstraint, RemoveConstraint,
                vars, table, substitution
  <2> QED BY <1>1, <2>1
<1> QED BY <1>2, <1>3, <1>4, <1>5, <1>6, <1>7, <1>8 DEF Next

-----------------------------------------------------------------------------
(* The inductive invariant: the tables are good, and so is the copy that   *)
(* restoring any of the snapshots would bring back.                        *)
GoodCopy(s) == Good(s.cells, s.subst)

AllGood == GoodCopy(Current) /\ \A k \in DOMAIN Saved : GoodCopy(Saved[k])

AgreeInv == TypeOK /\ AllGood

LEMMA AgreeStep ==
    ASSUME AgreeInv, [Next]_vars
    PROVE  AgreeInv'
<1>0. TypeOK /\ AllGood BY DEF AgreeInv
<1>1. TypeOK' BY <1>0, NextStep
<1>2. PICK T : Saved \in Seq(T)
  <2> DEFINE T == {At(snaps[k]) : k \in DOMAIN snaps}
  <2>1. Saved \in Seq(T) BY <1>0, SavedSeq
  <2> HIDE DEF T
  <2> QED BY <2>1
<1>3. /\ Current.cells = cells /\ Current.subst = subst
      /\ Current'.cells = cells' /\ Current'.subst = subst'
  BY DEF Current
<1>4. GoodCopy(Current')
  <2>1. CASE RestoreSnapshot
    <3>1. Saved # <<>> /\ Current' = Saved[Len(Saved)] BY <1>0, <2>1, RestoreStep
    <3>2. Len(Saved) \in DOMAIN Saved BY <1>2, <3>1
    <3> QED BY <1>0, <3>1, <3>2 DEF AllGood
  <2>2. CASE ~RestoreSnapshot
    <3>1. Good(cells, subst) BY <1>0, <1>3 DEF AllGood, GoodCopy
    <3>2. Good(cells', subst') BY <1>0, <2>2, <3>1, WorkGood
    <3> QED BY <1>3, <3>2 DEF GoodCopy
  <2> QED BY <2>1, <2>2
<1>5. ASSUME NEW k \in DOMAIN Saved' PROVE GoodCopy(Saved'[k])
  <2>1. CASE Saved' = Saved BY <1>0, <1>5, <2>1 DEF AllGood
  <2>2. CASE Saved' = Append(Saved, Current)
    <3>1. CASE k \in DOMAIN Saved
      <4>1. Saved'[k] = Saved[k] BY <1>2, <2>2, <3>1
      <4> QED BY <1>0, <3>1, <4>1 DEF AllGood
    <3>2. CASE k \notin DOMAIN Saved
      <4>1. Saved'[k] = Current BY <1>2, <1>5, <2>2, <3>2
      <4> QED BY <1>0, <4>1 DEF AllGood
    <3> QED BY <3>1, <3>2
  <2>3. CASE Saved # <<>> /\ Saved' = SubSeq(Saved, 1, Len(Saved) - 1)
    <3>1. k \in DOMAIN Saved /\ Saved'[k] = Saved[k] BY <1>2, <1>5, <2>3
    <3> QED BY <1>0, <3>1 DEF AllGood
  <2> QED BY <1>0, <2>1, <2>2, <2>3, NextStep
<1>6. AllGood' BY <1>4, <1>5 DEF AllGood
<1> QED BY <1>1, <1>6 DEF AgreeInv

LEMMA AgreeAlways == Spec => []AgreeInv
<1>1. Init /\ TypeOK => AgreeInv
  <2> SUFFICES ASSUME Init PROVE AllGood BY DEF AgreeInv
  <2>1. cells = [v \in Var |-> Unbound] /\ subst = [k \in Key |-> None] /\ snaps = <<>>
    BY DEF Init
  <2>2. GoodCopy(Current)
    <3>1. Good(cells, subst) BY <2>1, FreshGood
    <3> QED BY <3>1 DEF GoodCopy, Current
  <2>3. DOMAIN Saved = {} BY <2>1 DEF Saved
  <2> QED BY <2>2, <2>3 DEF AllGood
<1>2. AgreeInv /\ [Next]_vars => AgreeInv' BY AgreeStep
<1> QED BY <1>1, <1>2, TypeCorrect, PTL DEF Spec

LEMMA AgreeNow == ASSUME AgreeInv PROVE Good(cells, subst)
BY DEF AgreeInv, AllGood, GoodCopy, Current

(***************************************************************************)
(* The branches of VarTable::find and Subst::resolve that give up on a     *)
(* cycle are never taken, however aliases are made, compressed and rolled  *)
(* back.                                                                   *)
(***************************************************************************)
THEOREM NeverACycle == Spec => []NoCycles
<1>1. AgreeInv => NoCycles
  <2> SUFFICES ASSUME AgreeInv PROVE NoCycles OBVIOUS
  <2>1. OkCells(cells) /\ OkMap(subst) BY AgreeNow DEF Good
  <2> QED BY <2>1, PathIsTrail, ChainIsTrail DEF NoCycles
<1> QED BY <1>1, AgreeAlways, PTL

(***************************************************************************)
(* mirror_extend's assertions hold: a variable has an entry in the         *)
(* substitution exactly if its cell is bound or linked, so neither table   *)
(* is ever asked to bind a class that the other already bound.             *)
(***************************************************************************)
THEOREM FreeInBoth == Spec => []MirrorKeys
<1>1. AgreeInv => MirrorKeys BY AgreeNow DEF Good, MirrorKeys
<1> QED BY <1>1, AgreeAlways, PTL

(***************************************************************************)
(* A reader of the union-find table and a reader of the substitution see   *)
(* the same head, or the same free variable; but for a row that rebind_var *)
(* made an array in the table alone.                                       *)
(***************************************************************************)
THEOREM DriftIsRebind == Spec => []DriftOnlyFromRebind
<1>1. AgreeInv => DriftOnlyFromRebind
  <2> SUFFICES ASSUME AgreeInv, NEW v \in Var, TableHead(v) # SubstHead(v)
               PROVE  /\ TableHead(v) = HeadT(ArrayOf)
                      /\ SubstHead(v) = HeadT(ArrayLikeRow)
    BY DEF DriftOnlyFromRebind
  <2>1. Good(cells, subst) BY AgreeNow
  <2>2. subst[v] # None /\ SubstHead(v) = Resolved(subst, v)
    BY <2>1, ReadersAgree DEF TableHead, SubstHead
  <2>3. PICK h \in Heads : Resolved(subst, v) = HeadT(h) /\ Fits(TableHead(v), h)
    BY <2>1, <2>2, ReadersAgree DEF TableHead
  <2> QED BY <2>2, <2>3 DEF Fits
<1> QED BY <1>1, AgreeAlways, PTL
=============================================================================
