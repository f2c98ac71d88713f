------------------------- MODULE IntegrityGraphProofs -------------------------
(***************************************************************************)
(* The anti-collusion detector on every graph: any number of wallets,       *)
(* receipts and specifications, and any distribution of the payments to a   *)
(* worker, up to the number MaxPayments its logarithms are modelled for.    *)
(*                                                                         *)
(* Three of the four signals compare sums over finite sets, which Functions *)
(* defines by a recursion over subsets.  The first section shows what such  *)
(* a sum is, without an induction rule: a set of subsets that fail a claim  *)
(* has a smallest member, and the claim for its own parts refutes it.       *)
(***************************************************************************)
EXTENDS IntegrityGraph, TLAPS, FiniteSetTheorems, WellFoundedInduction

-----------------------------------------------------------------------------
(* The order in which the fold takes the elements.                          *)
Pick(s) == CHOOSE x \in s : TRUE

(* What the recursion asks of the sums g of the subsets of A.               *)
Sums(f, A, g) == [s \in SUBSET A |->
   IF s = {} THEN 0
   ELSE LET x == CHOOSE x \in s : TRUE IN f[x] + g[s \ {x}]]

(* Total is this sum over the whole domain.                                 *)
SumOver(f, A) == SumFunctionOnSet(f, A)

(* Expanded, it is the solution of that recursion, if there is one.         *)
LEMMA Unfold == \A f, A : SumOver(f, A) = (CHOOSE g : g = Sums(f, A, g))[A]
  BY DEF SumOver, SumFunctionOnSet, FoldFunctionOnSet, MapThenFoldSet, Sums

(* Among subsets of a finite set there is a smallest one.                   *)
LEMMA Minimal ==
  ASSUME NEW S, IsFiniteSet(S), NEW T \in SUBSET (SUBSET S), T # {}
  PROVE  \E A \in T : \A B \in T : B \subseteq A => B = A
<1>1. IsWellFoundedOn(StrictSubsetOrdering(S), SUBSET S)
  BY FS_StrictSubsetOrderingWellFounded, FS_FiniteSubsetsOfFinite
<1>2. \E A \in T : \A B \in T : ~(<<B, A>> \in StrictSubsetOrdering(S))
  BY <1>1, WFMin
<1>3. ASSUME NEW A \in T, NEW B \in T, B \subseteq A, B # A
      PROVE  <<B, A>> \in StrictSubsetOrdering(S)
  BY <1>3 DEF StrictSubsetOrdering
<1> QED BY <1>2, <1>3

(* The fold takes an element of what is left.                               *)
LEMMA PickIn == ASSUME NEW A, A # {} PROVE Pick(A) \in A
  BY DEF Pick

(* A solution, one subset at a time.                                        *)
LEMMA Equation ==
  ASSUME NEW f, NEW A, NEW g, g = Sums(f, A, g), NEW s \in SUBSET A
  PROVE  g[s] = IF s = {} THEN 0 ELSE f[Pick(s)] + g[s \ {Pick(s)}]
  BY DEF Sums, Pick

(* Solutions over two sets agree where both are defined,                    *)
LEMMA Unique ==
  ASSUME NEW f, NEW A, IsFiniteSet(A), NEW B \in SUBSET A,
         NEW g, g = Sums(f, A, g), NEW h, h = Sums(f, B, h)
  PROVE  \A s \in SUBSET B : g[s] = h[s]
<1> DEFINE T == {s \in SUBSET B : g[s] # h[s]}
<1> SUFFICES ASSUME T # {} PROVE FALSE
  OBVIOUS
<1>1. IsFiniteSet(B) /\ T \in SUBSET (SUBSET B)
  BY FS_Subset
<1>2. PICK s \in T : \A u \in T : u \subseteq s => u = s
  <2> HIDE DEF T
  <2> QED BY <1>1, Minimal
<1>3. g[s] = IF s = {} THEN 0 ELSE f[Pick(s)] + g[s \ {Pick(s)}]
  BY Equation
<1>4. h[s] = IF s = {} THEN 0 ELSE f[Pick(s)] + h[s \ {Pick(s)}]
  BY Equation
<1>5. s # {}
  BY <1>3, <1>4
<1>6. s \ {Pick(s)} \notin T
  BY <1>2, <1>5, PickIn
<1> QED BY <1>3, <1>4, <1>5, <1>6

(* and there is one: from those of all smaller subsets.                     *)
LEMMA Exists ==
  ASSUME NEW f, NEW S, IsFiniteSet(S)
  PROVE  \E g : g = Sums(f, S, g)
<1> DEFINE T == {A \in SUBSET S : ~ \E g : g = Sums(f, A, g)}
<1> SUFFICES ASSUME T # {} PROVE FALSE
  OBVIOUS
<1>0. T \in SUBSET (SUBSET S)
  OBVIOUS
<1>1. PICK A \in T : \A B \in T : B \subseteq A => B = A
  <2> HIDE DEF T
  <2> QED BY <1>0, Minimal
<1> DEFINE G(B) == CHOOSE g : g = Sums(f, B, g)
           g == [s \in SUBSET A |-> IF s = {} THEN 0 ELSE f[Pick(s)] + G(s \ {Pick(s)})[s \ {Pick(s)}]]
<1>2. ASSUME NEW B \in SUBSET A, B # A PROVE G(B) = Sums(f, B, G(B))
  BY <1>1, <1>2
<1>3. ASSUME NEW B \in SUBSET A, B # A, NEW s \in SUBSET B
      PROVE  G(B)[s] = G(s)[s]
  <2>1. s # A /\ s \in SUBSET A /\ IsFiniteSet(B)
    BY <1>3, FS_Subset
  <2>2. G(s) = Sums(f, s, G(s)) /\ G(B) = Sums(f, B, G(B))
    BY <1>2, <1>3, <2>1
  <2> HIDE DEF G
  <2> QED BY <2>1, <2>2, Unique
<1>4. ASSUME NEW s \in SUBSET A, s # A PROVE g[s] = G(s)[s]
  <2>1. G(s) = Sums(f, s, G(s))
    BY <1>2, <1>4
  <2>2. G(s)[s] = IF s = {} THEN 0 ELSE f[Pick(s)] + G(s)[s \ {Pick(s)}]
    <3> HIDE DEF G
    <3> QED BY <2>1, Equation
  <2>3. s # {} => G(s)[s \ {Pick(s)}] = G(s \ {Pick(s)})[s \ {Pick(s)}]
    <3> HIDE DEF G
    <3> QED BY <1>3, <1>4
  <2> HIDE DEF G
  <2> QED BY <2>2, <2>3
<1> HIDE DEF G
<1>5. ASSUME NEW s \in SUBSET A, s # {}
      PROVE  g[s] = f[Pick(s)] + g[s \ {Pick(s)}]
  <2>1. s \ {Pick(s)} \in SUBSET A /\ s \ {Pick(s)} # A
    BY <1>5, PickIn
  <2>2. g[s \ {Pick(s)}] = G(s \ {Pick(s)})[s \ {Pick(s)}]
    BY <1>4, <2>1
  <2> QED BY <1>5, <2>2
<1>6. g = Sums(f, A, g)
  <2>1. g[{}] = 0
    OBVIOUS
  <2>2. g = [s \in SUBSET A |-> g[s]]
    OBVIOUS
  <2> HIDE DEF g
  <2>3. \A s \in SUBSET A : g[s] = Sums(f, A, g)[s]
    BY <1>5, <2>1 DEF Sums, Pick
  <2> QED BY <2>2, <2>3 DEF Sums
<1> QED BY <1>1, <1>6

(* So a sum is what its recursion says,                                     *)
LEMMA SumEmpty == \A f : SumOver(f, {}) = 0
<1> TAKE f
<1> DEFINE g == CHOOSE g : g = Sums(f, {}, g)
<1>1. g = Sums(f, {}, g)
  BY Exists, FS_EmptySet
<1>2. SumOver(f, {}) = g[{}]
  BY Unfold
<1> HIDE DEF g
<1> QED BY <1>1, <1>2, Equation

(* one element at a time,                                                   *)
LEMMA SumPick ==
  ASSUME NEW f, NEW A, IsFiniteSet(A), A # {}
  PROVE  SumOver(f, A) = f[Pick(A)] + SumOver(f, A \ {Pick(A)})
<1> DEFINE B == A \ {Pick(A)}
           G(C) == CHOOSE g : g = Sums(f, C, g)
<1>1. B \in SUBSET A /\ IsFiniteSet(B)
  BY FS_Subset
<1>2. SumOver(f, A) = G(A)[A] /\ SumOver(f, B) = G(B)[B]
  BY Unfold
<1>3. G(A) = Sums(f, A, G(A)) /\ G(B) = Sums(f, B, G(B))
  BY <1>1, Exists
<1> HIDE DEF G
<1>4. G(A)[A] = f[Pick(A)] + G(A)[B]
  BY <1>3, Equation
<1>5. G(A)[B] = G(B)[B]
  <2> DEFINE ga == G(A)
             gb == G(B)
  <2>2. ga = Sums(f, A, ga) /\ gb = Sums(f, B, gb)
    BY <1>3
  <2> HIDE DEF B, ga, gb
  <2>1. \A s \in SUBSET B : ga[s] = gb[s]
    BY <1>1, <2>2, Unique
  <2> USE DEF ga, gb
  <2> QED BY <2>1
<1> QED BY <1>2, <1>4, <1>5

(* a number if its terms are,                                               *)
LEMMA SumType ==
  ASSUME NEW A, IsFiniteSet(A), NEW f, \A x \in A : f[x] \in Nat
  PROVE  SumOver(f, A) \in Nat
<1> DEFINE T == {B \in SUBSET A : SumOver(f, B) \notin Nat}
<1> SUFFICES ASSUME T # {} PROVE FALSE
  OBVIOUS
<1>1. T \in SUBSET (SUBSET A)
  OBVIOUS
<1>2. PICK B \in T : \A C \in T : C \subseteq B => C = B
  <2> HIDE DEF T
  <2> QED BY <1>1, Minimal
<1>3. B # {}
  BY SumEmpty
<1>4. Pick(B) \in B /\ IsFiniteSet(B)
  BY <1>3, PickIn, FS_Subset
<1>5. SumOver(f, B) = f[Pick(B)] + SumOver(f, B \ {Pick(B)})
  BY <1>3, <1>4, SumPick
<1>6. B \ {Pick(B)} \notin T
  BY <1>2, <1>4
<1>7. SumOver(f, B \ {Pick(B)}) \in Nat /\ f[Pick(B)] \in Nat
  BY <1>4, <1>6
<1> QED BY <1>5, <1>7

(* whichever element is taken out first,                                    *)
LEMMA SumRemove ==
  ASSUME NEW A, IsFiniteSet(A), NEW f, \A y \in A : f[y] \in Nat, NEW x \in A
  PROVE  SumOver(f, A) = f[x] + SumOver(f, A \ {x})
<1> DEFINE Off(B) == \E y \in B : SumOver(f, B) # f[y] + SumOver(f, B \ {y})
           T == {B \in SUBSET A : Off(B)}
<1> SUFFICES ASSUME T # {} PROVE FALSE
  OBVIOUS
<1>1. T \in SUBSET (SUBSET A)
  OBVIOUS
<1>2. PICK B \in T : \A C \in T : C \subseteq B => C = B
  <2> HIDE DEF T
  <2> QED BY <1>1, Minimal
<1>3. PICK y \in B : SumOver(f, B) # f[y] + SumOver(f, B \ {y})
  OBVIOUS
<1> DEFINE p == Pick(B)
<1>4. p \in B /\ IsFiniteSet(B) /\ B \in SUBSET A
  BY PickIn, FS_Subset
<1>5. SumOver(f, B) = f[p] + SumOver(f, B \ {p})
  BY <1>4, SumPick
<1>6. y # p
  BY <1>3, <1>5
<1> HIDE DEF p
<1>7. SumOver(f, B \ {p}) = f[y] + SumOver(f, (B \ {p}) \ {y})
  <2>1. B \ {p} \notin T
    BY <1>2, <1>4
  <2> QED BY <1>4, <1>6, <2>1
<1>8. SumOver(f, B \ {y}) = f[p] + SumOver(f, (B \ {y}) \ {p})
  <2>1. B \ {y} \notin T
    BY <1>2, <1>4
  <2> QED BY <1>4, <1>6, <2>1
<1>9. (B \ {y}) \ {p} = (B \ {p}) \ {y}
  OBVIOUS
<1> DEFINE r == SumOver(f, (B \ {p}) \ {y})
<1>10. f[p] \in Nat /\ f[y] \in Nat /\ r \in Nat
  <2>1. IsFiniteSet((B \ {p}) \ {y}) /\ \A z \in (B \ {p}) \ {y} : f[z] \in Nat
    BY <1>4, FS_Subset
  <2>2. r \in Nat
    BY <2>1, SumType
  <2> QED BY <1>4, <2>2
<1> HIDE DEF r
<1>11. f[p] + (f[y] + r) = f[y] + (f[p] + r)
  BY <1>10
<1> QED BY <1>3, <1>5, <1>7, <1>8, <1>9, <1>11 DEF r

(* and bounded as its terms are.                                            *)
LEMMA SumAtMost ==
  ASSUME NEW A, IsFiniteSet(A), NEW k \in Nat,
         NEW f, \A x \in A : f[x] \in Nat,
         NEW g, \A x \in A : g[x] \in Nat /\ g[x] <= k * f[x]
  PROVE  SumOver(g, A) <= k * SumOver(f, A)
<1> DEFINE T == {B \in SUBSET A : ~(SumOver(g, B) <= k * SumOver(f, B))}
<1> SUFFICES ASSUME T # {} PROVE FALSE
  OBVIOUS
<1>1. T \in SUBSET (SUBSET A)
  OBVIOUS
<1>2. PICK B \in T : \A C \in T : C \subseteq B => C = B
  <2> HIDE DEF T
  <2> QED BY <1>1, Minimal
<1>3. B # {}
  <2>1. 0 <= k * 0
    OBVIOUS
  <2> QED BY <2>1, SumEmpty
<1> DEFINE p == Pick(B)
           C == B \ {p}
<1>4. p \in B /\ IsFiniteSet(B) /\ IsFiniteSet(C) /\ B \in SUBSET A
  BY <1>3, PickIn, FS_Subset
<1>5. SumOver(f, B) = f[p] + SumOver(f, C) /\ SumOver(g, B) = g[p] + SumOver(g, C)
  BY <1>3, <1>4, SumPick
<1>6. SumOver(g, C) <= k * SumOver(f, C)
  BY <1>2, <1>4
<1>7. SumOver(g, C) \in Nat /\ SumOver(f, C) \in Nat
  <2>1. \A x \in C : f[x] \in Nat /\ g[x] \in Nat
    BY <1>4
  <2> HIDE DEF C
  <2> QED BY <1>4, <2>1, SumType
<1>8. g[p] \in Nat /\ f[p] \in Nat /\ g[p] <= k * f[p]
  BY <1>4
<1>9. ~(SumOver(g, B) <= k * SumOver(f, B))
  OBVIOUS
<1> DEFINE a == SumOver(g, C)
           b == SumOver(f, C)
           c == g[p]
           d == f[p]
<1>10. ~(c + a <= k * (d + b)) /\ a <= k * b /\ c <= k * d
  BY <1>5, <1>6, <1>8, <1>9
<1>11. a \in Nat /\ b \in Nat /\ c \in Nat /\ d \in Nat
  BY <1>7, <1>8
<1> HIDE DEF a, b, c, d, T, C
<1>12. k * (d + b) = k * d + k * b
  BY <1>11
<1>13. k * d \in Nat /\ k * b \in Nat
  BY <1>11
<1> QED BY <1>10, <1>11, <1>12, <1>13

-----------------------------------------------------------------------------
(* The walk of Ancestors, one turn at a time.                               *)
Step(st) ==
  IF funder[st.cur] \in st.seen \cup {None} THEN st
  ELSE [cur |-> funder[st.cur], seen |-> st.seen \cup {funder[st.cur]}]

(* Where it starts, and what its recursion asks of it.                      *)
From(a) == [cur |-> a, seen |-> {}]

Walks(a, f) == [i \in 0 .. 4 |-> IF i = 0 THEN From(a) ELSE Step(f[i - 1])]

(* The recursion has a solution,                                            *)
LEMMA WalkExists == \A a : \E f : f = Walks(a, f)
<1> TAKE a
<1> DEFINE s0 == From(a)
           s1 == Step(s0)
           s2 == Step(s1)
           s3 == Step(s2)
           s4 == Step(s3)
           g == [i \in 0 .. 4 |-> IF i = 0 THEN s0 ELSE IF i = 1 THEN s1 ELSE
                                  IF i = 2 THEN s2 ELSE IF i = 3 THEN s3 ELSE s4]
<1> HIDE DEF s0, s1, s2, s3, s4
<1>1. ASSUME NEW i \in 0 .. 4 PROVE g[i] = IF i = 0 THEN From(a) ELSE Step(g[i - 1])
  <2>1. s0 = From(a) /\ s1 = Step(s0) /\ s2 = Step(s1) /\ s3 = Step(s2) /\ s4 = Step(s3)
    BY DEF s0, s1, s2, s3, s4
  <2>2. g[0] = s0 /\ g[1] = s1 /\ g[2] = s2 /\ g[3] = s3 /\ g[4] = s4
    OBVIOUS
  <2> HIDE DEF g
  <2>3. i = 0 \/ i = 1 \/ i = 2 \/ i = 3 \/ i = 4
    OBVIOUS
  <2>4. CASE i = 0
    BY <2>1, <2>2, <2>4
  <2>5. CASE i = 1
    BY <2>1, <2>2, <2>5
  <2>6. CASE i = 2
    BY <2>1, <2>2, <2>6
  <2>7. CASE i = 3
    BY <2>1, <2>2, <2>7
  <2>8. CASE i = 4
    BY <2>1, <2>2, <2>8
  <2> QED BY <2>3, <2>4, <2>5, <2>6, <2>7, <2>8
<1>2. g = Walks(a, g)
  BY <1>1 DEF Walks
<1> HIDE DEF g
<1> QED BY <1>2

(* so that four turns are what it comes to.                                 *)
LEMMA Unrolled == \A a : Ancestors(a) = Step(Step(Step(Step(From(a))))).seen
<1> TAKE a
<1> DEFINE walk == CHOOSE f : f = Walks(a, f)
<1>1. walk = Walks(a, walk)
  BY WalkExists
<1>2. Ancestors(a) = walk[4].seen
  BY DEF Ancestors, Walks, Step, From
<1> HIDE DEF walk
<1>3. walk[0] = From(a) /\ \A i \in 1 .. 4 : walk[i] = Step(walk[i - 1])
  BY <1>1 DEF Walks
<1>4. walk[1] = Step(walk[0]) /\ walk[2] = Step(walk[1]) /\ walk[3] = Step(walk[2])
      /\ walk[4] = Step(walk[3])
  BY <1>3
<1> QED BY <1>2, <1>3, <1>4

-----------------------------------------------------------------------------
(* The reference: a step up, and whoever is at most four steps up.          *)
Up(x) == IF x = None THEN None ELSE funder[x]

Upwards(a) == {Up(a), Up(Up(a)), Up(Up(Up(a))), Up(Up(Up(Up(a))))} \ {None}

(* A turn stops at an unknown funder or at one seen before, or goes up.     *)
LEMMA Stuck ==
  ASSUME NEW st, funder[st.cur] \in st.seen \cup {None}
  PROVE  Step(st) = st
  BY DEF Step

LEMMA Climbs ==
  ASSUME NEW x, NEW S, funder[x] \notin S \cup {None}
  PROVE  Step([cur |-> x, seen |-> S]) = [cur |-> funder[x], seen |-> S \cup {funder[x]}]
  BY DEF Step

(* Stopping there loses nobody: a chain that comes back to a wallet it has  *)
(* passed goes on in the wallets already seen.                              *)
LEMMA AncestorsExact ==
  ASSUME NEW a, a # None
  PROVE  Ancestors(a) = Upwards(a)
<1> DEFINE u1 == Up(a)
           u2 == Up(u1)
           u3 == Up(u2)
           u4 == Up(u3)
           s0 == From(a)
           s1 == Step(s0)
           s2 == Step(s1)
           s3 == Step(s2)
           s4 == Step(s3)
<1>1. Ancestors(a) = s4.seen /\ Upwards(a) = {u1, u2, u3, u4} \ {None}
  BY Unrolled DEF Upwards
<1>2. s0 = [cur |-> a, seen |-> {}]
  BY DEF From
<1>3. /\ u1 = funder[a]
      /\ u1 # None => u2 = funder[u1]
      /\ u2 # None => u3 = funder[u2]
      /\ u3 # None => u4 = funder[u3]
      /\ u1 = None => u2 = None
      /\ u2 = None => u3 = None
      /\ u3 = None => u4 = None
  BY DEF Up
<1>4. /\ u2 = u1 => u3 = u2
      /\ u3 = u1 => u4 = u2
      /\ u3 = u2 => u4 = u3
  OBVIOUS
<1>5. CASE u1 = None
  <2> HIDE DEF u1, u2, u3, u4, s0
  <2>1. funder[s0.cur] \in s0.seen \cup {None} /\ s0.seen = {}
    BY <1>2, <1>3, <1>5
  <2>2. Step(s0) = s0
    BY <2>1, Stuck
  <2> QED BY <1>1, <1>3, <1>5, <2>1, <2>2
<1> HIDE DEF u1, u2, u3, u4, s0
<1>6. ASSUME u1 # None PROVE s1 = [cur |-> u1, seen |-> {u1}]
  <2>1. Step([cur |-> a, seen |-> {}]) = [cur |-> funder[a], seen |-> {} \cup {funder[a]}]
    BY <1>3, <1>6, Climbs
  <2> QED BY <1>2, <1>3, <2>1
<1>7. CASE u1 # None /\ u2 \in {u1, None}
  <2>1. Step(s1) = s1
    BY <1>3, <1>6, <1>7, Stuck
  <2>2. s4.seen = {u1}
    BY <1>6, <1>7, <2>1
  <2> QED BY <1>1, <1>3, <1>4, <1>7, <2>2
<1> HIDE DEF s1
<1>8. ASSUME u1 # None, u2 \notin {u1, None} PROVE s2 = [cur |-> u2, seen |-> {u1, u2}]
  <2>1. Step([cur |-> u1, seen |-> {u1}]) = [cur |-> funder[u1], seen |-> {u1} \cup {funder[u1]}]
    BY <1>3, <1>8, Climbs
  <2> QED BY <1>3, <1>6, <1>8, <2>1
<1>9. CASE u1 # None /\ u2 \notin {u1, None} /\ u3 \in {u1, u2, None}
  <2>1. Step(s2) = s2
    BY <1>3, <1>8, <1>9, Stuck
  <2>2. s4.seen = {u1, u2}
    BY <1>8, <1>9, <2>1
  <2> QED BY <1>1, <1>3, <1>4, <1>9, <2>2
<1> HIDE DEF s2
<1>10. ASSUME u1 # None, u2 \notin {u1, None}, u3 \notin {u1, u2, None}
       PROVE  s3 = [cur |-> u3, seen |-> {u1, u2, u3}]
  <2>1. Step([cur |-> u2, seen |-> {u1, u2}]) =
          [cur |-> funder[u2], seen |-> {u1, u2} \cup {funder[u2]}]
    BY <1>3, <1>10, Climbs
  <2> QED BY <1>3, <1>8, <1>10, <2>1
<1>11. CASE u1 # None /\ u2 \notin {u1, None} /\ u3 \notin {u1, u2, None}
            /\ u4 \in {u1, u2, u3, None}
  <2>1. Step(s3) = s3
    BY <1>3, <1>10, <1>11, Stuck
  <2>2. s4.seen = {u1, u2, u3}
    BY <1>10, <1>11, <2>1
  <2> QED BY <1>1, <1>11, <2>2
<1>12. CASE u1 # None /\ u2 \notin {u1, None} /\ u3 \notin {u1, u2, None}
            /\ u4 \notin {u1, u2, u3, None}
  <2>1. Step([cur |-> u3, seen |-> {u1, u2, u3}]) =
          [cur |-> funder[u3], seen |-> {u1, u2, u3} \cup {funder[u3]}]
    BY <1>3, <1>12, Climbs
  <2>2. s4 = [cur |-> u4, seen |-> {u1, u2, u3, u4}]
    BY <1>3, <1>10, <1>12, <2>1
  <2> QED BY <1>1, <1>12, <2>2
<1> QED BY <1>5, <1>7, <1>9, <1>11, <1>12

-----------------------------------------------------------------------------

(* _ancestors and the self-dealing check find two wallets of one operator   *)
(* exactly when they are the same or share a funder within four steps,      *)
(* cycles of funders included: the bound and the stop at a wallet seen      *)
(* before neither miss nor accuse anybody.                                  *)
THEOREM FundingExact ==
  \A p, w \in Agents : FundingIsLow(p, w) <=> p = w \/ ShareFunder(p, w)
<1> SUFFICES ASSUME NEW p \in Agents, NEW w \in Agents
             PROVE  FundingIsLow(p, w) <=> p = w \/ ShareFunder(p, w)
  OBVIOUS
<1>1. Ancestors(p) = Upwards(p) /\ Ancestors(w) = Upwards(w)
  BY AncestorsExact, AgentsAssumption
<1>2. ShareFunder(p, w) <=> Upwards(p) \cap Upwards(w) # {}
  BY DEF ShareFunder, Upwards, Up
<1> QED BY <1>1, <1>2 DEF FundingIsLow

-----------------------------------------------------------------------------
(* The sums of the graph are over the finite sets Agents and Specs.         *)
LEMMA TotalIs ==
  ASSUME NEW A, NEW f \in [A -> Nat]
  PROVE  Total(f) = SumOver(f, A)
  BY DEF Total, SumFunction, SumOver

LEMMA TotalType ==
  ASSUME NEW A, IsFiniteSet(A), NEW f \in [A -> Nat]
  PROVE  Total(f) \in Nat
  BY TotalIs, SumType

LEMMA TotalAtMost ==
  ASSUME NEW A, IsFiniteSet(A), NEW k \in Nat, NEW f \in [A -> Nat], NEW g \in [A -> Nat],
         \A x \in A : g[x] <= k * f[x]
  PROVE  Total(g) <= k * Total(f)
<1>1. SumOver(g, A) <= k * SumOver(f, A)
  BY SumAtMost
<1> QED BY <1>1, TotalIs

LEMMA TotalZero ==
  ASSUME NEW A, IsFiniteSet(A), NEW f \in [A -> Nat], \A x \in A : f[x] = 0
  PROVE  Total(f) = 0
<1>1. \A x \in A : f[x] <= 0 * f[x]
  OBVIOUS
<1>2. Total(f) <= 0 * Total(f)
  BY <1>1, TotalAtMost
<1> QED BY <1>2, TotalType

LEMMA TotalElement ==
  ASSUME NEW A, IsFiniteSet(A), NEW f \in [A -> Nat], NEW x \in A
  PROVE  f[x] <= Total(f)
<1>1. Total(f) = f[x] + SumOver(f, A \ {x})
  BY TotalIs, SumRemove
<1>2. SumOver(f, A \ {x}) \in Nat
  BY SumType, FS_Subset, \A y \in A \ {x} : f[y] \in Nat, IsFiniteSet(A \ {x})
<1> QED BY <1>1, <1>2

(* One element makes up the whole only when the others are zero.            *)
LEMMA TotalOne ==
  ASSUME NEW A, IsFiniteSet(A), NEW f \in [A -> Nat], NEW x \in A
  PROVE  f[x] = Total(f) <=> \A y \in A \ {x} : f[y] = 0
<1>1. Total(f) = f[x] + SumOver(f, A \ {x})
  BY TotalIs, SumRemove
<1>2. IsFiniteSet(A \ {x})
  BY FS_Subset
<1> DEFINE B == A \ {x}
           g == [y \in B |-> f[y]]
<1>3. g \in [B -> Nat]
  OBVIOUS
<1>4. SumOver(f, B) <= 1 * SumOver(g, B) /\ SumOver(g, B) <= 1 * SumOver(f, B)
  <2>1. \A y \in B : g[y] = f[y] /\ f[y] \in Nat /\ g[y] <= 1 * f[y] /\ f[y] <= 1 * g[y]
    OBVIOUS
  <2> HIDE DEF g, B
  <2>2. \A y \in B : g[y] \in Nat
    BY <2>1
  <2>3. 1 \in Nat /\ IsFiniteSet(B)
    BY <1>2 DEF B
  <2> QED BY <2>1, <2>2, <2>3, SumAtMost
<1>5. SumOver(f, B) \in Nat /\ SumOver(g, B) \in Nat
  <2>1. \A y \in B : f[y] \in Nat /\ g[y] \in Nat
    OBVIOUS
  <2> HIDE DEF g
  <2> QED BY <1>2, <2>1, SumType
<1>6. Total(g) = SumOver(f, B)
  <2> HIDE DEF g, B
  <2>1. Total(g) = SumOver(g, B)
    BY <1>3, TotalIs
  <2> QED BY <1>4, <1>5, <2>1
<1>7. (\A y \in B : g[y] = 0) => Total(g) = 0
  <2> HIDE DEF g
  <2> QED BY <1>2, <1>3, TotalZero
<1>8. \A y \in B : g[y] <= Total(g)
  <2> HIDE DEF g, B
  <2> QED BY <1>2, <1>3, TotalElement DEF B
<1>9. f[x] = Total(f) <=> SumOver(f, B) = 0
  BY <1>1, <1>5
<1> QED BY <1>6, <1>7, <1>8, <1>9

(* Counting one more adds it, whatever the order of summation was.          *)
LEMMA TotalUpdate ==
  ASSUME NEW A, IsFiniteSet(A), NEW f \in [A -> Nat], NEW g \in [A -> Nat],
         NEW x \in A, \A y \in A \ {x} : g[y] = f[y]
  PROVE  Total(g) = Total(f) - f[x] + g[x]
<1> DEFINE B == A \ {x}
<1>2. \A y \in B : f[y] \in Nat /\ g[y] \in Nat /\ g[y] <= 1 * f[y] /\ f[y] <= 1 * g[y]
  OBVIOUS
<1>3. IsFiniteSet(B) /\ 1 \in Nat
  BY FS_Subset
<1> HIDE DEF B
<1>4. SumOver(f, B) <= 1 * SumOver(g, B) /\ SumOver(g, B) <= 1 * SumOver(f, B)
  BY <1>2, <1>3, SumAtMost
<1>5. SumOver(f, B) \in Nat /\ SumOver(g, B) \in Nat
  BY <1>2, <1>3, SumType
<1>6. Total(f) = f[x] + SumOver(f, B) /\ Total(g) = g[x] + SumOver(g, B)
  BY TotalIs, SumRemove DEF B
<1>7. f[x] \in Nat /\ g[x] \in Nat
  OBVIOUS
<1> QED BY <1>4, <1>5, <1>6, <1>7

-----------------------------------------------------------------------------

(* What the graph holds is well typed, and its two books agree.             *)
IInv == TypeOK /\ BooksAgree

(* The types and BooksAgree are kept by every observation: one that is not  *)
(* countable is in neither book, the others are in both.                    *)
THEOREM InductiveInvariant == Spec => []IInv
<1>1. Init => IInv
  <2> SUFFICES ASSUME Init PROVE IInv
    OBVIOUS
  <2>1. PICK h \in Histories :
          /\ pairs = h.paid
          /\ amount = [a \in Agents |-> [b \in Agents |-> h.paid[b][a]]]
          /\ specs = h.posted
          /\ funder = h.funder
    BY DEF Init
  <2>2. /\ h.paid \in [Agents -> [Agents -> Nat]]
        /\ h.posted \in [Agents -> [Specs -> Nat]]
        /\ h.funder \in [Agents -> Agents \cup {None}]
        /\ \A w \in Agents : Total(h.paid[w]) <= MaxPayments
    BY HistoriesAssumption
  <2>3. news \in 0 .. MaxNews
    BY NewsAssumption DEF Init
  <2>4. amount \in [Agents -> [Agents -> Nat]]
    BY <2>1, <2>2
  <2>5. BooksAgree
    BY <2>1, <2>2 DEF BooksAgree
  <2> QED BY <2>1, <2>2, <2>3, <2>4, <2>5 DEF IInv, TypeOK
<1>2. IInv /\ [Next]_vars => IInv'
  <2> SUFFICES ASSUME TypeOK, BooksAgree, [Next]_vars PROVE TypeOK' /\ BooksAgree'
    BY DEF IInv
  <2>1. ASSUME NEW payer \in Agents, NEW payee \in Agents, NEW r \in Receipts,
               Observe(payer, payee, r)
        PROVE  TypeOK' /\ BooksAgree'
    <3>1. r.amount \in Nat
      BY ReceiptsAssumption
    <3>2. news' \in 0 .. MaxNews
      BY <2>1, NewsAssumption DEF Observe, News, TypeOK
    <3>3. CASE ~(r.tx /\ r.amount > 0)
      BY <2>1, <3>2, <3>3 DEF Observe, TypeOK, BooksAgree
    <3>4. CASE r.tx /\ r.amount > 0
      <4>1. /\ amount' = [amount EXCEPT ![payer][payee] = @ + r.amount]
            /\ pairs' = [pairs EXCEPT ![payee][payer] = @ + 1]
            /\ Total(pairs[payee]) < MaxPayments
            /\ UNCHANGED <<specs, funder>>
        BY <2>1, <3>4 DEF Observe
      <4>2. amount' \in [Agents -> [Agents -> Nat]] /\ pairs' \in [Agents -> [Agents -> Nat]]
        BY <3>1, <4>1 DEF TypeOK
      <4>3. BooksAgree'
        BY <3>1, <3>4, <4>1 DEF TypeOK, BooksAgree
      <4>4. Total(pairs'[payee]) <= MaxPayments
        <5> DEFINE f == pairs[payee]
                   g == pairs'[payee]
        <5>1. f \in [Agents -> Nat] /\ g \in [Agents -> Nat]
          BY <4>2 DEF TypeOK
        <5>2. g[payer] = f[payer] + 1 /\ f[payer] \in Nat
              /\ \A y \in Agents \ {payer} : g[y] = f[y]
          BY <4>1, <5>1 DEF TypeOK
        <5>3. Total(f) < MaxPayments
          BY <4>1
        <5> HIDE DEF f, g
        <5>4. IsFiniteSet(Agents) /\ \A y \in Agents \ {payer} : g[y] = f[y]
          BY <5>2, AgentsAssumption
        <5>5. Total(g) = Total(f) - f[payer] + g[payer]
          BY ONLY <5>1, <5>4, payer \in Agents, TotalUpdate
        <5>6. Total(f) \in Nat
          BY <5>1, AgentsAssumption, TotalType
        <5>7. MaxPayments = 12
          BY DEF MaxPayments, Log2
        <5> QED BY <5>2, <5>3, <5>5, <5>6, <5>7 DEF g
      <4>5. \A w \in Agents : Total(pairs'[w]) <= MaxPayments
        BY <4>1, <4>4 DEF TypeOK
      <4> QED BY <3>2, <4>1, <4>2, <4>3, <4>5 DEF TypeOK
    <3> QED BY <3>3, <3>4
  <2>2. ASSUME NEW a \in Agents, NEW s \in Specs, ObserveSpec(a, s)
        PROVE  TypeOK' /\ BooksAgree'
    <3>1. specs' \in [Agents -> [Specs -> Nat]]
      BY <2>2 DEF ObserveSpec, TypeOK
    <3> QED BY <2>2, <3>1, NewsAssumption DEF ObserveSpec, News, TypeOK, BooksAgree
  <2>3. ASSUME NEW a \in Agents, NEW b \in Agents, ObserveFunding(a, b)
        PROVE  TypeOK' /\ BooksAgree'
    BY <2>3, NewsAssumption DEF ObserveFunding, News, TypeOK, BooksAgree
  <2>4. CASE UNCHANGED vars
    BY <2>4 DEF vars, TypeOK, BooksAgree
  <2> QED BY <2>1, <2>2, <2>3, <2>4 DEF Next
<1> QED BY <1>1, <1>2, PTL DEF Spec

LEMMA TypeInvariant == Spec => []TypeOK
<1>1. IInv => TypeOK
  BY DEF IInv
<1> QED BY <1>1, InductiveInvariant, PTL
-----------------------------------------------------------------------------
(* The table of logarithms: it rises, and by a whole bit when doubled.      *)
LEMMA LogTable ==
  /\ MaxPayments = 12
  /\ Log2[1] = 0 /\ Log2[2] = 1000 /\ Log2[3] = 1585 /\ Log2[4] = 2000
  /\ Log2[5] = 2322 /\ Log2[6] = 2585 /\ Log2[7] = 2807 /\ Log2[8] = 3000
  /\ Log2[9] = 3170 /\ Log2[10] = 3322 /\ Log2[11] = 3459 /\ Log2[12] = 3585
  BY DEF MaxPayments, Log2

LEMMA OneToTwelve ==
  ASSUME NEW i \in 1 .. 12
  PROVE  i = 1 \/ i = 2 \/ i = 3 \/ i = 4 \/ i = 5 \/ i = 6 \/ i = 7 \/ i = 8 \/ i = 9
         \/ i = 10 \/ i = 11 \/ i = 12
  OBVIOUS

LEMMA LogRises ==
  ASSUME NEW i \in 1 .. 12, NEW j \in 1 .. 12
  PROVE  /\ Log2[i] \in Nat
         /\ i <= j => Log2[i] <= Log2[j]
         /\ 2 * i <= j => Log2[i] + 1000 <= Log2[j]
<1>1. Log2[i] \in Nat
  BY LogTable, OneToTwelve
<1>2. i <= j => Log2[i] <= Log2[j]
  BY LogTable, OneToTwelve
<1>3. 2 * i <= j => Log2[i] + 1000 <= Log2[j]
  BY LogTable, OneToTwelve
<1> QED BY <1>1, <1>2, <1>3

(* What a customer with c[x] payments takes off the entropy.                *)
Term(n) == IF n = 0 THEN 0 ELSE n * Log2[n]

Terms(c) == [x \in Agents |-> Term(c[x])]

LowAt(t, repeats) ==
  /\ t >= 3
  /\ 100 * (t * Log2[t] - repeats) < Threshold * t * Log2[IF t < 4 THEN t ELSE 4]

LEMMA PairingIs == \A w : PairingIsLow(w) <=> LowAt(Total(pairs[w]), Total(Terms(pairs[w])))
  BY DEF PairingIsLow, LowAt, Terms, Term

LEMMA TermType ==
  ASSUME NEW n \in 0 .. 12
  PROVE  Term(n) \in Nat
<1>1. CASE n = 0
  BY <1>1 DEF Term
<1>2. CASE n # 0
  <2>1. n \in 1 .. 12
    BY <1>2
  <2>2. Log2[n] \in Nat
    BY <2>1, LogRises
  <2> QED BY <1>2, <2>2 DEF Term
<1> QED BY <1>1, <1>2

(* A clean worker stays clean when its payments grow by a customer that     *)
(* takes nothing off.                                                       *)
LEMMA NewCustomerRaises ==
  ASSUME NEW t \in 0 .. 11, NEW r \in Nat, r <= t * Log2[t] \/ t = 0, ~LowAt(t, r)
  PROVE  ~LowAt(t + 1, r)
<1>1. CASE t \in {0, 1}
  BY <1>1 DEF LowAt
<1>2. CASE t = 2
  BY <1>2, LogTable DEF LowAt, Threshold
<1>3. CASE t = 3
  BY <1>3, LogTable DEF LowAt, Threshold
<1>4. CASE t = 4
  BY <1>4, LogTable DEF LowAt, Threshold
<1>5. CASE t = 5
  BY <1>5, LogTable DEF LowAt, Threshold
<1>6. CASE t = 6
  BY <1>6, LogTable DEF LowAt, Threshold
<1>7. CASE t = 7
  BY <1>7, LogTable DEF LowAt, Threshold
<1>8. CASE t = 8
  BY <1>8, LogTable DEF LowAt, Threshold
<1>9. CASE t = 9
  BY <1>9, LogTable DEF LowAt, Threshold
<1>10. CASE t = 10
  BY <1>10, LogTable DEF LowAt, Threshold
<1>11. CASE t = 11
  BY <1>11, LogTable DEF LowAt, Threshold
<1>12. t \in {0, 1} \/ t = 2 \/ t = 3 \/ t = 4 \/ t = 5 \/ t = 6 \/ t = 7 \/ t = 8
       \/ t = 9 \/ t = 10 \/ t = 11
  OBVIOUS
<1> QED BY <1>1, <1>2, <1>3, <1>4, <1>5, <1>6, <1>7, <1>8, <1>9, <1>10, <1>11, <1>12

(* A whole bit of entropy is enough, none at all is not.                    *)
LEMMA BitIsClean ==
  ASSUME NEW t \in 3 .. 12, NEW r \in Nat, r <= (Log2[t] - 1000) * t
  PROVE  ~LowAt(t, r)
<1>1. t = 3 \/ t = 4 \/ t = 5 \/ t = 6 \/ t = 7 \/ t = 8 \/ t = 9 \/ t = 10 \/ t = 11 \/ t = 12
  OBVIOUS
<1> QED BY <1>1, LogTable DEF LowAt, Threshold

LEMMA NoEntropyIsLow ==
  ASSUME NEW t \in 3 .. 12
  PROVE  LowAt(t, t * Log2[t])
<1>1. t = 3 \/ t = 4 \/ t = 5 \/ t = 6 \/ t = 7 \/ t = 8 \/ t = 9 \/ t = 10 \/ t = 11 \/ t = 12
  OBVIOUS
<1> QED BY <1>1, LogTable DEF LowAt, Threshold

(* The counts of a worker: each at most the total, which is at most twelve. *)
LEMMA Counts ==
  ASSUME TypeOK, NEW w \in Agents
  PROVE  /\ pairs[w] \in [Agents -> Nat] /\ pairs[w] \in [Agents -> 0 .. 12]
         /\ Total(pairs[w]) \in 0 .. 12
         /\ \A x \in Agents : pairs[w][x] <= Total(pairs[w])
         /\ Terms(pairs[w]) \in [Agents -> Nat]
<1>1. pairs[w] \in [Agents -> Nat] /\ Total(pairs[w]) <= 12
  BY LogTable DEF TypeOK
<1>2. Total(pairs[w]) \in Nat
  BY <1>1, TotalType, AgentsAssumption
<1>3. \A x \in Agents : pairs[w][x] <= Total(pairs[w])
  BY <1>1, TotalElement, AgentsAssumption
<1>4. \A x \in Agents : pairs[w][x] \in 0 .. 12
  BY <1>1, <1>2, <1>3
<1>5. \A x \in Agents : Term(pairs[w][x]) \in Nat
  BY <1>4, TermType
<1>6. pairs[w] \in [Agents -> 0 .. 12]
  BY <1>1, <1>4
<1>7. Terms(pairs[w]) \in [Agents -> Nat]
  BY <1>5 DEF Terms
<1> QED BY <1>1, <1>2, <1>3, <1>6, <1>7

LEMMA TermsAtMost ==
  ASSUME TypeOK, NEW w \in Agents, NEW k \in Nat,
         \A x \in Agents : pairs[w][x] > 0 => Log2[pairs[w][x]] <= k
  PROVE  Total(Terms(pairs[w])) <= k * Total(pairs[w]) /\ Total(Terms(pairs[w])) \in Nat
<1> DEFINE f == pairs[w]
           g == Terms(pairs[w])
<1>1. f \in [Agents -> Nat] /\ g \in [Agents -> Nat] /\ f \in [Agents -> 0 .. 12]
  BY Counts
<1>2. ASSUME NEW x \in Agents PROVE g[x] <= k * f[x]
  <2>1. g[x] = Term(f[x]) /\ f[x] \in 0 .. 12
    BY <1>1 DEF Terms
  <2>2. CASE f[x] = 0
    BY <2>1, <2>2 DEF Term
  <2>3. CASE f[x] # 0
    <3> DEFINE n == f[x]
               l == Log2[f[x]]
    <3>1. n \in 1 .. 12 /\ l \in Nat /\ l <= k
      <4>1. n \in 1 .. 12
        BY <2>1, <2>3
      <4> QED BY <4>1, LogRises
    <3>2. g[x] = n * l
      BY <2>1, <2>3 DEF Term
    <3> HIDE DEF n, l
    <3>3. n * l <= k * n
      BY <3>1
    <3> QED BY <3>2, <3>3 DEF n
  <2> QED BY <2>2, <2>3
<1> HIDE DEF f, g
<1>3. Total(g) <= k * Total(f)
  BY <1>1, <1>2, TotalAtMost, AgentsAssumption
<1>4. Total(g) \in Nat
  BY <1>1, TotalType, AgentsAssumption
<1> QED BY <1>3, <1>4 DEF f, g

(* The first signal passes over a worker with customers,                    *)
LEMMA CustomersPair ==
  ASSUME TypeOK, NEW w \in Agents, HasCustomers(w)
  PROVE  ~PairingIsLow(w)
<1> DEFINE t == Total(pairs[w])
           r == Total(Terms(pairs[w]))
<1>1. t \in 0 .. 12
  BY Counts
<1>2. CASE t < 3
  BY <1>1, <1>2, PairingIs DEF LowAt
<1>3. CASE t >= 3
  <2>1. \A x \in Agents : 2 * pairs[w][x] <= t /\ pairs[w][x] \in 0 .. 12
    BY <1>1, <1>3, Counts DEF HasCustomers
  <2>2. t \in 3 .. 12 /\ t \in 1 .. 12
    BY <1>1, <1>3
  <2>3. Log2[t] - 1000 \in Nat
    <3>1. 1 \in 1 .. 12 /\ 2 * 1 <= t
      BY <2>2
    <3>2. Log2[1] + 1000 <= Log2[t] /\ Log2[t] \in Nat
      BY <2>2, <3>1, LogRises
    <3> QED BY <3>2, LogTable
  <2>4. ASSUME NEW x \in Agents, pairs[w][x] > 0
        PROVE  Log2[pairs[w][x]] <= Log2[t] - 1000
    <3>1. pairs[w][x] \in 1 .. 12 /\ 2 * pairs[w][x] <= t
      BY <2>1, <2>4
    <3>2. Log2[pairs[w][x]] + 1000 <= Log2[t] /\ Log2[pairs[w][x]] \in Nat /\ Log2[t] \in Nat
      BY <2>2, <3>1, LogRises
    <3> QED BY <3>2
  <2>5. r <= (Log2[t] - 1000) * t /\ r \in Nat
    BY <2>3, <2>4, TermsAtMost
  <2> HIDE DEF t, r
  <2>6. ~LowAt(t, r)
    BY <2>2, <2>5, BitIsClean
  <2> QED BY <2>6, PairingIs DEF t, r
<1> QED BY <1>1, <1>2, <1>3

(* and finds a worker with three payments of a single one.                  *)
LEMMA SinglePair ==
  ASSUME TypeOK, NEW w \in Agents, NEW x \in Agents, pairs[w][x] = Total(pairs[w])
  PROVE  PairingIsLow(w) <=> pairs[w][x] >= 3
<1> DEFINE t == Total(pairs[w])
           c == pairs[w]
           g == Terms(pairs[w])
<1>1. t \in 0 .. 12 /\ c \in [Agents -> Nat] /\ g \in [Agents -> Nat]
  BY Counts
<1>2. CASE t < 3
  BY <1>1, <1>2, PairingIs DEF LowAt
<1>3. CASE t >= 3
  <2>1. \A y \in Agents \ {x} : c[y] = 0
    BY <1>1, TotalOne, AgentsAssumption
  <2>2. \A y \in Agents \ {x} : g[y] = 0
    BY <2>1 DEF Terms, Term
  <2>3. g[x] = t * Log2[t]
    BY <1>3 DEF Terms, Term
  <2> HIDE DEF g
  <2>4. Total(g) = g[x]
    BY <1>1, <2>2, TotalOne, AgentsAssumption
  <2>5. LowAt(t, t * Log2[t])
    <3>1. t \in 3 .. 12
      BY <1>1, <1>3
    <3> HIDE DEF t
    <3> QED BY <3>1, NoEntropyIsLow
  <2> QED BY <1>3, <2>3, <2>4, <2>5, PairingIs DEF g
<1> QED BY <1>1, <1>2, <1>3

-----------------------------------------------------------------------------
(* The second signal: what comes back to w by way of b.                     *)
Through(w, b) == [c \in Agents |-> Least(amount[b][c], amount[c][w])]

Back(w) == [b \in Agents |-> IF amount[w][b] = 0 THEN 0 ELSE amount[b][w] + Total(Through(w, b))]

LEMMA ReturnedIs == \A w : Returned(w) = Total(Back(w))
  BY DEF Returned, Back, Through

LEMMA BackType ==
  ASSUME TypeOK, NEW w \in Agents
  PROVE  /\ amount[w] \in [Agents -> Nat] /\ Total(amount[w]) \in Nat
         /\ \A b \in Agents : Through(w, b) \in [Agents -> Nat] /\ Total(Through(w, b)) \in Nat
         /\ Back(w) \in [Agents -> Nat] /\ Total(Back(w)) \in Nat
<1>1. amount[w] \in [Agents -> Nat]
  BY DEF TypeOK
<1>2. Total(amount[w]) \in Nat
  BY <1>1, TotalType, AgentsAssumption
<1>3. \A b \in Agents : Through(w, b) \in [Agents -> Nat]
  BY DEF TypeOK, Through, Least
<1>4. \A b \in Agents : Total(Through(w, b)) \in Nat
  BY <1>3, TotalType, AgentsAssumption
<1>5. \A b \in Agents : amount[b][w] \in Nat
  BY DEF TypeOK
<1>6. Back(w) \in [Agents -> Nat]
  BY <1>4, <1>5 DEF Back
<1>7. Total(Back(w)) \in Nat
  BY <1>6, TotalType, AgentsAssumption
<1> QED BY <1>1, <1>2, <1>3, <1>4, <1>6, <1>7

(* It passes over a worker whose money does not come back,                  *)
LEMMA OneWayValue ==
  ASSUME TypeOK, NEW w \in Agents, OneWay(w)
  PROVE  ~ValueIsLow(w)
<1>1. PICK S \in SUBSET (Agents \ {w}) :
        Payees(w) \subseteq S /\ \A a \in S : Payees(a) \subseteq S
  BY DEF OneWay
<1>2. ASSUME NEW b \in Agents PROVE Back(w)[b] = 0
  <2>1. CASE amount[w][b] = 0
    BY <2>1 DEF Back
  <2>2. CASE amount[w][b] # 0
    <3>1. b \in S
      BY <1>1, <2>2 DEF Payees, TypeOK
    <3>2. amount[b][w] = 0
      BY <1>1, <3>1 DEF Payees, TypeOK
    <3>3. \A c \in Agents : Through(w, b)[c] = 0
      <4> SUFFICES ASSUME NEW c \in Agents PROVE Through(w, b)[c] = 0
        OBVIOUS
      <4>1. amount[b][c] \in Nat /\ amount[c][w] \in Nat
        BY DEF TypeOK
      <4>2. amount[b][c] = 0 \/ c \in S
        BY <1>1, <3>1, <4>1 DEF Payees
      <4>3. c \in S => amount[c][w] = 0
        BY <1>1, <4>1 DEF Payees
      <4> QED BY <4>1, <4>2, <4>3 DEF Through, Least
    <3>4. Total(Through(w, b)) = 0
      BY <3>3, BackType, TotalZero, AgentsAssumption
    <3> QED BY <2>2, <3>2, <3>4 DEF Back
  <2> QED BY <2>1, <2>2
<1>3. Total(Back(w)) = 0
  BY <1>2, BackType, TotalZero, AgentsAssumption
<1>4. Total(amount[w]) \in Nat
  BY BackType
<1> QED BY <1>3, <1>4, ReturnedIs DEF ValueIsLow, Threshold

(* and finds a laundry.                                                     *)
LEMMA LaundryValue ==
  ASSUME TypeOK, NEW w \in Agents, Laundry(w)
  PROVE  ValueIsLow(w)
<1>1. PICK b \in Agents \ {w} :
        /\ amount[w][b] = Total(amount[w])
        /\ \/ Launders(amount[w][b], amount[b][w])
           \/ \E c \in Agents \ {w, b} :
                Launders(amount[w][b], amount[b][c]) /\ Launders(amount[w][b], amount[c][w])
  BY DEF Laundry
<1> DEFINE x == amount[w][b]
           y == Back(w)[b]
<1>2. x \in Nat /\ amount[b][w] \in Nat
  BY DEF TypeOK
<1>3. x > 0
  BY <1>1 DEF Launders
<1>4. y = amount[b][w] + Total(Through(w, b)) /\ Total(Through(w, b)) \in Nat
  <2>1. Total(Through(w, b)) \in Nat
    BY BackType
  <2>2. x # 0
    BY <1>2, <1>3
  <2>3. y = amount[b][w] + Total(Through(w, b))
    BY <2>2 DEF Back
  <2> QED BY <2>1, <2>3
<1>5. 3 * y >= 2 * x
  <2>1. CASE Launders(amount[w][b], amount[b][w])
    BY <1>2, <1>4, <2>1 DEF Launders
  <2>2. CASE \E c \in Agents \ {w, b} :
               Launders(amount[w][b], amount[b][c]) /\ Launders(amount[w][b], amount[c][w])
    <3>1. PICK c \in Agents \ {w, b} :
            Launders(amount[w][b], amount[b][c]) /\ Launders(amount[w][b], amount[c][w])
      BY <2>2
    <3>2. Through(w, b) \in [Agents -> Nat]
      BY BackType
    <3>3. Through(w, b)[c] <= Total(Through(w, b)) /\ Through(w, b)[c] \in Nat
      BY <3>2, TotalElement, AgentsAssumption
    <3>4. Through(w, b)[c] = amount[b][c] \/ Through(w, b)[c] = amount[c][w]
      BY DEF Through, Least
    <3>5. 3 * Through(w, b)[c] >= 2 * x
      BY <3>1, <3>4 DEF Launders
    <3> HIDE DEF x, y
    <3> QED BY <1>2, <1>4, <3>3, <3>5
  <2> QED BY <1>1, <2>1, <2>2
<1>6. y <= Total(Back(w)) /\ y \in Nat /\ Total(Back(w)) \in Nat
  BY BackType, TotalElement, AgentsAssumption
<1> HIDE DEF x, y
<1>7. 100 * Total(Back(w)) > (100 - 35) * x
  BY <1>2, <1>3, <1>5, <1>6
<1>8. Total(amount[w]) = x
  BY <1>1 DEF x
<1> QED BY <1>3, <1>7, <1>8, ReturnedIs DEF ValueIsLow, Threshold

-----------------------------------------------------------------------------
(* The third signal: the different specifications of a poster.              *)
Different(p) == {s \in Specs : specs[p][s] > 0}

LEMMA SpecsType ==
  ASSUME TypeOK, NEW p \in Agents
  PROVE  specs[p] \in [Specs -> Nat] /\ Total(specs[p]) \in Nat /\ Cardinality(Different(p)) \in Nat
<1>1. specs[p] \in [Specs -> Nat]
  BY DEF TypeOK
<1>2. IsFiniteSet(Different(p))
  BY SpecsAssumption, FS_Subset DEF Different
<1> QED BY <1>1, <1>2, TotalType, SpecsAssumption, FS_CardinalityType

LEMMA VariedSpecs ==
  ASSUME TypeOK, NEW p \in Agents, VariesSpecs(p)
  PROVE  ~SpecsAreLow(p)
<1> DEFINE n == Total(specs[p])
           d == Cardinality(Different(p))
<1>1. n \in Nat /\ d \in Nat
  BY SpecsType
<1>2. n <= 2 * d
  BY DEF VariesSpecs, Different
<1> HIDE DEF n, d
<1>3. ~(n >= 3 /\ 100 * d < 35 * n)
  BY <1>1, <1>2
<1> QED BY <1>3 DEF SpecsAreLow, Threshold, Different, n, d

LEMMA OneSpec ==
  ASSUME TypeOK, NEW p \in Agents, NEW s \in Specs,
         Total(specs[p]) >= 3, specs[p][s] = Total(specs[p])
  PROVE  SpecsAreLow(p)
<1>1. \A r \in Specs \ {s} : specs[p][r] = 0
  BY SpecsType, TotalOne, SpecsAssumption
<1>2. Different(p) = {s}
  <2>1. specs[p][s] > 0
    BY SpecsType
  <2>2. \A r \in Specs : specs[p][r] > 0 <=> r = s
    BY <1>1, <2>1
  <2> QED BY <2>2 DEF Different
<1>3. Cardinality(Different(p)) = 1
  BY <1>2, FS_Singleton
<1>4. Total(specs[p]) \in Nat
  BY SpecsType
<1> QED BY <1>3, <1>4 DEF SpecsAreLow, Threshold, Different

-----------------------------------------------------------------------------

(* HonestWorkersAreClean in every state of every graph: none of the four    *)
(* signals accuses a worker with customers or hardly any payments, whose    *)
(* money does not come back, working for another operator that varies its   *)
(* specifications.                                                          *)
THEOREM HonestClean == Spec => []HonestWorkersAreClean
<1>1. TypeOK => HonestWorkersAreClean
  <2> SUFFICES ASSUME TypeOK, NEW p \in Agents, NEW w \in Agents,
                      HasCustomers(w), OneWay(w), VariesSpecs(p), p # w, ~ShareFunder(p, w)
               PROVE  ~Quarantined(p, w)
    BY DEF HonestWorkersAreClean
  <2>1. ~PairingIsLow(w)
    BY CustomersPair
  <2>2. ~ValueIsLow(w)
    BY OneWayValue
  <2>3. ~SpecsAreLow(p)
    BY VariedSpecs
  <2>4. ~FundingIsLow(p, w)
    BY FundingExact
  <2> QED BY <2>1, <2>2, <2>3, <2>4 DEF Quarantined
<1> QED BY <1>1, TypeInvariant, PTL

(* CollusionIsCaught in every state of every graph: a single customer, a    *)
(* laundry, a farm of one specification and an operator with two wallets    *)
(* are each enough for quarantine, whatever the other signals say.          *)
THEOREM CollusionCaught == Spec => []CollusionIsCaught
<1>1. TypeOK => CollusionIsCaught
  <2> SUFFICES ASSUME TypeOK, NEW p \in Agents, NEW w \in Agents, Colludes(p, w)
               PROVE  Quarantined(p, w)
    BY DEF CollusionIsCaught
  <2>1. CASE Total(pairs[w]) >= 3 /\ \E x \in Agents : pairs[w][x] = Total(pairs[w])
    <3>1. PairingIsLow(w)
      BY <2>1, SinglePair
    <3> QED BY <3>1 DEF Quarantined
  <2>2. CASE Laundry(w)
    BY <2>2, LaundryValue DEF Quarantined
  <2>3. CASE Total(specs[p]) >= 3 /\ \E s \in Specs : specs[p][s] = Total(specs[p])
    <3>1. SpecsAreLow(p)
      BY <2>3, OneSpec
    <3> QED BY <3>1 DEF Quarantined
  <2>4. CASE p = w \/ ShareFunder(p, w)
    BY <2>4, FundingExact DEF Quarantined
  <2> QED BY <2>1, <2>2, <2>3, <2>4 DEF Colludes
<1> QED BY <1>1, TypeInvariant, PTL

(* The graph as the market feeds it: one wallet pays for everything, what a *)
(* worker spends does not come back, and nobody's funder is known.          *)
FedByMarket(w) ==
  /\ \E x \in Agents : pairs[w][x] = Total(pairs[w])
  /\ OneWay(w)
  /\ \A a \in Agents : funder[a] = None

(* Then the gate comes to what module Orchestrator makes of it: a worker is *)
(* refused from its third payment on, a poster for its specifications or    *)
(* for being the worker, and nobody for anything else.                      *)
MarketGate ==
  \A p, w \in Agents : FedByMarket(w) =>
    (Quarantined(p, w) <=> p = w \/ Total(pairs[w]) >= 3 \/ SpecsAreLow(p))

(* In every state of every graph the four signals agree with Orchestrator's *)
(* reduction of them to two and a count.                                    *)
THEOREM MarketGateHolds == Spec => []MarketGate
<1>1. TypeOK => MarketGate
  <2> SUFFICES ASSUME TypeOK, NEW p \in Agents, NEW w \in Agents, FedByMarket(w)
               PROVE  Quarantined(p, w) <=> p = w \/ Total(pairs[w]) >= 3 \/ SpecsAreLow(p)
    BY DEF MarketGate
  <2>1. PairingIsLow(w) <=> Total(pairs[w]) >= 3
    BY SinglePair DEF FedByMarket
  <2>2. ~ValueIsLow(w)
    BY OneWayValue DEF FedByMarket
  <2>3. FundingIsLow(p, w) <=> p = w
    <3>1. ~ShareFunder(p, w)
      BY DEF ShareFunder, FedByMarket
    <3> QED BY <3>1, FundingExact
  <2> QED BY <2>1, <2>2, <2>3 DEF Quarantined
<1> QED BY <1>1, TypeInvariant, PTL

(* A first payment is an observation, of one more payment.                  *)
LEMMA FirstPaymentIs ==
  ASSUME TypeOK, [Next]_vars, NEW w \in Agents, NEW x \in Agents, FirstPayment(x, w)
  PROVE  \E n \in Nat :
           /\ amount' = [amount EXCEPT ![x][w] = @ + n]
           /\ pairs' = [pairs EXCEPT ![w][x] = 1]
           /\ UNCHANGED <<specs, funder>>
<1>1. pairs[w][x] = 0 /\ pairs'[w][x] = 1
  BY DEF FirstPayment
<1>2. ASSUME NEW payer \in Agents, NEW payee \in Agents, NEW r \in Receipts,
             Observe(payer, payee, r)
      PROVE  /\ r.amount \in Nat
             /\ amount' = [amount EXCEPT ![x][w] = @ + r.amount]
             /\ pairs' = [pairs EXCEPT ![w][x] = 1]
             /\ UNCHANGED <<specs, funder>>
  <2>1. r.amount \in Nat
    BY ReceiptsAssumption
  <2>2. /\ amount' = [amount EXCEPT ![payer][payee] = @ + r.amount]
        /\ pairs' = [pairs EXCEPT ![payee][payer] = @ + 1]
        /\ UNCHANGED <<specs, funder>>
    BY <1>1, <1>2 DEF Observe
  <2>3. payee = w /\ payer = x
    BY <1>1, <2>2 DEF TypeOK
  <2> QED BY <1>1, <2>1, <2>2, <2>3
<1>3. ~(UNCHANGED pairs)
  BY <1>1
<1>4. PICK payer \in Agents, payee \in Agents, r \in Receipts : Observe(payer, payee, r)
  BY <1>3 DEF Next, vars, ObserveSpec, ObserveFunding
<1> QED BY <1>2, <1>4

LEMMA FundingUnchanged == UNCHANGED funder => \A p, w : FundingIsLow(p, w)' <=> FundingIsLow(p, w)
  BY DEF FundingIsLow, Ancestors

(* NewCustomerNeverAccuses: the total grows by a payment that takes nothing *)
(* off the entropy, and nothing of it is on a way back to the worker.       *)
THEOREM NewCustomerClean == Spec => NewCustomerNeverAccuses
<1>1. ASSUME TypeOK, TypeOK', [Next]_vars,
             NEW p \in Agents, NEW w \in Agents, NEW x \in Agents,
             FirstPayment(x, w), ~Quarantined(p, w)
      PROVE  ~Quarantined(p, w)'
  <2>1. PICK n \in Nat :
          /\ amount' = [amount EXCEPT ![x][w] = @ + n]
          /\ pairs' = [pairs EXCEPT ![w][x] = 1]
          /\ UNCHANGED <<specs, funder>>
    BY <1>1, FirstPaymentIs
  <2>2. ~PairingIsLow(w)'
    <3> DEFINE f == pairs[w]
               g == pairs'[w]
               t == Total(f)
               r == Total(Terms(f))
    <3>1. f \in [Agents -> Nat] /\ t \in 0 .. 12 /\ f[x] = 0 /\ Terms(f) \in [Agents -> Nat]
      BY <1>1, Counts DEF FirstPayment
    <3>2. g = [f EXCEPT ![x] = 1] /\ g \in [Agents -> Nat]
      <4>1. g = [f EXCEPT ![x] = 1]
        BY <1>1, <2>1 DEF TypeOK
      <4> HIDE DEF f, g
      <4> QED BY <3>1, <4>1
    <3>3. Terms(g) = Terms(f)
      BY <3>1, <3>2, LogTable DEF Terms, Term
    <3>4. Total(g) = t + 1
      <4>1. g[x] = 1 /\ \A y \in Agents \ {x} : g[y] = f[y]
        BY <3>1, <3>2
      <4> HIDE DEF f, g
      <4>2. IsFiniteSet(Agents) /\ f \in [Agents -> Nat] /\ g \in [Agents -> Nat]
            /\ \A y \in Agents \ {x} : g[y] = f[y]
        BY <3>1, <3>2, <4>1, AgentsAssumption
      <4>3. Total(g) = Total(f) - f[x] + g[x]
        BY ONLY <4>2, x \in Agents, TotalUpdate
      <4> QED BY <3>1, <4>1, <4>3
    <3>5. t \in 0 .. 11
      <4>1. Total(g) <= 12
        BY <1>1, LogTable DEF TypeOK, MaxPayments
      <4> QED BY <3>1, <3>4, <4>1
    <3>6. ~LowAt(t, r)
      BY <1>1, PairingIs DEF Quarantined
    <3>7. r \in Nat /\ (t = 0 \/ r <= t * Log2[t])
      <4>1. r \in Nat
        BY <3>1, TotalType, AgentsAssumption
      <4>2. CASE t # 0
        <5>1. t \in 1 .. 12 /\ Log2[t] \in Nat
          <6>1. t \in 1 .. 12
            BY <3>1, <4>2
          <6> QED BY <6>1, LogRises
        <5>2. ASSUME NEW y \in Agents, pairs[w][y] > 0
              PROVE  Log2[pairs[w][y]] <= Log2[t]
          <6>1. pairs[w][y] \in 1 .. 12 /\ pairs[w][y] <= t
            BY <1>1, <5>2, Counts
          <6> QED BY <5>1, <6>1, LogRises
        <5>3. r <= Log2[t] * t
          BY <1>1, <5>1, <5>2, TermsAtMost
        <5> HIDE DEF t, r
        <5>4. Log2[t] * t = t * Log2[t]
          BY <5>1
        <5> QED BY <4>1, <5>3, <5>4
      <4> QED BY <4>1, <4>2
    <3> HIDE DEF f, g, t, r
    <3>8. ~LowAt(t + 1, r)
      BY <3>5, <3>6, <3>7, NewCustomerRaises
    <3>9. PairingIsLow(w)' <=> LowAt(Total(g), Total(Terms(g)))
      BY DEF PairingIsLow, LowAt, Terms, Term, g
    <3> QED BY <3>3, <3>4, <3>8, <3>9 DEF r
  <2>3. ~ValueIsLow(w)'
    <3>1. amount'[w] = amount[w]
      BY <1>1, <2>1 DEF FirstPayment, TypeOK
    <3>2. ASSUME NEW b \in Agents PROVE Back(w)'[b] = Back(w)[b]
      <4>1. CASE amount[w][b] = 0
        BY <3>1, <4>1 DEF Back
      <4>2. CASE amount[w][b] # 0
        <5>1. b # x /\ amount[b][x] = 0
          BY <1>1, <4>2 DEF FirstPayment, TypeOK
        <5>2. amount'[b] = amount[b]
          BY <2>1, <5>1 DEF TypeOK
        <5>3. \A c \in Agents : c # x => amount'[c][w] = amount[c][w]
          BY <2>1 DEF TypeOK
        <5>4. amount[x][w] \in Nat /\ amount'[x][w] \in Nat
          BY <1>1 DEF TypeOK
        <5>5. \A c \in Agents :
                Least(amount'[b][c], amount'[c][w]) = Least(amount[b][c], amount[c][w])
          BY <5>1, <5>2, <5>3, <5>4 DEF Least
        <5>6. Through(w, b)' = Through(w, b)
          BY <5>5 DEF Through
        <5> QED BY <3>1, <5>1, <5>3, <5>6 DEF Back
      <4> QED BY <4>1, <4>2
    <3>3. Back(w)' = Back(w)
      BY <3>2 DEF Back
    <3>4. Returned(w)' = Returned(w)
      <4>1. Returned(w)' = Total(Back(w)')
        BY DEF Returned, Back, Through
      <4> QED BY <3>3, <4>1, ReturnedIs
    <3> QED BY <1>1, <3>1, <3>4 DEF ValueIsLow, Quarantined
  <2>4. ~SpecsAreLow(p)'
    BY <1>1, <2>1 DEF SpecsAreLow, Quarantined
  <2>5. ~FundingIsLow(p, w)'
    BY <1>1, <2>1, FundingUnchanged DEF Quarantined
  <2> QED BY <2>2, <2>3, <2>4, <2>5 DEF Quarantined
<1>2. TypeOK /\ TypeOK' /\ [Next]_vars
        => [\A p, w, x \in Agents :
              FirstPayment(x, w) /\ ~Quarantined(p, w) => ~Quarantined(p, w)']_vars
  BY <1>1
<1> QED BY <1>2, TypeInvariant, PTL DEF Spec, NewCustomerNeverAccuses
=============================================================================
