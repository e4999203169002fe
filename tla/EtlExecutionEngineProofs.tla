------------------------ MODULE EtlExecutionEngineProofs ------------------------
(***************************************************************************)
(* Theorems about EtlExecutionEngine, for every project and every nesting  *)
(* of tasks in containers.  The loop of executeDynamic is a recursion over *)
(* the connections of the task that has ended; what it does is shown for   *)
(* one connection (ConsiderStep) and carried along the recursion by        *)
(* induction (AfterNodeStep), and the rest follows action by action from   *)
(* an invariant of one frame at a time and of the nesting of the frames.   *)
(*                                                                         *)
(* First induction and recursion on natural numbers, as facts about sets,  *)
(* and what a filtered sequence is.  The induction theorems of the library *)
(* take the property as an operator; stated for a set of numbers,          *)
(* induction can be applied to any {n \in Nat : ...}.                      *)
(***************************************************************************)
EXTENDS EtlExecutionEngine, Integers, FiniteSetTheorems, SequenceTheorems, TLAPS

--------------------------------------------------------------------------------
(* A set that has 0 and the successor of each of its numbers has them all: *)
(* the least 0 .. k whose k is missing, in the order of strict inclusion,  *)
(* would have a smaller one.                                               *)
LEMMA SetInduction ==
  ASSUME NEW T, 0 \in T, \A n \in Nat : n \in T => n + 1 \in T
  PROVE  Nat \subseteq T
<1> DEFINE F == {0 .. k : k \in Nat \ T}
<1>1. SUFFICES ASSUME NEW z \in Nat, z \notin T PROVE FALSE
  OBVIOUS
<1>2. F \subseteq FiniteSubsetsOf(Nat)
  <2>1. ASSUME NEW k \in Nat PROVE 0 .. k \in FiniteSubsetsOf(Nat)
    <3>1. IsFiniteSet(0 .. k) BY FS_Interval
    <3>2. 0 .. k \subseteq Nat OBVIOUS
    <3> QED BY <3>1, <3>2 DEF FiniteSubsetsOf
  <2> QED BY <2>1
<1>3. F # {}
  BY <1>1
<1>4. IsWellFoundedOn(StrictSubsetOrdering(Nat), FiniteSubsetsOf(Nat))
  BY FS_StrictSubsetOrderingWellFounded
<1>5. \E x \in F : \A y \in F : ~ (<< y, x >> \in StrictSubsetOrdering(Nat))
  <2> HIDE DEF F
  <2> QED BY <1>2, <1>3, <1>4, WFMin
<1>6. PICK k \in Nat \ T : \A y \in F : ~ (<< y, 0 .. k >> \in StrictSubsetOrdering(Nat))
  BY <1>5
<1>7. k # 0
  OBVIOUS
<1>8. k - 1 \in Nat \ T
  <2>1. k - 1 \in Nat /\ (k - 1) + 1 = k BY <1>7
  <2> QED BY <2>1
<1>9. 0 .. (k - 1) \in F
  BY <1>8
<1>10. 0 .. (k - 1) \subseteq 0 .. k /\ k \in 0 .. k /\ k \notin 0 .. (k - 1)
  BY <1>8
<1>11. << 0 .. (k - 1), 0 .. k >> \in StrictSubsetOrdering(Nat)
  <2>1. 0 .. (k - 1) \in SUBSET Nat /\ 0 .. k \in SUBSET Nat BY <1>8
  <2>2. 0 .. (k - 1) # 0 .. k BY <1>10
  <2> QED BY <1>10, <2>1, <2>2 DEF StrictSubsetOrdering
<1> QED BY <1>6, <1>9, <1>11

(* Induction up to a bound.                                                *)
LEMMA BoundedInduction ==
  ASSUME NEW N \in Nat, NEW T, 0 \in T, \A n \in 0 .. N : n \in T /\ n < N => n + 1 \in T
  PROVE  0 .. N \subseteq T
<1> DEFINE U == {n \in Nat : n <= N => n \in T}
<1>1. 0 \in U
  OBVIOUS
<1>2. \A n \in Nat : n \in U => n + 1 \in U
  OBVIOUS
<1>3. Nat \subseteq U
  <2> HIDE DEF U
  <2> QED BY <1>1, <1>2, SetInduction
<1> QED BY <1>3

(* A function can be defined by recursion on 0 .. n.                       *)
Steps(V) == [V \X Nat -> V]
Iterates(f, V, base, step, n) ==
  /\ f \in [0 .. n -> V] /\ f[0] = base
  /\ \A i \in 1 .. n : f[i] = step[<< f[i - 1], i >>]

LEMMA PrimitiveRecursion ==
  ASSUME NEW V, NEW base \in V, NEW step \in Steps(V), NEW N \in Nat
  PROVE  \E f : Iterates(f, V, base, step, N)
<1> USE DEF Steps, Iterates
<1> DEFINE Defines(f, n) == Iterates(f, V, base, step, n)
           T == {n \in Nat : \E f : Defines(f, n)}
<1>1. 0 \in T
  <2> DEFINE f == [i \in 0 .. 0 |-> base]
  <2>1. Defines(f, 0) OBVIOUS
  <2> QED BY <2>1
<1>2. ASSUME NEW n \in Nat, n \in T PROVE n + 1 \in T
  <2>1. PICK f : Defines(f, n) BY <1>2
  <2> DEFINE g == [i \in 0 .. (n + 1) |-> IF i = n + 1 THEN step[<< f[n], n + 1 >>] ELSE f[i]]
  <2>2. f[n] \in V BY <2>1
  <2>3. step[<< f[n], n + 1 >>] \in V BY <2>2
  <2>4. g \in [0 .. (n + 1) -> V] BY <2>1, <2>3
  <2>5. g[0] = base BY <2>1
  <2>6. ASSUME NEW i \in 1 .. (n + 1) PROVE g[i] = step[<< g[i - 1], i >>]
    <3>1. CASE i = n + 1
      <4>1. g[i - 1] = f[n] BY <3>1
      <4>2. g[i] = step[<< f[n], n + 1 >>] BY <3>1
      <4> HIDE DEF g
      <4> QED BY <3>1, <4>1, <4>2
    <3>2. CASE i # n + 1
      <4>1. i \in 1 .. n /\ i - 1 \in 0 .. n BY <3>2
      <4>2. g[i - 1] = f[i - 1] /\ g[i] = f[i] BY <4>1
      <4> QED BY <2>1, <4>1, <4>2
    <3> QED BY <3>1, <3>2
  <2>7. Defines(g, n + 1)
    <3> HIDE DEF g
    <3> QED BY <2>4, <2>5, <2>6
  <2> HIDE DEF g, Defines
  <2> QED BY <2>7
<1>3. Nat \subseteq T
  <2> HIDE DEF T
  <2> QED BY <1>1, <1>2, SetInduction
<1> HIDE DEF T
<1>4. N \in T
  BY <1>3
<1> QED BY <1>4 DEF T

--------------------------------------------------------------------------------
(* The function Kept computes with.                                        *)
Filtered(kept, s, K) ==
  kept = [i \in 0 .. Len(s) |->
            IF i = 0 THEN << >>
            ELSE IF s[i] \in K THEN Append(kept[i - 1], s[i]) ELSE kept[i - 1]]

LEMMA KeptIsFiltered ==
  ASSUME NEW S, NEW s \in Seq(S), NEW K
  PROVE  \E kept \in [0 .. Len(s) -> Seq(S)] : Filtered(kept, s, K) /\ Kept(s, K) = kept[Len(s)]
<1> DEFINE V == Seq(S)
           N == Len(s)
           more(v, i) == IF i \in 1 .. N /\ s[i] \in K THEN Append(v, s[i]) ELSE v
           step == [p \in V \X Nat |-> more(p[1], p[2])]
<1>1. << >> \in V /\ N \in Nat
  BY EmptySeq, LenProperties
<1>2. ASSUME NEW v \in V, NEW i \in Nat PROVE more(v, i) \in V
  <2>1. i \in 1 .. N => s[i] \in S BY ElementOfSeq
  <2>2. i \in 1 .. N => Append(v, s[i]) \in V BY <2>1, AppendProperties
  <2> QED BY <2>2
<1>3. step \in [V \X Nat -> V]
  <2> HIDE DEF more, V
  <2> QED BY <1>2
<1>4. PICK f : Iterates(f, V, << >>, step, N)
  <2> DEFINE base == << >>
  <2>1. base \in V BY <1>1
  <2>2. step \in Steps(V) BY <1>3 DEF Steps
  <2> HIDE DEF V, step, N, base
  <2>3. \E f : Iterates(f, V, base, step, N)
    BY <1>1, <2>1, <2>2, PrimitiveRecursion
  <2> QED BY <2>3 DEF base
<1>a. f \in [0 .. N -> V]
  BY <1>4 DEF Iterates
<1>b. f[0] = << >> /\ \A i \in 1 .. N : f[i] = step[<< f[i - 1], i >>]
  BY <1>4 DEF Iterates
<1>5. ASSUME NEW i \in 1 .. N
      PROVE  f[i] = IF s[i] \in K THEN Append(f[i - 1], s[i]) ELSE f[i - 1]
  <2>1. f[i] = step[<< f[i - 1], i >>] BY <1>b
  <2>2. i \in Nat /\ i - 1 \in 0 .. N BY <1>1
  <2>3. f[i - 1] \in V BY <2>2, <1>a
  <2>4. << f[i - 1], i >> \in V \X Nat BY <2>2, <2>3
  <2>5. step[<< f[i - 1], i >>] = more(f[i - 1], i)
    <3> HIDE DEF V, more
    <3> QED BY <2>4
  <2> QED BY <2>1, <2>5
<1>6. Filtered(f, s, K)
  <2> DEFINE h(i) == IF i = 0 THEN << >>
                     ELSE IF s[i] \in K THEN Append(f[i - 1], s[i]) ELSE f[i - 1]
  <2>1. ASSUME NEW i \in 0 .. N PROVE f[i] = h(i)
    <3>1. CASE i = 0 BY <3>1, <1>b
    <3>2. CASE i # 0
      <4>1. i \in 1 .. N BY <3>2, <1>1
      <4> QED BY <4>1, <3>2, <1>5
    <3> QED BY <3>1, <3>2
  <2>2. f = [i \in 0 .. N |-> f[i]] BY <1>a
  <2>3. f = [i \in 0 .. N |-> h(i)]
    <3> HIDE DEF h
    <3> QED BY <2>1, <2>2
  <2> QED BY <2>3 DEF Filtered
<1> DEFINE c == CHOOSE kept : Filtered(kept, s, K)
<1>7. Filtered(c, s, K)
  <2> HIDE DEF c
  <2>1. \E kept : Filtered(kept, s, K) BY <1>6
  <2> QED BY <2>1 DEF c
<1>8. Kept(s, K) = c[Len(s)]
  BY DEF Kept, Filtered
<1>9. c \in [0 .. N -> V]
  <2> DEFINE T == {i \in Nat : i <= N => c[i] \in V}
  <2>0. \A i \in 0 .. N : c[i] = IF i = 0 THEN << >>
                     ELSE IF s[i] \in K THEN Append(c[i - 1], s[i]) ELSE c[i - 1]
    <3> HIDE DEF c
    <3> QED BY <1>7 DEF Filtered
  <2>1. 0 \in T
    <3>1. 0 \in 0 .. N BY <1>1
    <3>2. c[0] = << >> BY <2>0, <3>1
    <3> HIDE DEF c, V
    <3> QED BY <1>1, <3>2
  <2>2. ASSUME NEW i \in 0 .. N, i \in T, i < N PROVE i + 1 \in T
    <3>0. i \in Nat /\ i + 1 \in 1 .. N /\ (i + 1) - 1 = i /\ i + 1 # 0 /\ i + 1 \in 0 .. N BY <1>1, <2>2
    <3>1. c[i + 1] = IF s[i + 1] \in K THEN Append(c[i], s[i + 1]) ELSE c[i]
      <4> HIDE DEF c
      <4> QED BY <2>0, <3>0
    <3>2. c[i] \in V
      <4> HIDE DEF c, V
      <4> QED BY <2>2, <3>0
    <3>3. s[i + 1] \in S BY <3>0, ElementOfSeq
    <3>4. c[i + 1] \in V
      <4> HIDE DEF c
      <4> QED BY <3>1, <3>2, <3>3, AppendProperties
    <3> HIDE DEF c, V
    <3> QED BY <3>0, <3>4
  <2>3. 0 .. N \subseteq T
    <3> HIDE DEF T, N
    <3> QED BY <1>1, <2>1, <2>2, BoundedInduction
  <2>4. c = [i \in 0 .. N |-> c[i]]
    <3> HIDE DEF c
    <3> QED BY <1>7 DEF Filtered
  <2> HIDE DEF c, V
  <2>5. \A i \in 0 .. N : c[i] \in V BY <2>3, <1>1
  <2> QED BY <2>4, <2>5
<1> HIDE DEF c
<1> QED BY <1>7, <1>8, <1>9

(* t has the elements of s up to the n-th that are in K, in their order;   *)
(* f says where.                                                           *)
Picks(f, t, s, K, n) ==
  /\ f \in [1 .. Len(t) -> 1 .. n]
  /\ \A q \in 1 .. Len(t) : t[q] = s[f[q]] /\ s[f[q]] \in K
  /\ \A p, q \in 1 .. Len(t) : p < q => f[p] < f[q]
  /\ \A i \in 1 .. n : s[i] \in K => \E q \in 1 .. Len(t) : f[q] = i

LEMMA PicksNone ==
  ASSUME NEW s, NEW K
  PROVE  \E f : Picks(f, << >>, s, K, 0)
<1> DEFINE f == [q \in 1 .. 0 |-> 1]
<1>1. Len(<< >>) = 0
  BY EmptySeq
<1>2. f \in [1 .. 0 -> 1 .. 0]
  OBVIOUS
<1>3. Picks(f, << >>, s, K, 0)
  <2> HIDE DEF f
  <2> QED BY <1>1, <1>2 DEF Picks
<1> QED BY <1>3

LEMMA PicksNext ==
  ASSUME NEW S, NEW s \in Seq(S), NEW K, NEW t \in Seq(S), NEW n \in Nat, n + 1 <= Len(s),
         NEW f, Picks(f, t, s, K, n)
  PROVE  \E g : Picks(g, IF s[n + 1] \in K THEN Append(t, s[n + 1]) ELSE t, s, K, n + 1)
<1>0. Len(t) \in Nat /\ Len(s) \in Nat /\ n + 1 \in 1 .. (n + 1) /\ 1 .. n \subseteq 1 .. (n + 1)
  BY LenProperties
<1>1. CASE s[n + 1] \notin K
  <2>1. f \in [1 .. Len(t) -> 1 .. (n + 1)]
    BY <1>0 DEF Picks
  <2>2. ASSUME NEW i \in 1 .. (n + 1), s[i] \in K PROVE \E q \in 1 .. Len(t) : f[q] = i
    <3>1. i \in 1 .. n
      BY <1>1, <2>2
    <3> QED BY <2>2, <3>1 DEF Picks
  <2>3. Picks(f, t, s, K, n + 1)
    BY <2>1, <2>2 DEF Picks
  <2> QED BY <1>1, <2>3
<1>2. CASE s[n + 1] \in K
  <2> DEFINE m == Len(t)
             u == Append(t, s[n + 1])
             g == [q \in 1 .. (m + 1) |-> IF q = m + 1 THEN n + 1 ELSE f[q]]
  <2>1. s[n + 1] \in S
    BY <1>0, ElementOfSeq
  <2>2. Len(u) = m + 1 /\ (\A q \in 1 .. m : u[q] = t[q]) /\ u[m + 1] = s[n + 1]
    BY <2>1, AppendProperties
  <2>3. \A q \in 1 .. m : f[q] \in 1 .. n
    BY DEF Picks
  <2>4. g \in [1 .. (m + 1) -> 1 .. (n + 1)]
    BY <2>3, <1>0
  <2>5. g[m + 1] = n + 1 /\ \A q \in 1 .. m : g[q] = f[q]
    BY <1>0
  <2>6. \A q \in 1 .. (m + 1) : q = m + 1 \/ q \in 1 .. m
    BY <1>0
  <2> HIDE DEF u, g, m
  <2>7. ASSUME NEW q \in 1 .. (m + 1) PROVE u[q] = s[g[q]] /\ s[g[q]] \in K
    <3>1. CASE q = m + 1 BY <3>1, <2>2, <2>5, <1>2
    <3>2. CASE q \in 1 .. m BY <3>2, <2>2, <2>5 DEF Picks, m
    <3> QED BY <3>1, <3>2, <2>6
  <2>8. ASSUME NEW p \in 1 .. (m + 1), NEW q \in 1 .. (m + 1), p < q PROVE g[p] < g[q]
    <3>0. m \in Nat BY <1>0 DEF m
    <3>1. p \in 1 .. m BY <2>8, <3>0
    <3>2. g[p] = f[p] /\ f[p] \in 1 .. n BY <3>1, <2>5, <2>3
    <3>3. CASE q = m + 1 BY <3>3, <3>2, <2>5
    <3>4. CASE q \in 1 .. m
      <4>1. f[p] < f[q] BY <3>4, <3>1, <2>8 DEF Picks, m
      <4> QED BY <4>1, <3>2, <3>4, <2>5
    <3> QED BY <3>3, <3>4, <2>6
  <2>9. ASSUME NEW i \in 1 .. (n + 1), s[i] \in K PROVE \E q \in 1 .. (m + 1) : g[q] = i
    <3>0. m \in Nat BY <1>0 DEF m
    <3>1. CASE i = n + 1
      <4>1. m + 1 \in 1 .. (m + 1) BY <3>0
      <4> QED BY <3>1, <4>1, <2>5
    <3>2. CASE i # n + 1
      <4>1. i \in 1 .. n BY <3>2
      <4>2. PICK q \in 1 .. m : f[q] = i BY <4>1, <2>9 DEF Picks, m
      <4>3. q \in 1 .. (m + 1) BY <3>0
      <4> QED BY <4>2, <4>3, <2>5
    <3> QED BY <3>1, <3>2
  <2>10. Picks(g, u, s, K, n + 1)
    BY <2>2, <2>4, <2>7, <2>8, <2>9 DEF Picks
  <2> QED BY <2>10, <1>2 DEF u
<1> QED BY <1>1, <1>2

(* A filter picks the elements of the set, in their order.                 *)
LEMMA KeptPicks ==
  ASSUME NEW S, NEW s \in Seq(S), NEW K
  PROVE  Kept(s, K) \in Seq(S) /\ \E f : Picks(f, Kept(s, K), s, K, Len(s))
<1>0. Len(s) \in Nat
  BY LenProperties
<1>1. PICK kept \in [0 .. Len(s) -> Seq(S)] : Filtered(kept, s, K) /\ Kept(s, K) = kept[Len(s)]
  BY KeptIsFiltered
<1> DEFINE T == {n \in 0 .. Len(s) : \E f : Picks(f, kept[n], s, K, n)}
<1>a. \A n \in 0 .. Len(s) :
        kept[n] = IF n = 0 THEN << >>
                  ELSE IF s[n] \in K THEN Append(kept[n - 1], s[n]) ELSE kept[n - 1]
  BY <1>1 DEF Filtered
<1>2. 0 \in T
  <2>1. 0 \in 0 .. Len(s) BY <1>0
  <2>2. kept[0] = << >> BY <2>1, <1>a
  <2> QED BY <2>1, <2>2, PicksNone
<1>3. ASSUME NEW n \in 0 .. Len(s), n \in T, n < Len(s) PROVE n + 1 \in T
  <2>1. n \in Nat /\ n + 1 \in 0 .. Len(s) /\ n + 1 # 0 /\ (n + 1) - 1 = n /\ n + 1 <= Len(s)
    BY <1>0, <1>3
  <2>2. kept[n + 1] = IF s[n + 1] \in K THEN Append(kept[n], s[n + 1]) ELSE kept[n]
    BY <2>1, <1>a
  <2>3. PICK f : Picks(f, kept[n], s, K, n)
    BY <1>3
  <2>4. kept[n] \in Seq(S)
    OBVIOUS
  <2>5. \E g : Picks(g, IF s[n + 1] \in K THEN Append(kept[n], s[n + 1]) ELSE kept[n], s, K, n + 1)
    BY <2>1, <2>3, <2>4, PicksNext
  <2>6. \E g : Picks(g, kept[n + 1], s, K, n + 1)
    BY <2>2, <2>5
  <2> QED BY <2>1, <2>6
<1>4. 0 .. Len(s) \subseteq T
  <2> HIDE DEF T
  <2> QED BY <1>0, <1>2, <1>3, BoundedInduction
<1>5. Len(s) \in T
  BY <1>0, <1>4
<1>6. kept[Len(s)] \in Seq(S)
  BY <1>0
<1> QED BY <1>1, <1>5, <1>6

(* What the proofs use: the type, the elements and the order of a filter.  *)
LEMMA KeptType ==
  ASSUME NEW S, NEW s \in Seq(S), NEW K
  PROVE  Kept(s, K) \in Seq(S)
BY KeptPicks

LEMMA KeptElements ==
  ASSUME NEW S, NEW s \in Seq(S), NEW K, NEW x
  PROVE  InSeq(x, Kept(s, K)) <=> InSeq(x, s) /\ x \in K
<1> DEFINE t == Kept(s, K)
<1>1. t \in Seq(S)
  BY KeptType
<1>2. PICK f : Picks(f, t, s, K, Len(s))
  BY KeptPicks
<1>3. DOMAIN s = 1 .. Len(s) /\ DOMAIN t = 1 .. Len(t)
  <2> HIDE DEF t
  <2> QED BY <1>1, LenProperties
<1> HIDE DEF t
<1>4. ASSUME InSeq(x, t) PROVE InSeq(x, s) /\ x \in K
  <2>1. PICK q \in 1 .. Len(t) : t[q] = x BY <1>3, <1>4 DEF InSeq
  <2>2. f[q] \in 1 .. Len(s) /\ x = s[f[q]] /\ x \in K BY <1>2, <2>1 DEF Picks
  <2> QED BY <2>2, <1>3 DEF InSeq
<1>5. ASSUME InSeq(x, s), x \in K PROVE InSeq(x, t)
  <2>1. PICK i \in 1 .. Len(s) : s[i] = x BY <1>3, <1>5 DEF InSeq
  <2>2. PICK q \in 1 .. Len(t) : f[q] = i BY <1>2, <1>5, <2>1 DEF Picks
  <2>3. t[q] = x BY <1>2, <2>1, <2>2 DEF Picks
  <2> QED BY <2>3, <1>3 DEF InSeq
<1> QED BY <1>4, <1>5 DEF t

(* The elements of a filtered sequence are distinct if those of the        *)
(* sequence are.                                                           *)
Distinct(q) == \A i, j \in DOMAIN q : q[i] = q[j] => i = j

LEMMA KeptDistinct ==
  ASSUME NEW S, NEW s \in Seq(S), NEW K, Distinct(s)
  PROVE  Distinct(Kept(s, K))
<1> DEFINE t == Kept(s, K)
<1>1. t \in Seq(S)
  BY KeptType
<1>2. PICK f : Picks(f, t, s, K, Len(s))
  BY KeptPicks
<1>3. DOMAIN s = 1 .. Len(s) /\ DOMAIN t = 1 .. Len(t) /\ Len(t) \in Nat
  <2> HIDE DEF t
  <2> QED BY <1>1, LenProperties
<1> HIDE DEF t
<1>4. ASSUME NEW i \in 1 .. Len(t), NEW j \in 1 .. Len(t), i < j PROVE t[i] # t[j]
  <2>1. f[i] \in 1 .. Len(s) /\ f[j] \in 1 .. Len(s) /\ f[i] < f[j] /\ t[i] = s[f[i]] /\ t[j] = s[f[j]]
    BY <1>2, <1>4 DEF Picks
  <2> QED BY <2>1, <1>3 DEF Distinct
<1>5. \A i, j \in 1 .. Len(t) : i = j \/ i < j \/ j < i
  BY <1>3
<1>6. Distinct(t)
  BY <1>3, <1>4, <1>5 DEF Distinct
<1> QED BY <1>6 DEF t

--------------------------------------------------------------------------------
(* A frame by itself: its queue has every task once and none that has      *)
(* ended, and exactly the tasks that have ended have a result until the    *)
(* scope ends and the rest is skipped.                                     *)
Ended(f, n) == f.nodeResults[n] # None
Clean(f) ==
  /\ f \in Frame
  /\ \A i, j \in DOMAIN f.toExecute : f.toExecute[i] = f.toExecute[j] => i = j
  /\ \A n \in Nodes : InSeq(n, f.toExecute) \/ f.current = n => n \notin f.executed
  /\ f.current # None => ~InSeq(f.current, f.toExecute)
  /\ f.at = "waiting" <=> f.current # None
  /\ \A n \in Nodes : /\ n \in f.executed => Ended(f, n)
                      /\ f.at # "done" /\ n \notin f.executed => ~Ended(f, n)

(* No task is queued without a reason, or skipped while there may be one.  *)
Sound(f) ==
  \A n \in Nodes :
    /\ Ran(f, n) \/ InSeq(n, f.toExecute) \/ f.current = n => Reached(f, n)
    /\ n \in f.executed /\ ~Ran(f, n) =>
         ~Reached(f, n) /\ \A i \in Into(n) : Ended(f, connections[i].from)

(* No task that is due is forgotten.                                       *)
Due(f, n) == Ran(f, n) \/ InSeq(n, f.toExecute) \/ f.current = n
Complete(f, s) ==
  \A n \in Members(s) : Reached(f, n) =>
    /\ f.at \in {"loop", "waiting"} => Due(f, n)
    /\ f.at = "done" /\ ~stopped => Ran(f, n)

(* The frame of a container and its task in the frame around it.           *)
Nested(k) ==
  /\ frame[k].at = "idle" => ~HasErrors(frame[k])
  /\ frame[k].at \in {"loop", "waiting"} => frame[Root].current = k
  /\ frame[k].at = "done" =>
       /\ k \in frame[Root].executed
       /\ HasErrors(frame[k]) => frame[Root].nodeResults[k] = "error"

RunStatus ==
  /\ status = "new" => \A s \in Scopes : frame[s].at = "idle"
  /\ status \in {"completed", "failed"} => frame[Root].at = "done"
  /\ status = "completed" => ~HasErrors(frame[Root])

Accounted(f, s) == f.at = "done" => \A n \in Members(s) : Ended(f, n)

FrameInv(f, s) == Clean(f) /\ Sound(f) /\ Complete(f, s) /\ Accounted(f, s)

(* The inductive invariant.                                                *)
IInv ==
  /\ TypeOK
  /\ \A s \in Scopes : FrameInv(frame[s], s)
  /\ \A k \in Containers : Nested(k)
  /\ RunStatus
--------------------------------------------------------------------------------
(* Sequences as queues. *)

LEMMA QueueAppend ==
  ASSUME NEW S, NEW q \in Seq(S), NEW x \in S
  PROVE  /\ Append(q, x) \in Seq(S)
         /\ \A y : InSeq(y, Append(q, x)) <=> InSeq(y, q) \/ y = x
<1> DEFINE r == Append(q, x)
<1>1. /\ r \in Seq(S) /\ DOMAIN r = 1 .. Len(q) + 1 /\ DOMAIN q = 1 .. Len(q) /\ Len(q) \in Nat
      /\ r[Len(q) + 1] = x /\ \A i \in 1 .. Len(q) : r[i] = q[i]
  OBVIOUS
<1> HIDE DEF r
<1>2. ASSUME NEW y PROVE InSeq(y, r) <=> InSeq(y, q) \/ y = x
  <2>1. ASSUME InSeq(y, r) PROVE InSeq(y, q) \/ y = x
    <3>1. PICK i \in DOMAIN r : r[i] = y
      BY <2>1 DEF InSeq
    <3>2. i \in 1 .. Len(q) \/ i = Len(q) + 1
      BY <1>1, <3>1
    <3> QED
      BY <1>1, <3>1, <3>2 DEF InSeq
  <2>2. ASSUME InSeq(y, q) \/ y = x PROVE InSeq(y, r)
    <3>1. 1 .. Len(q) \subseteq DOMAIN r /\ Len(q) + 1 \in DOMAIN r
      BY <1>1
    <3> QED
      BY <1>1, <2>2, <3>1 DEF InSeq
  <2> QED
    BY <2>1, <2>2
<1> QED
  BY <1>1, <1>2 DEF r

LEMMA DistinctAppend ==
  ASSUME NEW S, NEW q \in Seq(S), NEW x \in S, Distinct(q), ~InSeq(x, q)
  PROVE  Distinct(Append(q, x))
<1> DEFINE r == Append(q, x)
<1>1. /\ DOMAIN r = 1 .. Len(q) + 1 /\ DOMAIN q = 1 .. Len(q) /\ Len(q) \in Nat
      /\ r[Len(q) + 1] = x /\ \A i \in 1 .. Len(q) : r[i] = q[i]
  OBVIOUS
<1> HIDE DEF r
<1>2. \A i \in DOMAIN r : i \in DOMAIN q \/ i = Len(q) + 1
  BY <1>1
<1>3. \A i \in DOMAIN q : r[i] # x
  BY <1>1 DEF InSeq
<1>4. Distinct(r)
  BY <1>1, <1>2, <1>3 DEF Distinct
<1> QED
  BY <1>4 DEF r

LEMMA QueueTail ==
  ASSUME NEW S, NEW q \in Seq(S), q # << >>, Distinct(q)
  PROVE  /\ Tail(q) \in Seq(S) /\ Distinct(Tail(q)) /\ Head(q) \in S /\ InSeq(Head(q), q)
         /\ ~InSeq(Head(q), Tail(q))
         /\ \A y : InSeq(y, q) <=> InSeq(y, Tail(q)) \/ y = Head(q)
<1> DEFINE r == Tail(q)
<1>1. /\ r \in Seq(S) /\ DOMAIN q = 1 .. Len(q) /\ Len(q) \in Nat /\ Len(q) >= 1
      /\ DOMAIN r = 1 .. Len(q) - 1 /\ \A i \in 1 .. Len(q) - 1 : r[i] = q[i + 1]
      /\ Head(q) = q[1] /\ Head(q) \in S
  OBVIOUS
<1> HIDE DEF r
<1>2. Distinct(r)
  <2> SUFFICES ASSUME NEW i \in DOMAIN r, NEW j \in DOMAIN r, r[i] = r[j] PROVE i = j
    BY DEF Distinct
  <2>1. i + 1 \in DOMAIN q /\ j + 1 \in DOMAIN q /\ q[i + 1] = q[j + 1]
    BY <1>1
  <2> QED
    BY <1>1, <2>1 DEF Distinct
<1>3. ~InSeq(q[1], r)
  <2> SUFFICES ASSUME NEW i \in DOMAIN r, r[i] = q[1] PROVE FALSE
    BY DEF InSeq
  <2>1. i + 1 \in DOMAIN q /\ 1 \in DOMAIN q /\ q[i + 1] = q[1] /\ i + 1 # 1
    BY <1>1
  <2> QED
    BY <2>1 DEF Distinct
<1>4. ASSUME NEW y PROVE InSeq(y, q) <=> InSeq(y, r) \/ y = q[1]
  <2>1. ASSUME NEW i \in DOMAIN q, q[i] = y PROVE InSeq(y, r) \/ y = q[1]
    <3>1. i = 1 \/ (i - 1 \in DOMAIN r /\ r[i - 1] = q[i])
      BY <1>1
    <3> QED
      BY <2>1, <3>1 DEF InSeq
  <2>2. ASSUME NEW i \in DOMAIN r, r[i] = y PROVE InSeq(y, q)
    <3>1. i + 1 \in DOMAIN q /\ q[i + 1] = y
      BY <1>1, <2>2
    <3> QED
      BY <3>1 DEF InSeq
  <2>3. InSeq(q[1], q)
    <3>1. 1 \in DOMAIN q
      BY <1>1
    <3> QED
      BY <3>1 DEF InSeq
  <2> QED
    BY <2>1, <2>2, <2>3 DEF InSeq
<1>5. InSeq(q[1], q)
  BY <1>4
<1> QED
  BY <1>1, <1>2, <1>3, <1>4, <1>5 DEF r
--------------------------------------------------------------------------------
(* The connections out of a task, and one of them considered. *)

LEMMA OutOfElements ==
  ASSUME connections \in Seq(Connection), NEW n
  PROVE  /\ OutOf(n) \in Seq(DOMAIN connections)
         /\ \A i : InSeq(i, OutOf(n)) <=> i \in DOMAIN connections /\ connections[i].from = n
<1> DEFINE D == DOMAIN connections
           all == [i \in D |-> i]
           K == {i \in D : connections[i].from = n}
<1>1. all \in Seq(D)
  <2>1. Len(connections) \in Nat /\ D = 1 .. Len(connections)
    OBVIOUS
  <2> QED
    BY <2>1
<1>2. \A i : InSeq(i, all) <=> i \in D
  BY DEF InSeq
<1>3. OutOf(n) = Kept(all, K)
  BY DEF OutOf
<1>4. \A i : i \in K <=> i \in D /\ connections[i].from = n
  OBVIOUS
<1> HIDE DEF K, all, D
<1>5. Kept(all, K) \in Seq(D) /\ \A i : InSeq(i, Kept(all, K)) <=> InSeq(i, all) /\ i \in K
  BY <1>1, KeptType, KeptElements
<1>6. OutOf(n) \in Seq(D) /\ \A i : InSeq(i, OutOf(n)) <=> i \in D /\ connections[i].from = n
  BY <1>2, <1>3, <1>4, <1>5
<1> QED
  BY <1>6 DEF D

LEMMA ConnectionEnds ==
  ASSUME connections \in Seq(Connection), NEW i \in DOMAIN connections
  PROVE  connections[i].from \in Nodes /\ connections[i].to \in Nodes
<1>1. connections[i] \in Connection
  OBVIOUS
<1> QED
  BY <1>1 DEF Connection

(* Results are only added, and what is added while the connections of a    *)
(* task are considered is that a task is skipped.                          *)
Later(f, g) ==
  \A m \in Nodes : \/ g.nodeResults[m] = f.nodeResults[m]
                   \/ f.nodeResults[m] = None /\ g.nodeResults[m] = "skipped"

LEMMA LaterSame ==
  ASSUME connections \in Seq(Connection), NEW f, NEW g, Later(f, g), NEW n \in Nodes
  PROVE  /\ Reached(g, n) <=> Reached(f, n)
         /\ Ran(g, n) <=> Ran(f, n)
         /\ Ended(f, n) => Ended(g, n)
         /\ \A i \in Into(n) : Ended(f, connections[i].from) => Ended(g, connections[i].from)
<1>1. \A i \in Into(n) : connections[i].from \in Nodes
  BY ConnectionEnds DEF Into
<1>2. \A m \in Nodes : \A c : Follows(g.nodeResults[m], c) <=> Follows(f.nodeResults[m], c)
  BY DEF Later, Follows, None
<1>3. \A m \in Nodes : Ended(f, m) => Ended(g, m)
  BY DEF Later, Ended, None
<1>4. Ran(g, n) <=> Ran(f, n)
  BY DEF Later, Ran, None
<1> QED
  BY <1>1, <1>2, <1>3, <1>4 DEF Reached

LEMMA LaterTransitive ==
  ASSUME NEW f, NEW g, NEW h, Later(f, g), Later(g, h)
  PROVE  Later(f, h)
  BY DEF Later

Placed(f, n) == n \in f.executed \/ InSeq(n, f.toExecute)
Grows(f, g) ==
  \A m : /\ m \in f.executed => m \in g.executed
         /\ InSeq(m, f.toExecute) => InSeq(m, g.toExecute)

(* A frame at the head of its loop that is as it should be.                *)
AtHead(f) == Clean(f) /\ Sound(f) /\ f.at = "loop"

LEMMA ConsiderType ==
  ASSUME connections \in Seq(Connection), NEW f \in Frame, NEW i \in DOMAIN connections
  PROVE  Consider(f, i) \in Frame
<1> DEFINE to == connections[i].to
<1>1. to \in Nodes
  BY ConnectionEnds
<1>2. Append(f.toExecute, to) \in Seq(Nodes)
  BY <1>1 DEF Frame
<1>3. [f EXCEPT !.toExecute = Append(@, to)] \in Frame
  BY <1>2 DEF Frame
<1>4. [f EXCEPT !.nodeResults[to] = "skipped", !.executed = @ \union {to}] \in Frame
  BY <1>1 DEF Frame, TaskResults
<1> QED
  BY <1>3, <1>4 DEF Consider

LEMMA ConsiderStep ==
  ASSUME connections \in Seq(Connection), NEW f, AtHead(f), NEW i \in DOMAIN connections,
         Ran(f, connections[i].from), NEW g, g = Consider(f, i)
  PROVE  /\ AtHead(g) /\ Later(f, g) /\ Grows(f, g)
         /\ Follows(f.nodeResults[connections[i].from], connections[i]) => Placed(g, connections[i].to)
<1> DEFINE to == connections[i].to
           from == connections[i].from
<1>0. /\ to \in Nodes /\ from \in Nodes /\ f \in Frame /\ f.current = None /\ f.toExecute \in Seq(Nodes)
      /\ f.nodeResults \in [Nodes -> TaskResults \union {None}] /\ i \in Into(to)
      /\ f.executed \in SUBSET Nodes
  BY ConnectionEnds DEF AtHead, Clean, Frame, Into
<1>1. CASE to \in f.executed \/ InSeq(to, f.toExecute)
  BY <1>1 DEF Consider, Later, Grows, Placed
<1>2. CASE ~(to \in f.executed \/ InSeq(to, f.toExecute)) /\ Follows(f.nodeResults[from], connections[i])
  <2>1. /\ g.toExecute = Append(f.toExecute, to) /\ g.executed = f.executed /\ g.at = f.at
        /\ g.current = f.current /\ g.nodeResults = f.nodeResults /\ g \in Frame
    BY <1>0, <1>2, ConsiderType DEF Consider, Frame
  <2>2. \A m : InSeq(m, g.toExecute) <=> InSeq(m, f.toExecute) \/ m = to
    BY <1>0, <2>1, QueueAppend
  <2>3. Distinct(g.toExecute)
    <3>1. Distinct(f.toExecute)
      BY DEF AtHead, Clean, Distinct
    <3> QED
      BY <1>0, <1>2, <2>1, <3>1, DistinctAppend
  <2>4. Clean(g)
    BY <1>0, <1>2, <2>1, <2>2, <2>3 DEF AtHead, Clean, Distinct, Ended
  <2>5. Reached(f, to)
    BY <1>0, <1>2 DEF Reached
  <2>6. Sound(g)
    BY <1>0, <2>1, <2>2, <2>5 DEF AtHead, Sound, Ran, Reached, Ended
  <2> QED
    BY <2>1, <2>2, <2>4, <2>6 DEF AtHead, Later, Grows, Placed
<1>3. CASE ~(to \in f.executed \/ InSeq(to, f.toExecute)) /\ ~Follows(f.nodeResults[from], connections[i])
           /\ ~OtherPath(f, i)
  <2>1. /\ g.toExecute = f.toExecute /\ g.executed = f.executed \union {to} /\ g.at = f.at
        /\ g.current = f.current /\ g.nodeResults = [f.nodeResults EXCEPT ![to] = "skipped"] /\ g \in Frame
    BY <1>0, <1>3, ConsiderType DEF Consider, Frame
  <2>2. f.nodeResults[to] = None
    BY <1>0, <1>3 DEF AtHead, Clean, Ended
  <2>3. Later(f, g)
    BY <1>0, <2>1, <2>2 DEF Later
  <2>4. Clean(g)
    <3>1. \A n \in Nodes : g.current # n
      BY <1>0, <2>1, NodesAssumption
    <3>2. \A n \in Nodes : g.nodeResults[n] = IF n = to THEN "skipped" ELSE f.nodeResults[n]
      BY <1>0, <2>1
    <3> QED
      BY <1>0, <1>3, <2>1, <3>1, <3>2 DEF AtHead, Clean, Ended, None
  <2>5. \A j \in Into(to) : Ended(f, connections[j].from) /\ ~Follows(f.nodeResults[connections[j].from], connections[j])
    BY <1>3 DEF OtherPath, Ran, Ended, None
  <2>6. ~Reached(f, to)
    BY <1>0, <2>5 DEF Reached
  <2>7. Sound(g)
    <3> SUFFICES ASSUME NEW n \in Nodes
                 PROVE  /\ Ran(g, n) \/ InSeq(n, g.toExecute) \/ g.current = n => Reached(g, n)
                        /\ n \in g.executed /\ ~Ran(g, n) =>
                             ~Reached(g, n) /\ \A j \in Into(n) : Ended(g, connections[j].from)
      BY DEF Sound
    <3>1. /\ Ran(f, n) \/ InSeq(n, f.toExecute) \/ f.current = n => Reached(f, n)
          /\ n \in f.executed /\ ~Ran(f, n) =>
               ~Reached(f, n) /\ \A j \in Into(n) : Ended(f, connections[j].from)
      BY DEF AtHead, Sound
    <3>2. /\ Reached(g, n) <=> Reached(f, n)
          /\ Ran(g, n) <=> Ran(f, n)
          /\ \A j \in Into(n) : Ended(f, connections[j].from) => Ended(g, connections[j].from)
      BY <2>3, LaterSame
    <3>3. n \in g.executed => n \in f.executed \/ n = to
      BY <2>1
    <3> QED
      BY <2>1, <2>5, <2>6, <3>1, <3>2, <3>3
  <2> QED
    BY <1>0, <1>3, <2>1, <2>3, <2>4, <2>7 DEF AtHead, Grows
<1>4. CASE ~(to \in f.executed \/ InSeq(to, f.toExecute)) /\ ~Follows(f.nodeResults[from], connections[i])
           /\ OtherPath(f, i)
  BY <1>4 DEF Consider, Later, Grows
<1> QED
  BY <1>1, <1>2, <1>3, <1>4
--------------------------------------------------------------------------------
(* The result of a task is recorded, then its connections are considered. *)

Recorded(f, n, result) ==
  [f EXCEPT !.at = "loop", !.current = None, !.nodeResults[n] = result, !.executed = @ \union {n}]

(* The task n of frame f is about to get its result.                       *)
Ending(f, n) ==
  /\ Clean(f) /\ Sound(f) /\ f.at \in {"loop", "waiting"} /\ f.current \in {n, None}
  /\ n \in Nodes /\ n \notin f.executed /\ ~InSeq(n, f.toExecute) /\ Reached(f, n)

LEMMA RecordedStep ==
  ASSUME connections \in Seq(Connection), NEW f, NEW n, Ending(f, n),
         NEW result \in {"success", "error"}, NEW g, g = Recorded(f, n, result)
  PROVE  /\ AtHead(g) /\ g.nodeResults[n] = result /\ g.toExecute = f.toExecute
         /\ g.executed = f.executed \union {n}
         /\ \A m \in Nodes \ {n} : g.nodeResults[m] = f.nodeResults[m]
<1>0. f \in Frame /\ n \in Nodes /\ f.nodeResults[n] = None /\ n \notin f.executed
  BY DEF Ending, Clean, Ended
<1>1. /\ g \in Frame /\ g.at = "loop" /\ g.current = None /\ g.executed = f.executed \union {n}
      /\ g.toExecute = f.toExecute /\ g.nodeResults = [f.nodeResults EXCEPT ![n] = result]
  BY <1>0 DEF Recorded, Frame, TaskResults
<1>2. \A m \in Nodes : g.nodeResults[m] = IF m = n THEN result ELSE f.nodeResults[m]
  BY <1>0, <1>1 DEF Frame
<1>3. \A m \in Nodes : g.current # m
  BY <1>1, NodesAssumption
<1>4. Clean(g)
  BY <1>0, <1>1, <1>2, <1>3 DEF Ending, Clean, Ended, None
<1>5. Sound(g)
  <2> SUFFICES ASSUME NEW m \in Nodes
               PROVE  /\ Ran(g, m) \/ InSeq(m, g.toExecute) \/ g.current = m => Reached(g, m)
                      /\ m \in g.executed /\ ~Ran(g, m) =>
                           ~Reached(g, m) /\ \A j \in Into(m) : Ended(g, connections[j].from)
    BY DEF Sound
  <2>0. \A j \in Into(m) : connections[j].from \in Nodes
    BY ConnectionEnds DEF Into
  <2>1. Reached(f, m) => Reached(g, m)
    BY <1>0, <1>2, <2>0 DEF Reached, Follows, None
  <2>2. Ran(g, m) \/ InSeq(m, g.toExecute) \/ g.current = m => Reached(g, m)
    BY <1>1, <1>2, <1>3, <2>1 DEF Ending, Sound, Ran
  <2>3. ASSUME m \in g.executed, ~Ran(g, m)
        PROVE  ~Reached(g, m) /\ \A j \in Into(m) : Ended(g, connections[j].from)
    <3>1. m # n /\ m \in f.executed /\ ~Ran(f, m)
      BY <1>1, <1>2, <2>3 DEF Ran
    <3>2. ~Reached(f, m) /\ \A j \in Into(m) : Ended(f, connections[j].from)
      BY <3>1 DEF Ending, Sound
    <3>3. \A j \in Into(m) : g.nodeResults[connections[j].from] = f.nodeResults[connections[j].from]
      BY <1>0, <1>2, <2>0, <3>2 DEF Ended
    <3> QED
      BY <3>2, <3>3 DEF Reached, Ended
  <2> QED
    BY <2>2, <2>3
<1> QED
  BY <1>0, <1>1, <1>2, <1>4, <1>5 DEF AtHead

(* The function AfterNode computes with.                                   *)
Considered(c, base, out) ==
  c = [k \in 0 .. Len(out) |-> IF k = 0 THEN base ELSE Consider(c[k - 1], out[k])]

LEMMA AfterNodeIsConsidered ==
  ASSUME connections \in Seq(Connection), NEW f, NEW n, NEW result,
         Recorded(f, n, result) \in Frame
  PROVE  \E c : /\ Considered(c, Recorded(f, n, result), OutOf(n))
                /\ AfterNode(f, n, result) = c[Len(OutOf(n))]
<1> DEFINE out == OutOf(n)
           base == Recorded(f, n, result)
           V == Frame
           N == Len(out)
           more(v, k) == IF k \in 1 .. N THEN Consider(v, out[k]) ELSE v
           step == [p \in V \X Nat |-> more(p[1], p[2])]
           c == CHOOSE d : Considered(d, base, out)
<1>0. out \in Seq(DOMAIN connections) /\ N \in Nat /\ base \in V
      /\ \A k \in 1 .. N : out[k] \in DOMAIN connections
  <2>1. out \in Seq(DOMAIN connections)
    BY OutOfElements
  <2> HIDE DEF out
  <2> QED
    BY <2>1
<1>1. AfterNode(f, n, result) = c[N]
  BY DEF AfterNode, Considered, Recorded
<1> HIDE DEF c, base, out
<1>2. ASSUME NEW v \in V, NEW k \in Nat PROVE more(v, k) \in V
  BY <1>0, ConsiderType
<1>3. step \in Steps(V)
  <2> HIDE DEF more, V
  <2> QED BY <1>2 DEF Steps
<1>4. PICK d : Iterates(d, V, base, step, N)
  <2> HIDE DEF V, step, N
  <2> QED BY <1>0, <1>3, PrimitiveRecursion
<1>5. d \in [0 .. N -> V] /\ d[0] = base /\ \A i \in 1 .. N : d[i] = step[<< d[i - 1], i >>]
  BY <1>4 DEF Iterates
<1>6. ASSUME NEW i \in 1 .. N PROVE d[i] = Consider(d[i - 1], out[i])
  <2>1. i \in Nat /\ i - 1 \in 0 .. N /\ d[i - 1] \in V BY <1>0, <1>5
  <2>2. << d[i - 1], i >> \in V \X Nat BY <2>1
  <2>3. step[<< d[i - 1], i >>] = more(d[i - 1], i)
    <3> HIDE DEF V, more
    <3> QED BY <2>2
  <2> QED BY <1>5, <2>3
<1>7. Considered(d, base, out)
  <2> DEFINE h(i) == IF i = 0 THEN base ELSE Consider(d[i - 1], out[i])
  <2>1. \A i \in 0 .. N : d[i] = h(i)
    <3>1. \A i \in 0 .. N : i = 0 \/ i \in 1 .. N BY <1>0
    <3> QED BY <1>5, <1>6, <3>1
  <2>2. d = [i \in 0 .. N |-> d[i]] BY <1>5
  <2>3. d = [i \in 0 .. N |-> h(i)]
    <3> HIDE DEF h
    <3> QED BY <2>1, <2>2
  <2> QED BY <2>3 DEF Considered
<1>8. Considered(c, base, out)
  BY <1>7 DEF c
<1> QED
  BY <1>1, <1>8 DEF base, out

(* After the first k connections: the frame is as it should be, and the    *)
(* targets of those of them that are followed are placed.                  *)
After(h, base, out, k) ==
  /\ AtHead(h) /\ Later(base, h) /\ Grows(base, h)
  /\ \A q \in 1 .. k :
       Follows(base.nodeResults[connections[out[q]].from], connections[out[q]]) =>
         Placed(h, connections[out[q]].to)

LEMMA ConsideredStep ==
  ASSUME connections \in Seq(Connection), NEW base, AtHead(base), NEW out \in Seq(DOMAIN connections),
         \A q \in 1 .. Len(out) : Ran(base, connections[out[q]].from),
         NEW c, Considered(c, base, out)
  PROVE  After(c[Len(out)], base, out, Len(out))
<1> DEFINE N == Len(out)
           T == {k \in 0 .. N : After(c[k], base, out, k)}
<1>0. /\ N \in Nat /\ \A k \in 1 .. N : out[k] \in DOMAIN connections
      /\ \A k \in 0 .. N : c[k] = IF k = 0 THEN base ELSE Consider(c[k - 1], out[k])
  BY DEF Considered
<1>1. 0 \in T
  <2>1. c[0] = base
    BY <1>0
  <2>2. After(base, base, out, 0)
    BY DEF After, Later, Grows
  <2> QED
    BY <1>0, <2>1, <2>2
<1>2. ASSUME NEW k \in 0 .. N, k \in T, k < N
      PROVE  k + 1 \in T
  <2> DEFINE i == out[k + 1]
             g == c[k + 1]
             h == c[k]
  <2>0. /\ k + 1 \in 1 .. N /\ k + 1 \in 0 .. N /\ i \in DOMAIN connections /\ After(h, base, out, k)
        /\ g = Consider(h, i) /\ Ran(base, connections[i].from)
        /\ \A q \in 1 .. k + 1 : q \in 1 .. k \/ q = k + 1
    <3>1. k \in Nat /\ k + 1 \in 1 .. N /\ k + 1 \in 0 .. N /\ k + 1 # 0 /\ (k + 1) - 1 = k
      BY <1>0, <1>2
    <3>2. After(h, base, out, k)
      BY <1>2
    <3>3. g = Consider(h, i) /\ i \in DOMAIN connections
      BY <1>0, <3>1
    <3>4. Ran(base, connections[i].from)
      BY <3>1
    <3>5. \A q \in 1 .. k + 1 : q \in 1 .. k \/ q = k + 1
      BY <3>1
    <3> QED
      BY <3>1, <3>2, <3>3, <3>4, <3>5
  <2> HIDE DEF i, g, h
  <2>1. connections[i].from \in Nodes
    BY <2>0, ConnectionEnds
  <2>2. AtHead(h) /\ Later(base, h) /\ Grows(base, h)
    BY <2>0 DEF After
  <2>3. Ran(h, connections[i].from)
    BY <2>0, <2>1, <2>2, LaterSame
  <2>4. /\ AtHead(g) /\ Later(h, g) /\ Grows(h, g)
        /\ Follows(h.nodeResults[connections[i].from], connections[i]) => Placed(g, connections[i].to)
    BY <2>0, <2>2, <2>3, ConsiderStep
  <2>5. Later(base, g) /\ Grows(base, g)
    BY <2>2, <2>4 DEF Later, Grows
  <2>6. \A c1, m : Follows(base.nodeResults[connections[i].from], c1) => Follows(h.nodeResults[connections[i].from], c1)
    BY <2>1, <2>2 DEF Later, Follows, None
  <2>7. \A m : Placed(h, m) => Placed(g, m)
    BY <2>4 DEF Grows, Placed
  <2>8. ASSUME NEW q \in 1 .. k + 1,
               Follows(base.nodeResults[connections[out[q]].from], connections[out[q]])
        PROVE  Placed(g, connections[out[q]].to)
    <3>1. CASE q \in 1 .. k
      BY <2>0, <2>7, <2>8, <3>1 DEF After
    <3>2. CASE q = k + 1
      BY <2>4, <2>6, <2>8, <3>2 DEF i
    <3> QED
      BY <2>0, <3>1, <3>2
  <2>9. After(g, base, out, k + 1)
    BY <2>4, <2>5, <2>8 DEF After
  <2> QED
    BY <2>0, <2>9 DEF g
<1>3. 0 .. N \subseteq T
  <2> HIDE DEF T, N
  <2> QED
    BY <1>0, <1>1, <1>2, BoundedInduction
<1> QED
  BY <1>0, <1>3

(* All but the task that is ending is due already.                         *)
DueBut(f, n, s) == \A m \in Members(s) \ {n} : Reached(f, m) => Ran(f, m) \/ InSeq(m, f.toExecute)

LEMMA AfterNodeStep ==
  ASSUME connections \in Seq(Connection), NEW f, NEW n, Ending(f, n),
         NEW result \in {"success", "error"}, NEW g, g = AfterNode(f, n, result)
  PROVE  /\ AtHead(g) /\ g.nodeResults[n] = result /\ n \in g.executed
         /\ \A m \in f.executed : m \in g.executed /\ g.nodeResults[m] = f.nodeResults[m]
         /\ \A s : DueBut(f, n, s) => Complete(g, s)
<1> DEFINE base == Recorded(f, n, result)
           out == OutOf(n)
<1>0. n \in Nodes /\ n \notin f.executed /\ f.executed \subseteq Nodes
      /\ \A m \in f.executed : Ended(f, m)
  BY DEF Ending, Clean, Frame
<1>1. /\ AtHead(base) /\ base.nodeResults[n] = result /\ base.toExecute = f.toExecute
      /\ base.executed = f.executed \union {n}
      /\ \A m \in Nodes \ {n} : base.nodeResults[m] = f.nodeResults[m]
  BY RecordedStep
<1>2. PICK c : Considered(c, base, out) /\ g = c[Len(out)]
  <2>1. base \in Frame
    BY <1>1 DEF AtHead, Clean
  <2> QED
    BY <2>1, AfterNodeIsConsidered
<1>3. /\ out \in Seq(DOMAIN connections)
      /\ \A i : InSeq(i, out) <=> i \in DOMAIN connections /\ connections[i].from = n
  BY OutOfElements
<1> HIDE DEF base, out
<1>4. \A q \in 1 .. Len(out) : connections[out[q]].from = n
  BY <1>3 DEF InSeq
<1>5. Ran(base, n)
  BY <1>1 DEF Ran
<1>6. After(g, base, out, Len(out))
  BY <1>1, <1>2, <1>3, <1>4, <1>5, ConsideredStep
<1>7. AtHead(g) /\ Later(base, g) /\ Grows(base, g)
  BY <1>6 DEF After
<1>8. g.nodeResults[n] = result /\ n \in g.executed
  BY <1>0, <1>1, <1>7 DEF Later, Grows, None
<1>9. ASSUME NEW m \in f.executed PROVE m \in g.executed /\ g.nodeResults[m] = f.nodeResults[m]
  BY <1>0, <1>1, <1>7 DEF Later, Grows, Ended
<1>10. ASSUME NEW s, DueBut(f, n, s), NEW m \in Members(s), Reached(g, m)
       PROVE  Ran(g, m) \/ InSeq(m, g.toExecute)
  <2>0. m \in Nodes /\ Reached(base, m) /\ (Ran(base, m) <=> Ran(g, m))
    <3>1. m \in Nodes
      BY DEF Members
    <3> QED
      BY <1>7, <1>10, <3>1, LaterSame
  <2>1. CASE m = n
    BY <1>5, <2>0, <2>1
  <2>2. CASE m # n /\ Reached(f, m)
    <3>1. Ran(f, m) \/ InSeq(m, f.toExecute)
      BY <1>10, <2>2 DEF DueBut
    <3> QED
      BY <1>1, <1>7, <2>0, <2>2, <3>1 DEF Ran, Grows
  <2>3. CASE m # n /\ ~Reached(f, m)
    <3>1. PICK i \in Into(m) : Follows(base.nodeResults[connections[i].from], connections[i])
                               /\ ~Follows(f.nodeResults[connections[i].from], connections[i])
      BY <2>0, <2>3 DEF Reached
    <3>2. i \in DOMAIN connections /\ connections[i].to = m /\ connections[i].from \in Nodes
      BY <3>1, ConnectionEnds DEF Into
    <3>3. connections[i].from = n
      BY <1>1, <3>1, <3>2
    <3>4. PICK q \in DOMAIN out : out[q] = i
      BY <1>3, <3>2, <3>3 DEF InSeq
    <3>5. q \in 1 .. Len(out)
      BY <1>3, <3>4
    <3>6. Placed(g, m)
      BY <1>6, <3>1, <3>2, <3>4, <3>5 DEF After
    <3>7. m \in g.executed => Ran(g, m)
      BY <1>7, <1>10, <2>0 DEF AtHead, Sound
    <3> QED
      BY <3>6, <3>7 DEF Placed
  <2> QED
    BY <2>1, <2>2, <2>3
<1>11. ASSUME NEW s, DueBut(f, n, s) PROVE Complete(g, s)
  BY <1>7, <1>10, <1>11 DEF Complete, Due, AtHead
<1> QED
  BY <1>7, <1>8, <1>9, <1>11
--------------------------------------------------------------------------------
(* The other changes of a frame. *)

LEMMA EnteredStep ==
  ASSUME connections \in Seq(Connection), NEW s \in Scopes, NEW g, g = Entered(s)
  PROVE  FrameInv(g, s) /\ g.at = "loop" /\ g.current = None
<1> DEFINE K == {n \in Members(s) : Into(n) = {}}
           q == Kept(NodeOrder, K)
<1>1. NodeOrder \in Seq(Nodes) /\ Distinct(NodeOrder)
  BY NodesAssumption DEF Distinct
<1>2. \A n : InSeq(n, NodeOrder) <=> n \in Nodes
  BY DEF InSeq, Nodes
<1>3. \A n \in K : n \in Members(s) /\ n \in Nodes /\ Into(n) = {}
  BY DEF Members
<1>3a. \A n \in Members(s) : Into(n) = {} => n \in K
  OBVIOUS
<1> HIDE DEF K
<1>4. q \in Seq(Nodes) /\ \A n : InSeq(n, q) <=> InSeq(n, NodeOrder) /\ n \in K
  BY <1>1, KeptType, KeptElements
<1>5. Distinct(q)
  BY <1>1, KeptDistinct
<1>6. NoResult \in [Nodes -> TaskResults \union {None}] /\ \A n \in Nodes : NoResult[n] = None
  BY DEF NoResult
<1>7. /\ g \in Frame /\ g.at = "loop" /\ g.current = None /\ g.toExecute = q /\ g.executed = {}
      /\ g.nodeResults = NoResult
  BY <1>4, <1>6 DEF Entered, NotEntered, Frame, K
<1>8. \A n \in Nodes : g.current # n
  BY <1>7, NodesAssumption
<1> HIDE DEF q
<1>9. Clean(g)
  BY <1>5, <1>6, <1>7 DEF Clean, Distinct, Ended
<1>10. \A n \in Nodes : ~Ran(g, n) /\ (Reached(g, n) <=> Into(n) = {})
  <2> SUFFICES ASSUME NEW n \in Nodes PROVE ~Ran(g, n) /\ (Reached(g, n) <=> Into(n) = {})
    OBVIOUS
  <2>1. \A i \in Into(n) : connections[i].from \in Nodes
    BY ConnectionEnds DEF Into
  <2> QED
    BY <1>6, <1>7, <2>1 DEF Ran, Reached, Follows, None
<1>11. Sound(g)
  BY <1>3, <1>4, <1>7, <1>8, <1>10 DEF Sound
<1>12. Complete(g, s)
  BY <1>2, <1>3a, <1>4, <1>7, <1>10 DEF Complete, Due, Members
<1> QED
  BY <1>7, <1>9, <1>11, <1>12 DEF FrameInv, Accounted

(* The frame whose loop has taken the head of its queue.                   *)
TakenFrom(f) == [f EXCEPT !.toExecute = Tail(@), !.at = "waiting", !.current = Head(f.toExecute)]

LEMMA TakeStep ==
  ASSUME connections \in Seq(Connection), NEW s \in Scopes, NEW f, FrameInv(f, s), f.at = "loop",
         f.toExecute # << >>,
         NEW g, g = TakenFrom(f)
  PROVE  /\ FrameInv(g, s) /\ g.at = "waiting" /\ g.current = Head(f.toExecute)
         /\ g.current \in Nodes /\ f.nodeResults[g.current] = None
         /\ g.nodeResults = f.nodeResults /\ g.executed = f.executed
<1> DEFINE n == Head(f.toExecute)
<1>0. f \in Frame /\ Distinct(f.toExecute) /\ f.toExecute \in Seq(Nodes) /\ f.current = None
      /\ \A m \in Nodes : f.current # m
  BY NodesAssumption DEF FrameInv, Clean, Distinct, Frame
<1>1. /\ Tail(f.toExecute) \in Seq(Nodes) /\ Distinct(Tail(f.toExecute)) /\ n \in Nodes
      /\ InSeq(n, f.toExecute) /\ ~InSeq(n, Tail(f.toExecute))
      /\ \A y : InSeq(y, f.toExecute) <=> InSeq(y, Tail(f.toExecute)) \/ y = n
  BY <1>0, QueueTail
<1>2. /\ g \in Frame /\ g.at = "waiting" /\ g.current = n /\ g.toExecute = Tail(f.toExecute)
      /\ g.executed = f.executed /\ g.nodeResults = f.nodeResults
  BY <1>0, <1>1 DEF Frame, TakenFrom
<1> HIDE DEF n
<1>3. n # None
  BY <1>1, NodesAssumption
<1>4. n \notin f.executed /\ f.nodeResults[n] = None
  BY <1>1 DEF FrameInv, Clean, Ended
<1>5. Clean(g)
  BY <1>0, <1>1, <1>2, <1>3, <1>4 DEF FrameInv, Clean, Distinct, Ended
<1>6. \A m \in Nodes : /\ Reached(g, m) <=> Reached(f, m)
                       /\ Ran(g, m) <=> Ran(f, m)
                       /\ Ended(g, m) <=> Ended(f, m)
                       /\ InSeq(m, g.toExecute) \/ g.current = m <=> InSeq(m, f.toExecute) \/ f.current = m
  BY <1>0, <1>1, <1>2 DEF Reached, Ran, Ended
<1>7. Sound(g)
  <2>1. \A m \in Nodes : m \in g.executed <=> m \in f.executed
    BY <1>2
  <2>2. \A i : Ended(g, connections[i].from) <=> Ended(f, connections[i].from)
    BY <1>2 DEF Ended
  <2> QED
    BY <1>6, <2>1, <2>2 DEF FrameInv, Sound
<1>8. Complete(g, s)
  BY <1>2, <1>6 DEF FrameInv, Complete, Due, Members
<1> QED
  BY <1>1, <1>2, <1>4, <1>5, <1>7, <1>8 DEF FrameInv, Accounted, n

(* A task that is being waited for, or the head of a queue, may end.       *)
LEMMA WaitingEnds ==
  ASSUME NEW s \in Scopes, NEW f, FrameInv(f, s), f.at = "waiting"
  PROVE  f.current \in Nodes /\ Ending(f, f.current) /\ DueBut(f, f.current, s)
<1>1. f.current \in Nodes /\ f.current # None
  BY DEF FrameInv, Clean, Frame
<1>2. Ending(f, f.current)
  BY <1>1 DEF FrameInv, Clean, Sound, Ending
<1>3. DueBut(f, f.current, s)
  BY DEF FrameInv, Complete, Due, DueBut
<1> QED
  BY <1>1, <1>2, <1>3

LEMMA HeadEnds ==
  ASSUME NEW s \in Scopes, NEW f, FrameInv(f, s), f.at = "loop", f.toExecute # << >>,
         NEW g, g = [f EXCEPT !.toExecute = Tail(@)], NEW n, n = Head(f.toExecute)
  PROVE  Ending(g, n) /\ DueBut(g, n, s) /\ g.executed = f.executed /\ g.nodeResults = f.nodeResults
<1>0. f \in Frame /\ Distinct(f.toExecute) /\ f.toExecute \in Seq(Nodes) /\ f.current = None
      /\ \A m \in Nodes : f.current # m
  BY NodesAssumption DEF FrameInv, Clean, Distinct, Frame
<1>1. /\ Tail(f.toExecute) \in Seq(Nodes) /\ Distinct(Tail(f.toExecute)) /\ n \in Nodes
      /\ InSeq(n, f.toExecute) /\ ~InSeq(n, Tail(f.toExecute))
      /\ \A y : InSeq(y, f.toExecute) <=> InSeq(y, Tail(f.toExecute)) \/ y = n
  BY <1>0, QueueTail
<1>2. /\ g \in Frame /\ g.at = "loop" /\ g.current = None /\ g.toExecute = Tail(f.toExecute)
      /\ g.executed = f.executed /\ g.nodeResults = f.nodeResults
  BY <1>0, <1>1 DEF Frame
<1>3. \A m \in Nodes : /\ Reached(g, m) <=> Reached(f, m)
                       /\ Ran(g, m) <=> Ran(f, m)
  BY <1>2 DEF Reached, Ran
<1>4. \A m : Ended(g, m) <=> Ended(f, m)
  BY <1>2 DEF Ended
<1>5. Clean(g)
  BY ZenonT(30), <1>0, <1>1, <1>2, <1>4 DEF FrameInv, Clean, Distinct
<1>6. Sound(g) /\ Reached(g, n) /\ n \notin g.executed
  <2>1. /\ \A m \in Nodes : InSeq(m, g.toExecute) => InSeq(m, f.toExecute)
        /\ \A m \in Nodes : g.current # m
    BY <1>0, <1>1, <1>2
  <2>2. Sound(g)
    BY <1>2, <1>3, <1>4, <2>1 DEF FrameInv, Sound
  <2>3. Reached(f, n) /\ n \notin f.executed
    BY <1>1 DEF FrameInv, Clean, Sound
  <2> QED
    BY <1>1, <1>2, <1>3, <2>2, <2>3
<1>7. DueBut(g, n, s)
  BY <1>0, <1>1, <1>2, <1>3 DEF FrameInv, Complete, Due, DueBut, Members
<1> QED
  BY <1>1, <1>2, <1>5, <1>6, <1>7 DEF Ending

LEMMA SkipStep ==
  ASSUME connections \in Seq(Connection), NEW s \in Scopes, NEW f, FrameInv(f, s), f.at = "loop",
         f.toExecute = << >> \/ stopped, NEW g, g = SkipRest(f, s)
  PROVE  /\ FrameInv(g, s) /\ g.at = "done" /\ g.executed = f.executed
         /\ \A m \in f.executed : g.nodeResults[m] = f.nodeResults[m]
         /\ HasErrors(g) <=> HasErrors(f)
<1>0. f \in Frame /\ f.current = None /\ f.executed \subseteq Nodes /\ \A m \in Nodes : f.current # m
  BY NodesAssumption DEF FrameInv, Clean, Frame
<1>1. /\ g \in Frame /\ g.at = "done" /\ g.current = None /\ g.toExecute = f.toExecute
      /\ g.executed = f.executed
      /\ \A m \in Nodes : g.nodeResults[m] =
           IF m \in Members(s) \ f.executed THEN "skipped" ELSE f.nodeResults[m]
  BY <1>0 DEF SkipRest, Frame, TaskResults
<1>2. \A m \in Nodes \ f.executed : f.nodeResults[m] = None
  BY DEF FrameInv, Clean, Ended
<1>3. Later(f, g)
  BY <1>1, <1>2 DEF Later
<1>4. \A m \in Nodes : /\ Reached(g, m) <=> Reached(f, m)
                       /\ Ran(g, m) <=> Ran(f, m)
                       /\ Ended(f, m) => Ended(g, m)
                       /\ \A i \in Into(m) : Ended(f, connections[i].from) => Ended(g, connections[i].from)
  BY <1>3, LaterSame
<1>5. Clean(g)
  BY <1>0, <1>1, <1>4 DEF FrameInv, Clean
<1>6. Sound(g)
  BY <1>0, <1>1, <1>4 DEF FrameInv, Sound
<1>7. Complete(g, s)
  <2>1. \A m : f.toExecute = << >> => ~InSeq(m, f.toExecute)
    BY DEF InSeq
  <2> QED
    BY <1>0, <1>1, <1>4, <2>1 DEF FrameInv, Complete, Due, Members
<1>8. Accounted(g, s)
  BY <1>1, <1>4 DEF FrameInv, Clean, Accounted, Ended, Members, None
<1>9. HasErrors(g) <=> HasErrors(f)
  BY <1>3 DEF Later, HasErrors, None
<1> QED
  BY <1>0, <1>1, <1>5, <1>6, <1>7, <1>8, <1>9 DEF FrameInv
--------------------------------------------------------------------------------
(* The invariant, action by action. *)

LEMMA ScopeFacts ==
  /\ Root \in Scopes /\ Containers \subseteq Scopes /\ Containers \subseteq Nodes
  /\ \A k \in Containers : k # Root /\ k # None
  BY NodesAssumption DEF Scopes

LEMMA FramesStay ==
  ASSUME IInv, connections' = connections, stopped' \in BOOLEAN, stopped => stopped',
         status' \in {"new", "running", "completed", "failed"},
         DOMAIN frame' = Scopes, frame' = [r \in Scopes |-> frame'[r]],
         \A r \in Scopes : FrameInv(frame'[r], r)
  PROVE  TypeOK' /\ \A r \in Scopes : FrameInv(frame[r], r)'
<1>1. ASSUME NEW r \in Scopes PROVE FrameInv(frame[r], r)'
  <2>1. Clean(frame'[r]) /\ Sound(frame'[r]) /\ Complete(frame'[r], r) /\ Accounted(frame'[r], r)
    BY DEF FrameInv
  <2>2. \A n : Into(n)' = Into(n)
    BY DEF Into
  <2>3. \A n : Reached(frame[r], n)' <=> Reached(frame'[r], n)
    BY <2>2 DEF Reached, Follows
  <2>4. Clean(frame[r])'
    BY <2>1 DEF Clean, Ended
  <2>5. Sound(frame[r])'
    BY <2>1, <2>2, <2>3 DEF Sound, Ran, Ended
  <2>6. Complete(frame[r], r)'
    BY <2>1, <2>3 DEF Complete, Due, Ran
  <2>7. Accounted(frame[r], r)'
    BY <2>1 DEF Accounted, Ended
  <2> QED
    BY <2>4, <2>5, <2>6, <2>7 DEF FrameInv
<1>2. /\ \A r \in Scopes : frame'[r] \in Frame
      /\ \A r \in Scopes, n \in Nodes :
           InSeq(n, frame'[r].toExecute) \/ frame'[r].current = n => n \notin frame'[r].executed
  BY DEF FrameInv, Clean
<1>3. TypeOK'
  BY <1>2 DEF IInv, TypeOK
<1> QED
  BY <1>1, <1>3

(* A step that changes one frame, and not its place among the others.      *)
LEMMA OneFrame ==
  ASSUME IInv, connections' = connections, stopped' = stopped, status' = status,
         NEW s \in Scopes, NEW g, frame' = [frame EXCEPT ![s] = g], FrameInv(g, s)
  PROVE  /\ TypeOK' /\ \A r \in Scopes : FrameInv(frame[r], r)'
         /\ frame'[s] = g /\ \A r \in Scopes \ {s} : frame'[r] = frame[r]
<1>1. frame \in [Scopes -> Frame] /\ stopped \in BOOLEAN /\ status \in {"new", "running", "completed", "failed"}
  BY DEF IInv, TypeOK
<1>2. /\ frame'[s] = g /\ \A r \in Scopes \ {s} : frame'[r] = frame[r]
      /\ DOMAIN frame' = Scopes /\ frame' = [r \in Scopes |-> frame'[r]]
  BY <1>1
<1>3. \A r \in Scopes : FrameInv(frame'[r], r)
  BY <1>2 DEF IInv
<1> QED
  BY <1>1, <1>2, <1>3, FramesStay

(* The steps other than starts: no frame begins to wait.                   *)
NoneTaken == \A r \in Scopes : frame'[r] = frame[r] \/ frame'[r].at # "waiting"

LEMMA InitIInv == Init => IInv
<1> SUFFICES ASSUME Init PROVE IInv
  OBVIOUS
<1>1. connections \in Seq(Connection)
  BY ProjectsAssumption DEF Init
<1>2. NoResult \in [Nodes -> TaskResults \union {None}] /\ \A n \in Nodes : NoResult[n] = None
  BY DEF NoResult
<1>3. NotEntered \in Frame
  BY <1>2 DEF NotEntered, Frame
<1>4. \A n \in Nodes : /\ NotEntered.current # n /\ ~InSeq(n, NotEntered.toExecute)
                       /\ ~Ran(NotEntered, n) /\ ~Ended(NotEntered, n)
  BY <1>2, NodesAssumption DEF NotEntered, InSeq, Ran, Ended, None
<1>5. ~HasErrors(NotEntered)
  BY <1>2 DEF NotEntered, HasErrors, None
<1>6. Clean(NotEntered)
  <2>1. /\ NotEntered.at = "idle" /\ NotEntered.current = None /\ NotEntered.executed = {}
        /\ NotEntered.toExecute = << >> /\ DOMAIN NotEntered.toExecute = {}
    BY DEF NotEntered
  <2> QED
    BY <1>3, <1>4, <2>1 DEF Clean
<1>7. Sound(NotEntered)
  BY <1>4 DEF Sound, NotEntered
<1>8. \A s \in Scopes : FrameInv(NotEntered, s)
  BY <1>6, <1>7 DEF FrameInv, Complete, Accounted, NotEntered
<1>9. TypeOK
  BY <1>1, <1>3, <1>4 DEF Init, TypeOK
<1>10. \A k \in Containers : Nested(k)
  BY <1>5, ScopeFacts DEF Init, Nested, NotEntered
<1>11. RunStatus
  BY DEF Init, RunStatus, NotEntered
<1> QED
  BY <1>8, <1>9, <1>10, <1>11 DEF Init, IInv

LEMMA RunStep == IInv /\ Run => IInv' /\ NoneTaken
<1> SUFFICES ASSUME IInv, Run PROVE IInv' /\ NoneTaken
  OBVIOUS
<1>1. PICK g : g = Entered(Root)
  OBVIOUS
<1>2. connections \in Seq(Connection) /\ frame \in [Scopes -> Frame] /\ stopped \in BOOLEAN
      /\ status = "new" /\ status' = "running" /\ connections' = connections /\ stopped' = stopped
      /\ frame' = [frame EXCEPT ![Root] = g]
  BY <1>1 DEF IInv, TypeOK, Run
<1>3. FrameInv(g, Root) /\ g.at = "loop"
  BY <1>1, <1>2, EnteredStep, ScopeFacts
<1>4. /\ frame'[Root] = g /\ \A r \in Scopes \ {Root} : frame'[r] = frame[r]
      /\ DOMAIN frame' = Scopes /\ frame' = [r \in Scopes |-> frame'[r]]
  BY <1>2, ScopeFacts
<1>5. TypeOK' /\ \A r \in Scopes : FrameInv(frame[r], r)'
  <2>1. \A r \in Scopes : FrameInv(frame'[r], r)
    BY <1>3, <1>4 DEF IInv
  <2> QED
    BY <1>2, <1>4, <2>1, FramesStay
<1>6. \A k \in Containers : Nested(k)'
  <2> SUFFICES ASSUME NEW k \in Containers PROVE Nested(k)'
    OBVIOUS
  <2>1. frame'[k] = frame[k] /\ frame[k].at = "idle" /\ ~HasErrors(frame[k])
    BY <1>2, <1>4, ScopeFacts DEF IInv, RunStatus, Nested
  <2> QED
    BY <2>1 DEF Nested, HasErrors
<1>7. RunStatus'
  BY <1>2 DEF RunStatus
<1>20. NoneTaken
  BY <1>3, <1>4 DEF NoneTaken
<1> QED
  BY <1>5, <1>6, <1>7, <1>20 DEF IInv

LEMMA StopStep == IInv /\ Stop => IInv' /\ NoneTaken
<1> SUFFICES ASSUME IInv, Stop PROVE IInv' /\ NoneTaken
  OBVIOUS
<1>1. /\ frame \in [Scopes -> Frame] /\ stopped \in BOOLEAN /\ stopped' = TRUE
      /\ status \in {"new", "running", "completed", "failed"}
      /\ connections' = connections /\ frame' = frame /\ status' = status
  BY DEF IInv, TypeOK, Stop
<1>2. TypeOK' /\ \A r \in Scopes : FrameInv(frame[r], r)'
  <2>1. DOMAIN frame' = Scopes /\ frame' = [r \in Scopes |-> frame'[r]]
    BY <1>1
  <2>2. \A r \in Scopes : FrameInv(frame'[r], r)
    BY <1>1 DEF IInv
  <2> QED
    BY <1>1, <2>1, <2>2, FramesStay
<1>20. NoneTaken
  BY <1>1 DEF NoneTaken
<1> QED
  BY <1>1, <1>2, <1>20 DEF IInv, Nested, RunStatus, HasErrors

(* A step of one frame keeps the nesting: of a container's frame that goes *)
(* on, or of the root frame while no container runs.                       *)
LEMMA InnerNested ==
  ASSUME IInv, NEW k \in Containers, frame[k].at \in {"loop", "waiting"},
         frame'[k].at \in {"loop", "waiting"}, \A r \in Scopes \ {k} : frame'[r] = frame[r],
         status' = status
  PROVE  (\A j \in Containers : Nested(j)') /\ RunStatus'
<1>0. frame'[Root] = frame[Root] /\ frame[Root].current = k /\ frame[Root].at = "waiting"
      /\ k \in Scopes
  BY ScopeFacts DEF IInv, Nested, FrameInv, Clean
<1>1. ASSUME NEW j \in Containers PROVE Nested(j)'
  <2>1. CASE j = k
    BY <1>0, <2>1 DEF Nested
  <2>2. CASE j # k
    <3>1. frame'[j] = frame[j] /\ Nested(j)
      BY <2>2, ScopeFacts DEF IInv
    <3> QED
      BY <1>0, <3>1 DEF Nested, HasErrors
  <2> QED
    BY <2>1, <2>2
<1>2. RunStatus'
  BY <1>0 DEF IInv, RunStatus, HasErrors
<1> QED
  BY <1>1, <1>2

LEMMA RootNested ==
  ASSUME IInv, \A r \in Scopes \ {Root} : frame'[r] = frame[r],
         \A k \in Containers : frame[k].at \notin {"loop", "waiting"},
         \A m \in frame[Root].executed : /\ m \in frame'[Root].executed
                                         /\ frame'[Root].nodeResults[m] = frame[Root].nodeResults[m]
  PROVE  \A j \in Containers : Nested(j)'
<1> SUFFICES ASSUME NEW j \in Containers PROVE Nested(j)'
  OBVIOUS
<1>1. frame'[j] = frame[j] /\ Nested(j)
  BY ScopeFacts DEF IInv
<1> QED
  BY <1>1 DEF Nested, HasErrors

(* While the root frame is not waiting for a container, none runs.         *)
LEMMA NoneRuns ==
  ASSUME IInv, frame[Root].current \notin Containers
  PROVE  \A k \in Containers : frame[k].at \notin {"loop", "waiting"}
  BY DEF IInv, Nested

LEMMA StartTaskStep == ASSUME IInv, NEW s \in Scopes, StartTask(s) PROVE IInv'
<1>1. PICK f : f = frame[s]
  OBVIOUS
<1>2. PICK g : g = TakenFrom(f)
  OBVIOUS
<1>3. /\ connections \in Seq(Connection) /\ frame \in [Scopes -> Frame] /\ FrameInv(f, s)
      /\ status = "running" /\ f.at = "loop" /\ f.toExecute # << >>
      /\ connections' = connections /\ stopped' = stopped /\ status' = status
  BY <1>1 DEF IInv, TypeOK, StartTask, MayStart, AtLoop
<1>4. frame' = [frame EXCEPT ![s] = g]
  BY <1>1, <1>2, <1>3 DEF StartTask, Taken, NextTask, TakenFrom
<1>5. FrameInv(g, s) /\ g.at = "waiting" /\ g.nodeResults = f.nodeResults /\ g.executed = f.executed
  BY <1>2, <1>3, TakeStep
<1>6. /\ TypeOK' /\ \A r \in Scopes : FrameInv(frame[r], r)'
      /\ frame'[s] = g /\ \A r \in Scopes \ {s} : frame'[r] = frame[r]
  BY <1>3, <1>4, <1>5, OneFrame
<1>7. CASE s \in Containers
  <2>1. (\A j \in Containers : Nested(j)') /\ RunStatus'
    BY <1>1, <1>3, <1>5, <1>6, <1>7, InnerNested
  <2> QED
    BY <1>6, <2>1 DEF IInv
<1>8. CASE s = Root
  <2>1. frame[Root].current = None
    BY <1>1, <1>3, <1>8 DEF FrameInv, Clean
  <2>2. \A j \in Containers : Nested(j)'
    BY <1>1, <1>5, <1>6, <1>8, <2>1, NoneRuns, RootNested, ScopeFacts
  <2>3. RunStatus'
    BY <1>3 DEF RunStatus
  <2> QED
    BY <1>6, <2>2, <2>3 DEF IInv
<1> QED
  BY <1>7, <1>8 DEF Scopes

LEMMA TaskEndsStep ==
  ASSUME IInv, NEW s \in Scopes, NEW result \in {"success", "error"}, TaskEnds(s, result)
  PROVE  IInv' /\ NoneTaken
<1>1. PICK f : f = frame[s]
  OBVIOUS
<1>2. PICK g : g = AfterNode(f, f.current, result)
  OBVIOUS
<1>3. /\ connections \in Seq(Connection) /\ frame \in [Scopes -> Frame] /\ FrameInv(f, s)
      /\ f.at = "waiting" /\ f.current \notin Containers
      /\ connections' = connections /\ stopped' = stopped /\ status' = status
  BY <1>1 DEF IInv, TypeOK, TaskEnds
<1>4. frame' = [frame EXCEPT ![s] = g]
  BY <1>1, <1>2, <1>3 DEF TaskEnds
<1>5. f.current \in Nodes /\ Ending(f, f.current) /\ DueBut(f, f.current, s)
  BY <1>3, WaitingEnds
<1>6. /\ AtHead(g) /\ Complete(g, s)
      /\ \A m \in f.executed : m \in g.executed /\ g.nodeResults[m] = f.nodeResults[m]
  <2>1. PICK n : n = f.current
    OBVIOUS
  <2> QED
    BY <1>2, <1>3, <1>5, <2>1, AfterNodeStep
<1>7. FrameInv(g, s) /\ g.at = "loop"
  BY <1>6 DEF AtHead, FrameInv, Accounted
<1>8. /\ TypeOK' /\ \A r \in Scopes : FrameInv(frame[r], r)'
      /\ frame'[s] = g /\ \A r \in Scopes \ {s} : frame'[r] = frame[r]
  BY <1>3, <1>4, <1>7, OneFrame
<1>8a. NoneTaken
  BY <1>7, <1>8 DEF NoneTaken
<1>9. CASE s \in Containers
  <2>1. (\A j \in Containers : Nested(j)') /\ RunStatus'
    BY <1>1, <1>3, <1>7, <1>8, <1>9, InnerNested
  <2> QED
    BY <1>8, <1>8a, <2>1 DEF IInv
<1>10. CASE s = Root
  <2>1. \A j \in Containers : Nested(j)'
    BY <1>1, <1>3, <1>6, <1>8, <1>10, NoneRuns, RootNested
  <2>2. RunStatus'
    BY <1>1, <1>3, <1>8, <1>10 DEF IInv, RunStatus, TypeOK
  <2> QED
    BY <1>8, <1>8a, <2>1, <2>2 DEF IInv
<1> QED
  BY <1>9, <1>10 DEF Scopes
LEMMA EmptyContainerStep == IInv /\ EmptyContainer => IInv' /\ NoneTaken
<1> SUFFICES ASSUME IInv, EmptyContainer PROVE IInv' /\ NoneTaken
  OBVIOUS
<1>1. PICK f : f = frame[Root]
  OBVIOUS
<1>2. PICK h, n : h = [f EXCEPT !.toExecute = Tail(@)] /\ n = Head(f.toExecute)
  OBVIOUS
<1>2a. PICK g : g = AfterNode(h, n, "success")
  OBVIOUS
<1>3. /\ connections \in Seq(Connection) /\ frame \in [Scopes -> Frame] /\ FrameInv(f, Root)
      /\ status = "running" /\ f.at = "loop" /\ f.toExecute # << >> /\ f.current = None
      /\ connections' = connections /\ stopped' = stopped /\ status' = status
  BY <1>1, ScopeFacts DEF IInv, TypeOK, EmptyContainer, MayStart, AtLoop, FrameInv, Clean
<1>4. frame' = [frame EXCEPT ![Root] = g]
  BY <1>1, <1>2, <1>2a, <1>3, ScopeFacts DEF EmptyContainer, NextTask
<1>5. Ending(h, n) /\ DueBut(h, n, Root) /\ h.executed = f.executed /\ h.nodeResults = f.nodeResults
  BY <1>2, <1>3, HeadEnds, ScopeFacts
<1>6. /\ AtHead(g) /\ Complete(g, Root)
      /\ \A m \in f.executed : m \in g.executed /\ g.nodeResults[m] = f.nodeResults[m]
  BY <1>2a, <1>3, <1>5, AfterNodeStep
<1>7. FrameInv(g, Root) /\ g.at = "loop"
  BY <1>6 DEF AtHead, FrameInv, Accounted
<1>8. /\ TypeOK' /\ \A r \in Scopes : FrameInv(frame[r], r)'
      /\ frame'[Root] = g /\ \A r \in Scopes \ {Root} : frame'[r] = frame[r]
  BY <1>3, <1>4, <1>7, OneFrame, ScopeFacts
<1>9. \A j \in Containers : Nested(j)'
  BY <1>1, <1>3, <1>6, <1>8, NoneRuns, RootNested, ScopeFacts
<1>10. RunStatus'
  BY <1>3 DEF RunStatus
<1>20. NoneTaken
  BY <1>7, <1>8 DEF NoneTaken
<1> QED
  BY <1>8, <1>9, <1>10, <1>20 DEF IInv

LEMMA EnterContainerStep == IInv /\ EnterContainer => IInv'
<1> SUFFICES ASSUME IInv, EnterContainer PROVE IInv'
  OBVIOUS
<1>1. PICK f, k : f = frame[Root] /\ k = Head(f.toExecute)
  OBVIOUS
<1>2. PICK g, h : g = TakenFrom(f) /\ h = Entered(k)
  OBVIOUS
<1>3. /\ connections \in Seq(Connection) /\ frame \in [Scopes -> Frame] /\ FrameInv(f, Root)
      /\ status = "running" /\ f.at = "loop" /\ f.toExecute # << >> /\ f.current = None
      /\ connections' = connections /\ stopped' = stopped /\ status' = status /\ stopped \in BOOLEAN
      /\ k \in Containers /\ k \in Scopes /\ k # Root
  BY <1>1, ScopeFacts DEF IInv, TypeOK, EnterContainer, MayStart, AtLoop, FrameInv, Clean, NextTask
<1>4. frame' = [[frame EXCEPT ![Root] = g] EXCEPT ![k] = h]
  BY <1>1, <1>2, <1>3, ScopeFacts DEF EnterContainer, Taken, NextTask, TakenFrom
<1>5. FrameInv(g, Root) /\ g.at = "waiting" /\ g.current = k
      /\ g.executed = f.executed /\ g.nodeResults = f.nodeResults
  <2>1. /\ FrameInv(g, Root) /\ g.at = "waiting" /\ g.current = Head(f.toExecute)
        /\ g.nodeResults = f.nodeResults /\ g.executed = f.executed
    BY <1>2, <1>3, TakeStep, ScopeFacts
  <2> QED
    BY <1>1, <2>1
<1>6. FrameInv(h, k) /\ h.at = "loop"
  BY <1>2, <1>3, EnteredStep
<1>7. /\ frame'[Root] = g /\ frame'[k] = h /\ \A r \in Scopes \ {Root, k} : frame'[r] = frame[r]
      /\ DOMAIN frame' = Scopes /\ frame' = [r \in Scopes |-> frame'[r]]
  BY <1>3, <1>4, ScopeFacts
<1>8. TypeOK' /\ \A r \in Scopes : FrameInv(frame[r], r)'
  <2>1. \A r \in Scopes : FrameInv(frame'[r], r)
    BY <1>5, <1>6, <1>7 DEF IInv
  <2> QED
    BY <1>3, <1>7, <2>1, FramesStay
<1>9. ASSUME NEW j \in Containers PROVE Nested(j)'
  <2>1. CASE j = k
    BY <1>5, <1>6, <1>7, <2>1 DEF Nested
  <2>2. CASE j # k
    <3>1. frame'[j] = frame[j] /\ Nested(j)
      BY <1>7, <2>2, ScopeFacts DEF IInv
    <3>2. frame[j].at \notin {"loop", "waiting"}
      BY <1>1, <1>3, NoneRuns, ScopeFacts
    <3> QED
      BY <1>1, <1>5, <1>7, <3>1, <3>2 DEF Nested, HasErrors
  <2> QED
    BY <2>1, <2>2
<1>10. RunStatus'
  BY <1>3 DEF RunStatus
<1> QED
  BY <1>8, <1>9, <1>10 DEF IInv

LEMMA LeaveContainerStep == ASSUME IInv, NEW k \in Containers, LeaveContainer(k) PROVE IInv' /\ NoneTaken
<1>1. PICK f, e : f = frame[Root] /\ e = frame[k]
  OBVIOUS
<1>2. PICK h : h = SkipRest(e, k)
  OBVIOUS
<1>2a. PICK result : result = ContainerResult(h)
  OBVIOUS
<1>2b. PICK g : g = AfterNode(f, k, result)
  OBVIOUS
<1>2c. result \in {"success", "error"} /\ (HasErrors(h) => result = "error")
  BY <1>2a DEF ContainerResult
<1>3. /\ connections \in Seq(Connection) /\ frame \in [Scopes -> Frame] /\ FrameInv(f, Root) /\ FrameInv(e, k)
      /\ status = "running" /\ e.at = "loop" /\ (e.toExecute = << >> \/ stopped)
      /\ connections' = connections /\ stopped' = stopped /\ status' = status /\ stopped \in BOOLEAN
      /\ k \in Scopes /\ k # Root
      /\ f.current = k /\ f.at = "waiting"
  <2>1. Nested(k) /\ e.at = "loop"
    BY <1>1 DEF IInv, LeaveContainer, LoopEnds, AtLoop
  <2>2. f.current = k /\ k # None
    BY <1>1, <2>1, ScopeFacts DEF Nested
  <2> QED
    BY <1>1, <2>1, <2>2, ScopeFacts DEF IInv, TypeOK, LeaveContainer, LoopEnds, AtLoop, Stops, FrameInv, Clean
<1>4. frame' = [[frame EXCEPT ![k] = h] EXCEPT ![Root] = g]
  BY <1>1, <1>2, <1>2a, <1>2b, <1>3, ScopeFacts DEF LeaveContainer
<1>5. FrameInv(h, k) /\ h.at = "done"
  BY <1>2, <1>3, SkipStep
<1>6. Ending(f, k) /\ DueBut(f, k, Root)
  BY <1>3, WaitingEnds, ScopeFacts
<1>7. /\ AtHead(g) /\ Complete(g, Root) /\ k \in g.executed /\ g.nodeResults[k] = result
      /\ \A m \in f.executed : m \in g.executed /\ g.nodeResults[m] = f.nodeResults[m]
  BY <1>2b, <1>2c, <1>3, <1>6, AfterNodeStep
<1>8. FrameInv(g, Root)
  BY <1>7 DEF AtHead, FrameInv, Accounted
<1>9. /\ frame'[Root] = g /\ frame'[k] = h /\ \A r \in Scopes \ {Root, k} : frame'[r] = frame[r]
      /\ DOMAIN frame' = Scopes /\ frame' = [r \in Scopes |-> frame'[r]]
  BY <1>3, <1>4, ScopeFacts
<1>10. TypeOK' /\ \A r \in Scopes : FrameInv(frame[r], r)'
  <2>1. \A r \in Scopes : FrameInv(frame'[r], r)
    BY <1>5, <1>8, <1>9 DEF IInv
  <2> QED
    BY <1>3, <1>9, <2>1, FramesStay
<1>11. ASSUME NEW j \in Containers PROVE Nested(j)'
  <2>1. CASE j = k
    BY <1>2c, <1>5, <1>7, <1>9, <2>1 DEF Nested, HasErrors
  <2>2. CASE j # k
    <3>1. frame'[j] = frame[j] /\ Nested(j)
      BY <1>9, <2>2, ScopeFacts DEF IInv
    <3>2. frame[j].at \notin {"loop", "waiting"}
      BY <1>1, <1>3, <2>2, <3>1 DEF Nested
    <3> QED
      BY <1>1, <1>7, <1>9, <3>1, <3>2 DEF Nested, HasErrors
  <2> QED
    BY <2>1, <2>2
<1>12. RunStatus'
  BY <1>3 DEF RunStatus
<1>13. NoneTaken
  BY <1>5, <1>7, <1>9 DEF NoneTaken, AtHead
<1> QED
  BY <1>10, <1>11, <1>12, <1>13 DEF IInv

LEMMA EndRunStep == IInv /\ EndRun => IInv' /\ NoneTaken
<1> SUFFICES ASSUME IInv, EndRun PROVE IInv' /\ NoneTaken
  OBVIOUS
<1>1. PICK f : f = frame[Root]
  OBVIOUS
<1>2. PICK g : g = SkipRest(f, Root)
  OBVIOUS
<1>3. /\ connections \in Seq(Connection) /\ frame \in [Scopes -> Frame] /\ FrameInv(f, Root)
      /\ f.at = "loop" /\ (f.toExecute = << >> \/ stopped) /\ f.current = None
      /\ connections' = connections /\ stopped' = stopped /\ stopped \in BOOLEAN
      /\ status' = IF HasErrors(frame'[Root]) THEN "failed" ELSE "completed"
      /\ frame' = [frame EXCEPT ![Root] = g]
  BY <1>1, <1>2, ScopeFacts DEF IInv, TypeOK, EndRun, LoopEnds, AtLoop, Stops, FrameInv, Clean
<1>4. /\ FrameInv(g, Root) /\ g.at = "done" /\ g.executed = f.executed
      /\ \A m \in f.executed : g.nodeResults[m] = f.nodeResults[m]
  BY <1>2, <1>3, SkipStep, ScopeFacts
<1>5. /\ frame'[Root] = g /\ \A r \in Scopes \ {Root} : frame'[r] = frame[r]
      /\ DOMAIN frame' = Scopes /\ frame' = [r \in Scopes |-> frame'[r]]
      /\ status' \in {"completed", "failed"}
  BY <1>3, ScopeFacts
<1>6. TypeOK' /\ \A r \in Scopes : FrameInv(frame[r], r)'
  <2>1. \A r \in Scopes : FrameInv(frame'[r], r)
    BY <1>4, <1>5 DEF IInv
  <2> QED
    BY <1>3, <1>5, <2>1, FramesStay
<1>7. \A j \in Containers : Nested(j)'
  BY <1>1, <1>3, <1>4, <1>5, NoneRuns, RootNested, ScopeFacts
<1>8. RunStatus'
  BY <1>3, <1>4, <1>5 DEF RunStatus, HasErrors
<1>20. NoneTaken
  BY <1>4, <1>5 DEF NoneTaken
<1> QED
  BY <1>6, <1>7, <1>8, <1>20 DEF IInv

LEMMA NextIInv == IInv /\ [Next]_vars => IInv'
<1> SUFFICES ASSUME IInv, [Next]_vars PROVE IInv'
  OBVIOUS
<1>1. ASSUME NEW s \in Scopes, StartTask(s) PROVE IInv'
  BY <1>1, StartTaskStep
<1>2. ASSUME NEW s \in Scopes, NEW result \in {"success", "error"}, TaskEnds(s, result) PROVE IInv'
  BY <1>2, TaskEndsStep
<1>3. ASSUME NEW k \in Containers, LeaveContainer(k) PROVE IInv'
  BY <1>3, LeaveContainerStep
<1>4. CASE Run \/ Stop \/ EnterContainer \/ EmptyContainer \/ EndRun
  BY <1>4, RunStep, StopStep, EnterContainerStep, EmptyContainerStep, EndRunStep
<1>5. CASE UNCHANGED vars
  <2>1. /\ frame \in [Scopes -> Frame] /\ stopped \in BOOLEAN
        /\ status \in {"new", "running", "completed", "failed"}
        /\ connections' = connections /\ frame' = frame /\ status' = status /\ stopped' = stopped
    BY <1>5 DEF vars, IInv, TypeOK
  <2>2. DOMAIN frame' = Scopes /\ frame' = [r \in Scopes |-> frame'[r]]
        /\ \A r \in Scopes : FrameInv(frame'[r], r)
    BY <2>1 DEF IInv
  <2>3. TypeOK' /\ \A r \in Scopes : FrameInv(frame[r], r)'
    BY <2>1, <2>2, FramesStay
  <2> QED
    BY <2>1, <2>3 DEF IInv, Nested, RunStatus, HasErrors
<1> QED
  BY <1>1, <1>2, <1>3, <1>4, <1>5 DEF Next
--------------------------------------------------------------------------------
(* The theorems.                                                           *)

(* Whatever the results, the graph and the moment of a stop, every frame   *)
(* accounts for each of its tasks, a container's frame fits its task, and  *)
(* the run's status the frame of the root.                                 *)
THEOREM Invariance == Spec => []IInv
  BY InitIInv, NextIInv, PTL DEF Spec

(* Every variable has its type, and only tasks without a result are queued *)
(* or running, whatever the graph of the project.                          *)
THEOREM TypeInvariance == Spec => []TypeOK
<1>1. IInv => TypeOK
  BY DEF IInv
<1> QED
  BY <1>1, Invariance, PTL

(* A task runs only if nothing leads to it or a connection is followed,    *)
(* and in a run that is not stopped every such task does run, also when    *)
(* the connection is followed after others into it were not.               *)
THEOREM RunsFollowResults == Spec => []TasksFollowResults
<1>1. IInv => TasksFollowResults
  <2> SUFFICES ASSUME IInv, NEW s \in Scopes, NEW n \in Members(s)
               PROVE  /\ Ran(frame[s], n) \/ frame[s].current = n => Reached(frame[s], n)
                      /\ frame[s].at = "done" /\ ~stopped /\ Reached(frame[s], n) => Ran(frame[s], n)
    BY DEF TasksFollowResults
  <2>1. Sound(frame[s]) /\ Complete(frame[s], s) /\ n \in Nodes
    BY DEF IInv, FrameInv, Members
  <2> QED
    BY <2>1 DEF Sound, Complete
<1> QED
  BY <1>1, Invariance, PTL

(* When a scope has ended each of its tasks has run or was skipped, also   *)
(* if the run was stopped.                                                 *)
THEOREM AllAccounted == Spec => []EveryTaskAccounted
<1>1. IInv => EveryTaskAccounted
  BY DEF IInv, FrameInv, Accounted, Ended, EveryTaskAccounted
<1> QED
  BY <1>1, Invariance, PTL

(* A run completes only if no task of any scope has failed, however deep   *)
(* in a container and whether or not a connection took care of it.         *)
THEOREM FailuresSurface == Spec => []FailureSurfaces
<1>1. IInv => FailureSurfaces
  <2> SUFFICES ASSUME IInv, status = "completed", NEW s \in Scopes, HasErrors(frame[s]) PROVE FALSE
    BY DEF FailureSurfaces
  <2>1. frame[Root].at = "done" /\ ~HasErrors(frame[Root])
    BY DEF IInv, RunStatus
  <2>2. s \in Containers /\ Nested(s) /\ frame[s] \in Frame
    BY <2>1 DEF Scopes, IInv, TypeOK
  <2>3. frame[s].at \in {"idle", "loop", "waiting", "done"}
    BY <2>2 DEF Frame
  <2>4. frame[s].at \notin {"loop", "waiting"}
    BY <2>1, <2>2, ScopeFacts DEF Nested, IInv, FrameInv, Clean
  <2>5. frame[s].at = "done" /\ frame[Root].nodeResults[s] = "error"
    BY <2>2, <2>3, <2>4 DEF Nested
  <2> QED
    BY <2>1, <2>2, <2>5, ScopeFacts DEF HasErrors
<1> QED
  BY <1>1, Invariance, PTL

(* What a task start changes: the head of a queue is taken.                *)
LEMMA StartFacts ==
  ASSUME IInv, NEW s \in Scopes, MayStart(s), NEW g, g = Taken(s)[s]
  PROVE  /\ ~stopped /\ g.current \in Nodes /\ frame[s].nodeResults[g.current] = None
         /\ \A r \in Scopes \ {s} : Taken(s)[r] = frame[r]
<1>1. PICK f : f = frame[s]
  OBVIOUS
<1>2. /\ connections \in Seq(Connection) /\ frame \in [Scopes -> Frame] /\ FrameInv(f, s)
      /\ f.at = "loop" /\ f.toExecute # << >> /\ ~stopped
  BY <1>1 DEF IInv, TypeOK, MayStart, AtLoop, Stops
<1>3. g = TakenFrom(f) /\ \A r \in Scopes \ {s} : Taken(s)[r] = frame[r]
  BY <1>1, <1>2 DEF Taken, NextTask, TakenFrom
<1>4. g.current \in Nodes /\ f.nodeResults[g.current] = None
  BY <1>2, <1>3, TakeStep
<1> QED
  BY <1>1, <1>2, <1>3, <1>4

(* A task is started once, not after it was skipped and not after a stop.  *)
THEOREM TasksStartOnce == Spec => StartsOnceBeforeStop
<1> DEFINE Fresh(s) == frame'[s].current # frame[s].current /\ frame'[s].current # None
                         => ~stopped /\ frame[s].nodeResults[frame'[s].current] = None
<1>1. ASSUME IInv, [Next]_vars, NEW s \in Scopes PROVE Fresh(s)
  <2>0. /\ connections \in Seq(Connection) /\ frame \in [Scopes -> Frame] /\ Root \in Scopes
    BY <1>1, ScopeFacts DEF IInv, TypeOK
  <2>1. ASSUME NEW r \in Scopes, StartTask(r) PROVE Fresh(s)
    <3>1. MayStart(r) /\ frame' = Taken(r)
      BY <2>1 DEF StartTask
    <3>2. /\ ~stopped /\ frame[r].nodeResults[frame'[r].current] = None
          /\ \A q \in Scopes \ {r} : frame'[q] = frame[q]
      BY <1>1, <3>1, StartFacts
    <3> QED
      BY <3>2
  <2>2. CASE EnterContainer
    <3>1. PICK k : k = NextTask(Root)
      OBVIOUS
    <3>2. MayStart(Root) /\ k \in Scopes /\ k # Root /\ frame' = [Taken(Root) EXCEPT ![k] = Entered(k)]
      BY <2>2, <3>1, ScopeFacts DEF EnterContainer
    <3>3. /\ ~stopped /\ frame[Root].nodeResults[Taken(Root)[Root].current] = None
          /\ \A q \in Scopes \ {Root} : Taken(Root)[q] = frame[q]
      BY <1>1, <2>0, <3>2, StartFacts
    <3>4. Taken(Root) \in [Scopes -> {Taken(Root)[q] : q \in Scopes}]
      BY <2>0 DEF Taken
    <3>5. frame'[Root] = Taken(Root)[Root] /\ frame'[k] = Entered(k)
          /\ \A q \in Scopes \ {Root, k} : frame'[q] = frame[q]
      BY <2>0, <3>2, <3>3, <3>4
    <3>6. Entered(k).current = None
      BY <2>0, <3>2, EnteredStep
    <3> QED
      BY <3>3, <3>5, <3>6
  <2>3. CASE NoneTaken
    <3>1. IInv'
      BY <1>1, NextIInv
    <3>2. frame'[s].at # "waiting" => frame'[s].current = None
      BY <3>1 DEF IInv, FrameInv, Clean
    <3> QED
      BY <2>3, <3>2 DEF NoneTaken
  <2>4. ASSUME NEW r \in Scopes, NEW result \in {"success", "error"}, TaskEnds(r, result) PROVE NoneTaken
    BY <1>1, <2>4, TaskEndsStep
  <2>5. ASSUME NEW k \in Containers, LeaveContainer(k) PROVE NoneTaken
    BY <1>1, <2>5, LeaveContainerStep
  <2>6. ASSUME Run \/ Stop \/ EmptyContainer \/ EndRun PROVE NoneTaken
    BY <1>1, <2>6, RunStep, StopStep, EmptyContainerStep, EndRunStep
  <2>7. ASSUME UNCHANGED vars PROVE NoneTaken
    BY <2>7 DEF vars, NoneTaken
  <2> HIDE DEF Fresh
  <2> QED
    BY <1>1, <2>1, <2>2, <2>3, <2>4, <2>5, <2>6, <2>7 DEF Next
<1>2. IInv /\ [Next]_vars => \A s \in Scopes : Fresh(s)
  BY <1>1
<1>3. [\A s \in Scopes : Fresh(s)]_vars <=>
        [\A s \in Scopes :
           LET n == frame'[s].current
           IN n # frame[s].current /\ n # None => ~stopped /\ frame[s].nodeResults[n] = None]_vars
  OBVIOUS
<1> HIDE DEF Fresh
<1>4. Spec => [][\A s \in Scopes : Fresh(s)]_vars
  BY <1>2, Invariance, PTL DEF Spec
<1> QED
  BY <1>3, <1>4, PTL DEF StartsOnceBeforeStop
================================================================================
