----------------------------- MODULE Induction ------------------------------
(***************************************************************************)
(* Induction over numbers, sequences and finite sets, stated with sets: to *)
(* show that all have a property, show it of the set of those that do.     *)
(* And facts about least elements, sequences, recursive functions and      *)
(* digits.                                                                 *)
(***************************************************************************)
EXTENDS FiniteSetsExt, FiniteSetTheorems, SequenceTheorems, WellFoundedInduction, TLAPS

LEMMA HasLeast ==
  ASSUME NEW T \in SUBSET Nat, T # {}
  PROVE  Min(T) \in T /\ \A y \in T : Min(T) <= y
<1> DEFINE R == {p \in Nat \X Nat : p[1] < p[2]}
<1>1. IsWellFoundedOn(R, Nat)
  BY NatLessThanWellFounded DEF OpToRel
<1> HIDE DEF R
<1>2. PICK x \in T : \A y \in T : ~(<<y, x>> \in R)
  BY <1>1, WFMin
<1>3. \A y \in T : ~(y < x)
  BY <1>2 DEF R
<1>4. \A y \in T : x <= y
  BY <1>3
<1> QED
  BY <1>4 DEF Min

LEMMA UpTo ==
  ASSUME NEW n \in Nat, NEW D, 0 \in D,
         \A k \in 0..n : k \in D /\ k < n => k + 1 \in D
  PROVE  0..n \subseteq D
<1> DEFINE Rest == (0..n) \ D
<1> SUFFICES ASSUME Rest # {} PROVE FALSE
  OBVIOUS
<1>1. Min(Rest) \in Rest /\ \A y \in Rest : Min(Rest) <= y
  BY HasLeast
<1>2. PICK k \in Rest : \A y \in Rest : k <= y
  BY <1>1
<1>3. k # 0 /\ k - 1 \in 0..n /\ k - 1 \notin Rest
  BY <1>2
<1> QED
  BY <1>2, <1>3

LEMMA AllSequences ==
  ASSUME NEW T, NEW D, <<>> \in D,
         \A q \in Seq(T), e \in T : q \in D => Append(q, e) \in D
  PROVE  Seq(T) \subseteq D
<1> SUFFICES ASSUME NEW s \in Seq(T) PROVE s \in D
  OBVIOUS
<1> DEFINE n == Len(s)
           prefix == [k \in 0..n |-> SubSeq(s, 1, k)]
           K == {k \in 0..n : prefix[k] \in D}
<1>1. n \in Nat /\ prefix[0] = <<>> /\ prefix[n] = s
  OBVIOUS
<1>2. ASSUME NEW k \in 0..n, k < n
      PROVE  /\ prefix[k] \in Seq(T) /\ s[k + 1] \in T
             /\ k + 1 \in 0..n /\ prefix[k + 1] = Append(prefix[k], s[k + 1])
  <2>1. k \in Nat /\ k + 1 \in 0..n /\ s[k + 1] \in T
    BY <1>2
  <2>2. SubSeq(s, 1, k) \in Seq(T)
    BY <1>2
  <2>3. SubSeq(s, 1, k + 1) = Append(SubSeq(s, 1, k), s[k + 1])
    BY <1>2
  <2> QED
    BY <2>1, <2>2, <2>3
<1> HIDE DEF n, prefix
<1>3. 0 \in K
  BY <1>1
<1>4. ASSUME NEW k \in 0..n, k \in K, k < n PROVE k + 1 \in K
  BY <1>2, <1>4
<1>5. 0..n \subseteq K
  <2> HIDE DEF K
  <2> QED
    BY <1>1, <1>3, <1>4, UpTo
<1> QED
  BY <1>1, <1>5

\* The least element of a set stays when a greater one is added.
LEMMA LeastKept ==
  ASSUME NEW n \in Nat, NEW A \in SUBSET (1..n), NEW B \in SUBSET (1..n + 1), B # {},
         \A i \in 1..n : i \in B <=> i \in A
  PROVE  /\ A # {} => Min(A) = Min(B) /\ Min(A) \in 1..n
         /\ A = {} => Min(B) = n + 1 /\ n + 1 \in B
<1>1. A \in SUBSET Nat /\ B \in SUBSET Nat
  OBVIOUS
<1> DEFINE b == Min(B)
           a == Min(A)
<1>2. b \in B /\ \A y \in B : b <= y
  BY ONLY <1>1, B # {}, HasLeast
<1>3. A # {} => a \in A /\ \A y \in A : a <= y
  BY ONLY <1>1, HasLeast
<1> HIDE DEF a, b
<1>4. A # {} => a = b /\ a \in 1..n
  <2> SUFFICES ASSUME A # {} PROVE a = b /\ a \in 1..n
    OBVIOUS
  <2>1. a \in 1..n /\ a \in B /\ \A y \in A : a <= y
    BY <1>3
  <2>2. b <= a /\ b \in 1..n + 1
    BY <1>2, <2>1
  <2>3. b \in A
    <3>1. b \in 1..n
      BY ONLY <2>1, <2>2, n \in Nat
    <3> QED
      BY <1>2, <3>1
  <2>4. a <= b
    BY <2>1, <2>3
  <2> QED
    BY ONLY <2>1, <2>2, <2>4, n \in Nat
<1>5. A = {} => b = n + 1 /\ n + 1 \in B
  BY <1>1, <1>2, <1>3
<1> QED
  BY <1>4, <1>5 DEF a, b

\* An element of a sequence that has got one more is replaced.
LEMMA AppendSet ==
  ASSUME NEW T, NEW s \in Seq(T), NEW e \in T, NEW y \in T
  PROVE  /\ \A i \in 1..Len(s) : [Append(s, e) EXCEPT ![i] = y] = Append([s EXCEPT ![i] = y], e)
         /\ [Append(s, e) EXCEPT ![Len(s) + 1] = y] = Append(s, y)
<1>1. /\ Append(s, e) \in Seq(T) /\ Append(s, y) \in Seq(T) /\ Len(s) \in Nat
      /\ Len(Append(s, e)) = Len(s) + 1 /\ Len(Append(s, y)) = Len(s) + 1
      /\ \A j \in 1..Len(s) : Append(s, e)[j] = s[j] /\ Append(s, y)[j] = s[j]
      /\ Append(s, e)[Len(s) + 1] = e /\ Append(s, y)[Len(s) + 1] = y
  BY AppendProperties
<1> DEFINE r == Append(s, e)
<1>2. ASSUME NEW i \in 1..Len(s) + 1
      PROVE  LET q == [r EXCEPT ![i] = y]
             IN  q \in Seq(T) /\ Len(q) = Len(s) + 1
                 /\ \A j \in 1..Len(s) + 1 : q[j] = IF j = i THEN y ELSE r[j]
  <2>1. r \in Seq(T) /\ Len(r) = Len(s) + 1
    BY <1>1
  <2> HIDE DEF r
  <2> QED
    BY <2>1, ExceptSeq
<1>3. ASSUME NEW i \in 1..Len(s)
      PROVE  [r EXCEPT ![i] = y] = Append([s EXCEPT ![i] = y], e)
  <2> DEFINE q == [s EXCEPT ![i] = y]
             p == [r EXCEPT ![i] = y]
  <2>1. /\ q \in Seq(T) /\ Len(q) = Len(s)
        /\ \A j \in 1..Len(s) : q[j] = IF j = i THEN y ELSE s[j]
    BY ExceptSeq
  <2>2. i \in 1..Len(s) + 1
    BY <1>1
  <2>3. /\ p \in Seq(T) /\ Len(p) = Len(s) + 1
        /\ \A j \in 1..Len(s) + 1 : p[j] = IF j = i THEN y ELSE r[j]
    BY <1>2, <2>2
  <2> HIDE DEF q, p
  <2>4. /\ Append(q, e) \in Seq(T) /\ Len(Append(q, e)) = Len(s) + 1
        /\ \A j \in 1..Len(s) : Append(q, e)[j] = q[j]
        /\ Append(q, e)[Len(s) + 1] = e
    BY <2>1, AppendProperties
  <2>5. \A j \in 1..Len(s) + 1 : Append(q, e)[j] = p[j]
    BY <1>1, <2>1, <2>3, <2>4 DEF r
  <2>6. Append(q, e) = p
    BY ONLY <2>3, <2>4, <2>5, SeqEqual
  <2> QED
    BY <2>6 DEF q, p
<1>4. [r EXCEPT ![Len(s) + 1] = y] = Append(s, y)
  <2> DEFINE p == [r EXCEPT ![Len(s) + 1] = y]
             t == Append(s, y)
  <2>1. Len(s) + 1 \in 1..Len(s) + 1
    BY <1>1
  <2>2. /\ p \in Seq(T) /\ Len(p) = Len(s) + 1
        /\ \A j \in 1..Len(s) + 1 : p[j] = IF j = Len(s) + 1 THEN y ELSE r[j]
    BY <1>2, <2>1
  <2>3. \A j \in 1..Len(s) + 1 : p[j] = t[j]
    <3> HIDE DEF p
    <3> QED
      BY <1>1, <2>2
  <2>4. t \in Seq(T) /\ Len(t) = Len(s) + 1
    BY <1>1
  <2> HIDE DEF p, t
  <2>5. p = t
    BY ONLY <2>2, <2>3, <2>4, SeqEqual
  <2> QED
    BY <2>5 DEF p, t
<1> QED
  BY <1>3, <1>4

\* Of the subsets of a finite set that are in Q, one has none of the others.
LEMMA HasMinimal ==
  ASSUME NEW S, IsFiniteSet(S), NEW Q, S \in Q
  PROVE  \E P \in SUBSET S : P \in Q /\ \A U \in SUBSET P : U # P => U \notin Q
<1> DEFINE sizes == {Cardinality(P) : P \in {P \in SUBSET S : P \in Q}}
           n == Min(sizes)
<1>1. \A P \in SUBSET S : IsFiniteSet(P) /\ Cardinality(P) \in Nat
  BY FS_Subset, FS_CardinalityType
<1>2. sizes \in SUBSET Nat /\ sizes # {}
  BY <1>1
<1>3. n \in sizes /\ \A y \in sizes : n <= y
  <2> HIDE DEF sizes
  <2> QED
    BY <1>2, HasLeast
<1> HIDE DEF n
<1>4. PICK P \in SUBSET S : P \in Q /\ n = Cardinality(P)
  BY <1>3
<1>5. ASSUME NEW U \in SUBSET P, U # P, U \in Q PROVE FALSE
  <2>1. Cardinality(U) \in sizes /\ IsFiniteSet(P)
    BY <1>1, <1>5
  <2>2. Cardinality(U) <= Cardinality(P) /\ Cardinality(U) # Cardinality(P)
    BY <1>5, <2>1, FS_Subset
  <2>3. n <= Cardinality(U)
    BY <1>3, <2>1
  <2> QED
    BY <1>1, <1>2, <1>3, <1>4, <2>1, <2>2, <2>3
<1> QED
  BY <1>4, <1>5

\* Induction over the subsets of a finite set.
LEMMA AllSubsets ==
  ASSUME NEW S, IsFiniteSet(S), NEW D,
         \A T \in SUBSET S : (\A U \in SUBSET T : U # T => U \in D) => T \in D
  PROVE  SUBSET S \subseteq D
<1> SUFFICES ASSUME NEW T \in SUBSET S, T \notin D PROVE FALSE
  OBVIOUS
<1> DEFINE Q == (SUBSET S) \ D
<1>1. IsFiniteSet(T) /\ T \in Q
  BY FS_Subset
<1>2. PICK P \in SUBSET T : P \in Q /\ \A U \in SUBSET P : U # P => U \notin Q
  <2> HIDE DEF Q
  <2> QED
    BY <1>1, HasMinimal
<1>3. \A U \in SUBSET P : U # P => U \in D
  BY <1>2
<1> QED
  BY <1>2, <1>3

-----------------------------------------------------------------------------
(***************************************************************************)
(* The greatest and the least of a finite set.                             *)
(***************************************************************************)
LEMMA Extremes ==
  ASSUME NEW S, IsFiniteSet(S), S # {}, S \subseteq Int
  PROVE  /\ \E x \in S : \A y \in S : x >= y
         /\ \E x \in S : \A y \in S : x <= y
<1> DEFINE Most(T) == \E x \in T : \A y \in T : x >= y
           Least(T) == \E x \in T : \A y \in T : x <= y
           D == {T \in SUBSET S : T = {} \/ (Most(T) /\ Least(T))}
<1>1. ASSUME NEW T \in SUBSET S, \A U \in SUBSET T : U # T => U \in D PROVE T \in D
  <2> SUFFICES ASSUME T # {} PROVE Most(T) /\ Least(T)
    OBVIOUS
  <2>1. PICK e \in T : TRUE
    OBVIOUS
  <2>2. T \ {e} \in D /\ e \in Int
    BY <1>1, <2>1
  <2>3. CASE T \ {e} = {}
    BY <2>1, <2>2, <2>3
  <2>4. CASE Most(T \ {e}) /\ Least(T \ {e})
    <3>1. PICK x \in T \ {e} : \A y \in T \ {e} : x >= y
      BY <2>4
    <3>2. PICK z \in T \ {e} : \A y \in T \ {e} : z <= y
      BY <2>4
    <3>3. x \in Int /\ z \in Int
      OBVIOUS
    <3>4. Most(T)
      <4>1. CASE x >= e
        BY <3>1, <4>1
      <4>2. CASE e >= x
        <5>1. \A y \in T : e >= y
          BY <2>2, <3>1, <3>3, <4>2
        <5> QED
          BY <2>1, <5>1
      <4> QED
        BY <2>2, <3>3, <4>1, <4>2
    <3>5. Least(T)
      <4>1. CASE z <= e
        BY <3>2, <4>1
      <4>2. CASE e <= z
        <5>1. \A y \in T : e <= y
          BY <2>2, <3>2, <3>3, <4>2
        <5> QED
          BY <2>1, <5>1
      <4> QED
        BY <2>2, <3>3, <4>1, <4>2
    <3> QED
      BY <3>4, <3>5
  <2> QED
    BY <2>2, <2>3, <2>4
<1> HIDE DEF D
<1>2. S \in D
  BY <1>1, AllSubsets
<1> QED
  BY <1>2 DEF D

LEMMA MaxMin ==
  ASSUME NEW S, IsFiniteSet(S), S # {}, S \subseteq Int
  PROVE  /\ Max(S) \in S /\ \A y \in S : Max(S) >= y
         /\ Min(S) \in S /\ \A y \in S : Min(S) <= y
<1>1. /\ \E x \in S : \A y \in S : x >= y
      /\ \E x \in S : \A y \in S : x <= y
  BY Extremes
<1> QED
  BY <1>1 DEF Max, Min

LEMMA MaxUpTo ==
  ASSUME NEW n \in Nat
  PROVE  /\ \A s \in SUBSET (1..n) : s # {} => Max(s) \in s /\ \A y \in s : Max(s) >= y
         /\ n > 0 => Max(1..n) = n
<1>1. ASSUME NEW s \in SUBSET (1..n), s # {} PROVE Max(s) \in s /\ \A y \in s : Max(s) >= y
  <2>1. IsFiniteSet(1..n)
    BY FS_Interval
  <2>2. IsFiniteSet(s)
    BY <2>1, FS_Subset, Zenon
  <2>3. s \subseteq Int
    OBVIOUS
  <2> QED
    BY <1>1, <2>2, <2>3, MaxMin
<1>2. ASSUME n > 0 PROVE Max(1..n) = n
  <2>1. n \in 1..n /\ 1..n \in SUBSET (1..n) /\ 1..n # {}
    BY <1>2
  <2>2. Max(1..n) \in 1..n /\ \A y \in 1..n : Max(1..n) >= y
    BY <1>1, <2>1
  <2> DEFINE x == Max(1..n)
  <2>3. x \in 1..n /\ x >= n
    BY <2>1, <2>2
  <2> HIDE DEF x
  <2>4. x = n
    BY <2>3
  <2> QED
    BY <2>4 DEF x
<1> QED
  BY <1>1, <1>2

LEMMA UpToPrefix ==
  ASSUME NEW n \in Nat, NEW k \in 1..n
  PROVE  /\ 1..k \in SUBSET (1..n) /\ 1..k # {} /\ Max(1..k) = k /\ (1..k) \ {Max(1..k)} = 1..k - 1
<1>1. 1..k \in SUBSET (1..n) /\ 1..k # {} /\ (1..k) \ {k} = 1..k - 1
  OBVIOUS
<1>2. k \in Nat /\ k > 0
  OBVIOUS
<1>3. Max(1..k) = k
  BY <1>2, MaxUpTo
<1> QED
  BY <1>1, <1>3

-----------------------------------------------------------------------------
(***************************************************************************)
(* Recursive functions exist: on the sets of indices up to n, when each    *)
(* takes the greatest index last, as FoldLeft and FoldFunction do; and on  *)
(* the numbers up to N, when each follows from the one before.             *)
(***************************************************************************)
Steps(n, X) == [(1..n) \X X -> X]

Folds(f, n, X, base, F) ==
  /\ f \in [SUBSET (1..n) -> X]
  /\ f[{}] = base
  /\ \A s \in SUBSET (1..n) : s # {} => f[s] = F[<<Max(s), f[s \ {Max(s)}]>>]

LEMMA FoldExists ==
  ASSUME NEW n \in Nat, NEW X, NEW base \in X, NEW F \in Steps(n, X)
  PROVE  \E f : Folds(f, n, X, base, F)
<1> DEFINE Good(k, f) == /\ f[{}] = base
                         /\ \A s \in SUBSET (1..k) : s # {} => f[s] = F[<<Max(s), f[s \ {Max(s)}]>>]
           D == {k \in 0..n : \E f \in [SUBSET (1..k) -> X] : Good(k, f)}
<1>1. 0 \in D
  <2> DEFINE f == [s \in SUBSET (1..0) |-> base]
  <2>1. \A s \in SUBSET (1..0) : s = {}
    <3>1. 1..0 = {}
      OBVIOUS
    <3> QED
      BY <3>1, Zenon
  <2>2. f \in [SUBSET (1..0) -> X]
    OBVIOUS
  <2>3. f[{}] = base /\ 0 \in 0..n /\ \A s \in SUBSET (1..0) : s = {}
    <3>1. {} \in SUBSET (1..0)
      OBVIOUS
    <3> QED
      BY <2>1, <3>1
  <2> HIDE DEF f
  <2>4. Good(0, f)
    BY <2>3
  <2> HIDE DEF Good
  <2> QED
    BY <2>2, <2>3, <2>4
<1>2. ASSUME NEW k \in 0..n, k \in D, k < n PROVE k + 1 \in D
  <2>1. PICK f \in [SUBSET (1..k) -> X] : Good(k, f)
    BY <1>2
  <2>2. k \in Nat /\ k + 1 \in 1..n /\ k + 1 \in 0..n /\ F \in [(1..n) \X X -> X]
    BY <1>2 DEF Steps
  <2>3. \A s \in SUBSET (1..k + 1) : s \ {k + 1} \in SUBSET (1..k) /\ (k + 1 \notin s => s \in SUBSET (1..k))
    BY <2>2
  <2> DEFINE g == [s \in SUBSET (1..k + 1) |->
                     IF k + 1 \in s THEN F[<<k + 1, f[s \ {k + 1}]>>] ELSE f[s]]
  <2>4. g \in [SUBSET (1..k + 1) -> X]
    BY <2>2, <2>3
  <2>5. \A s \in SUBSET (1..k) : s \in SUBSET (1..k + 1) /\ k + 1 \notin s
    BY <2>2
  <2>6. \A s \in SUBSET (1..k) : g[s] = f[s]
    BY <2>5
  <2>7. \A s \in SUBSET (1..k + 1) : k + 1 \in s => g[s] = F[<<k + 1, f[s \ {k + 1}]>>]
    OBVIOUS
  <2> HIDE DEF g
  <2>8. g[{}] = base
    <3>1. {} \in SUBSET (1..k)
      OBVIOUS
    <3> QED
      BY <2>1, <2>6, <3>1
  <2>9. ASSUME NEW s \in SUBSET (1..k + 1), s # {} PROVE g[s] = F[<<Max(s), g[s \ {Max(s)}]>>]
    <3>1. Max(s) \in s /\ \A y \in s : Max(s) >= y
      BY <2>2, <2>9, MaxUpTo
    <3>2. CASE k + 1 \in s
      <4>1. Max(s) = k + 1
        <5> DEFINE x == Max(s)
        <5>1. x \in 1..k + 1 /\ x >= k + 1
          BY <3>1, <3>2
        <5> HIDE DEF x
        <5>2. x = k + 1
          BY <2>2, <5>1
        <5> QED
          BY <5>2 DEF x
      <4> QED
        BY <2>3, <2>6, <2>7, <3>2, <4>1
    <3>3. CASE k + 1 \notin s
      <4>1. s \in SUBSET (1..k) /\ s \ {Max(s)} \in SUBSET (1..k)
        BY <2>3, <3>3
      <4> QED
        BY <2>1, <2>6, <2>9, <4>1
    <3> QED
      BY <3>2, <3>3
  <2>10. Good(k + 1, g)
    BY <2>8, <2>9
  <2> HIDE DEF Good
  <2> QED
    BY <2>2, <2>4, <2>10
<1> HIDE DEF D
<1>3. n \in D
  BY <1>1, <1>2, UpTo
<1> QED
  BY <1>3 DEF D, Folds

Iterated(f, N, X, base, F) ==
  f \in [0..N -> X] /\ f[0] = base /\ \A m \in 1..N : f[m] = F[<<f[m - 1], m>>]

LEMMA Iterates ==
  ASSUME NEW N \in Nat, NEW X, NEW base \in X, NEW F, F \in [X \X (1..N) -> X]
  PROVE  \E f : Iterated(f, N, X, base, F)
<1> DEFINE Good(k, f) == f[0] = base /\ \A m \in 1..k : f[m] = F[<<f[m - 1], m>>]
           D == {k \in 0..N : \E f \in [0..k -> X] : Good(k, f)}
<1>1. 0 \in D
  <2> DEFINE f == [m \in 0..0 |-> base]
  <2>1. f \in [0..0 -> X] /\ Good(0, f)
    OBVIOUS
  <2> HIDE DEF Good, f
  <2> QED
    BY <2>1
<1>2. ASSUME NEW k \in 0..N, k \in D, k < N PROVE k + 1 \in D
  <2>1. PICK f \in [0..k -> X] : Good(k, f)
    BY <1>2
  <2> DEFINE g == [m \in 0..k + 1 |-> IF m = k + 1 THEN F[<<f[k], k + 1>>] ELSE f[m]]
  <2>2. k \in 0..k /\ k + 1 \in 1..N /\ f[k] \in X
    BY <1>2
  <2>3. F[<<f[k], k + 1>>] \in X
    BY <2>2
  <2>4. g \in [0..k + 1 -> X]
    BY <2>1, <2>3
  <2>5. g[0] = base
    BY <2>1, <2>2
  <2>6. ASSUME NEW m \in 1..k + 1 PROVE g[m] = F[<<g[m - 1], m>>]
    <3>1. m - 1 \in 0..k /\ m - 1 # k + 1 /\ g[m - 1] = f[m - 1]
      BY <2>2
    <3>2. CASE m = k + 1
      BY <3>1, <3>2
    <3>3. CASE m # k + 1
      <4>1. m \in 1..k
        BY <2>2, <3>3
      <4>2. g[m] = f[m] /\ f[m] = F[<<f[m - 1], m>>]
        BY <2>1, <4>1
      <4> QED
        BY <3>1, <4>2
    <3> QED
      BY <3>2, <3>3
  <2> HIDE DEF g
  <2>7. Good(k + 1, g)
    BY <2>5, <2>6
  <2>8. k + 1 \in 0..N
    BY <2>2
  <2> HIDE DEF Good
  <2> QED
    BY <2>4, <2>7, <2>8
<1> HIDE DEF D
<1>3. N \in D
  BY <1>1, <1>2, UpTo
<1> QED
  BY <1>3 DEF D, Iterated

-----------------------------------------------------------------------------
(***************************************************************************)
(* The digits of a number below n * n * n to the base n: a number is less  *)
(* when the first digit that differs is.                                   *)
(***************************************************************************)
LEMMA Digits ==
  ASSUME NEW n \in Nat \ {0}, NEW m \in 0..n * n * n - 1
  PROVE  LET k == m \div (n * n)
             i == (m \div n) % n
             j == m % n
         IN  k \in 0..n - 1 /\ i \in 0..n - 1 /\ j \in 0..n - 1 /\ m = (k * n + i) * n + j
<1> DEFINE q == m \div n
           k == q \div n
           i == q % n
           j == m % n
<1>1. q \in Int /\ j \in 0..n - 1 /\ m = n * q + j
  OBVIOUS
<1> HIDE DEF q, j
<1>2. k \in Int /\ i \in 0..n - 1 /\ q = n * k + i
  BY <1>1
<1> HIDE DEF k, i
<1>3. m = (k * n + i) * n + j
  BY <1>1, <1>2
<1>4. i * n + j \in 0..n * n - 1
  <2>1. i * n + n <= n * n /\ 0 <= i * n
    <3>1. i + 1 <= n /\ i >= 0 /\ i \in Int
      BY <1>2
    <3>2. (i + 1) * n <= n * n /\ 0 <= i * n
      BY <3>1
    <3> QED
      BY <3>1, <3>2
  <2> QED
    BY <1>1, <1>2, <2>1
<1>5. m = k * (n * n) + (i * n + j) /\ n * n \in Nat \ {0}
  <2>1. (k * n + i) * n = k * (n * n) + i * n
    BY <1>2
  <2>2. n * n \in Nat \ {0}
    OBVIOUS
  <2> QED
    BY <1>1, <1>2, <1>3, <2>1, <2>2
<1>6. m \div (n * n) = k
  <2> DEFINE d == n * n
             r == i * n + j
  <2> HIDE DEF d, r
  <2> QED
    BY <1>2, <1>4, <1>5 DEF d, r
<1>7. k \in 0..n - 1
  <2>1. 0 <= m /\ m < n * (n * n) /\ m \in Int
    OBVIOUS
  <2> DEFINE d == n * n
             r == i * n + j
  <2>2. d \in Nat \ {0} /\ r \in 0..d - 1 /\ m = k * d + r /\ m < n * d /\ 0 <= m
    BY <1>4, <1>5, <2>1
  <2> HIDE DEF d, r
  <2>3. k >= 0
    <3> SUFFICES ASSUME k + 1 <= 0 PROVE FALSE
      BY <1>2
    <3>1. k * d + d <= 0
      BY <1>2, <2>2
    <3> QED
      BY <1>2, <2>2, <3>1
  <2>4. k < n
    <3> SUFFICES ASSUME n <= k PROVE FALSE
      BY <1>2
    <3>1. n * d <= k * d
      BY <1>2, <2>2
    <3>2. k * d \in Int /\ n * d \in Int
      BY <1>2, <2>2
    <3> QED
      BY <2>1, <2>2, <3>1, <3>2
  <2> QED
    BY <1>2, <2>3, <2>4
<1> QED
  BY <1>1, <1>2, <1>3, <1>6, <1>7 DEF q, j, i

LEMMA LessDigit ==
  ASSUME NEW n \in Nat \ {0}, NEW x \in Int, NEW y \in Int, x < y, NEW b \in 0..n - 1, NEW j \in 0..n - 1
  PROVE  x * n + b < y * n + j
<1>1. x * n + n <= y * n
  <2>1. x + 1 <= y
    OBVIOUS
  <2>2. (x + 1) * n <= y * n
    BY <2>1
  <2> QED
    BY <2>2
<1>2. x * n \in Int /\ y * n \in Int
  OBVIOUS
<1> QED
  BY <1>1, <1>2
=============================================================================
