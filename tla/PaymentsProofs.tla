--------------------------- MODULE PaymentsProofs ---------------------------
(***************************************************************************)
(* What the proofs about money need to know of sums over 1..n and of the   *)
(* division of a price, and the rows of the ledger: their types, the       *)
(* status of a refund and of its payment, and the coupons; one lemma per   *)
(* transaction.                                                            *)
(*                                                                         *)
(* The library states induction over Nat for a predicate passed as an      *)
(* operator; here it is restated for a set (SetInduction), which the       *)
(* installed provers can instantiate.                                      *)
(***************************************************************************)
EXTENDS Payments, Functions, WellFoundedInduction, FiniteSetTheorems, TLAPS

-----------------------------------------------------------------------------
(* Sums *)

\* A set that contains 0 and is closed under successor contains every
\* natural number: the induction principle used for every fact below.
LEMMA SetInduction ==
  ASSUME NEW S, 0 \in S, \A n \in Nat : n \in S => n + 1 \in S
  PROVE  \A n \in Nat : n \in S
<1> DEFINE B == Nat \ S
           R == OpToRel(<, Nat)
<1>1. SUFFICES ASSUME B # {} PROVE FALSE
  OBVIOUS
<1>2. PICK m \in B : \A y \in B : ~(<<y, m>> \in R)
  <2>1. IsWellFoundedOn(R, Nat)
    BY NatLessThanWellFounded
  <2>2. B \subseteq Nat
    OBVIOUS
  <2> HIDE DEF B, R
  <2>3. QED
    BY <1>1, <2>1, <2>2, WFMin
<1>3. m \in Nat /\ m # 0
  OBVIOUS
<1>4. m - 1 \in Nat /\ m - 1 \in B
  BY <1>3
<1>5. <<m - 1, m>> \in R
  BY <1>3, <1>4 DEF OpToRel
<1>6. QED
  BY <1>2, <1>4, <1>5

\* The recursive definition of PartialSums defines a function: for every f
\* there is an s that satisfies the recursion on the whole of Nat.
LEMMA PartialSumsExist ==
  ASSUME NEW f
  PROVE  \E s : s = [i \in Nat |-> IF i = 0 THEN 0 ELSE s[i - 1] + f[i]]
<1> DEFINE Fits(h, k) ==
             h = [i \in 0..k |-> IF i = 0 THEN 0 ELSE h[i - 1] + f[i]]
           K == {k \in Nat : \E h : Fits(h, k)}
<1>1. \A k \in Nat : \E h : Fits(h, k)
  <2>1. 0 \in K
    <3>1. Fits([i \in 0..0 |-> 0], 0)
      OBVIOUS
    <3>2. QED
      BY <3>1
  <2>2. \A n \in Nat : n \in K => n + 1 \in K
    <3>1. SUFFICES ASSUME NEW n \in Nat, NEW h, Fits(h, n)
                   PROVE  \E g : Fits(g, n + 1)
      OBVIOUS
    <3> DEFINE g == [i \in 0..(n + 1) |->
                       IF i = n + 1 THEN h[n] + f[n + 1] ELSE h[i]]
    <3>2. \A i \in 0..n : h[i] = IF i = 0 THEN 0 ELSE h[i - 1] + f[i]
      BY <3>1
    <3>3. \A i \in 0..(n + 1) :
            g[i] = IF i = 0 THEN 0 ELSE g[i - 1] + f[i]
      <4>1. ASSUME NEW i \in 0..n
            PROVE  g[i] = IF i = 0 THEN 0 ELSE g[i - 1] + f[i]
        <5>1. i \in 0..(n + 1) /\ i # n + 1 /\ g[i] = h[i]
          OBVIOUS
        <5>2. i # 0 => i - 1 \in 0..(n + 1) /\ i - 1 # n + 1 /\ g[i - 1] = h[i - 1]
          OBVIOUS
        <5> HIDE DEF g
        <5>3. QED
          BY <3>2, <5>1, <5>2
      <4>2. g[n + 1] = g[n] + f[n + 1] /\ n + 1 # 0 /\ (n + 1) - 1 = n
        OBVIOUS
      <4> HIDE DEF g
      <4>3. QED
        BY <4>1, <4>2
    <3>4. Fits(g, n + 1)
      BY <3>3
    <3>5. QED
      BY <3>4
  <2> HIDE DEF K
  <2>3. \A k \in Nat : k \in K
    BY <2>1, <2>2, SetInduction
  <2>4. QED
    BY <2>3 DEF K
<1>2. ASSUME NEW k \in Nat, NEW l \in Nat, k <= l,
             NEW h, NEW g, Fits(h, k), Fits(g, l)
      PROVE  \A i \in 0..k : h[i] = g[i]
  <2> DEFINE A == {i \in Nat : i <= k => h[i] = g[i]}
  <2>1. \A i \in 0..k : /\ h[i] = IF i = 0 THEN 0 ELSE h[i - 1] + f[i]
                        /\ g[i] = IF i = 0 THEN 0 ELSE g[i - 1] + f[i]
    BY <1>2
  <2>2. 0 \in A
    BY <2>1
  <2>3. \A n \in Nat : n \in A => n + 1 \in A
    <3>1. SUFFICES ASSUME NEW n \in Nat, n \in A, n + 1 <= k
                   PROVE  h[n + 1] = g[n + 1]
      OBVIOUS
    <3>2. n + 1 \in 0..k /\ n + 1 # 0 /\ (n + 1) - 1 = n /\ h[n] = g[n]
      BY <3>1
    <3>3. QED
      BY <2>1, <3>2
  <2> HIDE DEF A
  <2>4. \A n \in Nat : n \in A
    BY <2>2, <2>3, SetInduction
  <2>5. QED
    BY <2>4 DEF A
<1> DEFINE H(k) == CHOOSE h : Fits(h, k)
           s == [i \in Nat |-> H(i)[i]]
<1>3. \A k \in Nat : Fits(H(k), k)
  BY <1>1
<1> HIDE DEF Fits, H
<1>4. ASSUME NEW i \in Nat
      PROVE  s[i] = IF i = 0 THEN 0 ELSE s[i - 1] + f[i]
  <2>1. H(i)[i] = IF i = 0 THEN 0 ELSE H(i)[i - 1] + f[i]
    BY <1>3 DEF Fits
  <2>2. i # 0 => H(i)[i - 1] = H(i - 1)[i - 1]
    <3>1. SUFFICES ASSUME i # 0 PROVE H(i)[i - 1] = H(i - 1)[i - 1]
      OBVIOUS
    <3>2. i - 1 \in Nat /\ i - 1 <= i /\ i - 1 \in 0..(i - 1)
      BY <3>1
    <3>3. QED
      BY <1>2, <1>3, <3>2
  <2>3. s[i] = H(i)[i] /\ (i # 0 => s[i - 1] = H(i - 1)[i - 1])
    OBVIOUS
  <2> HIDE DEF s
  <2>4. QED
    BY <2>1, <2>2, <2>3
<1>5. QED
  BY <1>4

\* The two equations of the recursion, for every f.
LEMMA SumToDef ==
  ASSUME NEW f
  PROVE  /\ SumTo(f, 0) = 0
         /\ \A n \in Nat : SumTo(f, n + 1) = SumTo(f, n) + f[n + 1]
<1> DEFINE s == PartialSums(f)
<1>1. s = [i \in Nat |-> IF i = 0 THEN 0 ELSE s[i - 1] + f[i]]
  BY PartialSumsExist DEF PartialSums
<1> HIDE DEF s
<1>2. s[0] = 0
  BY <1>1
<1>3. ASSUME NEW n \in Nat PROVE s[n + 1] = s[n] + f[n + 1]
  <2>1. n + 1 \in Nat /\ n + 1 # 0 /\ (n + 1) - 1 = n
    OBVIOUS
  <2>2. QED
    BY <1>1, <2>1
<1>4. QED
  BY <1>2, <1>3 DEF SumTo, s

\* A sum of integers is an integer.
LEMMA SumToType ==
  ASSUME NEW N \in Nat, NEW f, \A i \in 1..N : f[i] \in Int
  PROVE  \A n \in 0..N : SumTo(f, n) \in Int
<1> DEFINE A == {n \in Nat : n <= N => SumTo(f, n) \in Int}
<1>1. 0 \in A
  BY SumToDef
<1>2. \A n \in Nat : n \in A => n + 1 \in A
  <2>1. SUFFICES ASSUME NEW n \in Nat, n \in A, n + 1 <= N
                 PROVE  SumTo(f, n + 1) \in Int
    OBVIOUS
  <2>2. SumTo(f, n) \in Int /\ f[n + 1] \in Int
    BY <2>1
  <2>3. QED
    BY <2>2, SumToDef
<1> HIDE DEF A
<1>3. \A n \in Nat : n \in A
  BY <1>1, <1>2, SetInduction
<1>4. QED
  BY <1>3 DEF A

\* A sum of zeros is zero.
LEMMA SumToZero ==
  ASSUME NEW N \in Nat, NEW f, \A i \in 1..N : f[i] = 0
  PROVE  SumTo(f, N) = 0
<1> DEFINE A == {n \in Nat : n <= N => SumTo(f, n) = 0}
<1>1. 0 \in A
  BY SumToDef
<1>2. \A n \in Nat : n \in A => n + 1 \in A
  <2>1. SUFFICES ASSUME NEW n \in Nat, n \in A, n + 1 <= N
                 PROVE  SumTo(f, n + 1) = 0
    OBVIOUS
  <2>2. SumTo(f, n) = 0 /\ f[n + 1] = 0
    BY <2>1
  <2>3. QED
    BY <2>2, SumToDef
<1> HIDE DEF A
<1>3. \A n \in Nat : n \in A
  BY <1>1, <1>2, SetInduction
<1>4. QED
  BY <1>3 DEF A

\* A sum of amounts that are not negative is not negative.
LEMMA SumToNonNegative ==
  ASSUME NEW N \in Nat, NEW f, \A i \in 1..N : f[i] \in Int /\ f[i] >= 0
  PROVE  SumTo(f, N) \in Int /\ SumTo(f, N) >= 0
<1> DEFINE A == {n \in Nat : n <= N => SumTo(f, n) \in Int /\ SumTo(f, n) >= 0}
<1>1. 0 \in A
  BY SumToDef
<1>2. \A n \in Nat : n \in A => n + 1 \in A
  <2>1. SUFFICES ASSUME NEW n \in Nat, n \in A, n + 1 <= N
                 PROVE  SumTo(f, n + 1) \in Int /\ SumTo(f, n + 1) >= 0
    OBVIOUS
  <2>2. /\ SumTo(f, n) \in Int /\ SumTo(f, n) >= 0
        /\ f[n + 1] \in Int /\ f[n + 1] >= 0
    BY <2>1
  <2>3. QED
    BY <2>2, SumToDef
<1> HIDE DEF A
<1>3. \A n \in Nat : n \in A
  BY <1>1, <1>2, SetInduction
<1>4. QED
  BY <1>3 DEF A

\* Changing the term of one index changes the sum by the difference of that
\* term: the step every action of the ledger takes.
LEMMA SumToUpdate ==
  ASSUME NEW N \in Nat, NEW f, NEW g, NEW p \in 1..N,
         \A i \in 1..N : f[i] \in Int /\ g[i] \in Int,
         \A i \in 1..N : i # p => g[i] = f[i]
  PROVE  SumTo(g, N) = SumTo(f, N) + (g[p] - f[p])
<1> DEFINE A == {n \in Nat : n <= N =>
                   SumTo(g, n) = SumTo(f, n) + (IF p <= n THEN g[p] - f[p] ELSE 0)}
<1>1. 0 \in A
  BY SumToDef
<1>2. \A n \in Nat : n \in A => n + 1 \in A
  <2>1. SUFFICES ASSUME NEW n \in Nat, n \in A, n + 1 <= N
                 PROVE  SumTo(g, n + 1) =
                          SumTo(f, n + 1) + (IF p <= n + 1 THEN g[p] - f[p] ELSE 0)
    OBVIOUS
  <2>2. SumTo(g, n) = SumTo(f, n) + (IF p <= n THEN g[p] - f[p] ELSE 0)
    BY <2>1
  <2>3. /\ SumTo(f, n + 1) = SumTo(f, n) + f[n + 1]
        /\ SumTo(g, n + 1) = SumTo(g, n) + g[n + 1]
    BY SumToDef
  <2>4. SumTo(f, n) \in Int /\ SumTo(g, n) \in Int
    BY <2>1, SumToType
  <2>5. n + 1 \in 1..N /\ (n + 1 # p => g[n + 1] = f[n + 1])
    BY <2>1
  <2>6. QED
    BY <2>2, <2>3, <2>4, <2>5
<1> HIDE DEF A
<1>3. \A n \in Nat : n \in A
  BY <1>1, <1>2, SetInduction
<1>4. N \in Nat /\ N <= N /\ p <= N
  OBVIOUS
<1>5. QED
  BY <1>3, <1>4 DEF A

\* Two functions that agree on 1..N have the same sum.
LEMMA SumToSame ==
  ASSUME NEW N \in Nat, NEW f, NEW g, \A i \in 1..N : g[i] = f[i]
  PROVE  SumTo(g, N) = SumTo(f, N)
<1> DEFINE A == {n \in Nat : n <= N => SumTo(g, n) = SumTo(f, n)}
<1>1. 0 \in A
  BY SumToDef
<1>2. \A n \in Nat : n \in A => n + 1 \in A
  <2>1. SUFFICES ASSUME NEW n \in Nat, n \in A, n + 1 <= N
                 PROVE  SumTo(g, n + 1) = SumTo(f, n + 1)
    OBVIOUS
  <2>2. SumTo(g, n) = SumTo(f, n) /\ g[n + 1] = f[n + 1]
    BY <2>1
  <2>3. QED
    BY <2>2, SumToDef
<1> HIDE DEF A
<1>3. \A n \in Nat : n \in A
  BY <1>1, <1>2, SetInduction
<1>4. QED
  BY <1>3 DEF A

\* A sum grows with its terms.
LEMMA SumToMonotone ==
  ASSUME NEW N \in Nat, NEW f, NEW g,
         \A i \in 1..N : f[i] \in Int /\ g[i] \in Int /\ f[i] <= g[i]
  PROVE  SumTo(f, N) <= SumTo(g, N)
<1> DEFINE A == {n \in Nat : n <= N => SumTo(f, n) <= SumTo(g, n)}
<1>1. 0 \in A
  BY SumToDef
<1>2. \A n \in Nat : n \in A => n + 1 \in A
  <2>1. SUFFICES ASSUME NEW n \in Nat, n \in A, n + 1 <= N
                 PROVE  SumTo(f, n + 1) <= SumTo(g, n + 1)
    OBVIOUS
  <2>2. /\ SumTo(f, n) <= SumTo(g, n)
        /\ f[n + 1] \in Int /\ g[n + 1] \in Int /\ f[n + 1] <= g[n + 1]
    BY <2>1
  <2>3. SumTo(f, n) \in Int /\ SumTo(g, n) \in Int
    BY <2>1, SumToType
  <2>4. /\ SumTo(f, n + 1) = SumTo(f, n) + f[n + 1]
        /\ SumTo(g, n + 1) = SumTo(g, n) + g[n + 1]
    BY SumToDef
  <2>5. QED
    BY <2>2, <2>3, <2>4
<1> HIDE DEF A
<1>3. \A n \in Nat : n \in A
  BY <1>1, <1>2, SetInduction
<1>4. QED
  BY <1>3 DEF A

-----------------------------------------------------------------------------
(* Sums over finite sets                                                   *)

Pick(s) == CHOOSE x \in s : TRUE

\* h[s] is the sum of f over s, for the parts s of D: the recursion that
\* SumFunction folds with.
IsFold(h, D, f) ==
  h = [s \in SUBSET D |-> IF s = {} THEN 0 ELSE f[Pick(s)] + h[s \ {Pick(s)}]]

LEMMA FoldIs ==
  ASSUME NEW f
  PROVE  SumFunction(f) = (CHOOSE h : IsFold(h, DOMAIN f, f))[DOMAIN f]
  BY DEF SumFunction, SumFunctionOnSet, FoldFunctionOnSet, MapThenFoldSet, IsFold, Pick

\* The recursion defines a function, when D is finite.
LEMMA FoldExists ==
  ASSUME NEW D, IsFiniteSet(D), NEW f
  PROVE  \E h : IsFold(h, D, f)
<1> DEFINE Small(n) == {s \in SUBSET D : Cardinality(s) <= n}
           Fits(h, n) == h = [s \in Small(n) |->
                                IF s = {} THEN 0 ELSE f[Pick(s)] + h[s \ {Pick(s)}]]
           K == {n \in Nat : \E h : Fits(h, n)}
<1>1. \A s \in SUBSET D : IsFiniteSet(s) /\ Cardinality(s) \in Nat /\ Cardinality(s) <= Cardinality(D)
  BY FS_Subset, FS_CardinalityType
<1>2. \A s \in SUBSET D : s # {} => /\ Pick(s) \in s /\ s \ {Pick(s)} \in SUBSET D
                                    /\ Cardinality(s \ {Pick(s)}) = Cardinality(s) - 1
  <2>1. SUFFICES ASSUME NEW s \in SUBSET D, s # {}
                 PROVE  /\ Pick(s) \in s /\ s \ {Pick(s)} \in SUBSET D
                        /\ Cardinality(s \ {Pick(s)}) = Cardinality(s) - 1
    OBVIOUS
  <2>2. Pick(s) \in s
    BY <2>1 DEF Pick
  <2>3. QED
    BY <1>1, <2>2, FS_RemoveElement
<1>3. 0 \in K
  <2> DEFINE h == [s \in Small(0) |-> 0]
  <2>1. \A s \in Small(0) : s = {}
    BY <1>1, FS_EmptySet
  <2>2. Fits(h, 0)
    BY <2>1
  <2>3. QED
    BY <2>2
<1>4. \A n \in Nat : n \in K => n + 1 \in K
  <2>1. SUFFICES ASSUME NEW n \in Nat, NEW h, Fits(h, n)
                 PROVE  \E g : Fits(g, n + 1)
    <3> HIDE DEF Fits
    <3>1. QED
      OBVIOUS
  <2> DEFINE g == [s \in Small(n + 1) |-> IF s = {} THEN 0 ELSE f[Pick(s)] + h[s \ {Pick(s)}]]
  <2>2. \A s \in Small(n) : s \in Small(n + 1)
    BY <1>1
  <2>3. \A s \in Small(n) : g[s] = h[s]
    BY <2>1, <2>2
  <2>4. \A s \in Small(n + 1) : s # {} => s \ {Pick(s)} \in Small(n)
    BY <1>1, <1>2
  <2>5. \A s \in Small(n + 1) : s # {} => g[s \ {Pick(s)}] = h[s \ {Pick(s)}]
    BY <2>3, <2>4
  <2>6. Fits(g, n + 1)
    <3> HIDE DEF Small
    <3>1. QED
      BY <2>5
  <2>7. QED
    BY <2>6
<1> HIDE DEF K
<1>5. \A n \in Nat : n \in K
  BY <1>3, <1>4, SetInduction
<1>6. PICK h : Fits(h, Cardinality(D))
  <2>1. Cardinality(D) \in Nat
    BY FS_CardinalityType
  <2>2. QED
    BY <1>5, <2>1 DEF K
<1>7. Small(Cardinality(D)) = SUBSET D
  BY <1>1
<1>8. QED
  BY <1>6, <1>7 DEF IsFold

\* A finite set without one of its elements
LEMMA OneLess ==
  ASSUME NEW S, IsFiniteSet(S)
  PROVE  /\ Cardinality(S) \in Nat /\ (Cardinality(S) = 0 <=> S = {})
         /\ \A x \in S : IsFiniteSet(S \ {x}) /\ Cardinality(S \ {x}) = Cardinality(S) - 1
  BY FS_CardinalityType, FS_EmptySet, FS_RemoveElement

\* What a fold says of one part of D
LEMMA FoldStep ==
  ASSUME NEW D, NEW f, NEW h, IsFold(h, D, f)
  PROVE  /\ h[{}] = 0
         /\ \A s \in SUBSET D :
              s # {} => Pick(s) \in s /\ h[s] = f[Pick(s)] + h[s \ {Pick(s)}]
  BY DEF IsFold, Pick

\* Folds over two sets agree on a part of both on which the functions agree.
LEMMA FoldsAgree ==
  ASSUME NEW D, NEW E, NEW f, NEW g, NEW h, NEW k, IsFold(h, D, f), IsFold(k, E, g),
         NEW S, S \in SUBSET D, S \in SUBSET E, IsFiniteSet(S), \A x \in S : f[x] = g[x]
  PROVE  h[S] = k[S]
<1> DEFINE Agree(n) == \A s \in SUBSET S : Cardinality(s) = n => h[s] = k[s]
           K == {n \in Nat : Agree(n)}
<1>1. \A s \in SUBSET S :
        /\ IsFiniteSet(s) /\ Cardinality(s) \in Nat /\ (Cardinality(s) = 0 <=> s = {})
        /\ \A x \in s : s \ {x} \in SUBSET S /\ Cardinality(s \ {x}) = Cardinality(s) - 1
  BY FS_Subset, OneLess
<1>2. 0 \in K
  <2>1. ASSUME NEW s \in SUBSET S, Cardinality(s) = 0
        PROVE  h[s] = k[s]
    <3>1. s = {} /\ s \in SUBSET D /\ s \in SUBSET E
      BY <1>1, <2>1
    <3>2. h[{}] = 0
      BY FoldStep
    <3>3. k[{}] = 0
      BY FoldStep
    <3>4. QED
      BY <3>1, <3>2, <3>3
  <2>2. QED
    BY <2>1
<1>3. \A n \in Nat : n \in K => n + 1 \in K
  <2>1. SUFFICES ASSUME NEW n \in Nat, Agree(n), NEW s \in SUBSET S, Cardinality(s) = n + 1
                 PROVE  h[s] = k[s]
    OBVIOUS
  <2>2. s # {} /\ s \in SUBSET D /\ s \in SUBSET E
    BY <1>1, <2>1
  <2>3. /\ Pick(s) \in s
        /\ h[s] = f[Pick(s)] + h[s \ {Pick(s)}]
        /\ k[s] = g[Pick(s)] + k[s \ {Pick(s)}]
    BY <2>2, FoldStep
  <2>4. s \ {Pick(s)} \in SUBSET S /\ Cardinality(s \ {Pick(s)}) = n
    BY <1>1, <2>1, <2>3
  <2>5. h[s \ {Pick(s)}] = k[s \ {Pick(s)}]
    BY <2>1, <2>4
  <2>6. f[Pick(s)] = g[Pick(s)]
    BY <2>3
  <2>7. QED
    BY <2>3, <2>5, <2>6
<1> HIDE DEF K
<1>4. \A n \in Nat : n \in K
  BY <1>2, <1>3, SetInduction
<1>5. QED
  BY <1>1, <1>4 DEF K

\* The values of f on D are integers.
IntsOn(f, D) == \A x \in D : f[x] \in Int

\* A fold of integers is an integer, and it does not matter which element it
\* takes first.
LEMMA FoldTakes ==
  ASSUME NEW D, NEW f, NEW h, IsFiniteSet(D), IntsOn(f, D), IsFold(h, D, f)
  PROVE  \A s \in SUBSET D : h[s] \in Int /\ \A x \in s : h[s] = f[x] + h[s \ {x}]
<1> USE DEF IntsOn
<1> DEFINE Good(s) == h[s] \in Int /\ \A x \in s : h[s] = f[x] + h[s \ {x}]
           K == {n \in Nat : \A s \in SUBSET D : Cardinality(s) <= n => Good(s)}
<1>1. \A s \in SUBSET D :
        IsFiniteSet(s) /\ Cardinality(s) \in Nat /\ (Cardinality(s) = 0 <=> s = {})
  BY FS_Subset, OneLess
<1>2. \A s \in SUBSET D : \A x \in s :
        s \ {x} \in SUBSET D /\ Cardinality(s \ {x}) = Cardinality(s) - 1
  BY <1>1, OneLess
<1>3. 0 \in K
  <2>1. ASSUME NEW s \in SUBSET D, Cardinality(s) <= 0
        PROVE  Good(s)
    <3>1. s = {}
      BY <1>1, <2>1
    <3>2. h[{}] = 0
      BY FoldStep
    <3>3. QED
      BY <3>1, <3>2
  <2>2. QED
    BY <2>1
<1>4. \A n \in Nat : n \in K => n + 1 \in K
  <2>1. SUFFICES ASSUME NEW n \in Nat, \A t \in SUBSET D : Cardinality(t) <= n => Good(t),
                        NEW s \in SUBSET D, Cardinality(s) <= n + 1, s # {}
                 PROVE  Good(s)
    <3>1. ASSUME NEW s \in SUBSET D, s = {}
          PROVE  Good(s)
      <4>1. h[{}] = 0
        BY FoldStep
      <4>2. QED
        BY <3>1, <4>1
    <3> HIDE DEF Good
    <3>2. QED
      BY <3>1
  <2>2. PICK c \in s : h[s] = f[c] + h[s \ {c}]
    <3> HIDE DEF Good
    <3>1. Pick(s) \in s /\ h[s] = f[Pick(s)] + h[s \ {Pick(s)}]
      BY <2>1, FoldStep
    <3>2. QED
      BY <3>1
  <2>3. \A x \in s : Good(s \ {x})
    <3> HIDE DEF Good
    <3>1. \A x \in s : s \ {x} \in SUBSET D /\ Cardinality(s \ {x}) <= n
      BY <1>1, <1>2, <2>1
    <3>2. QED
      BY <2>1, <3>1
  <2>4. f[c] \in Int /\ h[s \ {c}] \in Int
    BY <2>2, <2>3
  <2>7. h[s] \in Int
    BY <2>2, <2>4
  <2>5. ASSUME NEW x \in s
        PROVE  h[s] = f[x] + h[s \ {x}]
    <3>1. CASE x = c
      BY <2>2, <3>1
    <3>2. CASE x # c
      <4>1. x \in s \ {c} /\ c \in s \ {x} /\ (s \ {c}) \ {x} = (s \ {x}) \ {c}
        BY <2>2, <3>2
      <4>2. h[s \ {c}] = f[x] + h[(s \ {c}) \ {x}]
        BY <2>2, <2>3, <4>1
      <4>3. h[s \ {x}] = f[c] + h[(s \ {x}) \ {c}]
        BY <2>3, <4>1
      <4>4. f[x] \in Int /\ h[(s \ {x}) \ {c}] \in Int
        <5> DEFINE t == s \ {x}
        <5>1. t \in SUBSET D /\ Cardinality(t) \in Nat /\ Cardinality(t) <= n
          BY <1>1, <1>2, <2>1
        <5>2. c \in t
          BY <4>1
        <5> HIDE DEF t
        <5>3. t \ {c} \in SUBSET D /\ Cardinality(t \ {c}) <= n
          BY <1>1, <1>2, <5>1, <5>2, <2>1
        <5>4. h[t \ {c}] \in Int
          BY <2>1, <5>3
        <5>5. QED
          BY <5>4 DEF t
      <4>5. PICK u \in Int : u = h[(s \ {x}) \ {c}]
        BY <4>4
      <4>6. h[s] = f[c] + (f[x] + u) /\ h[s \ {x}] = f[c] + u
        BY <2>2, <4>1, <4>2, <4>3, <4>5
      <4>7. QED
        BY <2>4, <4>4, <4>6
    <3>3. QED
      BY <3>1, <3>2
  <2>6. QED
    BY <2>5, <2>7
<1> HIDE DEF K
<1>5. \A n \in Nat : n \in K
  BY <1>3, <1>4, SetInduction
<1>6. QED
  BY <1>1, <1>5 DEF K

LEMMA SumIsFold ==
  ASSUME NEW f, NEW D, IsFiniteSet(D)
  PROVE  \E h : IsFold(h, D, f) /\ SumFunctionOnSet(f, D) = h[D]
<1> DEFINE h == CHOOSE k : IsFold(k, D, f)
<1>1. IsFold(h, D, f)
  <2>1. \E k : IsFold(k, D, f)
    BY FoldExists
  <2>2. QED
    BY <2>1
<1>2. SumFunctionOnSet(f, D) = h[D]
  BY DEF SumFunctionOnSet, FoldFunctionOnSet, MapThenFoldSet, IsFold, Pick
<1>3. QED
  BY <1>1, <1>2

\* The sum of a function is that over its domain.
LEMMA SumOfFunction ==
  ASSUME NEW f
  PROVE  SumFunction(f) = SumFunctionOnSet(f, DOMAIN f)
  BY DEF SumFunction

\* A sum depends on the values on the set only.
LEMMA SumSame ==
  ASSUME NEW D, NEW f, NEW g, IsFiniteSet(D), \A x \in D : f[x] = g[x]
  PROVE  SumFunctionOnSet(f, D) = SumFunctionOnSet(g, D)
<1>1. PICK h : IsFold(h, D, f) /\ SumFunctionOnSet(f, D) = h[D]
  BY SumIsFold
<1>2. PICK k : IsFold(k, D, g) /\ SumFunctionOnSet(g, D) = k[D]
  BY SumIsFold
<1>3. h[D] = k[D]
  BY <1>1, <1>2, FoldsAgree
<1>4. QED
  BY <1>1, <1>2, <1>3

\* A sum over a finite set: any element can be taken first.
LEMMA SumTakes ==
  ASSUME NEW D, NEW f, IsFiniteSet(D), \A x \in D : f[x] \in Int
  PROVE  /\ SumFunctionOnSet(f, D) \in Int
         /\ \A x \in D : SumFunctionOnSet(f, D) = f[x] + SumFunctionOnSet(f, D \ {x})
<1>1. PICK h : IsFold(h, D, f) /\ SumFunctionOnSet(f, D) = h[D]
  BY SumIsFold
<1>2. \A s \in SUBSET D : h[s] \in Int /\ \A x \in s : h[s] = f[x] + h[s \ {x}]
  <2>1. IntsOn(f, D) /\ IsFold(h, D, f)
    BY <1>1 DEF IntsOn
  <2>2. ASSUME NEW s \in SUBSET D
        PROVE  h[s] \in Int /\ \A x \in s : h[s] = f[x] + h[s \ {x}]
    BY ONLY <2>1, <2>2, IsFiniteSet(D), FoldTakes
  <2>3. QED
    BY <2>2
<1>3. ASSUME NEW x \in D
      PROVE  SumFunctionOnSet(f, D) = f[x] + SumFunctionOnSet(f, D \ {x})
  <2>1. IsFiniteSet(D \ {x}) /\ D \ {x} \in SUBSET D
    BY FS_RemoveElement
  <2>2. PICK k : IsFold(k, D \ {x}, f) /\ SumFunctionOnSet(f, D \ {x}) = k[D \ {x}]
    BY <2>1, SumIsFold
  <2>3. h[D \ {x}] = k[D \ {x}]
    <3> DEFINE E == D \ {x}
    <3>1. E \in SUBSET D /\ E \in SUBSET E /\ IsFiniteSet(E) /\ IsFold(k, E, f)
      BY <2>1, <2>2
    <3> HIDE DEF E
    <3>2. h[E] = k[E]
      BY <1>1, <3>1, FoldsAgree
    <3>3. QED
      BY <3>2 DEF E
  <2>4. D \in SUBSET D
    OBVIOUS
  <2>5. QED
    BY <1>1, <1>2, <2>2, <2>3, <2>4
<1>4. D \in SUBSET D
  OBVIOUS
<1>5. QED
  BY <1>1, <1>2, <1>3, <1>4

LEMMA SumEmpty ==
  ASSUME NEW f
  PROVE  SumFunctionOnSet(f, {}) = 0
<1>1. IsFiniteSet({})
  BY FS_EmptySet
<1>2. PICK h : IsFold(h, {}, f) /\ SumFunctionOnSet(f, {}) = h[{}]
  BY <1>1, SumIsFold
<1>3. QED
  BY <1>2, FoldStep

LEMMA SumPuts ==
  ASSUME NEW D, NEW y, NEW f, IsFiniteSet(D), y \notin D, \A x \in D \cup {y} : f[x] \in Int
  PROVE  SumFunctionOnSet(f, D \cup {y}) = f[y] + SumFunctionOnSet(f, D)
<1> DEFINE E == D \cup {y}
<1>1. IsFiniteSet(E) /\ y \in E /\ E \ {y} = D /\ \A x \in E : f[x] \in Int
  BY FS_AddElement
<1> HIDE DEF E
<1>2. SumFunctionOnSet(f, E) = f[y] + SumFunctionOnSet(f, E \ {y})
  BY <1>1, SumTakes
<1>3. QED
  BY <1>1, <1>2 DEF E

\* A collection of parts of D that grows element by element contains D.
LEMMA PartsInduct ==
  ASSUME NEW D, NEW G, IsFiniteSet(D), {} \in G,
         \A s \in SUBSET D : \A x \in D \ s : s \in G => s \cup {x} \in G
  PROVE  D \in G
<1> DEFINE K == {n \in Nat : \A s \in SUBSET D : Cardinality(s) = n => s \in G}
<1>1. \A s \in SUBSET D :
        /\ IsFiniteSet(s) /\ Cardinality(s) \in Nat /\ (Cardinality(s) = 0 <=> s = {})
        /\ \A x \in s : s \ {x} \in SUBSET D /\ Cardinality(s \ {x}) = Cardinality(s) - 1
  BY FS_Subset, OneLess
<1>2. 0 \in K
  BY <1>1
<1>3. \A n \in Nat : n \in K => n + 1 \in K
  <2>1. SUFFICES ASSUME NEW n \in Nat, \A s \in SUBSET D : Cardinality(s) = n => s \in G,
                        NEW s \in SUBSET D, Cardinality(s) = n + 1
                 PROVE  s \in G
    OBVIOUS
  <2>2. PICK x \in s : TRUE
    BY <1>1, <2>1
  <2>3. s \ {x} \in SUBSET D /\ s \ {x} \in G
    BY <1>1, <2>1
  <2>4. x \in D \ (s \ {x}) /\ (s \ {x}) \cup {x} = s
    OBVIOUS
  <2>5. QED
    BY <2>3, <2>4
<1> HIDE DEF K
<1>4. \A n \in Nat : n \in K
  BY <1>2, <1>3, SetInduction
<1>5. QED
  BY <1>1, <1>4 DEF K

LEMMA SumUnion ==
  ASSUME NEW A, NEW B, NEW f, IsFiniteSet(A), IsFiniteSet(B), A \cap B = {},
         \A x \in A \cup B : f[x] \in Int
  PROVE  SumFunctionOnSet(f, A \cup B) = SumFunctionOnSet(f, A) + SumFunctionOnSet(f, B)
<1> DEFINE G == {s \in SUBSET B :
       SumFunctionOnSet(f, A \cup s) = SumFunctionOnSet(f, A) + SumFunctionOnSet(f, s)}
<1>0. SumFunctionOnSet(f, A) \in Int
  BY SumTakes
<1>1. {} \in G
  BY <1>0, SumEmpty
<1>2. ASSUME NEW s \in SUBSET B, NEW x \in B \ s, s \in G
      PROVE  s \cup {x} \in G
  <2>1. IsFiniteSet(s) /\ SumFunctionOnSet(f, s) \in Int
    BY FS_Subset, SumTakes
  <2> DEFINE t == A \cup s
  <2>2. IsFiniteSet(t) /\ x \notin t /\ \A y \in t \cup {x} : f[y] \in Int
    BY <2>1, FS_Union
  <2>3. A \cup (s \cup {x}) = t \cup {x}
    OBVIOUS
  <2>4. SumFunctionOnSet(f, t) = SumFunctionOnSet(f, A) + SumFunctionOnSet(f, s)
    BY <1>2
  <2> HIDE DEF t
  <2>5. SumFunctionOnSet(f, t \cup {x}) = f[x] + SumFunctionOnSet(f, t)
    BY <2>2, SumPuts
  <2>6. SumFunctionOnSet(f, s \cup {x}) = f[x] + SumFunctionOnSet(f, s)
    BY <2>1, SumPuts
  <2>7. f[x] \in Int /\ SumFunctionOnSet(f, A) \in Int
    BY <1>0
  <2>8. SumFunctionOnSet(f, A \cup (s \cup {x})) =
          SumFunctionOnSet(f, A) + SumFunctionOnSet(f, s \cup {x})
    <3>1. PICK a \in Int, b \in Int, c \in Int :
            a = SumFunctionOnSet(f, A) /\ b = SumFunctionOnSet(f, s) /\ c = f[x]
      BY <2>1, <2>7
    <3>2. SumFunctionOnSet(f, A \cup (s \cup {x})) = c + (a + b)
      BY <2>3, <2>4, <2>5, <3>1
    <3>3. SumFunctionOnSet(f, s \cup {x}) = c + b
      BY <2>6, <3>1
    <3>4. c + (a + b) = a + (c + b)
      OBVIOUS
    <3>5. QED
      BY <3>1, <3>2, <3>3, <3>4
  <2>9. QED
    BY <2>8
<1> HIDE DEF G
<1>3. B \in G
  BY <1>1, <1>2, PartsInduct
<1>4. QED
  BY <1>3 DEF G

LEMMA SumOne ==
  ASSUME NEW x, NEW f, f[x] \in Int
  PROVE  SumFunctionOnSet(f, {x}) = f[x]
<1>1. IsFiniteSet({}) /\ x \notin {} /\ \A y \in {} \cup {x} : f[y] \in Int
  BY FS_EmptySet
<1>2. SumFunctionOnSet(f, {} \cup {x}) = f[x] + SumFunctionOnSet(f, {})
  BY <1>1, SumPuts
<1>3. {} \cup {x} = {x} /\ SumFunctionOnSet(f, {}) = 0
  BY SumEmpty
<1>4. QED
  BY <1>2, <1>3

LEMMA SumZero ==
  ASSUME NEW D, NEW f, IsFiniteSet(D), \A x \in D : f[x] = 0
  PROVE  SumFunctionOnSet(f, D) = 0
<1> DEFINE G == {s \in SUBSET D : SumFunctionOnSet(f, s) = 0}
<1>1. {} \in G
  BY SumEmpty
<1>2. ASSUME NEW s \in SUBSET D, NEW x \in D \ s, s \in G
      PROVE  s \cup {x} \in G
  <2>1. IsFiniteSet(s) /\ x \notin s /\ \A y \in s \cup {x} : f[y] \in Int
    BY FS_Subset
  <2>2. SumFunctionOnSet(f, s \cup {x}) = f[x] + SumFunctionOnSet(f, s)
    BY <2>1, SumPuts
  <2>3. QED
    BY <1>2, <2>2
<1> HIDE DEF G
<1>3. D \in G
  BY <1>1, <1>2, PartsInduct
<1>4. QED
  BY <1>3 DEF G

\* The sum of sums
LEMMA SumAdds ==
  ASSUME NEW D, NEW f, NEW g, NEW h, IsFiniteSet(D),
         \A x \in D : f[x] \in Int /\ g[x] \in Int /\ h[x] = f[x] + g[x]
  PROVE  SumFunctionOnSet(h, D) = SumFunctionOnSet(f, D) + SumFunctionOnSet(g, D)
<1> DEFINE G == {s \in SUBSET D :
       SumFunctionOnSet(h, s) = SumFunctionOnSet(f, s) + SumFunctionOnSet(g, s)}
<1>1. {} \in G
  BY SumEmpty
<1>2. ASSUME NEW s \in SUBSET D, NEW x \in D \ s, s \in G
      PROVE  s \cup {x} \in G
  <2>1. IsFiniteSet(s) /\ x \notin s
    BY FS_Subset
  <2>2. /\ \A y \in s \cup {x} : f[y] \in Int
        /\ \A y \in s \cup {x} : g[y] \in Int
        /\ \A y \in s \cup {x} : h[y] \in Int
    OBVIOUS
  <2>3. SumFunctionOnSet(f, s \cup {x}) = f[x] + SumFunctionOnSet(f, s)
    BY <2>1, <2>2, SumPuts
  <2>4. SumFunctionOnSet(g, s \cup {x}) = g[x] + SumFunctionOnSet(g, s)
    BY <2>1, <2>2, SumPuts
  <2>5. SumFunctionOnSet(h, s \cup {x}) = h[x] + SumFunctionOnSet(h, s)
    BY <2>1, <2>2, SumPuts
  <2>6. SumFunctionOnSet(f, s) \in Int
    BY <2>1, <2>2, SumTakes
  <2>7. SumFunctionOnSet(g, s) \in Int
    BY <2>1, <2>2, SumTakes
  <2>8. PICK a \in Int, b \in Int, c \in Int, e \in Int :
          /\ a = SumFunctionOnSet(f, s) /\ b = SumFunctionOnSet(g, s)
          /\ c = f[x] /\ e = g[x]
    BY <2>6, <2>7
  <2>9. /\ SumFunctionOnSet(h, s \cup {x}) = (c + e) + (a + b)
        /\ SumFunctionOnSet(f, s \cup {x}) = c + a
        /\ SumFunctionOnSet(g, s \cup {x}) = e + b
    BY <1>2, <2>3, <2>4, <2>5, <2>8
  <2>10. (c + e) + (a + b) = (c + a) + (e + b)
    OBVIOUS
  <2>11. QED
    BY <2>9, <2>10
<1> HIDE DEF G
<1>3. D \in G
  BY <1>1, <1>2, PartsInduct
<1>4. QED
  BY <1>3 DEF G

\* A sum over a part of D is a sum over D.
LEMMA SumPart ==
  ASSUME NEW D, NEW S, NEW f, NEW h, IsFiniteSet(D), S \subseteq D,
         \A x \in D : f[x] \in Int /\ h[x] = IF x \in S THEN f[x] ELSE 0
  PROVE  SumFunctionOnSet(h, D) = SumFunctionOnSet(f, S)
<1> DEFINE R == D \ S
<1>1. IsFiniteSet(S) /\ IsFiniteSet(R) /\ S \cap R = {} /\ S \cup R = D
  BY FS_Subset
<1>2. (\A x \in S : h[x] = f[x] /\ f[x] \in Int) /\ (\A x \in R : h[x] = 0)
  OBVIOUS
<1> HIDE DEF R
<1>3. \A x \in S \cup R : h[x] \in Int
  BY <1>2
<1>4. SumFunctionOnSet(h, S \cup R) = SumFunctionOnSet(h, S) + SumFunctionOnSet(h, R)
  BY <1>1, <1>3, SumUnion
<1>5. SumFunctionOnSet(h, R) = 0
  BY <1>1, <1>2, SumZero
<1>6. SumFunctionOnSet(h, S) = SumFunctionOnSet(f, S)
  BY <1>1, <1>2, SumSame
<1>7. SumFunctionOnSet(f, S) \in Int
  BY <1>1, <1>2, SumTakes
<1>8. QED
  BY <1>1, <1>4, <1>5, <1>6, <1>7

\* h[d] is the sum of f over the group of those x of A with g[x] = d.
SumsGroups(h, T, f, A, g) ==
  \A d \in T : h[d] = SumFunctionOnSet(f, {x \in A : g[x] = d})

\* The sum over all groups of the sums of each group
LEMMA SumGroups ==
  ASSUME NEW A, NEW T, NEW f, NEW g, NEW h, IsFiniteSet(A), IsFiniteSet(T),
         \A x \in A : f[x] \in Int /\ g[x] \in T, SumsGroups(h, T, f, A, g)
  PROVE  SumFunctionOnSet(h, T) = SumFunctionOnSet(f, A)
<1> USE DEF SumsGroups
<1> DEFINE Of(s) == {x \in A : g[x] \in s}
           G == {s \in SUBSET T : SumFunctionOnSet(h, s) = SumFunctionOnSet(f, Of(s))}
<1>1. {} \in G
  <2>1. Of({}) = {}
    OBVIOUS
  <2>2. QED
    BY <2>1, SumEmpty
<1>2. ASSUME NEW s \in SUBSET T, NEW d \in T \ s, s \in G
      PROVE  s \cup {d} \in G
  <2> DEFINE X == {x \in A : g[x] = d}
  <2>1. IsFiniteSet(s) /\ d \notin s /\ IsFiniteSet(X) /\ IsFiniteSet(Of(s))
    BY FS_Subset
  <2>2. \A e \in T : h[e] \in Int
    <3>1. ASSUME NEW e \in T
          PROVE  h[e] \in Int
      <4> DEFINE Y == {x \in A : g[x] = e}
      <4>1. IsFiniteSet(Y) /\ \A x \in Y : f[x] \in Int
        BY FS_Subset
      <4>2. h[e] = SumFunctionOnSet(f, Y)
        OBVIOUS
      <4> HIDE DEF Y
      <4>3. QED
        BY <4>1, <4>2, SumTakes
    <3>2. QED
      BY <3>1
  <2>3. \A e \in s \cup {d} : h[e] \in Int
    BY <2>2
  <2>4. SumFunctionOnSet(h, s \cup {d}) = h[d] + SumFunctionOnSet(h, s)
    BY <2>1, <2>3, SumPuts
  <2>5. h[d] = SumFunctionOnSet(f, X)
    OBVIOUS
  <2>6. /\ Of(s) \cap X = {} /\ Of(s \cup {d}) = Of(s) \cup X
        /\ \A x \in Of(s) \cup X : f[x] \in Int
    OBVIOUS
  <2>7. SumFunctionOnSet(h, s) = SumFunctionOnSet(f, Of(s))
    BY <1>2
  <2> DEFINE O == Of(s)
  <2>8. /\ IsFiniteSet(O) /\ O \cap X = {} /\ Of(s \cup {d}) = O \cup X
        /\ \A x \in O \cup X : f[x] \in Int
        /\ SumFunctionOnSet(h, s) = SumFunctionOnSet(f, O)
    BY <2>1, <2>6, <2>7
  <2> HIDE DEF O, X, Of
  <2>9. SumFunctionOnSet(f, O \cup X) = SumFunctionOnSet(f, O) + SumFunctionOnSet(f, X)
    BY <2>1, <2>8, SumUnion
  <2>10. SumFunctionOnSet(f, O) \in Int
    BY <2>8, SumTakes
  <2>11. SumFunctionOnSet(f, X) \in Int
    BY <2>1, <2>8, SumTakes
  <2>12. SumFunctionOnSet(h, s \cup {d}) = SumFunctionOnSet(f, Of(s \cup {d}))
    <3>1. PICK a \in Int, b \in Int :
            a = SumFunctionOnSet(f, O) /\ b = SumFunctionOnSet(f, X)
      BY <2>10, <2>11
    <3>2. SumFunctionOnSet(h, s \cup {d}) = b + a
      BY <2>4, <2>5, <2>8, <3>1
    <3>3. SumFunctionOnSet(f, Of(s \cup {d})) = a + b
      BY <2>8, <2>9, <3>1
    <3>4. QED
      BY <3>2, <3>3
  <2>13. QED
    BY <2>12
<1>3. Of(T) = A
  OBVIOUS
<1> HIDE DEF G
<1>4. T \in G
  BY <1>1, <1>2, PartsInduct
<1>5. SumFunctionOnSet(h, T) = SumFunctionOnSet(f, Of(T))
  <2> HIDE DEF Of
  <2>1. QED
    BY <1>4 DEF G
<1>6. QED
  BY <1>3, <1>5

\* Sums over sets that correspond one to one
LEMMA SumImage ==
  ASSUME NEW A, NEW B, NEW f, NEW g, NEW e, IsFiniteSet(A), IsFiniteSet(B),
         \A x \in A : e[x] \in B /\ f[x] = g[e[x]] /\ f[x] \in Int,
         \A x \in A, y \in A : e[x] = e[y] => x = y,
         \A y \in B : \E x \in A : e[x] = y
  PROVE  SumFunctionOnSet(f, A) = SumFunctionOnSet(g, B)
<1>1. ASSUME NEW y \in B
      PROVE  g[y] = SumFunctionOnSet(f, {x \in A : e[x] = y})
  <2>1. PICK x \in A : e[x] = y
    OBVIOUS
  <2>2. {z \in A : e[z] = y} = {x}
    BY <2>1
  <2>3. f[x] = g[y] /\ f[x] \in Int
    BY <2>1
  <2>4. SumFunctionOnSet(f, {x}) = f[x]
    BY <2>3, SumOne
  <2>5. QED
    BY <2>2, <2>3, <2>4
<1>2. /\ \A x \in A : f[x] \in Int /\ e[x] \in B
      /\ SumsGroups(g, B, f, A, e)
  BY <1>1 DEF SumsGroups
<1>3. SumFunctionOnSet(g, B) = SumFunctionOnSet(f, A)
  BY ONLY <1>2, IsFiniteSet(A), IsFiniteSet(B), SumGroups
<1>4. QED
  BY <1>3

\* The number of elements is a sum.
LEMMA SumOfOnes ==
  ASSUME NEW D, NEW f, IsFiniteSet(D), \A x \in D : f[x] = 1
  PROVE  SumFunctionOnSet(f, D) = Cardinality(D)
<1> DEFINE G == {s \in SUBSET D : SumFunctionOnSet(f, s) = Cardinality(s)}
<1>1. {} \in G
  BY SumEmpty, FS_EmptySet
<1>2. ASSUME NEW s \in SUBSET D, NEW x \in D \ s, s \in G
      PROVE  s \cup {x} \in G
  <2>1. IsFiniteSet(s) /\ x \notin s /\ \A y \in s \cup {x} : f[y] \in Int
    BY FS_Subset
  <2>2. SumFunctionOnSet(f, s \cup {x}) = f[x] + SumFunctionOnSet(f, s)
    BY <2>1, SumPuts
  <2>3. Cardinality(s) \in Nat /\ Cardinality(s \cup {x}) = Cardinality(s) + 1
    BY <2>1, FS_AddElement, FS_CardinalityType
  <2>4. f[x] = 1
    OBVIOUS
  <2>5. SumFunctionOnSet(f, s \cup {x}) = Cardinality(s \cup {x})
    BY <1>2, <2>2, <2>3, <2>4
  <2>6. QED
    BY <2>5
<1> HIDE DEF G
<1>3. D \in G
  BY <1>1, <1>2, PartsInduct
<1>4. QED
  BY <1>3 DEF G

\* SumTo is a sum over 1..n.
LEMMA SumToIs ==
  ASSUME NEW n \in Nat, NEW f, \A i \in 1..n : f[i] \in Int
  PROVE  SumTo(f, n) = SumFunctionOnSet(f, 1..n)
<1> DEFINE K == {k \in Nat : k <= n => SumTo(f, k) = SumFunctionOnSet(f, 1..k)}
<1>1. 0 \in K
  <2>1. 1..0 = {}
    OBVIOUS
  <2>2. QED
    BY <2>1, SumToDef, SumEmpty
<1>2. \A k \in Nat : k \in K => k + 1 \in K
  <2>1. SUFFICES ASSUME NEW k \in Nat, k + 1 <= n, SumTo(f, k) = SumFunctionOnSet(f, 1..k)
                 PROVE  SumTo(f, k + 1) = SumFunctionOnSet(f, 1..(k + 1))
    OBVIOUS
  <2> DEFINE s == 1..k
  <2>2. /\ 1..(k + 1) = s \cup {k + 1} /\ k + 1 \notin s /\ IsFiniteSet(s)
        /\ \A i \in s \cup {k + 1} : f[i] \in Int
    <3>1. IsFiniteSet(s)
      BY FS_Interval
    <3>2. /\ 1..(k + 1) = s \cup {k + 1} /\ k + 1 \notin s
          /\ \A i \in s \cup {k + 1} : i \in 1..n
      BY <2>1
    <3>3. QED
      BY <3>1, <3>2
  <2>3. SumTo(f, k + 1) = SumTo(f, k) + f[k + 1]
    BY SumToDef
  <2>4. SumTo(f, k) = SumFunctionOnSet(f, s)
    BY <2>1
  <2> HIDE DEF s
  <2>5. SumFunctionOnSet(f, s \cup {k + 1}) = f[k + 1] + SumFunctionOnSet(f, s)
    BY <2>2, SumPuts
  <2>6. SumFunctionOnSet(f, s) \in Int
    BY <2>2, SumTakes
  <2>7. f[k + 1] \in Int
    BY <2>2
  <2>8. PICK a \in Int, b \in Int : a = SumFunctionOnSet(f, s) /\ b = f[k + 1]
    BY <2>6, <2>7
  <2>9. SumTo(f, k + 1) = a + b
    BY <2>3, <2>4, <2>8
  <2>10. SumFunctionOnSet(f, 1..(k + 1)) = b + a
    BY <2>2, <2>5, <2>8
  <2>11. QED
    BY <2>9, <2>10
<1> HIDE DEF K
<1>3. \A k \in Nat : k \in K
  BY <1>1, <1>2, SetInduction
<1>4. QED
  BY <1>3 DEF K

-----------------------------------------------------------------------------
(* The division of a paid price, for every price *)

\* round() of a nonnegative rate of at most 3 percent is a natural number and
\* is off by at most half a cent.
LEMMA RoundRateBounds ==
  ASSUME NEW rate \in 0..3, NEW paid \in Nat
  PROVE  /\ RoundRate(rate, paid) \in Nat
         /\ 100 * RoundRate(rate, paid) <= rate * paid + 50
         /\ 100 * RoundRate(rate, paid) >= rate * paid - 50
<1> DEFINE n == rate * paid
<1>1. n \in Nat
  <2>1. CASE rate = 0
    BY <2>1
  <2>2. CASE rate = 1
    BY <2>2
  <2>3. CASE rate = 2
    BY <2>3
  <2>4. CASE rate = 3
    BY <2>4
  <2>5. QED
    BY <2>1, <2>2, <2>3, <2>4
<1>2. RoundRate(rate, paid) =
        IF n % 100 < 50 \/ (n % 100 = 50 /\ (n \div 100) % 2 = 0)
        THEN n \div 100 ELSE n \div 100 + 1
  BY DEF RoundRate
<1> HIDE DEF n
<1>3. /\ n = 100 * (n \div 100) + (n % 100)
      /\ n % 100 \in 0..99
      /\ n \div 100 \in Nat
  BY <1>1, SMTT(30)
<1>4. /\ RoundRate(rate, paid) \in Nat
      /\ 100 * RoundRate(rate, paid) <= n + 50
      /\ 100 * RoundRate(rate, paid) >= n - 50
  <2>1. CASE n % 100 < 50
    BY <1>1, <1>2, <1>3, <2>1
  <2>2. CASE n % 100 = 50
    BY <1>1, <1>2, <1>3, <2>2
  <2>3. CASE n % 100 > 50
    BY <1>1, <1>2, <1>3, <2>3
  <2>4. QED
    BY <1>3, <2>1, <2>2, <2>3
<1>5. QED
  BY <1>4 DEF n

\* For every paid price the shares of platform, inviter and originator are
\* amounts, and together they never exceed the price, so the merchant's part
\* of place_order (wechat.py:94-96, alipay.py:74-76) is never negative.
THEOREM SharesWithinPrice ==
  ASSUME NEW paid \in Nat, NEW with_coupon \in BOOLEAN
  PROVE  LET s == SharesOf(paid, with_coupon)
         IN  /\ s.platform_share \in Nat
             /\ s.inviter_share \in Nat
             /\ s.originator_share \in Nat
             /\ TotalShare(s) \in Nat
             /\ TotalShare(s) <= paid
<1> DEFINE P == RoundRate(PLATFORM_SHARE_RATE, paid)
           I == RoundRate(INVITER_SHARE_RATE, paid)
           O == RoundRate(ORIGINATOR_SHARE_RATE, paid)
<1>1. /\ P \in Nat /\ 100 * P <= 3 * paid + 50
      /\ I \in Nat /\ 100 * I <= paid + 50
      /\ O \in Nat /\ 100 * O <= paid + 50
  <2>1. P \in Nat /\ 100 * P <= 3 * paid + 50
    BY RoundRateBounds DEF PLATFORM_SHARE_RATE
  <2>2. I \in Nat /\ 100 * I <= paid + 50
    BY RoundRateBounds DEF INVITER_SHARE_RATE
  <2>3. O \in Nat /\ 100 * O <= paid + 50
    BY RoundRateBounds DEF ORIGINATOR_SHARE_RATE
  <2>4. QED
    BY <2>1, <2>2, <2>3
<1>2. paid <= 1 => P = 0 /\ I = 0 /\ O = 0
  <2>1. SUFFICES ASSUME paid <= 1 PROVE P = 0 /\ I = 0 /\ O = 0
    OBVIOUS
  <2> HIDE DEF P, I, O
  <2>2. QED
    BY <1>1, <2>1
<1>3. P + I + O \in Nat /\ P + I + O <= paid
  <2> HIDE DEF P, I, O
  <2>1. CASE paid <= 1
    BY <1>2, <2>1
  <2>2. CASE paid > 1
    BY <1>1, <2>2
  <2>3. QED
    BY <2>1, <2>2
<1>4. SharesOf(paid, with_coupon) =
        IF with_coupon
        THEN [platform_share |-> P, inviter_share |-> I, originator_share |-> O]
        ELSE [platform_share |-> 0, inviter_share |-> 0, originator_share |-> 0]
  BY DEF SharesOf
<1> HIDE DEF P, I, O
<1>5. QED
  BY <1>1, <1>3, <1>4 DEF TotalShare

\* The shares are amounts whatever the price (max(0, paid_price) in the code).
LEMMA SharesType ==
  ASSUME NEW paid \in Int, NEW with_coupon \in BOOLEAN
  PROVE  /\ SharesOf(paid, with_coupon).platform_share \in Nat
         /\ SharesOf(paid, with_coupon).inviter_share \in Nat
         /\ SharesOf(paid, with_coupon).originator_share \in Nat
<1>1. CASE paid \in Nat
  BY <1>1, SharesWithinPrice
<1>2. CASE paid < 0
  <2>1. SharesOf(paid, with_coupon) = SharesOf(0, with_coupon)
    BY <1>2 DEF SharesOf
  <2>2. QED
    BY <2>1, SharesWithinPrice
<1>3. QED
  BY <1>1, <1>2

USE AccountAssumption, BoundAssumption

-----------------------------------------------------------------------------
(* Types *)

LEMMA InitTypeOK == Init => TypeOK
<1> SUFFICES ASSUME Init PROVE TypeOK
  OBVIOUS
<1> USE DEF Init
<1>0. (CHOOSE m \in Merchant : TRUE) \in Merchant
  OBVIOUS
<1>1. payments \in [Serial -> Payment]
  <2>1. NoPayment \in Payment
    BY <1>0 DEF Payment, NoPayment, PaymentStatus, Channel
  <2>2. QED
    BY <2>1
<1>2. refunds \in [Serial -> RefundStatus]
  BY DEF RefundStatus
<1>3. coupons \in [CouponId -> Coupon]
  <2>1. NoCouponRow \in Coupon
    BY <1>0 DEF Coupon, NoCouponRow, CouponStatus
  <2>2. \A c \in 1..Len(InitialCoupons) : InitialCoupons[c] \in Coupon
    BY CouponAssumption
  <2>3. QED
    BY <2>1, <2>2
<1>4. /\ balance \in [Purse -> Int]
      /\ withdrawable \in [Purse -> Int]
      /\ paidOut \in [Purse -> Int]
  BY DEF InitialMoney
<1>5. rows \in Seq(Row)
  OBVIOUS
<1>6. QED
  BY <1>1, <1>2, <1>3, <1>4, <1>5 DEF TypeOK

\* Moving money between purses keeps them integers.
LEMMA AddType ==
  ASSUME NEW f \in [Purse -> Int], NEW purse \in Purse, NEW d \in Int
  PROVE  Add(f, purse, d) \in [Purse -> Int]
BY DEF Add

\* The price, the discount and the parts of a payment are integers.
LEMMA PartsType ==
  ASSUME TypeOK, NEW p \in Serial
  PROVE  /\ Discount(payments[p]) \in Nat
         /\ PaidPrice(payments[p]) \in Int
         /\ TotalShare(payments[p]) \in Nat
         /\ MerchantPart(payments[p]) \in Int
         /\ payments[p] \in Payment
         /\ payments[p].merchant \in Merchant
         /\ payments[p].pay_channel \in Channel
         /\ payments[p].coupon \in CouponId \cup {NoCoupon}
         /\ payments[p].order_price \in Nat
         /\ payments[p].platform_share \in Nat
         /\ payments[p].inviter_share \in Nat
         /\ payments[p].originator_share \in Nat
<1> DEFINE x == payments[p]
<1>1. x \in Payment
  BY DEF TypeOK
<1>2. /\ x.merchant \in Merchant
      /\ x.pay_channel \in Channel
      /\ x.coupon \in CouponId \cup {NoCoupon}
      /\ x.order_price \in Nat
      /\ x.platform_share \in Nat
      /\ x.inviter_share \in Nat
      /\ x.originator_share \in Nat
  BY <1>1 DEF Payment
<1>3. Discount(x) \in Nat
  <2>1. \A c \in CouponId : coupons[c].discount \in Nat
    BY DEF TypeOK, Coupon
  <2>2. QED
    BY <1>2, <2>1 DEF Discount, HasCoupon, NoCoupon
<1> HIDE DEF x
<1>4. QED
  BY <1>1, <1>2, <1>3 DEF x, PaidPrice, TotalShare, MerchantPart

\* Replacing the coupon of a payment keeps the Coupon table a table of coupons.
LEMMA ReplaceCouponType ==
  ASSUME TypeOK, NEW p \in Serial, ReplaceCoupon(payments[p])
  PROVE  coupons' \in [CouponId -> Coupon]
<1>1. CASE HasCoupon(payments[p])
  <2> DEFINE u == payments[p].coupon
  <2>1. u \in CouponId
    BY <1>1, PartsType DEF HasCoupon
  <2>2. PICK c \in CouponId :
          coupons' = [coupons EXCEPT ![u].status = "DESTROYED",
                                     ![c] = [coupons[u] EXCEPT !.status = "NOT_USED"]]
    BY <1>1 DEF ReplaceCoupon, Fresh
  <2>3. coupons \in [CouponId -> Coupon] /\ coupons[u] \in Coupon
    BY <2>1 DEF TypeOK
  <2>4. /\ [coupons[u] EXCEPT !.status = "NOT_USED"] \in Coupon
        /\ [coupons[u] EXCEPT !.status = "DESTROYED"] \in Coupon
    BY <2>3 DEF Coupon, CouponStatus
  <2> HIDE DEF u
  <2>5. QED
    BY <2>1, <2>2, <2>3, <2>4
<1>2. CASE ~HasCoupon(payments[p])
  BY <1>2 DEF ReplaceCoupon, TypeOK
<1>3. QED
  BY <1>1, <1>2

\* A step that only changes the status of a payment keeps the table typed.
LEMMA StatusType ==
  ASSUME TypeOK, NEW p \in Serial, NEW s \in PaymentStatus
  PROVE  [payments EXCEPT ![p].status = s] \in [Serial -> Payment]
<1>1. payments \in [Serial -> Payment] /\ payments[p] \in Payment
  BY DEF TypeOK
<1>2. [payments[p] EXCEPT !.status = s] \in Payment
  BY <1>1 DEF Payment
<1>3. QED
  BY <1>1, <1>2

\* Every channel purse of every account is a purse.
LEMMA PurseType ==
  ASSUME NEW ch \in Channel
  PROVE  /\ <<Platform, ch>> \in Purse
         /\ \A m \in Merchant \cup Marketer : <<m, ch>> \in Purse
BY DEF Purse, Account

\* The fields of the coupon of a payment.
LEMMA CouponType ==
  ASSUME TypeOK, NEW p \in Serial, HasCoupon(payments[p])
  PROVE  /\ payments[p].coupon \in CouponId
         /\ coupons[payments[p].coupon].originator \in Merchant
         /\ coupons[payments[p].coupon].rule \in Merchant
BY PartsType DEF TypeOK, Coupon, HasCoupon

\* Placing an order keeps the types.
LEMMA PlaceOrderType ==
  ASSUME TypeOK, NEW p \in Serial, NEW ch \in Channel, NEW m \in Merchant,
         NEW c \in CouponId \cup {NoCoupon}, NEW price \in OrderPrice,
         PlaceOrder(p, ch, m, c, price)
  PROVE  TypeOK'
<1> DEFINE with_coupon == c # NoCoupon
           discount == IF with_coupon THEN coupons[c].discount ELSE 0
           shares == SharesOf(price - discount, with_coupon)
           new == [status |-> "UNPAID", pay_channel |-> ch, merchant |-> m,
                   coupon |-> c, order_price |-> price,
                   platform_share |-> shares.platform_share,
                   inviter_share |-> shares.inviter_share,
                   originator_share |-> shares.originator_share]
<1>1. coupons \in [CouponId -> Coupon]
  BY DEF TypeOK
<1>2. discount \in Nat
  BY <1>1 DEF Coupon, NoCoupon
<1>3. /\ shares.platform_share \in Nat
      /\ shares.inviter_share \in Nat
      /\ shares.originator_share \in Nat
  <2>1. price - discount \in Int /\ with_coupon \in BOOLEAN
    BY <1>2
  <2> HIDE DEF discount, with_coupon
  <2>2. QED
    BY <2>1, SharesType
<1>4. new \in Payment
  <2> HIDE DEF shares
  <2>1. QED
    BY <1>3 DEF Payment, PaymentStatus
<1>5. payments' = [payments EXCEPT ![p] = new]
  BY DEF PlaceOrder
<1>6. payments' \in [Serial -> Payment]
  <2> HIDE DEF new
  <2>1. QED
    BY <1>4, <1>5 DEF TypeOK
<1>7. coupons' \in [CouponId -> Coupon]
  <2>1. CASE with_coupon
    <3>1. c \in CouponId /\ coupons[c] \in Coupon
      BY <1>1, <2>1 DEF NoCoupon
    <3>2. [coupons[c] EXCEPT !.status = "USED"] \in Coupon
      BY <3>1 DEF Coupon, CouponStatus
    <3>3. coupons' = [coupons EXCEPT ![c] = [coupons[c] EXCEPT !.status = "USED"]]
      BY <1>1, <2>1, <3>1 DEF PlaceOrder
    <3>4. QED
      BY <1>1, <3>2, <3>3
  <2>2. CASE ~with_coupon
    BY <1>1, <2>2 DEF PlaceOrder
  <2>3. QED
    BY <2>1, <2>2
<1>8. /\ refunds' = refunds
      /\ balance' = balance
      /\ withdrawable' = withdrawable
      /\ paidOut' = paidOut
      /\ rows' = << >>
  BY DEF PlaceOrder
<1>9. QED
  BY <1>6, <1>7, <1>8 DEF TypeOK

\* Cancelling an order keeps the types.
LEMMA CancelOrderType ==
  ASSUME TypeOK, NEW p \in Serial, CancelOrder(p)
  PROVE  TypeOK'
<1>1. payments' \in [Serial -> Payment]
  BY StatusType DEF CancelOrder, PaymentStatus
<1>2. coupons' \in [CouponId -> Coupon]
  BY ReplaceCouponType DEF CancelOrder
<1>3. QED
  BY <1>1, <1>2 DEF CancelOrder, TypeOK

\* Booking a payment keeps the types.
LEMMA OnPaymentSuccessType ==
  ASSUME TypeOK, NEW p \in Serial, OnPaymentSuccess(p)
  PROVE  TypeOK'
<1> DEFINE x == payments[p]
           platform == <<Platform, x.pay_channel>>
           merchant == <<x.merchant, x.pay_channel>>
<1>1. /\ platform \in Purse
      /\ merchant \in Purse
      /\ x.pay_channel \in Channel
      /\ Platform \in Account /\ x.merchant \in Account
  BY PartsType, PurseType DEF Account
<1>2. TotalShare(x) \in Int /\ PaidPrice(x) \in Int /\ MerchantPart(x) \in Int
  BY PartsType
<1>3. payments' \in [Serial -> Payment]
  BY StatusType DEF OnPaymentSuccess, PaymentStatus
<1>4. balance' \in [Purse -> Int]
  <2>1. Add(balance, platform, TotalShare(x)) \in [Purse -> Int]
    BY <1>1, <1>2, AddType DEF TypeOK
  <2>2. Add(Add(balance, platform, TotalShare(x)), merchant, MerchantPart(x))
          \in [Purse -> Int]
    BY <1>1, <1>2, <2>1, AddType
  <2>3. QED
    BY <2>2 DEF OnPaymentSuccess
<1>5. rows' \in Seq(Row)
  <2>1. balance[platform] \in Int /\ balance[merchant] \in Int
    BY <1>1 DEF TypeOK
  <2>2. rows' =
          <<[account |-> Platform, channel |-> x.pay_channel, amount |-> PaidPrice(x),
             after |-> (balance[platform] + TotalShare(x)) + MerchantPart(x)],
            [account |-> Platform, channel |-> x.pay_channel,
             amount |-> -MerchantPart(x), after |-> balance[platform] + TotalShare(x)],
            [account |-> x.merchant, channel |-> x.pay_channel,
             amount |-> MerchantPart(x), after |-> balance[merchant] + MerchantPart(x)]>>
    BY DEF OnPaymentSuccess
  <2> HIDE DEF platform, merchant, x
  <2>3. QED
    BY <1>1, <1>2, <2>1, <2>2 DEF Row
<1>6. QED
  BY <1>3, <1>4, <1>5 DEF OnPaymentSuccess, TypeOK

\* Asking for a refund keeps the types.
LEMMA RequestRefundType ==
  ASSUME TypeOK, NEW p \in Serial, RequestRefund(p)
  PROVE  TypeOK'
<1>1. payments' \in [Serial -> Payment]
  BY StatusType DEF RequestRefund, PaymentStatus
<1>2. QED
  BY <1>1 DEF RequestRefund, TypeOK, RefundStatus

\* A failed refund keeps the types.
LEMMA OnRefundFailType ==
  ASSUME TypeOK, NEW p \in Serial, OnRefundFail(p)
  PROVE  TypeOK'
<1>1. payments' \in [Serial -> Payment]
  BY StatusType DEF OnRefundFail, PaymentStatus
<1>2. QED
  BY <1>1 DEF OnRefundFail, TypeOK, RefundStatus

\* A refund keeps the types.
LEMMA OnRefundSuccessType ==
  ASSUME TypeOK, NEW p \in Serial, OnRefundSuccess(p)
  PROVE  TypeOK'
<1> DEFINE x == payments[p]
           platform == <<Platform, x.pay_channel>>
           merchant == <<x.merchant, x.pay_channel>>
<1>1. /\ platform \in Purse
      /\ merchant \in Purse
      /\ x.pay_channel \in Channel
      /\ Platform \in Account /\ x.merchant \in Account
  BY PartsType, PurseType DEF Account
<1>2. TotalShare(x) \in Int /\ PaidPrice(x) \in Int /\ MerchantPart(x) \in Int
  BY PartsType
<1> HIDE DEF x
<1>n. -TotalShare(x) \in Int /\ -MerchantPart(x) \in Int
  BY <1>2
<1> USE DEF x
<1>3. payments' \in [Serial -> Payment]
  BY StatusType DEF OnRefundSuccess, PaymentStatus
<1>4. balance' \in [Purse -> Int]
  <2>1. Add(balance, merchant, -MerchantPart(x)) \in [Purse -> Int]
    BY <1>1, <1>n, AddType DEF TypeOK
  <2>2. Add(Add(balance, merchant, -MerchantPart(x)), platform, -TotalShare(x))
          \in [Purse -> Int]
    BY <1>1, <1>n, <2>1, AddType
  <2>3. QED
    BY <2>2 DEF OnRefundSuccess
<1>5. rows' \in Seq(Row)
  <2>1. balance[platform] \in Int /\ balance[merchant] \in Int
    BY <1>1 DEF TypeOK
  <2>2. rows' =
          <<[account |-> x.merchant, channel |-> x.pay_channel,
             amount |-> -MerchantPart(x), after |-> balance[merchant] - MerchantPart(x)],
            [account |-> Platform, channel |-> x.pay_channel,
             amount |-> MerchantPart(x),
             after |-> (balance[platform] - TotalShare(x)) + PaidPrice(x)],
            [account |-> Platform, channel |-> x.pay_channel,
             amount |-> -PaidPrice(x), after |-> balance[platform] - TotalShare(x)]>>
    BY DEF OnRefundSuccess
  <2> HIDE DEF platform, merchant, x
  <2>3. QED
    BY <1>1, <1>2, <2>1, <2>2 DEF Row
<1>6. coupons' \in [CouponId -> Coupon]
  BY ReplaceCouponType DEF OnRefundSuccess
<1>7. QED
  BY <1>3, <1>4, <1>5, <1>6 DEF OnRefundSuccess, TypeOK, RefundStatus

\* The end of a freeze with a coupon keeps the types.
LEMMA UnfreezeSharedType ==
  ASSUME TypeOK, NEW p \in Serial, UnfreezeShared(p)
  PROVE  TypeOK'
<1> DEFINE x == payments[p]
           ch == x.pay_channel
           originator == coupons[x.coupon].originator
           inviter == Inviter[x.merchant]
           kept == x.originator_share + x.inviter_share
           newPlatform == balance[<<Platform, ch>>] - kept
<1>1. /\ x.merchant \in Merchant /\ ch \in Channel
      /\ x.platform_share \in Nat
      /\ x.inviter_share \in Nat
      /\ x.originator_share \in Nat
      /\ MerchantPart(x) \in Int
  BY PartsType
<1>2. originator \in Merchant
  BY CouponType DEF UnfreezeShared
<1>3. inviter \in Marketer
  BY <1>1 DEF UnfreezeShared
<1>4. /\ <<Platform, ch>> \in Purse
      /\ <<originator, ch>> \in Purse
      /\ <<inviter, ch>> \in Purse
      /\ <<x.merchant, ch>> \in Purse
      /\ Platform \in Account /\ originator \in Account /\ inviter \in Account
  BY <1>1, <1>2, <1>3, PurseType DEF Account
<1>5. payments' \in [Serial -> Payment]
  BY StatusType DEF UnfreezeShared, PaymentStatus
<1>6. balance' = Add(Add(Add(balance, <<Platform, ch>>, -kept),
                   <<originator, ch>>, x.originator_share),
                   <<inviter, ch>>, x.inviter_share)
  BY DEF UnfreezeShared
<1>7. withdrawable' = Add(Add(Add(withdrawable, <<originator, ch>>, x.originator_share),
                        <<inviter, ch>>, x.inviter_share),
                        <<x.merchant, ch>>, MerchantPart(x))
  BY DEF UnfreezeShared
<1>8. rows' = <<[account |-> Platform, channel |-> ch, amount |-> -x.originator_share,
                 after |-> newPlatform + x.inviter_share],
                [account |-> Platform, channel |-> ch, amount |-> -x.inviter_share,
                 after |-> newPlatform],
                [account |-> Platform, channel |-> ch, amount |-> -x.platform_share,
                 after |-> newPlatform - x.platform_share],
                [account |-> Platform, channel |-> ch, amount |-> x.platform_share,
                 after |-> newPlatform],
                [account |-> originator, channel |-> ch, amount |-> x.originator_share,
                 after |-> balance[<<originator, ch>>] + x.originator_share],
                [account |-> inviter, channel |-> ch, amount |-> x.inviter_share,
                 after |-> balance[<<inviter, ch>>] + x.inviter_share]>>
  BY DEF UnfreezeShared
<1>9. /\ balance \in [Purse -> Int]
      /\ withdrawable \in [Purse -> Int]
  BY DEF TypeOK
<1>10. /\ kept \in Int /\ -kept \in Int
       /\ x.originator_share \in Int /\ x.inviter_share \in Int
  BY <1>1
<1>u. refunds' = refunds /\ coupons' = coupons /\ paidOut' = paidOut
  BY DEF UnfreezeShared
<1> HIDE DEF x, ch, originator, inviter, kept, newPlatform
<1>11. balance' \in [Purse -> Int]
  <2>1. Add(balance, <<Platform, ch>>, -kept) \in [Purse -> Int]
    BY <1>4, <1>9, <1>10, AddType
  <2>2. Add(Add(balance, <<Platform, ch>>, -kept),
            <<originator, ch>>, x.originator_share) \in [Purse -> Int]
    BY <1>4, <1>10, <2>1, AddType
  <2>3. QED
    BY <1>4, <1>6, <1>10, <2>2, AddType
<1>12. withdrawable' \in [Purse -> Int]
  <2>1. Add(withdrawable, <<originator, ch>>, x.originator_share) \in [Purse -> Int]
    BY <1>4, <1>9, <1>10, AddType
  <2>2. Add(Add(withdrawable, <<originator, ch>>, x.originator_share),
            <<inviter, ch>>, x.inviter_share) \in [Purse -> Int]
    BY <1>4, <1>10, <2>1, AddType
  <2>3. QED
    BY <1>1, <1>4, <1>7, <2>2, AddType
<1>13. rows' \in Seq(Row)
  <2>1. newPlatform \in Int
    BY <1>4, <1>9, <1>10 DEF newPlatform
  <2>2. balance[<<originator, ch>>] \in Int /\ balance[<<inviter, ch>>] \in Int
    BY <1>4, <1>9
  <2>3. QED
    BY <1>1, <1>4, <1>8, <2>1, <2>2 DEF Row
<1>14. QED
  <2>1. /\ refunds' \in [Serial -> RefundStatus]
        /\ coupons' \in [CouponId -> Coupon]
        /\ paidOut' \in [Purse -> Int]
    BY <1>u DEF TypeOK
  <2>2. QED
    BY <1>5, <1>11, <1>12, <1>13, <2>1 DEF TypeOK

\* The end of a freeze without a coupon keeps the types.
LEMMA UnfreezePlainType ==
  ASSUME TypeOK, NEW p \in Serial, UnfreezePlain(p)
  PROVE  TypeOK'
<1>1. payments' \in [Serial -> Payment]
  BY StatusType DEF UnfreezePlain, PaymentStatus
<1>2. withdrawable' \in [Purse -> Int]
  <2>1. <<payments[p].merchant, payments[p].pay_channel>> \in Purse
    BY PartsType, PurseType
  <2>2. payments[p].order_price \in Int
    BY PartsType
  <2>3. withdrawable' = Add(withdrawable,
                            <<payments[p].merchant, payments[p].pay_channel>>,
                            payments[p].order_price)
    BY DEF UnfreezePlain
  <2>4. QED
    BY <2>1, <2>2, <2>3, AddType DEF TypeOK
<1>3. /\ refunds' = refunds /\ coupons' = coupons
      /\ balance' = balance /\ paidOut' = paidOut /\ rows' = << >>
  BY DEF UnfreezePlain
<1>4. QED
  BY <1>1, <1>2, <1>3 DEF TypeOK

\* A purse that pays out keeps the types.
LEMMA PayOutType ==
  ASSUME TypeOK, NEW purse \in Purse, NEW n \in Nat, PayOut(purse, n)
  PROVE  /\ balance' \in [Purse -> Int]
         /\ withdrawable' \in [Purse -> Int]
         /\ paidOut' \in [Purse -> Int]
         /\ PayOutRow(purse, n) \in Row
<1>1. -n \in Int /\ n \in Int
  OBVIOUS
<1>2. PayOutRow(purse, n) \in Row
  BY DEF TypeOK, PayOutRow, Row, Purse
<1>3. QED
  BY <1>1, <1>2, AddType DEF PayOut, TakeOut, TypeOK

\* A settlement keeps the types, whatever it settles.
LEMMA SettleType ==
  ASSUME TypeOK, NEW m \in Enterprise, NEW w \in Nat, NEW a \in Nat, Settle(m, w, a)
  PROVE  TypeOK'
<1> DEFINE wp == <<m, "WECHAT">>
           ap == <<m, "ALIPAY">>
<1>1. wp \in Purse /\ ap \in Purse
  BY PurseType DEF Channel
<1>2. /\ w \in Int /\ -w \in Int
      /\ a \in Int /\ -a \in Int
  OBVIOUS
<1>3. PayOutRow(wp, w) \in Row /\ PayOutRow(ap, a) \in Row
  BY <1>1, <1>2 DEF PayOutRow, Row, TypeOK, Purse
<1>4. /\ Add(balance, wp, -w) \in [Purse -> Int]
      /\ Add(withdrawable, wp, -w) \in [Purse -> Int]
      /\ Add(paidOut, wp, w) \in [Purse -> Int]
  <2> HIDE DEF wp
  <2>1. QED
    BY <1>1, <1>2, AddType DEF TypeOK
<1>5. /\ Add(Add(balance, wp, -w), ap, -a) \in [Purse -> Int]
      /\ Add(Add(withdrawable, wp, -w), ap, -a) \in [Purse -> Int]
      /\ Add(Add(paidOut, wp, w), ap, a) \in [Purse -> Int]
  <2> HIDE DEF wp, ap
  <2>1. QED
    BY <1>1, <1>2, <1>4, AddType
<1>6. /\ balance' = Add(Add(balance, wp, -w), ap, -a)
      /\ withdrawable' = Add(Add(withdrawable, wp, -w), ap, -a)
      /\ paidOut' = Add(Add(paidOut, wp, w), ap, a)
      /\ rows' = <<PayOutRow(wp, w), PayOutRow(ap, a)>>
      /\ payments' = payments /\ refunds' = refunds /\ coupons' = coupons
  BY DEF Settle
<1> HIDE DEF wp, ap
<1>7. QED
  BY <1>3, <1>5, <1>6 DEF TypeOK

\* Money that leaves the platform keeps the types.
LEMMA MoneyOutType ==
  ASSUME TypeOK, MoneyOut
  PROVE  TypeOK'
<1>1. ASSUME NEW a \in Merchant \cup Marketer, NEW ch \in Channel, NEW n \in Amount,
             Withdraw(a, ch, n)
      PROVE  TypeOK'
  <2>1. <<a, ch>> \in Purse /\ n \in Nat
    BY PurseType
  <2>2. QED
    BY <1>1, <2>1, PayOutType DEF Withdraw, TypeOK
<1>2. ASSUME NEW n \in Amount, Transfer(n)
      PROVE  TypeOK'
  <2>1. <<Platform, "ALIPAY">> \in Purse /\ n \in Nat
    BY PurseType DEF Channel
  <2>2. QED
    BY <1>2, <2>1, PayOutType DEF Transfer, TypeOK
<1>3. ASSUME NEW m \in Enterprise, NEW w \in Amount, NEW a \in Amount, Settle(m, w, a)
      PROVE  TypeOK'
  BY <1>3, SettleType
<1>4. QED
  BY <1>1, <1>2, <1>3 DEF MoneyOut

\* Every step keeps the types.
LEMMA NextTypeOK == TypeOK /\ [Next]_vars => TypeOK'
<1> SUFFICES ASSUME TypeOK, [Next]_vars PROVE TypeOK'
  OBVIOUS
<1>1. ASSUME NEW p \in Serial, PaymentStep(p) PROVE TypeOK'
  BY <1>1, PlaceOrderType, CancelOrderType, OnPaymentSuccessType, RequestRefundType,
     OnRefundFailType, OnRefundSuccessType, UnfreezeSharedType, UnfreezePlainType
     DEF PaymentStep, OnPaymentUnfreeze
<1>2. CASE MoneyOut
  BY <1>2, MoneyOutType
<1>3. CASE UNCHANGED vars
  BY <1>3 DEF vars, TypeOK
<1>4. QED
  BY <1>1, <1>2, <1>3 DEF Next

\* Every table keeps its type, whatever the order of the transactions.
THEOREM TypeCorrect == Spec => []TypeOK
<1>1. Init => TypeOK
  BY InitTypeOK
<1>2. TypeOK /\ [Next]_vars => TypeOK'
  BY NextTypeOK
<1>3. QED
  BY <1>1, <1>2, PTL DEF Spec

-----------------------------------------------------------------------------
(* The refund of a payment *)

\* The statuses after a step that changes one of them.
LEMMA StatusValue ==
  ASSUME TypeOK, NEW p \in Serial, NEW s,
         payments' = [payments EXCEPT ![p].status = s]
  PROVE  /\ payments'[p].status = s
         /\ \A q \in Serial : q # p => payments'[q].status = payments[q].status
<1>1. payments \in [Serial -> Payment] /\ payments[p] \in Payment
  BY DEF TypeOK
<1>2. payments'[p] = [payments[p] EXCEPT !.status = s]
  BY <1>1
<1>3. QED
  BY <1>1, <1>2 DEF Payment

\* Every step keeps a payment and its Refund row matched.
LEMMA NextRefundMatches ==
  TypeOK /\ RefundMatchesPayment /\ [Next]_vars => RefundMatchesPayment'
<1> SUFFICES ASSUME TypeOK, RefundMatchesPayment, [Next]_vars
             PROVE  RefundMatchesPayment'
  OBVIOUS
<1>1. \A q \in Serial :
        /\ refunds[q] = "REQUESTED" <=> payments[q].status = "REFUND_REQUESTED"
        /\ refunds[q] = "FAILED" <=> payments[q].status = "REFUND_FAILED"
        /\ refunds[q] = "FINISHED" <=> payments[q].status = "REFUND"
  BY DEF RefundMatchesPayment
<1>2. refunds \in [Serial -> RefundStatus]
  BY DEF TypeOK
<1>3. ASSUME NEW p \in Serial, PaymentStep(p) PROVE RefundMatchesPayment'
  <2>1. ASSUME NEW ch \in Channel, NEW m \in Merchant, NEW c \in CouponId \cup {NoCoupon},
               NEW price \in OrderPrice, PlaceOrder(p, ch, m, c, price)
        PROVE  RefundMatchesPayment'
    <3> DEFINE shares == SharesOf(price - (IF c # NoCoupon THEN coupons[c].discount ELSE 0),
                                  c # NoCoupon)
               new == [status |-> "UNPAID", pay_channel |-> ch, merchant |-> m,
                       coupon |-> c, order_price |-> price,
                       platform_share |-> shares.platform_share,
                       inviter_share |-> shares.inviter_share,
                       originator_share |-> shares.originator_share]
    <3>1. payments' = [payments EXCEPT ![p] = new] /\ new.status = "UNPAID"
      BY <2>1 DEF PlaceOrder
    <3> HIDE DEF new
    <3>2. payments'[p] = new /\ \A q \in Serial : q # p => payments'[q] = payments[q]
      BY <3>1 DEF TypeOK
    <3>3. payments'[p].status = "UNPAID"
      BY <3>1, <3>2
    <3>4. refunds' = refunds /\ payments[p].status = "NONE"
      BY <2>1 DEF PlaceOrder
    <3>5. QED
      BY <1>1, <3>2, <3>3, <3>4 DEF RefundMatchesPayment
  <2>2. CASE CancelOrder(p)
    <3>1. /\ payments' = [payments EXCEPT ![p].status = "CANCELLED"]
          /\ payments[p].status = "UNPAID" /\ refunds' = refunds
      BY <2>2 DEF CancelOrder
    <3>2. QED
      BY <1>1, <3>1, StatusValue DEF RefundMatchesPayment
  <2>3. CASE OnPaymentSuccess(p)
    <3>1. /\ payments' = [payments EXCEPT ![p].status = "FROZEN"]
          /\ payments[p].status = "UNPAID" /\ refunds' = refunds
      BY <2>3 DEF OnPaymentSuccess
    <3>2. QED
      BY <1>1, <3>1, StatusValue DEF RefundMatchesPayment
  <2>4. CASE RequestRefund(p)
    <3>1. /\ payments' = [payments EXCEPT ![p].status = "REFUND_REQUESTED"]
          /\ refunds' = [refunds EXCEPT ![p] = "REQUESTED"]
      BY <2>4 DEF RequestRefund
    <3>2. /\ payments'[p].status = "REFUND_REQUESTED"
          /\ \A q \in Serial : q # p => payments'[q].status = payments[q].status
      BY <3>1, StatusValue
    <3>3. /\ refunds'[p] = "REQUESTED"
          /\ \A q \in Serial : q # p => refunds'[q] = refunds[q]
      BY <1>2, <3>1
    <3>4. QED
      BY <1>1, <3>2, <3>3 DEF RefundMatchesPayment
  <2>5. CASE OnRefundFail(p)
    <3>1. /\ payments' = [payments EXCEPT ![p].status = "REFUND_FAILED"]
          /\ refunds' = [refunds EXCEPT ![p] = "FAILED"]
      BY <2>5 DEF OnRefundFail
    <3>2. /\ payments'[p].status = "REFUND_FAILED"
          /\ \A q \in Serial : q # p => payments'[q].status = payments[q].status
      BY <3>1, StatusValue
    <3>3. /\ refunds'[p] = "FAILED"
          /\ \A q \in Serial : q # p => refunds'[q] = refunds[q]
      BY <1>2, <3>1
    <3>4. QED
      BY <1>1, <3>2, <3>3 DEF RefundMatchesPayment
  <2>6. CASE OnRefundSuccess(p)
    <3>1. /\ payments' = [payments EXCEPT ![p].status = "REFUND"]
          /\ refunds' = [refunds EXCEPT ![p] = "FINISHED"]
      BY <2>6 DEF OnRefundSuccess
    <3>2. /\ payments'[p].status = "REFUND"
          /\ \A q \in Serial : q # p => payments'[q].status = payments[q].status
      BY <3>1, StatusValue
    <3>3. /\ refunds'[p] = "FINISHED"
          /\ \A q \in Serial : q # p => refunds'[q] = refunds[q]
      BY <1>2, <3>1
    <3>4. QED
      BY <1>1, <3>2, <3>3 DEF RefundMatchesPayment
  <2>7. CASE OnPaymentUnfreeze(p)
    <3>1. /\ payments' = [payments EXCEPT ![p].status = "FINISHED"]
          /\ payments[p].status = "FROZEN" /\ refunds' = refunds
      BY <2>7 DEF OnPaymentUnfreeze, UnfreezeShared, UnfreezePlain
    <3>2. QED
      BY <1>1, <3>1, StatusValue DEF RefundMatchesPayment
  <2>8. QED
    BY <1>3, <2>1, <2>2, <2>3, <2>4, <2>5, <2>6, <2>7 DEF PaymentStep
<1>4. CASE MoneyOut
  BY <1>4 DEF MoneyOut, Withdraw, Transfer, Settle, RefundMatchesPayment
<1>5. CASE UNCHANGED vars
  BY <1>5 DEF vars, RefundMatchesPayment
<1>6. QED
  BY <1>3, <1>4, <1>5 DEF Next

\* The status pair that the refund transactions test is never torn.
THEOREM RefundCorrect == Spec => []RefundMatchesPayment
<1>1. Init => RefundMatchesPayment
  BY DEF Init, RefundMatchesPayment, NoPayment
<1>2. TypeOK /\ RefundMatchesPayment /\ [Next]_vars => RefundMatchesPayment'
  BY NextRefundMatches
<1>3. QED
  BY <1>1, <1>2, TypeCorrect, PTL DEF Spec

-----------------------------------------------------------------------------
(* Coupons.  A coupon is taken when it is NOT_USED, so that no payment has *)
(* it; when it is replaced it is USED, so that the one payment that has it *)
(* is the one that comes to nothing.                                       *)

USE CouponAssumption

Live == {c \in CouponId : coupons[c].status \in {"NOT_USED", "USED"}}

\* A serial number that was not given away has no coupon.
UnplacedIsEmpty ==
  \A p \in Serial : payments[p].status = "NONE" => ~HasCoupon(payments[p])

\* What the two tables say of each other
CouponTables ==
  /\ TypeOK
  /\ UnplacedIsEmpty
  /\ CouponMatchesPayment

CouponInvariant == CouponTables /\ CouponsConserved

\* Payments keep their merchants once they are placed.
Steady == \A p \in Serial : payments[p].status # "NONE" =>
            payments'[p].status # "NONE" /\ payments'[p].merchant = payments[p].merchant

\* Coupon d of the next state has the terms of coupon c.
SameTerms(c, d) ==
  /\ coupons'[d].rule = coupons[c].rule /\ coupons'[d].originator = coupons[c].originator
  /\ coupons'[d].discount = coupons[c].discount
  /\ coupons'[d].min_charge = coupons[c].min_charge

\* An order takes coupon c, ...
TakesCoupon(c) ==
  /\ coupons[c].status = "NOT_USED" /\ coupons'[c].status = "USED" /\ SameTerms(c, c)
  /\ \A k \in CouponId : k # c => coupons'[k] = coupons[k]

\* ... and a payment that comes to nothing has its coupon u replaced by c.
RenewsCoupon(u, c) ==
  /\ coupons[u].status = "USED" /\ coupons'[u].status = "DESTROYED" /\ SameTerms(u, u)
  /\ coupons[c].status = "NONE" /\ coupons'[c].status = "NOT_USED" /\ SameTerms(u, c)
  /\ \A k \in CouponId : k # u /\ k # c => coupons'[k] = coupons[k]

\* All that a transaction of the ledger does to coupons
CouponMoves ==
  \/ coupons' = coupons
  \/ \E c \in CouponId : TakesCoupon(c)
  \/ \E u, c \in CouponId : RenewsCoupon(u, c)

CameToNothing == {"CANCELLED", "REFUND"}

----------------------------------------------------------------------------
\* Any set of coupons can be counted.
LEMMA CouponsFinite ==
  ASSUME NEW S \in SUBSET CouponId
  PROVE  IsFiniteSet(S)
<1>1. IsFiniteSet(CouponId)
  BY FS_Interval DEF CouponId
<1>2. QED
  BY <1>1, FS_Subset

LEMMA InitCoupons == Init => CouponInvariant
<1> SUFFICES ASSUME Init PROVE CouponInvariant
  OBVIOUS
<1> DEFINE L == Len(InitialCoupons)
<1>1. L \in Nat /\ L <= NCoupons /\ 1..L \subseteq CouponId
  BY DEF CouponId
<1>2. \A c \in CouponId : coupons[c].status = IF c \in 1..L THEN "NOT_USED" ELSE "NONE"
  BY DEF Init, NoCouponRow
<1>3. \A p \in Serial : payments[p].status = "NONE" /\ payments[p].coupon = NoCoupon
  BY DEF Init, NoPayment
<1> HIDE DEF L
<1>4. UnplacedIsEmpty
  BY <1>3 DEF UnplacedIsEmpty, HasCoupon
<1>5. CouponMatchesPayment
  <2>1. \A c \in CouponId : coupons[c].status \notin {"USED", "DESTROYED"}
    BY <1>2
  <2>2. QED
    BY <1>3, <2>1 DEF CouponMatchesPayment, HasCoupon
<1>6. Live = 1..L
  BY <1>1, <1>2 DEF Live
<1>7. Cardinality(1..L) = L
  BY <1>1, FS_Interval
<1>8. CouponsConserved
  BY <1>6, <1>7 DEF CouponsConserved, Live, L
<1>9. QED
  BY <1>4, <1>5, <1>8, InitTypeOK DEF CouponInvariant, CouponTables

----------------------------------------------------------------------------
\* A payment that moves on and does not come to nothing keeps its coupon.
LEMMA MovesOn ==
  ASSUME CouponTables, TypeOK', NEW p \in Serial, NEW s,
         payments' = [payments EXCEPT ![p].status = s],
         coupons' = coupons,
         payments[p].status \notin CameToNothing \cup {"NONE"},
         s \notin CameToNothing \cup {"NONE"}
  PROVE  CouponTables' /\ CouponMoves /\ Steady
<1>1. /\ payments \in [Serial -> Payment] /\ payments[p] \in Payment
      /\ payments'[p] = [payments[p] EXCEPT !.status = s]
      /\ \A q \in Serial : q # p => payments'[q] = payments[q]
  BY DEF CouponTables, TypeOK
<1>2. payments'[p].status = s /\ payments'[p].coupon = payments[p].coupon
  BY <1>1 DEF Payment
<1>3. \A q \in Serial : payments'[q].coupon = payments[q].coupon
  BY <1>1, <1>2
<1>4. UnplacedIsEmpty'
  BY <1>1, <1>2, <1>3 DEF CouponTables, UnplacedIsEmpty, HasCoupon
<1>5. \A q \in Serial : (payments'[q].status \in CameToNothing)
                          <=> (payments[q].status \in CameToNothing)
  BY <1>1, <1>2
<1>6. CouponMatchesPayment'
  BY <1>3, <1>5 DEF CouponTables, CouponMatchesPayment, HasCoupon, CameToNothing
<1>7. CouponMoves
  BY DEF CouponMoves
<1>8. Steady
  BY <1>1, <1>2 DEF Payment, Steady
<1>9. QED
  BY <1>4, <1>6, <1>7, <1>8 DEF CouponTables

\* A payment that comes to nothing has its coupon replaced.
LEMMA ComesToNothing ==
  ASSUME CouponTables, TypeOK', NEW p \in Serial, NEW s \in CameToNothing,
         payments' = [payments EXCEPT ![p].status = s],
         payments[p].status \notin CameToNothing \cup {"NONE"},
         ReplaceCoupon(payments[p])
  PROVE  CouponTables' /\ CouponMoves /\ Steady
<1>1. /\ payments \in [Serial -> Payment] /\ payments[p] \in Payment
      /\ payments'[p] = [payments[p] EXCEPT !.status = s]
      /\ \A q \in Serial : q # p => payments'[q] = payments[q]
  BY DEF CouponTables, TypeOK
<1>2. payments'[p].status = s /\ payments'[p].coupon = payments[p].coupon
  BY <1>1 DEF Payment
<1>3. \A q \in Serial : payments'[q].coupon = payments[q].coupon
  BY <1>1, <1>2
<1>4. UnplacedIsEmpty'
  BY <1>1, <1>2, <1>3 DEF CouponTables, UnplacedIsEmpty, HasCoupon, CameToNothing
<1>n. Steady
  BY <1>1, <1>2 DEF Payment, Steady, CameToNothing
<1>5. CASE ~HasCoupon(payments[p])
  <2>1. coupons' = coupons
    BY <1>5 DEF ReplaceCoupon
  <2>2. \A q \in Serial : HasCoupon(payments[q]) => payments'[q] = payments[q]
    BY <1>1, <1>5
  <2>3. CouponMatchesPayment'
    <3>1. CouponMatchesPayment
      BY DEF CouponTables
    <3>2. \A q, r \in Serial : payments'[q].coupon = payments'[r].coupon
                                 => q = r \/ payments'[q].coupon = NoCoupon
      BY <1>3, <3>1 DEF CouponMatchesPayment
    <3>3. ASSUME NEW q \in Serial, HasCoupon(payments'[q])
          PROVE  coupons'[payments'[q].coupon].status =
                   IF payments'[q].status \in {"CANCELLED", "REFUND"} THEN "DESTROYED" ELSE "USED"
      <4>1. HasCoupon(payments[q]) /\ payments'[q] = payments[q]
        BY <1>3, <2>2, <3>3 DEF HasCoupon
      <4>2. coupons[payments[q].coupon].status =
              IF payments[q].status \in {"CANCELLED", "REFUND"} THEN "DESTROYED" ELSE "USED"
        BY <4>1, <3>1 DEF CouponMatchesPayment
      <4>3. QED
        BY <4>1, <4>2, <2>1
    <3>4. \A k \in CouponId : coupons'[k].status \in {"USED", "DESTROYED"}
                                => \E q \in Serial : payments'[q].coupon = k
      BY <1>3, <2>1, <3>1 DEF CouponMatchesPayment
    <3>5. QED
      BY <3>2, <3>3, <3>4 DEF CouponMatchesPayment, HasCoupon
  <2>4. CouponMoves
    BY <2>1 DEF CouponMoves
  <2>5. QED
    BY <1>n, <1>4, <2>3, <2>4 DEF CouponTables
<1>6. CASE HasCoupon(payments[p])
  <2> DEFINE u == payments[p].coupon
  <2>1. u \in CouponId /\ coupons[u].status = "USED"
    BY <1>6, CouponType DEF CouponTables, CouponMatchesPayment, CameToNothing
  <2>2. PICK c \in CouponId :
          /\ coupons[c].status = "NONE"
          /\ coupons' = [coupons EXCEPT ![u].status = "DESTROYED",
                                        ![c] = [coupons[u] EXCEPT !.status = "NOT_USED"]]
    BY <1>6 DEF ReplaceCoupon, Fresh
  <2>3. coupons \in [CouponId -> Coupon] /\ coupons[u] \in Coupon
    BY <2>1 DEF CouponTables, TypeOK
  <2>4. u = payments[p].coupon
    OBVIOUS
  <2> HIDE DEF u
  <2>5. c # u
    BY <2>1, <2>2
  <2>6. /\ coupons'[c] = [coupons[u] EXCEPT !.status = "NOT_USED"]
        /\ coupons'[u] = [coupons[u] EXCEPT !.status = "DESTROYED"]
        /\ \A k \in CouponId : k # u /\ k # c => coupons'[k] = coupons[k]
    BY <2>1, <2>2, <2>3, <2>5
  <2>7. coupons'[c].status = "NOT_USED" /\ coupons'[u].status = "DESTROYED"
    BY <2>3, <2>6 DEF Coupon
  <2>8. \A q \in Serial : q # p => payments[q].coupon # u
    BY <1>6, <2>4 DEF CouponTables, CouponMatchesPayment, HasCoupon
  <2>9. \A q \in Serial : payments[q].coupon # c
    <3>1. ASSUME NEW q \in Serial, payments[q].coupon = c PROVE FALSE
      <4>1. HasCoupon(payments[q])
        BY <3>1 DEF HasCoupon, CouponId, NoCoupon
      <4>2. coupons[c].status \in {"USED", "DESTROYED"}
        BY <3>1, <4>1 DEF CouponTables, CouponMatchesPayment
      <4>3. QED
        BY <2>2, <4>2
    <3>2. QED
      BY <3>1
  <2>10. CouponMatchesPayment'
    <3>1. \A q, r \in Serial : payments'[q].coupon = payments'[r].coupon
                                 => q = r \/ payments'[q].coupon = NoCoupon
      BY <1>3 DEF CouponTables, CouponMatchesPayment
    <3>2. ASSUME NEW q \in Serial, HasCoupon(payments'[q])
          PROVE  coupons'[payments'[q].coupon].status =
                   IF payments'[q].status \in CameToNothing THEN "DESTROYED" ELSE "USED"
      <4>1. CASE q = p
        BY <4>1, <1>2, <2>4, <2>7
      <4>2. CASE q # p
        <5>1. payments'[q] = payments[q] /\ HasCoupon(payments[q])
          BY <4>2, <1>1, <3>2
        <5>2. payments[q].coupon \in CouponId \ {u, c}
          BY <4>2, <5>1, <2>8, <2>9, CouponType DEF CouponTables
        <5>3. coupons'[payments[q].coupon] = coupons[payments[q].coupon]
          BY <5>2, <2>6
        <5>4. coupons[payments[q].coupon].status =
                IF payments[q].status \in CameToNothing THEN "DESTROYED" ELSE "USED"
          BY <5>1 DEF CouponTables, CouponMatchesPayment, CameToNothing
        <5>5. QED
          BY <5>1, <5>3, <5>4
      <4>3. QED
        BY <4>1, <4>2
    <3>3. ASSUME NEW k \in CouponId, coupons'[k].status \in {"USED", "DESTROYED"}
          PROVE  \E q \in Serial : payments'[q].coupon = k
      <4>1. CASE k = u
        BY <4>1, <1>3, <2>4
      <4>2. CASE k # u
        <5>1. k # c /\ coupons'[k] = coupons[k]
          BY <4>2, <3>3, <2>6, <2>7
        <5>2. QED
          BY <5>1, <3>3, <1>3 DEF CouponTables, CouponMatchesPayment
      <4>3. QED
        BY <4>1, <4>2
    <3>4. QED
      BY <3>1, <3>2, <3>3 DEF CouponMatchesPayment, HasCoupon, CameToNothing
  <2>11. CouponMoves
    <3>1. SameTerms(u, u) /\ SameTerms(u, c)
      BY <2>3, <2>6 DEF Coupon, SameTerms
    <3>2. RenewsCoupon(u, c)
      BY <2>1, <2>2, <2>6, <2>7, <3>1 DEF RenewsCoupon
    <3>3. QED
      BY <2>1, <3>2 DEF CouponMoves
  <2>12. QED
    BY <1>n, <1>4, <2>10, <2>11 DEF CouponTables
<1>7. QED
  BY <1>5, <1>6

\* An order takes a coupon that no payment has.
LEMMA OrderKeepsCoupons ==
  ASSUME CouponTables, TypeOK', NEW p \in Serial, NEW ch \in Channel,
         NEW m \in Merchant, NEW c \in CouponId \cup {NoCoupon}, NEW price \in OrderPrice,
         PlaceOrder(p, ch, m, c, price)
  PROVE  CouponTables' /\ CouponMoves /\ Steady
<1>1. /\ payments[p].status = "NONE"
      /\ payments'[p].status = "UNPAID" /\ payments'[p].coupon = c
      /\ \A q \in Serial : q # p => payments'[q] = payments[q]
  BY DEF PlaceOrder, CouponTables, TypeOK
<1>2. ~HasCoupon(payments[p])
  BY <1>1 DEF CouponTables, UnplacedIsEmpty
<1>3. UnplacedIsEmpty'
  BY <1>1 DEF CouponTables, UnplacedIsEmpty, HasCoupon
<1>n. Steady
  BY <1>1 DEF Steady
<1>4. CASE c = NoCoupon
  <2>1. coupons' = coupons
    BY <1>4 DEF PlaceOrder
  <2>2. \A q \in Serial : payments'[q].coupon = payments[q].coupon
    BY <1>1, <1>2, <1>4 DEF HasCoupon
  <2>3. CouponMatchesPayment'
    BY <1>1, <1>4, <2>1, <2>2 DEF CouponTables, CouponMatchesPayment, HasCoupon
  <2>4. CouponMoves
    BY <2>1 DEF CouponMoves
  <2>5. QED
    BY <1>n, <1>3, <2>3, <2>4 DEF CouponTables
<1>5. CASE c # NoCoupon
  <2>1. /\ c \in CouponId /\ coupons[c].status = "NOT_USED"
        /\ coupons' = [coupons EXCEPT ![c].status = "USED"]
        /\ coupons \in [CouponId -> Coupon] /\ coupons[c] \in Coupon
    BY <1>5 DEF PlaceOrder, NoCoupon, CouponTables, TypeOK
  <2>2. /\ coupons'[c] = [coupons[c] EXCEPT !.status = "USED"]
        /\ \A k \in CouponId : k # c => coupons'[k] = coupons[k]
    BY <2>1
  <2>3. coupons'[c].status = "USED"
    BY <2>1, <2>2 DEF Coupon
  <2>4. \A q \in Serial : payments[q].coupon # c
    <3>1. ASSUME NEW q \in Serial, payments[q].coupon = c PROVE FALSE
      <4>1. coupons[c].status \in {"USED", "DESTROYED"}
        BY <3>1, <1>5 DEF CouponTables, CouponMatchesPayment, HasCoupon
      <4>2. QED
        BY <2>1, <4>1
    <3>2. QED
      BY <3>1
  <2>5. CouponMatchesPayment'
    <3>1. \A q, r \in Serial : payments'[q].coupon = payments'[r].coupon
                                 => q = r \/ payments'[q].coupon = NoCoupon
      BY <1>1, <2>4 DEF CouponTables, CouponMatchesPayment
    <3>2. ASSUME NEW q \in Serial, HasCoupon(payments'[q])
          PROVE  coupons'[payments'[q].coupon].status =
                   IF payments'[q].status \in CameToNothing THEN "DESTROYED" ELSE "USED"
      <4>1. CASE q = p
        BY <4>1, <1>1, <2>3 DEF CameToNothing
      <4>2. CASE q # p
        <5>1. payments'[q] = payments[q] /\ HasCoupon(payments[q])
          BY <4>2, <1>1, <3>2
        <5>2. payments[q].coupon \in CouponId \ {c}
          BY <5>1, <2>4, CouponType DEF CouponTables
        <5>3. QED
          BY <5>1, <5>2, <2>2 DEF CouponTables, CouponMatchesPayment, CameToNothing
      <4>3. QED
        BY <4>1, <4>2
    <3>3. ASSUME NEW k \in CouponId, coupons'[k].status \in {"USED", "DESTROYED"}
          PROVE  \E q \in Serial : payments'[q].coupon = k
      <4>1. CASE k = c
        BY <4>1, <1>1
      <4>2. CASE k # c
        <5>1. PICK q \in Serial : payments[q].coupon = k
          BY <4>2, <3>3, <2>2 DEF CouponTables, CouponMatchesPayment
        <5>2. q # p
          BY <5>1, <1>2 DEF HasCoupon, CouponId, NoCoupon
        <5>3. QED
          BY <5>1, <5>2, <1>1
      <4>3. QED
        BY <4>1, <4>2
    <3>4. QED
      BY <3>1, <3>2, <3>3 DEF CouponMatchesPayment, HasCoupon, CameToNothing
  <2>6. SameTerms(c, c)
    BY <2>1, <2>2 DEF Coupon, SameTerms
  <2>7. CouponMoves
    <3>1. TakesCoupon(c)
      BY <2>1, <2>2, <2>3, <2>6 DEF TakesCoupon
    <3>2. QED
      BY <2>1, <3>1 DEF CouponMoves
  <2>8. QED
    BY <1>n, <1>3, <2>5, <2>7 DEF CouponTables
<1>6. QED
  BY <1>4, <1>5

----------------------------------------------------------------------------
\* A step that writes neither table changes nothing about them.
LEMMA SameTables ==
  ASSUME CouponTables, TypeOK', payments' = payments, coupons' = coupons
  PROVE  CouponTables' /\ CouponMoves /\ Steady
BY DEF CouponTables, UnplacedIsEmpty, CouponMatchesPayment, HasCoupon, CouponMoves, Steady

LEMMA NextTables ==
  ASSUME CouponTables, [Next]_vars
  PROVE  CouponTables' /\ CouponMoves /\ Steady
<1> DEFINE Kept == CouponTables' /\ CouponMoves /\ Steady
<1> SUFFICES Kept
  OBVIOUS
<1>1. TypeOK'
  BY NextTypeOK DEF CouponTables
<1>n. {"FROZEN", "REFUND_REQUESTED", "REFUND_FAILED", "FINISHED"}
        \cap (CameToNothing \cup {"NONE"}) = {}
  BY DEF CameToNothing
<1>2. ASSUME NEW p \in Serial, PaymentStep(p) PROVE Kept
  <2>1. ASSUME NEW ch \in Channel, NEW m \in Merchant, NEW c \in CouponId \cup {NoCoupon},
               NEW price \in OrderPrice, PlaceOrder(p, ch, m, c, price)
        PROVE  Kept
    BY <1>1, <2>1, OrderKeepsCoupons
  <2>2. CASE CancelOrder(p)
    BY <1>1, <2>2, ComesToNothing DEF CancelOrder, CameToNothing
  <2>3. CASE OnPaymentSuccess(p)
    <3>1. /\ payments' = [payments EXCEPT ![p].status = "FROZEN"]
          /\ payments[p].status = "UNPAID" /\ coupons' = coupons
      BY <2>3 DEF OnPaymentSuccess
    <3>2. payments[p].status \notin CameToNothing \cup {"NONE"}
      BY <3>1 DEF CameToNothing
    <3>3. QED
      BY <1>1, <3>1, <3>2, <1>n, MovesOn
  <2>4. CASE RequestRefund(p)
    <3>1. /\ payments' = [payments EXCEPT ![p].status = "REFUND_REQUESTED"]
          /\ payments[p].status \in {"FROZEN", "REFUND_FAILED"} /\ coupons' = coupons
      BY <2>4 DEF RequestRefund
    <3>2. payments[p].status \notin CameToNothing \cup {"NONE"}
      BY <3>1 DEF CameToNothing
    <3>3. QED
      BY <1>1, <3>1, <3>2, <1>n, MovesOn
  <2>5. CASE OnRefundFail(p)
    <3>1. /\ payments' = [payments EXCEPT ![p].status = "REFUND_FAILED"]
          /\ payments[p].status = "REFUND_REQUESTED" /\ coupons' = coupons
      BY <2>5 DEF OnRefundFail, RefundPending
    <3>2. payments[p].status \notin CameToNothing \cup {"NONE"}
      BY <3>1 DEF CameToNothing
    <3>3. QED
      BY <1>1, <3>1, <3>2, <1>n, MovesOn
  <2>6. CASE OnRefundSuccess(p)
    <3>1. /\ payments' = [payments EXCEPT ![p].status = "REFUND"]
          /\ payments[p].status = "REFUND_REQUESTED"
          /\ ReplaceCoupon(payments[p])
      BY <2>6 DEF OnRefundSuccess, RefundPending
    <3>2. QED
      BY <1>1, <3>1, ComesToNothing DEF CameToNothing
  <2>7. CASE OnPaymentUnfreeze(p)
    <3>1. /\ payments' = [payments EXCEPT ![p].status = "FINISHED"]
          /\ payments[p].status = "FROZEN" /\ coupons' = coupons
      BY <2>7 DEF OnPaymentUnfreeze, UnfreezeShared, UnfreezePlain
    <3>2. payments[p].status \notin CameToNothing \cup {"NONE"}
      BY <3>1 DEF CameToNothing
    <3>3. QED
      BY <1>1, <3>1, <3>2, <1>n, MovesOn
  <2>8. QED
    BY <1>2, <2>1, <2>2, <2>3, <2>4, <2>5, <2>6, <2>7 DEF PaymentStep
<1>3. CASE MoneyOut
  <2>1. payments' = payments /\ coupons' = coupons
    BY <1>3 DEF MoneyOut, Withdraw, Transfer, Settle
  <2>2. QED
    BY <1>1, <2>1, SameTables
<1>4. CASE UNCHANGED vars
  BY <1>1, <1>4, SameTables DEF vars
<1>5. QED
  BY <1>2, <1>3, <1>4 DEF Next

\* How many coupons of the rules R are usable or in use
LiveOf(R) == {c \in CouponId : coupons[c].status \in {"NOT_USED", "USED"} /\ coupons[c].rule \in R}

\* Orders, cancels and refunds leave every rule as many coupons as it had.
LEMMA LiveStays ==
  ASSUME CouponTables, CouponMoves, NEW R
  PROVE  Cardinality(LiveOf(R)') = Cardinality(LiveOf(R))
<1> DEFINE L == LiveOf(R)
           M == LiveOf(R)'
<1>1. CASE coupons' = coupons
  BY <1>1 DEF LiveOf
<1>2. ASSUME NEW c \in CouponId, TakesCoupon(c)
      PROVE  Cardinality(M) = Cardinality(L)
  <2>1. M = L
    BY <1>2 DEF TakesCoupon, SameTerms, LiveOf
  <2> HIDE DEF L, M
  <2>2. QED
    BY <2>1
<1>3. ASSUME NEW u \in CouponId, NEW c \in CouponId, RenewsCoupon(u, c)
      PROVE  Cardinality(M) = Cardinality(L)
  <2>1. coupons'[c].rule = coupons[u].rule /\ coupons'[u].rule = coupons[u].rule
    BY <1>3 DEF RenewsCoupon, SameTerms
  <2>2. CASE coupons[u].rule \notin R
    <3>1. M = L
      BY <1>3, <2>1, <2>2 DEF RenewsCoupon, LiveOf
    <3> HIDE DEF L, M
    <3>2. QED
      BY <3>1
  <2>3. CASE coupons[u].rule \in R
    <3>1. M = (L \ {u}) \cup {c} /\ u \in L /\ c \notin L
      BY <1>3, <2>1, <2>3 DEF RenewsCoupon, LiveOf
    <3>2. L \in SUBSET CouponId
      BY DEF LiveOf
    <3> HIDE DEF L, M
    <3>3. IsFiniteSet(L) /\ Cardinality(L) \in Nat
      BY <3>2, CouponsFinite, FS_CardinalityType
    <3>4. IsFiniteSet(L \ {u}) /\ Cardinality(L \ {u}) = Cardinality(L) - 1
      BY <3>1, <3>3, FS_RemoveElement
    <3>5. Cardinality(M) = Cardinality(L \ {u}) + 1
      BY <3>1, <3>4, FS_AddElement
    <3>6. QED
      BY <3>3, <3>4, <3>5
  <2>4. QED
    BY <2>2, <2>3
<1>4. QED
  BY <1>1, <1>2, <1>3 DEF CouponMoves

LEMMA NextCoupons == CouponInvariant /\ [Next]_vars => CouponInvariant'
<1> SUFFICES ASSUME CouponInvariant, [Next]_vars PROVE CouponInvariant'
  OBVIOUS
<1>1. CouponTables' /\ CouponMoves
  BY NextTables DEF CouponInvariant
<1>2. Cardinality(LiveOf(Merchant)') = Cardinality(LiveOf(Merchant))
  BY <1>1, LiveStays DEF CouponInvariant
<1>3. Live = LiveOf(Merchant) /\ Live' = LiveOf(Merchant)'
  <2>1. /\ \A c \in CouponId : coupons[c].rule \in Merchant
        /\ \A c \in CouponId : coupons'[c].rule \in Merchant
    BY <1>1 DEF CouponInvariant, CouponTables, TypeOK, Coupon
  <2>2. QED
    BY <2>1 DEF Live, LiveOf
<1>4. CouponsConserved'
  BY <1>2, <1>3 DEF CouponInvariant, CouponsConserved, Live
<1>5. QED
  BY <1>1, <1>4 DEF CouponInvariant

\* Every coupon is where the payments say it is and none is lost or doubled,
\* through any number of orders, cancels and refunds (base.py:208-224).
THEOREM CouponsCorrect == Spec => []CouponsAreAccounted
<1>1. CouponInvariant => CouponsAreAccounted
  BY DEF CouponInvariant, CouponTables, CouponsAreAccounted
<1>2. QED
  BY <1>1, InitCoupons, NextCoupons, PTL DEF Spec

=============================================================================
