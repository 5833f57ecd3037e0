--------------------------- MODULE StartUpProofs ---------------------------
(*************************************************************************)
(* Start-up, for command lines and titles of every length: main() starts *)
(* the application for the command lines of the usage text and no        *)
(* others, the process title stays within the memory of argv, and so do  *)
(* the reads of the words that it goes over.                             *)
(*************************************************************************)
EXTENDS ProcessTitle, FiniteSetTheorems, SequenceTheorems, TLAPS

---------------------------------------------------------------------------
(* Induction and recursion over the natural numbers *)

\* Induction, for a set: its complement would have a least member, because finite sets are
\* well-founded under inclusion.
LEMMA NatSetInduction ==
    ASSUME NEW K, 0 \in K, \A n \in Nat : n \in K => n + 1 \in K
    PROVE  Nat \subseteq K
<1> DEFINE T == {0..n : n \in Nat \ K}
<1> SUFFICES ASSUME Nat \ K # {} PROVE FALSE
  OBVIOUS
<1>1. IsWellFoundedOn(StrictSubsetOrdering(Nat), FiniteSubsetsOf(Nat))
  BY FS_StrictSubsetOrderingWellFounded
<1>2. T \subseteq FiniteSubsetsOf(Nat)
  <2>1. ASSUME NEW n \in Nat PROVE IsFiniteSet(0..n) /\ 0..n \subseteq Nat
    BY FS_Interval
  <2> QED
    BY <2>1 DEF FiniteSubsetsOf
<1>3. T # {}
  OBVIOUS
<1> HIDE DEF T
<1>4. PICK x \in T : \A y \in T : ~(<<y, x>> \in StrictSubsetOrdering(Nat))
  BY <1>1, <1>2, <1>3, WFMin
<1>5. PICK n \in Nat \ K : x = 0..n
  BY <1>4 DEF T
<1>6. n # 0 /\ n - 1 \in Nat /\ n = (n - 1) + 1
  BY <1>5
<1>7. n - 1 \notin K
  BY <1>5, <1>6
<1>8. 0..(n - 1) \in T
  BY <1>6, <1>7 DEF T
<1>9. <<0..(n - 1), 0..n>> \in StrictSubsetOrdering(Nat)
  <2>1. n \in 0..n /\ n \notin 0..(n - 1) /\ 0..(n - 1) \subseteq 0..n
        /\ 0..n \subseteq Nat /\ 0..(n - 1) \subseteq Nat
    BY <1>6
  <2>2. 0..(n - 1) # 0..n
    BY <2>1, Zenon
  <2> QED
    BY <2>1, <2>2 DEF StrictSubsetOrdering
<1> QED
  BY <1>4, <1>5, <1>8, <1>9

\* Induction up to a bound.
LEMMA BoundedInduction ==
    ASSUME NEW n \in Nat, NEW K, 0 \in K, \A k \in 1..n : k - 1 \in K => k \in K
    PROVE  0..n \subseteq K
<1> DEFINE M == {k \in Nat : k <= n => k \in K}
<1>1. 0 \in M
  OBVIOUS
<1>2. ASSUME NEW k \in Nat, k \in M PROVE k + 1 \in M
  <2> SUFFICES ASSUME k + 1 <= n PROVE k + 1 \in K
    OBVIOUS
  <2>1. k \in K /\ k + 1 \in 1..n /\ (k + 1) - 1 = k
    BY <1>2
  <2> QED
    BY <2>1
<1>3. Nat \subseteq M
  <2> HIDE DEF M
  <2> QED
    BY <1>1, <1>2, NatSetInduction
<1> QED
  BY <1>3

\* A function can be defined step by step.
Computes(f, v, step, n) == f[0] = v /\ \A k \in 1..n : f[k] = step[<<k, f[k - 1]>>]

LEMMA Recursion ==
    ASSUME NEW n \in Nat, NEW V, NEW v \in V, NEW step \in [(1..n) \X V -> V]
    PROVE  \E f \in [0..n -> V] : Computes(f, v, step, n)
<1> DEFINE Good(f, m) == f[0] = v /\ \A k \in 1..m : f[k] = step[<<k, f[k - 1]>>]
           K == {m \in 0..n : \E f \in [0..n -> V] : Good(f, m)}
<1>1. 0 \in K
  <2> DEFINE f == [k \in 0..n |-> v]
  <2>1. f \in [0..n -> V] /\ f[0] = v
    OBVIOUS
  <2>2. \A k \in 1..0 : f[k] = step[<<k, f[k - 1]>>]
    OBVIOUS
  <2> HIDE DEF f
  <2> QED
    BY <2>1, <2>2
<1>2. ASSUME NEW m \in 1..n, m - 1 \in K PROVE m \in K
  <2>1. PICK f \in [0..n -> V] : Good(f, m - 1)
    BY <1>2
  <2> DEFINE x == step[<<m, f[m - 1]>>]
             g == [f EXCEPT ![m] = x]
  <2>2. x \in V
    BY <2>1
  <2> HIDE DEF x
  <2>3. g \in [0..n -> V] /\ g[m] = x /\ \A k \in 0..n : k # m => g[k] = f[k]
    BY <2>2
  <2> HIDE DEF g
  <2>4. g[0] = v
    BY <2>1, <2>3
  <2>5. ASSUME NEW k \in 1..m PROVE g[k] = step[<<k, g[k - 1]>>]
    <3>1. g[k - 1] = f[k - 1]
      BY <2>3
    <3>2. CASE k = m
      BY <2>3, <3>1, <3>2 DEF x
    <3>3. CASE k # m
      <4>1. k \in 1..(m - 1) /\ k \in 0..n
        BY <3>3
      <4>2. f[k] = step[<<k, f[k - 1]>>]
        BY <2>1, <4>1
      <4>3. g[k] = f[k]
        BY <2>3, <3>3, <4>1
      <4> QED
        BY <3>1, <4>2, <4>3
    <3> QED
      BY <3>2, <3>3
  <2> QED
    BY <2>3, <2>4, <2>5
<1>3. 0..n \subseteq K
  <2> HIDE DEF K
  <2> QED
    BY <1>1, <1>2, BoundedInduction
<1>4. n \in K
  <2>1. n \in 0..n
    OBVIOUS
  <2> HIDE DEF K
  <2> QED
    BY <1>3, <2>1
<1> QED
  BY <1>4 DEF Computes

\* And is determined by its steps.
SameSteps(f, g, n) ==
    f[0] = g[0] /\ \A k \in 1..n : f[k - 1] = g[k - 1] => f[k] = g[k]
Agree(f, g, n) == \A k \in 0..n : f[k] = g[k]

LEMMA Unique ==
    ASSUME NEW n \in Nat, NEW f, NEW g, SameSteps(f, g, n)
    PROVE  Agree(f, g, n)
<1> DEFINE K == {k \in 0..n : f[k] = g[k]}
<1>1. 0 \in K
  BY DEF SameSteps
<1>2. ASSUME NEW k \in 1..n, k - 1 \in K PROVE k \in K
  BY <1>2 DEF SameSteps
<1>3. 0..n \subseteq K
  <2> HIDE DEF K
  <2> QED
    BY <1>1, <1>2, BoundedInduction
<1> QED
  BY <1>3 DEF Agree

\* A set of numbers up to a bound has a largest member, and Max is it.
LEMMA MaxLemma ==
    ASSUME NEW n \in Nat, NEW S \in SUBSET (0..n), S # {}
    PROVE  Max(S) \in S /\ \A x \in S : x <= Max(S)
<1> DEFINE Bounded(m) == \A x \in S : x <= m
           Q == {k \in 0..n : ~Bounded(k)}
           Largest(m) == m \in S /\ \A x \in S : m >= x
<1>1. \E m : m \in S /\ \A x \in S : m >= x
  <2> SUFFICES ASSUME \A m \in S : \E x \in S : ~(m >= x) PROVE FALSE
    OBVIOUS
  <2>1. 0 \in Q
    <3>1. PICK s \in S : TRUE
      OBVIOUS
    <3>2. PICK x \in S : ~(s >= x)
      OBVIOUS
    <3>3. x \in 0..n /\ s \in 0..n
      BY <3>1, <3>2
    <3>4. ~(x <= 0)
      BY <3>2, <3>3
    <3> QED
      BY <3>2, <3>4
  <2>2. ASSUME NEW k \in 1..n, k - 1 \in Q PROVE k \in Q
    <3>1. PICK s \in S : ~(s <= k - 1)
      BY <2>2
    <3>2. PICK x \in S : ~(s >= x)
      OBVIOUS
    <3>3. x \in 0..n /\ s \in 0..n
      BY <3>1, <3>2
    <3>4. ~(x <= k)
      BY <3>1, <3>2, <3>3
    <3> QED
      BY <3>2, <3>4
  <2>3. 0..n \subseteq Q
    <3> HIDE DEF Q
    <3> QED
      BY <2>1, <2>2, BoundedInduction
  <2>4. n \in Q
    BY <2>3
  <2>5. \A x \in S : x <= n
    OBVIOUS
  <2> QED
    BY <2>4, <2>5
<1>2. Max(S) = CHOOSE m \in S : \A x \in S : m >= x
  BY DEF Max
<1>3. Max(S) \in S /\ \A x \in S : Max(S) >= x
  BY <1>1, <1>2
<1> QED
  BY <1>3

---------------------------------------------------------------------------
(* Ascending *)

\* The function that Ascending defines.
Rows(A, S, n) ==
    /\ A[0] = <<>>
    /\ \A k \in 1..n : A[k] = IF k \in S THEN Append(A[k - 1], k) ELSE A[k - 1]

LEMMA AscendingFunction ==
    ASSUME NEW S, NEW n \in Nat
    PROVE  \E A \in [0..n -> Seq(Nat)] : Rows(A, S, n) /\ Ascending(S, n) = A[n]
<1> DEFINE R(A) == A = [k \in 0..n |-> IF k = 0 THEN <<>>
                                       ELSE IF k \in S THEN Append(A[k - 1], k) ELSE A[k - 1]]
           step == [p \in (1..n) \X Seq(Nat) |-> IF p[1] \in S THEN Append(p[2], p[1]) ELSE p[2]]
           h == CHOOSE A : R(A)
<1>1. step \in [(1..n) \X Seq(Nat) -> Seq(Nat)]
  <2>1. ASSUME NEW p \in (1..n) \X Seq(Nat)
        PROVE  (IF p[1] \in S THEN Append(p[2], p[1]) ELSE p[2]) \in Seq(Nat)
    <3>1. p[1] \in Nat /\ p[2] \in Seq(Nat)
      OBVIOUS
    <3> QED
      BY <3>1
  <2> QED
    BY <2>1
<1>2. <<>> \in Seq(Nat)
  OBVIOUS
<1>3. \A k \in 1..n : \A s \in Seq(Nat) :
          step[<<k, s>>] = IF k \in S THEN Append(s, k) ELSE s
  OBVIOUS
<1> HIDE DEF step
<1>4. PICK f \in [0..n -> Seq(Nat)] :
          Computes(f, <<>>, step, n)
  BY <1>1, <1>2, Recursion
<1>5. Rows(f, S, n)
  <2>1. \A k \in 1..n : f[k - 1] \in Seq(Nat)
    BY <1>4
  <2> QED
    BY <1>3, <1>4, <2>1 DEF Rows, Computes
<1>6. R(f)
  <2>1. ASSUME NEW k \in 0..n
        PROVE  f[k] = IF k = 0 THEN <<>> ELSE IF k \in S THEN Append(f[k - 1], k) ELSE f[k - 1]
    <3>1. CASE k = 0
      BY <3>1, <1>5 DEF Rows
    <3>2. CASE k # 0
      <4>1. k \in 1..n
        BY <3>2
      <4> QED
        BY <3>2, <4>1, <1>5 DEF Rows
    <3> QED
      BY <3>1, <3>2
  <2> QED
    BY <1>4, <2>1
<1>7. R(h)
  <2>1. \E A : R(A)
    BY <1>6
  <2> QED
    BY <2>1, Zenon
<1>8. Ascending(S, n) = h[n]
  BY DEF Ascending
<1> HIDE DEF h
<1>9. Rows(h, S, n)
  <2>1. \A k \in 0..n : h[k] = IF k = 0 THEN <<>>
                               ELSE IF k \in S THEN Append(h[k - 1], k) ELSE h[k - 1]
    BY <1>7
  <2> HIDE <1>7
  <2> QED
    BY <2>1 DEF Rows
<1>10. \A k \in 0..n : h[k] = f[k]
  <2>1. h[0] = f[0]
    BY <1>5, <1>9 DEF Rows
  <2>2. \A k \in 1..n : h[k - 1] = f[k - 1] => h[k] = f[k]
    BY <1>5, <1>9 DEF Rows
  <2>3. SameSteps(h, f, n)
    BY <2>1, <2>2 DEF SameSteps
  <2> QED
    BY <2>3, Unique DEF Agree
<1>11. Ascending(S, n) = f[n]
  BY <1>8, <1>10
<1> QED
  BY <1>5, <1>11

\* Ascending looks at one number after the other.
LEMMA AscendingStep ==
    ASSUME NEW S, NEW n \in Nat
    PROVE  /\ Ascending(S, 0) = <<>>
           /\ Ascending(S, n) \in Seq(Nat)
           /\ Ascending(S, n + 1) = IF n + 1 \in S THEN Append(Ascending(S, n), n + 1)
                                    ELSE Ascending(S, n)
<1>1. Ascending(S, 0) = <<>>
  <2>1. PICK A \in [0..0 -> Seq(Nat)] : Rows(A, S, 0) /\ Ascending(S, 0) = A[0]
    BY AscendingFunction
  <2> QED
    BY <2>1 DEF Rows
<1>2. PICK A \in [0..n -> Seq(Nat)] : Rows(A, S, n) /\ Ascending(S, n) = A[n]
  BY AscendingFunction
<1>3. PICK B \in [0..(n + 1) -> Seq(Nat)] : Rows(B, S, n + 1) /\ Ascending(S, n + 1) = B[n + 1]
  <2>1. n + 1 \in Nat
    OBVIOUS
  <2> QED
    BY <2>1, AscendingFunction, Zenon
<1>4. A[n] = B[n]
  <2>1. A[0] = B[0]
    BY <1>2, <1>3 DEF Rows
  <2>2. \A k \in 1..n : A[k - 1] = B[k - 1] => A[k] = B[k]
    <3>1. 1..n \subseteq 1..(n + 1)
      OBVIOUS
    <3> QED
      BY <3>1, <1>2, <1>3 DEF Rows
  <2>3. SameSteps(A, B, n)
    BY <2>1, <2>2 DEF SameSteps
  <2>4. Agree(A, B, n) /\ n \in 0..n
    BY <2>3, Unique
  <2> QED
    BY <2>4 DEF Agree
<1>5. B[n + 1] = IF n + 1 \in S THEN Append(B[n], n + 1) ELSE B[n]
  <2>1. n + 1 \in 1..(n + 1) /\ (n + 1) - 1 = n
    OBVIOUS
  <2> QED
    BY <1>3, <2>1 DEF Rows
<1>6. Ascending(S, n) \in Seq(Nat)
  BY <1>2
<1> QED
  BY <1>1, <1>2, <1>3, <1>4, <1>5, <1>6

\* A sequence with its members in T is one over T.
LEMMA SeqOver ==
    ASSUME NEW T, NEW s \in Seq(Nat), \A i \in 1..Len(s) : s[i] \in T
    PROVE  s \in Seq(T)
<1>1. s \in [1..Len(s) -> T] /\ Len(s) \in Nat
  OBVIOUS
<1> QED
  BY <1>1

\* Its members are those of S, and all of them.
LEMMA AscendingMembers ==
    ASSUME NEW S, NEW n \in Nat
    PROVE  /\ Ascending(S, n) \in Seq(S \cap 1..n)
           /\ \A x \in S \cap 1..n : \E i \in 1..Len(Ascending(S, n)) : Ascending(S, n)[i] = x
<1> DEFINE P(m) ==
       /\ \A i \in 1..Len(Ascending(S, m)) : Ascending(S, m)[i] \in S \cap 1..m
       /\ \A x \in S \cap 1..m : \E i \in 1..Len(Ascending(S, m)) : Ascending(S, m)[i] = x
           K == {m \in Nat : P(m)}
<1>1. 0 \in K
  <2>1. Ascending(S, 0) = <<>>
    BY AscendingStep
  <2> QED
    BY <2>1
<1>2. ASSUME NEW m \in Nat, m \in K PROVE m + 1 \in K
  <2> DEFINE s == Ascending(S, m)
             t == Ascending(S, m + 1)
  <2>1. s \in Seq(Nat) /\ t = IF m + 1 \in S THEN Append(s, m + 1) ELSE s
    BY AscendingStep
  <2>2. /\ \A i \in 1..Len(s) : s[i] \in S \cap 1..m
        /\ \A x \in S \cap 1..m : \E i \in 1..Len(s) : s[i] = x
    BY <1>2
  <2> HIDE DEF s, t
  <2>3. /\ \A i \in 1..Len(t) : t[i] \in S \cap 1..(m + 1)
        /\ \A x \in S \cap 1..(m + 1) : \E i \in 1..Len(t) : t[i] = x
    <3>1. CASE m + 1 \in S
      <4>1. /\ t = Append(s, m + 1) /\ Len(t) = Len(s) + 1 /\ Len(s) \in Nat
            /\ t[Len(s) + 1] = m + 1 /\ \A i \in 1..Len(s) : t[i] = s[i]
        BY <2>1, <3>1
      <4>2. ASSUME NEW i \in 1..Len(t) PROVE t[i] \in S \cap 1..(m + 1)
        <5>1. CASE i = Len(s) + 1
          BY <5>1, <3>1, <4>1
        <5>2. CASE i # Len(s) + 1
          <6>1. i \in 1..Len(s)
            BY <5>2, <4>1
          <6>2. t[i] \in S \cap 1..m
            BY <6>1, <4>1, <2>2
          <6> QED
            BY <6>2
        <5> QED
          BY <5>1, <5>2
      <4>3. ASSUME NEW x \in S \cap 1..(m + 1) PROVE \E i \in 1..Len(t) : t[i] = x
        <5>1. CASE x = m + 1
          BY <5>1, <4>1
        <5>2. CASE x # m + 1
          <6>1. x \in S \cap 1..m
            BY <5>2
          <6>2. PICK i \in 1..Len(s) : s[i] = x
            BY <6>1, <2>2
          <6>3. i \in 1..Len(t) /\ t[i] = x
            BY <6>2, <4>1
          <6> QED
            BY <6>3
        <5> QED
          BY <5>1, <5>2
      <4> QED
        BY <4>2, <4>3
    <3>2. CASE m + 1 \notin S
      <4>1. S \cap 1..(m + 1) = S \cap 1..m
        BY <3>2
      <4> QED
        BY <2>1, <2>2, <3>2, <4>1
    <3> QED
      BY <3>1, <3>2
  <2> QED
    BY <2>3 DEF t
<1>3. Nat \subseteq K
  <2> HIDE DEF K
  <2> QED
    BY <1>1, <1>2, NatSetInduction
<1>4. P(n)
  BY <1>3
<1>5. Ascending(S, n) \in Seq(Nat)
  BY AscendingStep
<1>6. Ascending(S, n) \in Seq(S \cap 1..n)
  BY <1>4, <1>5, SeqOver
<1> QED
  BY <1>4, <1>6

\* They ascend.
LEMMA AscendingOrder ==
    ASSUME NEW S, NEW n \in Nat
    PROVE  \A i, j \in 1..Len(Ascending(S, n)) : i < j => Ascending(S, n)[i] < Ascending(S, n)[j]
<1> DEFINE P(m) == \A i, j \in 1..Len(Ascending(S, m)) :
                       i < j => Ascending(S, m)[i] < Ascending(S, m)[j]
           K == {m \in Nat : P(m)}
<1>1. 0 \in K
  <2>1. Ascending(S, 0) = <<>>
    BY AscendingStep
  <2> QED
    BY <2>1
<1>2. ASSUME NEW m \in Nat, m \in K PROVE m + 1 \in K
  <2> DEFINE s == Ascending(S, m)
             t == Ascending(S, m + 1)
  <2>1. s \in Seq(Nat) /\ t = IF m + 1 \in S THEN Append(s, m + 1) ELSE s
    BY AscendingStep
  <2>2. \A i \in 1..Len(s) : s[i] \in 1..m
    <3>1. s \in Seq(S \cap 1..m)
      BY AscendingMembers
    <3> HIDE DEF s
    <3> QED
      BY <3>1
  <2>3. \A i, j \in 1..Len(s) : i < j => s[i] < s[j]
    BY <1>2
  <2> HIDE DEF s, t
  <2>4. ASSUME NEW i \in 1..Len(t), NEW j \in 1..Len(t), i < j PROVE t[i] < t[j]
    <3>1. CASE m + 1 \in S
      <4>1. /\ Len(t) = Len(s) + 1 /\ Len(s) \in Nat
            /\ t[Len(s) + 1] = m + 1 /\ \A x \in 1..Len(s) : t[x] = s[x]
        BY <2>1, <3>1
      <4>2. i \in 1..Len(s) /\ t[i] = s[i] /\ s[i] \in 1..m
        BY <2>2, <2>4, <4>1
      <4>3. CASE j = Len(s) + 1
        BY <4>1, <4>2, <4>3
      <4>4. CASE j # Len(s) + 1
        <5>1. j \in 1..Len(s) /\ t[j] = s[j]
          BY <4>1, <4>4
        <5> QED
          BY <2>3, <2>4, <4>2, <5>1
      <4> QED
        BY <4>3, <4>4
    <3>2. CASE m + 1 \notin S
      BY <2>1, <2>3, <2>4, <3>2
    <3> QED
      BY <3>1, <3>2
  <2> QED
    BY <2>4 DEF t
<1>3. Nat \subseteq K
  <2> HIDE DEF K
  <2> QED
    BY <1>1, <1>2, NatSetInduction
<1> QED
  BY <1>3

---------------------------------------------------------------------------
(* The command line *)

Kinds == {"operand", "option", "value", "end", "rest"}

\* What a word is by itself, and after one that was read as prev.
Own(k) == IF argv[k] = "--" THEN "end" ELSE IF argv[k] \in Options THEN "option" ELSE "operand"
After(prev, k) ==
    IF prev \in {"end", "rest"} THEN "rest"
    ELSE IF prev = "option" /\ argv[k - 1] = "-l" THEN "value" ELSE Own(k)

LEMMA KindsLemma == ASSUME NEW prev, NEW k PROVE Own(k) \in Kinds /\ After(prev, k) \in Kinds
  BY DEF Own, After, Kinds

\* Reading is the function that its definition describes.
LEMMA ReadingLemma ==
    ASSUME argv \in Seq(Words)
    PROVE  /\ Reading \in [1..Len(argv) -> Kinds]
           /\ \A k \in 1..Len(argv) :
                 Reading[k] = IF k = 1 THEN Own(1) ELSE After(Reading[k - 1], k)
<1> DEFINE n == Len(argv)
           Body(r, k) == CASE k > 1 /\ r[k - 1] \in {"end", "rest"} -> "rest"
                           [] k > 1 /\ r[k - 1] = "option" /\ argv[k - 1] = "-l" -> "value"
                           [] OTHER -> IF argv[k] = "--" THEN "end"
                                       ELSE IF argv[k] \in Options THEN "option" ELSE "operand"
           R(r) == r = [k \in DOMAIN argv |-> Body(r, k)]
           Form(r, k) == IF k = 1 THEN Own(1) ELSE After(r[k - 1], k)
           step == [p \in (1..n) \X Kinds |-> IF p[1] = 1 THEN Own(1) ELSE After(p[2], p[1])]
<1>1. n \in Nat /\ DOMAIN argv = 1..n
  OBVIOUS
<1>2. ASSUME NEW r, NEW k \in 1..n PROVE Body(r, k) = Form(r, k)
  <2>1. CASE k = 1
    BY <2>1 DEF Own
  <2>2. CASE k # 1
    <3>1. k > 1
      BY <1>1, <2>2
    <3>2. CASE r[k - 1] \in {"end", "rest"}
      BY <2>2, <3>1, <3>2 DEF After
    <3>3. CASE r[k - 1] \notin {"end", "rest"}
      BY <2>2, <3>1, <3>3 DEF After, Own
    <3> QED
      BY <3>2, <3>3
  <2> QED
    BY <2>1, <2>2
<1>3. step \in [(1..n) \X Kinds -> Kinds]
  BY KindsLemma
<1>4. \A k \in 1..n : \A x \in Kinds : step[<<k, x>>] = IF k = 1 THEN Own(1) ELSE After(x, k)
  OBVIOUS
<1>5. "operand" \in Kinds
  BY DEF Kinds
<1> HIDE DEF step, n
<1>6. PICK f \in [0..n -> Kinds] : Computes(f, "operand", step, n)
  BY <1>1, <1>3, <1>5, Recursion
<1>7. \E r : R(r)
  <2> DEFINE r == [k \in 1..n |-> f[k]]
  <2>1. ASSUME NEW k \in 1..n PROVE r[k] = Body(r, k)
    <3>1. f[k - 1] \in Kinds /\ f[k] = step[<<k, f[k - 1]>>] /\ r[k] = f[k]
      BY <1>1, <1>6, <2>1 DEF Computes
    <3>2. f[k] = IF k = 1 THEN Own(1) ELSE After(f[k - 1], k)
      BY <1>4, <3>1
    <3>3. k # 1 => r[k - 1] = f[k - 1]
      BY <1>1
    <3>4. r[k] = Form(r, k)
      <4> HIDE DEF r
      <4> QED
        BY <3>1, <3>2, <3>3
    <3> HIDE DEF r, Body, Form
    <3> QED
      BY <1>2, <3>4
  <2>2. r = [k \in 1..n |-> r[k]]
    OBVIOUS
  <2> HIDE DEF r, Body
  <2>3. R(r)
    BY <1>1, <2>1, <2>2
  <2> QED
    BY <2>3
<1> DEFINE h == CHOOSE r : R(r)
<1>8. R(h)
  BY <1>7, Zenon
<1>9. Reading = h
  BY DEF Reading
<1> HIDE DEF h, Body, Form
<1>10. ASSUME NEW k \in 1..n PROVE h[k] = Form(h, k)
  <2>1. h[k] = Body(h, k)
    BY <1>1, <1>8
  <2> QED
    BY <1>2, <2>1
<1>11. h \in [1..n -> Kinds]
  <2>1. \A k \in 1..n : h[k] \in Kinds
    BY <1>10, KindsLemma DEF Form
  <2>2. h = [k \in 1..n |-> Body(h, k)]
    BY <1>1, <1>8
  <2>3. h = [k \in 1..n |-> h[k]]
    BY <2>2
  <2> QED
    BY <2>1, <2>3
<1> QED
  BY <1>9, <1>10, <1>11 DEF Form, n

\* An option that main() refuses: one that it does not know, or without its value.
Flawed(k) == Reading[k] = "option" /\ ~(argv[k] = "-l" /\ k < Len(argv))

\* The first n words have been dealt with as their reading asks.
Scanned(n) ==
    /\ \A k \in 1..n : ~Flawed(k)
    /\ operands = Ascending(Given, n)
    /\ loader = LastValue(n)

Refusals == {"usage, exit(0)", "version, exit(0)", "try --help, exit(1)"}
Late == {"usage, exit(1)", "not an integer, exit(1)", "out of range, exit(1)", "Run"}

ArgvType == argv \in Seq(Words) /\ optind \in 1..(Len(argv) + 1)

\* While getopt_long() is at work, no "--" has been met and no value is outstanding.
GetoptInv ==
    state = "getopt" =>
        /\ Scanned(optind - 1)
        /\ \A k \in 1..(optind - 1) : Reading[k] \notin {"end", "rest"}
        /\ optind > 1 => Reading[optind - 1] # "option"

\* The inductive invariant of main() up to Run().
CommandLineInv ==
    /\ ArgvType
    /\ state \in {"start", "getopt", "operands"} \cup Refusals \cup Late
    /\ state = "start" => optind = 1 /\ Scanned(0)
    /\ GetoptInv
    /\ state \in {"operands"} \cup Late => Scanned(Len(argv))
    /\ state \in Refusals => \E k \in 1..Len(argv) : Flawed(k)
    /\ state \in Late => (state = "Run" <=> Len(operands) = 4 /\ argv[operands[2]] = "4")

LEMMA CommandLineSafe == CommandLineInv => StartsAsAsked
<1> SUFFICES ASSUME CommandLineInv, state \notin {"start", "getopt", "operands"}
             PROVE  LET given == Ascending(Given, Len(argv))
                    IN /\ state = "Run" <=>
                              /\ Len(given) = 4 /\ argv[given[2]] = "4"
                              /\ \A k \in DOMAIN argv :
                                    Reading[k] = "option" => argv[k] = "-l" /\ k < Len(argv)
                       /\ state = "Run" =>
                              operands = given /\ loader = LastValue(Len(argv))
  BY DEF StartsAsAsked
<1>1. DOMAIN argv = 1..Len(argv)
  BY DEF CommandLineInv, ArgvType
<1>2. CASE state \in Refusals
  <2>1. PICK k \in 1..Len(argv) : Flawed(k)
    BY <1>2 DEF CommandLineInv
  <2>2. state # "Run"
    BY <1>2 DEF Refusals
  <2> QED
    BY <1>1, <2>1, <2>2 DEF Flawed
<1>3. CASE state \in Late
  <2>1. Scanned(Len(argv)) /\ (state = "Run" <=> Len(operands) = 4 /\ argv[operands[2]] = "4")
    BY <1>3 DEF CommandLineInv
  <2> QED
    BY <1>1, <2>1 DEF Scanned, Flawed
<1> QED
  BY <1>2, <1>3 DEF CommandLineInv

\* What the rest of the state does not change.
LEMMA SameReading ==
    ASSUME argv' = argv
    PROVE  /\ Reading' = Reading /\ Given' = Given
           /\ \A k : Flawed(k)' = Flawed(k)
           /\ \A n : LastValue(n)' = LastValue(n)
<1>1. Reading' = Reading
  BY DEF Reading, Options
<1> QED
  BY <1>1 DEF Given, Flawed, LastValue, Values

LEMMA CommandLineInitLemma == CommandLineInit => CommandLineInv
<1> SUFFICES ASSUME CommandLineInit PROVE CommandLineInv
  OBVIOUS
<1>1. argv \in Seq(Words)
  <2>1. PICK m \in 0..MaxArgc : argv \in [1..m -> Words]
    BY DEF CommandLineInit, BoundedSeq, SeqOf
  <2>2. m \in Nat
    BY <2>1, CommandLineAssumption
  <2> QED
    BY <2>1, <2>2
<1>2. Ascending(Given, 0) = <<>>
  BY AscendingStep
<1>3. LastValue(0) = "NULL"
  BY DEF LastValue, Values
<1>4. optind = 1 /\ operands = <<>> /\ loader = "NULL" /\ state = "start"
  BY DEF CommandLineInit
<1>5. Scanned(0)
  BY <1>2, <1>3, <1>4 DEF Scanned
<1> QED
  BY <1>1, <1>4, <1>5 DEF CommandLineInv, ArgvType, GetoptInv, Refusals, Late

\* What Scanned says of the next state, where argv is the same.
LEMMA ScannedNext ==
    ASSUME NEW n, argv' = argv, \A k \in 1..n : ~Flawed(k),
           operands' = Ascending(Given, n), loader' = LastValue(n)
    PROVE  Scanned(n)'
  BY SameReading DEF Scanned

\* What GetoptInv says of the next state.
LEMMA GetoptNext ==
    ASSUME NEW n \in Nat, argv' = argv, optind' = n + 1,
           operands' = Ascending(Given, n), loader' = LastValue(n),
           \A k \in 1..n : ~Flawed(k) /\ Reading[k] \notin {"end", "rest"},
           n > 0 => Reading[n] # "option"
    PROVE  GetoptInv'
<1>1. optind' - 1 = n
  OBVIOUS
<1>2. Reading' = Reading /\ Given' = Given /\ \A k : Flawed(k)' = Flawed(k)
  BY SameReading
<1>3. loader' = LastValue(optind - 1)'
  BY <1>1, <1>2 DEF LastValue, Values
<1>4. Scanned(optind - 1)'
  BY <1>1, <1>2, <1>3 DEF Scanned
<1>5. (\A k \in 1..(optind - 1) : Reading[k] \notin {"end", "rest"})'
  BY <1>1, <1>2
<1>6. (optind > 1 => Reading[optind - 1] # "option")'
  BY <1>1, <1>2
<1> QED
  BY <1>4, <1>5, <1>6 DEF GetoptInv

\* The word that getopt_long() looks at next is read by itself.
LEMMA NextWord ==
    ASSUME CommandLineInv, state = "getopt", More
    PROVE  optind \in 1..Len(argv) /\ Reading[optind] = Own(optind)
<1>1. argv \in Seq(Words) /\ optind \in 1..(Len(argv) + 1) /\ Len(argv) \in Nat
  BY DEF CommandLineInv, ArgvType
<1>2. optind \in 1..Len(argv)
  BY <1>1 DEF More
<1>3. Reading[optind] = IF optind = 1 THEN Own(1) ELSE After(Reading[optind - 1], optind)
  BY <1>1, <1>2, ReadingLemma
<1>4. CASE optind = 1
  BY <1>2, <1>3, <1>4
<1>5. CASE optind # 1
  <2>1. optind > 1 /\ optind - 1 \in 1..(optind - 1)
    BY <1>2, <1>5
  <2>2. Reading[optind - 1] \notin {"end", "rest"} /\ Reading[optind - 1] # "option"
    BY <2>1 DEF CommandLineInv, GetoptInv
  <2> QED
    BY <1>2, <1>3, <1>5, <2>2 DEF After
<1> QED
  BY <1>4, <1>5

\* No value among the next words: the loader stays.
LEMMA SameValues ==
    ASSUME NEW n \in Nat, Reading[n + 1] # "value"
    PROVE  LastValue(n + 1) = LastValue(n)
<1>1. Values(n + 1) = Values(n)
  BY DEF Values
<1> QED
  BY <1>1 DEF LastValue

LEMMA ShortcutInv == ASSUME CommandLineInv, Shortcut PROVE CommandLineInv'
<1>1. /\ argv' = argv /\ optind' = optind /\ operands' = operands /\ loader' = loader
      /\ state = "start"
  BY DEF Shortcut, Finishes
<1>2. optind = 1 /\ Scanned(0) /\ ArgvType
  BY <1>1 DEF CommandLineInv
<1>3. ArgvType'
  BY <1>1, <1>2 DEF ArgvType
<1>4. CASE state' = "getopt"
  <2>1. Scanned(0)'
    BY <1>1, <1>2, ScannedNext DEF Scanned
  <2>2. GetoptInv'
    BY <1>1, <1>2, <2>1 DEF GetoptInv
  <2> QED
    BY <1>3, <1>4, <2>2 DEF CommandLineInv, Refusals, Late
<1>5. CASE state' # "getopt"
  <2>1. More /\ Word \in {"--help", "-h", "--version"} /\ state' \in Refusals
    BY <1>5 DEF Shortcut, Finishes, Refusals
  <2>2. 1 \in 1..Len(argv) /\ argv \in Seq(Words) /\ argv[1] \in Options \ {"-l", "--"}
    BY <1>2, <2>1 DEF More, Word, ArgvType, Options
  <2>3. Reading[1] = "option"
    BY <2>2, ReadingLemma DEF Own
  <2>4. Flawed(1)'
    BY <1>1, <2>2, <2>3, SameReading DEF Flawed
  <2> QED
    BY <1>1, <1>3, <2>1, <2>2, <2>4 DEF CommandLineInv, GetoptInv, Refusals, Late
<1> QED
  BY <1>4, <1>5

LEMMA SkipsInv == ASSUME CommandLineInv, GetoptSkips PROVE CommandLineInv'
<1>1. /\ argv' = argv /\ loader' = loader /\ state = "getopt" /\ state' = "getopt"
      /\ optind' = optind + 1 /\ operands' = Append(operands, optind)
      /\ More /\ Word \notin Options \cup {"--"}
  BY DEF GetoptSkips
<1>2. optind \in 1..Len(argv) /\ Reading[optind] = Own(optind) /\ argv \in Seq(Words)
  BY <1>1, NextWord DEF CommandLineInv, ArgvType
<1>3. Reading[optind] = "operand"
  BY <1>1, <1>2 DEF Own, Word
<1>4. /\ Scanned(optind - 1) /\ optind - 1 \in Nat /\ (optind - 1) + 1 = optind
      /\ \A k \in 1..(optind - 1) : Reading[k] \notin {"end", "rest"}
  BY <1>1, <1>2 DEF CommandLineInv, GetoptInv
<1>5. optind \in Given
  BY <1>2, <1>3 DEF Given
<1>6. Append(operands, optind) = Ascending(Given, optind)
  <2>1. Ascending(Given, (optind - 1) + 1)
          = IF (optind - 1) + 1 \in Given
            THEN Append(Ascending(Given, optind - 1), (optind - 1) + 1)
            ELSE Ascending(Given, optind - 1)
    BY <1>4, AscendingStep, Zenon
  <2>2. Ascending(Given, optind - 1) = operands
    BY <1>4 DEF Scanned
  <2> QED
    BY <1>4, <1>5, <2>1, <2>2, Zenon
<1>7. LastValue(optind) = loader
  BY <1>3, <1>4, SameValues DEF Scanned
<1>8. \A k \in 1..optind : ~Flawed(k) /\ Reading[k] \notin {"end", "rest"}
  BY <1>2, <1>3, <1>4 DEF Scanned, Flawed
<1>9. GetoptInv'
  BY <1>1, <1>2, <1>3, <1>4, <1>6, <1>7, <1>8, GetoptNext
<1>10. ArgvType'
  BY <1>1, <1>2 DEF ArgvType
<1> QED
  BY <1>1, <1>9, <1>10 DEF CommandLineInv, Refusals, Late

LEMMA LoaderInv == ASSUME CommandLineInv, GetoptLoader PROVE CommandLineInv'
<1>1. /\ argv' = argv /\ operands' = operands /\ state = "getopt" /\ state' = "getopt"
      /\ optind' = optind + 2 /\ loader' = argv[optind + 1]
      /\ More /\ argv[optind] = "-l" /\ optind < Len(argv)
  BY DEF GetoptLoader, Word
<1>2. /\ optind \in 1..Len(argv) /\ Reading[optind] = Own(optind) /\ argv \in Seq(Words)
      /\ Len(argv) \in Nat
  BY <1>1, NextWord DEF CommandLineInv, ArgvType
<1>3. Reading[optind] = "option"
  BY <1>1, <1>2 DEF Own, Options
<1>4. optind + 1 \in 1..Len(argv) /\ Reading[optind + 1] = "value"
  <2>1. optind + 1 \in 1..Len(argv) /\ (optind + 1) - 1 = optind /\ optind + 1 # 1
    BY <1>1, <1>2
  <2>2. Reading[optind + 1] = After(Reading[(optind + 1) - 1], optind + 1)
    BY <1>2, <2>1, ReadingLemma
  <2> QED
    BY <1>1, <1>3, <2>1, <2>2 DEF After
<1>5. /\ Scanned(optind - 1) /\ optind - 1 \in Nat /\ (optind - 1) + 1 = optind /\ optind \in Nat
      /\ \A k \in 1..(optind - 1) : Reading[k] \notin {"end", "rest"}
  BY <1>1, <1>2 DEF CommandLineInv, GetoptInv
<1>6. optind \notin Given /\ optind + 1 \notin Given
  BY <1>3, <1>4 DEF Given
<1>7. operands = Ascending(Given, optind + 1)
  <2>1. Ascending(Given, optind) = Ascending(Given, optind - 1)
    BY <1>5, <1>6, AscendingStep
  <2>2. Ascending(Given, optind + 1) = Ascending(Given, optind)
    BY <1>5, <1>6, AscendingStep
  <2> QED
    BY <1>5, <2>1, <2>2 DEF Scanned
<1>8. LastValue(optind + 1) = argv[optind + 1]
  <2> DEFINE V == Values(optind + 1)
  <2>1. V \in SUBSET (0..(optind + 1)) /\ optind + 1 \in V /\ optind + 1 \in Nat
    BY <1>4, <1>5 DEF Values
  <2>2. Max(V) \in V /\ \A x \in V : x <= Max(V)
    BY <2>1, MaxLemma
  <2>3. Max(V) = optind + 1
    <3> HIDE DEF V
    <3>1. Max(V) \in 0..(optind + 1) /\ optind + 1 <= Max(V)
      BY <2>1, <2>2
    <3> QED
      BY <1>5, <3>1
  <2> QED
    BY <2>1, <2>3 DEF LastValue
<1>9. \A k \in 1..(optind + 1) : ~Flawed(k) /\ Reading[k] \notin {"end", "rest"}
  <2>1. ~Flawed(optind) /\ ~Flawed(optind + 1)
    BY <1>1, <1>4 DEF Flawed
  <2>2. \A k \in 1..(optind - 1) : ~Flawed(k)
    BY <1>5 DEF Scanned
  <2>3. \A k \in 1..(optind + 1) : k \in 1..(optind - 1) \/ k = optind \/ k = optind + 1
    BY <1>5
  <2> QED
    BY <1>3, <1>4, <1>5, <2>1, <2>2, <2>3
<1>10. GetoptInv'
  <2>1. optind + 1 \in Nat /\ optind' = (optind + 1) + 1
    BY <1>1, <1>5
  <2>2. \A n : n = optind + 1 => GetoptInv'
    BY <1>1, <1>4, <1>7, <1>8, <1>9, <2>1, GetoptNext
  <2> QED
    BY <2>2
<1>11. ArgvType'
  BY <1>1, <1>2, <1>4 DEF ArgvType
<1> QED
  BY <1>1, <1>10, <1>11 DEF CommandLineInv, Refusals, Late

\* getopt_long() meets an option that main() does not want.
LEMMA RefusesInv ==
    ASSUME CommandLineInv, GetoptQuestionMark \/ GetoptDefault
    PROVE  CommandLineInv'
<1>1. /\ argv' = argv /\ state = "getopt" /\ state' \in Refusals /\ optind' = optind + 1 /\ More
      /\ \/ Word \in {"--help", "-x", "-h", "--version"}
         \/ Word = "-l" /\ optind = Len(argv)
  BY DEF GetoptQuestionMark, GetoptDefault, Finishes, Refusals
<1>2. /\ optind \in 1..Len(argv) /\ Reading[optind] = Own(optind) /\ argv \in Seq(Words)
      /\ Len(argv) \in Nat
  BY <1>1, NextWord DEF CommandLineInv, ArgvType
<1>3. Reading[optind] = "option"
  BY <1>1, <1>2 DEF Own, Word, Options
<1>4. Flawed(optind)
  BY <1>1, <1>2, <1>3 DEF Flawed, Word
<1>5. (\E k \in 1..Len(argv) : Flawed(k))'
  BY <1>1, <1>2, <1>4, SameReading
<1>6. ArgvType'
  BY <1>1, <1>2 DEF ArgvType
<1> QED
  BY <1>1, <1>5, <1>6 DEF CommandLineInv, GetoptInv, Refusals, Late

\* After "--" every word is an operand.
LEMMA RestLemma ==
    ASSUME argv \in Seq(Words), NEW m \in 1..Len(argv), Reading[m] = "end"
    PROVE  \A k \in (m + 1)..Len(argv) : Reading[k] = "rest"
<1> DEFINE n == Len(argv) - m
           K == {j \in 0..n : Reading[m + j] \in {"end", "rest"} /\ (j > 0 => Reading[m + j] = "rest")}
<1>1. n \in Nat /\ m \in Nat /\ Len(argv) \in Nat
  OBVIOUS
<1>2. 0 \in K
  BY <1>1
<1>3. ASSUME NEW j \in 1..n, j - 1 \in K PROVE j \in K
  <2>1. /\ m + j \in 1..Len(argv) /\ m + j # 1 /\ (m + j) - 1 = m + (j - 1)
    BY <1>1
  <2>2. Reading[m + j] = After(Reading[(m + j) - 1], m + j)
    BY <2>1, ReadingLemma
  <2>3. Reading[m + j] = "rest"
    BY <1>3, <2>1, <2>2 DEF After
  <2> QED
    BY <2>3
<1>4. 0..n \subseteq K
  <2> HIDE DEF K, n
  <2> QED
    BY <1>1, <1>2, <1>3, BoundedInduction
<1>5. ASSUME NEW k \in (m + 1)..Len(argv) PROVE Reading[k] = "rest"
  <2>1. k - m \in 0..n /\ k - m > 0 /\ m + (k - m) = k
    BY <1>1
  <2>2. k - m \in K
    BY <1>4, <2>1
  <2> QED
    BY <2>1, <2>2
<1> QED
  BY <1>5

\* The numbers m + 1, ..., m + j.
Onward(m, j) == [k \in 1..j |-> m + k]

LEMMA AppendOnward ==
    ASSUME NEW s \in Seq(Nat), NEW m \in Nat, NEW j \in Nat \ {0}
    PROVE  s \o Onward(m, j) = Append(s \o Onward(m, j - 1), m + j)
<1>1. /\ Onward(m, j) \in Seq(Nat) /\ Len(Onward(m, j)) = j
      /\ Onward(m, j - 1) \in Seq(Nat) /\ Len(Onward(m, j - 1)) = j - 1
      /\ \A k \in 1..j : Onward(m, j)[k] = m + k
      /\ \A k \in 1..(j - 1) : Onward(m, j - 1)[k] = m + k
  BY DEF Onward
<1> DEFINE t == Onward(m, j)
           u == Onward(m, j - 1)
           a == s \o t
           c == s \o u
           b == Append(c, m + j)
<1> HIDE DEF t, u
<1>2. /\ t \in Seq(Nat) /\ Len(t) = j /\ u \in Seq(Nat) /\ Len(u) = j - 1
      /\ (\A k \in 1..j : t[k] = m + k) /\ (\A k \in 1..(j - 1) : u[k] = m + k)
  BY <1>1 DEF t, u
<1>3. Len(s) \in Nat /\ m + j \in Nat
  OBVIOUS
<1>4. /\ a \in Seq(Nat) /\ Len(a) = Len(s) + j
      /\ \A x \in 1..(Len(s) + j) : a[x] = IF x <= Len(s) THEN s[x] ELSE t[x - Len(s)]
  BY <1>2, ConcatProperties
<1>5. /\ c \in Seq(Nat) /\ Len(c) = Len(s) + (j - 1)
      /\ \A x \in 1..(Len(s) + (j - 1)) : c[x] = IF x <= Len(s) THEN s[x] ELSE u[x - Len(s)]
  <2>1. /\ c \in Seq(Nat) /\ Len(c) = Len(s) + Len(u)
        /\ \A x \in 1..(Len(s) + Len(u)) : c[x] = IF x <= Len(s) THEN s[x] ELSE u[x - Len(s)]
    BY <1>2, ConcatProperties
  <2> HIDE DEF c
  <2> QED
    BY <1>2, <2>1
<1> HIDE DEF a, c
<1>6. /\ b \in Seq(Nat) /\ Len(b) = Len(s) + j /\ b[Len(s) + j] = m + j
      /\ \A x \in 1..(Len(s) + (j - 1)) : b[x] = c[x]
  <2>1. Len(c) + 1 = Len(s) + j
    BY <1>3, <1>5
  <2>2. b \in Seq(Nat) /\ Len(b) = Len(c) + 1 /\ b[Len(c) + 1] = m + j
        /\ \A x \in 1..Len(c) : b[x] = c[x]
    BY <1>3, <1>5
  <2> HIDE DEF b
  <2> QED
    BY <1>5, <2>1, <2>2
<1> HIDE DEF b
<1>7. ASSUME NEW x \in 1..(Len(s) + j) PROVE a[x] = b[x]
  <2>1. CASE x = Len(s) + j
    <3>1. x - Len(s) = j /\ ~(x <= Len(s)) /\ j \in 1..j
      BY <1>3, <2>1
    <3> QED
      BY <1>2, <1>4, <1>6, <2>1, <3>1
  <2>2. CASE x # Len(s) + j
    <3>1. x \in 1..(Len(s) + (j - 1))
      BY <1>3, <2>2
    <3>2. CASE x <= Len(s)
      BY <1>4, <1>5, <1>6, <3>1, <3>2
    <3>3. CASE ~(x <= Len(s))
      <4>1. x - Len(s) \in 1..(j - 1) /\ x - Len(s) \in 1..j
        BY <1>3, <3>1, <3>3
      <4> QED
        BY <1>2, <1>4, <1>5, <1>6, <3>1, <3>3, <4>1
    <3> QED
      BY <3>2, <3>3
  <2> QED
    BY <2>1, <2>2
<1>8. a = b
  BY <1>4, <1>6, <1>7
<1> QED
  BY <1>8 DEF a, b, c, t, u

LEMMA AscendingOnward ==
    ASSUME NEW S, NEW m \in Nat, NEW n \in Nat, \A k \in 1..n : m + k \in S
    PROVE  Ascending(S, m + n) = Ascending(S, m) \o Onward(m, n)
<1> DEFINE s == Ascending(S, m)
           K == {j \in 0..n : Ascending(S, m + j) = s \o Onward(m, j)}
<1>0. s \in Seq(Nat)
  BY AscendingStep
<1>1. 0 \in K
  <2>1. Onward(m, 0) = <<>>
    BY DEF Onward
  <2>2. s \o <<>> = s
    BY <1>0
  <2>3. m + 0 = m /\ 0 \in 0..n
    OBVIOUS
  <2>4. Ascending(S, m + 0) = s \o Onward(m, 0)
    BY <2>1, <2>2, <2>3
  <2> QED
    BY <2>3, <2>4
<1>2. ASSUME NEW j \in 1..n, j - 1 \in K PROVE j \in K
  <2>1. m + (j - 1) \in Nat /\ (m + (j - 1)) + 1 = m + j /\ m + j \in S /\ j \in Nat \ {0}
    OBVIOUS
  <2>2. Ascending(S, m + j) = Append(Ascending(S, m + (j - 1)), m + j)
    BY <2>1, AscendingStep
  <2>3. Ascending(S, m + (j - 1)) = s \o Onward(m, j - 1)
    BY <1>2
  <2> HIDE DEF s
  <2>4. s \o Onward(m, j) = Append(s \o Onward(m, j - 1), m + j)
    BY <1>0, <2>1, AppendOnward
  <2>5. Ascending(S, m + j) = s \o Onward(m, j)
    BY <2>2, <2>3, <2>4
  <2> QED
    BY <2>5
<1>3. 0..n \subseteq K
  <2> HIDE DEF K
  <2> QED
    BY <1>1, <1>2, BoundedInduction
<1>4. n \in K
  BY <1>3
<1> QED
  BY <1>4

LEMMA EndsInv == ASSUME CommandLineInv, GetoptEnds PROVE CommandLineInv'
<1> DEFINE L == Len(argv)
           tail == [k \in 1..(L - optind) |-> optind + k]
<1>1. /\ argv' = argv /\ loader' = loader /\ state = "getopt" /\ state' = "operands"
      /\ optind' = L + 1 /\ operands' = operands \o tail
      /\ More => argv[optind] = "--"
  BY DEF GetoptEnds, Word
<1>2. /\ argv \in Seq(Words) /\ L \in Nat /\ optind \in 1..(L + 1)
      /\ Scanned(optind - 1) /\ optind - 1 \in Nat /\ optind \in Nat
  BY <1>1 DEF CommandLineInv, ArgvType, GetoptInv
<1>3. operands = Ascending(Given, optind - 1) /\ operands \in Seq(Nat)
  BY <1>2, AscendingStep DEF Scanned
<1>4. /\ \A k \in 1..L : ~Flawed(k)
      /\ operands \o tail = Ascending(Given, L) /\ loader = LastValue(L)
  <2>1. CASE ~More
    <3>1. optind = L + 1 /\ optind - 1 = L
      BY <1>2, <2>1 DEF More
    <3>2. tail = <<>>
      <4>1. 1..(L - optind) = {}
        BY <1>2, <3>1
      <4> QED
        BY <4>1
    <3>3. operands \o tail = operands
      <4>1. operands \o <<>> = operands
        BY <1>3
      <4> QED
        BY <3>2, <4>1
    <3> QED
      BY <1>2, <1>3, <3>1, <3>3 DEF Scanned
  <2>2. CASE More
    <3>1. optind \in 1..L /\ Reading[optind] = "end"
      BY <1>1, <2>2, NextWord DEF Own
    <3>2. \A k \in (optind + 1)..L : Reading[k] = "rest"
      BY <1>2, <3>1, RestLemma
    <3>3. Ascending(Given, optind) = operands
      <4>1. optind \notin Given /\ (optind - 1) + 1 = optind
        BY <1>2, <3>1 DEF Given
      <4> QED
        BY <1>2, <1>3, <4>1, AscendingStep
    <3>4. operands \o tail = Ascending(Given, L)
      <4>1. L - optind \in Nat /\ optind + (L - optind) = L
        BY <1>2, <3>1
      <4>2. \A k \in 1..(L - optind) : optind + k \in Given
        <5>1. \A k \in 1..(L - optind) : optind + k \in (optind + 1)..L /\ optind + k \in 1..L
          BY <1>2, <3>1
        <5> QED
          BY <1>2, <3>2, <5>1 DEF Given
      <4>3. Ascending(Given, optind + (L - optind))
              = Ascending(Given, optind) \o Onward(optind, L - optind)
        BY <1>2, <4>1, <4>2, AscendingOnward
      <4> QED
        BY <3>3, <4>1, <4>3 DEF Onward
    <3>5. loader = LastValue(L)
      <4>1. Values(L) = Values(optind - 1)
        <5>1. ASSUME NEW k \in 1..L, Reading[k] = "value" PROVE k \in 1..(optind - 1)
          BY <1>2, <3>1, <3>2, <5>1
        <5>2. 1..(optind - 1) \subseteq 1..L
          BY <1>2, <3>1
        <5> QED
          BY <5>1, <5>2 DEF Values
      <4> QED
        BY <1>2, <4>1 DEF LastValue, Scanned
    <3>6. ASSUME NEW k \in 1..L PROVE ~Flawed(k)
      <4>1. k \in 1..(optind - 1) \/ k = optind \/ k \in (optind + 1)..L
        BY <1>2, <3>1
      <4> QED
        BY <1>2, <3>1, <3>2, <4>1 DEF Scanned, Flawed
    <3> QED
      BY <3>4, <3>5, <3>6
  <2> QED
    BY <2>1, <2>2
<1> HIDE DEF tail
<1>5. Scanned(Len(argv))'
  <2>1. L' = L
    BY <1>1
  <2>2. /\ Reading' = Reading /\ Given' = Given /\ \A k : Flawed(k)' = Flawed(k)
    BY <1>1, SameReading
  <2>3. loader' = LastValue(Len(argv))'
    BY <1>1, <1>4, <2>2 DEF LastValue, Values
  <2> QED
    BY <1>1, <1>4, <2>1, <2>2, <2>3 DEF Scanned
<1>6. ArgvType'
  BY <1>1, <1>2 DEF ArgvType
<1> QED
  BY <1>1, <1>5, <1>6 DEF CommandLineInv, GetoptInv, Refusals, Late

LEMMA ChecksInv == ASSUME CommandLineInv, ChecksOperands PROVE CommandLineInv'
<1>1. /\ argv' = argv /\ operands' = operands /\ loader' = loader /\ optind' = optind
      /\ state = "operands" /\ state' \in Late
      /\ state' = "Run" <=> Len(operands) = 4 /\ nworkers_str = "4"
  <2>1. argv' = argv /\ operands' = operands /\ loader' = loader /\ optind' = optind
        /\ state = "operands" /\ state' \in Late
    BY DEF ChecksOperands, Finishes, Late
  <2>2. state' = "Run" <=> Len(operands) = 4 /\ nworkers_str = "4"
    BY DEF ChecksOperands, Finishes, NotFourOperands
  <2> QED
    BY <2>1, <2>2
<1>2. Scanned(Len(argv)) /\ ArgvType
  BY <1>1 DEF CommandLineInv
<1>3. Len(operands) = 4 => nworkers_str = argv[operands[2]]
  BY DEF nworkers_str
<1>4. state' = "Run" <=> Len(operands) = 4 /\ argv[operands[2]] = "4"
  BY <1>1, <1>3
<1>5. (state = "Run" <=> Len(operands) = 4 /\ argv[operands[2]] = "4")'
  BY <1>1, <1>4
<1>6. Scanned(Len(argv))'
  <2>1. /\ Reading' = Reading /\ Given' = Given /\ \A k : Flawed(k)' = Flawed(k)
    BY <1>1, SameReading
  <2>2. loader' = LastValue(Len(argv))'
    BY <1>1, <1>2, <2>1 DEF LastValue, Values, Scanned
  <2> QED
    BY <1>1, <1>2, <2>1, <2>2 DEF Scanned
<1>7. ArgvType'
  BY <1>1, <1>2 DEF ArgvType
<1> QED
  BY <1>1, <1>5, <1>6, <1>7 DEF CommandLineInv, GetoptInv, Refusals, Late

\* A step that leaves the command line alone.
LEMMA SameCommandLine == ASSUME CommandLineInv, UNCHANGED parsed PROVE CommandLineInv'
<1>1. /\ argv' = argv /\ optind' = optind /\ operands' = operands /\ loader' = loader
      /\ state' = state
  BY DEF parsed
<1>2. Reading' = Reading /\ Given' = Given /\ \A k : Flawed(k)' = Flawed(k)
  BY <1>1, SameReading
<1>3. /\ LastValue(0)' = LastValue(0) /\ LastValue(optind - 1)' = LastValue(optind - 1)
      /\ LastValue(Len(argv))' = LastValue(Len(argv))
  BY <1>1, <1>2 DEF LastValue, Values
<1>4. /\ Scanned(0)' = Scanned(0) /\ Scanned(optind - 1)' = Scanned(optind - 1)
      /\ Scanned(Len(argv))' = Scanned(Len(argv))
  BY <1>1, <1>2, <1>3 DEF Scanned
<1> QED
  BY <1>1, <1>2, <1>4 DEF CommandLineInv, ArgvType, GetoptInv

LEMMA ParsesInv == ASSUME CommandLineInv, ParsesArguments PROVE CommandLineInv'
  BY ShortcutInv, SkipsInv, LoaderInv, RefusesInv, EndsInv, ChecksInv DEF ParsesArguments

LEMMA CommandLineStep == CommandLineInv /\ [Next]_vars => CommandLineInv'
<1> SUFFICES ASSUME CommandLineInv, [Next]_vars PROVE CommandLineInv'
  OBVIOUS
<1>1. CASE Parses
  BY <1>1, ParsesInv DEF Parses
<1>2. CASE \/ InitializeSockets \/ LoadApplication \/ psgi_application_path
           \/ \E n \in Titles : SetProcessTitle(n)
  BY <1>2, SameCommandLine
  DEF InitializeSockets, LoadApplication, psgi_application_path, SetProcessTitle
<1>3. CASE UNCHANGED vars
  BY <1>3, SameCommandLine DEF vars, parsed
<1> QED
  BY <1>1, <1>2, <1>3 DEF Next

\* main() starts the application exactly for the command lines of the usage text, with the
\* operands and the loader they name, for command lines of every length: getopt_long()'s
\* permutation, "--" and the words that are values of -l included.
THEOREM CommandLines == Spec => []StartsAsAsked
<1>1. Init => CommandLineInv
  BY CommandLineInitLemma DEF Init
<1> QED
  BY <1>1, CommandLineStep, CommandLineSafe, PTL DEF Spec

---------------------------------------------------------------------------
(* The words and the title *)

\* Nothing is written before the title is, and then what Written says.
TitleInv ==
    /\ pc \in {"sockets", "load", "title", "titled"}
    /\ pc # "sockets" => state = "Run"
    /\ pc # "titled" => written = <<>>
    /\ pc = "titled" => title \in Nat /\ written = Written(title)

\* What is computed from argv stays the same with it.
LEMMA SameWords ==
    ASSUME argv' = argv, operands' = operands, environ' = environ
    PROVE  \A n : Written(n)' = Written(n)
<1>1. Start' = Start
  BY DEF Start, Length
<1>2. argv_' = argv_
  BY DEF argv_
<1>3. (\A k : EndOf(k)' = EndOf(k)) /\ EnvStart' = EnvStart
  BY <1>1 DEF EndOf, EnvStart, Length
<1>4. LastInRow' = LastInRow
  BY <1>1, <1>2, <1>3 DEF LastInRow, argc
<1>5. end' = end
  BY <1>1, <1>2, <1>4 DEF end, EndOf, Length
<1>6. RunsIntoEnviron' = RunsIntoEnviron /\ maxlen' = maxlen
  BY <1>3, <1>5 DEF RunsIntoEnviron, maxlen
<1> QED
  BY <1>5, <1>6 DEF Written

\* Once main() has called Run(), it is done with the command line.
LEMMA RunIsLate == ASSUME ParsesArguments PROVE state \in {"start", "getopt", "operands"}
  BY DEF ParsesArguments, Shortcut, Finishes, GetoptSkips, GetoptLoader, GetoptQuestionMark,
         GetoptDefault, GetoptEnds, ChecksOperands

LEMMA TitleStep == TitleInv /\ [Next]_vars => TitleInv'
<1> SUFFICES ASSUME TitleInv, [Next]_vars PROVE TitleInv'
  OBVIOUS
<1>1. CASE Parses
  <2>1. pc = "sockets" /\ UNCHANGED <<environ, written, pc, title>>
    BY <1>1, RunIsLate DEF Parses, TitleInv
  <2> QED
    BY <2>1 DEF TitleInv
<1>2. CASE InitializeSockets
  <2>1. /\ pc = "sockets" /\ pc' = "load" /\ state = "Run" /\ state' = state
        /\ written' = written
    BY <1>2 DEF InitializeSockets, parsed
  <2> QED
    BY <2>1 DEF TitleInv
<1>3. CASE LoadApplication
  <2>1. /\ pc = "load" /\ pc' = "title" /\ state' = state
        /\ written' = written
    BY <1>3 DEF LoadApplication, parsed
  <2> QED
    BY <2>1 DEF TitleInv
<1>4. ASSUME NEW n \in Titles, SetProcessTitle(n) PROVE TitleInv'
  <2>1. /\ pc = "title" /\ pc' = "titled" /\ title' = n /\ written' = Written(n)
        /\ argv' = argv /\ operands' = operands /\ environ' = environ /\ state' = state
    BY <1>4 DEF SetProcessTitle, parsed
  <2>2. n \in Nat
    BY TitleAssumption
  <2>3. written' = Written(n)'
    BY <2>1, SameWords
  <2>4. written' = Written(title)'
    BY <2>1, <2>3 DEF Written
  <2> QED
    BY <2>1, <2>2, <2>4 DEF TitleInv
<1>5. CASE psgi_application_path \/ UNCHANGED vars
  <2>1. argv' = argv /\ operands' = operands /\ environ' = environ /\ state' = state
        /\ UNCHANGED <<written, pc, title>>
    BY <1>5 DEF psgi_application_path, vars, parsed
  <2>2. Written(title)' = Written(title)
    BY <2>1, SameWords DEF Written
  <2> QED
    BY <2>1, <2>2 DEF TitleInv
<1> QED
  BY <1>1, <1>2, <1>3, <1>4, <1>5 DEF Next

LEMMA TitleInit == Init => TitleInv
  BY DEF Init, TitleInv

---------------------------------------------------------------------------
(* Where the words are *)

LEMMA LengthLemma ==
    ASSUME argv \in Seq(Words), NEW k \in 0..Len(argv)
    PROVE  Length(k) \in Nat
<1>1. CASE k = 0
  BY <1>1, TitleAssumption DEF Length
<1>2. CASE k # 0
  <2>1. argv[k] \in Words
    BY <1>2
  <2> QED
    BY <1>2, <2>1, TitleAssumption DEF Length
<1> QED
  BY <1>1, <1>2

\* Each word starts behind the one before it.
LEMMA StartLemma ==
    ASSUME argv \in Seq(Words)
    PROVE  /\ Start \in [0..Len(argv) -> Nat]
           /\ Start[0] = 0
           /\ \A k \in 1..Len(argv) : Start[k] = Start[k - 1] + Length(k - 1) + 1
<1> DEFINE n == Len(argv)
           Body(f, k) == IF k = 0 THEN 0 ELSE f[k - 1] + Length(k - 1) + 1
           R(f) == f = [k \in 0..n |-> Body(f, k)]
           step == [p \in (1..n) \X Nat |-> p[2] + Length(p[1] - 1) + 1]
<1>1. n \in Nat
  OBVIOUS
<1>2. \A k \in 1..n : Length(k - 1) \in Nat
  <2>1. \A k \in 1..n : k - 1 \in 0..Len(argv)
    BY <1>1
  <2> QED
    BY <2>1, LengthLemma
<1>3. step \in [(1..n) \X Nat -> Nat]
  <2>1. ASSUME NEW p \in (1..n) \X Nat PROVE p[2] + Length(p[1] - 1) + 1 \in Nat
    <3>1. p[1] \in 1..n /\ p[2] \in Nat
      BY <2>1
    <3>2. Length(p[1] - 1) \in Nat
      BY <1>2, <3>1
    <3> QED
      BY <3>1, <3>2
  <2> QED
    BY <2>1
<1>4. \A k \in 1..n : \A x \in Nat : step[<<k, x>>] = x + Length(k - 1) + 1
  OBVIOUS
<1> HIDE DEF step, n
<1>5. PICK f \in [0..n -> Nat] : Computes(f, 0, step, n)
  BY <1>1, <1>3, Recursion
<1>6. f[0] = 0 /\ \A k \in 1..n : f[k] = f[k - 1] + Length(k - 1) + 1
  <2>1. \A k \in 1..n : f[k - 1] \in Nat
    BY <1>1, <1>5
  <2> QED
    BY <1>4, <1>5, <2>1 DEF Computes
<1>7. R(f)
  <2>1. ASSUME NEW k \in 0..n PROVE f[k] = Body(f, k)
    <3>1. CASE k = 0
      BY <1>6, <3>1
    <3>2. CASE k # 0
      <4>1. k \in 1..n
        BY <1>1, <3>2
      <4> QED
        BY <1>6, <3>2, <4>1
    <3> QED
      BY <3>1, <3>2
  <2>2. f = [k \in 0..n |-> f[k]]
    OBVIOUS
  <2> HIDE DEF Body
  <2> QED
    BY <2>1, <2>2
<1> DEFINE h == CHOOSE f_1 : R(f_1)
<1>8. R(h)
  <2>1. \E g : R(g)
    BY <1>7
  <2> QED
    BY <2>1, Zenon
<1>9. Start = h
  BY DEF Start, n
<1> HIDE DEF h
<1>10. h[0] = 0 /\ \A k \in 1..n : h[k] = h[k - 1] + Length(k - 1) + 1
  <2> HIDE DEF Body
  <2>1. \A k \in 0..n : h[k] = Body(h, k)
    BY <1>8
  <2> USE DEF Body
  <2> HIDE DEF R
  <2>2. 0 \in 0..n /\ \A k \in 1..n : k \in 0..n /\ k # 0
    BY <1>1
  <2> QED
    BY <2>1, <2>2
<1>11. Agree(h, f, n)
  <2>1. SameSteps(h, f, n)
    BY <1>6, <1>10 DEF SameSteps
  <2> QED
    BY <1>1, <2>1, Unique
<1>12. h \in [0..n -> Nat]
  <2> HIDE DEF Body
  <2>1. h = [k \in 0..n |-> h[k]]
    BY <1>8
  <2> HIDE DEF R
  <2>2. \A k \in 0..n : h[k] \in Nat
    BY <1>5, <1>11 DEF Agree
  <2> QED
    BY <2>1, <2>2
<1> QED
  BY <1>9, <1>10, <1>12 DEF n

\* Words do not overlap, and the environment is behind all of them.
LEMMA EndLemma ==
    ASSUME argv \in Seq(Words)
    PROVE  /\ \A k \in 0..Len(argv) : EndOf(k) \in Nat /\ EndOf(k) <= EndOf(Len(argv))
           /\ \A k \in 1..Len(argv) : Start[k] = EndOf(k - 1) + 1 /\ EndOf(k) > EndOf(k - 1)
<1> DEFINE n == Len(argv)
           K == {j \in 0..n : EndOf(n - j) <= EndOf(n)}
<1>1. n \in Nat
  OBVIOUS
<1>2. ASSUME NEW k \in 0..n
      PROVE  EndOf(k) \in Nat /\ Start[k] \in Nat /\ Length(k) \in Nat
             /\ EndOf(k) = Start[k] + Length(k)
  BY <1>2, StartLemma, LengthLemma DEF EndOf
<1>3. ASSUME NEW k \in 1..n
      PROVE  Start[k] = EndOf(k - 1) + 1 /\ EndOf(k) > EndOf(k - 1)
  <2>1. k \in 0..n /\ k - 1 \in 0..n
    BY <1>1
  <2>2. /\ EndOf(k) \in Nat /\ Start[k] \in Nat /\ Length(k) \in Nat
        /\ EndOf(k) = Start[k] + Length(k)
    BY <1>2, <2>1
  <2>3. /\ EndOf(k - 1) \in Nat /\ Start[k - 1] \in Nat /\ Length(k - 1) \in Nat
        /\ EndOf(k - 1) = Start[k - 1] + Length(k - 1)
    BY <1>2, <2>1
  <2>4. Start[k] = Start[k - 1] + Length(k - 1) + 1
    BY StartLemma
  <2> QED
    BY <2>2, <2>3, <2>4
<1>4. 0 \in K
  <2>1. n - 0 = n /\ n \in 0..n
    BY <1>1
  <2>2. EndOf(n) \in Nat
    BY <1>2, <2>1
  <2> QED
    BY <1>1, <2>1, <2>2
<1>5. ASSUME NEW j \in 1..n, j - 1 \in K PROVE j \in K
  <2>1. n - j \in 0..n /\ n - (j - 1) \in 1..n /\ n - (j - 1) \in 0..n /\ n \in 0..n
        /\ (n - (j - 1)) - 1 = n - j
    BY <1>1
  <2>2. EndOf(n - (j - 1)) > EndOf(n - j)
    BY <1>3, <2>1
  <2>3. EndOf(n - (j - 1)) \in Nat /\ EndOf(n - j) \in Nat /\ EndOf(n) \in Nat
    BY <1>2, <2>1
  <2>4. EndOf(n - (j - 1)) <= EndOf(n)
    BY <1>5
  <2>5. EndOf(n - j) <= EndOf(n)
    BY <2>2, <2>3, <2>4
  <2> QED
    BY <2>5
<1>6. 0..n \subseteq K
  <2> HIDE DEF K, n
  <2> QED
    BY <1>1, <1>4, <1>5, BoundedInduction
<1>7. ASSUME NEW k \in 0..n PROVE EndOf(k) <= EndOf(n)
  <2>1. n - k \in 0..n /\ n - (n - k) = k
    BY <1>1
  <2>2. n - k \in K
    BY <1>6, <2>1
  <2> QED
    BY <2>1, <2>2
<1> QED
  BY <1>2, <1>3, <1>7

\* argv_ has every word once main() has accepted the command line, the program first.
LEMMA ArgvLemma ==
    ASSUME CommandLineInv, state = "Run"
    PROVE  /\ argv \in Seq(Words) /\ Len(argv) \in Nat \ {0}
           /\ argv_ \in Seq(0..Len(argv)) /\ argc \in Nat \ {0}
           /\ \A k \in 0..Len(argv) : \E x \in 1..argc : argv_[x] = k
           /\ \A p \in 1..4 : operands[p] \in 1..Len(argv) /\ argv_[(argc - 4) + p] = operands[p]
<1> DEFINE L == Len(argv)
           S == DOMAIN argv \ Range(operands)
           A == Ascending(S, L)
           B == <<0>> \o A
<1>1. argv \in Seq(Words) /\ L \in Nat /\ DOMAIN argv = 1..L
  BY DEF CommandLineInv, ArgvType
<1>2. operands = Ascending(Given, L) /\ Len(operands) = 4
  BY DEF CommandLineInv, Late, Scanned
<1>3. operands \in Seq(Given \cap 1..L)
  BY <1>1, <1>2, AscendingMembers
<1>4. operands \in Seq(0..L) /\ \A p \in 1..4 : operands[p] \in 1..L
  <2>1. \A p \in 1..Len(operands) : operands[p] \in 1..L
    BY <1>3
  <2>2. operands \in Seq(Nat)
    BY <1>1, <1>2, AscendingStep
  <2>3. \A p \in 1..Len(operands) : operands[p] \in 0..L
    BY <2>1
  <2>4. operands \in Seq(0..L)
    BY <2>2, <2>3, SeqOver
  <2> QED
    BY <1>2, <2>1, <2>4
<1>5. L # 0
  BY <1>1, <1>4
<1> HIDE DEF S, L
<1>6. /\ A \in Seq(S \cap 1..L)
      /\ \A x \in S \cap 1..L : \E p \in 1..Len(A) : A[p] = x
      /\ A \in Seq(Nat)
  <2>1. L \in Nat
    BY <1>1
  <2>2. Ascending(S, L) \in Seq(Nat)
    BY <2>1, AscendingStep
  <2>3. Ascending(S, L) \in Seq(S \cap 1..L)
    BY <2>1, AscendingMembers
  <2>4. \A x \in S \cap 1..L : \E p \in 1..Len(Ascending(S, L)) : Ascending(S, L)[p] = x
    BY <2>1, AscendingMembers
  <2> QED
    BY <2>2, <2>3, <2>4
<1> HIDE DEF A
<1>7. A \in Seq(0..L)
  <2>1. \A p \in 1..Len(A) : A[p] \in S \cap 1..L
    BY <1>6
  <2>2. \A p \in 1..Len(A) : A[p] \in 0..L
    BY <2>1
  <2> QED
    BY <1>6, <2>2, SeqOver
<1>8. <<0>> \in Seq(0..L) /\ Len(<<0>>) = 1 /\ <<0>>[1] = 0
  BY <1>1
<1>9. /\ B \in Seq(0..L) /\ Len(B) = 1 + Len(A) /\ B[1] = 0 /\ Len(A) \in Nat
      /\ \A x \in 1..Len(A) : B[x + 1] = A[x]
  <2>1. /\ B \in Seq(0..L) /\ Len(B) = 1 + Len(A)
        /\ \A x \in 1..(1 + Len(A)) : B[x] = IF x <= 1 THEN <<0>>[x] ELSE A[x - 1]
    BY <1>7, <1>8, ConcatProperties
  <2>2. Len(A) \in Nat
    BY <1>7
  <2> HIDE DEF B
  <2>3. B[1] = 0
    BY <1>8, <2>1, <2>2
  <2>4. ASSUME NEW x \in 1..Len(A) PROVE B[x + 1] = A[x]
    <3>1. x + 1 \in 1..(1 + Len(A)) /\ ~(x + 1 <= 1) /\ (x + 1) - 1 = x
      BY <2>2
    <3> QED
      BY <2>1, <3>1
  <2> QED
    BY <2>1, <2>2, <2>3, <2>4
<1>10. argv_ = B \o operands
  BY DEF argv_, A, S, L, B
<1> HIDE DEF B
<1>11. /\ argv_ \in Seq(0..L) /\ argc = Len(B) + 4
       /\ \A x \in 1..(Len(B) + 4) : argv_[x] = IF x <= Len(B) THEN B[x] ELSE operands[x - Len(B)]
  <2>1. /\ B \o operands \in Seq(0..L) /\ Len(B \o operands) = Len(B) + Len(operands)
        /\ \A x \in 1..(Len(B) + Len(operands)) :
              (B \o operands)[x] = IF x <= Len(B) THEN B[x] ELSE operands[x - Len(B)]
    <3>1. B \in Seq(0..L) /\ operands \in Seq(0..L)
      BY <1>4, <1>9
    <3> QED
      BY <3>1, ConcatProperties, Zenon
  <2> QED
    BY <1>2, <1>10, <2>1 DEF argc
<1>12. ASSUME NEW k \in 0..L PROVE \E x \in 1..argc : argv_[x] = k
  <2>0. Len(B) \in Nat
    BY <1>9
  <2>1. CASE k = 0
    <3>1. 1 \in 1..argc /\ argv_[1] = 0
      BY <1>9, <1>11, <2>0
    <3> QED
      BY <2>1, <3>1
  <2>2. CASE k \in S
    <3>1. PICK p \in 1..Len(A) : A[p] = k
      BY <1>1, <1>6, <2>2 DEF S
    <3>2. p + 1 \in 1..argc /\ p + 1 \in 1..(Len(B) + 4) /\ p + 1 <= Len(B)
      BY <1>9, <1>11
    <3>3. argv_[p + 1] = k
      BY <1>9, <1>11, <3>1, <3>2
    <3> QED
      BY <3>2, <3>3
  <2>3. CASE k \in Range(operands)
    <3>1. PICK p \in 1..4 : operands[p] = k
      BY <1>2, <1>4, <2>3 DEF Range
    <3>2. /\ Len(B) + p \in 1..(Len(B) + 4) /\ ~(Len(B) + p <= Len(B))
          /\ (Len(B) + p) - Len(B) = p
      BY <2>0
    <3>3. argv_[Len(B) + p] = k
      BY <1>11, <3>1, <3>2
    <3> QED
      BY <1>11, <3>2, <3>3
  <2> QED
    BY <1>1, <2>1, <2>2, <2>3 DEF S
<1>13. ASSUME NEW p \in 1..4
       PROVE  operands[p] \in 1..L /\ argv_[(argc - 4) + p] = operands[p]
  <2>1. operands[p] \in 1..L
    BY <1>4
  <2>2. Len(B) \in Nat
    BY <1>9
  <2>3. (argc - 4) + p = Len(B) + p /\ Len(B) + p \in 1..(Len(B) + 4)
        /\ ~(Len(B) + p <= Len(B)) /\ (Len(B) + p) - Len(B) = p
    BY <1>11, <2>2
  <2>4. argv_[Len(B) + p] = operands[p]
    BY <1>11, <2>3
  <2> QED
    BY <2>1, <2>3, <2>4
<1>14. argc \in Nat \ {0}
  BY <1>9, <1>11
<1> QED
  BY <1>1, <1>5, <1>11, <1>12, <1>13, <1>14 DEF L

\* The loop of SetProcessTitle finds a word, and the last one where all are in order.
LEMMA RowLemma ==
    ASSUME CommandLineInv, state = "Run"
    PROVE  /\ end \in Nat /\ end <= EndOf(Len(argv))
           /\ (\A x \in 1..argc : argv_[x] = x - 1) => end = EndOf(Len(argv))
<1> DEFINE L == Len(argv)
           InRow(x) == \A j \in 2..x : Start[argv_[j]] = EndOf(argv_[j - 1]) + 1
           I == {x \in 1..argc : InRow(x)}
<1>1. /\ argv \in Seq(Words) /\ L \in Nat \ {0}
      /\ argv_ \in Seq(0..L) /\ argc \in Nat \ {0} /\ argc = Len(argv_)
      /\ \A k \in 0..L : \E x \in 1..argc : argv_[x] = k
  BY ArgvLemma DEF argc
<1>2. LastInRow = Max(I)
  BY DEF LastInRow
<1>3. I \in SUBSET (0..argc) /\ 1 \in I
  <2>1. I \in SUBSET (0..argc)
    BY <1>1
  <2>2. 1 \in 1..argc /\ 2..1 = {}
    BY <1>1
  <2>3. InRow(1)
    BY <2>2
  <2> QED
    BY <2>1, <2>2, <2>3
<1> HIDE DEF I
<1>4. Max(I) \in I /\ \A x \in I : x <= Max(I)
  BY <1>1, <1>3, MaxLemma
<1>5. Max(I) \in 1..argc
  BY <1>4 DEF I
<1>6. argv_[Max(I)] \in 0..L
  BY <1>1, <1>5
<1>7. end \in Nat /\ end <= EndOf(L)
  BY <1>1, <1>2, <1>6, EndLemma DEF end
<1>8. ASSUME \A x \in 1..argc : argv_[x] = x - 1 PROVE end = EndOf(L)
  <2>1. argc = L + 1
    <3>0. argc \in 1..argc /\ L \in 0..L
      BY <1>1
    <3>1. argv_[argc] \in 0..L
      BY <1>1, <3>0
    <3>2. PICK x \in 1..argc : argv_[x] = L
      BY <1>1, <3>0, Zenon
    <3>3. x - 1 = L
      BY <1>8, <3>2
    <3>4. argv_[argc] = argc - 1
      BY <1>8, <3>0
    <3> QED
      BY <1>1, <3>1, <3>2, <3>3, <3>4
  <2>2. argc \in I
    <3>1. ASSUME NEW j \in 2..argc PROVE Start[argv_[j]] = EndOf(argv_[j - 1]) + 1
      <4>1. j \in 1..argc /\ j - 1 \in 1..argc /\ j - 1 \in 1..L
        BY <1>1, <2>1
      <4>2. argv_[j] = j - 1 /\ argv_[j - 1] = (j - 1) - 1
        BY <1>8, <4>1
      <4>3. Start[j - 1] = EndOf((j - 1) - 1) + 1
        BY <1>1, <4>1, EndLemma
      <4> QED
        BY <4>2, <4>3
    <3> QED
      BY <1>1, <3>1 DEF I
  <2>3. Max(I) = argc
    BY <1>1, <1>4, <1>5, <2>2
  <2>4. argv_[Max(I)] = L
    <3>1. argc \in 1..argc /\ argc - 1 = L
      BY <1>1, <2>1
    <3>2. argv_[argc] = argc - 1
      BY <1>8, <3>1
    <3> QED
      BY <2>3, <3>1, <3>2
  <2> QED
    BY <1>2, <2>4 DEF end
<1> QED
  BY <1>7, <1>8

\* What is written where: the title, a NUL behind it, and perhaps a space.
LEMMA WrittenLemma ==
    ASSUME NEW n \in Nat, end \in Nat, maxlen \in Nat, RunsIntoEnviron => end > maxlen,
           ~RunsIntoEnviron => maxlen = end
    PROVE  LET shown == Cardinality({a \in DOMAIN Written(n) : Written(n)[a] = "title"})
           IN  /\ \A a \in DOMAIN Written(n) : a <= end
               /\ shown \in Nat /\ (shown = n \/ shown = maxlen)
               /\ Written(n)[shown] = "NUL"
               /\ \A a \in 0..(shown - 1) : Written(n)[a] = "title"
               /\ RunsIntoEnviron => end \in DOMAIN Written(n) /\ Written(n)[end] = "space"
<1> DEFINE w == Written(n)
           space == IF RunsIntoEnviron THEN {end} ELSE {}
           D == 0..maxlen \cup space
           T == {a \in DOMAIN w : w[a] = "title"}
           shown == Cardinality(T)
           m == IF n < maxlen THEN n ELSE maxlen
<1>1. /\ DOMAIN w = D
      /\ \A a \in D : w[a] = IF a < n /\ a < maxlen THEN "title"
                              ELSE IF a <= maxlen THEN "NUL" ELSE "space"
  BY DEF Written
<1>2. m \in Nat /\ m <= maxlen /\ m <= n /\ (m = n \/ m = maxlen)
  OBVIOUS
<1>3. \A a \in D : a \in Nat /\ a <= end /\ (a <= maxlen \/ a = end)
  <2>1. CASE RunsIntoEnviron
    BY <2>1
  <2>2. CASE ~RunsIntoEnviron
    BY <2>2
  <2> QED
    BY <2>1, <2>2
<1>4. 0..maxlen \subseteq D /\ (RunsIntoEnviron => end \in D)
  OBVIOUS
<1> HIDE DEF w, D
<1>5. \A a \in D : w[a] = "title" <=> a < m
  <2>1. ASSUME NEW a \in D PROVE w[a] = "title" <=> a < m
    <3>1. w[a] = IF a < n /\ a < maxlen THEN "title" ELSE IF a <= maxlen THEN "NUL" ELSE "space"
      BY <1>1
    <3>2. a \in Nat
      BY <1>3
    <3>3. (a < n /\ a < maxlen) <=> a < m
      BY <3>2
    <3> HIDE DEF m
    <3> QED
      BY <3>1, <3>3
  <2> QED
    BY <2>1
<1>6. T = 0..(m - 1)
  <2> HIDE DEF m
  <2>1. \A a \in 0..(m - 1) : a \in D /\ a < m
    BY <1>2, <1>4
  <2>2. \A a \in D : a < m => a \in 0..(m - 1)
    BY <1>2, <1>3
  <2> QED
    BY <1>1, <1>5, <2>1, <2>2
<1> HIDE DEF m, T
<1>7. shown = m
  <2>1. Cardinality(0..(m - 1)) = m
    <3>1. 0 \in Int /\ m - 1 \in Int
      BY <1>2
    <3>2. Cardinality(0..(m - 1)) = IF 0 > m - 1 THEN 0 ELSE (m - 1) - 0 + 1
      BY <3>1, FS_Interval
    <3> QED
      BY <1>2, <3>2
  <2> QED
    BY <1>6, <2>1
<1> HIDE DEF shown
<1>8. w[shown] = "NUL"
  <2>1. m \in D /\ m <= maxlen /\ ~(m < n /\ m < maxlen)
    BY <1>2, <1>4 DEF m
  <2> QED
    BY <1>1, <1>7, <2>1
<1>9. \A a \in 0..(shown - 1) : w[a] = "title"
  <2>1. \A a \in 0..(m - 1) : a \in D /\ a < m
    BY <1>2, <1>4
  <2> QED
    BY <1>5, <1>7, <2>1
<1>10. RunsIntoEnviron => end \in DOMAIN w /\ w[end] = "space"
  <2> SUFFICES ASSUME RunsIntoEnviron PROVE end \in DOMAIN w /\ w[end] = "space"
    OBVIOUS
  <2>1. end \in D /\ ~(end < maxlen) /\ ~(end <= maxlen)
    BY <1>4
  <2> QED
    BY <1>1, <2>1
<1>11. \A a \in DOMAIN w : a <= end
  BY <1>1, <1>3
<1>12. /\ \A a \in DOMAIN w : a <= end
       /\ shown \in Nat /\ (shown = n \/ shown = maxlen)
       /\ w[shown] = "NUL"
       /\ \A a \in 0..(shown - 1) : w[a] = "title"
       /\ RunsIntoEnviron => end \in DOMAIN w /\ w[end] = "space"
  BY <1>2, <1>7, <1>8, <1>9, <1>10, <1>11
<1> QED
  BY <1>12 DEF w, shown, T

LEMMA TitleSafe == CommandLineInv /\ TitleInv => TitleFits
<1> DEFINE shown == Cardinality({a \in DOMAIN written : written[a] = "title"})
           last == EnvStart - 1
           L == Len(argv)
<1> SUFFICES ASSUME CommandLineInv, TitleInv, pc = "titled"
             PROVE  /\ \A a \in DOMAIN written : a <= last
                    /\ written[shown] = "NUL" /\ (\A a \in 0..(shown - 1) : written[a] = "title")
                    /\ environ /\ (\A x \in 1..argc : argv_[x] = x - 1)
                           => /\ last \in DOMAIN written /\ written[last] # "NUL"
                              /\ shown = title \/ shown = last - 1
  BY DEF TitleFits
<1>1. state = "Run" /\ title \in Nat /\ written = Written(title)
  BY DEF TitleInv
<1>2. argv \in Seq(Words) /\ L \in Nat \ {0}
  BY <1>1, ArgvLemma
<1>3. /\ end \in Nat /\ end <= EndOf(L)
      /\ (\A x \in 1..argc : argv_[x] = x - 1) => end = EndOf(L)
  BY <1>1, RowLemma
<1>4. EndOf(L) \in Nat /\ EndOf(L) > 0 /\ last = EndOf(L) /\ EnvStart = EndOf(L) + 1
  <2>1. L \in 0..L /\ L \in 1..L /\ L - 1 \in 0..L
    BY <1>2
  <2>2. EndOf(L) \in Nat /\ EndOf(L - 1) \in Nat /\ EndOf(L) > EndOf(L - 1)
    BY <1>2, <2>1, EndLemma
  <2> QED
    BY <2>2 DEF EnvStart
<1>5. RunsIntoEnviron => end = EndOf(L) /\ maxlen = end - 1
  BY <1>3, <1>4 DEF RunsIntoEnviron, maxlen
<1>6. ~RunsIntoEnviron => maxlen = end
  BY DEF maxlen
<1>7. maxlen \in Nat /\ (RunsIntoEnviron => end > maxlen)
  BY <1>3, <1>4, <1>5, <1>6
<1>8. /\ \A a \in DOMAIN written : a <= end
      /\ shown \in Nat /\ (shown = title \/ shown = maxlen)
      /\ written[shown] = "NUL"
      /\ \A a \in 0..(shown - 1) : written[a] = "title"
      /\ RunsIntoEnviron => end \in DOMAIN written /\ written[end] = "space"
  BY <1>1, <1>3, <1>6, <1>7, WrittenLemma
<1> HIDE DEF shown, last, L
<1>9. ASSUME NEW a \in DOMAIN written PROVE a <= last
  <2>1. a <= end /\ DOMAIN written \subseteq Int
    <3>1. DOMAIN written = 0..maxlen \cup (IF RunsIntoEnviron THEN {end} ELSE {})
      BY <1>1 DEF Written
    <3> QED
      BY <1>3, <1>7, <1>8, <3>1
  <2> QED
    BY <1>3, <1>4, <2>1
<1>10. ASSUME environ, \A x \in 1..argc : argv_[x] = x - 1
       PROVE  /\ last \in DOMAIN written /\ written[last] # "NUL"
              /\ shown = title \/ shown = last - 1
  <2>1. end = EndOf(L) /\ RunsIntoEnviron
    BY <1>3, <1>4, <1>10 DEF RunsIntoEnviron
  <2> QED
    BY <1>4, <1>5, <1>8, <2>1
<1> QED
  BY <1>8, <1>9, <1>10

\* For every command line that main() accepts, every length of its words and of the title:
\* SetProcessTitle ends the title with a NUL within the words it may go over and leaves the
\* environment as it is.
THEOREM TitleStaysInArgv == Spec => []TitleFits
<1>1. Init => CommandLineInv
  BY CommandLineInitLemma DEF Init
<1> QED
  BY <1>1, CommandLineStep, TitleInit, TitleStep, TitleSafe, PTL DEF Spec

---------------------------------------------------------------------------
(* Reads *)

\* There is a NUL behind the start of every word, even after the title has gone over it,
\* unless it is the last of all: its own may have become a space.
LEMMA ReadLemma ==
    ASSUME CommandLineInv, TitleInv, state = "Run", NEW k \in 1..Len(argv),
           pc # "titled" \/ k < Len(argv)
    PROVE  \E a \in Start[k]..(EnvStart - 1) : IsNul(a)
<1> DEFINE L == Len(argv)
<1>1. argv \in Seq(Words) /\ L \in Nat \ {0} /\ k \in 0..L /\ k - 1 \in 0..L /\ L \in 0..L
  BY ArgvLemma
<1>2. /\ EndOf(k) \in Nat /\ EndOf(k - 1) \in Nat /\ EndOf(L) \in Nat
      /\ EndOf(k) <= EndOf(L) /\ Start[k] = EndOf(k - 1) + 1 /\ EndOf(k - 1) < EndOf(k)
  BY <1>1, EndLemma
<1>3. EnvStart - 1 = EndOf(L)
  BY <1>2 DEF EnvStart
<1>4. Start[k] \in Nat /\ EndOf(k) \in Start[k]..(EnvStart - 1)
  BY <1>2, <1>3
<1>5. EndOf(k) \notin DOMAIN written => IsNul(EndOf(k))
  BY <1>1 DEF IsNul
<1>6. CASE pc # "titled"
  <2>1. DOMAIN written = {}
    BY <1>6 DEF TitleInv
  <2> QED
    BY <1>4, <1>5, <2>1
<1>7. CASE pc = "titled"
  <2>1. title \in Nat /\ written = Written(title)
    BY <1>7 DEF TitleInv
  <2>2. end \in Nat /\ end <= EndOf(L)
    BY RowLemma
  <2>3. /\ RunsIntoEnviron => end = EndOf(L) /\ maxlen = end - 1
        /\ ~RunsIntoEnviron => maxlen = end
    BY <1>2, <2>2 DEF RunsIntoEnviron, maxlen, EnvStart
  <2>4. EndOf(k) < EndOf(L)
    <3>1. k < L /\ k + 1 \in 1..L /\ (k + 1) - 1 = k /\ k + 1 \in 0..L
      BY <1>1, <1>7
    <3>2. EndOf(k + 1) \in Nat /\ EndOf(k + 1) > EndOf(k) /\ EndOf(k + 1) <= EndOf(L)
      BY <1>1, <3>1, EndLemma
    <3> QED
      BY <1>2, <3>2
  <2>5. maxlen \in Nat /\ maxlen <= EndOf(L)
    BY <1>2, <2>2, <2>3, <2>4
  <2>6. /\ DOMAIN written = 0..maxlen \cup (IF RunsIntoEnviron THEN {end} ELSE {})
        /\ written[maxlen] = "NUL"
    BY <2>1, <2>5 DEF Written
  <2>7. CASE Start[k] <= maxlen
    <3>1. maxlen \in Start[k]..(EnvStart - 1) /\ maxlen \in DOMAIN written
      BY <1>3, <1>4, <2>5, <2>6, <2>7
    <3>2. IsNul(maxlen)
      BY <2>6, <3>1 DEF IsNul
    <3> QED
      BY <3>1, <3>2
  <2>8. CASE maxlen < Start[k]
    <3>1. EndOf(k) \notin 0..maxlen
      BY <1>2, <1>4, <2>5, <2>8
    <3>2. RunsIntoEnviron => EndOf(k) # end
      BY <1>2, <2>3, <2>4
    <3>3. EndOf(k) \notin DOMAIN written
      BY <2>6, <3>1, <3>2
    <3> QED
      BY <1>4, <1>5, <3>3
  <2> QED
    BY <1>4, <2>5, <2>7, <2>8
<1> QED
  BY <1>6, <1>7

LEMMA ReadsStep ==
    CommandLineInv /\ TitleInv /\ ReadsEndInArgv /\ [Next]_vars => ReadsEndInArgv'
<1> SUFFICES ASSUME CommandLineInv, TitleInv, ReadsEndInArgv, [Next]_vars
             PROVE  ReadsEndInArgv'
  OBVIOUS
<1>1. ASSUME NEW W, ReadsWords(W), \A k \in W : \E a \in Start[k]..(EnvStart - 1) : IsNul(a)
      PROVE  ReadsEndInArgv'
  BY <1>1 DEF ReadsWords, ReadsEndInArgv
<1>2. ASSUME state = "Run"
      PROVE  /\ \A p \in 1..4 : operands[p] \in 1..Len(argv) /\ argv_[(argc - 4) + p] = operands[p]
             /\ argv_[argc - 3] = operands[1] /\ argv_[argc - 1] = operands[3]
             /\ argv_[argc] = operands[4] /\ operands[1] < Len(argv)
  <2>1. argc \in Nat /\ Len(argv) \in Nat
        /\ \A p \in 1..4 : operands[p] \in 1..Len(argv) /\ argv_[(argc - 4) + p] = operands[p]
    BY <1>2, ArgvLemma
  <2>2. (argc - 4) + 1 = argc - 3 /\ (argc - 4) + 3 = argc - 1 /\ (argc - 4) + 4 = argc
    BY <2>1
  <2>3. argv_[argc - 3] = operands[1] /\ argv_[argc - 1] = operands[3] /\ argv_[argc] = operands[4]
    BY <2>1, <2>2
  <2>4. operands = Ascending(Given, Len(argv)) /\ Len(operands) = 4
    BY <1>2 DEF CommandLineInv, Late, Scanned
  <2>5. \A x, y \in 1..Len(operands) : x < y => operands[x] < operands[y]
    BY <2>1, <2>4, AscendingOrder, Zenon
  <2>6. operands[1] < operands[4] /\ operands[4] <= Len(argv) /\ operands[1] \in 1..Len(argv)
    BY <2>1, <2>4, <2>5
  <2> QED
    BY <2>1, <2>3, <2>6
<1>3. CASE InitializeSockets
  <2>1. state = "Run" /\ pc # "titled" /\ ReadsWords({argv_[argc - 1], argv_[argc]})
    BY <1>3 DEF InitializeSockets
  <2>2. \A k \in {argv_[argc - 1], argv_[argc]} : k \in 1..Len(argv)
    BY <1>2, <2>1
  <2>3. \A k \in {argv_[argc - 1], argv_[argc]} : \E a \in Start[k]..(EnvStart - 1) : IsNul(a)
    BY <2>1, <2>2, ReadLemma
  <2> QED
    BY <1>1, <2>1, <2>3
<1>4. CASE LoadApplication \/ psgi_application_path
  <2>1. state = "Run" /\ ReadsWords({argv_[argc - 3]})
    BY <1>4 DEF LoadApplication, psgi_application_path, TitleInv
  <2>2. \A k \in {argv_[argc - 3]} : k \in 1..Len(argv) /\ k < Len(argv)
    BY <1>2, <2>1
  <2>3. \A k \in {argv_[argc - 3]} : \E a \in Start[k]..(EnvStart - 1) : IsNul(a)
    BY <2>1, <2>2, ReadLemma
  <2> QED
    BY <1>1, <2>1, <2>3
<1>5. CASE Parses \/ (\E n \in Titles : SetProcessTitle(n)) \/ UNCHANGED vars
  <2>1. ended' = ended
    BY <1>5 DEF Parses, SetProcessTitle, vars
  <2> QED
    BY <2>1 DEF ReadsEndInArgv
<1> QED
  BY <1>3, <1>4, <1>5 DEF Next

\* For every command line, every length of its words and of the title: a read of a socket
\* path or of the application's path, the late one in a child included, ends before the
\* environment.
THEOREM ReadsEnd == Spec => []ReadsEndInArgv
<1>1. Init => CommandLineInv /\ ReadsEndInArgv
  BY CommandLineInitLemma DEF Init, ReadsEndInArgv
<1> QED
  BY <1>1, CommandLineStep, TitleInit, TitleStep, ReadsStep, PTL DEF Spec
===========================================================================
