--------------------------- MODULE MoneyTextProofs ---------------------------
(***************************************************************************)
(* Proofs about amounts as clients write and read them: ParseMoney accepts *)
(* what openapi.yaml says, and a balance comes back through FormatMinor as *)
(* the number it is.                                                       *)
(***************************************************************************)
EXTENDS MoneyText, FiniteSetTheorems, SequenceTheorems, TLAPS

-----------------------------------------------------------------------------
(* Least numbers, instead of induction                                     *)

LEMMA SmallestSubset ==
    ASSUME NEW S, IsFiniteSet(S), NEW T, T \subseteq SUBSET S, T # {}
    PROVE  \E s \in T : \A t \in T : t \subseteq s => t = s
<1>1. FiniteSubsetsOf(S) = SUBSET S
  BY FS_FiniteSubsetsOfFinite
<1>2. PICK s \in T : \A t \in T : <<t, s>> \notin StrictSubsetOrdering(S)
  BY <1>1, FS_StrictSubsetOrderingWellFounded, WFMin
<1> QED
  BY <1>2 DEF StrictSubsetOrdering

LEMMA Least ==
    ASSUME NEW S \in SUBSET Nat, S # {}
    PROVE  \E m \in S : \A k \in S : m <= k
<1>1. PICK n \in S : TRUE
  OBVIOUS
<1> DEFINE D == 0 .. n
           T == {0 .. m : m \in {k \in S : k <= n}}
<1>2. IsFiniteSet(D)
  BY FS_Interval
<1>3. PICK s \in T : \A t \in T : t \subseteq s => t = s
  <2>1. T \subseteq SUBSET D /\ D \in T
    BY <1>1
  <2>2. T # {}
    BY <2>1
  <2> HIDE DEF T, D
  <2> QED
    BY <1>2, <2>1, <2>2, SmallestSubset
<1>4. PICK m \in S : m <= n /\ s = 0 .. m
  OBVIOUS
<1>5. ASSUME NEW k \in S, k < m
      PROVE  FALSE
  <2>1. 0 .. k \in T /\ 0 .. k \subseteq s
    BY <1>1, <1>4, <1>5
  <2>2. 0 .. k = s
    BY <1>3, <2>1
  <2>3. m \in s /\ m \notin 0 .. k
    BY <1>4, <1>5
  <2> QED
    BY <2>2, <2>3
<1> QED
  BY <1>4, <1>5

LEMMA Greatest ==
    ASSUME NEW n \in Nat, NEW S \in SUBSET (1 .. n), S # {}
    PROVE  Max(S) \in S /\ \A k \in S : Max(S) >= k
<1> DEFINE T == {n - k : k \in S}
<1>1. T \in SUBSET Nat /\ T # {}
  <2>1. \A k \in S : k \in Nat /\ n - k \in Nat
    OBVIOUS
  <2> QED
    BY <2>1
<1>2. PICK m \in T : \A k \in T : m <= k
  <2> HIDE DEF T
  <2> QED
    BY <1>1, Least
<1>3. PICK x \in S : m = n - x
  OBVIOUS
<1>4. \A y \in S : x >= y
  <2>1. x \in Int /\ \A y \in S : y \in Int /\ n - x <= n - y
    BY <1>2, <1>3
  <2> QED
    BY <2>1
<1> QED
  BY <1>3, <1>4 DEF Max

\* D are some of the places of a sequence.
Places(D) == \E n \in Nat : D \in SUBSET (1 .. n)

LEMMA SomePlaces ==
    ASSUME NEW D, Places(D)
    PROVE  /\ IsFiniteSet(D)
           /\ \A s \in SUBSET D : Places(s)
           /\ \A s \in SUBSET D : s # {} =>
                Max(s) \in s /\ \A k \in s : Max(s) >= k
<1>1. PICK n \in Nat : D \in SUBSET (1 .. n)
  BY DEF Places
<1>2. IsFiniteSet(1 .. n)
  BY FS_Interval
<1>3. IsFiniteSet(D)
  BY <1>1, <1>2, FS_Subset
<1> QED
  BY <1>1, <1>3, Greatest DEF Places

-----------------------------------------------------------------------------
(* The number a sequence of digits stands for                              *)

\* g is the number of each selection of digits, as FoldLeft computes it.
Folds(digits, D, g) ==
    g = [s \in SUBSET D |->
          IF s = {} THEN 0 ELSE Base * g[s \ {Max(s)}] + digits[Max(s)]]

LEMMA FoldStep ==
    ASSUME NEW D, Places(D), NEW digits, NEW g, Folds(digits, D, g)
    PROVE  /\ g[{}] = 0
           /\ \A s \in SUBSET D : s # {} =>
                /\ Max(s) \in s
                /\ g[s] = Base * g[s \ {Max(s)}] + digits[Max(s)]
<1>1. \A s \in SUBSET D :
        g[s] = IF s = {} THEN 0 ELSE Base * g[s \ {Max(s)}] + digits[Max(s)]
  BY Zenon DEF Folds
<1>2. \A s \in SUBSET D : s # {} => Max(s) \in s
  BY SomePlaces
<1> QED
  BY <1>1, <1>2

LEMMA FoldUnique ==
    ASSUME NEW D, Places(D), NEW C \in SUBSET D,
           NEW digits, NEW other, \A i \in C : digits[i] = other[i],
           NEW g, Folds(digits, D, g), NEW h, Folds(other, C, h)
    PROVE  \A s \in SUBSET C : g[s] = h[s]
<1> DEFINE Bad == {s \in SUBSET C : g[s] # h[s]}
<1> SUFFICES ASSUME Bad # {} PROVE FALSE
  OBVIOUS
<1>1. PICK s \in Bad : \A t \in Bad : t \subseteq s => t = s
  <2>1. Bad \subseteq SUBSET C /\ IsFiniteSet(C)
    BY SomePlaces
  <2>2. Bad # {}
    OBVIOUS
  <2> HIDE DEF Bad
  <2> QED
    BY <2>1, <2>2, SmallestSubset
<1>2. s # {}
  <2>1. Places(C)
    BY SomePlaces
  <2>2. g[{}] = 0 /\ h[{}] = 0
    BY <2>1, FoldStep
  <2> QED
    BY <2>2
<1> DEFINE x == Max(s)
<1>3. /\ x \in s /\ s \in SUBSET C
      /\ g[s] = Base * g[s \ {x}] + digits[x]
      /\ h[s] = Base * h[s \ {x}] + other[x]
  <2>1. s \in SUBSET C /\ s \in SUBSET D /\ Places(C)
    BY SomePlaces
  <2>2. /\ x \in s /\ g[s] = Base * g[s \ {x}] + digits[x]
    BY <1>2, <2>1, FoldStep
  <2>3. h[s] = Base * h[s \ {x}] + other[x]
    BY <1>2, <2>1, FoldStep
  <2> QED
    BY <2>1, <2>2, <2>3
<1> HIDE DEF x
<1>4. g[s \ {x}] = h[s \ {x}]
  BY <1>1, <1>3
<1> QED
  BY <1>1, <1>3, <1>4

LEMMA FoldExists ==
    ASSUME NEW D, Places(D), NEW digits
    PROVE  \E g : Folds(digits, D, g)
<1> DEFINE Bad == {s \in SUBSET D : \A g : ~ Folds(digits, s, g)}
<1> SUFFICES ASSUME Bad # {} PROVE FALSE
  OBVIOUS
<1>1. PICK s \in Bad : \A t \in Bad : t \subseteq s => t = s
  <2>1. Bad \subseteq SUBSET D /\ IsFiniteSet(D)
    BY SomePlaces
  <2>2. Bad # {}
    OBVIOUS
  <2> HIDE DEF Bad
  <2> QED
    BY <2>1, <2>2, SmallestSubset
<1> DEFINE Fold(t) == CHOOSE g : Folds(digits, t, g)
           Below(t) == t \ {Max(t)}
           g == [t \in SUBSET s |->
                  IF t = {} THEN 0
                  ELSE Base * Fold(Below(t))[Below(t)] + digits[Max(t)]]
<1>2. \A t \in SUBSET s : t # s => Folds(digits, t, Fold(t))
  BY <1>1
<1>s. \A t \in SUBSET s : Places(t) /\ (t # {} => Max(t) \in t)
  BY SomePlaces
<1>3. ASSUME NEW t \in SUBSET s, t # s
      PROVE  Fold(t)[t] = g[t]
  <2>1. Folds(digits, t, Fold(t)) /\ Places(t)
    BY <1>2, <1>3, <1>s
  <2>2. CASE t = {}
    BY <2>1, <2>2, FoldStep
  <2>3. CASE t # {}
    <3> DEFINE u == Below(t)
    <3>1. Max(t) \in t /\ Fold(t)[t] = Base * Fold(t)[u] + digits[Max(t)]
      <4> HIDE DEF Fold
      <4> QED
        BY <2>1, <2>3, FoldStep
    <3>2. u \in SUBSET s /\ u # s /\ u \in SUBSET t
      BY <1>3, <3>1
    <3>3. Folds(digits, u, Fold(u))
      BY <1>2, <3>2
    <3>4. Fold(t)[u] = Fold(u)[u]
      <4> HIDE DEF Fold, u
      <4> QED
        BY <2>1, <3>2, <3>3, FoldUnique
    <3>5. g[t] = Base * Fold(u)[u] + digits[Max(t)]
      BY <2>3
    <3> QED
      BY <3>1, <3>4, <3>5
  <2> QED
    BY <2>2, <2>3
<1>4. g = [t \in SUBSET s |-> IF t = {} THEN 0 ELSE Base * g[Below(t)] + digits[Max(t)]]
  <2>1. ASSUME NEW t \in SUBSET s, t # {}
        PROVE  Fold(Below(t))[Below(t)] = g[Below(t)]
    <3>1. Max(t) \in t
      BY <1>s, <2>1
    <3>2. Below(t) \in SUBSET s /\ Below(t) # s
      BY <3>1
    <3> HIDE DEF Fold, Below, g
    <3> QED
      BY <1>3, <3>2
  <2> HIDE DEF Fold
  <2> QED
    BY <2>1
<1>5. Folds(digits, s, g)
  <2> HIDE DEF g
  <2> QED
    BY <1>4 DEF Folds
<1> QED
  BY <1>1, <1>5

LEMMA NumberFolds ==
    ASSUME NEW digits \in Seq(Nat)
    PROVE  \E g : Folds(digits, 1 .. Len(digits), g) /\ Number(digits) = g[1 .. Len(digits)]
<1> DEFINE D == DOMAIN digits
           P(g) == g = [s \in SUBSET D |->
                          IF s = {} THEN 0 ELSE Base * g[s \ {Max(s)}] + digits[Max(s)]]
<1>1. Number(digits) = (CHOOSE g : P(g))[D]
  BY Zenon DEF Number, FoldLeft, MapThenFoldSet
<1>2. Len(digits) \in Nat /\ D = 1 .. Len(digits)
  BY LenProperties
<1>3. PICK g : P(g)
  <2>1. Places(D)
    BY <1>2 DEF Places
  <2>2. \E g : Folds(digits, D, g)
    BY <2>1, FoldExists
  <2> QED
    BY <2>2 DEF Folds
<1> HIDE DEF P
<1>4. P(CHOOSE h : P(h))
  BY <1>3
<1>5. Folds(digits, D, CHOOSE h : P(h))
  BY <1>4 DEF P, Folds
<1> QED
  BY <1>1, <1>2, <1>5

LEMMA NumberOfNothing == Number(<<>>) = 0
<1>1. <<>> \in Seq(Nat) /\ Len(<<>>) = 0
  BY EmptySeq
<1>2. PICK g : Folds(<<>>, 1 .. 0, g) /\ Number(<<>>) = g[1 .. 0]
  BY <1>1, NumberFolds
<1> QED
  <2>1. Places(1 .. 0) /\ 1 .. 0 = {}
    BY DEF Places
  <2> QED
    BY <1>2, <2>1, FoldStep

LEMMA NumberStep ==
    ASSUME NEW s \in Seq(Nat), NEW d \in Nat
    PROVE  Number(Append(s, d)) = Base * Number(s) + d
<1> DEFINE t == Append(s, d)
           n == Len(s)
           C == 1 .. n
           D == 1 .. (n + 1)
<1>1. /\ t \in Seq(Nat) /\ Len(t) = n + 1 /\ t[n + 1] = d /\ n \in Nat
      /\ \A i \in C : t[i] = s[i]
  BY AppendProperties, LenProperties
<1>2. PICK g : Folds(t, D, g) /\ Number(t) = g[D]
  <2> HIDE DEF t
  <2> QED
    BY <1>1, NumberFolds
<1>3. PICK h : Folds(s, C, h) /\ Number(s) = h[C]
  BY NumberFolds
<1>p. Places(D) /\ C \in SUBSET D
  BY <1>1 DEF Places
<1>4. Max(D) = n + 1 /\ D \ {n + 1} = C /\ D # {}
  <2> HIDE DEF t
  <2>1. D # {} /\ D \ {n + 1} = C /\ n + 1 \in D /\ \A k \in D : k <= n + 1
    <3>1. n \in Nat
      BY <1>1
    <3> HIDE DEF n
    <3> QED
      BY <3>1
  <2>2. Max(D) \in D /\ \A k \in D : Max(D) >= k
    BY <1>p, <2>1, SomePlaces
  <2>3. Max(D) \in Int /\ n + 1 \in Int
    BY <1>1, <2>2
  <2> QED
    BY <2>1, <2>2, <2>3
<1>5. g[D] = Base * g[C] + t[n + 1]
  <2> HIDE DEF t, D, C
  <2>1. \A u \in SUBSET D : u # {} =>
            Max(u) \in u /\ g[u] = Base * g[u \ {Max(u)}] + t[Max(u)]
    <3>1. Folds(t, D, g) /\ Places(D)
      BY <1>2, <1>p
    <3>2. \A digits : Folds(digits, D, g) => \A u \in SUBSET D : u # {} =>
            Max(u) \in u /\ g[u] = Base * g[u \ {Max(u)}] + digits[Max(u)]
      BY <3>1, FoldStep
    <3> QED
      BY <3>1, <3>2
  <2>2. D \in SUBSET D /\ D # {}
    BY <1>4
  <2>3. g[D] = Base * g[D \ {Max(D)}] + t[Max(D)]
    BY <2>1, <2>2
  <2> QED
    BY <1>4, <2>3
<1>6. g[C] = h[C]
  <2>1. \A i \in C : t[i] = s[i]
    BY <1>1
  <2> HIDE DEF t, D, C, n
  <2>2. \A u \in SUBSET C : g[u] = h[u]
    BY <1>2, <1>3, <1>p, <2>1, FoldUnique
  <2> QED
    BY <2>2
<1> QED
  BY <1>1, <1>2, <1>3, <1>5, <1>6

-----------------------------------------------------------------------------
(* Induction, for sets: G holds the numbers, or the sequences, of which    *)
(* something is said.                                                      *)

LEMMA EveryNumber ==
    ASSUME NEW G, 0 \in G, \A n \in Nat : n \in G => n + 1 \in G
    PROVE  \A n \in Nat : n \in G
<1> DEFINE Bad == Nat \ G
<1> SUFFICES ASSUME Bad # {} PROVE FALSE
  OBVIOUS
<1>1. PICK m \in Bad : \A k \in Bad : m <= k
  <2>1. Bad \in SUBSET Nat
    OBVIOUS
  <2> HIDE DEF Bad
  <2> QED
    BY <2>1, Least
<1>2. m \in Nat /\ m # 0
  OBVIOUS
<1>3. m - 1 \in Nat /\ m - 1 \notin Bad
  BY <1>1, <1>2
<1>4. (m - 1) + 1 \in G
  BY <1>3
<1> QED
  BY <1>2, <1>4

LEMMA EverySequence ==
    ASSUME NEW S, NEW G, <<>> \in G,
           \A s \in Seq(S), d \in S : s \in G => Append(s, d) \in G
    PROVE  \A s \in Seq(S) : s \in G
<1> DEFINE H == {n \in Nat : \A s \in Seq(S) : Len(s) = n => s \in G}
<1>1. 0 \in H
  <2>1. \A s \in Seq(S) : Len(s) = 0 => s = <<>>
    BY EmptySeq
  <2> QED
    BY <2>1
<1>2. ASSUME NEW n \in Nat, n \in H
      PROVE  n + 1 \in H
  <2>1. ASSUME NEW s \in Seq(S), Len(s) = n + 1
        PROVE  s \in G
    <3>1. s # <<>>
      BY <2>1, EmptySeq
    <3>2. PICK t \in Seq(S), d \in S : s = Append(t, d)
      BY <3>1, SequenceEmptyOrAppend
    <3>3. Len(t) \in Nat /\ Len(s) = Len(t) + 1
      BY <3>2, AppendProperties, LenProperties
    <3>4. Len(t) = n
      BY <2>1, <3>3
    <3>5. t \in G
      BY <1>2, <3>4
    <3> QED
      BY <3>2, <3>5
  <2> QED
    BY <2>1
<1>3. \A n \in Nat : n \in H
  <2> HIDE DEF H
  <2> QED
    BY <1>1, <1>2, EveryNumber
<1> QED
  BY <1>3, LenProperties

-----------------------------------------------------------------------------
(* Numbers and zeros                                                       *)

LEMMA NumberIsNat ==
    ASSUME NEW s \in Seq(Nat)
    PROVE  Number(s) \in Nat
<1> DEFINE G == {t \in Seq(Nat) : Number(t) \in Nat}
<1>1. <<>> \in G
  BY NumberOfNothing, EmptySeq
<1>2. \A t \in Seq(Nat), d \in Nat : t \in G => Append(t, d) \in G
  <2>1. ASSUME NEW t \in Seq(Nat), NEW d \in Nat, Number(t) \in Nat
        PROVE  Append(t, d) \in Seq(Nat) /\ Number(Append(t, d)) \in Nat
    <3>1. \A a, b \in Nat : a * b \in Nat
      OBVIOUS
    <3>2. Base * Number(t) \in Nat
      BY <2>1, <3>1, MoneyAssumption
    <3>3. Base * Number(t) + d \in Nat
      BY <3>2
    <3> QED
      BY <3>3, NumberStep, AppendProperties
  <2> QED
    BY <2>1
<1>3. s \in G
  <2> HIDE DEF G
  <2> QED
    BY <1>1, <1>2, EverySequence
<1> QED
  BY <1>3

LEMMA DigitsAreNumbers ==
    /\ Digits \subseteq Nat /\ Characters \subseteq Nat /\ 0 \in Digits /\ 1 \in Digits
    /\ Seq(Digits) \subseteq Seq(Nat)
<1>1. Digits \subseteq Nat /\ Characters \subseteq Nat /\ 0 \in Digits /\ 1 \in Digits
  BY MoneyAssumption DEF Digits, Other, Space, Characters
<1> QED
  BY <1>1, SeqMonotonic

LEMMA SomeZeros ==
    ASSUME NEW n \in Nat
    PROVE  /\ Zeros(n) \in Seq(Digits) /\ Len(Zeros(n)) = n
           /\ \A i \in 1 .. n : Zeros(n)[i] = 0
<1>1. Zeros(n) \in [1 .. n -> Digits] /\ \A i \in 1 .. n : Zeros(n)[i] = 0
  BY DigitsAreNumbers DEF Zeros
<1>2. Zeros(n) \in Seq(Digits)
  BY <1>1, SeqDef
<1>3. Len(Zeros(n)) \in Nat /\ DOMAIN Zeros(n) = 1 .. Len(Zeros(n))
  BY <1>2, LenProperties
<1>4. DOMAIN Zeros(n) = 1 .. n
  BY <1>1
<1>5. Len(Zeros(n)) = n
  <2>1. \A m, k \in Nat : m < k => m + 1 \in 1 .. k /\ m + 1 \notin 1 .. m
    OBVIOUS
  <2>2. \A m, k \in Nat : 1 .. m = 1 .. k => ~ m < k /\ ~ k < m
    BY <2>1
  <2>3. \A m, k \in Nat : ~ m < k /\ ~ k < m => m = k
    OBVIOUS
  <2> QED
    BY <1>3, <1>4, <2>2, <2>3
<1> QED
  BY <1>1, <1>2, <1>5

LEMMA NoZeros ==
    ASSUME NEW n \in Int, n <= 0
    PROVE  Zeros(n) = <<>>
<1>1. 1 .. n = {} /\ 1 .. 0 = {}
  OBVIOUS
<1>2. Zeros(n) = Zeros(0)
  BY <1>1 DEF Zeros
<1>3. Zeros(0) \in Seq(Digits) /\ Len(Zeros(0)) = 0
  BY SomeZeros
<1> QED
  BY <1>2, <1>3, EmptySeq

LEMMA OneMoreZero ==
    ASSUME NEW n \in Nat
    PROVE  Zeros(n + 1) = Append(Zeros(n), 0)
<1> DEFINE s == Zeros(n + 1)
           t == Append(Zeros(n), 0)
<1>1. /\ Zeros(n) \in Seq(Digits) /\ Len(Zeros(n)) = n
      /\ \A i \in 1 .. n : Zeros(n)[i] = 0
      /\ s \in Seq(Digits) /\ Len(s) = n + 1
      /\ \A i \in 1 .. n + 1 : s[i] = 0
  BY SomeZeros
<1>2. /\ t \in Seq(Digits) /\ Len(t) = n + 1
      /\ \A i \in 1 .. n : t[i] = Zeros(n)[i]
      /\ t[n + 1] = 0
  BY <1>1, DigitsAreNumbers, AppendProperties
<1>3. \A i \in 1 .. n + 1 : s[i] = t[i]
  <2>1. \A i \in 1 .. n + 1 : i \in 1 .. n \/ i = n + 1
    OBVIOUS
  <2> HIDE DEF s, t
  <2> QED
    BY <1>1, <1>2, <2>1
<1> HIDE DEF s, t
<1>4. s = t
  BY <1>1, <1>2, <1>3, SeqEqual
<1> QED
  BY <1>4 DEF s, t

\* Appending to the second of two sequences is appending to both.
LEMMA AppendToSecond ==
    ASSUME NEW S, NEW s \in Seq(S), NEW t \in Seq(S), NEW d \in S
    PROVE  s \o Append(t, d) = Append(s \o t, d)
<1>1. Append(t, d) = t \o <<d>> /\ s \o t \in Seq(S)
  BY AppendIsConcat, ConcatProperties
<1>2. Append(s \o t, d) = (s \o t) \o <<d>>
  BY <1>1, AppendIsConcat
<1>3. <<d>> \in Seq(S)
  OBVIOUS
<1> QED
  BY <1>1, <1>2, <1>3, ConcatAssociative

LEMMA NumberOfZeros ==
    ASSUME NEW k \in Nat
    PROVE  Number(Zeros(k)) = 0
<1> DEFINE G == {n \in Nat : Number(Zeros(n)) = 0}
<1>1. 0 \in G
  BY NoZeros, NumberOfNothing
<1>2. ASSUME NEW n \in Nat, n \in G
      PROVE  n + 1 \in G
  <2>1. Zeros(n) \in Seq(Nat) /\ Number(Zeros(n)) = 0
    BY <1>2, SomeZeros, DigitsAreNumbers
  <2>2. Zeros(n + 1) = Append(Zeros(n), 0)
    BY OneMoreZero
  <2>3. Number(Append(Zeros(n), 0)) = Base * Number(Zeros(n)) + 0
    BY <2>1, NumberStep
  <2>4. Base * 0 + 0 = 0
    BY MoneyAssumption
  <2>5. Number(Zeros(n + 1)) = 0
    BY <2>1, <2>2, <2>3, <2>4
  <2> QED
    BY <2>5
<1>3. \A n \in Nat : n \in G
  <2> HIDE DEF G
  <2> QED
    BY <1>1, <1>2, EveryNumber
<1> QED
  BY <1>3

LEMMA ZerosInFront ==
    ASSUME NEW k \in Nat, NEW s \in Seq(Nat)
    PROVE  Number(Zeros(k) \o s) = Number(s)
<1> DEFINE G == {t \in Seq(Nat) : Number(Zeros(k) \o t) = Number(t)}
<1>z. Zeros(k) \in Seq(Nat)
  BY SomeZeros, DigitsAreNumbers
<1>1. <<>> \in G
  BY <1>z, EmptySeq, ConcatEmptySeq, NumberOfZeros, NumberOfNothing
<1>2. ASSUME NEW t \in Seq(Nat), NEW d \in Nat, t \in G
      PROVE  Append(t, d) \in G
  <2>1. Zeros(k) \o t \in Seq(Nat) /\ Number(Zeros(k) \o t) = Number(t)
    BY <1>2, <1>z, ConcatProperties
  <2>2. Zeros(k) \o Append(t, d) = Append(Zeros(k) \o t, d)
    BY <1>z, AppendToSecond
  <2>3. Number(Append(Zeros(k) \o t, d)) = Base * Number(Zeros(k) \o t) + d
    BY <2>1, NumberStep
  <2>4. Number(Append(t, d)) = Base * Number(t) + d /\ Append(t, d) \in Seq(Nat)
    BY NumberStep, AppendProperties
  <2> QED
    BY <2>1, <2>2, <2>3, <2>4
<1>3. s \in G
  <2> HIDE DEF G
  <2> QED
    BY <1>1, <1>2, EverySequence
<1> QED
  BY <1>3

LEMMA NothingButZeros ==
    ASSUME NEW s \in Seq(Digits)
    PROVE  Number(s) = 0 <=> ~ Nonzero(s)
<1> DEFINE G == {t \in Seq(Digits) : Number(t) = 0 <=> \A i \in 1 .. Len(t) : t[i] = 0}
<1>1. <<>> \in G
  BY NumberOfNothing, EmptySeq
<1>2. ASSUME NEW t \in Seq(Digits), NEW d \in Digits, t \in G
      PROVE  Append(t, d) \in G
  <2> DEFINE u == Append(t, d)
  <2>1. /\ u \in Seq(Digits) /\ Len(u) = Len(t) + 1 /\ Len(t) \in Nat
        /\ \A i \in 1 .. Len(t) : u[i] = t[i]
        /\ u[Len(t) + 1] = d
    BY AppendProperties, LenProperties
  <2>2. Number(u) = Base * Number(t) + d /\ Number(t) \in Nat /\ d \in Nat
    BY DigitsAreNumbers, NumberStep, NumberIsNat
  <2>3. Number(u) = 0 <=> Number(t) = 0 /\ d = 0
    <3>1. \A a, b \in Nat : (a * b) \in Nat /\ (a # 0 => (a * b = 0 <=> b = 0))
      OBVIOUS
    <3>2. /\ Base * Number(t) \in Nat
          /\ Base * Number(t) = 0 <=> Number(t) = 0
      BY <2>2, <3>1, MoneyAssumption
    <3> QED
      BY <2>2, <3>2
  <2>4. (\A i \in 1 .. Len(u) : u[i] = 0) <=> (\A i \in 1 .. Len(t) : t[i] = 0) /\ d = 0
    <3>1. \A n \in Nat : \A i : i \in 1 .. n + 1 <=> i \in 1 .. n \/ i = n + 1
      OBVIOUS
    <3> HIDE DEF u
    <3> QED
      BY <2>1, <3>1
  <2> QED
    BY <1>2, <2>1, <2>3, <2>4
<1>3. s \in G
  <2> HIDE DEF G
  <2> QED
    BY <1>1, <1>2, EverySequence
<1> QED
  BY <1>3, LenProperties DEF Nonzero

\* What k more digits make of a number.
Unit(k) == Number(<<1>> \o Zeros(k))

LEMMA UnitStep ==
    /\ Unit(0) = 1
    /\ \A k \in Nat : Unit(k) \in Nat \ {0} /\ Unit(k + 1) = Base * Unit(k)
<1>1. <<1>> \in Seq(Nat) /\ <<1>> \in Seq(Digits) /\ <<>> \in Seq(Nat)
  BY DigitsAreNumbers
<1>2. Unit(0) = 1
  <2>1. <<1>> = Append(<<>>, 1)
    OBVIOUS
  <2>2. Number(<<1>>) = Base * 0 + 1
    BY <1>1, <2>1, NumberStep, NumberOfNothing
  <2>3. Number(<<1>>) = 1
    BY <2>2, MoneyAssumption
  <2>4. Zeros(0) = <<>> /\ <<1>> \o <<>> = <<1>>
    BY <1>1, NoZeros, ConcatEmptySeq
  <2> QED
    BY <2>3, <2>4 DEF Unit
<1>3. \A k \in Nat : Unit(k + 1) = Base * Unit(k) /\ Unit(k) \in Nat
  <2>1. ASSUME NEW k \in Nat
        PROVE  Unit(k + 1) = Base * Unit(k) /\ Unit(k) \in Nat
    <3>1. Zeros(k) \in Seq(Nat) /\ <<1>> \o Zeros(k) \in Seq(Nat)
      BY <1>1, SomeZeros, DigitsAreNumbers, ConcatProperties
    <3>2. <<1>> \o Zeros(k + 1) = Append(<<1>> \o Zeros(k), 0)
      <4>1. Zeros(k + 1) = Append(Zeros(k), 0)
        BY OneMoreZero
      <4>2. <<1>> \o Append(Zeros(k), 0) = Append(<<1>> \o Zeros(k), 0)
        BY <1>1, <3>1, AppendToSecond
      <4> QED
        BY <4>1, <4>2
    <3>3. Unit(k + 1) = Base * Unit(k) + 0 /\ Unit(k) \in Nat
      BY <3>1, <3>2, NumberStep, NumberIsNat DEF Unit
    <3>4. \A a, b \in Nat : a * b + 0 = a * b
      OBVIOUS
    <3> QED
      BY <3>3, <3>4, MoneyAssumption
  <2> QED
    BY <2>1
<1>4. \A k \in Nat : Unit(k) # 0
  <2> DEFINE G == {k \in Nat : Unit(k) # 0}
  <2>1. 0 \in G
    BY <1>2
  <2>2. \A k \in Nat : k \in G => k + 1 \in G
    <3>1. \A a, b \in Nat \ {0} : a * b # 0
      OBVIOUS
    <3> QED
      BY <1>3, <3>1, MoneyAssumption
  <2>3. \A k \in Nat : k \in G
    <3> HIDE DEF G
    <3> QED
      BY <2>1, <2>2, EveryNumber
  <2> QED
    BY <2>3
<1> QED
  BY <1>2, <1>3, <1>4

LEMMA ZerosBehind ==
    ASSUME NEW s \in Seq(Nat), NEW k \in Nat
    PROVE  Number(s \o Zeros(k)) = Number(s) * Unit(k)
<1> DEFINE G == {n \in Nat : Number(s \o Zeros(n)) = Number(s) * Unit(n)}
<1>n. Number(s) \in Nat
  BY NumberIsNat
<1>1. 0 \in G
  <2>1. Number(s) * 1 = Number(s)
    BY <1>n
  <2>2. Zeros(0) = <<>> /\ s \o <<>> = s
    BY NoZeros, ConcatEmptySeq
  <2> QED
    BY <2>1, <2>2, UnitStep
<1>2. ASSUME NEW n \in Nat, n \in G
      PROVE  n + 1 \in G
  <2>1. Zeros(n) \in Seq(Nat) /\ s \o Zeros(n) \in Seq(Nat)
    BY SomeZeros, DigitsAreNumbers, ConcatProperties
  <2>2. s \o Zeros(n + 1) = Append(s \o Zeros(n), 0)
    <3>1. Zeros(n + 1) = Append(Zeros(n), 0)
      BY OneMoreZero
    <3>2. s \o Append(Zeros(n), 0) = Append(s \o Zeros(n), 0)
      BY <2>1, AppendToSecond
    <3> QED
      BY <3>1, <3>2
  <2>3. Number(s \o Zeros(n + 1)) = Base * (Number(s) * Unit(n)) + 0
    BY <1>2, <2>1, <2>2, NumberStep
  <2>4. \A a, b, c \in Nat : a * (b * c) + 0 = b * (a * c)
    OBVIOUS
  <2>5. Unit(n) \in Nat /\ Unit(n + 1) = Base * Unit(n)
    BY UnitStep
  <2> QED
    BY <1>n, <2>3, <2>4, <2>5, MoneyAssumption
<1>3. k \in G
  <2> HIDE DEF G
  <2> QED
    BY <1>1, <1>2, EveryNumber
<1> QED
  BY <1>3

-----------------------------------------------------------------------------
(* The digits of a number                                                  *)

LEMMA Division ==
    ASSUME NEW m \in Nat
    PROVE  /\ m \div Base \in Nat /\ m % Base \in Digits
           /\ m = Base * (m \div Base) + (m % Base)
           /\ m >= Base => m \div Base < m
<1>1. Base \in Nat /\ Base > 1
  BY MoneyAssumption
<1>2. m % Base \in 0 .. Base - 1
  BY <1>1
<1>3. m = Base * (m \div Base) + (m % Base) /\ m \div Base \in Int
  BY <1>1
<1>4. m \div Base \in Nat
  BY <1>1, <1>2, <1>3
<1>5. m >= Base => m \div Base < m
  BY <1>1, <1>2, <1>3, <1>4
<1> QED
  BY <1>2, <1>3, <1>4, <1>5 DEF Digits

\* f gives the digits of each number up to n.
Numerals(n, f) ==
    f = [m \in 0 .. n |->
          IF m < Base THEN <<m>> ELSE Append(f[m \div Base], m % Base)]

LEMMA NumeralsExist ==
    ASSUME NEW n \in Nat
    PROVE  \E f : Numerals(n, f)
<1> DEFINE G == {k \in Nat : \E f : Numerals(k, f)}
<1>1. 0 \in G
  <2> DEFINE f == [m \in 0 .. 0 |-> <<m>>]
  <2>1. f = [m \in 0 .. 0 |->
               IF m < Base THEN <<m>> ELSE Append(f[m \div Base], m % Base)]
    <3>1. \A m \in 0 .. 0 : m < Base
      BY MoneyAssumption
    <3> QED
      BY <3>1
  <2>2. Numerals(0, f)
    <3> HIDE DEF f
    <3> QED
      BY <2>1 DEF Numerals
  <2> QED
    BY <2>2
<1>2. ASSUME NEW k \in Nat, k \in G
      PROVE  k + 1 \in G
  <2>1. PICK g : Numerals(k, g)
    BY <1>2
  <2>g. \A m \in 0 .. k :
          g[m] = IF m < Base THEN <<m>> ELSE Append(g[m \div Base], m % Base)
    BY <2>1, Zenon DEF Numerals
  <2> DEFINE f == [m \in 0 .. k + 1 |->
                     IF m < Base THEN <<m>> ELSE Append(g[m \div Base], m % Base)]
  <2>2. ASSUME NEW m \in 0 .. k + 1, ~ m < Base
        PROVE  f[m \div Base] = g[m \div Base]
    <3> DEFINE q == m \div Base
    <3>1. q \in Nat /\ q < m
      BY <2>2, Division, MoneyAssumption
    <3> HIDE DEF q
    <3>2. q \in 0 .. k /\ q \in 0 .. k + 1
      BY <3>1
    <3>3. f[q] = g[q]
      BY <2>g, <3>2
    <3> QED
      BY <3>3 DEF q
  <2>3. f = [m \in 0 .. k + 1 |->
               IF m < Base THEN <<m>> ELSE Append(f[m \div Base], m % Base)]
    BY <2>2
  <2>4. Numerals(k + 1, f)
    <3> HIDE DEF f
    <3> QED
      BY <2>3 DEF Numerals
  <2> QED
    BY <2>4
<1>3. n \in G
  <2> HIDE DEF G
  <2> QED
    BY <1>1, <1>2, EveryNumber
<1> QED
  BY <1>3

LEMMA NumeralIsTheNumber ==
    ASSUME NEW n \in Nat
    PROVE  /\ Numeral(n) \in Seq(Digits) \ {<<>>}
           /\ Number(Numeral(n)) = n
<1> DEFINE P(f) == f = [m \in 0 .. n |->
                         IF m < Base THEN <<m>> ELSE Append(f[m \div Base], m % Base)]
           f == CHOOSE g : P(g)
           Fine(m) == /\ f[m] \in Seq(Digits) /\ f[m] # <<>>
                      /\ Number(f[m]) = m
           G == {k \in Nat : \A m \in 0 .. n : m <= k => Fine(m)}
<1>1. Numeral(n) = f[n]
  BY Zenon DEF Numeral
<1>2. P(f)
  <2>1. \E g : P(g)
    BY NumeralsExist DEF Numerals
  <2> HIDE DEF P
  <2> QED
    BY <2>1
<1>3. \A m \in 0 .. n :
        f[m] = IF m < Base THEN <<m>> ELSE Append(f[m \div Base], m % Base)
  <2> HIDE DEF f
  <2> QED
    BY <1>2, Zenon
<1> HIDE DEF f, P
<1>4. ASSUME NEW m \in 0 .. n, m < Base
      PROVE  Fine(m)
  <2>1. m \in Digits /\ m \in Nat /\ <<>> \in Seq(Nat) /\ f[m] = <<m>>
    <3>1. f[m] = <<m>>
      BY <1>3, <1>4
    <3>2. m \in Digits /\ m \in Nat
      BY <1>4, MoneyAssumption DEF Digits
    <3> QED
      BY <3>1, <3>2
  <2>2. <<m>> = Append(<<>>, m) /\ <<m>> \in Seq(Digits) /\ <<m>> # <<>>
    BY <2>1
  <2>3. Number(<<m>>) = Base * 0 + m
    BY <2>1, <2>2, NumberStep, NumberOfNothing
  <2>4. Base * 0 + m = m
    BY <2>1, MoneyAssumption
  <2> QED
    BY <2>1, <2>2, <2>3, <2>4
<1>5. ASSUME NEW m \in 0 .. n, ~ m < Base, Fine(m \div Base)
      PROVE  Fine(m)
  <2>1. f[m] = Append(f[m \div Base], m % Base)
    BY <1>3, <1>5
  <2>2. /\ m % Base \in Digits
        /\ m = Base * (m \div Base) + (m % Base)
    BY Division
  <2>3. /\ f[m \div Base] \in Seq(Digits) /\ Number(f[m \div Base]) = m \div Base
    BY <1>5
  <2>4. Number(f[m]) = Base * (m \div Base) + (m % Base)
    <3> DEFINE s == f[m \div Base]
               d == m % Base
    <3>1. s \in Seq(Nat) /\ d \in Nat /\ Number(s) = m \div Base /\ f[m] = Append(s, d)
      BY <2>1, <2>2, <2>3, DigitsAreNumbers
    <3> HIDE DEF s, d
    <3>2. Number(f[m]) = Base * (m \div Base) + d
      BY <3>1, NumberStep
    <3> QED
      BY <3>2 DEF d
  <2>5. f[m] \in Seq(Digits) /\ f[m] # <<>>
    BY <2>1, <2>2, <2>3, AppendProperties
  <2> QED
    BY <2>2, <2>4, <2>5
<1>6. 0 \in G
  <2>1. \A m \in 0 .. n : m <= 0 => m < Base
    BY MoneyAssumption
  <2> QED
    BY <1>4, <2>1
<1>7. ASSUME NEW k \in Nat, k \in G
      PROVE  k + 1 \in G
  <2>1. ASSUME NEW m \in 0 .. n, m <= k + 1
        PROVE  Fine(m)
    <3>1. CASE m < Base
      BY <1>4, <3>1
    <3>2. CASE ~ m < Base
      <4> DEFINE q == m \div Base
      <4>1. q \in Nat /\ q < m
        BY <3>2, Division, MoneyAssumption
      <4> HIDE DEF q, Fine
      <4>2. q \in 0 .. n /\ q <= k
        BY <2>1, <4>1
      <4>3. Fine(q)
        BY <1>7, <4>2
      <4> QED
        BY <1>5, <3>2, <4>3 DEF q
    <3> QED
      BY <3>1, <3>2
  <2> HIDE DEF Fine
  <2> QED
    BY <2>1
<1>8. n \in G
  <2> HIDE DEF G
  <2> QED
    BY <1>6, <1>7, EveryNumber
<1>9. Fine(n)
  <2> HIDE DEF Fine
  <2> QED
    BY <1>8
<1> QED
  BY <1>1, <1>9

-----------------------------------------------------------------------------
(* What ParseMoney makes of a text                                         *)

\* Any text, before it is found to be an amount or not.
SomeText(parts) == parts \in Seq(Seq(Characters)) \ {<<>>}

LEMMA PartsOfText ==
    ASSUME NEW parts, SomeText(parts)
    PROVE  /\ Len(parts) \in Nat \ {0}
           /\ parts[1] \in Seq(Characters)
           /\ Fraction(parts) \in Seq(Characters)
           /\ Len(Fraction(parts)) \in Nat
           /\ Len(parts) = 2 => Fraction(parts) = parts[2]
           /\ Len(parts) # 2 => Fraction(parts) = <<>> /\ Len(Fraction(parts)) = 0
<1> DEFINE C == Characters
<1>1. parts \in Seq(Seq(C)) /\ parts # <<>>
  BY DEF SomeText
<1> HIDE DEF C
<1>2. Len(parts) \in Nat \ {0}
  BY <1>1, EmptySeq
<1>3. parts[1] \in Seq(C)
  BY <1>1, <1>2, ElementOfSeq
<1>4. CASE Len(parts) = 2
  <2>1. parts[2] \in Seq(C)
    <3>1. 2 \in 1 .. Len(parts)
      BY <1>4
    <3> QED
      BY <1>1, <3>1, ElementOfSeq
  <2>2. Fraction(parts) = parts[2]
    BY <1>4 DEF Fraction
  <2>3. Len(parts[2]) \in Nat
    BY <2>1, LenProperties
  <2> QED
    BY <1>2, <1>3, <1>4, <2>1, <2>2, <2>3 DEF C
<1>5. CASE Len(parts) # 2
  <2>1. Fraction(parts) = <<>>
    BY <1>5 DEF Fraction
  <2>2. <<>> \in Seq(C) /\ Len(<<>>) = 0
    BY EmptySeq
  <2> QED
    BY <1>2, <1>3, <1>5, <2>1, <2>2 DEF C
<1> QED
  BY <1>4, <1>5

LEMMA PartOfDigits ==
    ASSUME NEW s \in Seq(Characters)
    PROVE  digitsOnly(s) <=> s \in Seq(Digits)
<1>1. Len(s) \in Nat /\ DOMAIN s = 1 .. Len(s) /\ s \in [1 .. Len(s) -> Characters]
  BY LenProperties
<1>2. ASSUME digitsOnly(s)
      PROVE  s \in Seq(Digits)
  <2>1. s \in [1 .. Len(s) -> Digits]
    BY <1>1, <1>2 DEF digitsOnly
  <2> QED
    BY <1>1, <2>1, SeqDef
<1>3. ASSUME s \in Seq(Digits)
      PROVE  digitsOnly(s)
  BY <1>1, <1>3, ElementOfSeq DEF digitsOnly
<1> QED
  BY <1>2, <1>3

LEMMA PartsOfDigits ==
    ASSUME NEW s \in Seq(Characters), NEW t \in Seq(Characters)
    PROVE  /\ digitsOnly(s \o t) <=> digitsOnly(s) /\ digitsOnly(t)
           /\ Nonzero(s \o t) <=> Nonzero(s) \/ Nonzero(t)
<1> DEFINE u == s \o t
           m == Len(s)
           n == Len(t)
<1>1. /\ m \in Nat /\ n \in Nat
      /\ DOMAIN s = 1 .. m /\ DOMAIN t = 1 .. n /\ DOMAIN u = 1 .. m + n
      /\ \A i \in 1 .. m + n : u[i] = IF i <= m THEN s[i] ELSE t[i - m]
  BY LenProperties, ConcatProperties
<1> HIDE DEF u, m, n
<1>2. \A i \in 1 .. m : i \in 1 .. m + n /\ u[i] = s[i]
  BY <1>1
<1>3. \A i \in 1 .. n : m + i \in 1 .. m + n /\ u[m + i] = t[i]
  <2>1. \A i \in 1 .. n : m + i \in 1 .. m + n /\ ~ m + i <= m /\ (m + i) - m = i
    BY <1>1
  <2> QED
    BY <1>1, <2>1
<1>4. \A i \in 1 .. m + n : \/ i \in 1 .. m /\ u[i] = s[i]
                            \/ i - m \in 1 .. n /\ u[i] = t[i - m]
  BY <1>1
<1>5. digitsOnly(u) <=> digitsOnly(s) /\ digitsOnly(t)
  BY <1>1, <1>2, <1>3, <1>4 DEF digitsOnly
<1>6. Nonzero(u) <=> Nonzero(s) \/ Nonzero(t)
  BY <1>1, <1>2, <1>3, <1>4 DEF Nonzero
<1> QED
  BY <1>5, <1>6 DEF u

LEMMA SpaceIsNoDigit == Space \notin Digits
  BY MoneyAssumption DEF Space, Digits

LEMMA TrimmedLeft ==
    ASSUME NEW s \in Seq(Characters)
    PROVE  /\ TrimLeft(s) \in Seq(Characters)
           /\ digitsOnly(s) => TrimLeft(s) = s
<1> DEFINE l == Len(s)
           Start(i) == /\ \A j \in 1 .. i - 1 : s[j] = Space
                       /\ i <= l => s[i] # Space
           from == CHOOSE i \in 1 .. l + 1 : Start(i)
           Ink == {i \in 1 .. l : s[i] # Space}
<1>1. l \in Nat /\ \A i \in 1 .. l : s[i] \in Characters
  BY LenProperties, ElementOfSeq
<1>2. DOMAIN s = 1 .. l
  BY LenProperties
<1>3. TrimLeft(s) = SubSeq(s, from, l)
  BY DEF TrimLeft
<1>4. SubSeq(s, 1, l) = s
  BY SubSeqFull
<1> HIDE DEF l
<1>5. \E i \in 1 .. l + 1 : Start(i)
  <2>1. CASE Ink = {}
    <3>1. l + 1 \in 1 .. l + 1 /\ (l + 1) - 1 = l /\ ~ l + 1 <= l
      BY <1>1
    <3>2. Start(l + 1)
      BY <2>1, <3>1
    <3> QED
      BY <3>1, <3>2
  <2>2. CASE Ink # {}
    <3>1. Ink \in SUBSET Nat
      BY <1>1
    <3>2. \E m \in Ink : \A k \in Ink : m <= k
      <4> HIDE DEF Ink
      <4> QED
        BY <2>2, <3>1, Least
    <3>3. PICK m \in Ink : \A k \in Ink : m <= k
      BY <3>2
    <3>4. m \in 1 .. l + 1 /\ \A j \in 1 .. m - 1 : j \in 1 .. l /\ ~ m <= j
      BY <1>1, <3>3
    <3>5. Start(m)
      BY <3>3, <3>4
    <3> QED
      BY <3>4, <3>5
  <2> QED
    BY <2>1, <2>2
<1>6. from \in 1 .. l + 1 /\ Start(from)
  BY <1>5
<1> HIDE DEF from
<1>7. TrimLeft(s) \in Seq(Characters)
  <2>1. from \in Int /\ l \in Int /\ \A i \in from .. l : s[i] \in Characters
    BY <1>1, <1>6
  <2> QED
    BY <1>3, <2>1, SubSeqProperties
<1>8. ASSUME digitsOnly(s), from # 1
      PROVE  FALSE
  <2>1. 1 \in 1 .. l /\ 1 \in 1 .. from - 1
    BY <1>1, <1>6, <1>8
  <2>2. s[1] \in Digits /\ s[1] = Space
    BY <1>2, <1>6, <1>8, <2>1 DEF digitsOnly
  <2> QED
    BY <2>2, SpaceIsNoDigit
<1> QED
  BY <1>3, <1>4, <1>7, <1>8

LEMMA TrimmedRight ==
    ASSUME NEW s \in Seq(Characters)
    PROVE  /\ TrimRight(s) \in Seq(Characters)
           /\ digitsOnly(s) => TrimRight(s) = s
<1> DEFINE l == Len(s)
           Blank(i) == \A j \in i + 1 .. l : s[j] = Space
           End(i) == Blank(i) /\ (i > 0 => s[i] # Space)
           to == CHOOSE i \in 0 .. l : End(i)
           Ends == {i \in 0 .. l : Blank(i)}
<1>1. l \in Nat /\ \A i \in 1 .. l : s[i] \in Characters
  BY LenProperties, ElementOfSeq
<1>2. DOMAIN s = 1 .. l
  BY LenProperties
<1>3. TrimRight(s) = SubSeq(s, 1, to)
  BY DEF TrimRight
<1>4. SubSeq(s, 1, l) = s
  BY SubSeqFull
<1> HIDE DEF l
<1>5. \E i \in 0 .. l : End(i)
  <2>1. Ends \in SUBSET Nat /\ Ends # {}
    <3>1. l \in 0 .. l /\ l + 1 .. l = {}
      BY <1>1
    <3> QED
      BY <1>1, <3>1
  <2>2. \E m \in Ends : \A k \in Ends : m <= k
    <3> HIDE DEF Ends
    <3> QED
      BY <2>1, Least
  <2>3. PICK m \in Ends : \A k \in Ends : m <= k
    BY <2>2
  <2>4. m \in 0 .. l /\ Blank(m)
    BY <2>3
  <2>5. ASSUME m > 0, s[m] = Space
        PROVE  FALSE
    <3>1. /\ m - 1 \in 0 .. l /\ ~ m <= m - 1
          /\ \A j \in (m - 1) + 1 .. l : j = m \/ j \in m + 1 .. l
      BY <1>1, <2>4, <2>5
    <3>2. m - 1 \in Ends
      BY <2>4, <2>5, <3>1
    <3> QED
      BY <2>3, <3>1, <3>2
  <2> QED
    BY <2>4, <2>5
<1>6. to \in 0 .. l /\ End(to)
  BY <1>5
<1> HIDE DEF to
<1>7. TrimRight(s) \in Seq(Characters)
  <2>1. to \in Int /\ 1 \in Int /\ \A i \in 1 .. to : s[i] \in Characters
    BY <1>1, <1>6
  <2> QED
    BY <1>3, <2>1, SubSeqProperties
<1>8. ASSUME digitsOnly(s), to # l
      PROVE  FALSE
  <2>1. l \in 1 .. l /\ l \in to + 1 .. l
    BY <1>1, <1>6, <1>8
  <2>2. s[l] \in Digits /\ s[l] = Space
    BY <1>2, <1>6, <1>8, <2>1 DEF digitsOnly
  <2> QED
    BY <2>2, SpaceIsNoDigit
<1> QED
  BY <1>3, <1>4, <1>7, <1>8

LEMMA TrimmedText ==
    ASSUME NEW parts, SomeText(parts)
    PROVE  /\ SomeText(TrimSpace(parts))
           /\ digitsOnly(parts[1]) /\ digitsOnly(parts[Len(parts)])
                => TrimSpace(parts) = parts
<1> DEFINE C == Characters
           l == Len(parts)
           front == [parts EXCEPT ![1] = TrimLeft(parts[1])]
           both  == [front EXCEPT ![l] = TrimRight(front[l])]
<1>1. parts \in Seq(Seq(C)) /\ l \in Nat \ {0}
  BY PartsOfText DEF SomeText
<1>2. TrimSpace(parts) = both
  BY DEF TrimSpace
<1>3. 1 \in 1 .. l /\ l \in 1 .. l
  BY <1>1
<1>4. parts[1] \in Seq(C) /\ parts[l] \in Seq(C)
  BY <1>1, <1>3, ElementOfSeq
<1>5. TrimLeft(parts[1]) \in Seq(C) /\ (digitsOnly(parts[1]) => TrimLeft(parts[1]) = parts[1])
  BY <1>4, TrimmedLeft
<1>6. front \in Seq(Seq(C)) /\ Len(front) = l
  BY <1>1, <1>3, <1>5, ExceptSeq
<1>7. front[l] \in Seq(C)
  BY <1>3, <1>6, ElementOfSeq
<1>8. TrimRight(front[l]) \in Seq(C)
      /\ (digitsOnly(front[l]) => TrimRight(front[l]) = front[l])
  BY <1>7, TrimmedRight
<1>9. both \in Seq(Seq(C)) /\ Len(both) = l
  BY <1>3, <1>6, <1>8, ExceptSeq
<1>10. SomeText(both)
  <2> HIDE DEF both
  <2> QED
    BY <1>1, <1>9, EmptySeq DEF SomeText
<1>11. ASSUME digitsOnly(parts[1]), digitsOnly(parts[l])
       PROVE  both = parts
  <2>1. front = parts
    BY <1>1, <1>5, <1>11
  <2> HIDE DEF front
  <2>2. TrimRight(front[l]) = front[l]
    BY <1>8, <1>11, <2>1
  <2>3. both = front
    BY <1>6, <2>2
  <2> QED
    BY <2>1, <2>3
<1> QED
  BY <1>2, <1>10, <1>11

LEMMA UnitsMultiply ==
    ASSUME NEW a \in Nat, NEW b \in Nat
    PROVE  Unit(a + b) = Unit(a) * Unit(b)
<1> DEFINE G == {k \in Nat : Unit(a + k) = Unit(a) * Unit(k)}
<1>1. 0 \in G
  <2>1. a + 0 = a /\ Unit(a) * 1 = Unit(a)
    BY UnitStep
  <2> QED
    BY <2>1, UnitStep
<1>2. ASSUME NEW k \in Nat, k \in G
      PROVE  k + 1 \in G
  <2>1. a + k \in Nat /\ a + (k + 1) = (a + k) + 1
    OBVIOUS
  <2>2. Unit(a + (k + 1)) = Base * (Unit(a) * Unit(k))
    BY <1>2, <2>1, UnitStep
  <2>3. Unit(k + 1) = Base * Unit(k) /\ Unit(k) \in Nat /\ Unit(a) \in Nat
    BY UnitStep
  <2>4. \A x, y, z \in Nat : x * (y * z) = y * (x * z)
    OBVIOUS
  <2> QED
    BY <2>2, <2>3, <2>4, MoneyAssumption
<1>3. b \in G
  <2> HIDE DEF G
  <2> QED
    BY <1>1, <1>2, EveryNumber
<1> QED
  BY <1>3

\* What a minor unit of a currency is, in the units of said.
Scale(exponent) == Unit(MaxFraction - exponent)

LEMMA MinorOfDigits ==
    ASSUME NEW parts, parts[1] \in Seq(Digits), Fraction(parts) \in Seq(Digits),
           NEW exponent \in 0 .. MaxFraction, Len(Fraction(parts)) <= exponent
    PROVE  /\ Minor(parts, exponent) \in Nat
           /\ Minor(parts, exponent) = 0 <=> ~ Nonzero(parts[1]) /\ ~ Nonzero(Fraction(parts))
           /\ Denoted(parts) = Minor(parts, exponent) * Scale(exponent)
<1> DEFINE F == Fraction(parts)
           s == parts[1] \o F
           a == exponent - Len(F)
           b == MaxFraction - exponent
<1>1. s \in Seq(Digits) /\ s \in Seq(Nat) /\ Number(s) \in Nat
  BY DigitsAreNumbers, ConcatProperties, NumberIsNat
<1>2. a \in Nat /\ b \in Nat /\ MaxFraction - Len(F) = a + b
  BY LenProperties, MoneyAssumption
<1>3. Minor(parts, exponent) = Number(s) * Unit(a)
  <2>1. Minor(parts, exponent) = Number(s \o Zeros(a))
    BY DEF Minor
  <2> HIDE DEF s, a
  <2> QED
    BY <1>1, <1>2, <2>1, ZerosBehind
<1>4. Denoted(parts) = Number(s) * Unit(a + b)
  <2>1. Denoted(parts) = Number(s \o Zeros(a + b))
    BY <1>2 DEF Denoted
  <2>2. a + b \in Nat
    BY <1>2
  <2> HIDE DEF s, a, b
  <2> QED
    BY <1>1, <2>1, <2>2, ZerosBehind
<1>5. Number(s) = 0 <=> ~ Nonzero(parts[1]) /\ ~ Nonzero(F)
  <2>1. Number(s) = 0 <=> ~ Nonzero(s)
    <3> HIDE DEF s
    <3> QED
      BY <1>1, NothingButZeros
  <2>2. parts[1] \in Seq(Characters) /\ F \in Seq(Characters)
    BY SeqMonotonic DEF Characters
  <2> QED
    BY <2>1, <2>2, PartsOfDigits
<1>6. Unit(a) \in Nat \ {0} /\ Unit(b) \in Nat \ {0} /\ Unit(a + b) = Unit(a) * Unit(b)
  <2> HIDE DEF a, b
  <2> QED
    BY <1>2, UnitStep, UnitsMultiply
<1> HIDE DEF s, a
<1>7. Number(s) * Unit(a) \in Nat /\ (Number(s) * Unit(a) = 0 <=> Number(s) = 0)
  <2>1. \A x \in Nat, y \in Nat \ {0} : x * y \in Nat /\ (x * y = 0 <=> x = 0)
    OBVIOUS
  <2> QED
    BY <1>1, <1>6, <2>1
<1>8. Number(s) * Unit(a + b) = (Number(s) * Unit(a)) * Unit(b)
  <2>1. \A x, y, z \in Nat : x * (y * z) = (x * y) * z
    OBVIOUS
  <2> QED
    BY <1>1, <1>6, <2>1
<1> QED
  BY <1>3, <1>4, <1>5, <1>7, <1>8 DEF Scale

\* What ParseMoney has checked once it has an amount.
AmountParts(parts, exponent) ==
    /\ \/ Len(parts) = 1
       \/ Len(parts) = 2 /\ Fraction(parts) # <<>> /\ exponent # 0
    /\ parts[1] \in Seq(Digits) \ {<<>>} /\ Fraction(parts) \in Seq(Digits)
    /\ Len(Fraction(parts)) <= exponent

LEMMA InvalidAmounts ==
    ASSUME NEW parts, SomeText(parts), NEW exponent \in 0 .. MaxFraction
    PROVE  AmountError(parts, exponent) # "ErrInvalidAmount" <=>
             /\ AmountParts(parts, exponent)
             /\ Nonzero(parts[1]) \/ Nonzero(Fraction(parts))
<1> DEFINE F == Fraction(parts)
           Refused == \/ Len(parts) > 2 \/ parts[1] = <<>>
                      \/ Len(parts) = 2 /\ (F = <<>> \/ exponent = 0)
                      \/ Len(F) > exponent
                      \/ ~ digitsOnly(parts[1] \o F)
<1>1. AmountError(parts, exponent) = "ErrInvalidAmount" <=>
        Refused \/ Minor(parts, exponent) = 0
  BY DEF AmountError
<1>2. ~ Refused <=> AmountParts(parts, exponent)
  <2>1. digitsOnly(parts[1] \o F) <=> parts[1] \in Seq(Digits) /\ F \in Seq(Digits)
    BY PartsOfText, PartsOfDigits, PartOfDigits
  <2>2. Len(parts) \in Nat \ {0} /\ Len(F) \in Nat /\ exponent \in Nat
    BY PartsOfText, MoneyAssumption
  <2>3. /\ ~ Len(parts) > 2 <=> Len(parts) = 1 \/ Len(parts) = 2
        /\ ~ (Len(parts) = 1 /\ Len(parts) = 2)
    <3> DEFINE l == Len(parts)
    <3>1. l \in Nat \ {0}
      BY <2>2
    <3> HIDE DEF l
    <3>2. (~ l > 2 <=> l = 1 \/ l = 2) /\ ~ (l = 1 /\ l = 2)
      BY <3>1
    <3> QED
      BY <3>2 DEF l
  <2>4. ~ Len(F) > exponent <=> Len(F) <= exponent
    <3>1. \A a, b \in Nat : ~ a > b <=> a <= b
      OBVIOUS
    <3> QED
      BY <2>2, <3>1
  <2> HIDE DEF F
  <2> QED
    BY <2>1, <2>3, <2>4 DEF AmountParts, F
<1>3. AmountParts(parts, exponent) =>
        (Minor(parts, exponent) = 0 <=> ~ Nonzero(parts[1]) /\ ~ Nonzero(F))
  BY MinorOfDigits DEF AmountParts
<1> HIDE DEF Refused
<1> QED
  BY <1>1, <1>2, <1>3

LEMMA AmountsAreTrimmed ==
    ASSUME NEW parts, SomeText(parts), NEW exponent, AmountParts(parts, exponent)
    PROVE  TrimSpace(parts) = parts
<1>1. Len(parts) = 2 => Fraction(parts) = parts[2]
  BY PartsOfText
<1>2. parts[1] \in Seq(Digits) /\ parts[Len(parts)] \in Seq(Digits)
  BY <1>1 DEF AmountParts
<1>3. digitsOnly(parts[1]) /\ digitsOnly(parts[Len(parts)])
  BY <1>2, LenProperties, ElementOfSeq DEF digitsOnly
<1> QED
  BY <1>3, TrimmedText

LEMMA AcceptedAmounts ==
    ASSUME NEW parts, SomeText(parts), NEW exponent \in 0 .. MaxFraction,
           AmountError(parts, exponent) = "none"
    PROVE  /\ Minor(parts, exponent) \in 1 .. MaxMinor
           /\ Denoted(parts) = Minor(parts, exponent) * Scale(exponent)
<1>1. AmountParts(parts, exponent)
  BY InvalidAmounts
<1>2. /\ Minor(parts, exponent) \in Nat
      /\ Denoted(parts) = Minor(parts, exponent) * Scale(exponent)
  BY <1>1, MinorOfDigits DEF AmountParts
<1>3. Minor(parts, exponent) # 0 /\ ~ Minor(parts, exponent) > MaxMinor
  BY DEF AmountError
<1> QED
  BY <1>2, <1>3, MoneyAssumption

\* Zeros in front of a number, as many as there may be, change nothing of what
\* ParseMoney makes of a trimmed text: it drops them before ParseInt counts the
\* digits.
THEOREM LeadingZerosAreIgnored ==
    ASSUME NEW parts, SomeText(parts), parts[1] # <<>>, NEW exponent \in Nat,
           NEW k \in Nat, NEW padded, padded = [parts EXCEPT ![1] = Zeros(k) \o parts[1]]
    PROVE  /\ AmountError(padded, exponent) = AmountError(parts, exponent)
           /\ Minor(padded, exponent) = Minor(parts, exponent)
<1> DEFINE C == Characters
           F == Fraction(parts)
           Z == Zeros(k)
           s == parts[1]
           T == Zeros(exponent - Len(F))
<1>1. s \in Seq(C) /\ F \in Seq(C) /\ Z \in Seq(C) /\ T \in Seq(C)
  <2>1. Z \in Seq(C)
    BY SomeZeros, SeqMonotonic DEF Characters
  <2>2. Len(F) \in Nat
    BY PartsOfText
  <2>3. T \in Seq(C)
    <3> DEFINE n == exponent - Len(F)
    <3>1. n \in Nat \/ (n \in Int /\ n <= 0)
      BY <2>2
    <3> HIDE DEF n
    <3>2. Zeros(n) \in Seq(Digits)
      BY <3>1, SomeZeros, NoZeros, EmptySeq
    <3> QED
      BY <3>2, SeqMonotonic DEF n, Characters
  <2> QED
    BY <2>1, <2>3, PartsOfText
<1>2. Len(padded) = Len(parts) /\ padded[1] = Z \o s /\ Fraction(padded) = F
  <2>1. parts \in Seq(Seq(C)) /\ Z \o s \in Seq(C) /\ 1 \in 1 .. Len(parts)
    BY <1>1, PartsOfText, ConcatProperties DEF SomeText
  <2>2. /\ Len(padded) = Len(parts)
        /\ \A j \in 1 .. Len(parts) : padded[j] = IF j = 1 THEN Z \o s ELSE parts[j]
    BY <2>1, ExceptSeq
  <2>3. Len(parts) = 2 => padded[2] = parts[2]
    BY <2>2
  <2> QED
    BY <2>1, <2>2, <2>3 DEF Fraction
<1> HIDE DEF C, Z
<1>3. Minor(padded, exponent) = Minor(parts, exponent)
  <2>1. ((Z \o s) \o F) \o T = Z \o ((s \o F) \o T)
    <3> HIDE DEF s, F, T
    <3>1. s \o F \in Seq(C)
      BY <1>1, ConcatProperties
    <3>2. (Z \o s) \o F = Z \o (s \o F)
      BY <1>1, ConcatAssociative
    <3>3. (Z \o (s \o F)) \o T = Z \o ((s \o F) \o T)
      BY <1>1, <3>1, ConcatAssociative
    <3> QED
      BY <3>2, <3>3
  <2>2. (s \o F) \o T \in Seq(Nat)
    <3>1. (s \o F) \o T \in Seq(C)
      BY <1>1, ConcatProperties
    <3>2. C \subseteq Nat
      BY DigitsAreNumbers DEF C
    <3> QED
      BY <3>1, <3>2, SeqMonotonic
  <2>3. Minor(parts, exponent) = Number((s \o F) \o T)
    BY DEF Minor
  <2>4. Minor(padded, exponent) = Number(((Z \o s) \o F) \o T)
    BY <1>2 DEF Minor
  <2> HIDE DEF s, F, T
  <2>5. Number(Z \o ((s \o F) \o T)) = Number((s \o F) \o T)
    BY <2>2, ZerosInFront DEF Z
  <2> QED
    BY <2>1, <2>3, <2>4, <2>5
<1>4. digitsOnly(padded[1] \o F) <=> digitsOnly(s \o F)
  <2>1. digitsOnly(Z) /\ Z \o s \in Seq(C)
    <3>1. Z \in Seq(Digits)
      BY SomeZeros DEF Z
    <3>2. Z \o s \in Seq(C)
      BY <1>1, ConcatProperties
    <3> QED
      BY <1>1, <3>1, <3>2, PartOfDigits DEF C
  <2>2. digitsOnly((Z \o s) \o F) <=> digitsOnly(Z \o s) /\ digitsOnly(F)
    BY <1>1, <2>1, PartsOfDigits DEF C
  <2>3. digitsOnly(Z \o s) <=> digitsOnly(Z) /\ digitsOnly(s)
    BY <1>1, PartsOfDigits DEF C
  <2>4. digitsOnly(s \o F) <=> digitsOnly(s) /\ digitsOnly(F)
    BY <1>1, PartsOfDigits DEF C
  <2> QED
    BY <1>2, <2>1, <2>2, <2>3, <2>4
<1>5. padded[1] # <<>>
  BY <1>1, <1>2, ConcatEqualIffEmpty
<1> HIDE DEF F, s
<1> DEFINE Refused(t, w) == \/ Len(t) > 2 \/ w = <<>>
                            \/ Len(t) = 2 /\ (F = <<>> \/ exponent = 0)
                            \/ Len(F) > exponent
                            \/ ~ digitsOnly(w \o F)
<1>6. Refused(padded, padded[1]) <=> Refused(parts, s)
  BY <1>2, <1>4, <1>5 DEF s
<1>7. /\ AmountError(padded, exponent) =
           IF Refused(padded, padded[1]) \/ Minor(padded, exponent) = 0
             THEN "ErrInvalidAmount"
           ELSE IF Minor(padded, exponent) > MaxMinor THEN "ErrAmountOverflow" ELSE "none"
      /\ AmountError(parts, exponent) =
           IF Refused(parts, s) \/ Minor(parts, exponent) = 0
             THEN "ErrInvalidAmount"
           ELSE IF Minor(parts, exponent) > MaxMinor THEN "ErrAmountOverflow" ELSE "none"
  BY <1>2 DEF AmountError, F, s
<1> HIDE DEF Refused
<1> QED
  BY <1>3, <1>6, <1>7

-----------------------------------------------------------------------------
(* What FormatMinor makes of a balance                                     *)

LEMMA Padded ==
    ASSUME NEW s \in Seq(Digits) \ {<<>>}, NEW exponent \in Nat, NEW padded,
           padded = Zeros(exponent - Len(s) + 1) \o s
    PROVE  /\ padded \in Seq(Digits) /\ Len(padded) > exponent
           /\ Len(padded) \in Nat
           /\ Number(padded) = Number(s)
<1> DEFINE k == exponent - Len(s) + 1
<1>1. Len(s) \in Nat \ {0} /\ s \in Seq(Digits) /\ s \in Seq(Nat)
  BY DigitsAreNumbers, EmptySeq
<1>2. k \in Int /\ (k <= 0 => Len(s) > exponent) /\ k + Len(s) = exponent + 1
  BY <1>1
<1> HIDE DEF k
<1>3. padded = Zeros(k) \o s
  BY DEF k
<1>4. CASE k <= 0
  <2>1. padded = s
    BY <1>1, <1>2, <1>3, <1>4, NoZeros, ConcatEmptySeq
  <2> QED
    BY <1>1, <1>2, <1>4, <2>1
<1>5. CASE ~ k <= 0
  <2>1. k \in Nat
    BY <1>2, <1>5
  <2>2. Zeros(k) \in Seq(Digits) /\ Len(Zeros(k)) = k
    BY <2>1, SomeZeros
  <2>3. padded \in Seq(Digits) /\ Len(padded) = k + Len(s)
    BY <1>1, <1>3, <2>2, ConcatProperties
  <2>4. Number(padded) = Number(s)
    BY <1>1, <1>3, <2>1, ZerosInFront
  <2> QED
    BY <1>1, <1>2, <2>1, <2>3, <2>4
<1> QED
  BY <1>4, <1>5

LEMMA ShownAmount ==
    ASSUME NEW minor \in Nat, NEW c \in DOMAIN currencyExponents
    PROVE  /\ AmountParts(FormatMinor(minor, c), currencyExponents[c])
           /\ Minor(FormatMinor(minor, c), currencyExponents[c]) = minor
           /\ SomeText(FormatMinor(minor, c))
<1> DEFINE e == currencyExponents[c]
           n == Numeral(minor)
           p == FormatMinor(minor, c)
<1>1. e \in Nat
  BY MoneyAssumption
<1>2. n \in Seq(Digits) \ {<<>>} /\ Number(n) = minor
  BY NumeralIsTheNumber
<1>3. CASE e = 0
  <2>1. p = <<n>>
    BY <1>3 DEF FormatMinor
  <2>2. Len(p) = 1 /\ p[1] = n /\ Fraction(p) = <<>>
    BY <2>1 DEF Fraction
  <2>3. <<>> \in Seq(Digits) /\ Len(<<>>) = 0
    BY EmptySeq
  <2>4. AmountParts(p, e)
    <3> HIDE DEF n, p, e
    <3>1. Len(Fraction(p)) <= e /\ Fraction(p) \in Seq(Digits)
      BY <1>3, <2>2, <2>3
    <3> QED
      BY <1>2, <2>2, <3>1 DEF AmountParts
  <2>5. Minor(p, e) = minor
    <3>1. Zeros(e - Len(<<>>)) = <<>>
      BY <1>3, <2>3, NoZeros
    <3>2. n \o <<>> = n
      BY <1>2, ConcatEmptySeq
    <3> HIDE DEF n, p, e
    <3> QED
      BY <1>2, <2>2, <3>1, <3>2 DEF Minor
  <2>6. SomeText(p)
    <3>1. n \in Seq(Characters)
      BY <1>2, SeqMonotonic DEF Characters
    <3> HIDE DEF n, p
    <3> QED
      BY <2>1, <3>1 DEF SomeText
  <2> QED
    BY <2>4, <2>5, <2>6
<1>4. CASE e # 0
  <2> DEFINE padded == Zeros(e - Len(n) + 1) \o n
             point  == Len(padded) - e
             l      == Len(padded)
             whole  == SubSeq(padded, 1, point)
             part   == SubSeq(padded, point + 1, l)
  <2>1. p = <<whole, part>>
    BY <1>4, Zenon DEF FormatMinor
  <2>2. /\ padded \in Seq(Digits) /\ l > e /\ l \in Nat
        /\ Number(padded) = minor
    <3> HIDE DEF n, e
    <3> QED
      BY <1>1, <1>2, Padded
  <2> HIDE DEF n, padded
  <2>3. point \in Nat \ {0} /\ point < l /\ point + e = l
    BY <1>1, <1>4, <2>2
  <2>4. \A i \in 1 .. l : padded[i] \in Digits
    BY <2>2, ElementOfSeq
  <2> HIDE DEF point, l, p
  <2>5. whole \in Seq(Digits) /\ Len(whole) = point
    <3>1. \A i \in 1 .. point : padded[i] \in Digits
      BY <2>2, <2>3, <2>4
    <3>2. 1 \in Int /\ point \in Int /\ 1 <= point /\ point - 1 + 1 = point
      BY <2>3
    <3> QED
      BY <3>1, <3>2, SubSeqProperties
  <2>6. part \in Seq(Digits) /\ Len(part) = e
    <3>1. \A i \in point + 1 .. l : padded[i] \in Digits
      BY <2>2, <2>3, <2>4
    <3>2. point + 1 \in Int /\ l \in Int /\ point + 1 <= l /\ l - (point + 1) + 1 = e
      BY <1>1, <2>2, <2>3
    <3> QED
      BY <3>1, <3>2, SubSeqProperties
  <2>7. whole \o part = padded
    <3>1. SubSeq(padded, 1, point) \o SubSeq(padded, point + 1, l) = SubSeq(padded, 1, l)
      <4>1. 1 \in 1 .. l + 1 /\ point \in 1 - 1 .. l /\ l \in point .. l
        BY <2>2, <2>3
      <4> QED
        BY <2>2, <4>1, ConcatAdjacentSubSeq DEF l
    <3>2. SubSeq(padded, 1, l) = padded
      BY <2>2, SubSeqFull DEF l
    <3> QED
      BY <3>1, <3>2
  <2> HIDE DEF whole, part
  <2>8. Len(p) = 2 /\ p[1] = whole /\ p[2] = part /\ Fraction(p) = part
    BY <2>1 DEF Fraction
  <2>9. whole # <<>> /\ part # <<>>
    BY <1>4, <2>3, <2>5, <2>6, EmptySeq
  <2>10. AmountParts(p, e)
    BY <1>1, <1>4, <2>5, <2>6, <2>8, <2>9 DEF AmountParts
  <2>11. Minor(p, e) = minor
    <3>1. Zeros(e - Len(part)) = <<>>
      BY <1>1, <2>6, NoZeros
    <3>2. padded \o <<>> = padded
      BY <2>2, ConcatEmptySeq
    <3> HIDE DEF e
    <3> QED
      BY <2>2, <2>7, <2>8, <3>1, <3>2 DEF Minor
  <2>12. SomeText(p)
    <3>1. whole \in Seq(Characters) /\ part \in Seq(Characters)
      BY <2>5, <2>6, SeqMonotonic DEF Characters
    <3> QED
      BY <2>1, <3>1 DEF SomeText
  <2> QED
    BY <2>10, <2>11, <2>12 DEF p
<1> QED
  BY <1>3, <1>4

-----------------------------------------------------------------------------
(* The client and its wallet                                               *)

LEMMA DocumentedAmounts ==
    ASSUME NEW parts, SomeText(parts), NEW exponent \in 0 .. MaxFraction
    PROVE  /\ exponent = 0 =>
                (AmountError(parts, exponent) # "ErrInvalidAmount"
                   <=> PositiveIntegerAmount(parts))
           /\ exponent = 2 =>
                (AmountError(parts, exponent) # "ErrInvalidAmount"
                   <=> PositiveDecimalAmount(parts))
<1> DEFINE F == Fraction(parts)
           s == parts[1]
           Amount == /\ \/ Len(parts) = 1
                        \/ Len(parts) = 2 /\ F # <<>> /\ exponent # 0
                     /\ s \in Seq(Digits) \ {<<>>} /\ F \in Seq(Digits)
                     /\ Len(F) <= exponent
                     /\ Nonzero(s) \/ Nonzero(F)
<1>1. AmountError(parts, exponent) # "ErrInvalidAmount" <=> Amount
  BY InvalidAmounts DEF AmountParts
<1>2. /\ digitsOnly(s) <=> s \in Seq(Digits)
      /\ digitsOnly(F) <=> F \in Seq(Digits)
  BY PartsOfText, PartOfDigits
<1>3. /\ Nonzero(s) => s # <<>>
      /\ F = <<>> => ~ Nonzero(F)
  BY DEF Nonzero
<1>4. /\ Len(parts) = 2 => F = parts[2]
      /\ Len(parts) = 1 => F = <<>> /\ Len(F) = 0 /\ Len(parts) # 2
  BY PartsOfText
<1>5. /\ Len(F) \in Nat /\ (F # <<>> => Len(F) # 0) /\ (F = <<>> => Len(F) = 0)
      /\ <<>> \in Seq(Digits)
  BY PartsOfText, EmptySeq
<1>6. ASSUME exponent = 0
      PROVE  Amount <=> PositiveIntegerAmount(parts)
  <2>1. PositiveIntegerAmount(parts) <=> Len(parts) = 1 /\ digitsOnly(s) /\ Nonzero(s)
    BY DEF PositiveIntegerAmount
  <2>2. Len(F) = 0 => Len(F) <= exponent
    BY <1>6
  <2> HIDE DEF F, s
  <2> QED
    BY <1>2, <1>3, <1>4, <1>5, <1>6, <2>1, <2>2
<1>7. ASSUME exponent = 2
      PROVE  Amount <=> PositiveDecimalAmount(parts)
  <2>1. PositiveDecimalAmount(parts) <=>
          \/ Len(parts) = 1 /\ digitsOnly(s) /\ Nonzero(s)
          \/ /\ Len(parts) = 2 /\ digitsOnly(s) /\ digitsOnly(F)
             /\ Len(F) \in 1 .. 2
             /\ \/ Nonzero(s)
                \/ s # <<>> /\ Nonzero(F)
    BY <1>4 DEF PositiveDecimalAmount, PositiveIntegerAmount
  <2>2. /\ Len(F) \in 1 .. 2 <=> F # <<>> /\ Len(F) <= exponent
        /\ Len(F) = 0 => Len(F) <= exponent
    <3> DEFINE l == Len(F)
    <3>1. l \in Nat /\ (l # 0 <=> F # <<>>)
      BY <1>5
    <3> HIDE DEF l
    <3>2. (l \in 1 .. 2 <=> l # 0 /\ l <= exponent) /\ (l = 0 => l <= exponent)
      BY <1>7, <3>1
    <3> QED
      BY <3>1, <3>2 DEF l
  <2> HIDE DEF F, s
  <2>3. CASE Len(parts) = 1
    BY <1>2, <1>3, <1>4, <1>5, <2>1, <2>2, <2>3
  <2>4. CASE Len(parts) # 1
    BY <1>2, <1>3, <1>4, <1>5, <1>7, <2>1, <2>2, <2>4
  <2> QED
    BY <2>3, <2>4
<1> HIDE DEF Amount
<1> QED
  BY <1>1, <1>6, <1>7

\* The balance is in range, and is what the accepted texts amount to.
BalanceIsSaid ==
    /\ currency \in DOMAIN currencyExponents
    /\ balance \in 0 .. MaxMinor
    /\ said = balance * Scale(currencyExponents[currency])

CreditedAnswer ==
    at = "credited" =>
      /\ SomeText(text)
      /\ \/ error = "ErrInvalidCurrency"
         \/ error # "ErrInvalidAmount" <=>
              AmountError(TrimSpace(text), currencyExponents[currency]) # "ErrInvalidAmount"

ShownText == at = "shown" => text = FormatMinor(balance, currency)

MoneyInv == BalanceIsSaid /\ CreditedAnswer /\ ShownText /\ ShownCanBeWithdrawn

LEMMA CurrencyExponent ==
    ASSUME NEW c \in DOMAIN currencyExponents
    PROVE  /\ currencyExponents[c] \in 0 .. MaxFraction
           /\ Scale(currencyExponents[c]) \in Nat \ {0}
<1>1. currencyExponents[c] \in 0 .. MaxFraction /\ MaxFraction \in Nat
  BY MoneyAssumption
<1>2. MaxFraction - currencyExponents[c] \in Nat
  BY <1>1
<1> QED
  BY <1>1, <1>2, UnitStep DEF Scale

LEMMA MoneyInvInit == Init => MoneyInv
<1> SUFFICES ASSUME Init PROVE MoneyInv
  OBVIOUS
<1>1. currency \in DOMAIN currencyExponents /\ balance = 0 /\ said = 0 /\ at = "type"
  BY DEF Init
<1>2. Scale(currencyExponents[currency]) \in Nat
  BY <1>1, CurrencyExponent
<1>3. 0 * Scale(currencyExponents[currency]) = 0 /\ 0 \in 0 .. MaxMinor
  BY <1>2, MoneyAssumption
<1>4. BalanceIsSaid
  BY <1>1, <1>3 DEF BalanceIsSaid
<1> QED
  BY <1>1, <1>4 DEF MoneyInv, CreditedAnswer, ShownText, ShownCanBeWithdrawn

LEMMA DepositKeepsMoneyInv ==
    ASSUME MoneyInv, NEW typed \in Texts, NEW c \in {currency, "unsupported"},
           Deposit(typed, c)
    PROVE  MoneyInv'
<1> DEFINE e == currencyExponents[currency]
           minor == Parsed(typed, c)
           trimmed == TrimSpace(typed)
<1>1. /\ currency \in DOMAIN currencyExponents /\ balance \in 0 .. MaxMinor
      /\ said = balance * Scale(e)
  BY DEF MoneyInv, BalanceIsSaid
<1>2. /\ at' = "credited" /\ text' = typed /\ currency' = currency
      /\ error' = IF ParseError(typed, c) # "none" THEN ParseError(typed, c)
                  ELSE Credited(minor)
      /\ balance' = IF error' = "none" THEN balance + minor ELSE balance
      /\ said' = IF error' = "none" THEN said + Denoted(trimmed) ELSE said
  BY DEF Deposit
<1>3. SomeText(typed) /\ SomeText(trimmed)
  <2>1. SomeText(typed)
    BY MoneyAssumption DEF SomeText
  <2> QED
    BY <2>1, TrimmedText
<1>4. e \in 0 .. MaxFraction /\ Scale(e) \in Nat \ {0}
  BY <1>1, CurrencyExponent
<1>5. CASE c \notin DOMAIN currencyExponents
  <2>1. error' = "ErrInvalidCurrency"
    BY <1>2, <1>5 DEF ParseError
  <2>2. balance' = balance /\ said' = said
    BY <1>2, <2>1
  <2>3. BalanceIsSaid'
    BY <1>1, <1>2, <2>2 DEF BalanceIsSaid
  <2> QED
    BY <1>2, <1>3, <2>1, <2>3
       DEF MoneyInv, CreditedAnswer, ShownText, ShownCanBeWithdrawn
<1>6. CASE c \in DOMAIN currencyExponents
  <2>1. c = currency
    BY <1>6, MoneyAssumption
  <2>2. ParseError(typed, c) = AmountError(trimmed, e) /\ minor = Minor(trimmed, e)
    BY <1>6, <2>1 DEF ParseError, Parsed
  <2>3. error' # "ErrInvalidAmount" <=> AmountError(trimmed, e) # "ErrInvalidAmount"
    <3>1. CASE AmountError(trimmed, e) # "none"
      BY <1>2, <2>2, <3>1
    <3>2. CASE AmountError(trimmed, e) = "none"
      <4>1. minor \in 1 .. MaxMinor
        BY <1>3, <1>4, <2>2, <3>2, AcceptedAmounts
      <4>2. ~ minor <= 0
        <5> HIDE DEF minor
        <5> QED
          BY <4>1, MoneyAssumption
      <4>3. error' = Credited(minor)
        BY <1>2, <2>2, <3>2
      <4>4. Credited(minor) # "ErrInvalidAmount"
        <5> HIDE DEF minor
        <5> QED
          BY <4>2 DEF Credited
      <4> QED
        BY <3>2, <4>3, <4>4
    <3> QED
      BY <3>1, <3>2
  <2>4. BalanceIsSaid'
    <3>1. CASE error' # "none"
      BY <1>1, <1>2, <3>1 DEF BalanceIsSaid
    <3>2. CASE error' = "none"
      <4>1. AmountError(trimmed, e) = "none" /\ ~ balance > MaxMinor - minor
        BY <1>2, <2>2, <3>2 DEF Credited
      <4>2. minor \in 1 .. MaxMinor /\ Denoted(trimmed) = minor * Scale(e)
        BY <1>3, <1>4, <2>2, <4>1, AcceptedAmounts
      <4>3. balance + minor \in 0 .. MaxMinor
        <5> HIDE DEF minor
        <5> QED
          BY <1>1, <4>1, <4>2, MoneyAssumption
      <4>4. balance * Scale(e) + minor * Scale(e) = (balance + minor) * Scale(e)
        <5>1. \A x, y, z \in Nat : x * z + y * z = (x + y) * z
          OBVIOUS
        <5>2. balance \in Nat /\ minor \in Nat
          BY <1>1, <4>2, MoneyAssumption
        <5> QED
          BY <1>4, <5>1, <5>2
      <4> QED
        BY <1>1, <1>2, <3>2, <4>2, <4>3, <4>4 DEF BalanceIsSaid
    <3> QED
      BY <3>1, <3>2
  <2> QED
    BY <1>2, <1>3, <2>3, <2>4
       DEF MoneyInv, CreditedAnswer, ShownText, ShownCanBeWithdrawn
<1> QED
  BY <1>5, <1>6

LEMMA WithdrawKeepsMoneyInv ==
    ASSUME MoneyInv, WithdrawShown
    PROVE  MoneyInv'
<1> DEFINE e == currencyExponents[currency]
<1>1. /\ currency \in DOMAIN currencyExponents /\ balance \in 0 .. MaxMinor
      /\ said = balance * Scale(e)
      /\ at = "shown" /\ text = FormatMinor(balance, currency) /\ balance > 0
  BY DEF MoneyInv, BalanceIsSaid, ShownText, WithdrawShown
<1>2. e \in 0 .. MaxFraction /\ Scale(e) \in Nat \ {0} /\ balance \in Nat
  BY <1>1, CurrencyExponent, MoneyAssumption
<1>3. AmountParts(text, e) /\ Minor(text, e) = balance /\ SomeText(text)
      /\ TrimSpace(text) = text
  <2>1. AmountParts(text, e) /\ Minor(text, e) = balance /\ SomeText(text)
    BY <1>1, <1>2, ShownAmount
  <2> QED
    BY <2>1, AmountsAreTrimmed
<1>4. AmountError(text, e) = "none"
  <2>1. Nonzero(text[1]) \/ Nonzero(Fraction(text))
    <3>1. Minor(text, e) # 0
      BY <1>1, <1>3
    <3> QED
      BY <1>2, <1>3, <3>1, MinorOfDigits DEF AmountParts
  <2>2. AmountError(text, e) # "ErrInvalidAmount"
    BY <1>2, <1>3, <2>1, InvalidAmounts
  <2>3. ~ Minor(text, e) > MaxMinor
    BY <1>1, <1>3, MoneyAssumption
  <2> QED
    BY <2>2, <2>3 DEF AmountError
<1>5. ParseError(text, currency) = "none" /\ Parsed(text, currency) = balance
  BY <1>1, <1>3, <1>4 DEF ParseError, Parsed
<1>6. /\ at' = "withdrawn" /\ error' = "none" /\ currency' = currency
      /\ balance' = balance - balance
      /\ said' = IF balance' = balance THEN said ELSE said - Denoted(text)
  BY <1>2, <1>3, <1>5 DEF WithdrawShown
<1>7. balance' = 0 /\ balance' # balance
  BY <1>1, <1>2, <1>6
<1>8. Denoted(text) = balance * Scale(e)
  BY <1>2, <1>3, <1>4, AcceptedAmounts
<1>9. said' = 0 /\ 0 * Scale(e) = 0
  <2>1. \A x, y \in Nat : x * y - x * y = 0
    OBVIOUS
  <2>2. said' = balance * Scale(e) - balance * Scale(e)
    BY <1>1, <1>6, <1>7, <1>8
  <2>3. 0 * Scale(e) = 0
    BY <1>2
  <2> QED
    BY <1>2, <2>1, <2>2, <2>3
<1>10. BalanceIsSaid'
  BY <1>1, <1>6, <1>7, <1>9, MoneyAssumption DEF BalanceIsSaid
<1> QED
  BY <1>6, <1>7, <1>10 DEF MoneyInv, CreditedAnswer, ShownText, ShownCanBeWithdrawn

LEMMA MoneyInvStep == MoneyInv /\ [Next]_vars => MoneyInv'
<1> SUFFICES ASSUME MoneyInv, [Next]_vars PROVE MoneyInv'
  OBVIOUS
<1>1. ASSUME NEW typed \in Texts, NEW c \in {currency, "unsupported"}, Deposit(typed, c)
      PROVE  MoneyInv'
  BY <1>1, DepositKeepsMoneyInv
<1>2. CASE Show
  BY <1>2 DEF Show, MoneyInv, BalanceIsSaid, CreditedAnswer, ShownText, ShownCanBeWithdrawn
<1>3. CASE TypeAgain
  BY <1>3
     DEF TypeAgain, MoneyInv, BalanceIsSaid, CreditedAnswer, ShownText, ShownCanBeWithdrawn
<1>4. CASE WithdrawShown
  BY <1>4, WithdrawKeepsMoneyInv
<1>5. CASE UNCHANGED vars
  BY <1>5
     DEF vars, MoneyInv, BalanceIsSaid, CreditedAnswer, ShownText, ShownCanBeWithdrawn
<1> QED
  BY <1>1, <1>2, <1>3, <1>4, <1>5 DEF Next

LEMMA MoneyInvAlways == Spec => []MoneyInv
  BY MoneyInvInit, MoneyInvStep, PTL DEF Spec

LEMMA DocumentedIsTrimmed ==
    ASSUME NEW parts, SomeText(parts), Documented(parts)
    PROVE  TrimSpace(parts) = parts
<1>1. /\ Len(parts) = 1 \/ Len(parts) = 2
      /\ digitsOnly(parts[1]) /\ (Len(parts) = 2 => digitsOnly(parts[2]))
  BY DEF Documented, PositiveIntegerAmount, PositiveDecimalAmount
<1>2. digitsOnly(parts[1]) /\ digitsOnly(parts[Len(parts)])
  BY <1>1
<1> QED
  BY <1>2, TrimmedText

\* Whatever is typed, of any characters, white space among them: ParseMoney
\* takes it exactly if the patterns of openapi.yaml allow what is left when the
\* white space around it is dropped, and so whatever they allow as it stands.
THEOREM TextsAcceptedAsDocumented == Spec => []AcceptedAsDocumented
<1>1. MoneyInv => AcceptedAsDocumented
  <2> SUFFICES ASSUME MoneyInv, at = "credited", error # "ErrInvalidCurrency"
               PROVE  /\ Documented(text) => error # "ErrInvalidAmount"
                      /\ (error # "ErrInvalidAmount") = Documented(TrimSpace(text))
    BY DEF AcceptedAsDocumented
  <2> DEFINE e == currencyExponents[currency]
             t == TrimSpace(text)
  <2>1. e \in 0 .. MaxFraction /\ e \in {0, 2}
    BY CurrencyExponent, ExponentsAssumption DEF MoneyInv, BalanceIsSaid
  <2>2. /\ SomeText(text) /\ SomeText(t)
        /\ error # "ErrInvalidAmount" <=> AmountError(t, e) # "ErrInvalidAmount"
    BY TrimmedText DEF MoneyInv, CreditedAnswer
  <2>3. /\ e = 0 => (AmountError(t, e) # "ErrInvalidAmount" <=> PositiveIntegerAmount(t))
        /\ e = 2 => (AmountError(t, e) # "ErrInvalidAmount" <=> PositiveDecimalAmount(t))
    <3> HIDE DEF e, t
    <3> QED
      BY <2>1, <2>2, DocumentedAmounts
  <2>4. /\ PositiveIntegerAmount(t) \in BOOLEAN
        /\ PositiveDecimalAmount(t) \in BOOLEAN
    BY DEF PositiveIntegerAmount, PositiveDecimalAmount
  <2>5. Documented(t) = IF e = 0 THEN PositiveIntegerAmount(t) ELSE PositiveDecimalAmount(t)
    BY DEF Documented
  <2>6. Documented(text) => t = text
    BY <2>2, DocumentedIsTrimmed
  <2> HIDE DEF e, t
  <2>7. (error # "ErrInvalidAmount") = Documented(t)
    <3>1. CASE e = 0
      BY <2>2, <2>3, <2>4, <2>5, <3>1
    <3>2. CASE e = 2
      BY <2>2, <2>3, <2>4, <2>5, <3>2
    <3> QED
      BY <2>1, <3>1, <3>2
  <2>8. Documented(text) => error # "ErrInvalidAmount"
    BY <2>6, <2>7
  <2> QED
    BY <2>7, <2>8 DEF t
<1> QED
  BY <1>1, MoneyInvAlways, PTL

\* Whatever has been deposited and withdrawn before, and in whatever notation,
\* FormatMinor shows the sum: nothing is rounded or moved behind the point.
THEOREM BalancesShownAreSums == Spec => []ShownIsTheSum
<1>1. MoneyInv => ShownIsTheSum
  <2> SUFFICES ASSUME MoneyInv, at = "shown" PROVE Denoted(text) = said
    BY DEF ShownIsTheSum
  <2> DEFINE e == currencyExponents[currency]
  <2>1. /\ currency \in DOMAIN currencyExponents /\ balance \in Nat
        /\ text = FormatMinor(balance, currency) /\ said = balance * Scale(e)
    BY MoneyAssumption DEF MoneyInv, BalanceIsSaid, ShownText
  <2>2. e \in 0 .. MaxFraction
    BY <2>1, CurrencyExponent
  <2>3. AmountParts(text, e) /\ Minor(text, e) = balance
    BY <2>1, ShownAmount
  <2>4. Denoted(text) = Minor(text, e) * Scale(e)
    BY <2>2, <2>3, MinorOfDigits DEF AmountParts
  <2> QED
    BY <2>1, <2>3, <2>4
<1> QED
  BY <1>1, MoneyInvAlways, PTL

\* ParseMoney takes back whatever FormatMinor has shown of a balance that is
\* not zero, as that very balance.
THEOREM ShownBalancesCanBeWithdrawn == Spec => []ShownCanBeWithdrawn
<1>1. MoneyInv => ShownCanBeWithdrawn
  BY DEF MoneyInv
<1> QED
  BY <1>1, MoneyInvAlways, PTL

=============================================================================
