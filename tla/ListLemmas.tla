------------------------------ MODULE ListLemmas ------------------------------
(***************************************************************************)
(* What the library's operators on lists and sets do: the least and the    *)
(* greatest of a set, folds, removal, flattening, a set as a list.  A fold *)
(* is a recursive function, whose existence is shown first, by the least   *)
(* length for which there would be none.                                   *)
(***************************************************************************)
EXTENDS SequencesExt, FiniteSetTheorems, SequenceTheorems, TLAPS

\* A set of naturals has a least member.
LEMMA LeastExists ==
    ASSUME NEW S, S \subseteq Nat, S # {}
    PROVE  \E x \in S : \A y \in S : x <= y
<1>1. IsWellFoundedOn(OpToRel(<, Nat), Nat) BY NatLessThanWellFounded
<1>2. PICK x \in S : \A y \in S : ~ (<<y, x>> \in OpToRel(<, Nat))
  <2> HIDE DEF OpToRel
  <2> QED BY <1>1, WFMin, Zenon
<1>3. \A y \in S : ~ (y < x) BY <1>2 DEF OpToRel
<1>4. \A y \in S : x <= y BY <1>3
<1> QED BY <1>4

LEMMA MinIn ==
    ASSUME NEW S, S \subseteq Nat, S # {}
    PROVE  Min(S) \in S
BY LeastExists DEF Min

\* A set that holds 0, and with each number the next one, holds those up to n.
LEMMA UpTo ==
    ASSUME NEW n \in Nat, NEW T, 0 \in T, \A k \in 0..(n - 1) : k \in T => k + 1 \in T
    PROVE  \A k \in 0..n : k \in T
<1> SUFFICES ASSUME NEW m \in 0..n, m \notin T PROVE FALSE OBVIOUS
<1> DEFINE S == {k \in 0..n : k \notin T}
<1>1. S \subseteq Nat /\ S # {} OBVIOUS
<1>2. PICK x \in S : \A y \in S : x <= y
  <2> HIDE DEF S
  <2> QED BY <1>1, LeastExists
<1>3. x # 0 /\ x \in Nat /\ x <= n OBVIOUS
<1>4. x - 1 \in 0..(n - 1) /\ x - 1 \in 0..n /\ ~ (x <= x - 1) BY <1>3
<1>5. x - 1 \in T BY <1>2, <1>4
<1>6. x - 1 + 1 = x BY <1>3
<1>7. x \in T BY <1>4, <1>5, <1>6
<1> QED BY <1>7

LEMMA MaxIn ==
    ASSUME NEW n \in Nat, NEW S, S \subseteq 1..n, S # {}
    PROVE  Max(S) \in S /\ \A y \in S : Max(S) >= y
<1> DEFINE T == {n - w : w \in S}
<1>1. T \subseteq Nat /\ T # {}
  <2>1. \A w \in S : n - w \in Nat OBVIOUS
  <2>2. PICK w \in S : TRUE OBVIOUS
  <2>3. n - w \in T OBVIOUS
  <2> QED BY <2>1, <2>3
<1>2. PICK m \in T : \A y \in T : m <= y
  <2> HIDE DEF T
  <2> QED BY <1>1, LeastExists
<1>3. PICK x \in S : m = n - x BY <1>2
<1>4. \A w \in S : n - w \in T OBVIOUS
<1>5. \A w \in S : n - x <= n - w BY <1>2, <1>3, <1>4
<1>6. \A w \in S : x >= w BY <1>5
<1> QED BY <1>6 DEF Max

LEMMA MaxUpTo ==
    ASSUME NEW n \in Nat, NEW S, S \subseteq 1..n, n \in S
    PROVE  Max(S) = n
<1>1. Max(S) \in S /\ Max(S) >= n BY MaxIn
<1>2. Max(S) \in 1..n BY <1>1
<1> QED BY <1>1, <1>2

LEMMA FirstOnes ==
    ASSUME NEW n \in Nat, NEW k \in 1..n
    PROVE  /\ k \in 0..n /\ k - 1 \in 0..n /\ 1..k \in SUBSET (1..n) /\ 1..k # {}
           /\ (1..k) \ {k} = 1..(k - 1)
OBVIOUS

\* What the fold of the library is on 1..n: it takes off the greatest member each time.
FoldsUp(n, D, base, F, g) ==
    /\ g \in [SUBSET (1..n) -> D]
    /\ \A s \in SUBSET (1..n) : g[s] = IF s = {} THEN base ELSE F[<<g[s \ {Max(s)}], Max(s)>>]

LEMMA FoldExists ==
    ASSUME NEW n \in Nat, NEW D, NEW base \in D, NEW F \in [D \X (1..n) -> D]
    PROVE  \E g : FoldsUp(n, D, base, F, g)
<1> DEFINE Folds(m, g) == \A s \in SUBSET (1..m) :
               g[s] = IF s = {} THEN base ELSE F[<<g[s \ {Max(s)}], Max(s)>>]
           T == {m \in 0..n : \E g \in [SUBSET (1..m) -> D] : Folds(m, g)}
<1>1. 0 \in T
  <2> DEFINE g == [s \in SUBSET (1..0) |-> base]
  <2>1. \A s \in SUBSET (1..0) : s = {} OBVIOUS
  <2>2. g \in [SUBSET (1..0) -> D] /\ Folds(0, g) BY <2>1
  <2>3. 0 \in 0..n OBVIOUS
  <2> HIDE DEF g, Folds
  <2> QED BY <2>2, <2>3
<1>2. ASSUME NEW m \in 0..(n - 1), m \in T PROVE m + 1 \in T
  <2>1. PICK g \in [SUBSET (1..m) -> D] : Folds(m, g) BY <1>2
  <2> DEFINE h == [s \in SUBSET (1..(m + 1)) |->
                     IF m + 1 \in s THEN F[<<g[s \ {m + 1}], m + 1>>] ELSE g[s]]
  <2>2. \A s \in SUBSET (1..(m + 1)) : s \ {m + 1} \in SUBSET (1..m) /\ (m + 1 \notin s => s \in SUBSET (1..m))
    OBVIOUS
  <2>3. m + 1 \in 1..n /\ m + 1 \in Nat /\ m + 1 \in 0..n OBVIOUS
  <2>4. h \in [SUBSET (1..(m + 1)) -> D]
    <3> SUFFICES ASSUME NEW s \in SUBSET (1..(m + 1))
                 PROVE  (IF m + 1 \in s THEN F[<<g[s \ {m + 1}], m + 1>>] ELSE g[s]) \in D
      OBVIOUS
    <3>1. CASE m + 1 \in s
      <4>1. g[s \ {m + 1}] \in D BY <2>2
      <4>2. <<g[s \ {m + 1}], m + 1>> \in D \X (1..n) BY <4>1, <2>3
      <4> QED BY <3>1, <4>2
    <3>2. CASE m + 1 \notin s BY <3>2, <2>2
    <3> QED BY <3>1, <3>2
  <2>5. ASSUME NEW s \in SUBSET (1..m) PROVE s \in SUBSET (1..(m + 1)) /\ h[s] = g[s]
    <3>1. s \in SUBSET (1..(m + 1)) /\ m + 1 \notin s OBVIOUS
    <3> QED BY <3>1
  <2>6. Folds(m + 1, h)
    <3> SUFFICES ASSUME NEW s \in SUBSET (1..(m + 1))
                 PROVE  h[s] = IF s = {} THEN base ELSE F[<<h[s \ {Max(s)}], Max(s)>>]
      OBVIOUS
    <3>1. CASE m + 1 \in s
      <4>1. Max(s) = m + 1 BY <3>1, <2>3, MaxUpTo
      <4>2. h[s] = F[<<g[s \ {m + 1}], m + 1>>] BY <3>1
      <4>3. h[s \ {m + 1}] = g[s \ {m + 1}] BY <2>2, <2>5
      <4> HIDE DEF h
      <4> QED BY <3>1, <4>1, <4>2, <4>3
    <3>2. CASE m + 1 \notin s
      <4>1. s \in SUBSET (1..m) /\ s \ {Max(s)} \in SUBSET (1..m) BY <3>2, <2>2
      <4>2. h[s] = g[s] /\ h[s \ {Max(s)}] = g[s \ {Max(s)}] BY <4>1, <2>5
      <4>3. g[s] = IF s = {} THEN base ELSE F[<<g[s \ {Max(s)}], Max(s)>>] BY <4>1, <2>1
      <4> HIDE DEF h
      <4> QED BY <4>2, <4>3
    <3> QED BY <3>1, <3>2
  <2> HIDE DEF h, Folds
  <2> QED BY <2>3, <2>4, <2>6
<1>3. n \in T
  <2> HIDE DEF T
  <2>1. \A k \in 0..n : k \in T BY <1>1, <1>2, UpTo
  <2> QED BY <2>1
<1> QED BY <1>3 DEF FoldsUp

-----------------------------------------------------------------------------
OneOfEach(list) == \A i, j \in DOMAIN list : list[i] = list[j] => i = j

\* RemoveFirst takes one out, of a list that holds one of each.
LEMMA RemovesOne ==
    ASSUME NEW S, NEW list \in Seq(S), NEW id
    PROVE  /\ RemoveFirst(list, id) \in Seq(S)
           /\ OneOfEach(list) => /\ OneOfEach(RemoveFirst(list, id))
                                 /\ Range(RemoveFirst(list, id)) = Range(list) \ {id}
<1> DEFINE I == {i \in 1..Len(list) : list[i] = id}
<1>1. CASE I = {}
  <2>1. ~ \E i \in 1..Len(list) : list[i] = id BY <1>1
  <2>2. RemoveFirst(list, id) = list BY <2>1 DEF RemoveFirst
  <2>3. id \notin Range(list) BY <2>1 DEF Range
  <2> QED BY <2>2, <2>3
<1>2. CASE I # {}
  <2> DEFINE p == Min(I)
  <2>1. p \in I
    <3>1. PICK x \in I : \A y \in I : x <= y
      <4>1. I \subseteq Nat OBVIOUS
      <4> HIDE DEF I
      <4> QED BY <1>2, <4>1, LeastExists
    <3> HIDE DEF I
    <3> QED BY <3>1 DEF Min
  <2>2. \E i \in 1..Len(list) : list[i] = id BY <2>1
  <2>3. RemoveFirst(list, id) = SubSeq(list, 1, p - 1) \o SubSeq(list, p + 1, Len(list))
    BY <1>2, <2>2 DEF RemoveFirst, SelectInSeq, RemoveAt
  <2> HIDE DEF p
  <2> DEFINE l == Len(list)
             a == SubSeq(list, 1, p - 1)
             b == SubSeq(list, p + 1, l)
             r == RemoveFirst(list, id)
  <2>4. p \in 1..l /\ list[p] = id /\ l \in Nat BY <2>1
  <2>5. a \in Seq(S) /\ Len(a) = p - 1 /\ \A i \in 1..(p - 1) : a[i] = list[i]
    BY <2>4, SubSeqProperties
  <2>6. b \in Seq(S) /\ Len(b) = l - p /\ \A i \in 1..(l - p) : b[i] = list[p + i]
    BY <2>4, SubSeqProperties
  <2>7. r \in Seq(S) /\ Len(r) = l - 1 /\ \A i \in 1..(l - 1) : r[i] = IF i < p THEN list[i] ELSE list[i + 1]
    <3>1. r = a \o b BY <2>3
    <3> HIDE DEF a, b, r, l
    <3>2. r \in Seq(S) /\ Len(r) = l - 1 BY <3>1, <2>4, <2>5, <2>6, ConcatProperties
    <3>3. ASSUME NEW i \in 1..(l - 1) PROVE r[i] = IF i < p THEN list[i] ELSE list[i + 1]
      <4>1. CASE i < p
        <5>1. i \in 1..(p - 1) BY <4>1, <2>4
        <5>2. r[i] = a[i] BY <5>1, <3>1, <2>5, <2>6
        <5> QED BY <5>1, <5>2, <4>1, <2>5
      <4>2. CASE ~ (i < p)
        <5>1. i - (p - 1) \in 1..(l - p) /\ p + (i - (p - 1)) = i + 1 BY <4>2, <2>4
        <5>2. r[i] = b[i - (p - 1)] BY <5>1, <4>2, <3>1, <2>4, <2>5, <2>6
        <5>3. b[i - (p - 1)] = list[p + (i - (p - 1))] BY <5>1, <2>6
        <5> QED BY <5>1, <5>2, <5>3, <4>2
      <4> QED BY <4>1, <4>2
    <3> QED BY <3>2, <3>3
  <2> HIDE DEF a, b, r, l
  <2>8. DOMAIN list = 1..l /\ DOMAIN r = 1..(l - 1) BY <2>7, <2>4 DEF l
  <2>9. ASSUME OneOfEach(list) PROVE OneOfEach(r) /\ Range(r) = Range(list) \ {id}
    <3>1. \A i, j \in 1..l : list[i] = list[j] => i = j BY <2>9, <2>8 DEF OneOfEach
    <3>2. OneOfEach(r)
      <4> SUFFICES ASSUME NEW i \in 1..(l - 1), NEW j \in 1..(l - 1), r[i] = r[j] PROVE i = j
        BY <2>8 DEF OneOfEach
      <4>1. i \in 1..l /\ i + 1 \in 1..l /\ j \in 1..l /\ j + 1 \in 1..l BY <2>4
      <4>2. (IF i < p THEN list[i] ELSE list[i + 1]) = (IF j < p THEN list[j] ELSE list[j + 1]) BY <2>7
      <4> QED BY <4>1, <4>2, <3>1, <2>4
    <3>3. ASSUME NEW x \in Range(r) PROVE x \in Range(list) \ {id}
      <4>1. PICK i \in 1..(l - 1) : r[i] = x BY <2>8 DEF Range
      <4>2. i \in 1..l /\ i + 1 \in 1..l BY <2>4
      <4>3. x = IF i < p THEN list[i] ELSE list[i + 1] BY <4>1, <2>7
      <4>4. x \in Range(list) BY <4>2, <4>3, <2>8 DEF Range
      <4>5. x # list[p] BY <4>2, <4>3, <3>1, <2>4
      <4> QED BY <4>4, <4>5, <2>4
    <3>4. ASSUME NEW x \in Range(list) \ {id} PROVE x \in Range(r)
      <4>1. PICK i \in 1..l : list[i] = x BY <2>8 DEF Range
      <4>2. i # p BY <4>1, <2>4
      <4>3. CASE i < p
        <5>1. i \in 1..(l - 1) /\ r[i] = x BY <4>1, <4>3, <2>4, <2>7
        <5> QED BY <5>1, <2>8 DEF Range
      <4>4. CASE i > p
        <5>1. i - 1 \in 1..(l - 1) /\ i - 1 + 1 = i /\ ~ (i - 1 < p) BY <4>1, <4>4, <2>4
        <5>2. r[i - 1] = x BY <4>1, <5>1, <2>7
        <5> QED BY <5>1, <5>2, <2>8 DEF Range
      <4> QED BY <4>2, <4>3, <4>4, <2>4
    <3> QED BY <3>2, <3>3, <3>4
  <2>10. r \in Seq(S) BY <2>7
  <2> QED BY <2>9, <2>10 DEF r
<1> QED BY <1>1, <1>2

\* A finite set as a sequence, of each member once.
LEMMA Listed ==
    ASSUME NEW S, IsFiniteSet(S)
    PROVE  /\ SetToSeq(S) \in Seq(S) /\ OneOfEach(SetToSeq(S)) /\ Range(SetToSeq(S)) = S
           /\ Len(SetToSeq(S)) = Cardinality(S)
<1> DEFINE n == Cardinality(S)
<1>1. n \in Nat /\ ExistsBijection(1..n, S) BY FS_CardinalityType
<1>2. \E f \in [1..n -> S] : IsInjective(f)
  <2> HIDE DEF n
  <2> QED BY <1>1 DEF ExistsBijection, Bijection, Injection
<1> DEFINE f == SetToSeq(S)
<1>3. f \in [1..n -> S] /\ IsInjective(f)
  <2> HIDE DEF n
  <2> QED BY <1>2 DEF SetToSeq, n
<1> HIDE DEF f, n
<1>4. f \in Seq(S) /\ Len(f) = n /\ DOMAIN f = 1..n BY <1>1, <1>3
<1>5. Range(f) = S
  <2>1. f \in Injection(1..n, S) BY <1>3 DEF Injection
  <2>2. Cardinality(1..n) = Cardinality(S) /\ IsFiniteSet(1..n) BY <1>1, FS_Interval DEF n
  <2>3. f \in Surjection(1..n, S) BY <2>1, <2>2, FS_Injection
  <2> QED BY <2>3, <1>3 DEF Surjection, Range
<1>6. OneOfEach(f) BY <1>3 DEF OneOfEach, IsInjective
<1> QED BY <1>4, <1>5, <1>6 DEF f, n

LEMMA SizeOfList ==
    ASSUME NEW S, NEW list \in Seq(S), OneOfEach(list)
    PROVE  Len(list) = Cardinality(Range(list)) /\ Len(list) \in Nat
<1> DEFINE n == Len(list)
<1>1. n \in Nat /\ DOMAIN list = 1..n OBVIOUS
<1>2. list \in Bijection(1..n, Range(list))
  BY <1>1 DEF OneOfEach, Bijection, Injection, Surjection, IsInjective, Range
<1>3. IsFiniteSet(1..n) /\ Cardinality(1..n) = n BY <1>1, FS_Interval
<1>4. ExistsBijection(1..n, Range(list)) BY <1>2 DEF ExistsBijection
<1>5. Cardinality(Range(list)) = n
  <2> HIDE DEF n
  <2> QED BY <1>3, <1>4, FS_Bijection
<1> QED BY <1>1, <1>5

-----------------------------------------------------------------------------
LEMMA Flattened ==
    ASSUME NEW T, NEW seqs \in Seq(Seq(T))
    PROVE  FlattenSeq(seqs) \in Seq(T)
<1> DEFINE n == Len(seqs)
           P(g) == g = [i \in 1..n |-> IF i = 1 THEN seqs[i] ELSE g[i - 1] \o seqs[i]]
           flatten == CHOOSE g : P(g)
<1>1. n \in Nat /\ seqs \in [1..n -> Seq(T)] OBVIOUS
<1>2. CASE n = 0
  <2>1. seqs = <<>> BY <1>2
  <2>2. seqs \in Seq(T) BY <2>1
  <2> QED BY <1>2, <2>2 DEF FlattenSeq
<1>3. CASE n # 0
  <2>1. FlattenSeq(seqs) = flatten[n] BY <1>3 DEF FlattenSeq
  <2> HIDE DEF n
  <2> DEFINE Made(m, g) == \A i \in 1..m : g[i] = IF i = 1 THEN seqs[i] ELSE g[i - 1] \o seqs[i]
             M == {m \in 0..n : \E g \in [1..m -> Seq(T)] : Made(m, g)}
  <2>2. 0 \in M
    <3>1. 0 \in 0..n BY <1>1
    <3> DEFINE g == [i \in 1..0 |-> <<>>]
    <3>2. g \in [1..0 -> Seq(T)] /\ Made(0, g) OBVIOUS
    <3> HIDE DEF g, Made
    <3> QED BY <3>1, <3>2
  <2>3. ASSUME NEW m \in 0..(n - 1), m \in M PROVE m + 1 \in M
    <3>1. PICK g \in [1..m -> Seq(T)] : Made(m, g) BY <2>3
    <3>2. m \in Nat /\ m + 1 \in 0..n /\ m + 1 \in 1..n /\ m + 1 \in 1..(m + 1) /\ m + 1 - 1 = m
      BY <1>1
    <3> DEFINE last == IF m + 1 = 1 THEN seqs[m + 1] ELSE g[m] \o seqs[m + 1]
               h == [i \in 1..(m + 1) |-> IF i = m + 1 THEN last ELSE g[i]]
    <3>3. last \in Seq(T)
      <4>1. seqs[m + 1] \in Seq(T) BY <1>1, <3>2
      <4>2. CASE m = 0 BY <4>1, <4>2
      <4>3. CASE m # 0
        <5>1. m \in 1..m BY <3>2, <4>3
        <5>2. g[m] \in Seq(T) BY <5>1
        <5> QED BY <4>1, <4>3, <5>2, <3>2, ConcatProperties
      <4> QED BY <4>2, <4>3
    <3> HIDE DEF last
    <3>4. h \in [1..(m + 1) -> Seq(T)]
      <4> SUFFICES ASSUME NEW i \in 1..(m + 1) PROVE (IF i = m + 1 THEN last ELSE g[i]) \in Seq(T) OBVIOUS
      <4>1. CASE i = m + 1 BY <4>1, <3>3
      <4>2. CASE i # m + 1
        <5>1. i \in 1..m BY <4>2, <3>2
        <5> QED BY <5>1, <4>2
      <4> QED BY <4>1, <4>2
    <3>5. Made(m + 1, h)
      <4> SUFFICES ASSUME NEW i \in 1..(m + 1)
                   PROVE  h[i] = IF i = 1 THEN seqs[i] ELSE h[i - 1] \o seqs[i]
        OBVIOUS
      <4>1. CASE i = m + 1
        <5>1. h[i] = last BY <4>1
        <5>2. CASE i = 1 BY <5>1, <5>2, <4>1 DEF last
        <5>3. CASE i # 1
          <6>1. m \in 1..(m + 1) /\ m # m + 1 /\ i - 1 = m BY <3>2, <4>1, <5>3
          <6>2. h[i - 1] = g[m] BY <6>1
          <6>3. last = g[m] \o seqs[i] BY <4>1, <5>3 DEF last
          <6> HIDE DEF h
          <6> QED BY <5>1, <5>3, <6>2, <6>3
        <5> QED BY <5>2, <5>3
      <4>2. CASE i # m + 1
        <5>1. i \in 1..m BY <4>2, <3>2
        <5>2. h[i] = g[i] BY <4>2
        <5>3. g[i] = IF i = 1 THEN seqs[i] ELSE g[i - 1] \o seqs[i] BY <3>1, <5>1
        <5>4. i # 1 => h[i - 1] = g[i - 1]
          <6> SUFFICES ASSUME i # 1 PROVE h[i - 1] = g[i - 1] OBVIOUS
          <6>1. i - 1 \in 1..(m + 1) /\ i - 1 # m + 1 BY <5>1, <3>2
          <6> QED BY <6>1
        <5> HIDE DEF h
        <5> QED BY <5>2, <5>3, <5>4
      <4> QED BY <4>1, <4>2
    <3> HIDE DEF h, Made
    <3> QED BY <3>2, <3>4, <3>5
  <2>4. n \in M
    <3> HIDE DEF M
    <3>1. \A k \in 0..n : k \in M BY <1>1, <2>2, <2>3, UpTo
    <3> QED BY <3>1, <1>1
  <2>5. PICK g \in [1..n -> Seq(T)] : Made(n, g) BY <2>4
  <2>6. P(g)
    <3>1. g = [i \in 1..n |-> g[i]] OBVIOUS
    <3> QED BY <3>1, <2>5
  <2>7. P(flatten)
    <3> HIDE DEF P
    <3> QED BY <2>6
  <2> HIDE DEF flatten
  <2>8. \A i \in 1..n : flatten[i] = IF i = 1 THEN seqs[i] ELSE flatten[i - 1] \o seqs[i] BY <2>7
  <2> DEFINE K == {k \in 0..n : k # 0 => flatten[k] \in Seq(T)}
  <2>9. 0 \in K BY <1>1
  <2>10. ASSUME NEW k \in 0..(n - 1), k \in K PROVE k + 1 \in K
    <3>1. k + 1 \in 1..n /\ k + 1 \in 0..n /\ k + 1 - 1 = k /\ (k + 1 = 1 <=> k = 0) BY <1>1
    <3>2. seqs[k + 1] \in Seq(T) BY <3>1, <1>1
    <3>3. flatten[k + 1] = IF k = 0 THEN seqs[k + 1] ELSE flatten[k] \o seqs[k + 1] BY <3>1, <2>8
    <3>4. flatten[k + 1] \in Seq(T)
      <4>1. CASE k = 0 BY <4>1, <3>2, <3>3
      <4>2. CASE k # 0
        <5>1. flatten[k] \in Seq(T) BY <4>2, <2>10
        <5> QED BY <5>1, <4>2, <3>2, <3>3, ConcatProperties
      <4> QED BY <4>1, <4>2
    <3> QED BY <3>1, <3>4
  <2>11. n \in K
    <3> HIDE DEF K
    <3>1. \A k \in 0..n : k \in K BY <1>1, <2>9, <2>10, UpTo
    <3> QED BY <3>1, <1>1
  <2> QED BY <2>1, <2>11, <1>3
<1> QED BY <1>2, <1>3
===============================================================================
