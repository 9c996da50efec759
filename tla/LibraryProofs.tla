--------------------------- MODULE LibraryProofs ---------------------------
(***************************************************************************)
(* Proofs about the stateless packages, for well-formed tasks of any kind:  *)
(* UriCalls, for any templates and values, and HttpRequests, for any key    *)
(* sets, claims, tables, scopes, clocks and batches of any length.          *)
(*                                                                         *)
(* The functions that walk over a text or collect a batch are recursive.    *)
(* That they exist, and what their values are, is proved by least           *)
(* counterexample: a set of numbers that is not empty has a least element,  *)
(* and a least number for which the claim fails cannot exist.  Counting and *)
(* Growing put that as induction over a set of numbers or of sequences.     *)
(***************************************************************************)
EXTENDS UriCalls, HttpRequests, ProxyCalls, WellFoundedInduction, SequenceTheorems, FiniteSetTheorems, TLAPS

-----------------------------------------------------------------------------
(* Natural numbers, and FlattenSeq.                                         *)

\* A set of natural numbers that is not empty has a least element.
LEMMA Least ==
  ASSUME NEW T, T \subseteq Nat, T # {}
  PROVE  \E n \in T : \A m \in T : n <= m
<1>1. \E n \in T : \A m \in T : ~(m < n)
  <2>1. IsWellFoundedOn(OpToRel(<, Nat), Nat)
    BY NatLessThanWellFounded
  <2>2. PICK n \in T : \A m \in T : ~(<<m, n>> \in OpToRel(<, Nat))
    BY <2>1, WFMin, Zenon
  <2> QED
    BY <2>2 DEF OpToRel
<1> QED
  BY <1>1

\* A set of natural numbers that is bounded and not empty has a greatest element.
LEMMA Greatest ==
  ASSUME NEW T, NEW n \in Nat, T \subseteq 0 .. n, T # {}
  PROVE  \E k \in T : \A m \in T : m <= k
<1> DEFINE D == {n - k : k \in T}
<1>1. D \subseteq Nat /\ D # {}
  <2>1. \A k \in T : k \in Int /\ 0 <= k /\ k <= n
    OBVIOUS
  <2>2. \A k \in T : n - k \in Nat
    BY <2>1
  <2>3. PICK k \in T : TRUE
    OBVIOUS
  <2>4. n - k \in D
    OBVIOUS
  <2> QED
    BY <2>2, <2>4
<1>2. PICK d \in D : \A e \in D : d <= e
  <2> HIDE DEF D
  <2> QED
    BY <1>1, Least
<1>3. PICK k \in T : d = n - k
  OBVIOUS
<1>4. ASSUME NEW m \in T PROVE m <= k
  <2>1. n - m \in D
    OBVIOUS
  <2> QED
    BY <2>1, <1>2, <1>3
<1> QED
  BY <1>4

\* Induction, the claim given as the set of the numbers it holds for.
LEMMA Counting ==
  ASSUME NEW T, 0 \in T, \A n \in Nat : n \in T => n + 1 \in T
  PROVE  Nat \subseteq T
<1> DEFINE Bad == Nat \ T
<1>1. ASSUME Bad # {} PROVE FALSE
  <2>1. PICK n \in Bad : \A m \in Bad : n <= m
    <3>1. Bad \subseteq Nat
      OBVIOUS
    <3> HIDE DEF Bad
    <3> QED
      BY <1>1, <3>1, Least
  <2>2. n # 0 /\ n - 1 \in Nat /\ n - 1 \notin Bad
    BY <2>1
  <2> QED
    BY <2>1, <2>2
<1> QED
  BY <1>1

\* Induction over the sequences of a set, by their last element.
LEMMA Growing ==
  ASSUME NEW S, NEW T, <<>> \in T, \A s \in Seq(S), x \in S : s \in T => Append(s, x) \in T
  PROVE  Seq(S) \subseteq T
<1> DEFINE L == {n \in Nat : \A s \in Seq(S) : Len(s) = n => s \in T}
<1>1. 0 \in L
  <2>1. \A s \in Seq(S) : Len(s) = 0 => s = <<>>
    BY EmptySeq
  <2> QED
    BY <2>1
<1>2. ASSUME NEW n \in Nat, n \in L PROVE n + 1 \in L
  <2>1. ASSUME NEW s \in Seq(S), Len(s) = n + 1 PROVE s \in T
    <3>1. s # <<>>
      BY <2>1, EmptySeq
    <3>2. PICK r \in Seq(S), x \in S : s = Append(r, x)
      BY <3>1, SequenceEmptyOrAppend
    <3>3. Len(r) = n
      BY <2>1, <3>2, AppendProperties, LenProperties
    <3> QED
      BY <1>2, <3>2, <3>3
  <2> QED
    BY <2>1
<1>3. Nat \subseteq L
  <2> HIDE DEF L
  <2> QED
    BY <1>1, <1>2, Counting
<1>4. ASSUME NEW s \in Seq(S) PROVE s \in T
  <2>1. Len(s) \in Nat
    BY LenProperties
  <2> QED
    BY <1>3, <2>1
<1> QED
  BY <1>4

-----------------------------------------------------------------------------
\* The turns of FlattenSeq: f[i] is what the first i sequences make.
Turns(ss, n, f) ==
  f = [i \in 1 .. n |-> IF i = 1 THEN ss[i] ELSE f[i - 1] \o ss[i]]

LEMMA TurnsExist ==
  ASSUME NEW ss, NEW n \in Nat
  PROVE  \E f : Turns(ss, n, f)
<1> DEFINE T == {k \in Nat : \E f : Turns(ss, k, f)}
<1>1. 0 \in T
  <2> DEFINE f == [i \in 1 .. 0 |-> <<>>]
  <2>1. f = [i \in 1 .. 0 |-> IF i = 1 THEN ss[i] ELSE f[i - 1] \o ss[i]]
    OBVIOUS
  <2> QED
    BY <2>1 DEF Turns
<1>2. ASSUME NEW k \in Nat, k \in T PROVE k + 1 \in T
  <2>1. PICK f : Turns(ss, k, f)
    BY <1>2
  <2> DEFINE g == [i \in 1 .. (k + 1) |-> IF i = k + 1 THEN IF i = 1 THEN ss[i] ELSE f[k] \o ss[i]
                                        ELSE f[i]]
  <2>2. g = [i \in 1 .. (k + 1) |-> IF i = 1 THEN ss[i] ELSE g[i - 1] \o ss[i]]
    <3>1. ASSUME NEW i \in 1 .. (k + 1) PROVE g[i] = IF i = 1 THEN ss[i] ELSE g[i - 1] \o ss[i]
      <4>1. CASE i = k + 1
        BY <4>1
      <4>2. CASE i # k + 1
        <5>1. i \in 1 .. k /\ g[i] = f[i]
          BY <4>2
        <5>2. f[i] = IF i = 1 THEN ss[i] ELSE f[i - 1] \o ss[i]
          BY <2>1, <5>1 DEF Turns
        <5>3. i # 1 => g[i - 1] = f[i - 1]
          BY <5>1
        <5> HIDE DEF g
        <5> QED
          BY <5>1, <5>2, <5>3
      <4> QED
        BY <4>1, <4>2
    <3> QED
      BY <3>1
  <2> HIDE DEF g
  <2>3. Turns(ss, k + 1, g)
    BY <2>2 DEF Turns
  <2> QED
    BY <2>3
<1>3. Nat \subseteq T
  <2> HIDE DEF T
  <2> QED
    BY <1>1, <1>2, Counting
<1> QED
  BY <1>3

\* FlattenSeq joins one sequence after another: f[i] is what the first i make.
Chain(S, ss, f) ==
  /\ f[0] = <<>>
  /\ \A i \in 0 .. Len(ss) : f[i] \in Seq(S)
  /\ \A i \in 1 .. Len(ss) : f[i] = f[i - 1] \o ss[i]
  /\ f[Len(ss)] = FlattenSeq(ss)

LEMMA FlattenChain ==
  ASSUME NEW S, NEW ss \in Seq(Seq(S))
  PROVE  \E f : Chain(S, ss, f)
<1>0. Len(ss) \in Nat /\ \A i \in 1 .. Len(ss) : ss[i] \in Seq(S)
  BY LenProperties, ElementOfSeq
<1>1. CASE Len(ss) = 0
  <2> DEFINE f == [i \in {0} |-> <<>>]
  <2>1. ss = <<>>
    BY <1>1, EmptySeq
  <2>2. f[0] = <<>> /\ <<>> \in Seq(S) /\ FlattenSeq(ss) = <<>>
    BY <1>1, <2>1 DEF FlattenSeq
  <2> HIDE DEF f
  <2>3. f[0] \in Seq(S) /\ f[0] = FlattenSeq(ss)
    BY <2>2
  <2>4. \A i \in 0 .. Len(ss) : f[i] \in Seq(S)
    BY <1>1, <2>3
  <2>5. \A i \in 1 .. Len(ss) : f[i] = f[i - 1] \o ss[i]
    BY <1>1
  <2>6. f[Len(ss)] = FlattenSeq(ss)
    BY <1>1, <2>3
  <2> QED
    BY <2>2, <2>4, <2>5, <2>6 DEF Chain
<1>2. CASE Len(ss) # 0
  <2> DEFINE n == Len(ss)
             flatten == CHOOSE f : Turns(ss, n, f)
             g == [i \in 0 .. n |-> IF i = 0 THEN <<>> ELSE flatten[i]]
  <2>1. Turns(ss, n, flatten)
    BY <1>0, TurnsExist
  <2>2. FlattenSeq(ss) = flatten[n]
    BY <1>2 DEF FlattenSeq, Turns
  <2> HIDE DEF flatten
  <2>3. \A i \in 1 .. n : flatten[i] = IF i = 1 THEN ss[i] ELSE flatten[i - 1] \o ss[i]
    BY <2>1 DEF Turns
  <2>4. g[0] = <<>> /\ g[n] = FlattenSeq(ss) /\ \A i \in 1 .. n : g[i] = flatten[i]
    BY <1>0, <1>2, <2>2
  <2>5. ASSUME NEW i \in 1 .. n PROVE g[i] = g[i - 1] \o ss[i]
    <3>1. CASE i = 1
      <4>1. g[i] = ss[i] /\ g[i - 1] = <<>>
        BY <2>3, <2>4, <3>1
      <4>2. <<>> \o ss[i] = ss[i]
        BY <1>0, ConcatEmptySeq
      <4> QED
        BY <4>1, <4>2
    <3>2. CASE i # 1
      <4>1. i - 1 \in 1 .. n
        BY <3>2, <1>0
      <4> QED
        BY <2>3, <2>4, <3>2, <4>1
    <3> QED
      BY <3>1, <3>2
  <2> HIDE DEF g
  <2> DEFINE T == {i \in Nat : i <= n => g[i] \in Seq(S)}
  <2>6. 0 \in T
    BY <2>4, EmptySeq
  <2>7. ASSUME NEW i \in Nat, i \in T PROVE i + 1 \in T
    <3>1. ASSUME i + 1 <= n PROVE g[i + 1] \in Seq(S)
      <4>1. i + 1 \in 1 .. n /\ g[i] \in Seq(S) /\ ss[i + 1] \in Seq(S) /\ (i + 1) - 1 = i
        BY <1>0, <2>7, <3>1
      <4>2. g[i + 1] = g[i] \o ss[i + 1]
        BY <2>5, <4>1
      <4>3. g[i] \o ss[i + 1] \in Seq(S)
        BY <4>1, ConcatProperties
      <4> QED
        BY <4>2, <4>3
    <3> QED
      BY <3>1
  <2>8. Nat \subseteq T
    <3> HIDE DEF T
    <3> QED
      BY <2>6, <2>7, Counting
  <2>9. \A i \in 0 .. n : g[i] \in Seq(S)
    BY <1>0, <2>8
  <2> QED
    BY <2>4, <2>5, <2>9 DEF Chain
<1> QED
  BY <1>1, <1>2

LEMMA FlattenTyped ==
  ASSUME NEW S, NEW ss \in Seq(Seq(S))
  PROVE  FlattenSeq(ss) \in Seq(S)
<1>1. PICK f : Chain(S, ss, f)
  BY FlattenChain
<1>2. Len(ss) \in 0 .. Len(ss)
  BY LenProperties
<1> QED
  BY <1>1, <1>2 DEF Chain

LEMMA FlattenEmpty == FlattenSeq(<<>>) = <<>>
BY DEF FlattenSeq

LEMMA FlattenSnoc ==
  ASSUME NEW S, NEW ss \in Seq(Seq(S)), NEW x \in Seq(S)
  PROVE  FlattenSeq(Append(ss, x)) = FlattenSeq(ss) \o x
<1> DEFINE tt == Append(ss, x)
           n == Len(ss)
<1>1. /\ n \in Nat /\ tt \in Seq(Seq(S)) /\ Len(tt) = n + 1 /\ tt[n + 1] = x
      /\ \A i \in 1 .. n : tt[i] = ss[i]
  BY AppendProperties, LenProperties
<1> HIDE DEF tt
<1>2. PICK f : Chain(S, ss, f)
  BY FlattenChain
<1>3. PICK g : Chain(S, tt, g)
  BY <1>1, FlattenChain
<1> DEFINE T == {i \in Nat : i <= n => g[i] = f[i]}
<1>4. 0 \in T
  BY <1>2, <1>3 DEF Chain
<1>5. ASSUME NEW i \in Nat, i \in T PROVE i + 1 \in T
  <2>1. ASSUME i + 1 <= n PROVE g[i + 1] = f[i + 1]
    <3>0. g[i] = f[i]
      BY <1>1, <1>5, <2>1
    <3> HIDE DEF T
    <3>1. i + 1 \in 1 .. n /\ i + 1 \in 1 .. (n + 1) /\ (i + 1) - 1 = i
      BY <1>1, <2>1
    <3>2. f[i + 1] = f[i] \o ss[i + 1]
      BY <1>2, <3>1 DEF Chain
    <3>3. g[i + 1] = g[i] \o tt[i + 1]
      BY <1>1, <1>3, <3>1 DEF Chain
    <3> QED
      BY <1>1, <3>0, <3>1, <3>2, <3>3
  <2> QED
    BY <2>1
<1>6. Nat \subseteq T
  <2> HIDE DEF T
  <2> QED
    BY <1>4, <1>5, Counting
<1>7. g[n] = f[n]
  BY <1>1, <1>6
<1>8. g[n + 1] = g[n] \o x
  <2>1. n + 1 \in 1 .. Len(tt) /\ (n + 1) - 1 = n
    BY <1>1
  <2> QED
    BY <1>1, <1>3, <2>1 DEF Chain
<1>9. g[n + 1] = FlattenSeq(tt) /\ f[n] = FlattenSeq(ss)
  BY <1>1, <1>2, <1>3 DEF Chain
<1> QED
  BY <1>7, <1>8, <1>9 DEF tt

LEMMA FlattenOne ==
  ASSUME NEW S, NEW x \in Seq(S)
  PROVE  FlattenSeq(<<x>>) = x
<1>1. <<>> \in Seq(Seq(S)) /\ Append(<<>>, x) = <<x>>
  OBVIOUS
<1>2. FlattenSeq(Append(<<>>, x)) = FlattenSeq(<<>>) \o x
  BY <1>1, FlattenSnoc
<1>3. <<>> \o x = x
  BY ConcatEmptySeq
<1> QED
  BY <1>1, <1>2, <1>3, FlattenEmpty

LEMMA FlattenConcat ==
  ASSUME NEW S, NEW ss \in Seq(Seq(S)), NEW tt \in Seq(Seq(S))
  PROVE  FlattenSeq(ss \o tt) = FlattenSeq(ss) \o FlattenSeq(tt)
<1> DEFINE T == {uu \in Seq(Seq(S)) : FlattenSeq(ss \o uu) = FlattenSeq(ss) \o FlattenSeq(uu)}
<1>1. <<>> \in T
  <2>1. <<>> \in Seq(Seq(S)) /\ ss \o <<>> = ss
    BY ConcatEmptySeq
  <2>2. FlattenSeq(ss) \o <<>> = FlattenSeq(ss)
    BY FlattenTyped, ConcatEmptySeq
  <2> QED
    BY <2>1, <2>2, FlattenEmpty
<1>2. ASSUME NEW uu \in Seq(Seq(S)), NEW x \in Seq(S), uu \in T
      PROVE  Append(uu, x) \in T
  <2>1. Append(uu, x) \in Seq(Seq(S)) /\ ss \o uu \in Seq(Seq(S))
    BY AppendProperties, ConcatProperties
  <2>2. ss \o Append(uu, x) = Append(ss \o uu, x)
    <3>1. Append(uu, x) = uu \o <<x>> /\ Append(ss \o uu, x) = (ss \o uu) \o <<x>>
      BY <2>1, AppendIsConcat
    <3>2. <<x>> \in Seq(Seq(S))
      OBVIOUS
    <3>3. (ss \o uu) \o <<x>> = ss \o (uu \o <<x>>)
      BY <3>2, ConcatAssociative, SMTT(60)
    <3> QED
      BY <3>1, <3>3
  <2>3. FlattenSeq(Append(ss \o uu, x)) = FlattenSeq(ss \o uu) \o x
    BY <2>1, FlattenSnoc
  <2>4. FlattenSeq(Append(uu, x)) = FlattenSeq(uu) \o x
    BY FlattenSnoc
  <2>5. FlattenSeq(ss \o uu) = FlattenSeq(ss) \o FlattenSeq(uu)
    BY <1>2
  <2>6. FlattenSeq(ss) \in Seq(S) /\ FlattenSeq(uu) \in Seq(S)
    BY FlattenTyped
  <2>7. (FlattenSeq(ss) \o FlattenSeq(uu)) \o x = FlattenSeq(ss) \o (FlattenSeq(uu) \o x)
    BY <2>6, ConcatAssociative, SMTT(60)
  <2> QED
    BY <2>1, <2>2, <2>3, <2>4, <2>5, <2>7
<1>3. Seq(Seq(S)) \subseteq T
  <2> HIDE DEF T
  <2> QED
    BY <1>1, <1>2, Growing
<1> QED
  BY <1>3

\* A sequence made element by element.
Mapped(B, s) == [i \in DOMAIN s |-> B[s[i]]]

LEMMA MappedIs ==
  ASSUME NEW S, NEW B, NEW s \in Seq(S)
  PROVE  /\ Len(Mapped(B, s)) = Len(s)
         /\ DOMAIN Mapped(B, s) = 1 .. Len(s)
         /\ \A i \in 1 .. Len(s) : Mapped(B, s)[i] = B[s[i]]
BY LenProperties DEF Mapped

LEMMA MappedTyped ==
  ASSUME NEW S, NEW R, NEW B, NEW s \in Seq(S), \A x \in S : B[x] \in R
  PROVE  Mapped(B, s) \in Seq(R)
<1>1. Len(s) \in Nat /\ DOMAIN s = 1 .. Len(s) /\ \A i \in 1 .. Len(s) : s[i] \in S
  BY LenProperties, ElementOfSeq
<1>2. \A i \in 1 .. Len(s) : B[s[i]] \in R
  BY <1>1
<1> QED
  BY <1>1, <1>2 DEF Mapped

LEMMA AppendIs ==
  ASSUME NEW S, NEW s \in Seq(S), NEW x \in S
  PROVE  Append(s, x) = [i \in 1 .. (Len(s) + 1) |-> IF i = Len(s) + 1 THEN x ELSE s[i]]
<1> DEFINE r == Append(s, x)
<1>1. /\ r \in Seq(S) /\ Len(r) = Len(s) + 1 /\ r[Len(s) + 1] = x
      /\ \A i \in 1 .. Len(s) : r[i] = s[i]
  BY AppendProperties
<1> HIDE DEF r
<1>2. Len(s) \in Nat /\ r \in [1 .. (Len(s) + 1) -> S]
  BY <1>1, LenProperties
<1>3. \A i \in 1 .. (Len(s) + 1) : r[i] = IF i = Len(s) + 1 THEN x ELSE s[i]
  BY <1>1, <1>2
<1>4. r = [i \in 1 .. (Len(s) + 1) |-> IF i = Len(s) + 1 THEN x ELSE s[i]]
  BY <1>2, <1>3
<1> QED
  BY <1>4 DEF r

LEMMA MappedSnoc ==
  ASSUME NEW S, NEW B, NEW s \in Seq(S), NEW x \in S
  PROVE  Mapped(B, Append(s, x)) = Append(Mapped(B, s), B[x])
<1> DEFINE R == {B[y] : y \in S}
<1>1. Len(s) \in Nat /\ DOMAIN s = 1 .. Len(s)
  BY LenProperties
<1>2. Append(s, x) = [i \in 1 .. (Len(s) + 1) |-> IF i = Len(s) + 1 THEN x ELSE s[i]]
  BY AppendIs
<1>3. Mapped(B, s) \in Seq(R) /\ B[x] \in R
  <2>1. \A y \in S : B[y] \in R
    OBVIOUS
  <2> HIDE DEF R
  <2> QED
    BY <2>1, MappedTyped
<1> HIDE DEF R
<1>4. Append(Mapped(B, s), B[x])
        = [i \in 1 .. (Len(s) + 1) |-> IF i = Len(s) + 1 THEN B[x] ELSE Mapped(B, s)[i]]
  <2>1. Len(Mapped(B, s)) = Len(s)
    BY MappedIs
  <2>2. Append(Mapped(B, s), B[x]) = [i \in 1 .. (Len(Mapped(B, s)) + 1) |->
          IF i = Len(Mapped(B, s)) + 1 THEN B[x] ELSE Mapped(B, s)[i]]
    BY <1>3, AppendIs
  <2> QED
    BY <2>1, <2>2
<1>5. Mapped(B, Append(s, x)) = [i \in 1 .. (Len(s) + 1) |-> B[IF i = Len(s) + 1 THEN x ELSE s[i]]]
  BY <1>1, <1>2 DEF Mapped
<1>6. \A i \in 1 .. Len(s) : Mapped(B, s)[i] = B[s[i]]
  BY MappedIs
<1> QED
  BY <1>1, <1>4, <1>5, <1>6

\* The characters of a text, one by one, make the text.
LEMMA FlattenSingles ==
  ASSUME NEW S, NEW s \in Seq(S)
  PROVE  FlattenSeq([i \in DOMAIN s |-> <<s[i]>>]) = s
<1> DEFINE B == [x \in S |-> <<x>>]
           T == {r \in Seq(S) : FlattenSeq(Mapped(B, r)) = r}
<1>0. \A x \in S : B[x] = <<x>> /\ B[x] \in Seq(S)
  OBVIOUS
<1> HIDE DEF B
<1>1. <<>> \in T
  <2>1. Mapped(B, <<>>) = <<>>
    BY DEF Mapped
  <2> QED
    BY <2>1, FlattenEmpty
<1>2. ASSUME NEW r \in Seq(S), NEW x \in S, r \in T PROVE Append(r, x) \in T
  <2>1. Mapped(B, r) \in Seq(Seq(S)) /\ B[x] = <<x>> /\ <<x>> \in Seq(S)
    <3>1. Mapped(B, r) \in Seq(Seq(S))
      BY <1>0, MappedTyped
    <3> QED
      BY <1>0, <3>1
  <2>2. Mapped(B, Append(r, x)) = Append(Mapped(B, r), <<x>>)
    BY <2>1, MappedSnoc
  <2>3. FlattenSeq(Mapped(B, r)) = r
    BY <1>2
  <2>4. FlattenSeq(Append(Mapped(B, r), <<x>>)) = FlattenSeq(Mapped(B, r)) \o <<x>>
    BY <2>1, FlattenSnoc
  <2>5. Append(r, x) = r \o <<x>> /\ Append(r, x) \in Seq(S)
    BY AppendIsConcat, AppendProperties
  <2> QED
    BY <2>2, <2>3, <2>4, <2>5
<1>3. Seq(S) \subseteq T
  <2> HIDE DEF T
  <2> QED
    BY <1>1, <1>2, Growing
<1>4. Mapped(B, s) = [i \in DOMAIN s |-> <<s[i]>>]
  <2>1. \A i \in DOMAIN s : s[i] \in S
    BY LenProperties, ElementOfSeq
  <2> QED
    BY <1>0, <2>1, LenProperties DEF Mapped
<1> QED
  BY <1>3, <1>4

-----------------------------------------------------------------------------
(* Where the parts of a text are.                                           *)

\* In the text s that the texts ss make, ss[i] begins at c[i].
Laid(ss, s, c) ==
  /\ c[1] = 1 /\ c[Len(ss) + 1] = Len(s) + 1
  /\ \A i \in 1 .. (Len(ss) + 1) : c[i] \in Nat /\ 1 <= c[i] /\ c[i] <= Len(s) + 1
  /\ \A i \in 1 .. Len(ss) : c[i + 1] = c[i] + Len(ss[i])
  /\ \A i \in 1 .. Len(ss) : \A k \in 1 .. Len(ss[i]) : s[c[i] + k - 1] = ss[i][k]

LEMMA FlattenLaid ==
  ASSUME NEW S, NEW ss \in Seq(Seq(S))
  PROVE  \E c : Laid(ss, FlattenSeq(ss), c)
<1> DEFINE T == {uu \in Seq(Seq(S)) : \E c : Laid(uu, FlattenSeq(uu), c)}
<1>1. <<>> \in T
  <2> DEFINE c == [i \in {1} |-> 1]
  <2>1. Len(<<>>) = 0 /\ <<>> \in Seq(Seq(S))
    OBVIOUS
  <2>2. c[1] = 1
    OBVIOUS
  <2> HIDE DEF c
  <2>3. Laid(<<>>, <<>>, c)
    BY <2>1, <2>2 DEF Laid
  <2> QED
    BY <2>1, <2>3, FlattenEmpty
<1>2. ASSUME NEW uu \in Seq(Seq(S)), NEW x \in Seq(S), uu \in T
      PROVE  Append(uu, x) \in T
  <2> DEFINE n == Len(uu)
             vv == Append(uu, x)
             f == FlattenSeq(uu)
             g == FlattenSeq(vv)
  <2>1. PICK c : Laid(uu, f, c)
    BY <1>2
  <2>2. /\ n \in Nat /\ vv \in Seq(Seq(S)) /\ Len(vv) = n + 1 /\ vv[n + 1] = x
        /\ \A i \in 1 .. n : vv[i] = uu[i]
    BY AppendProperties, LenProperties
  <2>3. f \in Seq(S) /\ g = f \o x
    BY FlattenTyped, FlattenSnoc
  <2>4. /\ Len(f) \in Nat /\ Len(x) \in Nat /\ Len(g) = Len(f) + Len(x)
        /\ \A i \in 1 .. Len(f) : g[i] = f[i]
        /\ \A i \in 1 .. Len(x) : g[Len(f) + i] = x[i]
    <3> HIDE DEF f, g
    <3>1. Len(f) \in Nat /\ Len(x) \in Nat
      BY <2>3, LenProperties
    <3>2. /\ Len(f \o x) = Len(f) + Len(x)
          /\ \A i \in 1 .. Len(f) + Len(x) : (f \o x)[i] = IF i <= Len(f) THEN f[i] ELSE x[i - Len(f)]
      BY <2>3, ConcatProperties
    <3> QED
      BY <2>3, <3>1, <3>2
  <2> HIDE DEF vv, f, g, n
  <2>5. \A i \in 1 .. n : Len(uu[i]) \in Nat /\ Len(vv[i]) = Len(uu[i])
    <3>1. \A i \in 1 .. n : uu[i] \in Seq(S)
      BY ElementOfSeq DEF n
    <3> QED
      BY <3>1, <2>2, LenProperties
  <2>6. /\ c[1] = 1 /\ c[n + 1] = Len(f) + 1
        /\ \A i \in 1 .. (n + 1) : c[i] \in Nat /\ 1 <= c[i] /\ c[i] <= Len(f) + 1
        /\ \A i \in 1 .. n : c[i + 1] = c[i] + Len(uu[i])
        /\ \A i \in 1 .. n : \A k \in 1 .. Len(uu[i]) : f[c[i] + k - 1] = uu[i][k]
    BY <2>1 DEF Laid, n
  <2> DEFINE d == [i \in 1 .. (n + 2) |-> IF i = n + 2 THEN Len(g) + 1 ELSE c[i]]
  <2>7. d[n + 2] = Len(g) + 1 /\ \A i \in 1 .. (n + 1) : d[i] = c[i]
    BY <2>2
  <2> HIDE DEF d
  <2>8. d[1] = 1 /\ d[Len(vv) + 1] = Len(g) + 1
    BY <2>2, <2>6, <2>7
  <2>9. \A i \in 1 .. (Len(vv) + 1) : d[i] \in Nat /\ 1 <= d[i] /\ d[i] <= Len(g) + 1
    <3>1. ASSUME NEW i \in 1 .. (n + 2) PROVE d[i] \in Nat /\ 1 <= d[i] /\ d[i] <= Len(g) + 1
      <4>1. CASE i = n + 2
        BY <4>1, <2>4, <2>7
      <4>2. CASE i # n + 2
        <5>1. i \in 1 .. (n + 1)
          BY <4>2, <2>2, SMTT(60)
        <5>2. d[i] = c[i] /\ c[i] \in Nat /\ 1 <= c[i] /\ c[i] <= Len(f) + 1
          BY <5>1, <2>6, <2>7
        <5> QED
          BY <5>2, <2>4
      <4> QED
        BY <4>1, <4>2
    <3>2. Len(vv) + 1 = n + 2
      BY <2>2
    <3> QED
      BY <3>1, <3>2
  <2>10. \A i \in 1 .. Len(vv) : d[i + 1] = d[i] + Len(vv[i])
    <3>1. ASSUME NEW i \in 1 .. (n + 1) PROVE d[i + 1] = d[i] + Len(vv[i])
      <4>1. CASE i = n + 1
        <5>1. i + 1 = n + 2 /\ i \in 1 .. (n + 1)
          BY <4>1, <2>2
        <5>2. d[i + 1] = Len(g) + 1 /\ d[i] = Len(f) + 1 /\ vv[i] = x
          BY <4>1, <5>1, <2>2, <2>6, <2>7
        <5> QED
          BY <5>2, <2>4
      <4>2. CASE i # n + 1
        <5>1. i \in 1 .. n /\ i + 1 \in 1 .. (n + 1) /\ i \in 1 .. (n + 1)
          BY <4>2, <2>2
        <5> QED
          BY <5>1, <2>5, <2>6, <2>7
      <4> QED
        BY <4>1, <4>2
    <3> QED
      BY <2>2, <3>1
  <2>11. \A i \in 1 .. Len(vv) : \A k \in 1 .. Len(vv[i]) : g[d[i] + k - 1] = vv[i][k]
    <3>1. ASSUME NEW i \in 1 .. (n + 1), NEW k \in 1 .. Len(vv[i]) PROVE g[d[i] + k - 1] = vv[i][k]
      <4>1. CASE i = n + 1
        <5>1. d[i] = Len(f) + 1 /\ vv[i] = x /\ k \in 1 .. Len(x)
          BY <4>1, <2>2, <2>6, <2>7
        <5>2. d[i] + k - 1 = Len(f) + k
          BY <5>1, <2>4
        <5> QED
          BY <5>1, <5>2, <2>4
      <4>2. CASE i # n + 1
        <5>1. i \in 1 .. n /\ i + 1 \in 1 .. (n + 1) /\ i \in 1 .. (n + 1)
          BY <4>2, <2>2
        <5>2. d[i] = c[i] /\ vv[i] = uu[i] /\ k \in 1 .. Len(uu[i])
          BY <5>1, <2>2, <2>7
        <5>3. c[i] \in Nat /\ 1 <= c[i] /\ c[i] + Len(uu[i]) <= Len(f) + 1 /\ Len(uu[i]) \in Nat
          BY <5>1, <2>5, <2>6
        <5>4. c[i] + k - 1 \in 1 .. Len(f)
          BY <5>2, <5>3, <2>4, SMTT(60)
        <5>5. f[c[i] + k - 1] = uu[i][k]
          BY <5>1, <5>2, <2>6
        <5> QED
          BY <5>2, <5>4, <5>5, <2>4
      <4> QED
        BY <4>1, <4>2
    <3> QED
      BY <2>2, <3>1
  <2>12. Laid(vv, g, d)
    BY <2>8, <2>9, <2>10, <2>11 DEF Laid
  <2> QED
    BY <2>2, <2>12 DEF g, vv
<1>3. Seq(Seq(S)) \subseteq T
  <2> HIDE DEF T
  <2> QED
    BY <1>1, <1>2, Growing
<1> QED
  BY <1>3

LEMMA SubSeqIs ==
  ASSUME NEW S, NEW s \in Seq(S), NEW m \in Nat, NEW n \in Nat, 1 <= m, m <= n + 1, n <= Len(s)
  PROVE  /\ SubSeq(s, m, n) \in Seq(S)
         /\ Len(SubSeq(s, m, n)) = n + 1 - m
         /\ \A k \in 1 .. (n + 1 - m) : SubSeq(s, m, n)[k] = s[m + k - 1]
<1>1. Len(s) \in Nat /\ DOMAIN s = 1 .. Len(s)
  BY LenProperties
<1>2. ASSUME NEW k \in m .. n PROVE s[k] \in S
  <2>1. k \in 1 .. Len(s)
    BY <1>1
  <2> QED
    BY <2>1, ElementOfSeq
<1>3. m \in Int /\ n \in Int
  OBVIOUS
<1>4. /\ SubSeq(s, m, n) \in Seq(S)
      /\ Len(SubSeq(s, m, n)) = IF m <= n THEN n - m + 1 ELSE 0
      /\ \A k \in 1 .. n - m + 1 : SubSeq(s, m, n)[k] = s[m + k - 1]
  <2>1. \A k \in m .. n : s[k] \in S
    BY <1>2
  <2> QED
    BY <1>3, <2>1, SubSeqProperties
<1> QED
  BY <1>4

LEMMA PartBounds ==
  ASSUME NEW a \in Nat, NEW b \in Nat, NEW l \in Nat, 1 <= a, a <= b, b <= l + 1
  PROVE  b - 1 \in Nat /\ a <= (b - 1) + 1 /\ b - 1 <= l /\ (b - 1) + 1 - a = b - a
OBVIOUS

LEMMA LaidPart ==
  ASSUME NEW S, NEW ss \in Seq(Seq(S)), NEW s \in Seq(S), NEW c, Laid(ss, s, c),
         NEW i \in 1 .. Len(ss)
  PROVE  SubSeq(s, c[i], c[i + 1] - 1) = ss[i]
<1> DEFINE r == SubSeq(s, c[i], c[i + 1] - 1)
<1>1. Len(ss) \in Nat /\ ss[i] \in Seq(S) /\ Len(ss[i]) \in Nat /\ Len(s) \in Nat
  BY LenProperties, ElementOfSeq
<1>2. /\ i \in 1 .. (Len(ss) + 1) /\ i + 1 \in 1 .. (Len(ss) + 1)
      /\ c[i] \in Nat /\ 1 <= c[i] /\ c[i + 1] \in Nat /\ c[i + 1] <= Len(s) + 1
      /\ c[i + 1] = c[i] + Len(ss[i])
      /\ \A k \in 1 .. Len(ss[i]) : s[c[i] + k - 1] = ss[i][k]
  BY <1>1 DEF Laid
<1>4. /\ r \in Seq(S) /\ Len(r) = c[i + 1] - c[i]
      /\ \A k \in 1 .. (c[i + 1] - c[i]) : r[k] = s[c[i] + k - 1]
  <2> DEFINE n == c[i + 1] - 1
             m == c[i]
  <2>0. c[i + 1] \in Nat /\ 1 <= c[i + 1] /\ c[i] <= c[i + 1]
    BY <1>1, <1>2
  <2>1. n \in Nat /\ m \in Nat /\ 1 <= m /\ m <= n + 1 /\ n <= Len(s) /\ n + 1 - m = c[i + 1] - c[i]
    <3>1. c[i] \in Nat /\ c[i + 1] \in Nat /\ Len(s) \in Nat /\ 1 <= c[i] /\ c[i] <= c[i + 1] /\ c[i + 1] <= Len(s) + 1
      BY <1>1, <1>2, <2>0
    <3> QED
      BY <3>1, PartBounds
  <2> HIDE DEF n, m
  <2>2. /\ SubSeq(s, m, n) \in Seq(S)
        /\ Len(SubSeq(s, m, n)) = n + 1 - m
        /\ \A k \in 1 .. (n + 1 - m) : SubSeq(s, m, n)[k] = s[m + k - 1]
    BY <2>1, SubSeqIs
  <2> QED
    BY <2>1, <2>2 DEF m, n
<1> HIDE DEF r
<1>5. Len(r) = Len(ss[i])
  BY <1>1, <1>2, <1>4, SMTT(60)
<1>6. \A k \in 1 .. Len(r) : r[k] = ss[i][k]
  BY <1>1, <1>2, <1>4, <1>5
<1>7. r = ss[i]
  BY <1>1, <1>4, <1>5, <1>6, SeqEqual
<1> QED
  BY <1>7 DEF r

-----------------------------------------------------------------------------
(* Percent-encoding and decoding.                                           *)

LEMMA Codes == \A c \in DOMAIN Code : \E a, b \in Hex : Code[c] = <<a, b>>
<1>1. ASSUME NEW c \in DOMAIN Code PROVE \E a, b \in Hex : Code[c] = <<a, b>>
  BY Zenon DEF Code, Reserved, Hex
<1> QED
  BY <1>1

\* The character of a code, digit by digit.
Decode(p, q) ==
  CASE p = "2" -> (CASE q = "0" -> " " [] q = "2" -> "b22" [] q = "3" -> "#" [] q = "5" -> "%" [] q = "6" -> "&"
                     [] q = "A" -> "*" [] q = "B" -> "+" [] q = "C" -> "," [] q = "F" -> "/")
    [] p = "3" -> (CASE q = "A" -> ":" [] q = "B" -> ";" [] q = "D" -> "=" [] q = "F" -> "?")
    [] p = "7" -> (CASE q = "B" -> "{" [] q = "D" -> "}")
    [] p = "F" -> (CASE q = "2" -> "bF2" [] q = "F" -> "bFF")

LEMMA CodesDiffer == \A c, d \in DOMAIN Code : Code[c] = Code[d] => c = d
<1>1. ASSUME NEW c \in DOMAIN Code PROVE Decode(Code[c][1], Code[c][2]) = c
  <2>1. c \in Reserved \/ c \in {"%", " ", "{", "}", "b22", "bF2", "bFF"}
    BY DEF Code
  <2>2. CASE c \in {":", "/", "?"}
    BY <2>2, Zenon DEF Code, Reserved, Decode
  <2>3. CASE c \in {"#", "&", "+"}
    BY <2>3, Zenon DEF Code, Reserved, Decode
  <2>4. CASE c \in {",", ";", "="}
    BY <2>4, Zenon DEF Code, Reserved, Decode
  <2>5. CASE c \in {"*", "%", " "}
    BY <2>5, Zenon DEF Code, Reserved, Decode
  <2>6. CASE c \in {"{", "}", "b22"}
    BY <2>6, Zenon DEF Code, Reserved, Decode
  <2>7. CASE c \in {"bF2", "bFF"}
    BY <2>7, Zenon DEF Code, Reserved, Decode
  <2> QED
    BY <2>1, <2>2, <2>3, <2>4, <2>5, <2>6, <2>7 DEF Reserved
<1> QED
  BY <1>1

\* A character is one that stands for itself or one that has a code.
LEMMA CharKinds ==
  /\ DOMAIN Code \subseteq Char /\ Unreserved \subseteq Char /\ Reserved \subseteq DOMAIN Code
  /\ Hex \subseteq Unreserved /\ "%" \in DOMAIN Code
  /\ \A c \in Char : c \in Unreserved \/ c \in DOMAIN Code
  /\ \A c \in DOMAIN Code : c \notin Unreserved
  /\ "%" \notin Unreserved /\ "%" \notin Reserved /\ \A c \in Reserved : c \notin Unreserved
BY DEF Char, Code, Unreserved, Reserved, Hex
-----------------------------------------------------------------------------
\* What the i-th character of s decodes to.
Inside(s, i) == \E k \in 1 .. (i - 1) : k >= i - 2 /\ s[k] = "%"
Meant(s, i) == CHOOSE c \in DOMAIN Code : Code[c] = <<s[i + 1], s[i + 2]>>
Yield(s, i) == IF Inside(s, i) THEN <<>> ELSE IF s[i] = "%" THEN <<Meant(s, i)>> ELSE <<s[i]>>
Yields(s) == [i \in DOMAIN s |-> Yield(s, i)]

Closed(s) == \A i \in DOMAIN s : s[i] = "%" => IsTriplet(s, i)

LEMMA DecodedIs == \A s : Decoded(s) = FlattenSeq(Yields(s))
BY DEF Decoded, Yields, Yield, Inside, Meant

\* The text e encodes the text s.
Coded == Unreserved \cup {"%", "/"}
Encodes(e, s) ==
  /\ e \in Seq(Coded) /\ s \in Seq(Char) /\ Closed(e)
  /\ Yields(e) \in Seq(Seq(Char)) /\ FlattenSeq(Yields(e)) = s

\* More characters do not change what a closed text decodes to.
LEMMA YieldsStay ==
  ASSUME NEW e \in Seq(Coded), Closed(e), NEW x, DOMAIN e \subseteq DOMAIN x,
         \A i \in DOMAIN e : x[i] = e[i]
  PROVE  \A i \in DOMAIN e : Yield(x, i) = Yield(e, i)
<1>1. Len(e) \in Nat /\ DOMAIN e = 1 .. Len(e)
  BY LenProperties
<1>2. ASSUME NEW i \in DOMAIN e PROVE Yield(x, i) = Yield(e, i)
  <2>1. Inside(x, i) = Inside(e, i)
    <3>1. \A k \in 1 .. (i - 1) : k \in DOMAIN e
      BY <1>1
    <3> QED
      BY <3>1 DEF Inside
  <2>2. x[i] = e[i]
    OBVIOUS
  <2>3. e[i] = "%" => Meant(x, i) = Meant(e, i)
    <3>1. e[i] = "%" => i + 1 \in DOMAIN e /\ i + 2 \in DOMAIN e
      BY <1>1 DEF Closed, IsTriplet
    <3> QED
      BY <3>1 DEF Meant
  <2> QED
    BY <2>1, <2>2, <2>3 DEF Yield
<1> QED
  BY <1>2

\* A character that is kept.
LEMMA EncodesKept ==
  ASSUME NEW e, NEW s, Encodes(e, s), NEW c \in Char, c \in Coded, c # "%"
  PROVE  Encodes(Append(e, c), Append(s, c))
<1> DEFINE n == Len(e)
           x == Append(e, c)
<1>1. e \in Seq(Coded) /\ s \in Seq(Char) /\ Closed(e) /\ Yields(e) \in Seq(Seq(Char))
      /\ FlattenSeq(Yields(e)) = s
  BY DEF Encodes
<1>2. /\ n \in Nat /\ DOMAIN e = 1 .. n /\ x \in Seq(Coded) /\ Len(x) = n + 1 /\ x[n + 1] = c
      /\ \A i \in 1 .. n : x[i] = e[i]
  BY <1>1, LenProperties, AppendProperties
<1>3. DOMAIN x = 1 .. (n + 1) /\ DOMAIN e \subseteq DOMAIN x
  BY <1>2, LenProperties
<1> HIDE DEF x, n
<1>4. Closed(x)
  <2>1. ASSUME NEW i \in 1 .. (n + 1), x[i] = "%" PROVE IsTriplet(x, i)
    <3>1. i \in 1 .. n
      BY <2>1, <1>2
    <3>2. IsTriplet(e, i)
      BY <1>1, <1>2, <2>1, <3>1 DEF Closed
    <3>3. i + 1 \in 1 .. n /\ i + 2 \in 1 .. n
      BY <1>2, <3>1, <3>2 DEF IsTriplet, n
    <3> QED
      BY <1>2, <2>1, <3>2, <3>3 DEF IsTriplet
  <2> QED
    BY <1>3, <2>1 DEF Closed
<1>5. \A i \in 1 .. n : Yield(x, i) = Yield(e, i)
  BY <1>1, <1>2, <1>3, YieldsStay
<1>6. Yield(x, n + 1) = <<c>>
  <2>1. ~Inside(x, n + 1)
    <3>1. ASSUME NEW k \in 1 .. n, k >= n - 1, x[k] = "%" PROVE FALSE
      <4>1. IsTriplet(e, k)
        BY <1>1, <1>2, <3>1 DEF Closed
      <4> QED
        BY <1>2, <3>1, <4>1 DEF IsTriplet, n
    <3> QED
      BY <1>2, <3>1 DEF Inside
  <2> QED
    BY <1>2, <2>1 DEF Yield
<1>7. Yields(x) = Append(Yields(e), <<c>>)
  <2>1. Len(Yields(e)) = n /\ \A i \in 1 .. n : Yields(e)[i] = Yield(e, i)
    BY <1>1, <1>2 DEF Yields
  <2>2. <<c>> \in Seq(Char)
    OBVIOUS
  <2>3. Append(Yields(e), <<c>>) = [i \in 1 .. (Len(Yields(e)) + 1) |->
          IF i = Len(Yields(e)) + 1 THEN <<c>> ELSE Yields(e)[i]]
    BY <1>1, <2>2, AppendIs
  <2>4. \A i \in 1 .. (n + 1) : Yield(x, i) = IF i = n + 1 THEN <<c>> ELSE Yields(e)[i]
    BY <1>2, <1>5, <1>6, <2>1
  <2> QED
    BY <1>3, <2>1, <2>3, <2>4 DEF Yields
<1>8. FlattenSeq(Yields(x)) = Append(s, c) /\ Yields(x) \in Seq(Seq(Char)) /\ Append(s, c) \in Seq(Char)
  <2>1. <<c>> \in Seq(Char)
    OBVIOUS
  <2>2. FlattenSeq(Append(Yields(e), <<c>>)) = s \o <<c>>
    BY <1>1, <2>1, FlattenSnoc
  <2>3. Append(s, c) = s \o <<c>> /\ Append(s, c) \in Seq(Char)
    BY <1>1, AppendIsConcat, AppendProperties
  <2>4. Append(Yields(e), <<c>>) \in Seq(Seq(Char))
    BY <1>1, <2>1, AppendProperties
  <2> QED
    BY <1>7, <2>2, <2>3, <2>4
<1> QED
  BY <1>2, <1>4, <1>8 DEF Encodes, x
LEMMA InsideAt ==
  ASSUME NEW y, NEW m \in Int, NEW j \in Int, 1 <= j, j < m, m <= j + 2, y[j] = "%"
  PROVE  Inside(y, m)
BY DEF Inside

\* A character that is escaped.
LEMMA EncodesEscaped ==
  ASSUME NEW e, NEW s, Encodes(e, s), NEW c \in DOMAIN Code
  PROVE  Encodes(e \o Escaped(c), Append(s, c))
<1> DEFINE n == Len(e)
<1>1. e \in Seq(Coded) /\ s \in Seq(Char) /\ Closed(e) /\ Yields(e) \in Seq(Seq(Char))
      /\ FlattenSeq(Yields(e)) = s
  BY DEF Encodes
<1>2. PICK a \in Hex, b \in Hex : Code[c] = <<a, b>>
  BY Codes
<1> DEFINE esc == <<"%", a, b>>
           x == e \o esc
<1>3. Escaped(c) = esc
  <2> DEFINE p == <<"%">>
             q == <<a, b>>
  <2>1. p \in Seq({"%"} \cup Hex) /\ q \in Seq({"%"} \cup Hex) /\ esc \in Seq({"%"} \cup Hex)
    BY <1>2
  <2>2. Len(p) = 1 /\ Len(q) = 2 /\ Len(esc) = 3 /\ p[1] = "%" /\ q[1] = a /\ q[2] = b
        /\ esc[1] = "%" /\ esc[2] = a /\ esc[3] = b
    OBVIOUS
  <2> HIDE DEF p, q, esc
  <2>3. /\ p \o q \in Seq({"%"} \cup Hex) /\ Len(p \o q) = 3
        /\ \A i \in 1 .. 3 : (p \o q)[i] = IF i <= 1 THEN p[i] ELSE q[i - 1]
    <3>1. /\ p \o q \in Seq({"%"} \cup Hex) /\ Len(p \o q) = Len(p) + Len(q)
          /\ \A i \in 1 .. (Len(p) + Len(q)) : (p \o q)[i] = IF i <= Len(p) THEN p[i] ELSE q[i - Len(p)]
      BY <2>1, ConcatProperties
    <3> QED
      BY <2>2, <3>1
  <2> DEFINE r == p \o q
  <2> HIDE DEF r
  <2>4. r \in Seq({"%"} \cup Hex) /\ Len(r) = 3 /\ r[1] = "%" /\ r[2] = a /\ r[3] = b
    <3>1. r[1] = p[1] /\ r[2] = q[1] /\ r[3] = q[2]
      BY <2>3 DEF r
    <3> QED
      BY <2>2, <2>3, <3>1 DEF r
  <2>5. \A i \in 1 .. Len(r) : r[i] = esc[i]
    <3>1. \A i \in 1 .. 3 : i = 1 \/ i = 2 \/ i = 3
      OBVIOUS
    <3> QED
      BY <2>2, <2>4, <3>1
  <2>6. r = esc
    BY <2>1, <2>2, <2>4, <2>5, SeqEqual
  <2> QED
    BY <1>2, <2>6 DEF Escaped, r, p, q
<1>4. a \in Coded /\ b \in Coded /\ "%" \in Coded /\ a # "%" /\ b # "%"
  BY <1>2, CharKinds DEF Coded
<1>5. esc \in Seq(Coded) /\ Len(esc) = 3 /\ esc[1] = "%" /\ esc[2] = a /\ esc[3] = b
  BY <1>4
<1> HIDE DEF esc
<1>6. n \in Nat /\ DOMAIN e = 1 .. n
  BY <1>1, LenProperties
<1>7. /\ x \in Seq(Coded) /\ Len(x) = n + 3
      /\ \A i \in 1 .. n : x[i] = e[i]
      /\ x[n + 1] = "%" /\ x[n + 2] = a /\ x[n + 3] = b
  <2>1. /\ x \in Seq(Coded) /\ Len(x) = Len(e) + Len(esc)
        /\ \A i \in 1 .. Len(e) + Len(esc) : x[i] = IF i <= Len(e) THEN e[i] ELSE esc[i - Len(e)]
    BY <1>1, <1>5, ConcatProperties
  <2> HIDE DEF x
  <2>2. \A i \in 1 .. n : x[i] = e[i]
    BY <1>5, <1>6, <2>1
  <2>3. x[n + 1] = esc[1] /\ x[n + 2] = esc[2] /\ x[n + 3] = esc[3]
    BY <1>5, <1>6, <2>1
  <2> QED
    BY <1>5, <2>1, <2>2, <2>3
<1>8. DOMAIN x = 1 .. (n + 3) /\ DOMAIN e \subseteq DOMAIN x
  BY <1>6, <1>7, LenProperties
<1> HIDE DEF x, n
<1>9. \A k \in 1 .. n : x[k] = "%" => k + 2 <= n /\ x[k + 1] \in Hex /\ x[k + 2] \in Hex
  <2>1. ASSUME NEW k \in 1 .. n, x[k] = "%" PROVE k + 2 <= n /\ x[k + 1] \in Hex /\ x[k + 2] \in Hex
    <3>1. IsTriplet(e, k)
      BY <1>1, <1>6, <1>7, <2>1 DEF Closed
    <3>2. k + 1 \in 1 .. n /\ k + 2 \in 1 .. n
      BY <1>6, <2>1, <3>1 DEF IsTriplet, n
    <3> QED
      BY <1>7, <3>1, <3>2 DEF IsTriplet
  <2> QED
    BY <2>1
<1>10. Closed(x)
  <2>1. ASSUME NEW i \in 1 .. (n + 3), x[i] = "%" PROVE IsTriplet(x, i)
    <3>1. CASE i \in 1 .. n
      BY <1>6, <1>7, <1>9, <2>1, <3>1 DEF IsTriplet
    <3>2. CASE i \notin 1 .. n
      <4>1. i = n + 1
        BY <1>4, <1>6, <1>7, <2>1, <3>2
      <4> QED
        BY <1>2, <1>6, <1>7, <2>1, <4>1 DEF IsTriplet
    <3> QED
      BY <3>1, <3>2
  <2> QED
    BY <1>8, <2>1 DEF Closed
<1>11. \A i \in 1 .. n : Yield(x, i) = Yield(e, i)
  BY <1>1, <1>6, <1>7, <1>8, YieldsStay
<1>12. Yield(x, n + 1) = <<c>>
  <2>1. ~Inside(x, n + 1)
    <3>1. ASSUME NEW k \in 1 .. n, k >= n - 1, x[k] = "%" PROVE FALSE
      BY <1>6, <1>9, <3>1
    <3> QED
      BY <1>6, <3>1 DEF Inside
  <2>2. Meant(x, n + 1) = c
    <3>1. n + 1 + 1 = n + 2 /\ n + 1 + 2 = n + 3
      BY <1>6
    <3>2. \A d \in DOMAIN Code : Code[d] = <<x[n + 1 + 1], x[n + 1 + 2]>> <=> d = c
      BY <1>2, <1>7, <3>1, CodesDiffer
    <3> QED
      BY <3>2 DEF Meant
  <2> QED
    BY <1>7, <2>1, <2>2 DEF Yield
<1>13. Yield(x, n + 2) = <<>> /\ Yield(x, n + 3) = <<>>
  <2>1. n + 1 \in 1 .. (n + 2 - 1) /\ n + 1 >= n + 2 - 2 /\ n + 1 \in 1 .. (n + 3 - 1) /\ n + 1 >= n + 3 - 2
    BY <1>6
  <2>2. Inside(x, n + 2)
    <3>1. n + 2 \in Int /\ n + 1 \in Int /\ 1 <= n + 1 /\ n + 1 < n + 2 /\ n + 2 <= (n + 1) + 2
          /\ x[n + 1] = "%"
      BY <1>6, <1>7
    <3> QED
      BY <1>6, <3>1, InsideAt
  <2>3. Inside(x, n + 3)
    <3>1. n + 3 \in Int /\ n + 1 \in Int /\ 1 <= n + 1 /\ n + 1 < n + 3 /\ n + 3 <= (n + 1) + 2
          /\ x[n + 1] = "%"
      BY <1>6, <1>7
    <3> QED
      BY <1>6, <3>1, InsideAt
  <2> QED
    BY <2>2, <2>3 DEF Yield
<1> DEFINE y == Yields(e)
           y1 == Append(y, <<c>>)
           y2 == Append(y1, <<>>)
           y3 == Append(y2, <<>>)
<1>14. <<c>> \in Seq(Char) /\ <<>> \in Seq(Char)
  BY CharKinds
<1>15. y \in Seq(Seq(Char)) /\ Len(y) = n /\ \A i \in 1 .. n : y[i] = Yield(e, i)
  BY <1>1, <1>6 DEF Yields
<1> HIDE DEF y
<1>16. y1 \in Seq(Seq(Char)) /\ Len(y1) = n + 1 /\ y1[n + 1] = <<c>> /\ \A i \in 1 .. n : y1[i] = y[i]
  BY <1>14, <1>15, AppendProperties
<1> HIDE DEF y1
<1>17. y2 \in Seq(Seq(Char)) /\ Len(y2) = n + 2 /\ y2[n + 2] = <<>> /\ \A i \in 1 .. (n + 1) : y2[i] = y1[i]
  <2>1. /\ y2 \in Seq(Seq(Char)) /\ Len(y2) = n + 1 + 1 /\ y2[n + 1 + 1] = <<>>
        /\ \A i \in 1 .. (n + 1) : y2[i] = y1[i]
    BY <1>14, <1>16, AppendProperties
  <2>2. n + 1 + 1 = n + 2
    BY <1>6
  <2> HIDE DEF y2
  <2> QED
    BY <2>1, <2>2
<1> HIDE DEF y2
<1>18. y3 \in Seq(Seq(Char)) /\ Len(y3) = n + 3 /\ y3[n + 3] = <<>> /\ \A i \in 1 .. (n + 2) : y3[i] = y2[i]
  <2>1. /\ y3 \in Seq(Seq(Char)) /\ Len(y3) = n + 2 + 1 /\ y3[n + 2 + 1] = <<>>
        /\ \A i \in 1 .. (n + 2) : y3[i] = y2[i]
    BY <1>14, <1>17, AppendProperties
  <2>2. n + 2 + 1 = n + 3
    BY <1>6
  <2> HIDE DEF y3
  <2> QED
    BY <2>1, <2>2
<1> HIDE DEF y3
<1>19. Yields(x) = y3
  <2>1. \A i \in 1 .. (n + 3) : Yield(x, i) = y3[i]
    <3>1. ASSUME NEW i \in 1 .. (n + 3) PROVE Yield(x, i) = y3[i]
      <4>1. CASE i \in 1 .. n
        BY <1>6, <1>11, <1>15, <1>16, <1>17, <1>18, <4>1
      <4>2. CASE i \notin 1 .. n
        <5>1. i = n + 1 \/ i = n + 2 \/ i = n + 3
          BY <1>6, <4>2
        <5>2. y3[n + 1] = <<c>> /\ y3[n + 2] = <<>> /\ y3[n + 3] = <<>>
          <6>1. n + 1 \in 1 .. (n + 1) /\ n + 1 \in 1 .. (n + 2) /\ n + 2 \in 1 .. (n + 2)
            BY <1>6
          <6>2. y3[n + 1] = y2[n + 1] /\ y2[n + 1] = y1[n + 1]
            BY <1>17, <1>18, <6>1
          <6>3. y3[n + 2] = y2[n + 2]
            BY <1>18, <6>1
          <6> QED
            BY <1>16, <1>17, <1>18, <6>2, <6>3
        <5> QED
          BY <1>12, <1>13, <5>1, <5>2
      <4> QED
        BY <4>1, <4>2
    <3> QED
      BY <3>1
  <2>2. DOMAIN y3 = 1 .. (n + 3) /\ y3 = [i \in DOMAIN y3 |-> y3[i]]
    BY <1>18, LenProperties
  <2> QED
    BY <1>8, <2>1, <2>2 DEF Yields
<1>20. FlattenSeq(y3) = Append(s, c) /\ Append(s, c) \in Seq(Char)
  <2>1. FlattenSeq(y1) = FlattenSeq(y) \o <<c>>
    BY <1>14, <1>15, FlattenSnoc DEF y1
  <2>2. FlattenSeq(y2) = FlattenSeq(y1) \o <<>>
    BY <1>14, <1>16, FlattenSnoc DEF y2
  <2>3. FlattenSeq(y3) = FlattenSeq(y2) \o <<>>
    BY <1>14, <1>17, FlattenSnoc DEF y3
  <2>4. FlattenSeq(y1) \in Seq(Char) /\ FlattenSeq(y2) \in Seq(Char)
    BY <1>16, <1>17, FlattenTyped
  <2>5. FlattenSeq(y1) \o <<>> = FlattenSeq(y1) /\ FlattenSeq(y2) \o <<>> = FlattenSeq(y2)
    BY <2>4, ConcatEmptySeq
  <2>6. FlattenSeq(y) = s
    BY <1>1 DEF y
  <2>7. c \in Char
    BY CharKinds
  <2>8. Append(s, c) = s \o <<c>> /\ Append(s, c) \in Seq(Char)
    BY <1>1, <2>7, AppendIsConcat, AppendProperties
  <2> QED
    BY <2>1, <2>2, <2>3, <2>5, <2>6, <2>8
<1>21. Encodes(x, Append(s, c))
  BY <1>7, <1>10, <1>18, <1>19, <1>20 DEF Encodes
<1> QED
  BY <1>3, <1>21 DEF x

\* What a character is encoded as, "/" being kept in the value of a wildcard.
Enc(w) == [c \in Char |-> IF c \in Unreserved \/ (w /\ c = "/") THEN <<c>> ELSE Escaped(c)]

\* The characters of an encoded value.
Free(w) == Unreserved \cup {"%"} \cup (IF w THEN {"/"} ELSE {})

LEMMA EscapedIs ==
  ASSUME NEW c \in DOMAIN Code
  PROVE  Escaped(c) \in Seq(Hex \cup {"%"}) /\ Escaped(c) # <<>>
<1>1. PICK a \in Hex, b \in Hex : Code[c] = <<a, b>>
  BY Codes
<1>2. <<"%">> \in Seq(Hex \cup {"%"}) /\ <<a, b>> \in Seq(Hex \cup {"%"}) /\ Len(<<"%">>) = 1 /\ Len(<<a, b>>) = 2
  OBVIOUS
<1>3. /\ <<"%">> \o <<a, b>> \in Seq(Hex \cup {"%"})
      /\ Len(<<"%">> \o <<a, b>>) = Len(<<"%">>) + Len(<<a, b>>)
  BY <1>2, ConcatProperties
<1>4. Len(<<"%">> \o <<a, b>>) # 0
  BY <1>2, <1>3
<1>5. <<"%">> \o <<a, b>> # <<>>
  BY <1>4, EmptySeq
<1> QED
  BY <1>1, <1>3, <1>5 DEF Escaped

LEMMA EncTyped ==
  ASSUME NEW w \in BOOLEAN, NEW c \in Char
  PROVE  Enc(w)[c] \in Seq(Free(w)) /\ Enc(w)[c] # <<>>
<1>1. CASE c \in Unreserved \/ (w /\ c = "/")
  <2>1. Enc(w)[c] = <<c>> /\ c \in Free(w)
    BY <1>1 DEF Enc, Free
  <2> QED
    BY <2>1
<1>2. CASE ~(c \in Unreserved \/ (w /\ c = "/"))
  <2>1. Enc(w)[c] = Escaped(c) /\ c \in DOMAIN Code
    BY <1>2, CharKinds DEF Enc
  <2>2. Hex \cup {"%"} \subseteq Free(w)
    BY CharKinds DEF Free
  <2>3. Escaped(c) \in Seq(Hex \cup {"%"}) /\ Escaped(c) # <<>>
    BY <2>1, EscapedIs
  <2> QED
    BY <2>1, <2>2, <2>3
<1> QED
  BY <1>1, <1>2

LEMMA EncIs ==
  ASSUME NEW s \in Seq(Char), NEW w \in BOOLEAN
  PROVE  fmEncode(s, w) = FlattenSeq(Mapped(Enc(w), s))
<1>1. \A i \in DOMAIN s : s[i] \in Char
  BY LenProperties, ElementOfSeq
<1>2. [i \in DOMAIN s |-> IF s[i] \in Unreserved \/ (w /\ s[i] = "/") THEN <<s[i]>> ELSE Escaped(s[i])]
        = Mapped(Enc(w), s)
  BY <1>1 DEF Mapped, Enc
<1> QED
  BY <1>2 DEF fmEncode

LEMMA utEncodeIs ==
  ASSUME NEW s
  PROVE  utEncode(s, "U") = fmEncode(s, FALSE)
<1>1. "U" # "U+R"
  OBVIOUS
<1>2. [i \in DOMAIN s |->
        IF \/ s[i] \in Unreserved
           \/ "U" = "U+R" /\ (s[i] \in Reserved \/ IsTriplet(s, i))
        THEN <<s[i]>> ELSE Escaped(s[i])]
      = [i \in DOMAIN s |-> IF s[i] \in Unreserved \/ (FALSE /\ s[i] = "/") THEN <<s[i]>> ELSE Escaped(s[i])]
  BY <1>1
<1> QED
  BY <1>2 DEF utEncode, fmEncode

LEMMA EncSnoc ==
  ASSUME NEW s \in Seq(Char), NEW x \in Char, NEW w \in BOOLEAN
  PROVE  /\ FlattenSeq(Mapped(Enc(w), s)) \in Seq(Free(w))
         /\ FlattenSeq(Mapped(Enc(w), Append(s, x))) = FlattenSeq(Mapped(Enc(w), s)) \o Enc(w)[x]
<1>1. \A c \in Char : Enc(w)[c] \in Seq(Free(w))
  BY EncTyped
<1>2. Mapped(Enc(w), s) \in Seq(Seq(Free(w)))
  BY <1>1, MappedTyped
<1>3. Mapped(Enc(w), Append(s, x)) = Append(Mapped(Enc(w), s), Enc(w)[x])
  BY MappedSnoc
<1>4. FlattenSeq(Append(Mapped(Enc(w), s), Enc(w)[x])) = FlattenSeq(Mapped(Enc(w), s)) \o Enc(w)[x]
  BY <1>1, <1>2, FlattenSnoc
<1>5. FlattenSeq(Mapped(Enc(w), s)) \in Seq(Free(w))
  BY <1>2, FlattenTyped
<1> QED
  BY <1>3, <1>4, <1>5

LEMMA EncodingFree ==
  ASSUME NEW s \in Seq(Char), NEW w \in BOOLEAN
  PROVE  fmEncode(s, w) \in Seq(Free(w))
<1>1. \A c \in Char : Enc(w)[c] \in Seq(Free(w))
  BY EncTyped
<1>2. Mapped(Enc(w), s) \in Seq(Seq(Free(w)))
  BY <1>1, MappedTyped
<1> QED
  BY <1>2, EncIs, FlattenTyped

\* fastmcp.go:260, uritemplate.go:454: an encoded value decodes to the value.
LEMMA Encoding ==
  ASSUME NEW s \in Seq(Char), NEW w \in BOOLEAN
  PROVE  Encodes(fmEncode(s, w), s)
<1> DEFINE F(r) == FlattenSeq(Mapped(Enc(w), r))
           T == {r \in Seq(Char) : Encodes(F(r), r)}
<1>1. <<>> \in T
  <2>1. Mapped(Enc(w), <<>>) = <<>>
    BY DEF Mapped
  <2>2. F(<<>>) = <<>>
    BY <2>1, FlattenEmpty
  <2>3. Yields(<<>>) = <<>>
    BY DEF Yields
  <2>4. <<>> \in Seq(Coded) /\ <<>> \in Seq(Char) /\ <<>> \in Seq(Seq(Char)) /\ DOMAIN <<>> = {}
    OBVIOUS
  <2>5. Closed(<<>>)
    BY <2>4 DEF Closed
  <2>6. Encodes(<<>>, <<>>)
    BY <2>3, <2>4, <2>5, FlattenEmpty DEF Encodes
  <2> HIDE DEF F
  <2> QED
    BY <2>2, <2>4, <2>6
<1>2. ASSUME NEW r \in Seq(Char), NEW x \in Char, r \in T PROVE Append(r, x) \in T
  <2>1. F(Append(r, x)) = F(r) \o Enc(w)[x] /\ F(r) \in Seq(Free(w))
    BY EncSnoc
  <2>2. Encodes(F(r), r)
    BY <1>2
  <2> HIDE DEF F
  <2>3. Append(r, x) \in Seq(Char)
    BY AppendProperties
  <2>4. CASE x \in Unreserved \/ (w /\ x = "/")
    <3>1. Enc(w)[x] = <<x>> /\ x \in Coded /\ x # "%" /\ x \in Free(w)
      BY <2>4, CharKinds DEF Enc, Coded, Free
    <3>2. F(r) \o <<x>> = Append(F(r), x)
      BY <2>1, <3>1, AppendIsConcat
    <3>3. Encodes(Append(F(r), x), Append(r, x))
      BY <2>2, <3>1, EncodesKept
    <3> QED
      BY <2>1, <2>3, <3>1, <3>2, <3>3
  <2>5. CASE ~(x \in Unreserved \/ (w /\ x = "/"))
    <3>1. Enc(w)[x] = Escaped(x) /\ x \in DOMAIN Code
      BY <2>5, CharKinds DEF Enc
    <3>2. Encodes(F(r) \o Escaped(x), Append(r, x))
      BY <2>2, <3>1, EncodesEscaped
    <3> QED
      BY <2>1, <2>3, <3>1, <3>2
  <2> QED
    BY <2>4, <2>5
<1>3. Seq(Char) \subseteq T
  <2> HIDE DEF T
  <2> QED
    BY <1>1, <1>2, Growing
<1> QED
  BY <1>3, EncIs

THEOREM Decoding ==
  ASSUME NEW s \in Seq(Char), NEW w \in BOOLEAN
  PROVE  /\ Unescape(fmEncode(s, w)) = s
         /\ s # <<>> => fmEncode(s, w) # <<>>
<1>1. Encodes(fmEncode(s, w), s)
  BY Encoding
<1>2. Closed(fmEncode(s, w)) /\ Decoded(fmEncode(s, w)) = s
  BY <1>1, DecodedIs DEF Encodes
<1>3. Unescape(fmEncode(s, w)) = s
  BY <1>2 DEF Unescape, Closed
<1>4. Decoded(<<>>) = <<>>
  <2>1. Yields(<<>>) = <<>>
    BY DEF Yields
  <2> QED
    BY <2>1, DecodedIs, FlattenEmpty
<1> QED
  BY <1>2, <1>3, <1>4

LEMMA PlainEncoding ==
  ASSUME NEW s \in Seq(Unreserved)
  PROVE  s \in Seq(Char) /\ fmEncode(s, FALSE) = s
<1>1. \A i \in DOMAIN s : s[i] \in Unreserved
  BY LenProperties, ElementOfSeq
<1>2. [i \in DOMAIN s |-> IF s[i] \in Unreserved \/ (FALSE /\ s[i] = "/") THEN <<s[i]>> ELSE Escaped(s[i])]
       = [i \in DOMAIN s |-> <<s[i]>>]
  BY <1>1
<1>3. FlattenSeq([i \in DOMAIN s |-> <<s[i]>>]) = s
  BY FlattenSingles
<1>4. s \in Seq(Char)
  BY CharKinds
<1> QED
  BY <1>2, <1>3, <1>4 DEF fmEncode

-----------------------------------------------------------------------------
(* Matching: an expression fits a text in one way.                          *)

\* The items of re begin at f[1], f[2], ... in s, and f[Len(re) + 1] is the end.
Placement(re, s, f) ==
  /\ f[1] = 1 /\ f[Len(re) + 1] = Len(s) + 1
  /\ \A i \in 1 .. (Len(re) + 1) : f[i] \in Nat
  /\ \A i \in 1 .. Len(re) :
       /\ IsCapture(re[i]) =>
            f[i] < f[i + 1] /\ (re[i].spans \/ \A k \in f[i] .. (f[i + 1] - 1) : s[k] # "/")
       /\ ~IsCapture(re[i]) => f[i + 1] = f[i] + 1 /\ s[f[i]] = re[i].char

\* What the captures take has no reserved character, but "/" if they may span.
Clean(re, s, c) ==
  \A i \in 1 .. Len(re) : IsCapture(re[i]) =>
    \A k \in c[i] .. (c[i + 1] - 1) : s[k] \in Reserved => s[k] = "/" /\ re[i].spans

IsMark(item) == item.char \in Reserved

LEMMA MarksAreLiteral == \A item : IsMark(item) => ~IsCapture(item)
BY DEF IsMark, IsCapture, Reserved

LEMMA Steps ==
  ASSUME NEW re, Len(re) \in Nat, NEW s, NEW f, Placement(re, s, f), NEW i \in 1 .. Len(re)
  PROVE  f[i] \in Nat /\ f[i + 1] \in Nat /\ f[i] < f[i + 1] /\ i + 1 \in 1 .. (Len(re) + 1)
<1>1. i \in 1 .. (Len(re) + 1) /\ i + 1 \in 1 .. (Len(re) + 1)
  OBVIOUS
<1>2. f[i] \in Nat /\ f[i + 1] \in Nat
  BY <1>1 DEF Placement
<1>3. f[i] < f[i + 1] \/ f[i + 1] = f[i] + 1
  BY DEF Placement
<1> QED
  BY <1>1, <1>2, <1>3

LEMMA Rising ==
  ASSUME NEW re, Len(re) \in Nat, NEW s, NEW f, Placement(re, s, f),
         NEW i \in 1 .. (Len(re) + 1), NEW j \in 1 .. (Len(re) + 1), i < j
  PROVE  f[i] < f[j]
<1> DEFINE T == {k \in i .. (Len(re) + 1) : i < k /\ ~(f[i] < f[k])}
<1>1. ASSUME T # {} PROVE FALSE
  <2>1. T \subseteq Nat
    OBVIOUS
  <2>2. PICK k \in T : \A m \in T : k <= m
    <3> HIDE DEF T
    <3> QED
      BY <1>1, <2>1, Least
  <2>3. k - 1 \in 1 .. Len(re) /\ k \in 1 .. (Len(re) + 1) /\ i <= k - 1 /\ (k - 1) + 1 = k
    OBVIOUS
  <2>4. f[k - 1] \in Nat /\ f[k] \in Nat /\ f[k - 1] < f[k]
    BY <2>3, Steps
  <2>5. f[i] \in Nat
    BY DEF Placement
  <2>6. CASE k - 1 = i
    BY <2>4, <2>6
  <2>7. CASE k - 1 # i
    <3>1. k - 1 \notin T
      BY <2>2, <2>3
    <3>2. f[i] < f[k - 1]
      BY <3>1, <2>3, <2>7
    <3> QED
      BY <3>2, <2>4, <2>5
  <2> QED
    BY <2>6, <2>7
<1> QED
  BY <1>1

LEMMA Where ==
  ASSUME NEW re, Len(re) \in Nat, NEW s, Len(s) \in Nat, NEW f, Placement(re, s, f),
         NEW p \in 1 .. Len(s)
  PROVE  \E m \in 1 .. Len(re) : f[m] <= p /\ p < f[m + 1]
<1> DEFINE T == {m \in 1 .. (Len(re) + 1) : f[m] <= p}
<1>1. 1 \in T
  BY DEF Placement
<1>2. PICK m \in T : \A k \in T : k <= m
  <2>1. T \subseteq 0 .. (Len(re) + 1) /\ Len(re) + 1 \in Nat
    OBVIOUS
  <2> HIDE DEF T
  <2> QED
    BY <1>1, <2>1, Greatest
<1>3. m # Len(re) + 1
  <2>1. f[Len(re) + 1] = Len(s) + 1
    BY DEF Placement
  <2> QED
    BY <2>1
<1>4. m \in 1 .. Len(re) /\ m + 1 \in 1 .. (Len(re) + 1)
  BY <1>3
<1>5. f[m + 1] \in Nat
  BY <1>4 DEF Placement
<1>6. ~(f[m + 1] <= p)
  <2>1. m + 1 \notin T
    BY <1>2, <1>4
  <2> QED
    BY <1>4, <2>1
<1> QED
  BY <1>4, <1>5, <1>6

LEMMA MarkPlace ==
  ASSUME NEW re, Len(re) \in Nat, NEW s, Len(s) \in Nat, NEW f, Placement(re, s, f),
         NEW k \in 1 .. Len(re), IsMark(re[k])
  PROVE  f[k] \in 1 .. Len(s) /\ s[f[k]] = re[k].char /\ f[k + 1] = f[k] + 1
<1>1. f[k + 1] = f[k] + 1 /\ s[f[k]] = re[k].char
  BY MarksAreLiteral DEF Placement
<1>2. f[1] = 1 /\ f[Len(re) + 1] = Len(s) + 1 /\ f[k] \in Nat
  <2>1. k \in 1 .. (Len(re) + 1)
    OBVIOUS
  <2> QED
    BY <2>1 DEF Placement
<1>3. 1 <= f[k]
  <2>1. k = 1 \/ 1 < k
    OBVIOUS
  <2>2. 1 \in 1 .. (Len(re) + 1) /\ k \in 1 .. (Len(re) + 1)
    OBVIOUS
  <2>3. 1 < k => f[1] < f[k]
    BY <2>2, Rising
  <2> QED
    BY <1>2, <2>1, <2>3
<1>4. f[k] < Len(s) + 1
  <2>1. k \in 1 .. (Len(re) + 1) /\ Len(re) + 1 \in 1 .. (Len(re) + 1) /\ k < Len(re) + 1
    OBVIOUS
  <2>2. f[k] < f[Len(re) + 1]
    BY <2>1, Rising
  <2> QED
    BY <1>2, <2>2
<1> QED
  BY <1>1, <1>2, <1>3, <1>4

\* A reserved character of s is a literal's, or a "/" of a capture that may span.
LEMMA ReservedIn ==
  ASSUME NEW re, Len(re) \in Nat, NEW s, Len(s) \in Nat, NEW c, Placement(re, s, c), Clean(re, s, c),
         NEW p \in 1 .. Len(s), s[p] \in Reserved
  PROVE  \E m \in 1 .. Len(re) :
           \/ IsMark(re[m]) /\ c[m] = p /\ re[m].char = s[p]
           \/ IsCapture(re[m]) /\ re[m].spans /\ s[p] = "/" /\ c[m] <= p /\ p < c[m + 1]
<1>1. PICK m \in 1 .. Len(re) : c[m] <= p /\ p < c[m + 1]
  BY Where
<1>2. c[m] \in Nat /\ c[m + 1] \in Nat
  BY Steps
<1>3. CASE IsCapture(re[m])
  <2>1. p \in c[m] .. (c[m + 1] - 1)
    BY <1>1, <1>2
  <2>2. s[p] = "/" /\ re[m].spans
    BY <1>3, <2>1 DEF Clean
  <2> QED
    BY <1>1, <1>3, <2>2
<1>4. CASE ~IsCapture(re[m])
  <2>1. c[m + 1] = c[m] + 1 /\ s[c[m]] = re[m].char
    BY <1>4 DEF Placement
  <2>2. c[m] = p
    BY <1>1, <1>2, <2>1
  <2> QED
    BY <2>1, <2>2 DEF IsMark
<1> QED
  BY <1>3, <1>4

\* Two ways to place the items of re in s, of which c is one whose captures are
\* clean; w is the capture that may span "/", or Len(re) + 1 when there is none.
TwoWays(re, s, c, f, w) ==
  /\ Len(re) \in Nat /\ Len(s) \in Nat
  /\ Placement(re, s, c) /\ Clean(re, s, c) /\ Placement(re, s, f)
  /\ w \in 1 .. (Len(re) + 1)
  /\ w \in 1 .. Len(re) => IsCapture(re[w])
  /\ \A i \in 1 .. Len(re) : IsCapture(re[i]) /\ re[i].spans => i = w

LEMMA TwoRise ==
  ASSUME NEW re, NEW s, NEW c, NEW f, NEW w, TwoWays(re, s, c, f, w),
         NEW i \in 1 .. (Len(re) + 1), NEW j \in 1 .. (Len(re) + 1)
  PROVE  /\ c[i] \in Nat /\ f[i] \in Nat
         /\ i < j => c[i] < c[j] /\ f[i] < f[j]
         /\ c[i] < c[j] => i < j
         /\ f[i] < f[j] => i < j
<1>1. /\ Len(re) \in Nat /\ Placement(re, s, c) /\ Placement(re, s, f)
  BY DEF TwoWays
<1>2. c[i] \in Nat /\ f[i] \in Nat /\ c[j] \in Nat /\ f[j] \in Nat
  BY <1>1 DEF Placement
<1>3. i < j => c[i] < c[j] /\ f[i] < f[j]
  BY <1>1, Rising
<1>4. j < i => c[j] < c[i] /\ f[j] < f[i]
  BY <1>1, Rising
<1>5. i < j \/ j < i \/ i = j
  OBVIOUS
<1> QED
  BY <1>2, <1>3, <1>4, <1>5

\* A mark that f puts at a place of its own kind of character in c.
LEMMA MarkFound ==
  ASSUME NEW re, NEW s, NEW c, NEW f, NEW w, TwoWays(re, s, c, f, w),
         NEW k \in 1 .. Len(re), IsMark(re[k])
  PROVE  \E m \in 1 .. Len(re) :
           \/ IsMark(re[m]) /\ c[m] = f[k] /\ re[m].char = re[k].char
           \/ m = w /\ re[k].char = "/" /\ c[w] <= f[k] /\ f[k] < c[w + 1]
<1>1. /\ Len(re) \in Nat /\ Len(s) \in Nat /\ Placement(re, s, c) /\ Clean(re, s, c) /\ Placement(re, s, f)
  BY DEF TwoWays
<1>2. f[k] \in 1 .. Len(s) /\ s[f[k]] = re[k].char
  BY <1>1, MarkPlace
<1>3. s[f[k]] \in Reserved
  BY <1>2 DEF IsMark
<1>4. PICK m \in 1 .. Len(re) :
           \/ IsMark(re[m]) /\ c[m] = f[k] /\ re[m].char = s[f[k]]
           \/ IsCapture(re[m]) /\ re[m].spans /\ s[f[k]] = "/" /\ c[m] <= f[k] /\ f[k] < c[m + 1]
  BY <1>1, <1>2, <1>3, ReservedIn
<1>5. IsCapture(re[m]) /\ re[m].spans => m = w
  BY DEF TwoWays
<1> QED
  BY <1>2, <1>4, <1>5

\* A mark of c stands in f at a mark of that character, or in a capture.
LEMMA MarkSought ==
  ASSUME NEW re, NEW s, NEW c, NEW f, NEW w, TwoWays(re, s, c, f, w),
         NEW k \in 1 .. Len(re), IsMark(re[k]), re[k].char = "/"
  PROVE  \E m \in 1 .. Len(re) : f[m] <= c[k] /\ c[k] < f[m + 1] /\
           (m = w \/ (IsMark(re[m]) /\ re[m].char = "/" /\ f[m] = c[k]))
<1>1. /\ Len(re) \in Nat /\ Len(s) \in Nat /\ Placement(re, s, c) /\ Placement(re, s, f)
  BY DEF TwoWays
<1>2. c[k] \in 1 .. Len(s) /\ s[c[k]] = "/"
  BY <1>1, MarkPlace
<1>3. PICK m \in 1 .. Len(re) : f[m] <= c[k] /\ c[k] < f[m + 1]
  BY <1>1, <1>2, Where
<1>4. f[m] \in Nat /\ f[m + 1] \in Nat
  BY <1>1, Steps
<1>5. CASE IsCapture(re[m])
  <2>1. c[k] \in f[m] .. (f[m + 1] - 1)
    BY <1>2, <1>3, <1>4
  <2>2. re[m].spans
    BY <1>1, <1>2, <1>5, <2>1 DEF Placement
  <2>3. m = w
    BY <1>5, <2>2 DEF TwoWays
  <2> QED
    BY <1>3, <2>3
<1>6. CASE ~IsCapture(re[m])
  <2>1. f[m + 1] = f[m] + 1 /\ s[f[m]] = re[m].char
    BY <1>1, <1>6 DEF Placement
  <2>2. f[m] = c[k]
    BY <1>2, <1>3, <1>4, <2>1
  <2>3. "/" \in Reserved
    BY DEF Reserved
  <2> QED
    BY <1>2, <1>3, <2>1, <2>2, <2>3 DEF IsMark
<1> QED
  BY <1>5, <1>6

LEMMA LeastMark ==
  ASSUME NEW n \in Nat, NEW T, T \subseteq 1 .. n, T # {}
  PROVE  (\E k \in T : \A m \in T : k <= m) /\ (\E k \in T : \A m \in T : m <= k)
<1>1. T \subseteq Nat /\ T \subseteq 0 .. n
  OBVIOUS
<1> QED
  BY <1>1, Least, Greatest

\* Marks other than "/" are where they were.
LEMMA OtherMarks ==
  ASSUME NEW re, NEW s, NEW c, NEW f, NEW w, TwoWays(re, s, c, f, w),
         NEW i \in 1 .. Len(re), IsMark(re[i]), re[i].char # "/"
  PROVE  f[i] = c[i]
<1> DEFINE Early == {k \in 1 .. Len(re) : IsMark(re[k]) /\ re[k].char # "/" /\ f[k] < c[k]}
           Late == {k \in 1 .. Len(re) : IsMark(re[k]) /\ re[k].char # "/" /\ c[k] < f[k]}
<1>1. Len(re) \in Nat
  BY DEF TwoWays
<1>0. \A k \in 1 .. Len(re) : k \in 1 .. (Len(re) + 1)
  BY <1>1
<1>2. ASSUME Early # {} PROVE FALSE
  <2>1. PICK k \in Early : \A m \in Early : k <= m
    <3>1. Early \subseteq 1 .. Len(re)
      OBVIOUS
    <3> HIDE DEF Early
    <3> QED
      BY <1>1, <1>2, <3>1, LeastMark
  <2>2. k \in 1 .. Len(re) /\ IsMark(re[k]) /\ re[k].char # "/" /\ f[k] < c[k]
    OBVIOUS
  <2>3. PICK m \in 1 .. Len(re) : IsMark(re[m]) /\ c[m] = f[k] /\ re[m].char = re[k].char
    BY <2>2, MarkFound
  <2>4. m < k
    BY <1>0, <2>2, <2>3, TwoRise
  <2>5. f[m] < c[m]
    BY <1>0, <2>2, <2>3, <2>4, TwoRise
  <2>6. m \in Early
    BY <2>2, <2>3, <2>5
  <2> HIDE DEF Early
  <2> QED
    BY <2>1, <2>2, <2>4, <2>6
<1>3. ASSUME Late # {} PROVE FALSE
  <2>1. PICK k \in Late : \A m \in Late : m <= k
    <3>1. Late \subseteq 1 .. Len(re)
      OBVIOUS
    <3> HIDE DEF Late
    <3> QED
      BY <1>1, <1>3, <3>1, LeastMark
  <2>2. k \in 1 .. Len(re) /\ IsMark(re[k]) /\ re[k].char # "/" /\ c[k] < f[k]
    OBVIOUS
  <2>3. PICK m \in 1 .. Len(re) : IsMark(re[m]) /\ c[m] = f[k] /\ re[m].char = re[k].char
    BY <2>2, MarkFound
  <2>4. k < m
    BY <1>0, <2>2, <2>3, TwoRise
  <2>5. c[m] < f[m]
    BY <1>0, <2>2, <2>3, <2>4, TwoRise
  <2>6. m \in Late
    BY <2>2, <2>3, <2>5
  <2> HIDE DEF Late
  <2> QED
    BY <2>1, <2>2, <2>4, <2>6
<1>4. c[i] \in Nat /\ f[i] \in Nat
  BY <1>0, TwoRise
<1>5. ~(f[i] < c[i]) /\ ~(c[i] < f[i])
  BY <1>2, <1>3
<1> QED
  BY <1>4, <1>5

\* So are the "/", on either side of the capture that may take some.
LEMMA SlashesBefore ==
  ASSUME NEW re, NEW s, NEW c, NEW f, NEW w, TwoWays(re, s, c, f, w),
         NEW i \in 1 .. Len(re), IsMark(re[i]), re[i].char = "/", i < w
  PROVE  f[i] = c[i]
<1> DEFINE Slash(k) == IsMark(re[k]) /\ re[k].char = "/"
           Early == {k \in 1 .. Len(re) : Slash(k) /\ k < w /\ f[k] < c[k]}
           Late == {k \in 1 .. Len(re) : Slash(k) /\ k < w /\ c[k] < f[k]}
<1>1. Len(re) \in Nat /\ w \in 1 .. (Len(re) + 1)
  BY DEF TwoWays
<1>0. \A k \in 1 .. Len(re) : k \in 1 .. (Len(re) + 1)
  BY <1>1
<1>2. ASSUME Early # {} PROVE FALSE
  <2>1. PICK k \in Early : \A m \in Early : k <= m
    <3>1. Early \subseteq 1 .. Len(re)
      OBVIOUS
    <3> HIDE DEF Early
    <3> QED
      BY <1>1, <1>2, <3>1, LeastMark
  <2>2. k \in 1 .. Len(re) /\ Slash(k) /\ k < w /\ f[k] < c[k]
    OBVIOUS
  <2>3. c[k] < c[w] /\ c[k] \in Nat /\ f[k] \in Nat /\ c[w] \in Nat
    BY <1>0, <1>1, <2>2, TwoRise
  <2>4. PICK m \in 1 .. Len(re) : IsMark(re[m]) /\ c[m] = f[k] /\ re[m].char = re[k].char
    <3>1. PICK m \in 1 .. Len(re) :
           \/ IsMark(re[m]) /\ c[m] = f[k] /\ re[m].char = re[k].char
           \/ m = w /\ re[k].char = "/" /\ c[w] <= f[k] /\ f[k] < c[w + 1]
      BY <2>2, MarkFound
    <3>2. ~(c[w] <= f[k])
      BY <2>2, <2>3
    <3> QED
      BY <3>1, <3>2
  <2>5. m < k
    BY <1>0, <2>2, <2>4, TwoRise
  <2>6. f[m] < c[m]
    BY <1>0, <2>2, <2>4, <2>5, TwoRise
  <2>7. m < w
    BY <1>1, <2>2, <2>5
  <2>8. m \in Early
    BY <2>2, <2>4, <2>6, <2>7
  <2> HIDE DEF Early
  <2> QED
    BY <2>1, <2>2, <2>5, <2>8
<1>3. ASSUME Late # {} PROVE FALSE
  <2>1. PICK k \in Late : \A m \in Late : k <= m
    <3>1. Late \subseteq 1 .. Len(re)
      OBVIOUS
    <3> HIDE DEF Late
    <3> QED
      BY <1>1, <1>3, <3>1, LeastMark
  <2>2. k \in 1 .. Len(re) /\ Slash(k) /\ k < w /\ c[k] < f[k]
    OBVIOUS
  <2>3. PICK m \in 1 .. Len(re) : f[m] <= c[k] /\ c[k] < f[m + 1] /\
           (m = w \/ (IsMark(re[m]) /\ re[m].char = "/" /\ f[m] = c[k]))
    BY <2>2, MarkSought
  <2>4. c[k] \in Nat /\ f[k] \in Nat /\ f[m] \in Nat
    BY <1>0, <2>2, TwoRise
  <2>5. m < k
    <3>1. f[m] < f[k]
      BY <2>2, <2>3, <2>4
    <3> QED
      BY <1>0, <2>2, <3>1, TwoRise
  <2>6. m < w /\ m # w
    BY <1>1, <2>2, <2>5
  <2>7. c[m] < c[k]
    BY <1>0, <2>2, <2>5, TwoRise
  <2>8. m \in Late
    BY <2>3, <2>6, <2>7
  <2> HIDE DEF Late
  <2> QED
    BY <2>1, <2>2, <2>5, <2>8
<1>4. c[i] \in Nat /\ f[i] \in Nat
  BY <1>0, TwoRise
<1>5. ~(f[i] < c[i]) /\ ~(c[i] < f[i])
  BY <1>2, <1>3
<1> QED
  BY <1>4, <1>5

LEMMA SlashesBehind ==
  ASSUME NEW re, NEW s, NEW c, NEW f, NEW w, TwoWays(re, s, c, f, w),
         NEW i \in 1 .. Len(re), IsMark(re[i]), re[i].char = "/", w < i
  PROVE  f[i] = c[i]
<1> DEFINE Slash(k) == IsMark(re[k]) /\ re[k].char = "/"
           Early == {k \in 1 .. Len(re) : Slash(k) /\ w < k /\ f[k] < c[k]}
           Late == {k \in 1 .. Len(re) : Slash(k) /\ w < k /\ c[k] < f[k]}
<1>1. Len(re) \in Nat /\ w \in 1 .. Len(re) /\ w \in 1 .. (Len(re) + 1) /\ w + 1 \in 1 .. (Len(re) + 1)
  BY DEF TwoWays
<1>0. \A k \in 1 .. Len(re) : k \in 1 .. (Len(re) + 1)
  BY <1>1
<1>2. ASSUME Late # {} PROVE FALSE
  <2>1. PICK k \in Late : \A m \in Late : m <= k
    <3>1. Late \subseteq 1 .. Len(re)
      OBVIOUS
    <3> HIDE DEF Late
    <3> QED
      BY <1>1, <1>2, <3>1, LeastMark
  <2>2. k \in 1 .. Len(re) /\ Slash(k) /\ w < k /\ c[k] < f[k]
    OBVIOUS
  <2>3. c[w + 1] <= c[k] /\ c[k] \in Nat /\ f[k] \in Nat /\ c[w + 1] \in Nat
    <3>1. w + 1 = k \/ w + 1 < k
      BY <1>1, <2>2
    <3>2. w + 1 < k => c[w + 1] < c[k]
      BY <1>0, <1>1, <2>2, TwoRise
    <3>3. c[k] \in Nat /\ f[k] \in Nat /\ c[w + 1] \in Nat
      BY <1>0, <1>1, <2>2, TwoRise
    <3> QED
      BY <3>1, <3>2, <3>3
  <2>4. PICK m \in 1 .. Len(re) : IsMark(re[m]) /\ c[m] = f[k] /\ re[m].char = re[k].char
    <3>1. PICK m \in 1 .. Len(re) :
           \/ IsMark(re[m]) /\ c[m] = f[k] /\ re[m].char = re[k].char
           \/ m = w /\ re[k].char = "/" /\ c[w] <= f[k] /\ f[k] < c[w + 1]
      BY <2>2, MarkFound
    <3>2. ~(f[k] < c[w + 1])
      BY <2>2, <2>3
    <3> QED
      BY <3>1, <3>2
  <2>5. k < m
    BY <1>0, <2>2, <2>4, TwoRise
  <2>6. c[m] < f[m]
    BY <1>0, <2>2, <2>4, <2>5, TwoRise
  <2>7. w < m
    BY <1>1, <2>2, <2>5
  <2>8. m \in Late
    BY <2>2, <2>4, <2>6, <2>7
  <2> HIDE DEF Late
  <2> QED
    BY <2>1, <2>2, <2>5, <2>8
<1>3. ASSUME Early # {} PROVE FALSE
  <2>1. PICK k \in Early : \A m \in Early : m <= k
    <3>1. Early \subseteq 1 .. Len(re)
      OBVIOUS
    <3> HIDE DEF Early
    <3> QED
      BY <1>1, <1>3, <3>1, LeastMark
  <2>2. k \in 1 .. Len(re) /\ Slash(k) /\ w < k /\ f[k] < c[k]
    OBVIOUS
  <2>3. PICK m \in 1 .. Len(re) : f[m] <= c[k] /\ c[k] < f[m + 1] /\
           (m = w \/ (IsMark(re[m]) /\ re[m].char = "/" /\ f[m] = c[k]))
    BY <2>2, MarkSought
  <2>4. c[k] \in Nat /\ f[k] \in Nat /\ f[m + 1] \in Nat /\ f[k + 1] \in Nat /\ f[k + 1] = f[k] + 1
    <3>1. k + 1 \in 1 .. (Len(re) + 1) /\ m + 1 \in 1 .. (Len(re) + 1)
      BY <1>1, <2>2
    <3>2. f[k + 1] = f[k] + 1
      BY <2>2, MarkPlace DEF TwoWays
    <3> QED
      BY <1>0, <2>2, <3>1, <3>2, TwoRise
  <2>5. k < m
    <3>1. f[k + 1] < f[m + 1]
      BY <2>2, <2>3, <2>4
    <3>2. k + 1 \in 1 .. (Len(re) + 1) /\ m + 1 \in 1 .. (Len(re) + 1)
      BY <1>1, <2>2
    <3>3. k + 1 < m + 1
      BY <3>1, <3>2, TwoRise
    <3> QED
      BY <3>3
  <2>6. w < m /\ m # w
    BY <1>1, <2>2, <2>5
  <2>7. c[k] < c[m]
    BY <1>0, <2>2, <2>5, TwoRise
  <2>8. m \in Early
    BY <2>3, <2>6, <2>7
  <2> HIDE DEF Early
  <2> QED
    BY <2>1, <2>2, <2>5, <2>8
<1>4. c[i] \in Nat /\ f[i] \in Nat
  BY <1>0, TwoRise
<1>5. ~(f[i] < c[i]) /\ ~(c[i] < f[i])
  BY <1>2, <1>3
<1> QED
  BY <1>4, <1>5

LEMMA MarksMeet ==
  ASSUME NEW re, NEW s, NEW c, NEW f, NEW w, TwoWays(re, s, c, f, w),
         NEW i \in 1 .. Len(re), IsMark(re[i])
  PROVE  f[i] = c[i]
<1>1. Len(re) \in Nat /\ w \in 1 .. (Len(re) + 1) /\ i # w
  BY MarksAreLiteral DEF TwoWays
<1>2. i < w \/ w < i
  BY <1>1
<1> QED
  BY <1>2, OtherMarks, SlashesBefore, SlashesBehind

\* Two captures have a mark between them, so all items are where they were.
LEMMA AllMeet ==
  ASSUME NEW re, NEW s, NEW c, NEW f, NEW w, TwoWays(re, s, c, f, w), Separated(re),
         DOMAIN re = 1 .. Len(re), NEW i \in 1 .. (Len(re) + 1)
  PROVE  f[i] = c[i]
<1> DEFINE n == Len(re)
           T == {k \in 1 .. (n + 1) : f[k] # c[k]}
<1>1. n \in Nat /\ f[1] = c[1] /\ f[n + 1] = c[n + 1]
  BY DEF TwoWays, Placement
<1>2. \A k \in 1 .. n : ~IsCapture(re[k]) => f[k + 1] = f[k] + 1 /\ c[k + 1] = c[k] + 1
  BY DEF TwoWays, Placement
<1>3. ASSUME T # {} PROVE FALSE
  <2>1. PICK k \in T : \A m \in T : k <= m
    <3>1. T \subseteq 1 .. (n + 1) /\ n + 1 \in Nat
      BY <1>1
    <3> HIDE DEF T, n
    <3> QED
      BY <1>3, <3>1, LeastMark
  <2>2. k \in 1 .. (n + 1) /\ f[k] # c[k] /\ k # 1 /\ k # n + 1
    BY <1>1
  <2> DEFINE a == k - 1
  <2>3. a \in 1 .. n /\ a \in 1 .. (n + 1) /\ a + 1 = k /\ a < k
    BY <1>1, <2>2
  <2>4. f[a] = c[a]
    <3>1. a \notin T
      BY <2>1, <2>3
    <3> QED
      BY <2>3, <3>1
  <2>5. IsCapture(re[a])
    BY <1>2, <2>2, <2>3, <2>4
  <2> DEFINE U == {j \in 1 .. (n + 1) : k < j /\ f[j] = c[j]}
  <2>6. n + 1 \in U
    BY <1>1, <2>2
  <2>7. PICK j \in U : \A m \in U : j <= m
    <3>1. U \subseteq 1 .. (n + 1) /\ n + 1 \in Nat
      BY <1>1
    <3> HIDE DEF U, n
    <3> QED
      BY <2>6, <3>1, LeastMark
  <2>8. j \in 1 .. (n + 1) /\ k < j /\ f[j] = c[j]
    OBVIOUS
  <2> DEFINE b == j - 1
  <2>9. b \in 1 .. n /\ b \in 1 .. (n + 1) /\ b + 1 = j /\ a < b /\ k <= b
    BY <1>1, <2>2, <2>3, <2>8
  <2>10. f[b] # c[b]
    <3>1. b \notin U
      BY <2>7, <2>9
    <3>2. k = b \/ k < b
      BY <2>2, <2>9
    <3> QED
      BY <2>2, <2>9, <3>1, <3>2
  <2>11. IsCapture(re[b])
    <3>1. f[b] \in Nat /\ c[b] \in Nat
      BY <2>9, TwoRise DEF n
    <3> QED
      BY <1>2, <2>8, <2>9, <2>10, <3>1
  <2> HIDE DEF T, U, a, b
  <2>12. PICK l \in a .. b : re[l].char \in Reserved
    BY <2>3, <2>5, <2>9, <2>11 DEF Separated, n
  <2>13. l \in 1 .. n /\ IsMark(re[l])
    BY <1>1, <2>3, <2>9, <2>12 DEF IsMark
  <2>14. f[l] = c[l]
    BY <2>13, MarksMeet DEF n
  <2>15. l # a /\ l # b
    BY <2>5, <2>11, <2>13, MarksAreLiteral
  <2>16. l # k /\ k < l /\ l < j
    BY <1>1, <2>2, <2>3, <2>8, <2>9, <2>12, <2>14, <2>15
  <2>17. l \in U
    BY <1>1, <2>13, <2>14, <2>16 DEF U
  <2> QED
    BY <1>1, <2>7, <2>8, <2>13, <2>16, <2>17
<1> QED
  BY <1>3

-----------------------------------------------------------------------------
(* Where the engine puts the items.                                         *)

LEMMA GreatestIs ==
  ASSUME NEW n \in Nat, NEW T, T \subseteq 1 .. n, T # {}
  PROVE  Max(T) \in T /\ \A m \in T : m <= Max(T)
<1>1. \E k \in T : \A m \in T : k >= m
  BY LeastMark
<1> QED
  BY <1>1 DEF Max

LEMMA PlacesSteps ==
  ASSUME NEW re, Len(re) \in Nat, DOMAIN re = 1 .. Len(re), NEW ends \in [Captured(re) -> Nat]
  PROVE  /\ DOMAIN Places(re, ends) = 1 .. (Len(re) + 1)
         /\ Places(re, ends)[1] = 1
         /\ \A i \in 1 .. (Len(re) + 1) : Places(re, ends)[i] \in Nat
         /\ \A i \in 1 .. Len(re) :
              Places(re, ends)[i + 1] = IF IsCapture(re[i]) THEN ends[i] ELSE Places(re, ends)[i] + 1
<1> DEFINE n == Len(re)
           Before(i) == {k \in DOMAIN ends : k < i}
           P == Places(re, ends)
<1>1. DOMAIN ends = Captured(re) /\ Captured(re) \subseteq 1 .. n /\ n \in Nat
  BY DEF Captured
<1>2. P = [i \in 1 .. (n + 1) |-> IF Before(i) = {} THEN i ELSE ends[Max(Before(i))] + (i - Max(Before(i)) - 1)]
  BY DEF Places
<1>3. \A i \in 1 .. (n + 1) : P[i] = IF Before(i) = {} THEN i ELSE ends[Max(Before(i))] + (i - Max(Before(i)) - 1)
  BY <1>2
<1>4. DOMAIN P = 1 .. (n + 1)
  BY <1>2
<1> HIDE DEF P, n
<1>5. P[1] = 1
  <2>1. Before(1) = {}
    BY <1>1
  <2>2. 1 \in 1 .. (n + 1)
    BY <1>1
  <2> HIDE DEF Before
  <2> QED
    BY <1>3, <2>1, <2>2
<1>6. \A i \in 1 .. (n + 1) : Before(i) # {} => Max(Before(i)) \in Before(i) /\ \A m \in Before(i) : m <= Max(Before(i))
  <2>1. \A i \in 1 .. (n + 1) : Before(i) \subseteq 1 .. n
    BY <1>1
  <2> HIDE DEF Before
  <2> QED
    BY <1>1, <2>1, GreatestIs
<1>7. ASSUME NEW i \in 1 .. (n + 1) PROVE P[i] \in Nat
  <2>1. CASE Before(i) = {}
    <3>1. P[i] = i
      BY <1>3, <2>1
    <3> QED
      BY <3>1, <1>1
  <2>2. CASE Before(i) # {}
    <3> DEFINE m == Max(Before(i))
    <3>1. m \in Before(i)
      BY <1>6, <2>2
    <3>2. P[i] = ends[m] + (i - m - 1)
      BY <1>3, <2>2
    <3> HIDE DEF m
    <3>3. m \in 1 .. n /\ m < i /\ ends[m] \in Nat
      BY <1>1, <3>1
    <3> QED
      BY <1>1, <3>2, <3>3
  <2> QED
    BY <2>1, <2>2
<1>8. ASSUME NEW i \in 1 .. n PROVE P[i + 1] = IF IsCapture(re[i]) THEN ends[i] ELSE P[i] + 1
  <2>1. i \in 1 .. (n + 1) /\ i + 1 \in 1 .. (n + 1) /\ i < i + 1
    BY <1>1
  <2>2. CASE IsCapture(re[i])
    <3>1. i \in Captured(re)
      BY <2>2 DEF Captured, n
    <3>2. i \in Before(i + 1) /\ \A m \in Before(i + 1) : m <= i
      BY <1>1, <2>1, <3>1
    <3> DEFINE m == Max(Before(i + 1))
    <3>3. m \in Before(i + 1) /\ i <= m
      BY <1>6, <2>1, <3>2
    <3>4. P[i + 1] = ends[m] + ((i + 1) - m - 1)
      BY <1>3, <2>1, <3>2
    <3>5. m = i
      <4>1. m <= i /\ m \in 1 .. n
        BY <1>1, <3>2, <3>3
      <4> HIDE DEF m
      <4> QED
        BY <3>3, <4>1
    <3>6. ends[i] \in Nat
      BY <3>1
    <3> HIDE DEF m
    <3> QED
      BY <2>2, <3>4, <3>5, <3>6
  <2>3. CASE ~IsCapture(re[i])
    <3>1. i \notin Captured(re)
      BY <2>3 DEF Captured
    <3>2. Before(i + 1) = Before(i)
      <4>1. \A k \in Captured(re) : k < i + 1 <=> k < i
        BY <1>1, <3>1
      <4> QED
        BY <1>1, <4>1
    <3>3. CASE Before(i) = {}
      <4>1. P[i + 1] = i + 1 /\ P[i] = i
        BY <1>3, <2>1, <3>2, <3>3
      <4> QED
        BY <2>3, <4>1
    <3>4. CASE Before(i) # {}
      <4> DEFINE m == Max(Before(i))
      <4>1. m \in Before(i)
        BY <1>6, <2>1, <3>4
      <4>2. P[i] = ends[m] + (i - m - 1) /\ P[i + 1] = ends[m] + ((i + 1) - m - 1)
        BY <1>3, <2>1, <3>2, <3>4
      <4> HIDE DEF m
      <4>3. m \in 1 .. n /\ ends[m] \in Nat
        BY <1>1, <4>1
      <4> QED
        BY <2>3, <4>2, <4>3
    <3> QED
      BY <3>3, <3>4
  <2> QED
    BY <2>2, <2>3
<1> QED
  BY <1>4, <1>5, <1>7, <1>8 DEF n, P

LEMMA FitsPlaced ==
  ASSUME NEW re, Len(re) \in Nat, DOMAIN re = 1 .. Len(re), NEW s, Len(s) \in Nat, NEW f \in Fits(re, s)
  PROVE  Placement(re, s, f) /\ f = [i \in 1 .. (Len(re) + 1) |-> f[i]]
<1>1. PICK ends \in [Captured(re) -> 2 .. (Len(s) + 1)] : f = Places(re, ends)
  BY DEF Fits
<1>2. /\ f[Len(re) + 1] = Len(s) + 1
      /\ \A i \in 1 .. Len(re) :
           IF IsCapture(re[i])
             THEN f[i] < f[i + 1] /\ (re[i].spans \/ \A k \in f[i] .. (f[i + 1] - 1) : s[k] # "/")
             ELSE f[i] <= Len(s) /\ s[f[i]] = re[i].char
  BY DEF Fits
<1>3. ends \in [Captured(re) -> Nat]
  OBVIOUS
<1>4. /\ f[1] = 1 /\ DOMAIN f = 1 .. (Len(re) + 1)
      /\ \A i \in 1 .. (Len(re) + 1) : f[i] \in Nat
      /\ \A i \in 1 .. Len(re) : f[i + 1] = IF IsCapture(re[i]) THEN ends[i] ELSE f[i] + 1
  BY <1>1, <1>3, PlacesSteps
<1>5. f = [i \in 1 .. (Len(re) + 1) |-> f[i]]
  BY <1>1, <1>4 DEF Places
<1> QED
  BY <1>2, <1>4, <1>5 DEF Placement

LEMMA PlacedFits ==
  ASSUME NEW re, Len(re) \in Nat, DOMAIN re = 1 .. Len(re), NEW s, Len(s) \in Nat,
         NEW c, c = [i \in 1 .. (Len(re) + 1) |-> c[i]], Placement(re, s, c)
  PROVE  c \in Fits(re, s)
<1> DEFINE n == Len(re)
           ends == [i \in Captured(re) |-> c[i + 1]]
<1>1. \A i \in 1 .. (n + 1) : c[i] \in Nat /\ 1 <= c[i] /\ c[i] <= Len(s) + 1 /\ (i > 1 => 2 <= c[i])
  <2>1. ASSUME NEW i \in 1 .. (n + 1) PROVE c[i] \in Nat /\ 1 <= c[i] /\ c[i] <= Len(s) + 1 /\ (i > 1 => 2 <= c[i])
    <3>1. c[1] = 1 /\ c[n + 1] = Len(s) + 1 /\ c[i] \in Nat
      BY DEF Placement
    <3>2. 1 \in 1 .. (n + 1) /\ n + 1 \in 1 .. (n + 1)
      OBVIOUS
    <3>3. (1 < i => c[1] < c[i]) /\ (i < n + 1 => c[i] < c[n + 1])
      BY <3>2, Rising
    <3>4. (i = 1 \/ 1 < i) /\ (i = n + 1 \/ i < n + 1)
      OBVIOUS
    <3> QED
      BY <3>1, <3>3, <3>4
  <2> QED
    BY <2>1
<1>2. ends \in [Captured(re) -> 2 .. (Len(s) + 1)]
  <2>1. ASSUME NEW i \in Captured(re) PROVE c[i + 1] \in 2 .. (Len(s) + 1)
    <3>1. i + 1 \in 1 .. (n + 1) /\ i + 1 > 1
      BY DEF Captured
    <3> QED
      BY <1>1, <3>1
  <2> QED
    BY <2>1
<1>3. \A i \in Captured(re) : ends[i] = c[i + 1]
  OBVIOUS
<1> HIDE DEF ends
<1> DEFINE P == Places(re, ends)
<1>4. /\ P[1] = 1 /\ DOMAIN P = 1 .. (n + 1)
      /\ \A i \in 1 .. n : P[i + 1] = IF IsCapture(re[i]) THEN ends[i] ELSE P[i] + 1
  <2>1. ends \in [Captured(re) -> Nat]
    BY <1>2
  <2> QED
    BY <2>1, PlacesSteps
<1>5. P = [i \in 1 .. (n + 1) |-> P[i]]
  BY DEF Places
<1> HIDE DEF P
<1> DEFINE T == {i \in 1 .. (n + 1) : P[i] # c[i]}
<1>6. ASSUME T # {} PROVE FALSE
  <2>1. PICK k \in T : \A m \in T : k <= m
    <3>1. T \subseteq 1 .. (n + 1) /\ n + 1 \in Nat
      OBVIOUS
    <3> HIDE DEF T
    <3> QED
      BY <1>6, <3>1, LeastMark
  <2>2. k # 1
    BY <1>4 DEF Placement
  <2>3. k - 1 \in 1 .. n /\ (k - 1) + 1 = k /\ k - 1 \in 1 .. (n + 1)
    BY <2>2
  <2>4. P[k - 1] = c[k - 1]
    <3>1. k - 1 \notin T
      BY <2>1, <2>3
    <3> QED
      BY <2>3, <3>1
  <2>5. P[k] = IF IsCapture(re[k - 1]) THEN ends[k - 1] ELSE P[k - 1] + 1
    BY <1>4, <2>3
  <2>6. CASE IsCapture(re[k - 1])
    <3>1. k - 1 \in Captured(re)
      BY <2>3, <2>6 DEF Captured
    <3>2. P[k] = c[k]
      BY <1>3, <2>3, <2>5, <2>6, <3>1
    <3> QED
      BY <3>2
  <2>7. CASE ~IsCapture(re[k - 1])
    <3>1. c[k] = c[k - 1] + 1
      BY <2>3, <2>7 DEF Placement
    <3> QED
      BY <2>4, <2>5, <2>7, <3>1
  <2> QED
    BY <2>6, <2>7
<1>7. P = c
  <2>1. \A i \in 1 .. (n + 1) : P[i] = c[i]
    BY <1>6
  <2> HIDE DEF n
  <2> QED
    BY <1>5, <2>1 DEF n
<1>8. \A i \in DOMAIN re :
           IF IsCapture(re[i])
             THEN c[i] < c[i + 1] /\ (re[i].spans \/ \A k \in c[i] .. (c[i + 1] - 1) : s[k] # "/")
             ELSE c[i] <= Len(s) /\ s[c[i]] = re[i].char
  <2>1. ASSUME NEW i \in 1 .. n, ~IsCapture(re[i]) PROVE c[i] <= Len(s) /\ s[c[i]] = re[i].char
    <3>1. c[i + 1] = c[i] + 1 /\ s[c[i]] = re[i].char
      BY <2>1 DEF Placement
    <3>2. i + 1 \in 1 .. (n + 1) /\ i \in 1 .. (n + 1)
      OBVIOUS
    <3>3. c[i + 1] <= Len(s) + 1 /\ c[i] \in Nat
      BY <1>1, <3>2
    <3> QED
      BY <3>1, <3>3
  <2>2. ASSUME NEW i \in 1 .. n, IsCapture(re[i])
        PROVE  c[i] < c[i + 1] /\ (re[i].spans \/ \A k \in c[i] .. (c[i + 1] - 1) : s[k] # "/")
    BY <2>2 DEF Placement
  <2> QED
    BY <2>1, <2>2
<1>9. c[n + 1] = Len(s) + 1
  BY DEF Placement
<1>10. c \in {Places(re, e) : e \in [Captured(re) -> 2 .. (Len(s) + 1)]}
  BY <1>2, <1>7 DEF P
<1> QED
  BY <1>8, <1>9, <1>10 DEF Fits

\* A match that can be made in one way only.
LEMMA OnlyMatch ==
  ASSUME NEW re, DOMAIN re = 1 .. Len(re), NEW s, NEW c, NEW w, TwoWays(re, s, c, c, w), Separated(re),
         c = [i \in 1 .. (Len(re) + 1) |-> c[i]], NEW lazy
  PROVE  Fits(re, s) = {c} /\ Best(re, s, lazy) = c
<1>1. Len(re) \in Nat /\ Len(s) \in Nat /\ Placement(re, s, c)
  BY DEF TwoWays
<1>2. c \in Fits(re, s)
  BY <1>1, PlacedFits
<1>3. ASSUME NEW f \in Fits(re, s) PROVE f = c
  <2>1. Placement(re, s, f) /\ f = [i \in 1 .. (Len(re) + 1) |-> f[i]]
    BY <1>1, FitsPlaced
  <2>2. TwoWays(re, s, c, f, w)
    BY <2>1 DEF TwoWays
  <2>3. \A i \in 1 .. (Len(re) + 1) : f[i] = c[i]
    BY <2>2, AllMeet
  <2> QED
    BY <2>1, <2>3
<1>4. Fits(re, s) = {c}
  BY <1>2, <1>3
<1>5. Prefers(c, c, lazy)
  BY DEF Prefers
<1>6. \A f \in {c} : (\A g \in {c} : Prefers(f, g, lazy)) <=> f = c
  BY <1>5
<1>7. Best(re, s, lazy) = CHOOSE f \in {c} : \A g \in {c} : Prefers(f, g, lazy)
  BY <1>4 DEF Best
<1>8. (CHOOSE f \in {c} : \A g \in {c} : Prefers(f, g, lazy)) = c
  OBVIOUS
<1> QED
  BY <1>4, <1>7, <1>8

PlacesAll(re, c) == c = [i \in 1 .. (Len(re) + 1) |-> c[i]]
Found(re, val) == [matched |-> TRUE, vars |-> [n \in {re[i].name : i \in Captured(re)} |-> val[n]]]

\* What the variables of such a match are.
LEMMA OnlyVars ==
  ASSUME NEW re, DOMAIN re = 1 .. Len(re), NEW s, NEW c, NEW w, TwoWays(re, s, c, c, w), Separated(re),
         PlacesAll(re, c), NEW lazy, NEW val,
         \A i \in Captured(re) : Unescape(SubSeq(s, c[i], c[i + 1] - 1)) = val[re[i].name]
  PROVE  Unescaped(Match(re, s, lazy)) = Found(re, val)
<1> DEFINE names == {re[i].name : i \in Captured(re)}
           Of(n) == {i \in Captured(re) : re[i].name = n}
           found == [n \in names |-> SubSeq(s, c[Max(Of(n))], c[Max(Of(n)) + 1] - 1)]
<1>1. Fits(re, s) # {} /\ Best(re, s, lazy) = c
  <2>1. c = [i \in 1 .. (Len(re) + 1) |-> c[i]]
    BY DEF PlacesAll
  <2>2. Fits(re, s) = {c} /\ Best(re, s, lazy) = c
    BY <2>1, OnlyMatch
  <2> QED
    BY <2>2
<1>2. Match(re, s, lazy) = [matched |-> TRUE, vars |-> found]
  BY <1>1 DEF Match
<1>3. \A n \in names : Unescape(found[n]) = val[n]
  <2>1. ASSUME NEW n \in names PROVE Unescape(found[n]) = val[n]
    <3>1. Of(n) # {} /\ Of(n) \subseteq 1 .. Len(re)
      BY DEF Captured
    <3>2. Len(re) \in Nat
      BY DEF TwoWays
    <3>3. Max(Of(n)) \in Of(n)
      <4> HIDE DEF Of
      <4> QED
        BY <3>1, <3>2, GreatestIs
    <3>4. Max(Of(n)) \in Captured(re) /\ re[Max(Of(n))].name = n
      BY <3>3
    <3>5. found[n] = SubSeq(s, c[Max(Of(n))], c[Max(Of(n)) + 1] - 1)
      OBVIOUS
    <3> HIDE DEF Of, found
    <3> QED
      BY <3>4, <3>5
  <2> QED
    BY <2>1
<1>4. Unescaped([matched |-> TRUE, vars |-> found]) = [matched |-> TRUE, vars |-> [n \in names |-> Unescape(found[n])]]
  <2>1. DOMAIN found = names
    OBVIOUS
  <2> DEFINE r == [matched |-> TRUE, vars |-> found]
  <2>2. r.vars = found
    OBVIOUS
  <2> HIDE DEF found, names
  <2>3. ASSUME NEW x PROVE [r EXCEPT !.vars = x] = [matched |-> TRUE, vars |-> x]
    <3> DEFINE V == {found, x}
    <3>1. r \in [matched : BOOLEAN, vars : V] /\ x \in V /\ r.matched = TRUE
      OBVIOUS
    <3> HIDE DEF r, V
    <3>2. [r EXCEPT !.vars = x] = [matched |-> r.matched, vars |-> x]
      BY <3>1
    <3> QED
      BY <3>1, <3>2
  <2>4. Unescaped(r) = [r EXCEPT !.vars = [n \in DOMAIN r.vars |-> Unescape(r.vars[n])]]
    BY DEF Unescaped
  <2> HIDE DEF r
  <2>5. Unescaped(r) = [r EXCEPT !.vars = [n \in names |-> Unescape(found[n])]]
    BY <2>1, <2>2, <2>4
  <2> QED
    BY <2>3, <2>5 DEF r
<1>5. [n \in names |-> Unescape(found[n])] = [n \in names |-> val[n]]
  BY <1>3
<1> HIDE DEF found
<1> QED
  BY <1>2, <1>4, <1>5 DEF Found

-----------------------------------------------------------------------------
(* A text made of literals and encoded values.                              *)

\* The items of an expression whose captures have these names.
Item(N) == {Literal(c) : c \in Char} \cup {Capture(n, spans) : n \in N, spans \in BOOLEAN}

\* The text an expression stands for when its captures have these values.
Block(item, val) == IF IsCapture(item) THEN fmEncode(val[item.name], item.spans) ELSE <<item.char>>
Blocks(re, val) == [i \in DOMAIN re |-> Block(re[i], val)]

LEMMA FreeChars == \A w \in BOOLEAN : Free(w) \subseteq Char
BY CharKinds DEF Free, Reserved

LEMMA FreeReserved == \A w \in BOOLEAN : \A c \in Free(w) : c \in Reserved => c = "/" /\ w
BY CharKinds DEF Free

LEMMA SlashReserved == \A w \in BOOLEAN : "/" \in Free(w) => w
BY FreeReserved DEF Reserved

LEMMA ItemIs ==
  ASSUME NEW N, NEW item \in Item(N)
  PROVE  /\ item.spans \in BOOLEAN
         /\ IsCapture(item) => item.name \in N
         /\ ~IsCapture(item) => item.char \in Char
<1>1. CASE \E c \in Char : item = Literal(c)
  <2>1. PICK c \in Char : item = Literal(c)
    BY <1>1
  <2>2. item.char = c /\ item.spans = FALSE
    BY <2>1 DEF Literal
  <2>3. c # ""
    BY DEF Char, Unreserved, Hex, Code, Reserved
  <2> QED
    BY <2>2, <2>3 DEF IsCapture
<1>2. CASE \E n \in N, spans \in BOOLEAN : item = Capture(n, spans)
  <2>1. PICK n \in N, spans \in BOOLEAN : item = Capture(n, spans)
    BY <1>2
  <2> QED
    BY <2>1 DEF Capture, IsCapture
<1> QED
  BY <1>1, <1>2 DEF Item

LEMMA ItemsAre ==
  ASSUME NEW N, NEW re \in Seq(Item(N)), NEW i \in 1 .. Len(re)
  PROVE  /\ Len(re) \in Nat /\ DOMAIN re = 1 .. Len(re) /\ re[i].spans \in BOOLEAN
         /\ i \in Captured(re) <=> IsCapture(re[i])
         /\ IsCapture(re[i]) => re[i].name \in N
         /\ ~IsCapture(re[i]) => re[i].char \in Char
<1>1. Len(re) \in Nat /\ DOMAIN re = 1 .. Len(re) /\ re[i] \in Item(N)
  BY LenProperties, ElementOfSeq
<1> QED
  BY <1>1, ItemIs DEF Captured

LEMMA BlockTyped ==
  ASSUME NEW N, NEW re \in Seq(Item(N)), NEW val, \A n \in N : val[n] \in Seq(Char), NEW i \in 1 .. Len(re)
  PROVE  /\ Block(re[i], val) \in Seq(Char)
         /\ IsCapture(re[i]) => Block(re[i], val) \in Seq(Free(re[i].spans))
<1>1. CASE IsCapture(re[i])
  <2>1. /\ Block(re[i], val) = fmEncode(val[re[i].name], re[i].spans) /\ re[i].spans \in BOOLEAN
        /\ val[re[i].name] \in Seq(Char)
    BY <1>1, ItemsAre DEF Block
  <2>2. fmEncode(val[re[i].name], re[i].spans) \in Seq(Free(re[i].spans))
    BY <1>1, <2>1, EncodingFree
  <2>3. Free(re[i].spans) \subseteq Char
    BY <2>1, FreeChars
  <2> QED
    BY <2>1, <2>2, <2>3
<1>2. CASE ~IsCapture(re[i])
  <2>1. Block(re[i], val) = <<re[i].char>> /\ re[i].char \in Char
    BY <1>2, ItemsAre DEF Block
  <2> QED
    BY <1>2, <2>1
<1> QED
  BY <1>1, <1>2

LEMMA BlocksTyped ==
  ASSUME NEW N, NEW re \in Seq(Item(N)), NEW val, \A n \in N : val[n] \in Seq(Char)
  PROVE  /\ Blocks(re, val) \in Seq(Seq(Char)) /\ Len(Blocks(re, val)) = Len(re)
         /\ FlattenSeq(Blocks(re, val)) \in Seq(Char)
         /\ \A i \in 1 .. Len(re) : Blocks(re, val)[i] = Block(re[i], val)
<1>1. Len(re) \in Nat /\ DOMAIN re = 1 .. Len(re)
  BY LenProperties
<1>2. \A i \in 1 .. Len(re) : Block(re[i], val) \in Seq(Char)
  BY BlockTyped
<1>3. Blocks(re, val) \in Seq(Seq(Char)) /\ Len(Blocks(re, val)) = Len(re)
  BY <1>1, <1>2 DEF Blocks
<1>4. FlattenSeq(Blocks(re, val)) \in Seq(Char)
  BY <1>3, FlattenTyped
<1> QED
  BY <1>1, <1>3, <1>4 DEF Blocks

\* What the blocks make is placed as they are, and its captures are clean.
LEMMA BlocksPlaced ==
  ASSUME NEW N, NEW re \in Seq(Item(N)), NEW val, \A n \in N : val[n] \in Seq(Char) \ {<<>>},
         NEW s, s = FlattenSeq(Blocks(re, val)), NEW c, Laid(Blocks(re, val), s, c)
  PROVE  Placement(re, s, c) /\ Clean(re, s, c)
<1> DEFINE n == Len(re)
           bb == Blocks(re, val)
<1>1. \A m \in N : val[m] \in Seq(Char)
  OBVIOUS
<1>2. bb \in Seq(Seq(Char)) /\ Len(bb) = n /\ n \in Nat /\ \A i \in 1 .. n : bb[i] = Block(re[i], val)
  BY <1>1, BlocksTyped, LenProperties
<1> HIDE DEF n, bb
<1>3. /\ c[1] = 1 /\ c[n + 1] = Len(s) + 1
      /\ \A i \in 1 .. (n + 1) : c[i] \in Nat
      /\ \A i \in 1 .. n : c[i + 1] = c[i] + Len(bb[i])
      /\ \A i \in 1 .. n : \A k \in 1 .. Len(bb[i]) : s[c[i] + k - 1] = bb[i][k]
  BY <1>2 DEF Laid, bb
<1>4. ASSUME NEW i \in 1 .. n, IsCapture(re[i])
      PROVE  /\ c[i] < c[i + 1]
             /\ \A k \in c[i] .. (c[i + 1] - 1) : s[k] \in Free(re[i].spans)
             /\ re[i].spans \in BOOLEAN
  <2>1. re[i].name \in N /\ re[i].spans \in BOOLEAN
    BY <1>4, ItemsAre DEF n
  <2>2. val[re[i].name] \in Seq(Char) /\ val[re[i].name] # <<>>
    BY <2>1
  <2>3. bb[i] = fmEncode(val[re[i].name], re[i].spans) /\ bb[i] # <<>>
    BY <1>2, <1>4, <2>1, <2>2, Decoding DEF Block
  <2>4. bb[i] \in Seq(Free(re[i].spans))
    BY <2>1, <2>2, <2>3, EncodingFree
  <2>5. Len(bb[i]) \in Nat /\ Len(bb[i]) # 0
    BY <2>3, <2>4, LenProperties, EmptySeq
  <2>6. c[i] \in Nat /\ c[i + 1] = c[i] + Len(bb[i])
    <3>1. i \in 1 .. (n + 1)
      BY <1>2
    <3> QED
      BY <1>3, <3>1
  <2>7. ASSUME NEW k \in c[i] .. (c[i + 1] - 1) PROVE s[k] \in Free(re[i].spans)
    <3> DEFINE l == k - c[i] + 1
    <3>1. l \in 1 .. Len(bb[i]) /\ c[i] + l - 1 = k
      BY <2>5, <2>6
    <3> HIDE DEF l
    <3>2. s[k] = bb[i][l]
      BY <1>3, <3>1
    <3>3. bb[i][l] \in Free(re[i].spans)
      BY <2>4, <3>1, ElementOfSeq
    <3> QED
      BY <3>2, <3>3
  <2> QED
    BY <2>1, <2>5, <2>6, <2>7
<1>5. ASSUME NEW i \in 1 .. n, ~IsCapture(re[i]) PROVE c[i + 1] = c[i] + 1 /\ s[c[i]] = re[i].char
  <2>1. bb[i] = <<re[i].char>> /\ Len(bb[i]) = 1 /\ bb[i][1] = re[i].char
    BY <1>2, <1>5 DEF Block
  <2>2. c[i] \in Nat
    <3>1. i \in 1 .. (n + 1)
      BY <1>2
    <3> QED
      BY <1>3, <3>1
  <2>3. s[c[i] + 1 - 1] = bb[i][1] /\ c[i] + 1 - 1 = c[i]
    <3>1. 1 \in 1 .. Len(bb[i])
      BY <2>1
    <3> QED
      BY <1>3, <2>2, <3>1
  <2> QED
    BY <1>3, <2>1, <2>3
<1>6. \A i \in 1 .. n : IsCapture(re[i]) =>
        c[i] < c[i + 1] /\ (re[i].spans \/ \A k \in c[i] .. (c[i + 1] - 1) : s[k] # "/")
  BY <1>4, SlashReserved
<1>7. Placement(re, s, c)
  BY <1>3, <1>5, <1>6 DEF Placement, n
<1>8. Clean(re, s, c)
  BY <1>4, FreeReserved DEF Clean, n
<1> QED
  BY <1>7, <1>8

\* A text made of an expression's literals and encoded values is matched by the
\* expression in one way, and what its captures take decodes to the values.
THEOREM RoundMatch ==
  ASSUME NEW N, NEW re \in Seq(Item(N)), NEW val, \A n \in N : val[n] \in Seq(Char) \ {<<>>},
         Separated(re), \A i, j \in Captured(re) : re[i].spans /\ re[j].spans => i = j, NEW lazy
  PROVE  Unescaped(Match(re, FlattenSeq(Blocks(re, val)), lazy)) = Found(re, val)
<1> DEFINE n == Len(re)
           bb == Blocks(re, val)
           s == FlattenSeq(bb)
<1>1. \A m \in N : val[m] \in Seq(Char)
  OBVIOUS
<1>2. /\ bb \in Seq(Seq(Char)) /\ Len(bb) = n /\ n \in Nat /\ DOMAIN re = 1 .. n
      /\ \A i \in 1 .. n : bb[i] = Block(re[i], val)
      /\ s \in Seq(Char) /\ Len(s) \in Nat
  BY <1>1, BlocksTyped, LenProperties
<1> HIDE DEF bb, n, s
<1>3. PICK a : Laid(bb, s, a)
  BY <1>2, FlattenLaid DEF s
<1> DEFINE c == [i \in 1 .. (n + 1) |-> a[i]]
<1>4. \A i \in 1 .. (n + 1) : c[i] = a[i]
  OBVIOUS
<1>5. c = [i \in 1 .. (n + 1) |-> c[i]]
  OBVIOUS
<1> HIDE DEF c
<1>6. Laid(bb, s, c)
  <2>1. /\ \A i \in 1 .. n : c[i] = a[i] /\ c[i + 1] = a[i + 1]
        /\ c[1] = a[1] /\ c[n + 1] = a[n + 1]
    <3>1. /\ \A i \in 1 .. n : i \in 1 .. (n + 1) /\ i + 1 \in 1 .. (n + 1)
          /\ 1 \in 1 .. (n + 1) /\ n + 1 \in 1 .. (n + 1)
      BY <1>2
    <3> QED
      BY <1>4, <3>1
  <2>2. /\ a[1] = 1 /\ a[n + 1] = Len(s) + 1
        /\ \A i \in 1 .. (n + 1) : a[i] \in Nat /\ 1 <= a[i] /\ a[i] <= Len(s) + 1
        /\ \A i \in 1 .. n : a[i + 1] = a[i] + Len(bb[i])
        /\ \A i \in 1 .. n : \A k \in 1 .. Len(bb[i]) : s[a[i] + k - 1] = bb[i][k]
    BY <1>2, <1>3 DEF Laid
  <2>3. /\ c[1] = 1 /\ c[n + 1] = Len(s) + 1
        /\ \A i \in 1 .. (n + 1) : c[i] \in Nat /\ 1 <= c[i] /\ c[i] <= Len(s) + 1
        /\ \A i \in 1 .. n : c[i + 1] = c[i] + Len(bb[i])
    BY <1>4, <2>1, <2>2
  <2>4. \A i \in 1 .. n : \A k \in 1 .. Len(bb[i]) : s[c[i] + k - 1] = bb[i][k]
    BY <2>1, <2>2
  <2> QED
    BY <1>2, <2>3, <2>4 DEF Laid
<1>7. Placement(re, s, c) /\ Clean(re, s, c)
  BY <1>6, BlocksPlaced DEF s, bb
<1>8. PICK w \in 1 .. (n + 1) : /\ w \in 1 .. n => IsCapture(re[w])
                               /\ \A i \in 1 .. n : IsCapture(re[i]) /\ re[i].spans => i = w
  <2>1. \A i \in 1 .. n : i \in Captured(re) <=> IsCapture(re[i])
    BY ItemsAre DEF n
  <2>2. CASE \E i \in Captured(re) : re[i].spans
    <3>1. PICK w \in Captured(re) : re[w].spans
      BY <2>2
    <3>2. w \in 1 .. n /\ w \in 1 .. (n + 1) /\ IsCapture(re[w])
      BY <1>2, <2>1 DEF Captured
    <3>3. \A i \in 1 .. n : IsCapture(re[i]) /\ re[i].spans => i = w
      BY <2>1, <3>1
    <3> QED
      BY <3>2, <3>3
  <2>3. CASE ~\E i \in Captured(re) : re[i].spans
    <3>1. n + 1 \in 1 .. (n + 1) /\ n + 1 \notin 1 .. n
      BY <1>2
    <3>2. \A i \in 1 .. n : ~(IsCapture(re[i]) /\ re[i].spans)
      BY <2>1, <2>3
    <3> QED
      BY <3>1, <3>2
  <2> QED
    BY <2>2, <2>3
<1>9. TwoWays(re, s, c, c, w)
  BY <1>2, <1>7, <1>8 DEF TwoWays, n
<1>10. \A i \in Captured(re) : Unescape(SubSeq(s, c[i], c[i + 1] - 1)) = val[re[i].name]
  <2>1. ASSUME NEW i \in Captured(re) PROVE Unescape(SubSeq(s, c[i], c[i + 1] - 1)) = val[re[i].name]
    <3>1. i \in 1 .. n /\ IsCapture(re[i]) /\ re[i].spans \in BOOLEAN /\ re[i].name \in N
      <4>1. i \in 1 .. n
        BY <1>2 DEF Captured
      <4> QED
        BY <4>1, ItemsAre DEF n
    <3>2. SubSeq(s, c[i], c[i + 1] - 1) = bb[i]
      BY <1>2, <1>6, <3>1, LaidPart
    <3>3. bb[i] = fmEncode(val[re[i].name], re[i].spans)
      BY <1>2, <3>1 DEF Block
    <3> QED
      BY <1>1, <3>1, <3>2, <3>3, Decoding
  <2> QED
    BY <2>1
<1>11. DOMAIN re = 1 .. Len(re) /\ PlacesAll(re, c)
  BY <1>2, <1>5 DEF n, PlacesAll
<1>12. Unescaped(Match(re, s, lazy)) = Found(re, val)
  BY <1>9, <1>10, <1>11, OnlyVars
<1> QED
  BY <1>12 DEF s, bb

Render(re, val) == FlattenSeq(Blocks(re, val))
CaptureNames(re) == {re[i].name : i \in Captured(re)}

LEMMA RenderTyped ==
  ASSUME NEW N, NEW val, \A n \in N : val[n] \in Seq(Char), NEW re \in Seq(Item(N))
  PROVE  Render(re, val) \in Seq(Char)
BY BlocksTyped DEF Render

LEMMA RenderConcat ==
  ASSUME NEW N, NEW val, \A n \in N : val[n] \in Seq(Char), NEW a \in Seq(Item(N)), NEW b \in Seq(Item(N))
  PROVE  Render(a \o b, val) = Render(a, val) \o Render(b, val)
<1> DEFINE ab == a \o b
           A == Blocks(a, val)
           B == Blocks(b, val)
           AB == A \o B
           C == Blocks(ab, val)
<1>1. /\ ab \in Seq(Item(N)) /\ Len(ab) = Len(a) + Len(b) /\ Len(a) \in Nat /\ Len(b) \in Nat
      /\ \A i \in 1 .. (Len(a) + Len(b)) : ab[i] = IF i <= Len(a) THEN a[i] ELSE b[i - Len(a)]
  BY ConcatProperties, LenProperties
<1> HIDE DEF ab
<1>2. /\ A \in Seq(Seq(Char)) /\ Len(A) = Len(a) /\ \A i \in 1 .. Len(a) : A[i] = Block(a[i], val)
      /\ B \in Seq(Seq(Char)) /\ Len(B) = Len(b) /\ \A i \in 1 .. Len(b) : B[i] = Block(b[i], val)
      /\ C \in Seq(Seq(Char)) /\ Len(C) = Len(ab) /\ \A i \in 1 .. Len(ab) : C[i] = Block(ab[i], val)
  BY <1>1, BlocksTyped
<1> HIDE DEF A, B, C
<1>3. /\ AB \in Seq(Seq(Char)) /\ Len(AB) = Len(a) + Len(b)
      /\ \A i \in 1 .. (Len(a) + Len(b)) : AB[i] = IF i <= Len(a) THEN A[i] ELSE B[i - Len(a)]
  <2>1. /\ AB \in Seq(Seq(Char)) /\ Len(AB) = Len(A) + Len(B)
        /\ \A i \in 1 .. (Len(A) + Len(B)) : AB[i] = IF i <= Len(A) THEN A[i] ELSE B[i - Len(A)]
    <3>1. A \in Seq(Seq(Char)) /\ B \in Seq(Seq(Char))
      BY <1>2
    <3> QED
      BY <3>1, ConcatProperties
  <2> HIDE DEF AB
  <2> QED
    BY <1>2, <2>1
<1> HIDE DEF AB
<1>4. \A i \in 1 .. Len(C) : C[i] = AB[i]
  <2>1. ASSUME NEW i \in 1 .. (Len(a) + Len(b)) PROVE C[i] = AB[i]
    <3>1. CASE i <= Len(a)
      <4>1. i \in 1 .. Len(a)
        BY <1>1, <3>1
      <4> QED
        BY <1>1, <1>2, <1>3, <3>1, <4>1
    <3>2. CASE ~(i <= Len(a))
      <4>1. i - Len(a) \in 1 .. Len(b)
        BY <1>1, <3>2
      <4> QED
        BY <1>1, <1>2, <1>3, <3>2, <4>1
    <3> QED
      BY <3>1, <3>2
  <2> QED
    BY <1>1, <1>2, <2>1
<1>5. C = AB
  BY <1>1, <1>2, <1>3, <1>4, SeqEqual
<1>6. FlattenSeq(AB) = FlattenSeq(A) \o FlattenSeq(B)
  BY <1>2, FlattenConcat DEF AB
<1> QED
  BY <1>5, <1>6 DEF Render, A, B, C, ab

LEMMA RenderFlatten ==
  ASSUME NEW N, NEW val, \A n \in N : val[n] \in Seq(Char), NEW rr \in Seq(Seq(Item(N)))
  PROVE  Render(FlattenSeq(rr), val) = FlattenSeq([i \in DOMAIN rr |-> Render(rr[i], val)])
<1> DEFINE R == [r \in Seq(Item(N)) |-> Render(r, val)]
           T == {qq \in Seq(Seq(Item(N))) : Render(FlattenSeq(qq), val) = FlattenSeq(Mapped(R, qq))}
<1>1. \A r \in Seq(Item(N)) : R[r] = Render(r, val) /\ R[r] \in Seq(Char)
  BY RenderTyped
<1> HIDE DEF R
<1>2. <<>> \in T
  <2>1. Mapped(R, <<>>) = <<>> /\ Blocks(<<>>, val) = <<>>
    BY DEF Mapped, Blocks
  <2>2. Render(FlattenSeq(<<>>), val) = <<>>
    BY <2>1, FlattenEmpty DEF Render
  <2> QED
    BY <2>1, <2>2, FlattenEmpty
<1>3. ASSUME NEW qq \in Seq(Seq(Item(N))), NEW x \in Seq(Item(N)), qq \in T PROVE Append(qq, x) \in T
  <2>1. Append(qq, x) \in Seq(Seq(Item(N))) /\ FlattenSeq(qq) \in Seq(Item(N))
    BY AppendProperties, FlattenTyped
  <2>2. FlattenSeq(Append(qq, x)) = FlattenSeq(qq) \o x
    BY FlattenSnoc
  <2>3. Render(FlattenSeq(qq) \o x, val) = Render(FlattenSeq(qq), val) \o Render(x, val)
    BY <2>1, RenderConcat
  <2>4. Mapped(R, qq) \in Seq(Seq(Char)) /\ R[x] = Render(x, val) /\ R[x] \in Seq(Char)
    <3>1. Mapped(R, qq) \in Seq(Seq(Char))
      BY <1>1, MappedTyped
    <3> QED
      BY <1>1, <3>1
  <2>5. Mapped(R, Append(qq, x)) = Append(Mapped(R, qq), R[x])
    BY MappedSnoc
  <2>6. FlattenSeq(Append(Mapped(R, qq), R[x])) = FlattenSeq(Mapped(R, qq)) \o R[x]
    BY <2>4, FlattenSnoc
  <2>7. Render(FlattenSeq(qq), val) = FlattenSeq(Mapped(R, qq))
    BY <1>3
  <2>8. Render(FlattenSeq(Append(qq, x)), val) = FlattenSeq(Mapped(R, Append(qq, x)))
    BY <2>2, <2>3, <2>4, <2>5, <2>6, <2>7
  <2> QED
    BY <2>1, <2>8
<1>4. Seq(Seq(Item(N))) \subseteq T
  <2> HIDE DEF T
  <2> QED
    BY <1>2, <1>3, Growing
<1>5. Mapped(R, rr) = [i \in DOMAIN rr |-> Render(rr[i], val)]
  <2>1. \A i \in DOMAIN rr : rr[i] \in Seq(Item(N))
    BY LenProperties, ElementOfSeq
  <2> QED
    BY <1>1, <2>1 DEF Mapped
<1> QED
  BY <1>4, <1>5

LEMMA NamesConcat ==
  ASSUME NEW S, NEW a \in Seq(S), NEW b \in Seq(S)
  PROVE  CaptureNames(a \o b) = CaptureNames(a) \cup CaptureNames(b)
<1> DEFINE ab == a \o b
<1>1. /\ ab \in Seq(S) /\ Len(ab) = Len(a) + Len(b) /\ Len(a) \in Nat /\ Len(b) \in Nat
      /\ \A i \in 1 .. (Len(a) + Len(b)) : ab[i] = IF i <= Len(a) THEN a[i] ELSE b[i - Len(a)]
  BY ConcatProperties, LenProperties
<1> HIDE DEF ab
<1>2. DOMAIN a = 1 .. Len(a) /\ DOMAIN b = 1 .. Len(b) /\ DOMAIN ab = 1 .. (Len(a) + Len(b))
  BY <1>1, LenProperties
<1>3. ASSUME NEW i \in Captured(ab) PROVE ab[i].name \in CaptureNames(a) \cup CaptureNames(b)
  <2>1. i \in 1 .. (Len(a) + Len(b)) /\ IsCapture(ab[i])
    BY <1>2 DEF Captured
  <2>2. CASE i <= Len(a)
    <3>1. i \in Captured(a) /\ ab[i] = a[i]
      BY <1>1, <1>2, <2>1, <2>2 DEF Captured
    <3> QED
      BY <3>1 DEF CaptureNames
  <2>3. CASE ~(i <= Len(a))
    <3>1. i - Len(a) \in Captured(b) /\ ab[i] = b[i - Len(a)]
      BY <1>1, <1>2, <2>1, <2>3 DEF Captured
    <3> QED
      BY <3>1 DEF CaptureNames
  <2> QED
    BY <2>2, <2>3
<1>4. ASSUME NEW i \in Captured(a) PROVE a[i].name \in CaptureNames(ab)
  <2>1. i \in 1 .. Len(a) /\ IsCapture(a[i]) /\ i \in 1 .. (Len(a) + Len(b)) /\ i <= Len(a)
    BY <1>1, <1>2 DEF Captured
  <2>2. i \in Captured(ab) /\ ab[i] = a[i]
    BY <1>1, <1>2, <2>1 DEF Captured
  <2> QED
    BY <2>2 DEF CaptureNames
<1>5. ASSUME NEW i \in Captured(b) PROVE b[i].name \in CaptureNames(ab)
  <2> DEFINE j == i + Len(a)
  <2>1. i \in 1 .. Len(b) /\ IsCapture(b[i])
    BY <1>2 DEF Captured
  <2>2. j \in 1 .. (Len(a) + Len(b)) /\ ~(j <= Len(a)) /\ j - Len(a) = i
    BY <1>1, <2>1
  <2> HIDE DEF j
  <2>3. j \in Captured(ab) /\ ab[j] = b[i]
    BY <1>1, <1>2, <2>1, <2>2 DEF Captured
  <2> QED
    BY <2>3 DEF CaptureNames
<1>6. CaptureNames(ab) = CaptureNames(a) \cup CaptureNames(b)
  BY <1>3, <1>4, <1>5 DEF CaptureNames
<1> QED
  BY <1>6 DEF ab

LEMMA NamesFlatten ==
  ASSUME NEW S, NEW rr \in Seq(Seq(S))
  PROVE  CaptureNames(FlattenSeq(rr)) = UNION {CaptureNames(rr[i]) : i \in DOMAIN rr}
<1> DEFINE All(qq) == UNION {CaptureNames(qq[i]) : i \in DOMAIN qq}
           T == {qq \in Seq(Seq(S)) : CaptureNames(FlattenSeq(qq)) = All(qq)}
<1>1. <<>> \in T
  <2>1. CaptureNames(<<>>) = {} /\ All(<<>>) = {}
    BY DEF CaptureNames, Captured
  <2> QED
    BY <2>1, FlattenEmpty
<1>2. ASSUME NEW qq \in Seq(Seq(S)), NEW x \in Seq(S), qq \in T PROVE Append(qq, x) \in T
  <2> DEFINE n == Len(qq)
             pp == Append(qq, x)
  <2>1. /\ pp \in Seq(Seq(S)) /\ n \in Nat /\ DOMAIN qq = 1 .. n /\ Len(pp) = n + 1 /\ pp[n + 1] = x
        /\ \A i \in 1 .. n : pp[i] = qq[i]
    BY AppendProperties, LenProperties
  <2> HIDE DEF pp, n
  <2>2. DOMAIN pp = 1 .. (n + 1)
    BY <2>1, LenProperties
  <2>3. All(pp) = All(qq) \cup CaptureNames(x)
    <3>1. \A i \in 1 .. (n + 1) : i \in 1 .. n \/ i = n + 1
      BY <2>1
    <3>2. \A i \in 1 .. n : i \in 1 .. (n + 1)
      BY <2>1
    <3>3. n + 1 \in 1 .. (n + 1)
      BY <2>1
    <3> QED
      BY <2>1, <2>2, <3>1, <3>2, <3>3
  <2>4. FlattenSeq(qq) \in Seq(S)
    BY FlattenTyped
  <2>5. FlattenSeq(pp) = FlattenSeq(qq) \o x
    BY FlattenSnoc DEF pp
  <2>6. CaptureNames(FlattenSeq(qq) \o x) = CaptureNames(FlattenSeq(qq)) \cup CaptureNames(x)
    BY <2>4, NamesConcat
  <2>7. CaptureNames(FlattenSeq(qq)) = All(qq)
    BY <1>2
  <2> HIDE DEF All
  <2>8. CaptureNames(FlattenSeq(pp)) = All(pp)
    BY <2>3, <2>5, <2>6, <2>7
  <2> QED
    BY <2>1, <2>8 DEF pp
<1>3. Seq(Seq(S)) \subseteq T
  <2> HIDE DEF T
  <2> QED
    BY <1>1, <1>2, Growing
<1> QED
  BY <1>3

-----------------------------------------------------------------------------
(* RFC 6570: what is expanded, and what is matched.                         *)

\* What is known of the parts of any template.
PartTyped(p) ==
  /\ p.lit \in Seq(Char) /\ Len(p.vars) \in Nat /\ DOMAIN p.vars = 1 .. Len(p.vars)
  /\ \A j \in DOMAIN p.vars : p.vars[j].prefix \in Int

\* A part that can be matched, of variables that are given.
PartFits(p, given) ==
  /\ PartTyped(p) /\ p.op \in {"", "/"} /\ utEncode(p.lit, "U+R") = p.lit
  /\ \A j \in DOMAIN p.vars :
       ~p.vars[j].explode /\ p.vars[j].prefix < 0 /\ p.vars[j].name \in DOMAIN given

GivenTexts(given) ==
  \A n \in DOMAIN given : /\ given[n].kind = "string" /\ Len(given[n].items) = 1
                          /\ given[n].items[1] \in Seq(Char) \ {<<>>}
Texts(given) == [n \in DOMAIN given |-> given[n].items[1]]

\* One variable of an expression, and a whole part, as Regexp and Expand have them.
VarRegexp(e, j) ==
  (CASE e.op = "/" -> <<Literal("/")>>
     [] j > 1 /\ e.op # "/" -> <<Literal(",")>>
     [] OTHER -> <<>>)
  \o <<Capture(e.vars[j].name, e.op = "+")>>
PartRegexp(p) ==
  IF IsLiteral(p) THEN Literals(p.lit) ELSE FlattenSeq([j \in DOMAIN p.vars |-> VarRegexp(p, j)])
PartText(p, given) ==
  IF IsLiteral(p) THEN utEncode(p.lit, "U+R") ELSE utExpandExpr(p, given)

LEMMA RegexpIs == \A parts : Regexp(parts) = FlattenSeq([i \in DOMAIN parts |-> PartRegexp(parts[i])])
BY DEF Regexp, PartRegexp, VarRegexp

LEMMA ExpandIs ==
  \A parts, given : Expand(parts, given) = FlattenSeq([i \in DOMAIN parts |-> PartText(parts[i], given)])
BY DEF Expand, PartText

Before(p, j) == IF p.op = "/" THEN <<"/">> ELSE IF j > 1 THEN <<",">> ELSE <<>>

LEMMA NotEmpty ==
  ASSUME NEW x, Len(x) = 1
  PROVE  x # <<>>
OBVIOUS

LEMMA LiteralsOne ==
  ASSUME NEW c
  PROVE  Literals(<<c>>) = <<Literal(c)>>
BY DEF Literals

LEMMA LiteralsNone == Literals(<<>>) = <<>>
BY DEF Literals

LEMMA VarRegexpIs ==
  ASSUME NEW p, NEW given, PartFits(p, given), NEW j \in DOMAIN p.vars
  PROVE  VarRegexp(p, j) = Literals(Before(p, j)) \o <<Capture(p.vars[j].name, FALSE)>>
<1>1. j \in Nat /\ p.op \in {"", "/"} /\ p.op # "+"
  <2>1. p.op \in {"", "/"} /\ Len(p.vars) \in Nat /\ DOMAIN p.vars = 1 .. Len(p.vars)
    BY DEF PartFits, PartTyped
  <2>2. p.op # "+"
    BY <2>1
  <2>3. j \in 1 .. Len(p.vars)
    BY <2>1
  <2>4. j \in Nat
    BY <2>3
  <2> QED
    BY <2>1, <2>2, <2>4, Zenon
<1>2. Literals(<<"/">>) = <<Literal("/")>> /\ Literals(<<",">>) = <<Literal(",")>> /\ Literals(<<>>) = <<>>
  BY LiteralsOne, LiteralsNone
<1>3. CASE p.op = "/"
  BY <1>1, <1>2, <1>3 DEF VarRegexp, Before
<1>4. CASE p.op # "/" /\ j > 1
  BY <1>1, <1>2, <1>4 DEF VarRegexp, Before
<1>5. CASE p.op # "/" /\ ~(j > 1)
  BY <1>1, <1>2, <1>5 DEF VarRegexp, Before
<1> QED
  BY <1>3, <1>4, <1>5

LEMMA VarTextIs ==
  ASSUME NEW given, GivenTexts(given), NEW p, PartFits(p, given)
  PROVE  utExpandExpr(p, given)
           = FlattenSeq([j \in DOMAIN p.vars |-> Before(p, j) \o fmEncode(given[p.vars[j].name].items[1], FALSE)])
<1> DEFINE cfg == utOperator(p.op)
           Given(j) == p.vars[j].name \in DOMAIN given /\ given[p.vars[j].name].items # <<>>
           First(j) == IF \E k \in 1 .. (j - 1) : Given(k) THEN cfg.sep ELSE cfg.first
<1>1. \A j \in DOMAIN p.vars : Given(j)
  <2>1. ASSUME NEW j \in DOMAIN p.vars PROVE Given(j)
    <3>1. p.vars[j].name \in DOMAIN given /\ Len(given[p.vars[j].name].items) = 1
      BY DEF PartFits, GivenTexts
    <3>2. given[p.vars[j].name].items # <<>>
      BY <3>1, NotEmpty
    <3> QED
      BY <3>1, <3>2
  <2> QED
    BY <2>1
<1>2. p.op \in {"", "/"}
  BY DEF PartFits
<1>3. /\ cfg.sep = IF p.op = "/" THEN <<"/">> ELSE <<",">>
      /\ cfg.first = IF p.op = "/" THEN <<"/">> ELSE <<>>
      /\ cfg.named = FALSE /\ cfg.allow = "U"
  BY <1>2 DEF utOperator
<1> HIDE DEF cfg
<1>4. ASSUME NEW j \in DOMAIN p.vars PROVE First(j) = Before(p, j)
  <2>1. j \in 1 .. Len(p.vars) /\ DOMAIN p.vars = 1 .. Len(p.vars) /\ Len(p.vars) \in Nat
    BY DEF PartFits, PartTyped
  <2>2. CASE j > 1
    <3>1. 1 \in 1 .. (j - 1) /\ 1 \in DOMAIN p.vars
      BY <2>1, <2>2
    <3>2. \E k \in 1 .. (j - 1) : Given(k)
      BY <1>1, <3>1
    <3> QED
      BY <1>2, <1>3, <2>2, <3>2 DEF Before
  <2>3. CASE ~(j > 1)
    <3>1. 1 .. (j - 1) = {}
      BY <2>1, <2>3
    <3> QED
      BY <1>2, <1>3, <2>3, <3>1 DEF Before
  <2> QED
    BY <2>2, <2>3
<1>5. ASSUME NEW j \in DOMAIN p.vars
      PROVE  ExpandVar(p.vars[j], cfg, given[p.vars[j].name]) = fmEncode(given[p.vars[j].name].items[1], FALSE)
  <2> DEFINE v == p.vars[j]
             x == given[p.vars[j].name]
  <2>1. v.prefix \in Int /\ v.prefix < 0 /\ x.kind = "string"
    BY DEF PartFits, PartTyped, GivenTexts
  <2>2. ~(v.prefix >= 0 /\ v.prefix < Len(x.items[1]))
    BY <2>1
  <2> HIDE DEF v, x
  <2>3. ExpandVar(v, cfg, x) = utEncode(x.items[1], "U")
    BY <1>3, <2>1, <2>2 DEF ExpandVar
  <2> QED
    BY <2>3, utEncodeIs DEF v, x
<1>6. utExpandExpr(p, given)
        = FlattenSeq([j \in DOMAIN p.vars |->
            IF Given(j) THEN First(j) \o ExpandVar(p.vars[j], cfg, given[p.vars[j].name]) ELSE <<>>])
  BY DEF utExpandExpr, cfg
<1>7. [j \in DOMAIN p.vars |->
            IF Given(j) THEN First(j) \o ExpandVar(p.vars[j], cfg, given[p.vars[j].name]) ELSE <<>>]
        = [j \in DOMAIN p.vars |-> Before(p, j) \o fmEncode(given[p.vars[j].name].items[1], FALSE)]
  <2> HIDE DEF Given, First
  <2> QED
    BY <1>1, <1>4, <1>5
<1> QED
  BY <1>6, <1>7, Zenon

\* Those of one segment each.
Narrow(N) == {Literal(c) : c \in Char} \cup {Capture(n, FALSE) : n \in N}

LEMMA OneTyped ==
  ASSUME NEW S, NEW x \in S
  PROVE  <<x>> \in Seq(S)
OBVIOUS

LEMMA CaptureIn ==
  ASSUME NEW N, NEW n \in N, NEW spans \in BOOLEAN
  PROVE  Capture(n, spans) \in Item(N)
BY DEF Item

LEMMA NarrowIs ==
  ASSUME NEW N
  PROVE  Narrow(N) \subseteq Item(N) /\ \A item \in Narrow(N) : ~item.spans
<1>1. Narrow(N) \subseteq Item(N)
  <2>1. ASSUME NEW n \in N PROVE Capture(n, FALSE) \in Item(N)
    <3>1. FALSE \in BOOLEAN
      OBVIOUS
    <3> QED
      BY <3>1, CaptureIn
  <2>2. ASSUME NEW c \in Char PROVE Literal(c) \in Item(N)
    BY DEF Item
  <2>3. ASSUME NEW x \in Narrow(N) PROVE x \in Item(N)
    <3>1. (\E c \in Char : x = Literal(c)) \/ (\E n \in N : x = Capture(n, FALSE))
      BY DEF Narrow
    <3> QED
      BY <2>1, <2>2, <3>1
  <2> QED
    BY <2>3
<1>2. \A c : Literal(c).spans = FALSE
  BY DEF Literal
<1>3. \A n : Capture(n, FALSE).spans = FALSE
  BY DEF Capture
<1> QED
  BY <1>1, <1>2, <1>3 DEF Narrow

LEMMA LiteralsTyped ==
  ASSUME NEW N, NEW s \in Seq(Char)
  PROVE  Literals(s) \in Seq(Narrow(N)) /\ CaptureNames(Literals(s)) = {}
<1>1. Len(s) \in Nat /\ DOMAIN s = 1 .. Len(s) /\ \A i \in 1 .. Len(s) : s[i] \in Char
  BY LenProperties, ElementOfSeq
<1>2. \A i \in 1 .. Len(s) : Literal(s[i]) \in Narrow(N)
  BY <1>1 DEF Narrow
<1>3. Literals(s) \in Seq(Narrow(N)) /\ DOMAIN Literals(s) = 1 .. Len(s) /\ \A i \in 1 .. Len(s) : Literals(s)[i] = Literal(s[i])
  BY <1>1, <1>2 DEF Literals
<1>4. \A i \in 1 .. Len(s) : ~IsCapture(Literals(s)[i])
  <2>1. \A i \in 1 .. Len(s) : Literal(s[i]).char = s[i]
    BY DEF Literal
  <2>2. "" \notin Char
    BY DEF Char, Unreserved, Hex, Code, Reserved
  <2> QED
    BY <1>1, <1>3, <2>1, <2>2 DEF IsCapture
<1>5. Captured(Literals(s)) = {}
  BY <1>3, <1>4 DEF Captured
<1> QED
  BY <1>3, <1>5 DEF CaptureNames

LEMMA RenderLiterals ==
  ASSUME NEW N, NEW val, NEW s \in Seq(Char)
  PROVE  Render(Literals(s), val) = s
<1>1. \A i \in DOMAIN s : s[i] \in Char
  BY LenProperties, ElementOfSeq
<1>2. \A i \in DOMAIN s : Block(Literal(s[i]), val) = <<s[i]>>
  <2>1. "" \notin Char
    BY DEF Char, Unreserved, Hex, Code, Reserved
  <2>2. \A c : Literal(c).char = c
    BY DEF Literal
  <2> QED
    BY <1>1, <2>1, <2>2 DEF Block, IsCapture
<1>3. DOMAIN Literals(s) = DOMAIN s /\ \A i \in DOMAIN s : Literals(s)[i] = Literal(s[i])
  BY DEF Literals
<1>4. Blocks(Literals(s), val) = [i \in DOMAIN s |-> <<s[i]>>]
  BY <1>2, <1>3 DEF Blocks
<1> QED
  BY <1>4, FlattenSingles DEF Render

LEMMA OneCapture ==
  ASSUME NEW N, NEW val, \A n \in N : val[n] \in Seq(Char), NEW n \in N, NEW spans \in BOOLEAN
  PROVE  /\ <<Capture(n, spans)>> \in Seq(Item(N))
         /\ CaptureNames(<<Capture(n, spans)>>) = {n}
         /\ Render(<<Capture(n, spans)>>, val) = fmEncode(val[n], spans)
<1> DEFINE x == Capture(n, spans)
           r == <<x>>
<1>1. x \in Item(N) /\ IsCapture(x) /\ x.name = n /\ x.spans = spans
  <2>1. x \in Item(N)
    BY DEF Item
  <2>2. x.char = "" /\ x.name = n /\ x.spans = spans
    BY DEF Capture
  <2> QED
    BY <2>1, <2>2 DEF IsCapture
<1> HIDE DEF x
<1>2. r \in Seq(Item(N)) /\ DOMAIN r = {1} /\ r[1] = x
  BY <1>1
<1>3. Captured(r) = {1}
  BY <1>1, <1>2 DEF Captured
<1>4. CaptureNames(r) = {n}
  BY <1>1, <1>2, <1>3 DEF CaptureNames
<1>5. Block(x, val) = fmEncode(val[n], spans)
  BY <1>1 DEF Block
<1>6. fmEncode(val[n], spans) \in Seq(Free(spans))
  BY EncodingFree
<1>7. Render(r, val) = Block(x, val)
  <2> DEFINE b == Block(x, val)
  <2>1. Blocks(r, val) = [i \in {1} |-> Block(r[i], val)]
    BY <1>2 DEF Blocks
  <2>2. [i \in {1} |-> Block(r[i], val)] = [i \in {1} |-> b]
    BY <1>2
  <2> HIDE DEF b
  <2>3. [i \in {1} |-> b] = <<b>>
    OBVIOUS
  <2>4. b \in Seq(Free(spans))
    BY <1>5, <1>6 DEF b
  <2>5. FlattenSeq(<<b>>) = b
    BY <2>4, FlattenOne
  <2> QED
    BY <2>1, <2>2, <2>3, <2>5 DEF Render, b
<1> QED
  BY <1>2, <1>4, <1>5, <1>7 DEF x

\* The expression of a part, its captures given their values, makes its text.
LEMMA PartRenders ==
  ASSUME NEW given, GivenTexts(given), NEW p, PartFits(p, given)
  PROVE  /\ PartRegexp(p) \in Seq(Narrow(DOMAIN given))
         /\ Render(PartRegexp(p), Texts(given)) = PartText(p, given)
         /\ CaptureNames(PartRegexp(p)) = {p.vars[j].name : j \in DOMAIN p.vars}
<1> DEFINE N == DOMAIN given
           val == Texts(given)
           k == Len(p.vars)
<1>1. \A n \in N : val[n] = given[n].items[1] /\ val[n] \in Seq(Char)
  BY DEF GivenTexts, Texts
<1>2. /\ p.lit \in Seq(Char) /\ k \in Nat /\ DOMAIN p.vars = 1 .. k /\ utEncode(p.lit, "U+R") = p.lit
      /\ \A j \in 1 .. k : p.vars[j].name \in N
  BY DEF PartFits, PartTyped
<1> HIDE DEF N, val, k
<1>3. CASE IsLiteral(p)
  <2>1. PartRegexp(p) = Literals(p.lit) /\ PartText(p, given) = p.lit
    BY <1>2, <1>3 DEF PartRegexp, PartText
  <2>2. Literals(p.lit) \in Seq(Narrow(N)) /\ CaptureNames(Literals(p.lit)) = {}
    BY <1>2, LiteralsTyped
  <2>3. Render(Literals(p.lit), val) = p.lit
    BY <1>2, RenderLiterals
  <2>4. p.vars = <<>> /\ DOMAIN p.vars = {}
    BY <1>3 DEF IsLiteral
  <2> QED
    BY <2>1, <2>2, <2>3, <2>4 DEF N, val
<1>4. CASE ~IsLiteral(p)
  <2> DEFINE rr == [j \in 1 .. k |-> VarRegexp(p, j)]
             Sep(j) == Literals(Before(p, j))
             Cap(j) == <<Capture(p.vars[j].name, FALSE)>>
  <2>1. ASSUME NEW j \in 1 .. k
        PROVE  /\ VarRegexp(p, j) \in Seq(Narrow(N))
               /\ Render(VarRegexp(p, j), val) = Before(p, j) \o fmEncode(given[p.vars[j].name].items[1], FALSE)
               /\ CaptureNames(VarRegexp(p, j)) = {p.vars[j].name}
    <3>1. Before(p, j) \in Seq(Char)
      <4>1. "/" \in Char /\ "," \in Char
        BY CharKinds DEF Reserved
      <4>2. <<"/">> \in Seq(Char) /\ <<",">> \in Seq(Char) /\ <<>> \in Seq(Char)
        BY <4>1, OneTyped, EmptySeq
      <4>3. Before(p, j) = <<"/">> \/ Before(p, j) = <<",">> \/ Before(p, j) = <<>>
        BY DEF Before
      <4> QED
        BY <4>2, <4>3
    <3>2. Sep(j) \in Seq(Narrow(N)) /\ CaptureNames(Sep(j)) = {} /\ Render(Sep(j), val) = Before(p, j)
      BY <3>1, LiteralsTyped, RenderLiterals
    <3>3. p.vars[j].name \in N
      BY <1>2
    <3>4. /\ Cap(j) \in Seq(Narrow(N)) /\ CaptureNames(Cap(j)) = {p.vars[j].name}
          /\ Render(Cap(j), val) = fmEncode(val[p.vars[j].name], FALSE)
      <4> DEFINE m == p.vars[j].name
      <4> HIDE DEF m
      <4>1. m \in N /\ \A n \in N : val[n] \in Seq(Char)
        BY <1>1, <3>3 DEF m
      <4>2. /\ CaptureNames(<<Capture(m, FALSE)>>) = {m}
            /\ Render(<<Capture(m, FALSE)>>, val) = fmEncode(val[m], FALSE)
        BY <4>1, OneCapture
      <4>3. Capture(m, FALSE) \in Narrow(N)
        BY <4>1 DEF Narrow
      <4>4. <<Capture(m, FALSE)>> \in Seq(Narrow(N))
        BY <4>3, OneTyped
      <4> QED
        BY <4>2, <4>4 DEF m
    <3>5. VarRegexp(p, j) = Sep(j) \o Cap(j)
      BY <1>2, VarRegexpIs
    <3> HIDE DEF Sep, Cap
    <3>6. Sep(j) \o Cap(j) \in Seq(Narrow(N))
      BY <3>2, <3>4, ConcatProperties
    <3>7. Render(Sep(j) \o Cap(j), val) = Render(Sep(j), val) \o Render(Cap(j), val)
      <4>1. Sep(j) \in Seq(Item(N)) /\ Cap(j) \in Seq(Item(N))
        BY <3>2, <3>4, NarrowIs
      <4> QED
        BY <1>1, <4>1, RenderConcat
    <3>8. CaptureNames(Sep(j) \o Cap(j)) = CaptureNames(Sep(j)) \cup CaptureNames(Cap(j))
      BY <3>2, <3>4, NamesConcat
    <3>9. val[p.vars[j].name] = given[p.vars[j].name].items[1]
      BY <1>1, <3>3
    <3> QED
      BY <3>2, <3>4, <3>5, <3>6, <3>7, <3>8, <3>9, Zenon
  <2>2. rr \in Seq(Seq(Narrow(N))) /\ DOMAIN rr = 1 .. k /\ \A j \in 1 .. k : rr[j] = VarRegexp(p, j)
    <3>1. \A j \in 1 .. k : VarRegexp(p, j) \in Seq(Narrow(N))
      BY <2>1
    <3> QED
      BY <1>2, <3>1
  <2>3. PartRegexp(p) = FlattenSeq(rr)
    BY <1>2, <1>4 DEF PartRegexp
  <2> HIDE DEF rr
  <2>4. FlattenSeq(rr) \in Seq(Narrow(N)) /\ rr \in Seq(Seq(Item(N)))
    BY <2>2, FlattenTyped, NarrowIs
  <2>5. Render(FlattenSeq(rr), val) = FlattenSeq([j \in DOMAIN rr |-> Render(rr[j], val)])
    BY <1>1, <2>4, RenderFlatten
  <2>6. [j \in DOMAIN rr |-> Render(rr[j], val)]
          = [j \in DOMAIN p.vars |-> Before(p, j) \o fmEncode(given[p.vars[j].name].items[1], FALSE)]
    BY <1>2, <2>1, <2>2
  <2>7. PartText(p, given) = FlattenSeq([j \in DOMAIN rr |-> Render(rr[j], val)])
    <3>1. PartText(p, given) = utExpandExpr(p, given)
      BY <1>4, SMTT(30) DEF PartText
    <3>2. utExpandExpr(p, given)
           = FlattenSeq([j \in DOMAIN p.vars |-> Before(p, j) \o fmEncode(given[p.vars[j].name].items[1], FALSE)])
      BY VarTextIs
    <3> QED
      BY <2>6, <3>1, <3>2, Zenon
  <2>8. CaptureNames(FlattenSeq(rr)) = UNION {CaptureNames(rr[i]) : i \in DOMAIN rr}
    BY <2>2, NamesFlatten
  <2>9. UNION {CaptureNames(rr[i]) : i \in DOMAIN rr} = {p.vars[j].name : j \in DOMAIN p.vars}
    <3>1. \A j \in 1 .. k : CaptureNames(rr[j]) = {p.vars[j].name}
      BY <2>1, <2>2
    <3>2. DOMAIN rr = 1 .. k /\ DOMAIN p.vars = 1 .. k
      BY <1>2, <2>2
    <3> HIDE DEF rr
    <3>3. \A x : x \in UNION {CaptureNames(rr[i]) : i \in 1 .. k} <=> \E j \in 1 .. k : x = p.vars[j].name
      BY <3>1
    <3> QED
      BY <3>2, <3>3
  <2> QED
    BY <2>3, <2>4, <2>5, <2>7, <2>8, <2>9 DEF N, val
<1> QED
  BY <1>3, <1>4

\* uritemplate.go:215, 543: what is matched is what was expanded.
LEMMA RfcRoundTrip ==
  ASSUME NEW parts, Len(parts) \in Nat, DOMAIN parts = 1 .. Len(parts), NEW given, GivenTexts(given),
         \A i \in DOMAIN parts : PartFits(parts[i], given),
         Names(parts) = DOMAIN given, Separated(Regexp(parts)), Matchable(parts)
  PROVE  MatchTemplate(parts, Expand(parts, given)) = [matched |-> TRUE, vars |-> Texts(given)]
<1> DEFINE N == DOMAIN given
           val == Texts(given)
           k == Len(parts)
           rr == [i \in DOMAIN parts |-> PartRegexp(parts[i])]
           re == Regexp(parts)
<1>1. \A n \in N : val[n] \in Seq(Char) \ {<<>>}
  BY DEF GivenTexts, Texts
<1>1a. \A n \in N : val[n] \in Seq(Char)
  BY <1>1
<1>1b. DOMAIN val = N /\ val = [n \in N |-> val[n]]
  BY DEF Texts
<1>2. \A i \in 1 .. k : /\ PartRegexp(parts[i]) \in Seq(Narrow(N))
                        /\ Render(PartRegexp(parts[i]), val) = PartText(parts[i], given)
                        /\ CaptureNames(PartRegexp(parts[i])) = {parts[i].vars[j].name : j \in DOMAIN parts[i].vars}
  BY PartRenders
<1> HIDE DEF val
<1>3. rr \in Seq(Seq(Narrow(N))) /\ DOMAIN rr = 1 .. k /\ \A i \in 1 .. k : rr[i] = PartRegexp(parts[i])
  <2> HIDE DEF N
  <2> QED
    BY <1>2
<1>4. re = FlattenSeq(rr)
  BY RegexpIs
<1> HIDE DEF N, rr, re
<1>5. re \in Seq(Narrow(N)) /\ re \in Seq(Item(N)) /\ rr \in Seq(Seq(Item(N)))
  BY <1>3, <1>4, FlattenTyped, NarrowIs
<1>6. Expand(parts, given) = Render(re, val)
  <2>1. Render(re, val) = FlattenSeq([i \in DOMAIN rr |-> Render(rr[i], val)])
    BY <1>1a, <1>4, <1>5, RenderFlatten
  <2>2. [i \in DOMAIN rr |-> Render(rr[i], val)] = [i \in DOMAIN parts |-> PartText(parts[i], given)]
    BY <1>2, <1>3
  <2> QED
    BY <2>1, <2>2, ExpandIs
<1>7. CaptureNames(re) = N
  <2>1. CaptureNames(re) = UNION {CaptureNames(rr[i]) : i \in DOMAIN rr}
    BY <1>3, <1>4, NamesFlatten
  <2>2. UNION {CaptureNames(rr[i]) : i \in DOMAIN rr} = Names(parts)
    <3>1. \A i \in DOMAIN parts : CaptureNames(rr[i]) = {parts[i].vars[j].name : j \in DOMAIN parts[i].vars}
      BY <1>2, <1>3
    <3>2. DOMAIN rr = DOMAIN parts
      BY <1>3
    <3> QED
      BY <3>1, <3>2 DEF Names
  <2> QED
    BY <2>1, <2>2 DEF N
<1>8. \A i \in Captured(re) : ~re[i].spans
  <2>1. \A i \in DOMAIN re : re[i] \in Narrow(N)
    BY <1>5, LenProperties, ElementOfSeq
  <2> QED
    BY <2>1, NarrowIs DEF Captured
<1>9. Separated(re)
  BY DEF re
<1>10. Unescaped(Match(re, FlattenSeq(Blocks(re, val)), TRUE)) = Found(re, val)
  BY <1>1, <1>5, <1>8, <1>9, RoundMatch
<1>11. Found(re, val) = [matched |-> TRUE, vars |-> val]
  <2>1. {re[i].name : i \in Captured(re)} = N
    BY <1>7 DEF CaptureNames
  <2> QED
    BY <1>1b, <2>1 DEF Found
<1> QED
  BY <1>6, <1>10, <1>11 DEF MatchTemplate, Render, re, val

-----------------------------------------------------------------------------
(* Loops over a text: Scan, Split, Parse, Join.                             *)

\* The turns of Scan: f[i] is what it yields from position i on.
Trail(length, head, next, f) ==
  f = [i \in 1 .. (length + 1) |-> IF i > length THEN <<>> ELSE head[i] \o f[next[i]]]

Onward(length, next) == \A i \in 1 .. length : next[i] \in (i + 1) .. (length + 1)

LEMMA TrailExists ==
  ASSUME NEW length \in Nat, NEW head, NEW next, Onward(length, next)
  PROVE  \E f : Trail(length, head, next, f)
<1> DEFINE Good(k, f) ==
             \A i \in (length + 1 - k) .. (length + 1) : f[i] = IF i > length THEN <<>> ELSE head[i] \o f[next[i]]
           T == {k \in Nat : k <= length => \E f : Good(k, f)}
<1>1. 0 \in T
  <2> DEFINE f == [i \in 1 .. (length + 1) |-> <<>>]
  <2>1. Good(0, f)
    OBVIOUS
  <2> HIDE DEF f, Good
  <2> QED
    BY <2>1
<1>2. ASSUME NEW k \in Nat, k \in T PROVE k + 1 \in T
  <2>1. ASSUME k + 1 <= length PROVE \E f : Good(k + 1, f)
    <3>1. PICK f : Good(k, f)
      BY <1>2, <2>1
    <3> DEFINE p == length - k
               g == [i \in 1 .. (length + 1) |-> IF i = p THEN head[p] \o f[next[p]] ELSE f[i]]
    <3>2. p \in 1 .. length /\ next[p] \in (p + 1) .. (length + 1) /\ p + 1 = length + 1 - k /\ p = length + 1 - (k + 1)
      BY <2>1 DEF Onward
    <3> HIDE DEF p
    <3>2a. p \in 1 .. (length + 1) /\ \A i \in (p + 1) .. (length + 1) : i \in 1 .. (length + 1) /\ i # p
      BY <3>2
    <3>3. g[p] = head[p] \o f[next[p]] /\ \A i \in (p + 1) .. (length + 1) : g[i] = f[i]
      BY <3>2a
    <3> HIDE DEF g
    <3>4. \A i \in (p + 1) .. (length + 1) : f[i] = IF i > length THEN <<>> ELSE head[i] \o f[next[i]]
      BY <3>1, <3>2
    <3>5. ASSUME NEW i \in p .. (length + 1) PROVE g[i] = IF i > length THEN <<>> ELSE head[i] \o g[next[i]]
      <4>1. CASE i = p
        <5>1. g[next[p]] = f[next[p]]
          BY <3>2, <3>3
        <5> QED
          <6>1. ~(i > length)
            BY <3>2, <4>1
          <6>2. g[i] = head[i] \o g[next[i]]
            BY <3>3, <4>1, <5>1
          <6> QED
            BY <6>1, <6>2
      <4>2. CASE i # p /\ i > length
        <5>1. i \in (p + 1) .. (length + 1)
          BY <3>2, <4>2
        <5> QED
          BY <3>3, <3>4, <4>2, <5>1
      <4>3. CASE i # p /\ ~(i > length)
        <5>1. i \in (p + 1) .. (length + 1) /\ i \in 1 .. length
          BY <3>2, <4>3
        <5>2. next[i] \in (i + 1) .. (length + 1)
          BY <5>1 DEF Onward
        <5>3. next[i] \in (p + 1) .. (length + 1)
          BY <3>2, <5>1, <5>2
        <5>4. g[i] = f[i] /\ g[next[i]] = f[next[i]]
          BY <3>3, <5>1, <5>3
        <5> QED
          BY <3>4, <4>3, <5>1, <5>4
      <4> QED
        BY <4>1, <4>2, <4>3
    <3>6. Good(k + 1, g)
      BY <3>2, <3>5
    <3> HIDE DEF Good
    <3> QED
      BY <3>6
  <2> QED
    BY <2>1
<1>3. Nat \subseteq T
  <2> HIDE DEF T
  <2> QED
    BY <1>1, <1>2, Counting
<1>4. PICK f : Good(length, f)
  BY <1>3
<1> DEFINE g == [i \in 1 .. (length + 1) |-> f[i]]
<1>5. \A i \in 1 .. (length + 1) : f[i] = IF i > length THEN <<>> ELSE head[i] \o f[next[i]]
  <2>1. length + 1 - length = 1
    OBVIOUS
  <2> QED
    BY <1>4, <2>1
<1>6. \A i \in 1 .. (length + 1) : g[i] = f[i]
  OBVIOUS
<1>7. ASSUME NEW i \in 1 .. (length + 1), ~(i > length) PROVE g[next[i]] = f[next[i]]
  <2>1. i \in 1 .. length
    BY <1>7
  <2>2. next[i] \in 1 .. (length + 1)
    BY <2>1 DEF Onward
  <2> QED
    BY <1>6, <2>2
<1>8. g = [i \in 1 .. (length + 1) |-> g[i]]
  OBVIOUS
<1> HIDE DEF g
<1>9. \A i \in 1 .. (length + 1) : g[i] = IF i > length THEN <<>> ELSE head[i] \o g[next[i]]
  BY <1>5, <1>6, <1>7
<1>10. g = [i \in 1 .. (length + 1) |-> IF i > length THEN <<>> ELSE head[i] \o g[next[i]]]
  BY <1>8, <1>9
<1> QED
  BY <1>10 DEF Trail

\* A walk that goes on yields a sequence, and does so from every position.
Walk(length, head, next, f) ==
  /\ Scan(length, head, next) = f[1] /\ f[length + 1] = <<>>
  /\ \A i \in 1 .. length : f[i] = head[i] \o f[next[i]]

LEMMA ScanWalks ==
  ASSUME NEW S, NEW length \in Nat, NEW head, NEW next, Onward(length, next),
         \A i \in 1 .. length : head[i] \in Seq(S)
  PROVE  \E f : Walk(length, head, next, f) /\ \A i \in 1 .. (length + 1) : f[i] \in Seq(S)
<1> DEFINE f == CHOOSE f : Trail(length, head, next, f)
<1>1. Trail(length, head, next, f)
  BY TrailExists
<1>2. Scan(length, head, next) = f[1]
  BY DEF Scan, Trail
<1> HIDE DEF f
<1>3. \A i \in 1 .. (length + 1) : f[i] = IF i > length THEN <<>> ELSE head[i] \o f[next[i]]
  BY <1>1 DEF Trail
<1>4. f[length + 1] = <<>>
  <2>1. length + 1 \in 1 .. (length + 1) /\ length + 1 > length
    OBVIOUS
  <2> QED
    BY <1>3, <2>1
<1>5. \A i \in 1 .. length : f[i] = head[i] \o f[next[i]]
  <2>1. \A i \in 1 .. length : i \in 1 .. (length + 1) /\ ~(i > length)
    OBVIOUS
  <2> QED
    BY <1>3, <2>1
<1> DEFINE T == {i \in 1 .. (length + 1) : f[i] \notin Seq(S)}
<1>6. ASSUME T # {} PROVE FALSE
  <2>1. PICK i \in T : \A m \in T : m <= i
    <3>1. T \subseteq 1 .. (length + 1) /\ length + 1 \in Nat
      OBVIOUS
    <3> HIDE DEF T
    <3> QED
      BY <1>6, <3>1, LeastMark
  <2>2. <<>> \in Seq(S)
    OBVIOUS
  <2>3. i # length + 1
    BY <1>4, <2>2
  <2>4. i \in 1 .. length
    BY <2>3
  <2>5. next[i] \in 1 .. (length + 1) /\ next[i] > i
    BY <2>4 DEF Onward
  <2>6. f[next[i]] \in Seq(S)
    BY <2>1, <2>5
  <2>7. head[i] \o f[next[i]] \in Seq(S)
    BY <2>4, <2>6, ConcatProperties
  <2> QED
    BY <1>5, <2>4, <2>7
<1> QED
  BY <1>2, <1>4, <1>5, <1>6 DEF Walk

LEMMA ScanTyped ==
  ASSUME NEW S, NEW length \in Nat, NEW head, NEW next, Onward(length, next),
         \A i \in 1 .. length : head[i] \in Seq(S)
  PROVE  Scan(length, head, next) \in Seq(S)
<1>1. PICK f : Walk(length, head, next, f) /\ \A i \in 1 .. (length + 1) : f[i] \in Seq(S)
  BY ScanWalks
<1>2. 1 \in 1 .. (length + 1)
  OBVIOUS
<1> QED
  BY <1>1, <1>2 DEF Walk

-----------------------------------------------------------------------------
LEMMA LeastIs ==
  ASSUME NEW n \in Nat, NEW T, T \subseteq 1 .. n, T # {}
  PROVE  Min(T) \in T /\ \A m \in T : Min(T) <= m
<1>1. \E k \in T : \A m \in T : k <= m
  BY LeastMark
<1> QED
  BY <1>1 DEF Min

LEMMA IndexOfIs ==
  ASSUME NEW S, NEW s \in Seq(S), NEW c
  PROVE  /\ IndexOf(s, c) \in 0 .. Len(s)
         /\ IndexOf(s, c) # 0 => s[IndexOf(s, c)] = c
         /\ \A i \in 1 .. Len(s) : s[i] = c => IndexOf(s, c) # 0 /\ IndexOf(s, c) <= i
<1> DEFINE at == {i \in DOMAIN s : s[i] = c}
<1>1. Len(s) \in Nat /\ DOMAIN s = 1 .. Len(s)
  BY LenProperties
<1>2. at \subseteq 1 .. Len(s) /\ \A i \in at : s[i] = c
  BY <1>1
<1>3. \A i \in 1 .. Len(s) : s[i] = c => i \in at
  BY <1>1
<1>4. IndexOf(s, c) = IF at = {} THEN 0 ELSE Min(at)
  BY DEF IndexOf
<1> HIDE DEF at
<1>5. CASE at = {}
  BY <1>1, <1>3, <1>4, <1>5
<1>6. CASE at # {}
  <2> DEFINE k == Min(at)
  <2>1. k \in at /\ \A m \in at : k <= m
    BY <1>1, <1>2, <1>6, LeastIs
  <2>2. IndexOf(s, c) = k
    BY <1>4, <1>6
  <2> HIDE DEF k
  <2> QED
    BY <1>1, <1>2, <1>3, <2>1, <2>2
<1> QED
  BY <1>5, <1>6

LEMMA FromIs ==
  ASSUME NEW S, NEW s \in Seq(S), NEW i \in 1 .. (Len(s) + 1)
  PROVE  /\ From(s, i) \in Seq(S) /\ Len(From(s, i)) = Len(s) + 1 - i
         /\ \A k \in 1 .. (Len(s) + 1 - i) : From(s, i)[k] = s[i + k - 1]
<1>1. Len(s) \in Nat /\ i \in Nat /\ 1 <= i /\ i <= Len(s) + 1 /\ Len(s) <= Len(s)
  BY LenProperties
<1> QED
  BY <1>1, SubSeqIs DEF From

\* Where the piece that begins at i stops.
Stop(text, c, i) == CHOOSE k \in i .. Len(text) : text[k] = c /\ \A j \in i .. (k - 1) : text[j] # c

StopFits(text, c, i) ==
  /\ Stop(text, c, i) \in i .. Len(text) /\ text[Stop(text, c, i)] = c
  /\ \A j \in i .. (Stop(text, c, i) - 1) : text[j] # c

LEMMA StopIs ==
  ASSUME NEW S, NEW text \in Seq(S), NEW c, NEW i \in 1 .. Len(text), text[Len(text)] = c
  PROVE  StopFits(text, c, i)
<1> DEFINE T == {k \in i .. Len(text) : text[k] = c}
<1>1. T \subseteq 1 .. Len(text) /\ Len(text) \in Nat /\ Len(text) \in T
  BY LenProperties
<1>2. PICK k \in T : \A j \in T : k <= j
  <2> HIDE DEF T
  <2> QED
    BY <1>1, LeastMark
<1>3. k \in i .. Len(text) /\ text[k] = c
  BY <1>2
<1>4. \A j \in i .. (k - 1) : text[j] # c
  <2>1. ASSUME NEW j \in i .. (k - 1), text[j] = c PROVE FALSE
    <3>1. j \in i .. Len(text) /\ j < k
      BY <1>1, <1>3
    <3>2. j \in T
      BY <2>1, <3>1
    <3>3. k <= j
      BY <1>2, <3>2
    <3> QED
      BY <1>3, <3>1, <3>3
  <2> QED
    BY <2>1
<1> QED
  BY <1>3, <1>4 DEF Stop, StopFits

Pieces(text, c) == [i \in DOMAIN text |-> <<SubSeq(text, i, Stop(text, c, i) - 1)>>]
Onwards(text, c) == [i \in DOMAIN text |-> Stop(text, c, i) + 1]

LEMMA SplitIs ==
  ASSUME NEW s, NEW c
  PROVE  Split(s, c) = Scan(Len(Append(s, c)), Pieces(Append(s, c), c), Onwards(Append(s, c), c))
BY DEF Split, Stop, Pieces, Onwards

\* The walk of Split goes on, and what it yields are parts of the text.
Ended(S, s, c, text) ==
  /\ text = Append(s, c) /\ text \in Seq(S) /\ Len(s) \in Nat /\ Len(text) = Len(s) + 1
  /\ DOMAIN text = 1 .. Len(text) /\ text[Len(text)] = c /\ \A i \in 1 .. Len(s) : text[i] = s[i]
PieceFits(S, text, c, i) ==
  /\ Pieces(text, c)[i] = <<SubSeq(text, i, Stop(text, c, i) - 1)>>
  /\ SubSeq(text, i, Stop(text, c, i) - 1) \in Seq(S)
  /\ Onwards(text, c)[i] = Stop(text, c, i) + 1
  /\ Onwards(text, c)[i] \in (i + 1) .. (Len(text) + 1)

LEMMA EndedIs ==
  ASSUME NEW S, NEW s \in Seq(S), NEW c \in S
  PROVE  Ended(S, s, c, Append(s, c))
<1> DEFINE text == Append(s, c)
           n == Len(s)
<1>1. text \in Seq(S) /\ Len(text) = n + 1 /\ n \in Nat /\ text[n + 1] = c /\ \A i \in 1 .. n : text[i] = s[i]
  BY AppendProperties, LenProperties
<1> HIDE DEF text
<1>2. DOMAIN text = 1 .. Len(text)
  BY <1>1, LenProperties
<1> QED
  BY <1>1, <1>2 DEF Ended, text

LEMMA PieceIs ==
  ASSUME NEW S, NEW s, NEW c, NEW text, Ended(S, s, c, text), NEW i \in 1 .. Len(text)
  PROVE  StopFits(text, c, i) /\ PieceFits(S, text, c, i)
<1>1. text \in Seq(S) /\ Len(text) \in Nat /\ DOMAIN text = 1 .. Len(text) /\ text[Len(text)] = c
  BY DEF Ended
<1>2. StopFits(text, c, i)
  BY <1>1, StopIs
<1> DEFINE k == Stop(text, c, i)
<1>3. k \in i .. Len(text)
  BY <1>2 DEF StopFits
<1>4. Pieces(text, c)[i] = <<SubSeq(text, i, k - 1)>> /\ Onwards(text, c)[i] = k + 1
  BY <1>1 DEF Pieces, Onwards
<1>5. SubSeq(text, i, k - 1) \in Seq(S) /\ k + 1 \in (i + 1) .. (Len(text) + 1)
  <2> HIDE DEF k
  <2>1. /\ k - 1 \in Nat /\ i \in Nat /\ 1 <= i /\ i <= (k - 1) + 1 /\ k - 1 <= Len(text)
        /\ k + 1 \in (i + 1) .. (Len(text) + 1)
    BY <1>1, <1>3
  <2> QED
    BY <1>1, <2>1, SubSeqIs
<1> QED
  BY <1>2, <1>4, <1>5 DEF PieceFits

LEMMA SplitOnward ==
  ASSUME NEW S, NEW s, NEW c, NEW text, Ended(S, s, c, text)
  PROVE  Onward(Len(text), Onwards(text, c))
<1>1. ASSUME NEW i \in 1 .. Len(text) PROVE Onwards(text, c)[i] \in (i + 1) .. (Len(text) + 1)
  BY PieceIs DEF PieceFits
<1> QED
  BY <1>1 DEF Onward

LEMMA SplitTyped ==
  ASSUME NEW S, NEW s \in Seq(S), NEW c \in S
  PROVE  Split(s, c) \in Seq(Seq(S))
<1> DEFINE text == Append(s, c)
           head == Pieces(text, c)
           next == Onwards(text, c)
<1>1. Ended(S, s, c, text)
  BY EndedIs
<1>2. Split(s, c) = Scan(Len(text), head, next)
  BY SplitIs
<1> HIDE DEF text
<1>3. ASSUME NEW i \in 1 .. Len(text) PROVE head[i] \in Seq(Seq(S))
  <2>1. head[i] = <<SubSeq(text, i, Stop(text, c, i) - 1)>> /\ SubSeq(text, i, Stop(text, c, i) - 1) \in Seq(S)
    BY <1>1, PieceIs DEF PieceFits
  <2> QED
    BY <2>1, OneTyped
<1>4. Len(text) \in Nat /\ Onward(Len(text), next)
  <2>1. Onward(Len(text), next)
    BY <1>1, SplitOnward
  <2>2. Len(text) \in Nat
    BY <1>1 DEF Ended
  <2> QED
    BY <2>1, <2>2
<1> HIDE DEF head, next
<1> QED
  BY <1>2, <1>3, <1>4, ScanTyped

-----------------------------------------------------------------------------
LEMMA ParseVarTyped == \A tmpl : ParseVar(tmpl).prefix \in Int
<1>1. \A d \in DOMAIN Numerals : Numerals[d] \in Int
  BY DEF Numerals
<1> QED
  BY <1>1 DEF ParseVar

LEMMA ParseExprTyped ==
  ASSUME NEW body \in Seq(Char)
  PROVE  PartTyped(utParseExpr(body)) /\ utParseExpr(body).lit = <<>>
<1> DEFINE hasOp == body # <<>> /\ body[1] \in {"+", "#", ".", "/", ";", "?", "&"}
           rest == IF hasOp THEN Tail(body) ELSE body
           pieces == Split(rest, ",")
           vv == [i \in DOMAIN pieces |-> ParseVar(pieces[i])]
<1>1. rest \in Seq(Char)
  <2>1. CASE hasOp
    BY <2>1, HeadTailProperties
  <2>2. CASE ~hasOp
    BY <2>2
  <2> QED
    BY <2>1, <2>2
<1>2. "," \in Char
  BY CharKinds DEF Reserved
<1>3. utParseExpr(body).vars = vv /\ utParseExpr(body).lit = <<>>
  BY DEF utParseExpr
<1> HIDE DEF rest
<1>4. Len(pieces) \in Nat /\ DOMAIN pieces = 1 .. Len(pieces)
  <2>1. pieces \in Seq(Seq(Char))
    BY <1>1, <1>2, SplitTyped
  <2> HIDE DEF pieces
  <2> QED
    BY <2>1, LenProperties
<1> HIDE DEF pieces
<1>5. Len(vv) \in Nat /\ DOMAIN vv = 1 .. Len(vv)
  BY <1>4
<1>6. \A j \in DOMAIN vv : vv[j].prefix \in Int
  BY ParseVarTyped
<1> HIDE DEF vv
<1>7. <<>> \in Seq(Char)
  OBVIOUS
<1> QED
  BY <1>3, <1>5, <1>6, <1>7 DEF PartTyped

\* What Parse yields at a position, and where it goes on.
CloseAt(tmpl, i) == IndexOf(From(tmpl, i), "}")
BracesFrom(tmpl, i) == {k \in i .. Len(tmpl) : tmpl[k] \in {"{", "}"}}
BraceAt(tmpl, i) == IF BracesFrom(tmpl, i) = {} THEN Len(tmpl) + 1 ELSE Min(BracesFrom(tmpl, i))
LitPart(s, fine) == [ok |-> fine, lit |-> s, op |-> "", vars |-> <<>>]
StrayAt(tmpl, i) == tmpl[i] = "}" \/ CloseAt(tmpl, i) = 0
PartAt(tmpl, i) ==
  IF BraceAt(tmpl, i) > i THEN LitPart(SubSeq(tmpl, i, BraceAt(tmpl, i) - 1), TRUE)
  ELSE IF StrayAt(tmpl, i) THEN LitPart(From(tmpl, i), FALSE)
  ELSE utParseExpr(SubSeq(tmpl, i + 1, i + CloseAt(tmpl, i) - 2))
AfterPart(tmpl, i) ==
  IF BraceAt(tmpl, i) > i THEN BraceAt(tmpl, i)
  ELSE IF StrayAt(tmpl, i) THEN Len(tmpl) + 1 ELSE i + CloseAt(tmpl, i)

LEMMA ParseIs ==
  ASSUME NEW tmpl
  PROVE  Parse(tmpl) = Scan(Len(tmpl), [i \in DOMAIN tmpl |-> <<PartAt(tmpl, i)>>],
                                     [i \in DOMAIN tmpl |-> AfterPart(tmpl, i)])
BY DEF Parse, PartAt, AfterPart, BraceAt, BracesFrom, LitPart, StrayAt, CloseAt

LEMMA BraceIs ==
  ASSUME NEW tmpl \in Seq(Char), NEW i \in 1 .. Len(tmpl)
  PROVE  /\ BraceAt(tmpl, i) \in i .. (Len(tmpl) + 1)
         /\ BraceAt(tmpl, i) = i => tmpl[i] \in {"{", "}"}
<1> DEFINE B == BracesFrom(tmpl, i)
<1>0. Len(tmpl) \in Nat
  BY LenProperties
<1>0a. B \subseteq i .. Len(tmpl) /\ \A k \in B : tmpl[k] \in {"{", "}"}
  BY DEF BracesFrom
<1>0b. i .. Len(tmpl) \subseteq 1 .. Len(tmpl)
  BY <1>0
<1>1. Len(tmpl) \in Nat /\ B \subseteq i .. Len(tmpl) /\ B \subseteq 1 .. Len(tmpl) /\ \A k \in B : tmpl[k] \in {"{", "}"}
  BY <1>0, <1>0a, <1>0b, Zenon
<1>2. BraceAt(tmpl, i) = IF B = {} THEN Len(tmpl) + 1 ELSE Min(B)
  BY DEF BraceAt
<1> HIDE DEF B
<1>3. CASE B = {}
  <2>1. BraceAt(tmpl, i) = Len(tmpl) + 1
    BY <1>2, <1>3
  <2>2. Len(tmpl) + 1 \in i .. (Len(tmpl) + 1) /\ Len(tmpl) + 1 # i
    BY <1>0
  <2> QED
    BY <2>1, <2>2, Zenon
<1>4. CASE B # {}
  <2>1. Min(B) \in B
    BY <1>1, <1>4, LeastIs
  <2>2. BraceAt(tmpl, i) \in B
    BY <1>2, <1>4, <2>1
  <2>3. BraceAt(tmpl, i) \in i .. Len(tmpl) /\ tmpl[BraceAt(tmpl, i)] \in {"{", "}"}
    BY <1>1, <2>2
  <2>4. i .. Len(tmpl) \subseteq i .. (Len(tmpl) + 1)
    BY <1>0
  <2> QED
    BY <2>3, <2>4, Zenon
<1> QED
  BY <1>3, <1>4

LEMMA CloseIs ==
  ASSUME NEW tmpl \in Seq(Char), NEW i \in 1 .. Len(tmpl)
  PROVE  /\ CloseAt(tmpl, i) \in 0 .. (Len(tmpl) + 1 - i)
         /\ CloseAt(tmpl, i) # 0 => tmpl[i + CloseAt(tmpl, i) - 1] = "}"
         /\ \A k \in i .. Len(tmpl) : tmpl[k] = "}" => CloseAt(tmpl, i) # 0 /\ i + CloseAt(tmpl, i) - 1 <= k
<1> DEFINE r == From(tmpl, i)
           x == IndexOf(r, "}")
<1>1. Len(tmpl) \in Nat /\ i \in 1 .. (Len(tmpl) + 1)
  BY LenProperties
<1>2. r \in Seq(Char) /\ Len(r) = Len(tmpl) + 1 - i /\ \A k \in 1 .. (Len(tmpl) + 1 - i) : r[k] = tmpl[i + k - 1]
  BY <1>1, FromIs
<1> HIDE DEF r
<1>3. x \in 0 .. Len(r) /\ (x # 0 => r[x] = "}") /\ \A k \in 1 .. Len(r) : r[k] = "}" => x # 0 /\ x <= k
  BY <1>2, IndexOfIs
<1>4. CloseAt(tmpl, i) = x
  BY DEF CloseAt, r
<1> HIDE DEF x
<1>5. x # 0 => tmpl[i + x - 1] = "}"
  <2>1. ASSUME x # 0 PROVE tmpl[i + x - 1] = r[x]
    <3>1. x \in 1 .. (Len(tmpl) + 1 - i)
      <4>1. x \in 0 .. (Len(tmpl) + 1 - i)
        BY <1>2, <1>3
      <4> QED
        BY <1>1, <2>1, <4>1
    <3> QED
      BY <1>2, <3>1
  <2> QED
    BY <1>3, <2>1
<1>6. ASSUME NEW k \in i .. Len(tmpl), tmpl[k] = "}" PROVE x # 0 /\ i + x - 1 <= k
  <2> DEFINE m == k + 1 - i
  <2>1. m \in 1 .. (Len(tmpl) + 1 - i) /\ i + m - 1 = k
    BY <1>1
  <2> HIDE DEF m
  <2>2. r[m] = "}"
    BY <1>2, <1>6, <2>1
  <2>3. x # 0 /\ x <= m
    BY <1>2, <1>3, <2>1, <2>2
  <2>4. x \in 0 .. (Len(tmpl) + 1 - i)
    BY <1>2, <1>3
  <2> QED
    BY <1>1, <2>1, <2>3, <2>4
<1> QED
  BY <1>2, <1>3, <1>4, <1>5, <1>6

LEMMA PartIs ==
  ASSUME NEW tmpl \in Seq(Char), NEW i \in 1 .. Len(tmpl)
  PROVE  PartTyped(PartAt(tmpl, i)) /\ AfterPart(tmpl, i) \in (i + 1) .. (Len(tmpl) + 1)
<1> DEFINE n == Len(tmpl)
<1>0. n \in Nat /\ DOMAIN tmpl = 1 .. n
  BY LenProperties
<1> DEFINE b == BraceAt(tmpl, i)
           x == CloseAt(tmpl, i)
<1>1. b \in i .. (n + 1) /\ (b = i => tmpl[i] \in {"{", "}"})
  BY BraceIs
<1>2. x \in 0 .. (n + 1 - i) /\ (x # 0 => tmpl[i + x - 1] = "}")
  BY CloseIs
<1>3. ASSUME NEW s \in Seq(Char), NEW fine PROVE PartTyped(LitPart(s, fine))
  <2>1. LitPart(s, fine).lit = s /\ LitPart(s, fine).vars = <<>>
    BY DEF LitPart
  <2>2. Len(<<>>) = 0 /\ DOMAIN <<>> = 1 .. 0 /\ 0 \in Nat /\ 1 .. 0 = {}
    OBVIOUS
  <2> QED
    BY <1>3, <2>1, <2>2 DEF PartTyped
<1>4. CASE b > i
  <2>1. PartAt(tmpl, i) = LitPart(SubSeq(tmpl, i, b - 1), TRUE) /\ AfterPart(tmpl, i) = b
    BY <1>4 DEF PartAt, AfterPart
  <2> HIDE DEF b
  <2>2a. b \in i .. (n + 1)
    BY <1>1
  <2>2. /\ i \in Nat /\ b - 1 \in Nat /\ 1 <= i /\ i <= (b - 1) + 1 /\ b - 1 <= n
        /\ b \in (i + 1) .. (n + 1)
    BY <1>0, <1>4, <2>2a
  <2>3. SubSeq(tmpl, i, b - 1) \in Seq(Char)
    BY <2>2, SubSeqIs
  <2> QED
    BY <1>3, <2>1, <2>2, <2>3
<1>5. CASE ~(b > i) /\ StrayAt(tmpl, i)
  <2>1. PartAt(tmpl, i) = LitPart(From(tmpl, i), FALSE) /\ AfterPart(tmpl, i) = n + 1
    BY <1>5 DEF PartAt, AfterPart
  <2>2. From(tmpl, i) \in Seq(Char)
    <3>1. i \in 1 .. (n + 1)
      BY <1>0
    <3> QED
      BY <3>1, FromIs
  <2>3. n + 1 \in (i + 1) .. (n + 1)
    BY <1>0
  <2> QED
    BY <1>3, <2>1, <2>2, <2>3
<1>6. CASE ~(b > i) /\ ~StrayAt(tmpl, i)
  <2>1. PartAt(tmpl, i) = utParseExpr(SubSeq(tmpl, i + 1, i + x - 2)) /\ AfterPart(tmpl, i) = i + x
    BY <1>6 DEF PartAt, AfterPart
  <2>2. tmpl[i] # "}" /\ x # 0
    BY <1>6 DEF StrayAt
  <2> HIDE DEF b, x
  <2>3. x # 1
    <3>1. ASSUME x = 1 PROVE FALSE
      <4>1. i + x - 1 = i
        BY <1>0, <3>1
      <4> QED
        BY <1>2, <2>2, <4>1
    <3> QED
      BY <3>1
  <2>4. /\ i + 1 \in Nat /\ i + x - 2 \in Nat /\ 1 <= i + 1 /\ i + 1 <= (i + x - 2) + 1 /\ i + x - 2 <= n
        /\ i + x \in (i + 1) .. (n + 1)
    <3>1. x \in 0 .. (n + 1 - i)
      BY <1>2
    <3> QED
      <4> HIDE DEF n
      <4>1. n \in Nat /\ i \in 1 .. n
        BY <1>0 DEF n
      <4>2. x \in Int /\ 0 <= x /\ x <= n + 1 - i
        BY <3>1, <4>1
      <4>3. x # 0 /\ x # 1
        BY <2>2, <2>3
      <4>4. 2 <= x
        BY <4>2, <4>3
      <4> QED
        BY <4>1, <4>2, <4>4
  <2>5. SubSeq(tmpl, i + 1, i + x - 2) \in Seq(Char)
    BY <2>4, SubSeqIs
  <2> QED
    BY <2>1, <2>4, <2>5, ParseExprTyped
<1> QED
  BY <1>4, <1>5, <1>6

ParseHeads(tmpl) == [i \in DOMAIN tmpl |-> <<PartAt(tmpl, i)>>]
ParseNexts(tmpl) == [i \in DOMAIN tmpl |-> AfterPart(tmpl, i)]

LEMMA ParseOnward ==
  ASSUME NEW tmpl \in Seq(Char)
  PROVE  /\ Parse(tmpl) = Scan(Len(tmpl), ParseHeads(tmpl), ParseNexts(tmpl)) /\ Len(tmpl) \in Nat
         /\ Onward(Len(tmpl), ParseNexts(tmpl))
         /\ \A i \in 1 .. Len(tmpl) : ParseHeads(tmpl)[i] \in Seq({PartAt(tmpl, j) : j \in 1 .. Len(tmpl)})
<1>1. Len(tmpl) \in Nat /\ DOMAIN tmpl = 1 .. Len(tmpl)
  BY LenProperties
<1>2. \A i \in 1 .. Len(tmpl) : ParseHeads(tmpl)[i] = <<PartAt(tmpl, i)>> /\ ParseNexts(tmpl)[i] = AfterPart(tmpl, i)
  BY <1>1 DEF ParseHeads, ParseNexts
<1>3. Onward(Len(tmpl), ParseNexts(tmpl))
  <2>1. ASSUME NEW i \in 1 .. Len(tmpl) PROVE ParseNexts(tmpl)[i] \in (i + 1) .. (Len(tmpl) + 1)
    BY <1>2, PartIs
  <2> QED
    BY <2>1 DEF Onward
<1> DEFINE S == {PartAt(tmpl, j) : j \in 1 .. Len(tmpl)}
<1>4. \A i \in 1 .. Len(tmpl) : PartAt(tmpl, i) \in S
  OBVIOUS
<1> HIDE DEF S
<1>5. \A i \in 1 .. Len(tmpl) : ParseHeads(tmpl)[i] \in Seq(S)
  BY <1>2, <1>4, OneTyped
<1>6. Parse(tmpl) = Scan(Len(tmpl), ParseHeads(tmpl), ParseNexts(tmpl))
  BY ParseIs DEF ParseHeads, ParseNexts
<1> QED
  BY <1>1, <1>3, <1>5, <1>6 DEF S

\* uritemplate.go:99: of any text, Parse makes a sequence of parts, and ends.
LEMMA ParseTyped ==
  ASSUME NEW tmpl \in Seq(Char)
  PROVE  /\ Len(Parse(tmpl)) \in Nat /\ DOMAIN Parse(tmpl) = 1 .. Len(Parse(tmpl))
         /\ \A i \in DOMAIN Parse(tmpl) : PartTyped(Parse(tmpl)[i])
<1> DEFINE S == {PartAt(tmpl, j) : j \in 1 .. Len(tmpl)}
<1>1. /\ Parse(tmpl) = Scan(Len(tmpl), ParseHeads(tmpl), ParseNexts(tmpl)) /\ Len(tmpl) \in Nat
      /\ Onward(Len(tmpl), ParseNexts(tmpl))
      /\ \A i \in 1 .. Len(tmpl) : ParseHeads(tmpl)[i] \in Seq(S)
  BY ParseOnward
<1>2. \A p \in S : PartTyped(p)
  BY PartIs
<1> HIDE DEF S
<1>3. Parse(tmpl) \in Seq(S)
  BY <1>1, ScanTyped
<1>4. Len(Parse(tmpl)) \in Nat /\ DOMAIN Parse(tmpl) = 1 .. Len(Parse(tmpl)) /\ \A i \in DOMAIN Parse(tmpl) : Parse(tmpl)[i] \in S
  BY <1>3, LenProperties, ElementOfSeq
<1> QED
  BY <1>2, <1>4

-----------------------------------------------------------------------------
\* The RFC 6570 case of a task.
LEMMA RfcCase ==
  ASSUME NEW tmpl \in Seq(Char), NEW given,
         \A n \in DOMAIN given : given[n] \in Value /\ (given[n].kind = "string" => Len(given[n].items) = 1),
         RfcInvertible(Parse(tmpl), given)
  PROVE  MatchTemplate(Parse(tmpl), Expand(Parse(tmpl), given))
           = [matched |-> TRUE, vars |-> [n \in DOMAIN given |-> given[n].items[1]]]
<1> DEFINE parts == Parse(tmpl)
<1>1. Len(parts) \in Nat /\ DOMAIN parts = 1 .. Len(parts) /\ \A i \in DOMAIN parts : PartTyped(parts[i])
  BY ParseTyped
<1>2. /\ Matchable(parts) /\ Separated(Regexp(parts)) /\ Names(parts) = DOMAIN given
      /\ \A i \in DOMAIN parts : parts[i].op # "+" /\ utEncode(parts[i].lit, "U+R") = parts[i].lit
      /\ \A n \in DOMAIN given : given[n].kind = "string" /\ given[n].items[1] # <<>>
  BY DEF RfcInvertible
<1> HIDE DEF parts
<1>3. GivenTexts(given)
  <2>1. ASSUME NEW n \in DOMAIN given
        PROVE  /\ given[n].kind = "string" /\ Len(given[n].items) = 1
               /\ given[n].items[1] \in Seq(Char) \ {<<>>}
    <3>1. given[n].kind = "string" /\ Len(given[n].items) = 1 /\ given[n].items[1] # <<>> /\ given[n] \in Value
      BY <1>2
    <3>2. "string" # "map"
      OBVIOUS
    <3>3. given[n] \in [kind : {"string", "list"}, items : Seq(Seq(Char))]
      BY <3>1, <3>2 DEF Value
    <3>4. given[n].items \in Seq(Seq(Char))
      BY <3>3
    <3>5. 1 \in 1 .. Len(given[n].items)
      BY <3>1
    <3>6. given[n].items[1] \in Seq(Char)
      BY <3>4, <3>5, ElementOfSeq
    <3> QED
      BY <3>1, <3>6
  <2> QED
    BY <2>1 DEF GivenTexts
<1>4. \A i \in DOMAIN parts : PartFits(parts[i], given)
  <2>1. ASSUME NEW i \in DOMAIN parts PROVE PartFits(parts[i], given)
    <3>1. parts[i].op \in {"", "/"}
      BY <1>2 DEF Matchable
    <3>2. ASSUME NEW j \in DOMAIN parts[i].vars
          PROVE  ~parts[i].vars[j].explode /\ parts[i].vars[j].prefix < 0 /\ parts[i].vars[j].name \in DOMAIN given
      <4>1. ~parts[i].vars[j].explode /\ parts[i].vars[j].prefix < 0
        BY <1>2 DEF Matchable
      <4>2. parts[i].vars[j].name \in Names(parts)
        BY DEF Names
      <4> QED
        BY <1>2, <4>1, <4>2
    <3> QED
      BY <1>1, <1>2, <3>1, <3>2 DEF PartFits
  <2> QED
    BY <2>1
<1>5. MatchTemplate(parts, Expand(parts, given)) = [matched |-> TRUE, vars |-> Texts(given)]
  BY <1>1, <1>2, <1>3, <1>4, RfcRoundTrip
<1> QED
  BY <1>5 DEF Texts, parts

\* Every text but the first after a separator.
Parted(ss, sep) == [i \in DOMAIN ss |-> IF i = 1 THEN ss[i] ELSE sep \o ss[i]]

LEMMA PartedIs ==
  ASSUME NEW S, NEW sep \in Seq(S), NEW ss \in Seq(Seq(S))
  PROVE  /\ Parted(ss, sep) \in Seq(Seq(S)) /\ Len(Parted(ss, sep)) = Len(ss)
         /\ \A i \in 1 .. Len(ss) : Parted(ss, sep)[i] = IF i = 1 THEN ss[i] ELSE sep \o ss[i]
<1>1. Len(ss) \in Nat /\ DOMAIN ss = 1 .. Len(ss) /\ \A i \in 1 .. Len(ss) : ss[i] \in Seq(S)
  BY LenProperties, ElementOfSeq
<1>2. \A i \in 1 .. Len(ss) : sep \o ss[i] \in Seq(S)
  BY <1>1, ConcatProperties
<1> QED
  BY <1>1, <1>2 DEF Parted

LEMMA JoinTyped ==
  ASSUME NEW S, NEW sep \in Seq(S), NEW ss \in Seq(Seq(S))
  PROVE  Join(ss, sep) \in Seq(S)
<1>1. Parted(ss, sep) \in Seq(Seq(S))
  BY PartedIs
<1>2. Join(ss, sep) = FlattenSeq(Parted(ss, sep))
  BY DEF Join, Parted
<1> QED
  BY <1>1, <1>2, FlattenTyped

JoinGrows(S, ss, x, sep) ==
  /\ Join(ss, sep) \in Seq(S)
  /\ ss = <<>> => Join(Append(ss, x), sep) = x
  /\ ss # <<>> => Join(Append(ss, x), sep) = Join(ss, sep) \o (sep \o x)

LEMMA JoinSnoc ==
  ASSUME NEW S, NEW sep \in Seq(S), NEW ss \in Seq(Seq(S)), NEW x \in Seq(S)
  PROVE  JoinGrows(S, ss, x, sep)
<1> DEFINE tt == Append(ss, x)
           y == IF Len(ss) = 0 THEN x ELSE sep \o x
           P == Parted(ss, sep)
           Q == Parted(tt, sep)
<1>1. /\ tt \in Seq(Seq(S)) /\ Len(tt) = Len(ss) + 1 /\ tt[Len(ss) + 1] = x /\ Len(ss) \in Nat
      /\ \A i \in 1 .. Len(ss) : tt[i] = ss[i]
  BY AppendProperties, LenProperties
<1> HIDE DEF tt
<1>2. /\ P \in Seq(Seq(S)) /\ Len(P) = Len(ss)
      /\ \A i \in 1 .. Len(ss) : P[i] = IF i = 1 THEN ss[i] ELSE sep \o ss[i]
  BY PartedIs
<1>3. /\ Q \in Seq(Seq(S)) /\ Len(Q) = Len(tt)
      /\ \A i \in 1 .. Len(tt) : Q[i] = IF i = 1 THEN tt[i] ELSE sep \o tt[i]
  BY <1>1, PartedIs
<1> HIDE DEF P, Q
<1>4. y \in Seq(S)
  BY ConcatProperties
<1>5. Q[Len(ss) + 1] = y
  <2>1. Len(ss) + 1 \in 1 .. Len(tt) /\ (Len(ss) + 1 = 1 <=> Len(ss) = 0)
    BY <1>1
  <2> QED
    BY <1>1, <1>3, <2>1
<1> HIDE DEF y
<1>6. Q = Append(P, y)
  <2> DEFINE A == Append(P, y)
  <2>1. /\ A \in Seq(Seq(S)) /\ Len(A) = Len(P) + 1 /\ A[Len(P) + 1] = y
        /\ \A i \in 1 .. Len(P) : A[i] = P[i]
    BY <1>2, <1>4, AppendProperties
  <2> HIDE DEF A
  <2>2. \A i \in 1 .. Len(Q) : Q[i] = A[i]
    <3>1. ASSUME NEW i \in 1 .. (Len(ss) + 1) PROVE Q[i] = A[i]
      <4>1. CASE i = Len(ss) + 1
        BY <1>2, <1>5, <2>1, <4>1
      <4>2. CASE i # Len(ss) + 1
        <5>1. i \in 1 .. Len(ss) /\ i \in 1 .. Len(tt)
          BY <1>1, <4>2
        <5> QED
          BY <1>1, <1>2, <1>3, <2>1, <5>1, ZenonT(60)
      <4> QED
        BY <4>1, <4>2
    <3> QED
      BY <1>1, <1>3, <3>1
  <2>3. Len(Q) = Len(A)
    BY <1>1, <1>2, <1>3, <2>1
  <2> QED
    BY <1>3, <2>1, <2>2, <2>3, SeqEqual DEF A
<1>7. Join(ss, sep) = FlattenSeq(P) /\ Join(tt, sep) = FlattenSeq(Q)
  BY DEF Join, P, Q, Parted
<1>8. FlattenSeq(P) \in Seq(S) /\ FlattenSeq(Q) = FlattenSeq(P) \o y
  BY <1>2, <1>4, <1>6, FlattenTyped, FlattenSnoc
<1>9. ASSUME ss = <<>> PROVE Join(tt, sep) = x
  <2>1. Len(ss) = 0 /\ y = x
    BY <1>9 DEF y
  <2>2. P = <<>>
    BY <1>2, <2>1, EmptySeq
  <2> QED
    BY <1>7, <1>8, <2>1, <2>2, FlattenEmpty, ConcatEmptySeq
<1>10. ASSUME ss # <<>> PROVE y = sep \o x
  BY <1>1, <1>10, EmptySeq DEF y
<1> QED
  BY <1>7, <1>8, <1>9, <1>10 DEF tt, JoinGrows

EndsGrow(j, sep, x, c) == Append(j \o (sep \o x), c) = Append(j, c) \o Append(x, c)
LEMMA EndedSnoc ==
  ASSUME NEW S, NEW c \in S, NEW sep \in Seq(S), \A y \in Seq(S) : Append(y, c) = y \o sep,
         NEW j \in Seq(S), NEW x \in Seq(S)
  PROVE  EndsGrow(j, sep, x, c)
<1>1. sep \o x \in Seq(S) /\ j \o sep \in Seq(S)
  BY ConcatProperties
<1>2. j \o (sep \o x) \in Seq(S)
  BY <1>1, ConcatProperties
<1>3. Append(j \o (sep \o x), c) = (j \o (sep \o x)) \o sep /\ Append(j, c) = j \o sep /\ Append(x, c) = x \o sep
  BY <1>2
<1>4. j \o (sep \o x) = (j \o sep) \o x
  BY ConcatAssociative, SMTT(60)
<1>5. ((j \o sep) \o x) \o sep = (j \o sep) \o (x \o sep)
  BY <1>1, ConcatAssociative, SMTT(60)
<1> QED
  BY <1>3, <1>4, <1>5 DEF EndsGrow

\* Texts that are joined and ended are texts that are ended, one after another.
Close(S, c) == [x \in Seq(S) |-> Append(x, c)]

LEMMA JoinEnded ==
  ASSUME NEW S, NEW c \in S, NEW ss \in Seq(Seq(S)), ss # <<>>
  PROVE  Append(Join(ss, <<c>>), c) = FlattenSeq(Mapped(Close(S, c), ss))
<1> DEFINE B == Close(S, c)
           Goal(r) == Append(Join(r, <<c>>), c) = FlattenSeq(Mapped(B, r))
           T == {r \in Seq(Seq(S)) : r # <<>> => Goal(r)}
<1>1. \A x \in Seq(S) : B[x] = Append(x, c) /\ B[x] \in Seq(S)
  BY AppendProperties DEF Close
<1> HIDE DEF B
<1>2. <<>> \in T
  OBVIOUS
<1>3. ASSUME NEW r \in Seq(Seq(S)), NEW x \in Seq(S), r \in T PROVE Append(r, x) \in T
  <2> DEFINE rx == Append(r, x)
  <2>0. PICK sep : sep = <<c>>
    OBVIOUS
  <2>1. rx \in Seq(Seq(S))
    BY AppendProperties
  <2>2. sep \in Seq(S)
    BY <2>0, OneTyped
  <2>2a. Goal(r) <=> Append(Join(r, sep), c) = FlattenSeq(Mapped(B, r))
    BY <2>0
  <2>2b. Goal(rx) <=> Append(Join(rx, sep), c) = FlattenSeq(Mapped(B, rx))
    BY <2>0
  <2>2c. \A y \in Seq(S) : Append(y, c) = y \o sep
    BY <2>0, AppendIsConcat
  <2> HIDE DEF Goal
  <2>3. /\ Join(r, sep) \in Seq(S) /\ (r = <<>> => Join(rx, sep) = x)
        /\ (r # <<>> => Join(rx, sep) = Join(r, sep) \o (sep \o x))
    <3>1. JoinGrows(S, r, x, sep)
      BY <2>2, JoinSnoc
    <3> QED
      BY <3>1 DEF JoinGrows
  <2>4. FlattenSeq(Mapped(B, rx)) = FlattenSeq(Mapped(B, r)) \o Append(x, c)
    <3>1. Mapped(B, r) \in Seq(Seq(S))
      BY <1>1, MappedTyped
    <3>2. Mapped(B, rx) = Append(Mapped(B, r), B[x])
      BY MappedSnoc
    <3> QED
      BY <1>1, <3>1, <3>2, FlattenSnoc
  <2>5. Append(x, c) = x \o sep /\ Append(x, c) \in Seq(S)
    BY <2>2c, AppendProperties
  <2>6. CASE r = <<>>
    <3>1. Mapped(B, r) = <<>>
      BY <2>6 DEF Mapped
    <3>2. FlattenSeq(Mapped(B, rx)) = Append(x, c)
      BY <2>4, <2>5, <3>1, FlattenEmpty, ConcatEmptySeq
    <3>3. Goal(rx)
      BY <2>2b, <2>3, <2>6, <3>2
    <3> QED
      BY <2>1, <3>3
  <2>7. CASE r # <<>>
    <3> DEFINE j == Join(r, sep)
    <3>1. Append(j, c) = FlattenSeq(Mapped(B, r)) /\ j \in Seq(S) /\ Join(rx, sep) = j \o (sep \o x)
      BY <1>3, <2>2a, <2>3, <2>7
    <3> HIDE DEF j, rx
    <3>2. Append(j \o (sep \o x), c) = Append(j, c) \o Append(x, c)
      <4>1. EndsGrow(j, sep, x, c)
        BY <2>2, <2>2c, <3>1, EndedSnoc
      <4> QED
        BY <4>1 DEF EndsGrow
    <3>6. Goal(rx)
      BY <2>2b, <2>4, <3>1, <3>2
    <3> QED
      BY <2>1, <3>6 DEF rx
  <2> QED
    BY <2>6, <2>7
<1>4. Seq(Seq(S)) \subseteq T
  <2> HIDE DEF T
  <2> QED
    BY <1>2, <1>3, Growing
<1> QED
  BY <1>4 DEF B

-----------------------------------------------------------------------------
\* From where ss[i] begins, the walk yields the texts from the i-th on.
LEMMA SplitJoin ==
  ASSUME NEW S, NEW c \in S, NEW ss \in Seq(Seq(S)), ss # <<>>,
         \A i \in 1 .. Len(ss) : \A k \in 1 .. Len(ss[i]) : ss[i][k] # c
  PROVE  Split(Join(ss, <<c>>), c) = ss
<1> DEFINE n == Len(ss)
           s == Join(ss, <<c>>)
           text == Append(s, c)
           uu == Mapped(Close(S, c), ss)
           head == Pieces(text, c)
           next == Onwards(text, c)
<1>1. n \in Nat /\ n # 0 /\ DOMAIN ss = 1 .. n /\ \A i \in 1 .. n : ss[i] \in Seq(S) /\ Len(ss[i]) \in Nat
  BY LenProperties, ElementOfSeq, EmptySeq
<1>2. s \in Seq(S)
  <2>1. <<c>> \in Seq(S)
    BY OneTyped
  <2> QED
    BY <2>1, JoinTyped
<1>3. text = FlattenSeq(uu)
  BY JoinEnded
<1>4. Ended(S, s, c, text)
  <2> HIDE DEF s
  <2> QED
    BY <1>2, EndedIs
<1>5. Split(s, c) = Scan(Len(text), head, next)
  BY SplitIs
<1>6. /\ uu \in Seq(Seq(S)) /\ Len(uu) = n
      /\ \A i \in 1 .. n : uu[i] = Append(ss[i], c)
  <2>1. \A x \in Seq(S) : Close(S, c)[x] = Append(x, c) /\ Close(S, c)[x] \in Seq(S)
    BY AppendProperties DEF Close
  <2>2. uu \in Seq(Seq(S))
    BY <2>1, MappedTyped
  <2>3. Len(uu) = n /\ \A i \in 1 .. n : uu[i] = Close(S, c)[ss[i]]
    BY MappedIs
  <2> QED
    BY <1>1, <2>1, <2>2, <2>3
<1>7. PICK p : Laid(uu, text, p)
  BY <1>3, <1>6, FlattenLaid
<1> HIDE DEF s, text, uu
<1>8. /\ text \in Seq(S) /\ Len(text) \in Nat
  BY <1>4 DEF Ended
<1>9. ASSUME NEW i \in 1 .. n
      PROVE  /\ Len(uu[i]) = Len(ss[i]) + 1 /\ uu[i][Len(ss[i]) + 1] = c
             /\ \A k \in 1 .. Len(ss[i]) : uu[i][k] = ss[i][k]
  <2> DEFINE y == ss[i]
  <2>1. y \in Seq(S) /\ uu[i] = Append(y, c)
    BY <1>1, <1>6
  <2> HIDE DEF y
  <2>2. /\ Len(uu[i]) = Len(y) + 1 /\ uu[i][Len(y) + 1] = c
        /\ \A k \in 1 .. Len(y) : uu[i][k] = y[k]
    BY <2>1, AppendProperties
  <2> QED
    BY <2>2 DEF y
<1>10. /\ p[1] = 1 /\ p[n + 1] = Len(text) + 1
       /\ \A i \in 1 .. (n + 1) : p[i] \in Nat /\ 1 <= p[i] /\ p[i] <= Len(text) + 1
       /\ \A i \in 1 .. n : p[i + 1] = p[i] + Len(uu[i])
       /\ \A i \in 1 .. n : \A k \in 1 .. Len(uu[i]) : text[p[i] + k - 1] = uu[i][k]
  BY <1>6, <1>7 DEF Laid
<1>11. ASSUME NEW i \in 1 .. n
       PROVE  p[i] \in 1 .. Len(text) /\ head[p[i]] = <<ss[i]>> /\ next[p[i]] = p[i + 1]
  <2> DEFINE m == Len(ss[i])
             q == p[i]
             q1 == p[i + 1]
             k == Stop(text, c, q)
  <2>1. m \in Nat /\ q \in Nat /\ 1 <= q /\ q1 = q + (m + 1) /\ q1 <= Len(text) + 1
    <3>1. i \in 1 .. (n + 1) /\ i + 1 \in 1 .. (n + 1)
      BY <1>1
    <3> QED
      BY <1>1, <1>9, <1>10, <3>1
  <2>2. \A j \in 1 .. (m + 1) : text[q + j - 1] = uu[i][j]
    BY <1>9, <1>10
  <2>3. text[q + m] = c
    <3>1. m + 1 \in 1 .. (m + 1) /\ q + (m + 1) - 1 = q + m
      BY <2>1
    <3>2. uu[i][m + 1] = c
      BY <1>9
    <3> QED
      BY <2>2, <3>1, <3>2
  <2>4. \A j \in 1 .. m : text[q + j - 1] = ss[i][j]
    <3>1. \A j \in 1 .. m : j \in 1 .. (m + 1) /\ uu[i][j] = ss[i][j]
      BY <1>9, <2>1
    <3> QED
      BY <2>2, <3>1
  <2>5. \A j \in 1 .. m : ss[i][j] # c
    OBVIOUS
  <2> HIDE DEF m, q, q1
  <2>6. q \in 1 .. Len(text) /\ q + m \in q .. Len(text)
    BY <1>8, <2>1
  <2>7. StopFits(text, c, q) /\ PieceFits(S, text, c, q)
    BY <1>4, <2>6, PieceIs
  <2>8. k \in q .. Len(text) /\ text[k] = c /\ \A j \in q .. (k - 1) : text[j] # c
    BY <2>7 DEF StopFits
  <2> HIDE DEF k
  <2>8a. k \in Int /\ q <= k /\ k <= Len(text)
    BY <1>8, <2>1, <2>8
  <2>8b. q + m \in Int /\ q + m <= Len(text) /\ q <= q + m
    BY <1>8, <2>1
  <2>9. k = q + m
    <3>1. ASSUME k < q + m PROVE FALSE
      <4> DEFINE j == k - q + 1
      <4>1. j \in 1 .. m /\ q + j - 1 = k
        BY <2>1, <2>8a, <3>1
      <4> HIDE DEF j
      <4> QED
        BY <2>4, <2>5, <2>8, <4>1
    <3>2. ASSUME q + m < k PROVE FALSE
      <4>1. q + m \in q .. (k - 1)
        BY <2>1, <2>8a, <3>2
      <4> QED
        BY <2>3, <2>8, <4>1
    <3> QED
      BY <2>8a, <2>8b, <3>1, <3>2
  <2>10. head[q] = <<SubSeq(text, q, k - 1)>> /\ next[q] = k + 1
    BY <2>7 DEF PieceFits, k
  <2>11. SubSeq(text, q, k - 1) = ss[i]
    <3> DEFINE r == SubSeq(text, q, k - 1)
    <3>1. k - 1 \in Nat /\ q \in Nat /\ 1 <= q /\ q <= (k - 1) + 1 /\ k - 1 <= Len(text) /\ (k - 1) + 1 - q = m
      BY <1>8, <2>1, <2>8a, <2>9
    <3>2. /\ r \in Seq(S) /\ Len(r) = (k - 1) + 1 - q
          /\ \A j \in 1 .. ((k - 1) + 1 - q) : r[j] = text[q + j - 1]
      BY <1>8, <3>1, SubSeqIs, SMTT(60)
    <3> HIDE DEF r
    <3>3. Len(r) = Len(ss[i]) /\ ss[i] \in Seq(S) /\ \A j \in 1 .. Len(r) : r[j] = ss[i][j]
      BY <1>1, <2>4, <3>1, <3>2 DEF m
    <3>4. r = ss[i]
      BY <3>2, <3>3, SeqEqual
    <3> QED
      BY <3>4 DEF r
  <2>12. k + 1 = q1
    BY <2>1, <2>8a, <2>9
  <2> QED
    BY <2>6, <2>10, <2>11, <2>12 DEF q, q1
<1>12. ASSUME NEW i \in 1 .. Len(text) PROVE head[i] \in Seq(Seq(S))
  <2>1. PieceFits(S, text, c, i)
    BY <1>4, PieceIs
  <2>2. head[i] = <<SubSeq(text, i, Stop(text, c, i) - 1)>> /\ SubSeq(text, i, Stop(text, c, i) - 1) \in Seq(S)
    BY <2>1 DEF PieceFits
  <2> QED
    BY <2>2, OneTyped
<1>13. Onward(Len(text), next)
  BY <1>4, SplitOnward
<1> HIDE DEF head, next
<1>14. PICK f : Walk(Len(text), head, next, f)
  BY <1>8, <1>12, <1>13, ScanWalks
<1> DEFINE Goal(i) == f[p[i]] = SubSeq(ss, i, n)
           T == {d \in Nat : d <= n => Goal(n + 1 - d)}
<1>15. 0 \in T
  <2>1. n + 1 - 0 = n + 1 /\ SubSeq(ss, n + 1, n) = <<>>
    BY <1>1, SubSeqEmpty
  <2>2. f[p[n + 1]] = <<>>
    BY <1>10, <1>14 DEF Walk
  <2> QED
    BY <2>1, <2>2
<1>16. ASSUME NEW d \in Nat, d \in T PROVE d + 1 \in T
  <2>1. ASSUME d + 1 <= n PROVE Goal(n + 1 - (d + 1))
    <3> DEFINE i == n - d
    <3>1. i \in 1 .. n /\ n + 1 - (d + 1) = i /\ n + 1 - d = i + 1 /\ n \in i .. n
      <4> HIDE DEF n, Goal
      <4>1. n \in Nat /\ d + 1 <= n
        BY <1>1, <2>1
      <4> QED
        BY <4>1
    <3>2. f[p[i + 1]] = SubSeq(ss, i + 1, n)
      BY <1>1, <1>16, <2>1, <3>1
    <3> HIDE DEF i
    <3>3. f[p[i]] = <<ss[i]>> \o f[p[i + 1]]
      BY <1>11, <1>14, <3>1 DEF Walk
    <3>4. SubSeq(ss, i, n) = <<ss[i]>> \o SubSeq(ss, i + 1, n)
      BY <3>1, SubSeqRecursiveFirst
    <3> QED
      BY <3>1, <3>2, <3>3, <3>4
  <2> QED
    BY <2>1, d + 1 \in Nat
<1>17. Nat \subseteq T
  <2> HIDE DEF T
  <2> QED
    BY <1>15, <1>16, Counting
<1>18. f[1] = SubSeq(ss, 1, n)
  <2>1. n \in T /\ n <= n /\ n + 1 - n = 1
    <3>1. n \in T
      BY <1>1, <1>17
    <3> HIDE DEF n, T
    <3>2. n \in Nat
      BY <1>1
    <3> QED
      BY <3>1, <3>2
  <2>2. Goal(1)
    BY <2>1
  <2> QED
    BY <1>10, <2>2
<1>19. SubSeq(ss, 1, n) = ss
  BY SubSeqFull
<1> QED
  BY <1>5, <1>14, <1>18, <1>19 DEF Walk, s

-----------------------------------------------------------------------------
(* Queries.                                                                 *)

\* One parameter of a query.
Field(k, v) == (k \o <<"=">>) \o v

FieldFits(k, v, p) ==
  /\ p \in Seq(Char) /\ p # <<>> /\ IndexOf(p, "=") = Len(k) + 1 /\ Len(k) \in Nat
  /\ SubSeq(p, 1, Len(k)) = k /\ From(p, Len(k) + 2) = v
  /\ \A i \in 1 .. Len(p) : p[i] \in Free(FALSE) \/ p[i] = "="

\* A text cut at the first c: k before it, v after it.
CutFits(S, c, k, v, p) ==
  /\ p \in Seq(S) /\ p # <<>> /\ Len(k) \in Nat /\ IndexOf(p, c) = Len(k) + 1
  /\ SubSeq(p, 1, Len(k)) = k /\ From(p, Len(k) + 2) = v

LEMMA CutIs ==
  ASSUME NEW S, NEW c \in S, NEW k \in Seq(S), \A i \in 1 .. Len(k) : k[i] # c, NEW v \in Seq(S),
         NEW p, p = (k \o <<c>>) \o v
  PROVE  CutFits(S, c, k, v, p)
<1> DEFINE m == Len(k)
           eq == <<c>>
           q == k \o eq
<1>2. k \in Seq(S) /\ v \in Seq(S) /\ eq \in Seq(S) /\ Len(eq) = 1 /\ eq[1] = c
  BY OneTyped
<1> HIDE DEF eq
<1>3. /\ q \in Seq(S) /\ Len(q) = m + 1 /\ m \in Nat /\ Len(v) \in Nat
      /\ \A i \in 1 .. (m + 1) : q[i] = IF i <= m THEN k[i] ELSE eq[i - m]
  <2>1. /\ q \in Seq(S) /\ Len(q) = Len(k) + Len(eq)
        /\ \A i \in 1 .. (Len(k) + Len(eq)) : q[i] = IF i <= Len(k) THEN k[i] ELSE eq[i - Len(k)]
    BY <1>2, ConcatProperties, Zenon
  <2>2. Len(k) \in Nat /\ Len(v) \in Nat
    BY LenProperties
  <2> HIDE DEF q
  <2> QED
    BY <1>2, <2>1, <2>2
<1> HIDE DEF q
<1>4. /\ p \in Seq(S) /\ Len(p) = (m + 1) + Len(v)
      /\ \A i \in 1 .. ((m + 1) + Len(v)) : p[i] = IF i <= m + 1 THEN q[i] ELSE v[i - (m + 1)]
  <2>1. p = q \o v
    BY DEF q, eq
  <2> QED
    <3> DEFINE x == q \o v
    <3>1. q \in Seq(S) /\ v \in Seq(S)
      BY <1>2, <1>3
    <3>2. /\ x \in Seq(S) /\ Len(x) = Len(q) + Len(v)
          /\ \A i \in 1 .. (Len(q) + Len(v)) : x[i] = IF i <= Len(q) THEN q[i] ELSE v[i - Len(q)]
      BY <3>1, ConcatProperties, Zenon
    <3> HIDE DEF x
    <3>3. p = x
      BY <2>1 DEF x
    <3> QED
      BY <1>3, <3>2, <3>3
<1>5. \A i \in 1 .. m : k[i] # c
  OBVIOUS
<1> HIDE DEF m
<1>6. ASSUME NEW i \in 1 .. m PROVE p[i] = k[i] /\ i \in 1 .. Len(p)
  <2>1. i \in 1 .. (m + 1) /\ i \in 1 .. ((m + 1) + Len(v)) /\ i <= m /\ i <= m + 1
    BY <1>3
  <2> QED
    BY <1>3, <1>4, <2>1
<1>7. p[m + 1] = c /\ m + 1 \in 1 .. Len(p)
  <2>1. m + 1 \in 1 .. (m + 1) /\ m + 1 \in 1 .. ((m + 1) + Len(v)) /\ ~(m + 1 <= m) /\ (m + 1) - m = 1 /\ m + 1 <= m + 1
    BY <1>3
  <2> QED
    BY <1>2, <1>3, <1>4, <2>1
<1>8. ASSUME NEW j \in 1 .. Len(v) PROVE p[(m + 2) + j - 1] = v[j]
  <2>1. (m + 2) + j - 1 \in 1 .. ((m + 1) + Len(v)) /\ ~((m + 2) + j - 1 <= m + 1) /\ ((m + 2) + j - 1) - (m + 1) = j
    BY <1>3
  <2> QED
    BY <1>4, <2>1
<1>9. IndexOf(p, c) = m + 1
  <2> DEFINE x == IndexOf(p, c)
  <2>1. x \in 0 .. Len(p) /\ (x # 0 => p[x] = c) /\ \A i \in 1 .. Len(p) : p[i] = c => x # 0 /\ x <= i
    BY <1>4, IndexOfIs, ZenonT(60)
  <2> HIDE DEF x
  <2>2. x # 0 /\ x <= m + 1 /\ p[x] = c
    BY <1>7, <2>1
  <2>3. x \notin 1 .. m
    BY <1>5, <1>6, <2>2
  <2>4. x \in Nat
    BY <2>1
  <2>5. x = m + 1
    BY <1>3, <2>2, <2>3, <2>4
  <2> QED
    BY <2>5 DEF x
<1>10. SubSeq(p, 1, m) = k
  <2> DEFINE r == SubSeq(p, 1, m)
  <2>1. 1 \in Nat /\ 1 <= 1 /\ 1 <= m + 1 /\ m <= Len(p) /\ m + 1 - 1 = m
    BY <1>3, <1>4
  <2>2. r \in Seq(S) /\ Len(r) = m /\ \A i \in 1 .. m : r[i] = p[1 + i - 1]
    BY <1>3, <1>4, <2>1, SubSeqIs
  <2> HIDE DEF r
  <2>3. \A i \in 1 .. m : r[i] = k[i]
    <3>1. \A i \in 1 .. m : 1 + i - 1 = i
      OBVIOUS
    <3> QED
      BY <1>6, <2>2, <3>1
  <2>4. r = k
    BY <1>2, <2>2, <2>3, SeqEqual DEF m
  <2> QED
    BY <2>4 DEF r
<1>11. From(p, m + 2) = v
  <2> DEFINE r == From(p, m + 2)
  <2>1. m + 2 \in 1 .. (Len(p) + 1) /\ Len(p) + 1 - (m + 2) = Len(v)
    BY <1>3, <1>4
  <2>2. /\ r \in Seq(S) /\ Len(r) = Len(p) + 1 - (m + 2)
        /\ \A j \in 1 .. (Len(p) + 1 - (m + 2)) : r[j] = p[(m + 2) + j - 1]
    BY <1>4, <2>1, FromIs
  <2> HIDE DEF r
  <2>3. Len(r) = Len(v) /\ \A j \in 1 .. Len(r) : r[j] = v[j]
    BY <1>8, <2>1, <2>2
  <2>4. r = v
    BY <1>2, <2>2, <2>3, SeqEqual
  <2> QED
    BY <2>4 DEF r
<1>12. p # <<>>
  <2>1. Len(p) # 0
    BY <1>3, <1>4
  <2> QED
    BY <1>4, <2>1, EmptySeq
<1> QED
  BY <1>3, <1>4, <1>9, <1>10, <1>11, <1>12 DEF CutFits, m

LEMMA FieldIs ==
  ASSUME NEW k \in Seq(Free(FALSE)), NEW v \in Seq(Free(FALSE)), NEW p, p = Field(k, v)
  PROVE  FieldFits(k, v, p)
<1> DEFINE F == Free(FALSE)
           G == F \cup {"="}
<1>1. "=" \notin F /\ G \subseteq Char
  <2>1. "=" \in Reserved
    BY DEF Reserved
  <2>2. "=" # "/"
    OBVIOUS
  <2>3. FALSE \in BOOLEAN
    OBVIOUS
  <2> QED
    BY <2>1, <2>2, <2>3, FreeReserved, FreeChars, CharKinds
<1> HIDE DEF F
<1>2. F \subseteq G /\ "=" \in G
  OBVIOUS
<1> HIDE DEF G
<1>3. k \in Seq(G) /\ v \in Seq(G)
  BY <1>2, SeqMonotonic DEF F
<1>4. \A i \in 1 .. Len(k) : k[i] # "="
  <2>1. \A i \in 1 .. Len(k) : k[i] \in F
    BY ElementOfSeq DEF F
  <2> QED
    BY <1>1, <2>1
<1>5. PICK c : c = "="
  OBVIOUS
<1>6. CutFits(G, c, k, v, p)
  <2>1. p = (k \o <<c>>) \o v
    BY <1>5 DEF Field
  <2>2. c \in G /\ \A i \in 1 .. Len(k) : k[i] # c
    BY <1>2, <1>4, <1>5
  <2> QED
    BY <1>3, <2>1, <2>2, CutIs
<1>7. p \in Seq(G) /\ \A i \in 1 .. Len(p) : p[i] \in G
  BY <1>6, ElementOfSeq DEF CutFits
<1>8. p \in Seq(Char)
  BY <1>1, <1>7, SeqMonotonic
<1> QED
  BY <1>5, <1>6, <1>7, <1>8 DEF CutFits, FieldFits, G, F

-----------------------------------------------------------------------------
\* What parseQueryKeepBlank makes of the parameters.
KeyOf(p) == Unescape(IF IndexOf(p, "=") = 0 THEN p ELSE SubSeq(p, 1, IndexOf(p, "=") - 1))
ValueOf(p) == IF IndexOf(p, "=") = 0 THEN <<>> ELSE Unescape(From(p, IndexOf(p, "=") + 1))
Fields(pp) ==
  LET full == {i \in DOMAIN pp : pp[i] # <<>>}
  IN [k \in {KeyOf(pp[i]) : i \in full} |->
       FlattenSeq([i \in DOMAIN pp |-> IF i \in full /\ KeyOf(pp[i]) = k THEN <<ValueOf(pp[i])>> ELSE <<>>])]

LEMMA ParseQueryIs == \A tmpl : parseQueryKeepBlank(tmpl) = Fields(Split(tmpl, "&"))
BY DEF parseQueryKeepBlank, Fields, KeyOf, ValueOf

ParsedAs(k, v, p) ==
  /\ p \in Seq(Char) /\ p # <<>> /\ KeyOf(p) = k /\ ValueOf(p) = v
  /\ \A i \in 1 .. Len(p) : p[i] # "&" /\ p[i] # "?"

LEMMA FieldParsed ==
  ASSUME NEW k \in Seq(Char), NEW v \in Seq(Char), NEW p, p = Field(fmEncode(k, FALSE), fmEncode(v, FALSE))
  PROVE  ParsedAs(k, v, p)
<1> DEFINE a == fmEncode(k, FALSE)
           b == fmEncode(v, FALSE)
<1>0. FALSE \in BOOLEAN
  OBVIOUS
<1>1. a \in Seq(Free(FALSE)) /\ b \in Seq(Free(FALSE))
  BY <1>0, EncodingFree
<1>2. Unescape(a) = k /\ Unescape(b) = v
  BY <1>0, Decoding
<1>3. FieldFits(a, b, p)
  BY <1>1, FieldIs
<1> HIDE DEF a, b
<1>4. /\ p \in Seq(Char) /\ p # <<>> /\ IndexOf(p, "=") = Len(a) + 1 /\ Len(a) \in Nat
      /\ SubSeq(p, 1, Len(a)) = a /\ From(p, Len(a) + 2) = b
      /\ \A i \in 1 .. Len(p) : p[i] \in Free(FALSE) \/ p[i] = "="
  BY <1>3 DEF FieldFits
<1>5. Len(a) + 1 # 0 /\ (Len(a) + 1) - 1 = Len(a) /\ (Len(a) + 1) + 1 = Len(a) + 2
  BY <1>4
<1>6. KeyOf(p) = k /\ ValueOf(p) = v
  BY <1>2, <1>4, <1>5 DEF KeyOf, ValueOf
<1>7. "&" \notin Free(FALSE) /\ "?" \notin Free(FALSE)
  <2>1. "&" \in Reserved /\ "?" \in Reserved
    BY DEF Reserved
  <2> QED
    BY <1>0, <2>1, FreeReserved
<1>8. \A i \in 1 .. Len(p) : p[i] # "&" /\ p[i] # "?"
  BY <1>4, <1>7
<1> QED
  BY <1>4, <1>6, <1>8 DEF ParsedAs

\* The values of every key, in their order.
Gathered(n, K, V) ==
  [k \in {K[i] : i \in 1 .. n} |-> FlattenSeq([i \in 1 .. n |-> IF K[i] = k THEN <<V[i]>> ELSE <<>>])]

\* fastmcp.go:293: a query is parsed as the keys and values it was made of.
THEOREM QueryParsed ==
  ASSUME NEW n \in Nat, n # 0, NEW K, NEW V, \A i \in 1 .. n : K[i] \in Seq(Char) /\ V[i] \in Seq(Char),
         NEW pp, DOMAIN pp = 1 .. n, pp \in Seq(Seq(Char)),
         \A i \in 1 .. n : pp[i] = Field(fmEncode(K[i], FALSE), fmEncode(V[i], FALSE))
  PROVE  parseQueryKeepBlank(Join(pp, <<"&">>)) = Gathered(n, K, V)
<1>1. Len(pp) = n
  BY LenProperties
<1>2. \A i \in 1 .. n : /\ pp[i] # <<>> /\ KeyOf(pp[i]) = K[i] /\ ValueOf(pp[i]) = V[i]
                        /\ \A j \in 1 .. Len(pp[i]) : pp[i][j] # "&"
  <2>1. ASSUME NEW i \in 1 .. n
        PROVE  /\ pp[i] # <<>> /\ KeyOf(pp[i]) = K[i] /\ ValueOf(pp[i]) = V[i]
               /\ \A j \in 1 .. Len(pp[i]) : pp[i][j] # "&"
    <3> DEFINE p == pp[i]
    <3>1. p = Field(fmEncode(K[i], FALSE), fmEncode(V[i], FALSE)) /\ K[i] \in Seq(Char) /\ V[i] \in Seq(Char)
      OBVIOUS
    <3> HIDE DEF p
    <3>2. ParsedAs(K[i], V[i], p)
      BY <3>1, FieldParsed
    <3> QED
      BY <3>2 DEF ParsedAs, p
  <2> QED
    BY <2>1
<1>3. Split(Join(pp, <<"&">>), "&") = pp
  <2>1. "&" \in Char
    BY CharKinds DEF Reserved
  <2>2. pp # <<>>
    BY <1>1
  <2>3. \A i \in 1 .. Len(pp) : \A j \in 1 .. Len(pp[i]) : pp[i][j] # "&"
    BY <1>1, <1>2
  <2> QED
    BY <2>1, <2>2, <2>3, SplitJoin
<1>4. {i \in DOMAIN pp : pp[i] # <<>>} = 1 .. n
  BY <1>2
<1>5. Fields(pp)
        = [k \in {KeyOf(pp[i]) : i \in 1 .. n} |->
            FlattenSeq([i \in 1 .. n |-> IF i \in 1 .. n /\ KeyOf(pp[i]) = k THEN <<ValueOf(pp[i])>> ELSE <<>>])]
  BY <1>4 DEF Fields
<1>6. {KeyOf(pp[i]) : i \in 1 .. n} = {K[i] : i \in 1 .. n}
  BY <1>2
<1>7. \A k : [i \in 1 .. n |-> IF i \in 1 .. n /\ KeyOf(pp[i]) = k THEN <<ValueOf(pp[i])>> ELSE <<>>]
             = [i \in 1 .. n |-> IF K[i] = k THEN <<V[i]>> ELSE <<>>]
  BY <1>2
<1>8. Fields(pp) = Gathered(n, K, V)
  BY <1>5, <1>6, <1>7 DEF Gathered
<1> QED
  BY <1>3, <1>8, ParseQueryIs

LEMMA PlainChars ==
  /\ Unreserved \subseteq Char /\ {"{", "}", "?", "*", ",", "&", "="} \subseteq Char
  /\ \A c \in Unreserved : c \notin {"{", "}", "?", "*", ",", "&", "="}
BY DEF Char, Code, Unreserved, Reserved, Hex

LEMMA TwoTyped ==
  ASSUME NEW S, NEW x \in S, NEW y \in S
  PROVE  <<x, y>> \in Seq(S)
OBVIOUS

\* The text of "{?name*}", character by character.
Exploded(name) == (<<"{", "?">> \o name) \o <<"*", "}">>
Queried(name, n, tmpl) ==
  /\ n \in Nat /\ n # 0 /\ n = Len(name) /\ name \in Seq(Unreserved) /\ tmpl \in Seq(Char) /\ Len(tmpl) = n + 4
  /\ tmpl[1] = "{" /\ tmpl[2] = "?" /\ tmpl[n + 3] = "*" /\ tmpl[n + 4] = "}"
  /\ \A j \in 1 .. n : tmpl[j + 2] = name[j] /\ name[j] \in Unreserved

LEMMA ExplodedIs ==
  ASSUME NEW name \in Seq(Unreserved), name # <<>>, NEW tmpl, tmpl = Exploded(name)
  PROVE  Queried(name, Len(name), tmpl)
<1> DEFINE n == Len(name)
           open == <<"{", "?">>
           end == <<"*", "}">>
           x == open \o name
           y == x \o end
<1>1. /\ open \in Seq(Char) /\ Len(open) = 2 /\ open[1] = "{" /\ open[2] = "?"
      /\ end \in Seq(Char) /\ Len(end) = 2 /\ end[1] = "*" /\ end[2] = "}"
  <2>1. "{" \in Char /\ "?" \in Char /\ "*" \in Char /\ "}" \in Char
    BY PlainChars
  <2>2. open \in Seq(Char) /\ end \in Seq(Char)
    BY <2>1, TwoTyped
  <2> QED
    BY <2>2
<1>2. name \in Seq(Char)
  BY PlainChars, SeqMonotonic
<1>3. n \in Nat /\ n # 0 /\ \A j \in 1 .. n : name[j] \in Unreserved
  BY LenProperties, EmptySeq, ElementOfSeq
<1>4. tmpl = y
  BY DEF Exploded
<1> HIDE DEF open, end
<1>5. /\ x \in Seq(Char) /\ Len(x) = Len(open) + n
      /\ \A i \in 1 .. (Len(open) + n) : x[i] = IF i <= Len(open) THEN open[i] ELSE name[i - Len(open)]
  BY <1>1, <1>2, ConcatProperties, Zenon
<1> HIDE DEF x
<1>6. /\ y \in Seq(Char) /\ Len(y) = Len(x) + Len(end)
      /\ \A i \in 1 .. (Len(x) + Len(end)) : y[i] = IF i <= Len(x) THEN x[i] ELSE end[i - Len(x)]
  <2>1. x \in Seq(Char) /\ end \in Seq(Char)
    BY <1>1, <1>5
  <2> QED
    BY <2>1, ConcatProperties, Zenon
<1> HIDE DEF y, n
<1>6a. Len(open) = 2 /\ Len(end) = 2 /\ n \in Nat
  BY <1>1, <1>3
<1>7. Len(x) = n + 2 /\ Len(y) = n + 4
  BY <1>5, <1>6, <1>6a
<1>8. \A i \in 1 .. (n + 4) : y[i] = IF i <= n + 2 THEN x[i] ELSE end[i - (n + 2)]
  BY <1>6, <1>6a, <1>7
<1>9. \A i \in 1 .. (n + 2) : x[i] = IF i <= 2 THEN open[i] ELSE name[i - 2]
  BY <1>5, <1>6a
<1>10. \A i \in 1 .. (n + 2) : y[i] = IF i <= 2 THEN open[i] ELSE name[i - 2]
  <2>1. \A i \in 1 .. (n + 2) : i \in 1 .. (n + 4) /\ i <= n + 2
    BY <1>3
  <2> QED
    BY <1>8, <1>9, <2>1
<1>11. y[1] = "{" /\ y[2] = "?"
  <2>1. 1 \in 1 .. (n + 2) /\ 2 \in 1 .. (n + 2)
    BY <1>3
  <2>2. 1 <= 2 /\ 2 <= 2
    OBVIOUS
  <2>3. y[1] = open[1] /\ y[2] = open[2]
    BY <1>10, <2>1, <2>2
  <2> QED
    BY <1>1, <2>3
<1>12. \A j \in 1 .. n : y[j + 2] = name[j]
  <2>1. \A j \in 1 .. n : j + 2 \in 1 .. (n + 2) /\ ~(j + 2 <= 2) /\ (j + 2) - 2 = j
    BY <1>3
  <2> QED
    BY <1>10, <2>1
<1>13. y[n + 3] = "*" /\ y[n + 4] = "}"
  <2>1. /\ n + 3 \in 1 .. (n + 4) /\ ~(n + 3 <= n + 2) /\ (n + 3) - (n + 2) = 1
        /\ n + 4 \in 1 .. (n + 4) /\ ~(n + 4 <= n + 2) /\ (n + 4) - (n + 2) = 2
    BY <1>3
  <2> QED
    BY <1>1, <1>8, <2>1
<1> QED
  BY <1>3, <1>4, <1>6, <1>7, <1>11, <1>12, <1>13 DEF Queried, n

\* The one part of the template begins at the first character.
LEMMA OnePart ==
  ASSUME NEW name, NEW n, NEW tmpl, Queried(name, n, tmpl)
  PROVE  Parse(tmpl) = <<utParseExpr(SubSeq(tmpl, 2, n + 3))>>
<1>1. /\ n \in Nat /\ n # 0 /\ tmpl \in Seq(Char) /\ Len(tmpl) = n + 4
      /\ tmpl[1] = "{" /\ tmpl[2] = "?" /\ tmpl[n + 3] = "*" /\ tmpl[n + 4] = "}"
      /\ \A j \in 1 .. n : tmpl[j + 2] \in Unreserved
  BY DEF Queried
<1>1a. n \in Nat /\ n # 0 /\ Len(tmpl) = n + 4 /\ Len(tmpl) \in Nat
  <2>1. n \in Nat /\ n # 0 /\ Len(tmpl) = n + 4 /\ tmpl \in Seq(Char)
    BY <1>1, Zenon
  <2>2. Len(tmpl) \in Nat
    BY <2>1, LenProperties
  <2> QED
    BY <2>1, <2>2, Zenon
<1>2. 1 \in 1 .. Len(tmpl) /\ n + 4 \in 1 .. Len(tmpl) /\ DOMAIN tmpl = 1 .. Len(tmpl)
  <2>1. 1 \in 1 .. Len(tmpl) /\ n + 4 \in 1 .. Len(tmpl)
    BY <1>1a
  <2> QED
    BY <1>1, <2>1, LenProperties
<1>3. \A k \in 1 .. (n + 3) : tmpl[k] # "}"
  <2>1. ASSUME NEW k \in 1 .. (n + 3) PROVE k = 1 \/ k = 2 \/ k = n + 3 \/ \E j \in 1 .. n : k = j + 2
    <3>1. CASE k = 1 \/ k = 2 \/ k = n + 3
      BY <3>1
    <3>2. CASE ~(k = 1 \/ k = 2 \/ k = n + 3)
      <4>1. k - 2 \in 1 .. n /\ k = (k - 2) + 2
        BY <1>1a, <3>2
      <4> QED
        BY <4>1
    <3> QED
      BY <3>1, <3>2
  <2>2. \A j \in 1 .. n : tmpl[j + 2] # "}"
    BY <1>1, PlainChars
  <2>3. "{" # "}" /\ "?" # "}" /\ "*" # "}"
    OBVIOUS
  <2> QED
    BY <1>1, <2>1, <2>2, <2>3
<1>4. BraceAt(tmpl, 1) = 1
  <2> DEFINE B == BracesFrom(tmpl, 1)
  <2>1. B \subseteq 1 .. Len(tmpl) /\ 1 \in B /\ B # {}
    BY <1>1, <1>2 DEF BracesFrom
  <2>2. BraceAt(tmpl, 1) = Min(B)
    BY <2>1 DEF BraceAt
  <2> HIDE DEF B
  <2>3. Min(B) \in B /\ \A m \in B : Min(B) <= m
    <3>1. Len(tmpl) \in Nat
      BY LenProperties, <1>1
    <3> QED
      BY <2>1, <3>1, LeastIs
  <2>4. Min(B) \in 1 .. Len(tmpl) /\ Min(B) <= 1
    BY <2>1, <2>3
  <2>5. Min(B) = 1
    BY <1>1a, <2>4
  <2> QED
    BY <2>2, <2>5
<1>5. CloseAt(tmpl, 1) = n + 4
  <2> DEFINE x == CloseAt(tmpl, 1)
  <2>1. /\ x \in 0 .. (Len(tmpl) + 1 - 1) /\ (x # 0 => tmpl[1 + x - 1] = "}")
        /\ \A k \in 1 .. Len(tmpl) : tmpl[k] = "}" => x # 0 /\ 1 + x - 1 <= k
    BY <1>1, <1>2, CloseIs
  <2> HIDE DEF x
  <2>1a. x \in 0 .. (Len(tmpl) + 1 - 1)
    BY <2>1
  <2>2. x \in Nat /\ x <= n + 4 /\ 1 + x - 1 = x
    BY <1>1a, <2>1a
  <2>3. x # 0 /\ tmpl[x] = "}"
    BY <1>1, <1>2, <2>1, <2>2
  <2>4. x \notin 1 .. (n + 3)
    BY <1>3, <2>3
  <2>5. x = n + 4
    <3>1. x # 0
      BY <2>3
    <3> QED
      BY <1>1a, <2>2, <2>4, <3>1
  <2> QED
    BY <2>5 DEF x
<1>6. PartAt(tmpl, 1) = utParseExpr(SubSeq(tmpl, 2, n + 3)) /\ AfterPart(tmpl, 1) = Len(tmpl) + 1
  <2>1. ~(BraceAt(tmpl, 1) > 1)
    BY <1>4
  <2>2. ~StrayAt(tmpl, 1)
    <3>1. CloseAt(tmpl, 1) # 0
      BY <1>1a, <1>5
    <3>2. tmpl[1] # "}"
      BY <1>1
    <3> QED
      BY <3>1, <3>2 DEF StrayAt
  <2>3. 1 + 1 = 2 /\ 1 + (n + 4) - 2 = n + 3 /\ 1 + (n + 4) = Len(tmpl) + 1
    BY <1>1a
  <2>4. PartAt(tmpl, 1) = utParseExpr(SubSeq(tmpl, 1 + 1, 1 + CloseAt(tmpl, 1) - 2))
    BY <2>1, <2>2 DEF PartAt
  <2>5. AfterPart(tmpl, 1) = 1 + CloseAt(tmpl, 1)
    BY <2>1, <2>2 DEF AfterPart
  <2> QED
    BY <1>5, <2>3, <2>4, <2>5
<1> DEFINE S == {PartAt(tmpl, j) : j \in 1 .. Len(tmpl)}
           head == ParseHeads(tmpl)
           next == ParseNexts(tmpl)
<1>7. /\ Parse(tmpl) = Scan(Len(tmpl), head, next) /\ Len(tmpl) \in Nat /\ Onward(Len(tmpl), next)
      /\ \A i \in 1 .. Len(tmpl) : head[i] \in Seq(S)
  BY <1>1, ParseOnward
<1>8. head[1] = <<PartAt(tmpl, 1)>> /\ next[1] = AfterPart(tmpl, 1)
  BY <1>2 DEF ParseHeads, ParseNexts
<1> HIDE DEF S, head, next
<1>9. PICK f : Walk(Len(tmpl), head, next, f)
  BY <1>7, ScanWalks
<1>10. f[1] = <<PartAt(tmpl, 1)>> \o <<>>
  BY <1>2, <1>6, <1>8, <1>9 DEF Walk
<1> DEFINE P == <<PartAt(tmpl, 1)>>
<1>11. P \o <<>> = P
  <2>1. P \in Seq({PartAt(tmpl, 1)})
    BY OneTyped
  <2> QED
    BY <2>1, ConcatEmptySeq
<1> QED
  BY <1>6, <1>7, <1>9, <1>10, <1>11 DEF Walk

\* The expression has one variable, that is exploded.
OneAsked(p, name) ==
  /\ p.op = "?" /\ DOMAIN p.vars = {1}
  /\ p.vars[1].name = name /\ p.vars[1].explode = TRUE

LEMMA OneVariable ==
  ASSUME NEW name, NEW n, NEW tmpl, Queried(name, n, tmpl),
         NEW p, p = utParseExpr(SubSeq(tmpl, 2, n + 3))
  PROVE  OneAsked(p, name)
<1> DEFINE body == SubSeq(tmpl, 2, n + 3)
           rest == Tail(body)
<1>1. /\ n \in Nat /\ n # 0 /\ tmpl \in Seq(Char) /\ Len(tmpl) = n + 4 /\ n = Len(name) /\ name \in Seq(Unreserved)
      /\ tmpl[2] = "?" /\ tmpl[n + 3] = "*"
      /\ \A j \in 1 .. n : tmpl[j + 2] = name[j] /\ name[j] \in Unreserved
  BY DEF Queried
<1>2. body \in Seq(Char) /\ Len(body) = n + 2 /\ \A j \in 1 .. (n + 2) : body[j] = tmpl[j + 1]
  <2>1. 2 \in Nat /\ n + 3 \in Nat /\ 1 <= 2 /\ 2 <= (n + 3) + 1 /\ n + 3 <= Len(tmpl) /\ (n + 3) + 1 - 2 = n + 2
    BY <1>1
  <2>2. body \in Seq(Char) /\ Len(body) = (n + 3) + 1 - 2 /\ \A j \in 1 .. ((n + 3) + 1 - 2) : body[j] = tmpl[2 + j - 1]
    BY <1>1, <2>1, SubSeqIs
  <2>3. \A j \in 1 .. (n + 2) : 2 + j - 1 = j + 1
    BY <1>1
  <2> HIDE DEF body
  <2> QED
    BY <2>1, <2>2, <2>3
<1> HIDE DEF body
<1>3. body # <<>> /\ body[1] = "?"
  <2>1. 1 \in 1 .. (n + 2) /\ 1 + 1 = 2 /\ n + 2 # 0
    BY <1>1
  <2>2. body[1] = tmpl[2]
    BY <1>2, <2>1
  <2>3. Len(body) # 0
    BY <1>2, <2>1
  <2> QED
    BY <1>1, <2>2, <2>3
<1>4. /\ rest \in Seq(Char) /\ Len(rest) = n + 1 /\ rest[n + 1] = "*"
      /\ \A j \in 1 .. n : rest[j] = name[j]
  <2>1. rest \in Seq(Char) /\ Len(rest) = Len(body) - 1 /\ \A j \in 1 .. Len(rest) : rest[j] = body[j + 1]
    BY <1>2, <1>3, HeadTailProperties
  <2> HIDE DEF rest
  <2>2. Len(rest) = n + 1
    BY <1>1, <1>2, <2>1
  <2>3. \A j \in 1 .. (n + 1) : rest[j] = tmpl[j + 2]
    <3>1. \A j \in 1 .. (n + 1) : j \in 1 .. Len(rest) /\ j + 1 \in 1 .. (n + 2) /\ (j + 1) + 1 = j + 2
      BY <1>1, <2>2
    <3> QED
      BY <1>2, <2>1, <3>1
  <2>4. n + 1 \in 1 .. (n + 1) /\ (n + 1) + 2 = n + 3 /\ \A j \in 1 .. n : j \in 1 .. (n + 1)
    BY <1>1
  <2> QED
    BY <1>1, <2>1, <2>2, <2>3, <2>4
<1> HIDE DEF rest
<1>5. Split(rest, ",") = <<rest>>
  <2> DEFINE ss == <<rest>>
  <2>1. ss \in Seq(Seq(Char)) /\ ss # <<>> /\ Len(ss) = 1 /\ ss[1] = rest /\ ss = Append(<<>>, rest)
    BY <1>4
  <2>2. "," \in Char
    BY PlainChars
  <2>3. \A k \in 1 .. Len(rest) : rest[k] # ","
    <3>1. ASSUME NEW k \in 1 .. (n + 1) PROVE rest[k] # ","
      <4>1. CASE k = n + 1
        BY <1>4, <4>1
      <4>2. CASE k # n + 1
        <5>1. k \in 1 .. n
          BY <1>1, <4>2
        <5>2. rest[k] \in Unreserved
          BY <1>1, <1>4, <5>1
        <5> QED
          BY <5>2, PlainChars
      <4> QED
        BY <4>1, <4>2
    <3> QED
      BY <1>4, <3>1
  <2> HIDE DEF ss
  <2>4. Split(Join(ss, <<",">>), ",") = ss
    <3>1. \A i \in 1 .. Len(ss) : i = 1
      BY <2>1
    <3>2. \A i \in 1 .. Len(ss) : \A k \in 1 .. Len(ss[i]) : ss[i][k] # ","
      BY <2>1, <2>3, <3>1
    <3> QED
      BY <2>1, <2>2, <3>2, SplitJoin
  <2>5. Join(ss, <<",">>) = rest
    <3>1. <<",">> \in Seq(Char)
      BY <2>2, OneTyped
    <3>2. <<>> \in Seq(Seq(Char))
      OBVIOUS
    <3>3. JoinGrows(Char, <<>>, rest, <<",">>)
      BY <1>4, <3>1, <3>2, JoinSnoc
    <3> QED
      BY <2>1, <3>3 DEF JoinGrows
  <2> QED
    BY <2>4, <2>5 DEF ss
<1>6. p.op = "?" /\ p.vars = [i \in DOMAIN Split(rest, ",") |-> ParseVar(Split(rest, ",")[i])]
  <2>1. body[1] \in {"+", "#", ".", "/", ";", "?", "&"}
    BY <1>3
  <2> QED
    BY <1>3, <2>1 DEF utParseExpr, rest, body
<1>7. DOMAIN p.vars = {1} /\ p.vars[1] = ParseVar(rest)
  <2> DEFINE ss == <<rest>>
  <2>1. DOMAIN ss = {1} /\ ss[1] = rest
    OBVIOUS
  <2>2. Split(rest, ",") = ss
    BY <1>5
  <2> HIDE DEF ss
  <2>3. p.vars = [i \in {1} |-> ParseVar(ss[i])]
    BY <1>6, <2>1, <2>2
  <2> QED
    BY <2>1, <2>3
<1>8. ParseVar(rest).name = Front(rest) /\ ParseVar(rest).explode = TRUE
  <2>1. rest # <<>>
    <3>1. Len(rest) # 0
      BY <1>1, <1>4
    <3> QED
      BY <3>1
  <2>2. Last(rest) = "*"
    BY <1>4 DEF Last
  <2> QED
    BY <2>1, <2>2 DEF ParseVar
<1>9. Front(rest) = name
  <2> DEFINE r == SubSeq(rest, 1, n)
  <2>1. Front(rest) = r
    <3>1. Len(rest) - 1 = n
      BY <1>1, <1>4
    <3> QED
      BY <3>1 DEF Front
  <2>2. 1 \in Nat /\ 1 <= 1 /\ 1 <= n + 1 /\ n <= Len(rest) /\ n + 1 - 1 = n
    BY <1>1, <1>4
  <2>3. r \in Seq(Char) /\ Len(r) = n + 1 - 1 /\ \A k \in 1 .. (n + 1 - 1) : r[k] = rest[1 + k - 1]
    BY <1>1, <1>4, <2>2, SubSeqIs
  <2> HIDE DEF r
  <2>4. \A k \in 1 .. n : 1 + k - 1 = k
    BY <1>1
  <2>5. Len(r) = Len(name) /\ \A k \in 1 .. Len(r) : r[k] = name[k]
    BY <1>1, <1>4, <2>2, <2>3, <2>4
  <2>6. name \in Seq(Char)
    BY <1>1, PlainChars, SeqMonotonic
  <2>7. r = name
    BY <2>3, <2>5, <2>6, SeqEqual
  <2> QED
    BY <2>1, <2>7
<1> QED
  BY <1>6, <1>7, <1>8, <1>9 DEF OneAsked

\* The settings of the operator "?".
Asking(cfg) ==
  /\ cfg.first = <<"?">> /\ cfg.sep = <<"&">> /\ cfg.named = TRUE /\ cfg.ifEmpty = <<"=">> /\ cfg.allow = "U"

LEMMA AskingIs == Asking(utOperator("?"))
<1>1. utOperator("?") = [first |-> <<"?">>, sep |-> <<"&">>, named |-> TRUE, ifEmpty |-> <<"=">>, allow |-> "U"]
  BY DEF utOperator
<1> QED
  BY <1>1 DEF Asking

LEMMA NoText == fmEncode(<<>>, FALSE) = <<>>
<1>1. <<>> \in Seq(Char) /\ FALSE \in BOOLEAN /\ Mapped(Enc(FALSE), <<>>) = <<>>
  BY DEF Mapped
<1> QED
  BY <1>1, EncIs, FlattenEmpty

\* The text of one element of a list.
Named(name, cfg, s) ==
  name \o (IF s = <<>> THEN cfg.ifEmpty ELSE <<"=">> \o utEncode(s, cfg.allow))

LEMMA NamedIs ==
  ASSUME NEW cfg, Asking(cfg), NEW name \in Seq(Unreserved), NEW s \in Seq(Char)
  PROVE  Named(name, cfg, s) = Field(fmEncode(name, FALSE), fmEncode(s, FALSE))
<1> DEFINE e == fmEncode(s, FALSE)
<1>0. FALSE \in BOOLEAN
  OBVIOUS
<1>1. fmEncode(name, FALSE) = name /\ name \in Seq(Char)
  BY PlainEncoding
<1>2. e \in Seq(Char)
  <2>1. e \in Seq(Free(FALSE))
    BY <1>0, EncodingFree
  <2> QED
    BY <1>0, <2>1, FreeChars, SeqMonotonic
<1>3. utEncode(s, cfg.allow) = e /\ cfg.ifEmpty = <<"=">>
  BY utEncodeIs DEF Asking
<1>4. PICK eq : eq = <<"=">>
  OBVIOUS
<1>5. eq \in Seq(Char)
  BY <1>4, PlainChars, OneTyped
<1>6. s = <<>> => e = <<>>
  BY NoText
<1> HIDE DEF e
<1>7. Named(name, cfg, s) = name \o (IF s = <<>> THEN eq ELSE eq \o e)
  BY <1>3, <1>4 DEF Named
<1>8. eq \o e = IF s = <<>> THEN eq ELSE eq \o e
  <2>1. CASE s = <<>>
    <3>1. eq \o <<>> = eq
      BY <1>5, ConcatEmptySeq
    <3> QED
      BY <1>6, <2>1, <3>1
  <2>2. CASE s # <<>>
    BY <2>2
  <2> QED
    BY <2>1, <2>2
<1>9. (name \o eq) \o e = name \o (eq \o e)
  BY <1>1, <1>2, <1>5, ConcatAssociative
<1> QED
  BY <1>1, <1>4, <1>7, <1>8, <1>9 DEF Field, e

\* The texts of a list and of a map, exploded.
ListFields(name, items) == [i \in DOMAIN items |-> Field(fmEncode(name, FALSE), fmEncode(items[i], FALSE))]
MapFields(items) == [i \in DOMAIN items |-> Field(fmEncode(items[i][1], FALSE), fmEncode(items[i][2], FALSE))]

Listed(cfg, v, name, val) ==
  /\ Asking(cfg) /\ name \in Seq(Unreserved) /\ v.name = name /\ v.explode = TRUE
  /\ val.kind = "list" /\ val.items \in Seq(Seq(Char))

LEMMA ListText ==
  ASSUME NEW cfg, NEW v, NEW name, NEW val, Listed(cfg, v, name, val)
  PROVE  ExpandVar(v, cfg, val) = Join(ListFields(name, val.items), <<"&">>)
<1>0. /\ Asking(cfg) /\ name \in Seq(Unreserved) /\ v.name = name /\ v.explode = TRUE
      /\ val.kind = "list" /\ val.items \in Seq(Seq(Char))
  BY DEF Listed
<1>1. \A i \in DOMAIN val.items : val.items[i] \in Seq(Char)
  BY <1>0, LenProperties, ElementOfSeq
<1>2. ExpandVar(v, cfg, val) = Join([i \in DOMAIN val.items |-> Named(name, cfg, val.items[i])], cfg.sep)
  BY <1>0 DEF ExpandVar, Named, Asking
<1>3. [i \in DOMAIN val.items |-> Named(name, cfg, val.items[i])] = ListFields(name, val.items)
  BY <1>0, <1>1, NamedIs DEF ListFields
<1> QED
  BY <1>0, <1>2, <1>3 DEF Asking

LEMMA MapText ==
  ASSUME NEW cfg, Asking(cfg), NEW v, v.explode = TRUE, NEW val, val.kind = "map"
  PROVE  ExpandVar(v, cfg, val) = Join(MapFields(val.items), <<"&">>)
<1>1. \A s : utEncode(s, cfg.allow) = fmEncode(s, FALSE)
  BY utEncodeIs DEF Asking
<1> DEFINE Pair(kv) == utEncode(kv[1], cfg.allow) \o <<"=">> \o utEncode(kv[2], cfg.allow)
<1>2. ExpandVar(v, cfg, val) = Join([i \in DOMAIN val.items |-> Pair(val.items[i])], cfg.sep)
  BY DEF ExpandVar
<1>3. [i \in DOMAIN val.items |-> Pair(val.items[i])] = MapFields(val.items)
  <2>1. \A kv : Pair(kv) = Field(fmEncode(kv[1], FALSE), fmEncode(kv[2], FALSE))
    BY <1>1 DEF Field
  <2> HIDE DEF Pair
  <2> QED
    BY <2>1 DEF MapFields
<1> QED
  BY <1>2, <1>3 DEF Asking

-----------------------------------------------------------------------------
\* What a template of one exploded variable expands to.
LEMMA OneExpanded ==
  ASSUME NEW p, p.op = "?", DOMAIN p.vars = {1}, NEW name, p.vars[1].name = name, NEW given, name \in DOMAIN given,
         given[name].items # <<>>, NEW x \in Seq(Char), x = ExpandVar(p.vars[1], utOperator("?"), given[name])
  PROVE  Tail(Expand(<<p>>, given)) = x
<1> DEFINE e == utExpandExpr(p, given)
           q == <<"?">> \o x
<1>1. p.vars # <<>>
  BY DOMAIN <<>> = {}
<1>2. PartText(p, given) = e
  BY <1>1 DEF PartText, IsLiteral
<1>3. q \in Seq(Char) /\ q # <<>> /\ Tail(q) = x
  <2>1. PICK m : m = <<"?">>
    OBVIOUS
  <2>2. m \in Seq(Char) /\ Len(m) = 1
    BY <2>1, PlainChars, OneTyped
  <2> DEFINE r == m \o x
  <2>3. /\ r \in Seq(Char) /\ Len(r) = Len(m) + Len(x)
        /\ \A i \in 1 .. (Len(m) + Len(x)) : r[i] = IF i <= Len(m) THEN m[i] ELSE x[i - Len(m)]
    <3>1. m \in Seq(Char) /\ x \in Seq(Char)
      BY <2>2
    <3> QED
      BY <3>1, ConcatProperties, ZenonT(60)
  <2> HIDE DEF r
  <2>4. Len(x) \in Nat
    BY LenProperties
  <2>5. r # <<>>
    <3>1. Len(r) # 0
      BY <2>2, <2>3, <2>4
    <3> QED
      BY <3>1
  <2> DEFINE s == Tail(r)
  <2>6. s \in Seq(Char) /\ Len(s) = Len(r) - 1 /\ \A i \in 1 .. Len(s) : s[i] = r[i + 1]
    BY <2>3, <2>5, HeadTailProperties
  <2> HIDE DEF s
  <2>7. Len(s) = Len(x)
    BY <2>2, <2>3, <2>4, <2>6
  <2>8. \A i \in 1 .. Len(x) : i + 1 \in 1 .. (Len(m) + Len(x)) /\ ~(i + 1 <= Len(m)) /\ (i + 1) - Len(m) = i
    BY <2>2, <2>4
  <2>9. \A i \in 1 .. Len(s) : s[i] = x[i]
    BY <2>3, <2>6, <2>7, <2>8
  <2>10. s = x
    BY <2>6, <2>7, <2>9, SeqEqual
  <2> QED
    BY <2>1, <2>3, <2>5, <2>10 DEF r, s
<1>4. e = q
  <2> DEFINE cfg == utOperator(p.op)
             Given(j) == p.vars[j].name \in DOMAIN given /\ given[p.vars[j].name].items # <<>>
             First(j) == IF \E k \in 1 .. (j - 1) : Given(k) THEN cfg.sep ELSE cfg.first
             F == [j \in DOMAIN p.vars |->
                    IF Given(j) THEN First(j) \o ExpandVar(p.vars[j], cfg, given[p.vars[j].name]) ELSE <<>>]
  <2>1. e = FlattenSeq(F)
    BY DEF utExpandExpr
  <2>2. Given(1)
    OBVIOUS
  <2>3. First(1) = <<"?">>
    <3>1. 1 .. (1 - 1) = {}
      OBVIOUS
    <3>2. ~\E k \in 1 .. (1 - 1) : Given(k)
      BY <3>1
    <3>3. cfg.first = <<"?">>
      BY AskingIs, SMTT(30) DEF Asking
    <3> QED
      BY <3>2, <3>3
  <2>4. F = [j \in {1} |-> q]
    <3>1. ExpandVar(p.vars[1], cfg, given[p.vars[1].name]) = x
      OBVIOUS
    <3>2. DOMAIN F = {1} /\ F[1] = IF Given(1) THEN First(1) \o ExpandVar(p.vars[1], cfg, given[p.vars[1].name]) ELSE <<>>
      OBVIOUS
    <3> HIDE DEF Given, First, cfg
    <3>3. F[1] = q
      BY <2>2, <2>3, <3>1, <3>2
    <3> QED
      BY <3>2, <3>3, SMTT(30)
  <2>5. [j \in {1} |-> q] = <<q>>
    <3> HIDE DEF q
    <3> QED
      OBVIOUS
  <2> HIDE DEF q, F
  <2>6. FlattenSeq(<<q>>) = q
    BY <1>3, FlattenOne
  <2> QED
    BY <2>1, <2>4, <2>5, <2>6
<1>5. Expand(<<p>>, given) = q
  <2> DEFINE parts == <<p>>
  <2>1. DOMAIN parts = {1} /\ parts[1] = p
    OBVIOUS
  <2> HIDE DEF parts, q
  <2>2. Expand(parts, given) = FlattenSeq([i \in DOMAIN parts |-> PartText(parts[i], given)])
    BY ExpandIs
  <2>3. [i \in DOMAIN parts |-> PartText(parts[i], given)] = [i \in {1} |-> q]
    BY <1>2, <1>4, <2>1
  <2>4. [i \in {1} |-> q] = <<q>>
    OBVIOUS
  <2>5. FlattenSeq(<<q>>) = q
    BY <1>3, FlattenOne
  <2> QED
    BY <2>2, <2>3, <2>4, <2>5 DEF parts
<1> QED
  BY <1>3, <1>5

LEMMA TextsTyped ==
  ASSUME NEW m \in Nat, NEW pp, pp = [i \in 1 .. m |-> pp[i]], \A i \in 1 .. m : pp[i] \in Seq(Char)
  PROVE  pp \in Seq(Seq(Char))
<1>1. PICK S : S = Seq(Char)
  OBVIOUS
<1>2. \A i \in 1 .. m : pp[i] \in S
  BY <1>1
<1>3. pp \in Seq(S)
  BY <1>2
<1> QED
  BY <1>1, <1>3

\* The query dialect's case of a task.
LEMMA QueryCase ==
  ASSUME NEW given, WellFormedUri(given), given.dialect = "query"
  PROVE  parseQueryKeepBlank(Tail(Expand(Parse(given.template), given.vars))) = QueryOf(given.vars)
<1> DEFINE tmpl == given.template
           vv == given.vars
<1>1. PICK name : /\ name \in PlainName /\ tmpl = (<<"{", "?">> \o name) \o <<"*", "}">> /\ DOMAIN vv = {name}
                  /\ vv[name].kind # "string" /\ vv[name].items # <<>>
  BY DEF WellFormedUri, WellFormedQuery
<1>2. vv[name] \in Value
  <2>1. "query" # "fastmcp"
    OBVIOUS
  <2> QED
    BY <1>1, <2>1 DEF WellFormedUri
<1> HIDE DEF tmpl, vv
<1> DEFINE val == vv[name]
           m == Len(val.items)
           p == utParseExpr(SubSeq(tmpl, 2, Len(name) + 3))
           cfg == utOperator("?")
           v == p.vars[1]
<1>3. name \in Seq(Unreserved) /\ name # <<>>
  BY <1>1 DEF PlainName
<1>4. Queried(name, Len(name), tmpl)
  BY <1>1, <1>3, ExplodedIs DEF Exploded
<1>5. Parse(tmpl) = <<p>>
  BY <1>4, OnePart
<1>6. p.op = "?" /\ DOMAIN p.vars = {1} /\ p.vars[1].name = name /\ p.vars[1].explode = TRUE
  <2>1. p = utParseExpr(SubSeq(tmpl, 2, Len(name) + 3))
    OBVIOUS
  <2> HIDE DEF p
  <2> QED
    <3>1. PICK n : n = Len(name)
      OBVIOUS
    <3>2. Queried(name, n, tmpl) /\ p = utParseExpr(SubSeq(tmpl, 2, n + 3))
      BY <1>4, <2>1, <3>1
    <3>3. OneAsked(p, name)
      BY <3>2, OneVariable
    <3> QED
      BY <3>3 DEF OneAsked
<1> HIDE DEF p
<1>7. name \in Seq(Char) /\ Asking(cfg)
  BY <1>3, PlainEncoding, AskingIs
<1>8. QueryOf(vv) = IF val.kind = "list" THEN [k \in {name} |-> val.items]
                    ELSE [k \in {val.items[i][1] : i \in DOMAIN val.items} |->
                           FlattenSeq([i \in DOMAIN val.items |->
                             IF val.items[i][1] = k THEN <<val.items[i][2]>> ELSE <<>>])]
  <2>1. (CHOOSE n \in DOMAIN vv : TRUE) = name
    BY <1>1
  <2> QED
    <3> DEFINE n == CHOOSE n \in DOMAIN vv : TRUE
    <3>1. QueryOf(vv) = IF vv[n].kind = "list" THEN [k \in {n} |-> vv[n].items]
                        ELSE [k \in {vv[n].items[i][1] : i \in DOMAIN vv[n].items} |->
                               FlattenSeq([i \in DOMAIN vv[n].items |->
                                 IF vv[n].items[i][1] = k THEN <<vv[n].items[i][2]>> ELSE <<>>])]
      BY DEF QueryOf
    <3>2. n = name
      BY <2>1
    <3> HIDE DEF n
    <3> QED
      BY <3>1, <3>2
<1>9. ASSUME NEW pp \in Seq(Seq(Char)), ExpandVar(v, cfg, val) = Join(pp, <<"&">>)
      PROVE  Tail(Expand(Parse(tmpl), vv)) = Join(pp, <<"&">>)
  <2>1. <<"&">> \in Seq(Char)
    BY PlainChars, OneTyped
  <2>2. Join(pp, <<"&">>) \in Seq(Char)
    BY <2>1, JoinTyped
  <2>3. name \in DOMAIN vv /\ vv[name].items # <<>>
    BY <1>1
  <2> DEFINE x == Join(pp, <<"&">>)
  <2>4. x \in Seq(Char) /\ x = ExpandVar(p.vars[1], utOperator("?"), vv[name])
    BY <1>9, <2>2
  <2> HIDE DEF x
  <2>5. Tail(Expand(<<p>>, vv)) = x
    BY <1>6, <2>3, <2>4, OneExpanded
  <2> QED
    BY <1>5, <2>5 DEF x
<1>10. CASE val.kind = "list"
  <2> DEFINE K == [i \in 1 .. m |-> name]
             pp == ListFields(name, val.items)
  <2>1. val.items \in Seq(Seq(Char)) /\ val.items # <<>>
    <3>1. "list" # "map"
      OBVIOUS
    <3>2. val \in [kind : {"string", "list"}, items : Seq(Seq(Char))]
      BY <1>2, <1>10, <3>1 DEF Value
    <3> QED
      BY <1>1, <3>2
  <2>2. ExpandVar(v, cfg, val) = Join(pp, <<"&">>)
    <3>1. /\ Asking(cfg) /\ name \in Seq(Unreserved) /\ v.name = name /\ v.explode = TRUE
          /\ val.kind = "list" /\ val.items \in Seq(Seq(Char))
      BY <1>3, <1>6, <1>7, <1>10, <2>1
    <3> HIDE DEF v, val, cfg
    <3> QED
      BY <3>1, ListText DEF Listed
  <2> DEFINE items == val.items
  <2>3. DOMAIN items = 1 .. m /\ m \in Nat /\ m # 0 /\ \A i \in 1 .. m : items[i] \in Seq(Char)
    BY <2>1, LenProperties, EmptySeq, ElementOfSeq
  <2>4. \A i \in 1 .. m : pp[i] = Field(fmEncode(K[i], FALSE), fmEncode(items[i], FALSE)) /\ K[i] = name
    BY <2>3 DEF ListFields
  <2>5. DOMAIN pp = 1 .. m
    BY <2>3 DEF ListFields
  <2> HIDE DEF items, m, K
  <2>6. pp \in Seq(Seq(Char))
    <3>1. \A i \in 1 .. m : Field(fmEncode(name, FALSE), fmEncode(items[i], FALSE)) \in Seq(Char)
      <4>1. ASSUME NEW i \in 1 .. m PROVE ParsedAs(name, items[i], Field(fmEncode(name, FALSE), fmEncode(items[i], FALSE)))
        BY <1>7, <2>3, FieldParsed
      <4> QED
        BY <4>1 DEF ParsedAs
    <3>2. pp = [i \in 1 .. m |-> Field(fmEncode(name, FALSE), fmEncode(items[i], FALSE))]
      BY <2>3 DEF ListFields, items
    <3> HIDE DEF pp
    <3> QED
      <4>1. m \in Nat
        BY <2>3
      <4>2. pp = [i \in 1 .. m |-> pp[i]] /\ \A i \in 1 .. m : pp[i] \in Seq(Char)
        BY <3>1, <3>2
      <4> QED
        BY <4>1, <4>2, TextsTyped
  <2> HIDE DEF pp
  <2>7. \A i \in 1 .. m : K[i] \in Seq(Char) /\ items[i] \in Seq(Char)
    BY <1>7, <2>3, <2>4
  <2>8. parseQueryKeepBlank(Join(pp, <<"&">>)) = Gathered(m, K, items)
    BY <2>3, <2>4, <2>5, <2>6, <2>7, QueryParsed
  <2>9. {K[i] : i \in 1 .. m} = {name}
    <3>1. 1 \in 1 .. m
      BY <2>3
    <3> QED
      BY <2>4, <3>1
  <2>10. FlattenSeq([i \in 1 .. m |-> IF K[i] = name THEN <<items[i]>> ELSE <<>>]) = items
    <3>1. [i \in 1 .. m |-> IF K[i] = name THEN <<items[i]>> ELSE <<>>] = [i \in DOMAIN items |-> <<items[i]>>]
      BY <2>3, <2>4
    <3> QED
      BY <2>1, <3>1, FlattenSingles DEF items
  <2>11. Gathered(m, K, items) = [k \in {name} |-> items]
    BY <2>9, <2>10 DEF Gathered
  <2>12. Tail(Expand(Parse(tmpl), vv)) = Join(pp, <<"&">>)
    BY <1>9, <2>2, <2>6
  <2> QED
    BY <1>8, <1>10, <2>8, <2>11, <2>12 DEF tmpl, vv, items
<1>11. CASE val.kind # "list"
  <2> DEFINE items == val.items
             K == [i \in 1 .. m |-> items[i][1]]
             V == [i \in 1 .. m |-> items[i][2]]
             pp == MapFields(items)
  <2>1. val.kind = "map" /\ items \in Seq(Seq(Char) \X Seq(Char)) /\ items # <<>>
    <3>1. val.kind # "string"
      BY <1>1
    <3>2. val \in [kind : {"map"}, items : Seq(Seq(Char) \X Seq(Char))]
      BY <1>2, <1>11, <3>1 DEF Value
    <3> QED
      BY <1>1, <3>2
  <2>2. ExpandVar(v, cfg, val) = Join(pp, <<"&">>)
    <3>1. Asking(cfg) /\ v.explode = TRUE /\ val.kind = "map"
      BY <1>6, <1>7, <2>1
    <3> HIDE DEF v, val, cfg
    <3> QED
      BY <3>1, MapText
  <2>3. DOMAIN items = 1 .. m /\ m \in Nat /\ m # 0 /\ \A i \in 1 .. m : items[i] \in Seq(Char) \X Seq(Char)
    BY <2>1, LenProperties, EmptySeq, ElementOfSeq
  <2>4. \A i \in 1 .. m : pp[i] = Field(fmEncode(K[i], FALSE), fmEncode(V[i], FALSE))
    BY <2>3 DEF MapFields
  <2>5. \A i \in 1 .. m : K[i] \in Seq(Char) /\ V[i] \in Seq(Char) /\ K[i] = items[i][1] /\ V[i] = items[i][2]
    BY <2>3
  <2>6. DOMAIN pp = 1 .. m
    BY <2>3 DEF MapFields
  <2>6a. pp = [i \in 1 .. m |-> Field(fmEncode(items[i][1], FALSE), fmEncode(items[i][2], FALSE))]
    BY <2>3 DEF MapFields
  <2> HIDE DEF items, m, K, V
  <2>7. pp \in Seq(Seq(Char))
    <3>1. \A i \in 1 .. m : Field(fmEncode(items[i][1], FALSE), fmEncode(items[i][2], FALSE)) \in Seq(Char)
      <4>1. ASSUME NEW i \in 1 .. m PROVE ParsedAs(K[i], V[i], Field(fmEncode(K[i], FALSE), fmEncode(V[i], FALSE)))
        BY <2>5, FieldParsed
      <4>2. ASSUME NEW i \in 1 .. m PROVE Field(fmEncode(K[i], FALSE), fmEncode(V[i], FALSE)) \in Seq(Char)
        BY <4>1 DEF ParsedAs
      <4> QED
        BY <2>5, <4>2
    <3> HIDE DEF pp
    <3> QED
      <4>1. m \in Nat
        BY <2>3
      <4>2. pp = [i \in 1 .. m |-> pp[i]] /\ \A i \in 1 .. m : pp[i] \in Seq(Char)
        BY <2>6a, <3>1
      <4> QED
        BY <4>1, <4>2, TextsTyped
  <2> HIDE DEF pp
  <2>8. parseQueryKeepBlank(Join(pp, <<"&">>)) = Gathered(m, K, V)
    BY <2>3, <2>4, <2>5, <2>6, <2>7, QueryParsed
  <2>9. Gathered(m, K, V)
          = [k \in {items[i][1] : i \in DOMAIN items} |->
              FlattenSeq([i \in DOMAIN items |-> IF items[i][1] = k THEN <<items[i][2]>> ELSE <<>>])]
    <3>1. {K[i] : i \in 1 .. m} = {items[i][1] : i \in DOMAIN items}
      <4>1. DOMAIN items = 1 .. m
        BY <2>3
      <4>2. \A i \in 1 .. m : K[i] = items[i][1]
        BY <2>5
      <4> QED
        BY <4>1, <4>2, Zenon
    <3>2. \A k : [i \in 1 .. m |-> IF K[i] = k THEN <<V[i]>> ELSE <<>>]
                 = [i \in DOMAIN items |-> IF items[i][1] = k THEN <<items[i][2]>> ELSE <<>>]
      BY <2>3, <2>5
    <3> QED
      BY <3>1, <3>2 DEF Gathered
  <2>10. Tail(Expand(Parse(tmpl), vv)) = Join(pp, <<"&">>)
    BY <1>9, <2>2, <2>7
  <2> QED
    BY <1>8, <1>11, <2>8, <2>9, <2>10, Zenon DEF tmpl, vv, items
<1> QED
  BY <1>10, <1>11

-----------------------------------------------------------------------------
(* Python FastMCP: the query is cut off, the path is made and matched.      *)

\* What splitQueryExpr cuts at the first "{" that op follows.
Starts(tmpl, op) == {i \in 1 .. (Len(tmpl) - 1) : tmpl[i] = "{" /\ tmpl[i + 1] = op}
FirstOf(tmpl, op) == CHOOSE i \in Starts(tmpl, op) : \A j \in Starts(tmpl, op) : i <= j
Usable(tmpl, op) == Starts(tmpl, op) # {} /\ Contains(From(tmpl, FirstOf(tmpl, op)), "}")
EndOf(tmpl, op) == FirstOf(tmpl, op) + IndexOf(From(tmpl, FirstOf(tmpl, op)), "}") - 1
AskedOf(names) == FlattenSeq([k \in DOMAIN names |-> IF names[k] = <<>> THEN <<>> ELSE <<names[k]>>])
CutAt(tmpl, op) ==
  [path |-> SubSeq(tmpl, 1, FirstOf(tmpl, op) - 1) \o From(tmpl, EndOf(tmpl, op) + 1),
   query |-> AskedOf(Split(SubSeq(tmpl, FirstOf(tmpl, op) + 2, EndOf(tmpl, op) - 1), ","))]

LEMMA SplitQueryIs ==
  ASSUME NEW tmpl
  PROVE  splitQueryExpr(tmpl)
           = CASE Usable(tmpl, "?") -> CutAt(tmpl, "?")
               [] ~Usable(tmpl, "?") /\ Usable(tmpl, "&") -> CutAt(tmpl, "&")
               [] OTHER -> [path |-> tmpl, query |-> <<>>]
BY DEF splitQueryExpr, Usable, CutAt, EndOf, AskedOf, Starts, FirstOf

Asks(op) == op \in {"?", "&"}
SplitFits(cut) == cut.path \in Seq(Char) /\ cut.query \in Seq(Seq(Char))

LEMMA AskedTyped ==
  ASSUME NEW names \in Seq(Seq(Char))
  PROVE  AskedOf(names) \in Seq(Seq(Char))
<1>1. PICK S : S = Seq(Char)
  OBVIOUS
<1>2. Len(names) \in Nat /\ DOMAIN names = 1 .. Len(names) /\ \A k \in 1 .. Len(names) : names[k] \in S
  BY <1>1, LenProperties, ElementOfSeq
<1> DEFINE one(k) == IF names[k] = <<>> THEN <<>> ELSE <<names[k]>>
           ss == [k \in 1 .. Len(names) |-> one(k)]
<1>3. \A k \in 1 .. Len(names) : one(k) \in Seq(S)
  <2>1. ASSUME NEW k \in 1 .. Len(names) PROVE one(k) \in Seq(S)
    <3>1. CASE names[k] = <<>>
      BY <3>1
    <3>2. CASE names[k] # <<>>
      BY <1>2, <3>2, OneTyped
    <3> QED
      BY <3>1, <3>2
  <2> QED
    BY <2>1
<1>4. ss \in Seq(Seq(S))
  <2> HIDE DEF one
  <2> QED
    BY <1>2, <1>3
<1>5. AskedOf(names) = FlattenSeq(ss)
  BY <1>2 DEF AskedOf
<1> QED
  BY <1>1, <1>4, <1>5, FlattenTyped

LEMMA CutTyped ==
  ASSUME NEW tmpl \in Seq(Char), NEW op, Asks(op), Usable(tmpl, op)
  PROVE  SplitFits(CutAt(tmpl, op))
<1> DEFINE n == Len(tmpl)
           i == FirstOf(tmpl, op)
           x == CloseAt(tmpl, i)
<1>1. n \in Nat
  BY LenProperties
<1>2. i \in Starts(tmpl, op)
  <2>1. Starts(tmpl, op) \subseteq Nat /\ Starts(tmpl, op) # {}
    <3>1. Starts(tmpl, op) \subseteq 1 .. (n - 1)
      BY Zenon DEF Starts
    <3>2. 1 .. (n - 1) \subseteq Nat
      <4> HIDE DEF n
      <4> QED
        BY <1>1
    <3> QED
      BY <3>1, <3>2, Zenon DEF Usable
  <2>2. \E k \in Starts(tmpl, op) : \A j \in Starts(tmpl, op) : k <= j
    BY <2>1, Least
  <2> QED
    BY <2>2 DEF FirstOf
<1>3a. i \in 1 .. (n - 1) /\ tmpl[i] = "{" /\ tmpl[i + 1] = op
  BY <1>2 DEF Starts
<1>3b. i \in 1 .. n /\ i + 1 \in 1 .. n /\ i \in 1 .. (n + 1)
  <2>1. i \in 1 .. (n - 1)
    BY <1>3a
  <2> HIDE DEF n, i
  <2> QED
    BY <1>1, <2>1
<1>3. i \in 1 .. n /\ i + 1 \in 1 .. n /\ tmpl[i] = "{" /\ tmpl[i + 1] = op
  BY <1>3a, <1>3b
<1>4. EndOf(tmpl, op) = i + x - 1
  BY DEF EndOf, CloseAt
<1>5. /\ x \in 0 .. (n + 1 - i)
      /\ x # 0 => tmpl[i + x - 1] = "}"
  BY <1>3, CloseIs
<1>5a. x \in 0 .. (n + 1 - i)
  BY <1>5
<1>6. x # 0
  <2>1. i \in 1 .. (n + 1)
    BY <1>3b
  <2>2. From(tmpl, i) \in Seq(Char)
    BY <2>1, FromIs
  <2>3. PICK k \in 1 .. Len(From(tmpl, i)) : From(tmpl, i)[k] = "}"
    BY DEF Usable, Contains
  <2> QED
    BY <2>2, <2>3, IndexOfIs DEF CloseAt
<1> HIDE DEF n, i, x
<1>7. x # 1 /\ x # 2
  <2>1. "{" # "}" /\ op # "}"
    BY DEF Asks
  <2>2. ASSUME x = 1 PROVE FALSE
    <3>1. i + x - 1 = i
      BY <1>1, <1>3b, <2>2
    <3> QED
      BY <1>3, <1>5, <1>6, <2>1, <3>1
  <2>3. ASSUME x = 2 PROVE FALSE
    <3>1. i + x - 1 = i + 1
      BY <1>1, <1>3b, <2>3
    <3> QED
      BY <1>3, <1>5, <1>6, <2>1, <3>1
  <2> QED
    BY <2>2, <2>3
<1> DEFINE e == i + x - 1
<1>8. /\ i - 1 \in Nat /\ 1 <= (i - 1) + 1 /\ i - 1 <= n
      /\ e + 1 \in 1 .. (n + 1)
      /\ i + 2 \in Nat /\ e - 1 \in Nat /\ 1 <= i + 2 /\ i + 2 <= (e - 1) + 1 /\ e - 1 <= n
  <2>1. i \in Int /\ 1 <= i /\ i <= n
    BY <1>1, <1>3b
  <2>2. x \in Int /\ 0 <= x /\ x <= n + 1 - i
    BY <1>1, <1>5a, <2>1
  <2>3. 3 <= x
    BY <1>6, <1>7, <2>2
  <2> QED
    BY <1>1, <2>1, <2>2, <2>3
<1>9. SubSeq(tmpl, 1, i - 1) \in Seq(Char)
  BY <1>8, SubSeqIs DEF n
<1>10. From(tmpl, e + 1) \in Seq(Char)
  <2> HIDE DEF e
  <2> QED
    BY <1>8, FromIs DEF n
<1>11. SubSeq(tmpl, i + 2, e - 1) \in Seq(Char)
  <2> HIDE DEF e
  <2> QED
    BY <1>8, SubSeqIs DEF n
<1> HIDE DEF e
<1>12. SubSeq(tmpl, 1, i - 1) \o From(tmpl, e + 1) \in Seq(Char)
  BY <1>9, <1>10, ConcatProperties
<1>13. AskedOf(Split(SubSeq(tmpl, i + 2, e - 1), ",")) \in Seq(Seq(Char))
  <2>1. "," \in Char
    BY CharKinds DEF Reserved
  <2>2. Split(SubSeq(tmpl, i + 2, e - 1), ",") \in Seq(Seq(Char))
    BY <1>11, <2>1, SplitTyped
  <2> QED
    BY <2>2, AskedTyped
<1> QED
  BY <1>4, <1>12, <1>13 DEF SplitFits, CutAt, e, i

LEMMA SplitQueryTyped ==
  ASSUME NEW tmpl \in Seq(Char)
  PROVE  SplitFits(splitQueryExpr(tmpl))
<1>1. CASE Usable(tmpl, "?")
  <2>1. splitQueryExpr(tmpl) = CutAt(tmpl, "?")
    BY <1>1, SplitQueryIs
  <2>2. Asks("?")
    BY DEF Asks
  <2> QED
    BY <1>1, <2>1, <2>2, CutTyped
<1>2. CASE ~Usable(tmpl, "?") /\ Usable(tmpl, "&")
  <2>1. splitQueryExpr(tmpl) = CutAt(tmpl, "&")
    BY <1>2, SplitQueryIs
  <2>2. Asks("&")
    BY DEF Asks
  <2> QED
    BY <1>2, <2>1, <2>2, CutTyped
<1>3. CASE ~Usable(tmpl, "?") /\ ~Usable(tmpl, "&")
  <2>1. splitQueryExpr(tmpl) = [path |-> tmpl, query |-> <<>>]
    BY <1>3, SplitQueryIs
  <2> QED
    BY <2>1 DEF SplitFits
<1> QED
  BY <1>1, <1>2, <1>3

\* What Placeholders yields at a position, and where it goes on.
BodyAt(path, i) == SubSeq(path, i + 1, i + CloseAt(path, i) - 2)
WildAt(path, i) == BodyAt(path, i) # <<>> /\ Last(BodyAt(path, i)) = "*"
RawAt(path, i) == IF WildAt(path, i) THEN Front(BodyAt(path, i)) ELSE BodyAt(path, i)
Place(kind, text, name, spans) == [kind |-> kind, text |-> text, name |-> name, wild |-> spans]
PlaceAt(path, i) ==
  IF path[i] # "{" THEN Place("lit", <<path[i]>>, <<>>, FALSE)
  ELSE IF CloseAt(path, i) = 0 THEN Place("bad", From(path, i), <<>>, FALSE)
  ELSE IF RawAt(path, i) = <<>> \/ Contains(RawAt(path, i), "*")
    THEN Place("bad", SubSeq(path, i, i + CloseAt(path, i) - 1), <<>>, FALSE)
  ELSE Place("var", <<>>, normalizeParamName(RawAt(path, i)), WildAt(path, i))
AfterPlace(path, i) ==
  IF path[i] # "{" THEN i + 1
  ELSE IF CloseAt(path, i) = 0 THEN Len(path) + 1 ELSE i + CloseAt(path, i)
PlaceHeads(path) == [i \in DOMAIN path |-> <<PlaceAt(path, i)>>]
PlaceNexts(path) == [i \in DOMAIN path |-> AfterPlace(path, i)]

\* Of a placeholder it is known what a literal is, and that a wildcard is one or not.
PlaceFits(p) ==
  /\ p.wild \in BOOLEAN
  /\ p.kind # "var" => p.wild = FALSE
  /\ p.kind # "var" /\ p.kind # "bad" => \E c \in Char : p.text = <<c>>

LEMMA PlaceholdersAre ==
  ASSUME NEW path
  PROVE  Placeholders(path) = Scan(Len(path), PlaceHeads(path), PlaceNexts(path))
BY DEF Placeholders, PlaceHeads, PlaceNexts, PlaceAt, AfterPlace, Place, RawAt, WildAt, BodyAt, CloseAt

LEMMA PlaceIs ==
  ASSUME NEW path \in Seq(Char), NEW i \in 1 .. Len(path)
  PROVE  PlaceFits(PlaceAt(path, i)) /\ AfterPlace(path, i) \in (i + 1) .. (Len(path) + 1)
<1>1. PlaceFits(PlaceAt(path, i))
  <2>1. path[i] \in Char
    BY ElementOfSeq
  <2>2. WildAt(path, i) \in BOOLEAN
    BY DEF WildAt
  <2>3. "lit" # "var" /\ "lit" # "bad" /\ "bad" # "var"
    OBVIOUS
  <2>4. CASE path[i] # "{"
    <3>1. PlaceAt(path, i) = Place("lit", <<path[i]>>, <<>>, FALSE)
      BY <2>4 DEF PlaceAt
    <3> QED
      BY <2>1, <3>1 DEF Place, PlaceFits
  <2>5. CASE path[i] = "{" /\ CloseAt(path, i) = 0
    <3>1. PlaceAt(path, i) = Place("bad", From(path, i), <<>>, FALSE)
      BY <2>5 DEF PlaceAt
    <3> QED
      BY <2>3, <3>1 DEF Place, PlaceFits
  <2>6. CASE path[i] = "{" /\ CloseAt(path, i) # 0
    <3>1. \/ PlaceAt(path, i) = Place("bad", SubSeq(path, i, i + CloseAt(path, i) - 1), <<>>, FALSE)
          \/ PlaceAt(path, i) = Place("var", <<>>, normalizeParamName(RawAt(path, i)), WildAt(path, i))
      BY <2>6 DEF PlaceAt
    <3>2. CASE PlaceAt(path, i) = Place("bad", SubSeq(path, i, i + CloseAt(path, i) - 1), <<>>, FALSE)
      BY <2>3, <3>2 DEF Place, PlaceFits
    <3>3. CASE PlaceAt(path, i) = Place("var", <<>>, normalizeParamName(RawAt(path, i)), WildAt(path, i))
      <4>1. PICK w \in BOOLEAN : w = WildAt(path, i)
        BY <2>2
      <4>2. PlaceAt(path, i) = Place("var", <<>>, normalizeParamName(RawAt(path, i)), w)
        BY <3>3, <4>1
      <4> QED
        BY <4>2 DEF Place, PlaceFits
    <3> QED
      BY <3>1, <3>2, <3>3
  <2> QED
    BY <2>4, <2>5, <2>6
<1>2. AfterPlace(path, i) \in (i + 1) .. (Len(path) + 1)
  <2> DEFINE n == Len(path)
             x == CloseAt(path, i)
  <2>1. n \in Nat /\ i \in 1 .. n
    BY LenProperties
  <2>2. x \in 0 .. (n + 1 - i)
    BY CloseIs
  <2>3. AfterPlace(path, i) = i + 1 \/ AfterPlace(path, i) = n + 1 \/ (x # 0 /\ AfterPlace(path, i) = i + x)
    BY DEF AfterPlace
  <2> HIDE DEF n, x
  <2>4. /\ i + 1 \in (i + 1) .. (n + 1) /\ n + 1 \in (i + 1) .. (n + 1)
        /\ x # 0 => i + x \in (i + 1) .. (n + 1)
    BY <2>1, <2>2
  <2>5. AfterPlace(path, i) \in (i + 1) .. (n + 1)
    BY <2>3, <2>4
  <2> QED
    BY <2>5 DEF n
<1> QED
  BY <1>1, <1>2

\* fastmcp.go:97: of any path, Placeholders makes a sequence of placeholders, and ends.
LEMMA PlaceholdersTyped ==
  ASSUME NEW path \in Seq(Char)
  PROVE  /\ Len(Placeholders(path)) \in Nat /\ DOMAIN Placeholders(path) = 1 .. Len(Placeholders(path))
         /\ \A i \in DOMAIN Placeholders(path) : PlaceFits(Placeholders(path)[i])
<1> DEFINE S == {PlaceAt(path, j) : j \in 1 .. Len(path)}
<1>1. Len(path) \in Nat /\ DOMAIN path = 1 .. Len(path)
  BY LenProperties
<1>2. \A i \in 1 .. Len(path) : PlaceHeads(path)[i] = <<PlaceAt(path, i)>> /\ PlaceNexts(path)[i] = AfterPlace(path, i)
  BY <1>1 DEF PlaceHeads, PlaceNexts
<1>3. Onward(Len(path), PlaceNexts(path))
  <2>1. ASSUME NEW i \in 1 .. Len(path) PROVE PlaceNexts(path)[i] \in (i + 1) .. (Len(path) + 1)
    BY <1>2, PlaceIs
  <2> QED
    BY <2>1 DEF Onward
<1>4. (\A i \in 1 .. Len(path) : PlaceAt(path, i) \in S) /\ \A p \in S : PlaceFits(p)
  BY PlaceIs
<1> HIDE DEF S
<1>5. \A i \in 1 .. Len(path) : PlaceHeads(path)[i] \in Seq(S)
  BY <1>2, <1>4, OneTyped
<1>6. Placeholders(path) \in Seq(S)
  BY <1>1, <1>3, <1>5, PlaceholdersAre, ScanTyped
<1>7. /\ Len(Placeholders(path)) \in Nat /\ DOMAIN Placeholders(path) = 1 .. Len(Placeholders(path))
      /\ \A i \in DOMAIN Placeholders(path) : Placeholders(path)[i] \in S
  BY <1>6, LenProperties, ElementOfSeq
<1> QED
  BY <1>4, <1>7

-----------------------------------------------------------------------------
\* The path of ExpandURITemplate.
PathText(items, given) ==
  FlattenSeq([i \in DOMAIN items |->
    IF items[i].kind = "var"
      THEN fmEncode(IF items[i].name \in DOMAIN given THEN given[items[i].name] ELSE <<>>, items[i].wild)
      ELSE items[i].text])
PathNames(items) == {items[i].name : i \in {j \in DOMAIN items : items[j].kind = "var"}}

PlacesFit(items, given) ==
  /\ Len(items) \in Nat /\ DOMAIN items = 1 .. Len(items)
  /\ \A i \in DOMAIN items : PlaceFits(items[i]) /\ items[i].kind # "bad"
  /\ \A n \in PathNames(items) : n \in DOMAIN given /\ given[n] \in Seq(Char) \ {<<>>}

LEMMA RegexItem ==
  ASSUME NEW items, NEW given, PlacesFit(items, given), NEW i \in DOMAIN items
  PROVE  /\ BuildRegex(items)[i] \in Item(PathNames(items))
         /\ IsCapture(BuildRegex(items)[i]) <=> items[i].kind = "var"
         /\ IsCapture(BuildRegex(items)[i]) => BuildRegex(items)[i].name = items[i].name
         /\ BuildRegex(items)[i].spans = items[i].wild
         /\ Block(BuildRegex(items)[i], given)
              = IF items[i].kind = "var"
                  THEN fmEncode(IF items[i].name \in DOMAIN given THEN given[items[i].name] ELSE <<>>, items[i].wild)
                  ELSE items[i].text
<1>1. CASE items[i].kind = "var"
  <2>1. BuildRegex(items)[i] = Capture(items[i].name, items[i].wild)
    BY <1>1 DEF BuildRegex
  <2>2. items[i].name \in PathNames(items) /\ items[i].wild \in BOOLEAN
    BY <1>1 DEF PathNames, PlacesFit, PlaceFits
  <2>3. Capture(items[i].name, items[i].wild) \in Item(PathNames(items))
    BY <2>2, CaptureIn
  <2>4. items[i].name \in DOMAIN given
    BY <2>2 DEF PlacesFit
  <2>5. /\ IsCapture(BuildRegex(items)[i]) /\ BuildRegex(items)[i].name = items[i].name
        /\ BuildRegex(items)[i].spans = items[i].wild
    <3>1. PICK w \in BOOLEAN : w = items[i].wild
      BY <2>2
    <3>2. BuildRegex(items)[i] = Capture(items[i].name, w)
      BY <2>1, <3>1
    <3>3. PICK m : m = items[i].name
      OBVIOUS
    <3>4. PICK q : q = BuildRegex(items)[i]
      OBVIOUS
    <3>5. q = [name |-> m, char |-> "", spans |-> w]
      BY <3>2, <3>3, <3>4 DEF Capture
    <3>6. q.char = "" /\ q.name = m
      BY <3>5
    <3>7. q.spans = w
      BY <3>5
    <3>8. IsCapture(q)
      BY <3>6 DEF IsCapture
    <3> QED
      BY <3>1, <3>3, <3>4, <3>6, <3>7, <3>8
  <2> QED
    BY <1>1, <2>1, <2>3, <2>4, <2>5 DEF Block
<1>2. CASE items[i].kind # "var"
  <2>1. BuildRegex(items)[i] = Literal(items[i].text[1])
    BY <1>2 DEF BuildRegex
  <2>2. PICK c \in Char : items[i].text = <<c>>
    BY <1>2 DEF PlacesFit, PlaceFits
  <2>3. items[i].text[1] = c
    BY <2>2
  <2>4. BuildRegex(items)[i] = Literal(c) /\ Literal(c) \in Item(PathNames(items))
    BY <2>1, <2>3 DEF Item
  <2>5. c # ""
    BY DEF Char, Unreserved, Hex, Code, Reserved
  <2>6. ~IsCapture(Literal(c)) /\ Literal(c).char = c /\ Literal(c).spans = FALSE
    BY <2>5 DEF Literal, IsCapture
  <2>7. items[i].wild = FALSE
    BY <1>2 DEF PlacesFit, PlaceFits
  <2> QED
    BY <1>2, <2>2, <2>4, <2>6, <2>7 DEF Block
<1> QED
  BY <1>1, <1>2

\* The expression of a path, its captures given their values, makes the path.
LEMMA PathRenders ==
  ASSUME NEW items, NEW given, PlacesFit(items, given)
  PROVE  /\ BuildRegex(items) \in Seq(Item(PathNames(items)))
         /\ Len(BuildRegex(items)) = Len(items)
         /\ FlattenSeq(Blocks(BuildRegex(items), given)) = PathText(items, given)
         /\ CaptureNames(BuildRegex(items)) = PathNames(items)
<1> DEFINE re == BuildRegex(items)
           S == Item(PathNames(items))
<1>1. Len(items) \in Nat /\ DOMAIN items = 1 .. Len(items)
  BY DEF PlacesFit
<1>2. re = [i \in DOMAIN items |-> re[i]]
  BY DEF BuildRegex
<1>2a. DOMAIN re = DOMAIN items
  BY DEF BuildRegex
<1>3. \A i \in DOMAIN items : re[i] \in S
  BY RegexItem
<1>4. CaptureNames(re) = PathNames(items)
  <2>1. Captured(re) = {j \in DOMAIN items : items[j].kind = "var"}
    BY <1>2a, RegexItem DEF Captured
  <2>2. \A i \in Captured(re) : re[i].name = items[i].name
    BY <1>2a, RegexItem DEF Captured
  <2> QED
    BY <2>1, <2>2 DEF CaptureNames, PathNames
<1>5. Blocks(re, given) = [i \in DOMAIN items |->
    IF items[i].kind = "var"
      THEN fmEncode(IF items[i].name \in DOMAIN given THEN given[items[i].name] ELSE <<>>, items[i].wild)
      ELSE items[i].text]
  <2>1. Blocks(re, given) = [i \in DOMAIN items |-> Block(re[i], given)]
    BY <1>2a DEF Blocks
  <2>2. \A i \in DOMAIN items : Block(re[i], given)
           = IF items[i].kind = "var"
               THEN fmEncode(IF items[i].name \in DOMAIN given THEN given[items[i].name] ELSE <<>>, items[i].wild)
               ELSE items[i].text
    BY RegexItem
  <2> HIDE DEF re
  <2> QED
    BY <2>1, <2>2
<1>6. FlattenSeq(Blocks(re, given)) = PathText(items, given)
  BY <1>5 DEF PathText
<1> HIDE DEF re, S
<1>7. re \in Seq(S) /\ Len(re) = Len(items)
  <2>1. re \in [1 .. Len(items) -> S]
    BY <1>1, <1>2, <1>3
  <2> QED
    BY <1>1, <2>1
<1> QED
  BY <1>4, <1>6, <1>7 DEF re, S

\* The query of ExpandURITemplate: the names that are given, each after "?" or "&".
Told(n, vv) == normalizeParamName(n) \in DOMAIN vv
Preceded(q, vv, i) == \E k \in DOMAIN q : Told(q[k], vv) /\ k < i
Mark(q, vv, i) == IF Preceded(q, vv, i) THEN <<"&">> ELSE <<"?">>
QueryPiece(q, vv, i) ==
  IF Told(q[i], vv)
    THEN ((Mark(q, vv, i) \o q[i]) \o <<"=">>) \o fmEncode(vv[normalizeParamName(q[i])], FALSE)
    ELSE <<>>
QueryPieces(q, vv) == [i \in DOMAIN q |-> QueryPiece(q, vv, i)]
QueryText(q, vv) == FlattenSeq(QueryPieces(q, vv))

\* The parameter of a name.
Params(vv) ==
  [n \in PlainName |-> IF Told(n, vv) THEN Field(fmEncode(n, FALSE), fmEncode(vv[normalizeParamName(n)], FALSE))
                       ELSE <<>>]

LEMMA PlainIs ==
  ASSUME NEW n \in PlainName
  PROVE  n \in Seq(Char) /\ fmEncode(n, FALSE) = n
BY PlainEncoding DEF PlainName

Regroups(a, b, c) == (a \o b) \o c = a \o (b \o c)

LEMMA Regroup ==
  ASSUME NEW S, NEW a \in Seq(S), NEW b \in Seq(S), NEW c \in Seq(S)
  PROVE  Regroups(a, b, c)
BY ConcatAssociative DEF Regroups

LEMMA ParamIs ==
  ASSUME NEW vv, vv \in [DOMAIN vv -> Seq(Char)], NEW n \in PlainName, NEW m \in Seq(Char)
  PROVE  /\ Params(vv)[n] \in Seq(Char)
         /\ Told(n, vv) => /\ ((m \o n) \o <<"=">>) \o fmEncode(vv[normalizeParamName(n)], FALSE) = m \o Params(vv)[n]
                           /\ Params(vv)[n] = Field(fmEncode(n, FALSE), fmEncode(vv[normalizeParamName(n)], FALSE))
<1>1. CASE ~Told(n, vv)
  <2>1. Params(vv)[n] = <<>>
    BY <1>1 DEF Params
  <2>2. <<>> \in Seq(Char)
    OBVIOUS
  <2>3. Params(vv)[n] \in Seq(Char)
    BY <2>1, <2>2
  <2> QED
    BY <1>1, <2>3
<1>2. CASE Told(n, vv)
  <2>1. PICK v : v = vv[normalizeParamName(n)]
    OBVIOUS
  <2>2. v \in Seq(Char)
    BY <1>2, <2>1 DEF Told
  <2>3. PICK e : e = fmEncode(v, FALSE)
    OBVIOUS
  <2>4. Params(vv)[n] = Field(fmEncode(n, FALSE), e)
    BY <1>2, <2>1, <2>3 DEF Params
  <2>5. n \in Seq(Char) /\ fmEncode(n, FALSE) = n
    BY PlainIs
  <2>6. e \in Seq(Char)
    <3>1. FALSE \in BOOLEAN
      OBVIOUS
    <3>2. e \in Seq(Free(FALSE))
      BY <2>2, <2>3, <3>1, EncodingFree
    <3>3. Free(FALSE) \subseteq Char
      BY <3>1, FreeChars
    <3> QED
      BY <3>2, <3>3, SeqMonotonic
  <2>7. PICK eq : eq = <<"=">>
    OBVIOUS
  <2>8. eq \in Seq(Char)
    BY <2>7, PlainChars, OneTyped
  <2>9. Params(vv)[n] = (n \o eq) \o e
    BY <2>4, <2>5, <2>7 DEF Field
  <2>10. n \o eq \in Seq(Char) /\ (n \o eq) \o e \in Seq(Char)
    <3>1. n \o eq \in Seq(Char)
      BY <2>5, <2>8, ConcatProperties
    <3> QED
      BY <2>6, <3>1, ConcatProperties
  <2>11. (m \o n) \o eq = m \o (n \o eq)
    <3>1. m \in Seq(Char) /\ n \in Seq(Char) /\ eq \in Seq(Char)
      BY <2>5, <2>8
    <3>2. Regroups(m, n, eq)
      BY <3>1, Regroup
    <3> QED
      BY <3>2 DEF Regroups
  <2>12. (m \o (n \o eq)) \o e = m \o ((n \o eq) \o e)
    <3>1. m \in Seq(Char) /\ n \o eq \in Seq(Char) /\ e \in Seq(Char)
      BY <2>6, <2>10
    <3>2. Regroups(m, n \o eq, e)
      BY <3>1, Regroup
    <3> QED
      BY <3>2 DEF Regroups
  <2> QED
    BY <1>2, <2>1, <2>3, <2>4, <2>7, <2>9, <2>10, <2>11, <2>12
<1> QED
  BY <1>1, <1>2

LEMMA PieceTyped ==
  ASSUME NEW vv, vv \in [DOMAIN vv -> Seq(Char)], NEW q \in Seq(PlainName), NEW i \in 1 .. Len(q)
  PROVE  /\ QueryPiece(q, vv, i) \in Seq(Char)
         /\ Mark(q, vv, i) \in Seq(Char)
         /\ QueryPiece(q, vv, i) = IF Told(q[i], vv) THEN Mark(q, vv, i) \o Params(vv)[q[i]] ELSE <<>>
<1>1. q[i] \in PlainName
  BY ElementOfSeq
<1>2. Mark(q, vv, i) \in Seq(Char)
  <2>1. <<"&">> \in Seq(Char) /\ <<"?">> \in Seq(Char)
    BY PlainChars, OneTyped
  <2> QED
    BY <2>1 DEF Mark
<1>3. CASE Told(q[i], vv)
  <2>1. QueryPiece(q, vv, i) = Mark(q, vv, i) \o Params(vv)[q[i]]
    BY <1>1, <1>2, <1>3, ParamIs DEF QueryPiece
  <2>2. Params(vv)[q[i]] \in Seq(Char)
    BY <1>1, <1>2, ParamIs
  <2>3. Mark(q, vv, i) \o Params(vv)[q[i]] \in Seq(Char)
    BY <1>2, <2>2, ConcatProperties
  <2> QED
    BY <1>2, <1>3, <2>1, <2>3
<1>4. CASE ~Told(q[i], vv)
  <2>1. QueryPiece(q, vv, i) = <<>>
    BY <1>4 DEF QueryPiece
  <2> QED
    BY <1>2, <1>4, <2>1
<1> QED
  BY <1>3, <1>4

QueryGrows(q, x, vv) ==
  /\ QueryText(q, vv) \in Seq(Char)
  /\ QueryText(Append(q, x), vv) = QueryText(q, vv) \o QueryPiece(Append(q, x), vv, Len(q) + 1)

LEMMA QuerySnoc ==
  ASSUME NEW vv, vv \in [DOMAIN vv -> Seq(Char)], NEW q \in Seq(PlainName), NEW x \in PlainName
  PROVE  QueryGrows(q, x, vv)
<1> DEFINE n == Len(q)
           r == Append(q, x)
           S == Seq(Char)
           pp == QueryPieces(q, vv)
           last == QueryPiece(r, vv, n + 1)
<1>1. /\ n \in Nat /\ DOMAIN q = 1 .. n /\ r \in Seq(PlainName) /\ Len(r) = n + 1 /\ DOMAIN r = 1 .. (n + 1)
      /\ \A i \in 1 .. n : r[i] = q[i]
  BY AppendProperties, LenProperties
<1>2. \A i \in 1 .. n : QueryPiece(q, vv, i) \in S
  BY PieceTyped
<1>3. \A i \in 1 .. (n + 1) : QueryPiece(r, vv, i) \in S
  <2>1. \A i \in 1 .. Len(r) : QueryPiece(r, vv, i) \in S
    BY <1>1, PieceTyped
  <2> QED
    BY <1>1, <2>1
<1> HIDE DEF r, n, S
<1>4. \A i \in 1 .. n : Preceded(r, vv, i) <=> Preceded(q, vv, i)
  <2>1. ASSUME NEW i \in 1 .. n PROVE \A k : (k \in 1 .. (n + 1) /\ k < i) <=> (k \in 1 .. n /\ k < i)
    BY <1>1
  <2> QED
    BY <1>1, <2>1 DEF Preceded
<1>5. \A i \in 1 .. n : QueryPiece(r, vv, i) = QueryPiece(q, vv, i)
  BY <1>1, <1>4 DEF QueryPiece, Mark
<1>6. pp \in Seq(S) /\ Len(pp) = n /\ DOMAIN pp = 1 .. n /\ \A i \in 1 .. n : pp[i] = QueryPiece(q, vv, i)
  <2>1. pp = [i \in 1 .. n |-> QueryPiece(q, vv, i)]
    BY <1>1 DEF QueryPieces
  <2> HIDE DEF pp
  <2> QED
    BY <1>1, <1>2, <2>1
<1>7. last \in S
  <2>1. n + 1 \in 1 .. (n + 1)
    BY <1>1
  <2> QED
    BY <1>3, <2>1
<1> HIDE DEF pp
<1>8. QueryPieces(r, vv) = Append(pp, last)
  <2>1. QueryPieces(r, vv) = [i \in 1 .. (n + 1) |-> QueryPiece(r, vv, i)]
    BY <1>1 DEF QueryPieces
  <2> HIDE DEF last
  <2>2. Append(pp, last) = [i \in 1 .. (n + 1) |-> IF i = n + 1 THEN last ELSE pp[i]]
    BY <1>6, <1>7, AppendIs
  <2>3. ASSUME NEW i \in 1 .. (n + 1) PROVE QueryPiece(r, vv, i) = IF i = n + 1 THEN last ELSE pp[i]
    <3>1. CASE i = n + 1
      BY <3>1 DEF last
    <3>2. CASE i # n + 1
      <4>1. i \in 1 .. n
        BY <1>1, <3>2
      <4> QED
        BY <1>5, <1>6, <3>2, <4>1
    <3> QED
      BY <3>1, <3>2
  <2> QED
    BY <2>1, <2>2, <2>3
<1> HIDE DEF last
<1>9. FlattenSeq(Append(pp, last)) = FlattenSeq(pp) \o last /\ FlattenSeq(pp) \in S
  BY <1>6, <1>7, FlattenSnoc, FlattenTyped DEF S
<1> QED
  BY <1>8, <1>9 DEF QueryGrows, QueryText, r, n, pp, last, S

\* ks are the names of the query that are given, in their order.
Asked(ks, vv) == IF ks = <<>> THEN <<>> ELSE <<"?">> \o Join(Mapped(Params(vv), ks), <<"&">>)
QueryKeys(q, vv, ks) ==
  /\ ks \in Seq(PlainName)
  /\ \A j \in 1 .. Len(ks) : Told(ks[j], vv) /\ \E i \in 1 .. Len(q) : q[i] = ks[j]
  /\ \A i \in 1 .. Len(q) : Told(q[i], vv) => \E j \in 1 .. Len(ks) : ks[j] = q[i]
  /\ QueryText(q, vv) = Asked(ks, vv)

LEMMA FieldsTyped ==
  ASSUME NEW vv, vv \in [DOMAIN vv -> Seq(Char)], NEW ks \in Seq(PlainName)
  PROVE  /\ Mapped(Params(vv), ks) \in Seq(Seq(Char))
         /\ Join(Mapped(Params(vv), ks), <<"&">>) \in Seq(Char)
<1>1. \A n \in PlainName : Params(vv)[n] \in Seq(Char)
  <2>1. PICK m : m \in Seq(Char)
    <3>1. <<>> \in Seq(Char)
      OBVIOUS
    <3> QED
      BY <3>1
  <2> QED
    BY <2>1, ParamIs
<1>2. PICK S : S = Seq(Char)
  OBVIOUS
<1>3. Mapped(Params(vv), ks) \in Seq(S)
  BY <1>1, <1>2, MappedTyped
<1>4. PICK sep : sep = <<"&">>
  OBVIOUS
<1>5. sep \in Seq(Char)
  BY <1>4, PlainChars, OneTyped
<1>6. Mapped(Params(vv), ks) \in Seq(Seq(Char))
  BY <1>2, <1>3
<1> HIDE <1>3
<1>7. Join(Mapped(Params(vv), ks), sep) \in Seq(Char)
  BY <1>5, <1>6, JoinTyped
<1> QED
  BY <1>4, <1>6, <1>7

AskedGrows(ks, x, vv, m) == Asked(Append(ks, x), vv) = Asked(ks, vv) \o (m \o Params(vv)[x])

\* One more name that is given.
LEMMA AskedSnoc ==
  ASSUME NEW vv, vv \in [DOMAIN vv -> Seq(Char)], NEW ks \in Seq(PlainName), NEW x \in PlainName, NEW m,
         m = IF ks # <<>> THEN <<"&">> ELSE <<"?">>
  PROVE  AskedGrows(ks, x, vv, m)
<1> DEFINE B == Params(vv)
           P == B[x]
           kk == Append(ks, x)
           rr == Mapped(B, ks)
<1>1. PICK sep : sep = <<"&">>
  OBVIOUS
<1>2. PICK mark : mark = <<"?">>
  OBVIOUS
<1>3. sep \in Seq(Char) /\ mark \in Seq(Char)
  BY <1>1, <1>2, PlainChars, OneTyped
<1>4. P \in Seq(Char) /\ rr \in Seq(Seq(Char)) /\ kk \in Seq(PlainName) /\ kk # <<>>
  <2>1. P \in Seq(Char)
    BY <1>3, ParamIs
  <2>2. kk \in Seq(PlainName) /\ kk # <<>>
    BY AppendProperties
  <2> QED
    BY <2>1, <2>2, FieldsTyped
<1>5. Mapped(B, kk) = Append(rr, P)
  <2> HIDE DEF B
  <2> QED
    BY MappedSnoc
<1>6. Asked(kk, vv) = mark \o Join(Append(rr, P), sep)
  BY <1>1, <1>2, <1>4, <1>5 DEF Asked
<1>7. Asked(ks, vv) = IF ks = <<>> THEN <<>> ELSE mark \o Join(rr, sep)
  BY <1>1, <1>2 DEF Asked
<1>8. m = IF ks # <<>> THEN sep ELSE mark
  BY <1>1, <1>2
<1>9. ks = <<>> <=> rr = <<>>
  <2>1. Len(rr) = Len(ks)
    BY MappedIs
  <2> HIDE DEF rr
  <2>2. Len(ks) = 0 <=> ks = <<>>
    BY EmptySeq
  <2>3. Len(rr) = 0 <=> rr = <<>>
    BY <1>4, EmptySeq
  <2> QED
    BY <2>1, <2>2, <2>3
<1> HIDE DEF rr, P, kk
<1>10. JoinGrows(Char, rr, P, sep)
  BY <1>3, <1>4, JoinSnoc
<1>11. CASE ks = <<>>
  <2>1. Join(Append(rr, P), sep) = P
    BY <1>9, <1>10, <1>11 DEF JoinGrows
  <2>2. m = mark /\ Asked(ks, vv) = <<>>
    BY <1>7, <1>8, <1>11
  <2>3. mark \o P \in Seq(Char)
    BY <1>3, <1>4, ConcatProperties
  <2>4. <<>> \o (mark \o P) = mark \o P
    BY <2>3, ConcatEmptySeq
  <2>5. Asked(kk, vv) = Asked(ks, vv) \o (m \o P)
    BY <1>6, <2>1, <2>2, <2>4
  <2> QED
    BY <2>5 DEF AskedGrows, kk, P
<1>12. CASE ks # <<>>
  <2> DEFINE j == Join(rr, sep)
  <2>1. Join(Append(rr, P), sep) = j \o (sep \o P) /\ j \in Seq(Char)
    BY <1>9, <1>10, <1>12 DEF JoinGrows
  <2>2. m = sep /\ Asked(ks, vv) = mark \o j
    BY <1>7, <1>8, <1>12
  <2> HIDE DEF j
  <2>3. sep \o P \in Seq(Char)
    BY <1>3, <1>4, ConcatProperties
  <2>4. Regroups(mark, j, sep \o P)
    BY <1>3, <2>1, <2>3, Regroup
  <2>5. (mark \o j) \o (sep \o P) = mark \o (j \o (sep \o P))
    BY <2>4 DEF Regroups
  <2>6. Asked(kk, vv) = Asked(ks, vv) \o (m \o P)
    BY <1>6, <2>1, <2>2, <2>5
  <2> QED
    BY <2>6 DEF AskedGrows, kk, P
<1> QED
  BY <1>11, <1>12

\* fastmcp.go:201: the query is the parameters of these names.
LEMMA QueryMade ==
  ASSUME NEW vv, vv \in [DOMAIN vv -> Seq(Char)], NEW q \in Seq(PlainName)
  PROVE  \E ks : QueryKeys(q, vv, ks)
<1> DEFINE T == {r \in Seq(PlainName) : \E ks : QueryKeys(r, vv, ks)}
<1>1. <<>> \in T
  <2>1. QueryPieces(<<>>, vv) = <<>>
    BY DEF QueryPieces
  <2>2. QueryText(<<>>, vv) = Asked(<<>>, vv)
    BY <2>1, FlattenEmpty DEF QueryText, Asked
  <2>3. QueryKeys(<<>>, vv, <<>>)
    BY <2>2 DEF QueryKeys
  <2> QED
    BY <2>3
<1>2. ASSUME NEW r \in Seq(PlainName), NEW x \in PlainName, r \in T PROVE Append(r, x) \in T
  <2> DEFINE n == Len(r)
             rx == Append(r, x)
             last == QueryPiece(rx, vv, n + 1)
  <2>1. PICK ks : QueryKeys(r, vv, ks)
    BY <1>2
  <2>2. /\ n \in Nat /\ DOMAIN r = 1 .. n /\ rx \in Seq(PlainName) /\ Len(rx) = n + 1 /\ DOMAIN rx = 1 .. (n + 1)
        /\ rx[n + 1] = x /\ \A i \in 1 .. n : rx[i] = r[i]
    BY AppendProperties, LenProperties
  <2>3. /\ ks \in Seq(PlainName) /\ Len(ks) \in Nat
        /\ \A j \in 1 .. Len(ks) : Told(ks[j], vv) /\ \E i \in 1 .. n : r[i] = ks[j]
        /\ \A i \in 1 .. n : Told(r[i], vv) => \E j \in 1 .. Len(ks) : ks[j] = r[i]
        /\ QueryText(r, vv) = Asked(ks, vv)
    BY <2>1, LenProperties DEF QueryKeys
  <2>4. QueryText(r, vv) \in Seq(Char) /\ QueryText(rx, vv) = QueryText(r, vv) \o last
    BY QuerySnoc DEF QueryGrows
  <2> HIDE DEF rx
  <2>5. n + 1 \in 1 .. (n + 1) /\ n + 1 \in 1 .. Len(rx) /\ \A i \in 1 .. n : i \in 1 .. (n + 1) /\ i < n + 1
    BY <2>2
  <2>6. last = IF Told(x, vv) THEN Mark(rx, vv, n + 1) \o Params(vv)[x] ELSE <<>>
    BY <2>2, <2>5, PieceTyped
  <2> HIDE DEF last
  <2>7. CASE ~Told(x, vv)
    <3>1. QueryText(rx, vv) = Asked(ks, vv)
      BY <2>3, <2>4, <2>6, <2>7, ConcatEmptySeq
    <3>2. \A j \in 1 .. Len(ks) : Told(ks[j], vv) /\ \E i \in 1 .. (n + 1) : rx[i] = ks[j]
      BY <2>2, <2>3, <2>5
    <3>3. ASSUME NEW i \in 1 .. (n + 1), Told(rx[i], vv) PROVE \E j \in 1 .. Len(ks) : ks[j] = rx[i]
      <4>1. i # n + 1
        BY <2>2, <2>7, <3>3
      <4>2. i \in 1 .. n
        <5> HIDE DEF n
        <5> QED
          BY <2>2, <4>1
      <4> QED
        BY <2>2, <2>3, <3>3, <4>2
    <3>4. QueryKeys(rx, vv, ks)
      BY <2>2, <2>3, <3>1, <3>2, <3>3 DEF QueryKeys
    <3> QED
      BY <2>2, <3>4 DEF rx
  <2>8. CASE Told(x, vv)
    <3> DEFINE kk == Append(ks, x)
    <3>1. Preceded(rx, vv, n + 1) <=> ks # <<>>
      <4>1. ASSUME ks # <<>> PROVE Preceded(rx, vv, n + 1)
        <5>1. 1 \in 1 .. Len(ks)
          BY <2>3, <4>1, EmptySeq
        <5>2. PICK i \in 1 .. n : r[i] = ks[1] /\ Told(ks[1], vv)
          BY <2>3, <5>1
        <5>3. Told(rx[i], vv) /\ i \in DOMAIN rx /\ i < n + 1
          BY <2>2, <2>5, <5>2
        <5> QED
          BY <5>3 DEF Preceded
      <4>2. ASSUME Preceded(rx, vv, n + 1) PROVE ks # <<>>
        <5>1. PICK k \in 1 .. (n + 1) : Told(rx[k], vv) /\ k < n + 1
          BY <2>2, <4>2 DEF Preceded
        <5>2. k \in 1 .. n
          <6> HIDE DEF n
          <6> QED
            BY <2>2, <5>1
        <5>3. PICK j \in 1 .. Len(ks) : ks[j] = r[k]
          BY <2>2, <2>3, <5>1, <5>2
        <5>4. Len(ks) # 0
          BY <2>3, <5>3
        <5> QED
          BY <2>3, <5>4, EmptySeq
      <4> QED
        BY <4>1, <4>2
    <3>2. QueryText(rx, vv) = Asked(kk, vv)
      <4>1. PICK m : m = Mark(rx, vv, n + 1)
        OBVIOUS
      <4>2. m = IF ks # <<>> THEN <<"&">> ELSE <<"?">>
        BY <3>1, <4>1 DEF Mark
      <4>3. Asked(kk, vv) = Asked(ks, vv) \o (m \o Params(vv)[x])
        <5>1. AskedGrows(ks, x, vv, m)
          BY <2>3, <4>2, AskedSnoc
        <5> QED
          BY <5>1 DEF AskedGrows
      <4> QED
        BY <2>3, <2>4, <2>6, <2>8, <4>1, <4>3
    <3> DEFINE l == Len(ks)
    <3>3. /\ kk \in Seq(PlainName) /\ Len(kk) = l + 1 /\ kk[l + 1] = x
          /\ \A j \in 1 .. l : kk[j] = ks[j]
      BY <2>3, AppendProperties
    <3> HIDE DEF kk
    <3>3a. l \in Nat /\ l + 1 \in 1 .. (l + 1) /\ \A j \in 1 .. l : j \in 1 .. (l + 1)
      BY <2>3
    <3>4. ASSUME NEW j \in 1 .. (l + 1) PROVE Told(kk[j], vv) /\ \E i \in 1 .. (n + 1) : rx[i] = kk[j]
      <4>1. CASE j = l + 1
        BY <2>2, <2>5, <2>8, <3>3, <4>1
      <4>2. CASE j # l + 1
        <5>1. j \in 1 .. l
          <6> HIDE DEF l
          <6> QED
            BY <3>3a, <4>2
        <5>2. kk[j] = ks[j] /\ Told(ks[j], vv) /\ \E i \in 1 .. n : r[i] = ks[j]
          BY <2>3, <3>3, <5>1
        <5> QED
          BY <2>2, <2>5, <5>2
      <4> QED
        BY <4>1, <4>2
    <3>5. ASSUME NEW i \in 1 .. (n + 1), Told(rx[i], vv) PROVE \E j \in 1 .. (l + 1) : kk[j] = rx[i]
      <4>1. CASE i = n + 1
        BY <2>2, <3>3, <3>3a, <4>1
      <4>2. CASE i # n + 1
        <5>1. i \in 1 .. n
          <6> HIDE DEF n
          <6> QED
            BY <2>2, <4>2
        <5>2. PICK j \in 1 .. l : ks[j] = r[i]
          BY <2>2, <2>3, <3>5, <5>1
        <5>3. kk[j] = rx[i] /\ j \in 1 .. (l + 1)
          BY <2>2, <3>3, <3>3a, <5>1, <5>2
        <5> QED
          BY <5>3
      <4> QED
        BY <4>1, <4>2
    <3>6. QueryKeys(rx, vv, kk)
      <4> HIDE DEF l
      <4> QED
        BY <2>2, <3>2, <3>3, <3>4, <3>5 DEF QueryKeys
    <3> QED
      BY <2>2, <3>6 DEF rx
  <2> QED
    BY <2>7, <2>8
<1>3. Seq(PlainName) \subseteq T
  <2> HIDE DEF T
  <2> QED
    BY <1>1, <1>2, Growing
<1> QED
  BY <1>3

\* No literal of a path is the mark of a query, and no encoded value has one.
LEMMA PathClean ==
  ASSUME NEW items, NEW given, PlacesFit(items, given), \A i \in DOMAIN items : items[i].text # <<"?">>
  PROVE  /\ PathText(items, given) \in Seq(Char)
         /\ \A k \in 1 .. Len(PathText(items, given)) : PathText(items, given)[k] # "?"
<1> DEFINE S == Char \ {"?"}
           piece(i) == IF items[i].kind = "var"
             THEN fmEncode(IF items[i].name \in DOMAIN given THEN given[items[i].name] ELSE <<>>, items[i].wild)
             ELSE items[i].text
           pp == [i \in 1 .. Len(items) |-> piece(i)]
<1>1. Len(items) \in Nat /\ DOMAIN items = 1 .. Len(items)
  BY DEF PlacesFit
<1>2. \A w \in BOOLEAN : Free(w) \subseteq S
  <2>1. "?" \in Reserved /\ "?" # "/"
    BY DEF Reserved
  <2> QED
    BY <2>1, FreeChars, FreeReserved
<1>3. ASSUME NEW i \in 1 .. Len(items) PROVE piece(i) \in Seq(S)
  <2>1. CASE items[i].kind = "var"
    <3>1. items[i].name \in PathNames(items) /\ items[i].wild \in BOOLEAN
      BY <1>1, <2>1 DEF PathNames, PlacesFit, PlaceFits
    <3>2. items[i].name \in DOMAIN given /\ given[items[i].name] \in Seq(Char)
      BY <3>1 DEF PlacesFit
    <3>3. piece(i) = fmEncode(given[items[i].name], items[i].wild)
      BY <2>1, <3>2
    <3>4. fmEncode(given[items[i].name], items[i].wild) \in Seq(Free(items[i].wild))
      BY <3>1, <3>2, EncodingFree
    <3>5. Free(items[i].wild) \subseteq S
      BY <1>2, <3>1
    <3> HIDE DEF S, piece
    <3> QED
      BY <3>3, <3>4, <3>5, SeqMonotonic
  <2>2. CASE items[i].kind # "var"
    <3>1. PICK c \in Char : items[i].text = <<c>>
      BY <1>1, <2>2 DEF PlacesFit, PlaceFits
    <3>2. c # "?"
      BY <1>1, <3>1
    <3>3. c \in S
      BY <3>1, <3>2
    <3>4. piece(i) = <<c>>
      BY <2>2, <3>1
    <3> HIDE DEF S, piece
    <3> QED
      BY <3>3, <3>4, OneTyped
  <2> QED
    BY <2>1, <2>2
<1>4. PathText(items, given) = FlattenSeq(pp)
  BY <1>1 DEF PathText
<1>5. S \subseteq Char /\ \A c \in S : c # "?"
  OBVIOUS
<1> HIDE DEF S
<1>6. pp \in Seq(Seq(S))
  <2>1. PICK R : R = Seq(S)
    OBVIOUS
  <2> HIDE DEF piece
  <2>2. \A i \in 1 .. Len(items) : piece(i) \in R
    BY <1>3, <2>1
  <2>3. pp \in Seq(R)
    BY <1>1, <2>2
  <2> QED
    BY <2>1, <2>3
<1> HIDE DEF pp
<1>7. FlattenSeq(pp) \in Seq(S)
  BY <1>6, FlattenTyped
<1>8. FlattenSeq(pp) \in Seq(Char)
  BY <1>5, <1>7, SeqMonotonic
<1>9. \A k \in 1 .. Len(FlattenSeq(pp)) : FlattenSeq(pp)[k] # "?"
  BY <1>5, <1>7, ElementOfSeq
<1> QED
  BY <1>4, <1>8, <1>9

\* How MatchURITemplate takes a URI apart.
MarkAt(uri) == IndexOf(uri, "?")
PathOf(uri) == IF MarkAt(uri) = 0 THEN uri ELSE SubSeq(uri, 1, MarkAt(uri) - 1)
QueryIn(uri) == IF MarkAt(uri) = 0 THEN <<>> ELSE parseQueryKeepBlank(From(uri, MarkAt(uri) + 1))

TakenApart(uri, path, ks, vv) ==
  /\ PathOf(uri) = path
  /\ DOMAIN QueryIn(uri) = {ks[j] : j \in 1 .. Len(ks)}
  /\ \A j \in 1 .. Len(ks) : QueryIn(uri)[ks[j]][1] = vv[normalizeParamName(ks[j])]

\* Of texts that are one value or none, what they make begins with the value.
LEMMA FlattenHead ==
  ASSUME NEW n \in Nat, NEW v, NEW ss, ss = [i \in 1 .. n |-> ss[i]],
         \A i \in 1 .. n : ss[i] = <<v>> \/ ss[i] = <<>>, NEW j \in 1 .. n, ss[j] = <<v>>
  PROVE  FlattenSeq(ss)[1] = v
<1> DEFINE S == {v}
           s == FlattenSeq(ss)
<1>0. v \in S
  OBVIOUS
<1> HIDE DEF S
<1>1. \A i \in 1 .. n : ss[i] \in Seq(S)
  <2>1. <<v>> \in Seq(S)
    BY <1>0, OneTyped
  <2>2. <<>> \in Seq(S)
    OBVIOUS
  <2> QED
    BY <2>1, <2>2
<1>2. ss \in Seq(Seq(S)) /\ Len(ss) = n
  <2>1. PICK R : R = Seq(S)
    OBVIOUS
  <2>2. ss \in Seq(R) /\ Len(ss) = n
    BY <1>1, <2>1
  <2> QED
    BY <2>1, <2>2
<1>3. s \in Seq(S) /\ Len(s) \in Nat
  BY <1>2, FlattenTyped, LenProperties
<1> HIDE DEF s
<1>4. PICK c : Laid(ss, s, c)
  BY <1>2, FlattenLaid DEF s
<1>5. c[j] \in Nat /\ 1 <= c[j] /\ c[j + 1] <= Len(s) + 1 /\ c[j + 1] = c[j] + Len(ss[j])
  <2>1. j \in 1 .. (n + 1) /\ j + 1 \in 1 .. (n + 1)
    OBVIOUS
  <2> QED
    BY <1>2, <1>4, <2>1 DEF Laid
<1>6. Len(ss[j]) = 1
  <2>1. Len(<<v>>) = 1
    OBVIOUS
  <2> QED
    BY <2>1, Zenon
<1>7. 1 \in 1 .. Len(s)
  BY <1>3, <1>5, <1>6
<1>8. s[1] \in S
  BY <1>3, <1>7, ElementOfSeq
<1> QED
  BY <1>8 DEF S, s

LEMMA UriTaken ==
  ASSUME NEW path \in Seq(Char), \A k \in 1 .. Len(path) : path[k] # "?",
         NEW vv, vv \in [DOMAIN vv -> Seq(Char)], NEW ks \in Seq(PlainName),
         \A j \in 1 .. Len(ks) : Told(ks[j], vv),
         NEW uri, uri = path \o Asked(ks, vv)
  PROVE  TakenApart(uri, path, ks, vv)
<1> DEFINE n == Len(ks)
           pp == Mapped(Params(vv), ks)
           J == Join(pp, <<"&">>)
<1>1. n \in Nat /\ DOMAIN ks = 1 .. n /\ \A j \in 1 .. n : ks[j] \in PlainName
  BY LenProperties, ElementOfSeq
<1>2. pp \in Seq(Seq(Char)) /\ J \in Seq(Char)
  BY FieldsTyped
<1>3. DOMAIN pp = 1 .. n /\ \A j \in 1 .. n : pp[j] = Params(vv)[ks[j]]
  BY MappedIs
<1>4. CASE ks = <<>>
  <2>1. uri = path
    BY <1>4, ConcatEmptySeq DEF Asked
  <2>2. MarkAt(uri) = 0
    <3>1. /\ MarkAt(uri) \in 0 .. Len(path)
          /\ MarkAt(uri) # 0 => path[MarkAt(uri)] = "?"
      BY <2>1, IndexOfIs DEF MarkAt
    <3>2. MarkAt(uri) # 0 => MarkAt(uri) \in 1 .. Len(path)
      <4>1. MarkAt(uri) \in 0 .. Len(path) /\ Len(path) \in Nat
        BY <3>1, LenProperties
      <4> QED
        BY <4>1
    <3> QED
      BY <3>1, <3>2
  <2>3. PathOf(uri) = path /\ QueryIn(uri) = <<>>
    BY <2>1, <2>2 DEF PathOf, QueryIn
  <2>4. 1 .. Len(ks) = {}
    BY <1>4
  <2> QED
    BY <2>3, <2>4 DEF TakenApart
<1>5. CASE ks # <<>>
  <2>0. n # 0
    BY <1>5, EmptySeq
  <2>1. PICK c : c = "?"
    OBVIOUS
  <2>2. c \in Char /\ <<c>> \in Seq(Char)
    BY <2>1, PlainChars, OneTyped
  <2>3. uri = (path \o <<c>>) \o J
    <3>1. PICK m : m = <<c>>
      OBVIOUS
    <3>2. Regroups(path, m, J)
      BY <1>2, <2>2, <3>1, Regroup
    <3>3. uri = path \o (m \o J)
      BY <1>5, <2>1, <3>1 DEF Asked
    <3> QED
      BY <3>1, <3>2, <3>3 DEF Regroups
  <2>4. CutFits(Char, c, path, J, uri)
    <3>1. \A k \in 1 .. Len(path) : path[k] # c
      BY <2>1
    <3> HIDE DEF J
    <3> QED
      BY <1>2, <2>2, <2>3, <3>1, CutIs
  <2>5. MarkAt(uri) = Len(path) + 1 /\ Len(path) \in Nat
    BY <2>1, <2>4 DEF CutFits, MarkAt
  <2>6. MarkAt(uri) # 0 /\ MarkAt(uri) - 1 = Len(path) /\ MarkAt(uri) + 1 = Len(path) + 2
    BY <2>5
  <2>7. PathOf(uri) = path /\ QueryIn(uri) = parseQueryKeepBlank(J)
    BY <2>4, <2>6 DEF PathOf, QueryIn, CutFits
  <2> DEFINE V == [j \in 1 .. n |-> vv[normalizeParamName(ks[j])]]
  <2>8. \A j \in 1 .. n : V[j] = vv[normalizeParamName(ks[j])]
    OBVIOUS
  <2>9. \A j \in 1 .. n : ks[j] \in Seq(Char) /\ V[j] \in Seq(Char)
    BY <1>1, PlainIs DEF Told
  <2> HIDE DEF V
  <2>10. \A j \in 1 .. n : pp[j] = Field(fmEncode(ks[j], FALSE), fmEncode(V[j], FALSE))
    <3>1. ASSUME NEW j \in 1 .. n PROVE pp[j] = Field(fmEncode(ks[j], FALSE), fmEncode(V[j], FALSE))
      <4>1. Told(ks[j], vv) /\ ks[j] \in PlainName
        BY <1>1
      <4>2. Params(vv)[ks[j]] = Field(fmEncode(ks[j], FALSE), fmEncode(vv[normalizeParamName(ks[j])], FALSE))
        BY <2>2, <4>1, ParamIs
      <4> QED
        BY <1>3, <2>8, <4>2
    <3> QED
      BY <3>1
  <2> HIDE DEF pp, n
  <2>11. parseQueryKeepBlank(J) = Gathered(n, ks, V)
    <3>1. n \in Nat /\ n # 0 /\ DOMAIN pp = 1 .. n /\ pp \in Seq(Seq(Char))
      BY <1>1, <1>2, <1>3, <2>0
    <3> HIDE <1>1, <1>2, <1>3
    <3>2. parseQueryKeepBlank(Join(pp, <<"&">>)) = Gathered(n, ks, V)
      BY <2>9, <2>10, <3>1, QueryParsed
    <3> QED
      BY <3>2
  <2>12. /\ DOMAIN QueryIn(uri) = {ks[j] : j \in 1 .. n}
         /\ \A k \in {ks[j] : j \in 1 .. n} :
              QueryIn(uri)[k] = FlattenSeq([i \in 1 .. n |-> IF ks[i] = k THEN <<V[i]>> ELSE <<>>])
    BY <2>7, <2>11 DEF Gathered
  <2>13. ASSUME NEW j \in 1 .. n PROVE QueryIn(uri)[ks[j]][1] = vv[normalizeParamName(ks[j])]
    <3> DEFINE k == ks[j]
               v == V[j]
               ss == [i \in 1 .. n |-> IF ks[i] = k THEN <<V[i]>> ELSE <<>>]
    <3>1. \A i \in 1 .. n : ks[i] = k => V[i] = v
      BY <2>8
    <3>2. QueryIn(uri)[k] = FlattenSeq(ss)
      BY <2>12
    <3>3. v = vv[normalizeParamName(ks[j])]
      BY <2>8
    <3>4. ss[j] = <<v>> /\ (\A i \in 1 .. n : ss[i] = <<v>> \/ ss[i] = <<>>) /\ ss = [i \in 1 .. n |-> ss[i]]
      BY <3>1
    <3> HIDE DEF ss, v
    <3>5. FlattenSeq(ss)[1] = v
      BY <1>1, <3>4, FlattenHead
    <3> QED
      BY <3>2, <3>3, <3>5
  <2> QED
    BY <2>7, <2>12, <2>13 DEF TakenApart, n
<1> QED
  BY <1>4, <1>5

\* The variables of a match: those of the path, and those the query adds.
AskedAt(q, query, n) == {i \in DOMAIN q : normalizeParamName(q[i]) = n /\ q[i] \in DOMAIN query}
QueryNames(q) == {normalizeParamName(q[i]) : i \in DOMAIN q}
Extra(q, query, vars_) == {n \in QueryNames(q) : n \notin DOMAIN vars_ /\ AskedAt(q, query, n) # {}}
FirstAsked(q, query, n) == CHOOSE i \in AskedAt(q, query, n) : \A j \in AskedAt(q, query, n) : i <= j
FastVars(q, query, vars_) ==
  [n \in DOMAIN vars_ \cup Extra(q, query, vars_) |->
    IF n \in DOMAIN vars_ THEN vars_[n] ELSE query[q[FirstAsked(q, query, n)]][1]]

LEMMA MatchFastIs ==
  ASSUME NEW uri, NEW tmpl
  PROVE  LET cut == splitQueryExpr(tmpl)
             items == Placeholders(cut.path)
             found == Unescaped(Match(BuildRegex(items), PathOf(uri), FALSE))
         IN MatchURITemplate(uri, tmpl) =
              IF ~Proper(items) \/ ~found.matched THEN NoMatch
              ELSE [matched |-> TRUE, vars |-> FastVars(cut.query, QueryIn(uri), found.vars)]
BY DEF MatchURITemplate, FastVars, FirstAsked, Extra, QueryNames, AskedAt, PathOf, QueryIn, MarkAt

LEMMA ExpandFastIs ==
  ASSUME NEW tmpl, NEW vv
  PROVE  LET cut == splitQueryExpr(tmpl)
         IN ExpandURITemplate(tmpl, vv) = PathText(Placeholders(cut.path), vv) \o QueryText(cut.query, vv)
<1> DEFINE cut == splitQueryExpr(tmpl)
           items == Placeholders(cut.path)
           q == cut.query
           key(i) == normalizeParamName(q[i])
           given == {i \in DOMAIN q : key(i) \in DOMAIN vv}
           before(i) == IF \E k \in given : k < i THEN <<"&">> ELSE <<"?">>
           piece(i) == IF i \in given THEN before(i) \o q[i] \o <<"=">> \o fmEncode(vv[key(i)], FALSE) ELSE <<>>
<1>1. ExpandURITemplate(tmpl, vv) = PathText(items, vv) \o FlattenSeq([i \in DOMAIN q |-> piece(i)])
  BY DEF ExpandURITemplate, PathText
<1>2. ASSUME NEW i \in DOMAIN q PROVE piece(i) = QueryPiece(q, vv, i)
  <2>1. i \in given <=> Told(q[i], vv)
    BY DEF Told
  <2>2. (\E k \in given : k < i) <=> Preceded(q, vv, i)
    BY DEF Told, Preceded
  <2>3. before(i) = Mark(q, vv, i)
    BY <2>2 DEF Mark
  <2> HIDE DEF given, before, q
  <2> QED
    BY <2>1, <2>3 DEF QueryPiece
<1> HIDE DEF piece
<1>3. [i \in DOMAIN q |-> piece(i)] = QueryPieces(q, vv)
  BY <1>2 DEF QueryPieces
<1> QED
  BY <1>1, <1>3 DEF QueryText

\* A query answers for the names that are given.
Answered(q, query, vv, P, found) ==
  /\ vv = [n \in DOMAIN vv |-> vv[n]]
  /\ P \subseteq DOMAIN vv /\ DOMAIN vv \subseteq P \cup QueryNames(q)
  /\ \A i \in 1 .. Len(q) : q[i] \in DOMAIN query <=> Told(q[i], vv)
  /\ \A i \in 1 .. Len(q) : Told(q[i], vv) => query[q[i]][1] = vv[normalizeParamName(q[i])]
  /\ DOMAIN found = P /\ \A n \in P : found[n] = vv[n]

\* What the query adds is what it was given.
LEMMA FastVarsAre ==
  ASSUME NEW q \in Seq(PlainName), NEW query, NEW vv, NEW P, NEW found, Answered(q, query, vv, P, found)
  PROVE  FastVars(q, query, found) = vv
<1>0. /\ vv = [n \in DOMAIN vv |-> vv[n]]
      /\ P \subseteq DOMAIN vv /\ DOMAIN vv \subseteq P \cup QueryNames(q)
      /\ \A i \in 1 .. Len(q) : q[i] \in DOMAIN query <=> Told(q[i], vv)
      /\ \A i \in 1 .. Len(q) : Told(q[i], vv) => query[q[i]][1] = vv[normalizeParamName(q[i])]
      /\ DOMAIN found = P /\ \A n \in P : found[n] = vv[n]
  BY DEF Answered
<1>1. Len(q) \in Nat /\ DOMAIN q = 1 .. Len(q)
  BY LenProperties
<1>2. \A n : AskedAt(q, query, n) = {i \in 1 .. Len(q) : normalizeParamName(q[i]) = n /\ n \in DOMAIN vv}
  BY <1>0, <1>1 DEF AskedAt, Told
<1>3. P \cup Extra(q, query, found) = DOMAIN vv
  <2>1. ASSUME NEW n \in DOMAIN vv, n \notin P PROVE n \in Extra(q, query, found)
    <3>1. PICK i \in 1 .. Len(q) : normalizeParamName(q[i]) = n
      BY <1>0, <1>1, <2>1 DEF QueryNames
    <3>2. i \in AskedAt(q, query, n) /\ n \in QueryNames(q)
      BY <1>1, <1>2, <2>1, <3>1 DEF QueryNames
    <3> QED
      BY <1>0, <2>1, <3>2 DEF Extra
  <2>2. ASSUME NEW n \in Extra(q, query, found) PROVE n \in DOMAIN vv
    <3>1. PICK i : i \in AskedAt(q, query, n)
      BY DEF Extra
    <3> QED
      BY <1>2, <3>1
  <2> QED
    BY <1>0, <2>1, <2>2
<1>4. ASSUME NEW n \in DOMAIN vv, n \notin P PROVE query[q[FirstAsked(q, query, n)]][1] = vv[n]
  <2> DEFINE T == AskedAt(q, query, n)
             i == FirstAsked(q, query, n)
  <2>1. T # {}
    BY <1>0, <1>3, <1>4 DEF Extra
  <2>2. T \subseteq Nat
    <3>1. T \subseteq 1 .. Len(q)
      BY <1>2
    <3>2. 1 .. Len(q) \subseteq Nat
      BY <1>1
    <3> QED
      BY <3>1, <3>2
  <2>3. \E k \in T : \A j \in T : k <= j
    <3> HIDE DEF T
    <3> QED
      BY <2>1, <2>2, Least
  <2>4. i \in T
    BY <2>3 DEF FirstAsked
  <2> HIDE DEF i
  <2>5. i \in 1 .. Len(q) /\ normalizeParamName(q[i]) = n
    BY <1>2, <2>4
  <2>6. Told(q[i], vv)
    BY <1>4, <2>5 DEF Told
  <2>7. query[q[i]][1] = vv[n]
    BY <1>0, <2>5, <2>6
  <2> QED
    BY <2>7 DEF i
<1>5. FastVars(q, query, found) = [n \in DOMAIN vv |-> IF n \in P THEN found[n] ELSE query[q[FirstAsked(q, query, n)]][1]]
  BY <1>0, <1>3 DEF FastVars
<1>6. \A n \in DOMAIN vv : (IF n \in P THEN found[n] ELSE query[q[FirstAsked(q, query, n)]][1]) = vv[n]
  BY <1>0, <1>4
<1>7. FastVars(q, query, found) = [n \in DOMAIN vv |-> vv[n]]
  BY <1>5, <1>6
<1> QED
  BY <1>0, <1>7

\* The FastMCP case of a task.
LEMMA FastCase ==
  ASSUME NEW tmpl \in Seq(Char), NEW vv, vv \in [DOMAIN vv -> Seq(Char)], FastInvertible(tmpl, vv)
  PROVE  MatchURITemplate(ExpandURITemplate(tmpl, vv), tmpl) = [matched |-> TRUE, vars |-> vv]
<1> DEFINE cut == splitQueryExpr(tmpl)
           items == Placeholders(cut.path)
           q == cut.query
           re == BuildRegex(items)
           N == PathNames(items)
           uri == ExpandURITemplate(tmpl, vv)
           path == PathText(items, vv)
<1>1. cut.path \in Seq(Char) /\ q \in Seq(Seq(Char))
  BY SplitQueryTyped DEF SplitFits
<1>2. Len(items) \in Nat /\ DOMAIN items = 1 .. Len(items) /\ \A i \in DOMAIN items : PlaceFits(items[i])
  <2>1. PICK p \in Seq(Char) : p = cut.path
    BY <1>1
  <2> QED
    BY <2>1, PlaceholdersTyped
<1>3. /\ Proper(items) /\ Separated(re)
      /\ \A i, j \in DOMAIN items : items[i].wild /\ items[j].wild => i = j
      /\ \A i \in DOMAIN items : items[i].text # <<"?">>
      /\ \A i \in DOMAIN q : q[i] \in PlainName
      /\ N \subseteq DOMAIN vv /\ DOMAIN vv \subseteq N \cup QueryNames(q)
      /\ \A n \in N : vv[n] # <<>>
  BY DEF FastInvertible, PathNames, QueryNames
<1>4. uri = path \o QueryText(q, vv)
  BY ExpandFastIs
<1>5. LET found == Unescaped(Match(re, PathOf(uri), FALSE))
      IN MatchURITemplate(uri, tmpl) =
           IF ~Proper(items) \/ ~found.matched THEN NoMatch
           ELSE [matched |-> TRUE, vars |-> FastVars(q, QueryIn(uri), found.vars)]
  BY MatchFastIs
<1> HIDE DEF cut, items, q, N, uri
<1>6. PlacesFit(items, vv)
  <2>1. \A i \in DOMAIN items : items[i].kind # "bad"
    BY <1>3 DEF Proper
  <2>2. \A n \in N : n \in DOMAIN vv /\ vv[n] \in Seq(Char) \ {<<>>}
    BY <1>3
  <2> QED
    BY <1>2, <2>1, <2>2 DEF PlacesFit, N
<1>7. q \in Seq(PlainName)
  <2>1. Len(q) \in Nat /\ q = [i \in 1 .. Len(q) |-> q[i]] /\ DOMAIN q = 1 .. Len(q)
    BY <1>1, LenProperties
  <2> QED
    BY <1>3, <2>1
<1>8. PICK ks : QueryKeys(q, vv, ks)
  BY <1>7, QueryMade
<1>9. TakenApart(uri, path, ks, vv)
  <2>1. /\ ks \in Seq(PlainName) /\ \A j \in 1 .. Len(ks) : Told(ks[j], vv)
        /\ QueryText(q, vv) = Asked(ks, vv)
    BY <1>8 DEF QueryKeys
  <2>2. path \in Seq(Char) /\ \A k \in 1 .. Len(path) : path[k] # "?"
    BY <1>3, <1>6, PathClean
  <2>3. uri = path \o Asked(ks, vv)
    BY <1>4, <2>1
  <2> HIDE DEF path
  <2> QED
    BY <2>1, <2>2, <2>3, UriTaken
<1>10. Unescaped(Match(re, path, FALSE)) = Found(re, vv)
  <2>1. re \in Seq(Item(N)) /\ Len(re) = Len(items) /\ FlattenSeq(Blocks(re, vv)) = path
    BY <1>6, PathRenders DEF N
  <2>2. \A n \in N : vv[n] \in Seq(Char) \ {<<>>}
    BY <1>6 DEF PlacesFit, N
  <2>3. \A i, j \in Captured(re) : re[i].spans /\ re[j].spans => i = j
    <3>1. \A i \in Captured(re) : i \in DOMAIN items /\ re[i].spans = items[i].wild
      <4>1. DOMAIN re = DOMAIN items
        BY DEF BuildRegex
      <4> QED
        BY <1>6, <4>1, RegexItem DEF Captured
    <3> QED
      BY <1>3, <3>1
  <2>4. Separated(re)
    BY <1>3
  <2> HIDE DEF re, path
  <2>5. Unescaped(Match(re, FlattenSeq(Blocks(re, vv)), FALSE)) = Found(re, vv)
    BY <2>1, <2>2, <2>3, <2>4, RoundMatch
  <2> QED
    BY <2>1, <2>5
<1>11. CaptureNames(re) = N
  BY <1>6, PathRenders DEF N
<1> HIDE DEF re, path
<1>12. Found(re, vv) = [matched |-> TRUE, vars |-> [n \in N |-> vv[n]]]
  BY <1>11 DEF Found, CaptureNames
<1>13. MatchURITemplate(uri, tmpl)
         = [matched |-> TRUE, vars |-> FastVars(q, QueryIn(uri), [n \in N |-> vv[n]])]
  <2>1. PathOf(uri) = path
    BY <1>9 DEF TakenApart
  <2> DEFINE found == Unescaped(Match(re, PathOf(uri), FALSE))
  <2>2. found = [matched |-> TRUE, vars |-> [n \in N |-> vv[n]]]
    BY <1>10, <1>12, <2>1
  <2>3. MatchURITemplate(uri, tmpl) =
           IF ~Proper(items) \/ ~found.matched THEN NoMatch
           ELSE [matched |-> TRUE, vars |-> FastVars(q, QueryIn(uri), found.vars)]
    BY <1>5
  <2> HIDE DEF found
  <2> QED
    BY <1>3, <2>2, <2>3
<1>14. FastVars(q, QueryIn(uri), [n \in N |-> vv[n]]) = vv
  <2> DEFINE query == QueryIn(uri)
             found == [n \in N |-> vv[n]]
  <2>1. /\ \A j \in 1 .. Len(ks) : Told(ks[j], vv) /\ \E i \in 1 .. Len(q) : q[i] = ks[j]
        /\ \A i \in 1 .. Len(q) : Told(q[i], vv) => \E j \in 1 .. Len(ks) : ks[j] = q[i]
    BY <1>8 DEF QueryKeys
  <2>2. /\ DOMAIN query = {ks[j] : j \in 1 .. Len(ks)}
        /\ \A j \in 1 .. Len(ks) : query[ks[j]][1] = vv[normalizeParamName(ks[j])]
    BY <1>9 DEF TakenApart
  <2> HIDE DEF query
  <2>3. \A i \in 1 .. Len(q) : q[i] \in DOMAIN query <=> Told(q[i], vv)
    BY <2>1, <2>2
  <2>4. ASSUME NEW i \in 1 .. Len(q), Told(q[i], vv)
        PROVE  query[q[i]][1] = vv[normalizeParamName(q[i])]
    <3>1. PICK j \in 1 .. Len(ks) : ks[j] = q[i]
      BY <2>1, <2>4
    <3>2. query[ks[j]][1] = vv[normalizeParamName(ks[j])]
      BY <2>2
    <3> QED
      BY <3>1, <3>2
  <2>5. DOMAIN found = N /\ \A n \in N : found[n] = vv[n]
    OBVIOUS
  <2> HIDE DEF found
  <2>6. vv = [n \in DOMAIN vv |-> vv[n]]
    OBVIOUS
  <2>7. N \subseteq DOMAIN vv /\ DOMAIN vv \subseteq N \cup QueryNames(q)
    BY <1>3
  <2>8. FastVars(q, query, found) = vv
    <3>1. Answered(q, query, vv, N, found)
      BY <2>3, <2>4, <2>5, <2>6, <2>7 DEF Answered
    <3> QED
      BY <1>7, <3>1, FastVarsAre
  <2> QED
    BY <2>8 DEF query, found
<1> QED
  BY <1>13, <1>14 DEF uri

-----------------------------------------------------------------------------
(* Matching on a server: which of the ways to fit is taken.                 *)

\* The first k items of a match begin as late as those of any other.
Leads(all, k, f) ==
  \A g \in all : \/ \A j \in 1 .. k : f[j] = g[j]
                 \/ \E i \in 1 .. k : (\A j \in 1 .. (i - 1) : f[j] = g[j]) /\ f[i] > g[i]

LEMMA LeadsFurther ==
  ASSUME NEW all, NEW b \in Nat, NEW k \in Nat, \A g \in all : g[k + 1] \in 1 .. b,
         NEW f \in all, Leads(all, k, f)
  PROVE  \E g \in all : Leads(all, k + 1, g)
<1> DEFINE A == {g \in all : \A j \in 1 .. k : f[j] = g[j]}
           T == {g[k + 1] : g \in A}
<1>1. T # {} /\ T \subseteq 1 .. b
  OBVIOUS
<1>2. PICK m \in T : \A l \in T : l <= m
  <2>1. T \subseteq 0 .. b
    BY <1>1
  <2> HIDE DEF T
  <2> QED
    BY <1>1, <2>1, Greatest
<1>3. PICK g \in A : m = g[k + 1]
  OBVIOUS
<1>4. \A h \in A : h[k + 1] <= g[k + 1]
  BY <1>2, <1>3
<1>5. g \in all /\ \A j \in 1 .. k : f[j] = g[j]
  OBVIOUS
<1>6. ASSUME NEW h \in all
      PROVE  \/ \A j \in 1 .. (k + 1) : g[j] = h[j]
             \/ \E i \in 1 .. (k + 1) : (\A j \in 1 .. (i - 1) : g[j] = h[j]) /\ g[i] > h[i]
  <2>1. CASE \A j \in 1 .. k : f[j] = h[j]
    <3>1. h \in A
      BY <2>1
    <3> HIDE DEF A, T
    <3>2. h[k + 1] <= g[k + 1] /\ \A j \in 1 .. k : g[j] = h[j]
      BY <1>4, <1>5, <2>1, <3>1
    <3>3. h[k + 1] \in Nat /\ g[k + 1] \in Nat
      BY <1>5
    <3>4. CASE h[k + 1] = g[k + 1]
      <4>1. \A j \in 1 .. (k + 1) : j \in 1 .. k \/ j = k + 1
        OBVIOUS
      <4> QED
        BY <3>2, <3>4, <4>1
    <3>5. CASE h[k + 1] # g[k + 1]
      <4>1. g[k + 1] > h[k + 1]
        BY <3>2, <3>3, <3>5
      <4>2. k + 1 \in 1 .. (k + 1) /\ (k + 1) - 1 = k
        OBVIOUS
      <4> QED
        BY <3>2, <4>1, <4>2
    <3> QED
      BY <3>4, <3>5
  <2>2. CASE ~\A j \in 1 .. k : f[j] = h[j]
    <3> HIDE DEF A, T
    <3>1. PICK i \in 1 .. k : (\A j \in 1 .. (i - 1) : f[j] = h[j]) /\ f[i] > h[i]
      BY <2>2 DEF Leads
    <3>2. i \in 1 .. (k + 1) /\ \A j \in 1 .. (i - 1) : j \in 1 .. k
      OBVIOUS
    <3>3. (\A j \in 1 .. (i - 1) : g[j] = h[j]) /\ g[i] > h[i]
      BY <1>5, <3>1, <3>2
    <3> QED
      BY <3>2, <3>3
  <2> QED
    BY <2>1, <2>2
<1> QED
  BY <1>5, <1>6 DEF Leads

\* resource.go:145: of the ways a text matches, the engine reports one.
LEMMA BestFits ==
  ASSUME NEW re, Len(re) \in Nat, DOMAIN re = 1 .. Len(re), NEW s, Len(s) \in Nat, Fits(re, s) # {}
  PROVE  Best(re, s, FALSE) \in Fits(re, s)
<1> DEFINE all == Fits(re, s)
           T == {k \in Nat : k <= Len(re) + 1 => \E f \in all : Leads(all, k, f)}
<1>1. 0 \in T
  <2>1. PICK f \in all : TRUE
    OBVIOUS
  <2>2. Leads(all, 0, f)
    BY DEF Leads
  <2> QED
    BY <2>2
<1>2. ASSUME NEW k \in Nat, k \in T PROVE k + 1 \in T
  <2>1. ASSUME k + 1 <= Len(re) + 1 PROVE \E f \in all : Leads(all, k + 1, f)
    <3>1. PICK f \in all : Leads(all, k, f)
      BY <1>2, <2>1
    <3>2. ASSUME NEW g \in all PROVE g[k + 1] \in 1 .. (Len(s) + 1)
      <4>1. Placement(re, s, g)
        BY FitsPlaced
      <4>2. k + 1 \in 1 .. (Len(re) + 1) /\ Len(re) + 1 \in 1 .. (Len(re) + 1) /\ 1 \in 1 .. (Len(re) + 1)
        BY <2>1
      <4>3. g[1] = 1 /\ g[Len(re) + 1] = Len(s) + 1 /\ g[k + 1] \in Nat
        BY <4>1, <4>2 DEF Placement
      <4>4. 1 <= g[k + 1]
        <5>1. CASE k + 1 = 1
          BY <4>3, <5>1
        <5>2. CASE k + 1 # 1
          <6>1. 1 < k + 1
            BY <5>2
          <6>2. g[1] < g[k + 1]
            BY <4>1, <4>2, <6>1, Rising
          <6> QED
            BY <4>3, <6>2
        <5> QED
          BY <5>1, <5>2
      <4>5. g[k + 1] <= Len(s) + 1
        <5>1. CASE k + 1 = Len(re) + 1
          BY <4>3, <5>1
        <5>2. CASE k + 1 # Len(re) + 1
          <6>1. k + 1 < Len(re) + 1
            BY <2>1, <5>2
          <6>2. g[k + 1] < g[Len(re) + 1]
            BY <4>1, <4>2, <6>1, Rising
          <6> QED
            BY <4>3, <6>2
        <5> QED
          BY <5>1, <5>2
      <4> QED
        BY <4>3, <4>4, <4>5
    <3> HIDE DEF all
    <3>3. Len(s) + 1 \in Nat
      OBVIOUS
    <3> QED
      BY <3>1, <3>2, <3>3, LeadsFurther
  <2> QED
    BY <2>1
<1>3. Nat \subseteq T
  <2> HIDE DEF T
  <2> QED
    BY <1>1, <1>2, Counting
<1>4. PICK f \in all : Leads(all, Len(re) + 1, f)
  <2>1. Len(re) + 1 \in T
    BY <1>3
  <2> QED
    BY <2>1
<1>5. ASSUME NEW g \in all PROVE Prefers(f, g, FALSE)
  <2>1. f = [i \in 1 .. (Len(re) + 1) |-> f[i]] /\ g = [i \in 1 .. (Len(re) + 1) |-> g[i]]
    BY FitsPlaced
  <2>2. CASE \A j \in 1 .. (Len(re) + 1) : f[j] = g[j]
    <3>1. f = g
      BY <2>1, <2>2
    <3> QED
      BY <3>1 DEF Prefers
  <2>3. CASE \E i \in 1 .. (Len(re) + 1) : (\A j \in 1 .. (i - 1) : f[j] = g[j]) /\ f[i] > g[i]
    <3>1. DOMAIN f = 1 .. (Len(re) + 1)
      BY <2>1
    <3> QED
      BY <2>3, <3>1 DEF Prefers
  <2> QED
    BY <1>4, <2>2, <2>3 DEF Leads
<1> QED
  BY <1>5 DEF Best

-----------------------------------------------------------------------------
(* What a sequence built item by item makes.                                *)

\* The first k of some sequences, and what they make.
Firsts(X, k) == [i \in 1 .. k |-> X[i]]

LEMMA FirstsTyped ==
  ASSUME NEW R, NEW X, NEW k \in Nat, \A i \in 1 .. k : X[i] \in R
  PROVE  /\ Firsts(X, k) \in Seq(R) /\ Len(Firsts(X, k)) = k
         /\ \A i \in 1 .. k : Firsts(X, k)[i] = X[i]
BY DEF Firsts

LEMMA FirstsAppend ==
  ASSUME NEW R, NEW X, NEW k \in Nat, \A i \in 1 .. (k + 1) : X[i] \in R
  PROVE  Firsts(X, k + 1) = Append(Firsts(X, k), X[k + 1])
<1>1. k + 1 \in 1 .. (k + 1) /\ \A i \in 1 .. k : i \in 1 .. (k + 1) /\ i # k + 1
  OBVIOUS
<1>2. /\ Firsts(X, k) \in Seq(R) /\ Len(Firsts(X, k)) = k /\ X[k + 1] \in R
      /\ \A i \in 1 .. k : Firsts(X, k)[i] = X[i]
  BY <1>1, FirstsTyped
<1>3. Append(Firsts(X, k), X[k + 1]) = [i \in 1 .. (k + 1) |-> IF i = k + 1 THEN X[k + 1] ELSE Firsts(X, k)[i]]
  BY <1>2, AppendIs
<1>4. \A i \in 1 .. (k + 1) : (IF i = k + 1 THEN X[k + 1] ELSE Firsts(X, k)[i]) = X[i]
  <2>1. \A i \in 1 .. (k + 1) : i = k + 1 \/ i \in 1 .. k
    OBVIOUS
  <2> QED
    BY <1>2, <2>1
<1>5. Firsts(X, k + 1) = [i \in 1 .. (k + 1) |-> X[i]]
  BY DEF Firsts
<1> QED
  BY <1>3, <1>4, <1>5

Made(X, k) == FlattenSeq(Firsts(X, k))
MadeGrows(X, k) == Made(X, k + 1) = Made(X, k) \o X[k + 1]

LEMMA MadeNone == ASSUME NEW X PROVE Made(X, 0) = <<>>
<1>1. Firsts(X, 0) = <<>>
  <2>1. 1 .. 0 = {}
    OBVIOUS
  <2> QED
    BY <2>1 DEF Firsts
<1> QED
  BY <1>1, FlattenEmpty DEF Made

LEMMA MadeTyped ==
  ASSUME NEW S, NEW X, NEW k \in Nat, \A i \in 1 .. k : X[i] \in Seq(S)
  PROVE  Made(X, k) \in Seq(S)
<1>1. PICK R : R = Seq(S)
  OBVIOUS
<1>2. Firsts(X, k) \in Seq(R)
  BY <1>1, FirstsTyped
<1> QED
  BY <1>1, <1>2, FlattenTyped DEF Made

LEMMA MadeOneMore ==
  ASSUME NEW S, NEW X, NEW k \in Nat, \A i \in 1 .. (k + 1) : X[i] \in Seq(S)
  PROVE  MadeGrows(X, k)
<1>1. PICK R : R = Seq(S)
  OBVIOUS
<1>2. k + 1 \in 1 .. (k + 1) /\ \A i \in 1 .. k : i \in 1 .. (k + 1)
  OBVIOUS
<1>3. Firsts(X, k) \in Seq(R) /\ X[k + 1] \in R
  BY <1>1, <1>2, FirstsTyped
<1>4. Firsts(X, k + 1) = Append(Firsts(X, k), X[k + 1])
  BY <1>1, FirstsAppend
<1> QED
  BY <1>1, <1>3, <1>4, FlattenSnoc DEF Made, MadeGrows

\* The parts of a text from one position to the next make the text.
Part(s, c, i) == SubSeq(s, c[i], c[i + 1] - 1)
Parts(s, c, n) == [i \in 1 .. n |-> Part(s, c, i)]
Divides(s, c, n) ==
  /\ c[1] = 1 /\ c[n + 1] = Len(s) + 1
  /\ \A i \in 1 .. (n + 1) : c[i] \in 1 .. (Len(s) + 1)
  /\ \A i \in 1 .. n : c[i] <= c[i + 1]
Adjoins(s, a, b) == SubSeq(s, 1, a - 1) \o SubSeq(s, a, b - 1) = SubSeq(s, 1, b - 1)

LEMMA Adjoining ==
  ASSUME NEW S, NEW s \in Seq(S), NEW a \in 1 .. (Len(s) + 1), NEW b \in 1 .. (Len(s) + 1), a <= b
  PROVE  Adjoins(s, a, b)
<1>1. Len(s) \in Nat
  BY LenProperties
<1>2. 1 \in 1 .. (Len(s) + 1) /\ a - 1 \in (1 - 1) .. Len(s) /\ b - 1 \in (a - 1) .. Len(s) /\ (a - 1) + 1 = a
  BY <1>1
<1> DEFINE k == a - 1
           n == b - 1
<1>3. k \in (1 - 1) .. Len(s) /\ n \in k .. Len(s) /\ k + 1 = a
  BY <1>2
<1> HIDE DEF k, n
<1>4. SubSeq(s, 1, k) \o SubSeq(s, k + 1, n) = SubSeq(s, 1, n)
  BY <1>2, <1>3, ConcatAdjacentSubSeq
<1> QED
  BY <1>3, <1>4 DEF Adjoins, k, n

LEMMA PartTypedIn ==
  ASSUME NEW S, NEW s \in Seq(S), NEW n \in Nat, NEW c, Divides(s, c, n), NEW i \in 1 .. n
  PROVE  Part(s, c, i) \in Seq(S)
<1>1. Len(s) \in Nat /\ i \in 1 .. (n + 1) /\ i + 1 \in 1 .. (n + 1)
  BY LenProperties
<1>2. c[i] \in 1 .. (Len(s) + 1) /\ c[i + 1] \in 1 .. (Len(s) + 1) /\ c[i] <= c[i + 1]
  BY <1>1 DEF Divides
<1>3. c[i] \in Nat /\ c[i + 1] - 1 \in Nat /\ 1 <= c[i] /\ c[i] <= (c[i + 1] - 1) + 1 /\ c[i + 1] - 1 <= Len(s)
  BY <1>1, <1>2
<1> QED
  BY <1>3, SubSeqIs DEF Part

LEMMA PartsMake ==
  ASSUME NEW S, NEW s \in Seq(S), NEW n \in Nat, NEW c, Divides(s, c, n)
  PROVE  FlattenSeq(Parts(s, c, n)) = s
<1> DEFINE X == Parts(s, c, n)
           T == {k \in Nat : k <= n => Made(X, k) = SubSeq(s, 1, c[k + 1] - 1)}
<1>0. Len(s) \in Nat /\ \A i \in 1 .. n : X[i] = Part(s, c, i) /\ X[i] \in Seq(S)
  BY PartTypedIn, LenProperties DEF Parts
<1>0a. X = [i \in 1 .. n |-> X[i]]
  BY DEF Parts
<1> HIDE DEF X
<1>1. 0 \in T
  <2>1. c[0 + 1] - 1 = 0
    BY DEF Divides
  <2>2. SubSeq(s, 1, 0) = <<>>
    BY SubSeqEmpty
  <2> QED
    BY <2>1, <2>2, MadeNone
<1>2. ASSUME NEW k \in Nat, k \in T PROVE k + 1 \in T
  <2>1. ASSUME k + 1 <= n PROVE Made(X, k + 1) = SubSeq(s, 1, c[(k + 1) + 1] - 1)
    <3>1. k + 1 \in 1 .. n /\ k + 1 \in 1 .. (n + 1) /\ (k + 1) + 1 \in 1 .. (n + 1) /\ \A i \in 1 .. (k + 1) : i \in 1 .. n
      BY <2>1
    <3>2. Made(X, k) = SubSeq(s, 1, c[k + 1] - 1)
      BY <1>2, <2>1
    <3>3. Made(X, k + 1) = Made(X, k) \o X[k + 1]
      BY <1>0, <3>1, MadeOneMore DEF MadeGrows
    <3>4. Adjoins(s, c[k + 1], c[(k + 1) + 1])
      <4>1. c[k + 1] \in 1 .. (Len(s) + 1) /\ c[(k + 1) + 1] \in 1 .. (Len(s) + 1) /\ c[k + 1] <= c[(k + 1) + 1]
        BY <3>1 DEF Divides
      <4> QED
        BY <4>1, Adjoining
    <3>5. X[k + 1] = SubSeq(s, c[k + 1], c[(k + 1) + 1] - 1)
      BY <1>0, <3>1 DEF Part
    <3> QED
      BY <3>2, <3>3, <3>4, <3>5 DEF Adjoins
  <2> QED
    BY <2>1
<1>3. Nat \subseteq T
  <2> HIDE DEF T
  <2> QED
    BY <1>1, <1>2, Counting
<1>4. Made(X, n) = SubSeq(s, 1, c[n + 1] - 1)
  BY <1>3
<1>5. c[n + 1] - 1 = Len(s) /\ SubSeq(s, 1, Len(s)) = s
  BY <1>0, SubSeqFull DEF Divides
<1>6. Firsts(X, n) = X
  BY <1>0a DEF Firsts
<1> QED
  BY <1>4, <1>5, <1>6 DEF Made, X

-----------------------------------------------------------------------------
(* The items of the server's dialect, and compiling them.                   *)

\* The items of the server's dialect, and the text each was compiled from.
Inner == Char \ {"}"}
Items == {Literal(c) : c \in Char} \cup {Capture(n, FALSE) : n \in Seq(Inner)}
Bracketed(name) == (<<"{">> \o name) \o <<"}">>
Raw(item) == IF IsCapture(item) THEN Bracketed(item.name) ELSE <<item.char>>
RawOf == [x \in Items |-> Raw(x)]
RawText(re) == FlattenSeq(Mapped(RawOf, re))

LEMMA CharNotEmpty ==
  ASSUME NEW c \in Char
  PROVE  c # ""
BY DEF Char, Unreserved, Hex, Code, Reserved

LEMMA ItemKinds ==
  ASSUME NEW x \in Items
  PROVE  \/ IsCapture(x) /\ x.name \in Seq(Inner) /\ ~x.spans
         \/ ~IsCapture(x) /\ x.char \in Char
<1>1. CASE \E c \in Char : x = Literal(c)
  <2>1. PICK c \in Char : x = Literal(c)
    BY <1>1
  <2>2. c # ""
    BY CharNotEmpty
  <2> QED
    BY <2>1, <2>2 DEF Literal, IsCapture
<1>2. CASE \E n \in Seq(Inner) : x = Capture(n, FALSE)
  <2>1. PICK n \in Seq(Inner) : x = Capture(n, FALSE)
    BY <1>2
  <2>2. x.name = n /\ x.char = "" /\ x.spans = FALSE
    BY <2>1 DEF Capture
  <2> QED
    BY <2>2 DEF IsCapture
<1> QED
  BY <1>1, <1>2 DEF Items

LEMMA BracketedTyped ==
  ASSUME NEW n \in Seq(Char)
  PROVE  Bracketed(n) \in Seq(Char)
<1>1. "{" \in Char /\ "}" \in Char
  BY DEF Char, Code
<1>2. <<"{">> \in Seq(Char) /\ <<"}">> \in Seq(Char)
  BY <1>1, OneTyped
<1>3. (<<"{">> \o n) \in Seq(Char)
  BY <1>2, ConcatProperties
<1> QED
  BY <1>2, <1>3, ConcatProperties DEF Bracketed

LEMMA RawTyped ==
  ASSUME NEW x \in Items
  PROVE  Raw(x) \in Seq(Char) /\ RawOf[x] = Raw(x)
<1>1. RawOf[x] = Raw(x)
  BY DEF RawOf
<1>2. CASE IsCapture(x)
  <2>1. x.name \in Seq(Inner)
    BY <1>2, ItemKinds
  <2>2. Inner \subseteq Char
    BY DEF Inner
  <2>3. x.name \in Seq(Char)
    BY <2>1, <2>2, SeqMonotonic
  <2> QED
    BY <1>1, <1>2, <2>3, BracketedTyped DEF Raw
<1>3. CASE ~IsCapture(x)
  BY <1>1, <1>3, ItemKinds, OneTyped DEF Raw
<1> QED
  BY <1>2, <1>3

MapsFrom(B, x, s) == Mapped(B, <<x>> \o s) = <<B[x]>> \o Mapped(B, s)

LEMMA MappedCons ==
  ASSUME NEW S, NEW B, NEW x \in S, NEW s \in Seq(S)
  PROVE  MapsFrom(B, x, s)
<1> DEFINE R == {B[y] : y \in S}
<1>0. \A y \in S : B[y] \in R
  OBVIOUS
<1> HIDE DEF R
<1>1. <<x>> \in Seq(S) /\ Len(<<x>>) = 1 /\ <<x>>[1] = x /\ B[x] \in R
  BY <1>0
<1>2. <<B[x]>> \in Seq(R) /\ Len(<<B[x]>>) = 1 /\ <<B[x]>>[1] = B[x]
  BY <1>0
<1>3. Mapped(B, s) \in Seq(R) /\ Len(Mapped(B, s)) = Len(s) /\ \A i \in 1 .. Len(s) : Mapped(B, s)[i] = B[s[i]]
  BY <1>0, MappedTyped, MappedIs
<1>4. Len(s) \in Nat
  BY LenProperties
<1> DEFINE l == <<x>> \o s
           r == <<B[x]>> \o Mapped(B, s)
<1>5. /\ l \in Seq(S) /\ Len(l) = 1 + Len(s)
      /\ \A i \in 1 .. (1 + Len(s)) : l[i] = IF i <= 1 THEN <<x>>[i] ELSE s[i - 1]
  BY <1>1, ConcatProperties
<1>6. /\ r \in Seq(R) /\ Len(r) = 1 + Len(s)
      /\ \A i \in 1 .. (1 + Len(s)) : r[i] = IF i <= 1 THEN <<B[x]>>[i] ELSE Mapped(B, s)[i - 1]
  BY <1>2, <1>3, ConcatProperties
<1> HIDE DEF l, r
<1>7. Mapped(B, l) \in Seq(R) /\ Len(Mapped(B, l)) = Len(l) /\ \A i \in 1 .. Len(l) : Mapped(B, l)[i] = B[l[i]]
  BY <1>0, <1>5, MappedTyped, MappedIs
<1>8. ASSUME NEW i \in 1 .. (1 + Len(s)) PROVE Mapped(B, l)[i] = r[i]
  <2>1. CASE i = 1
    <3>1. l[i] = x
      BY <1>1, <1>5, <2>1
    <3>2. r[i] = B[x]
      BY <1>2, <1>6, <2>1
    <3> QED
      BY <1>5, <1>7, <3>1, <3>2
  <2>2. CASE i # 1
    <3>1. i - 1 \in 1 .. Len(s) /\ ~(i <= 1)
      BY <1>4, <2>2
    <3>2. l[i] = s[i - 1] /\ r[i] = B[s[i - 1]]
      BY <1>3, <1>5, <1>6, <3>1
    <3> QED
      BY <1>5, <1>7, <3>2
  <2> QED
    BY <2>1, <2>2
<1>9. Mapped(B, l) = r
  BY <1>5, <1>6, <1>7, <1>8, SeqEqual
<1> QED
  BY <1>9 DEF l, r, MapsFrom

RawGrows(x, s) == RawText(<<x>> \o s) = Raw(x) \o RawText(s)

LEMMA RawCons ==
  ASSUME NEW x \in Items, NEW s \in Seq(Items)
  PROVE  RawGrows(x, s)
<1>1. PICK R : R = Seq(Char)
  OBVIOUS
<1>2. \A y \in Items : RawOf[y] \in R
  BY <1>1, RawTyped
<1>3. Mapped(RawOf, s) \in Seq(R) /\ <<RawOf[x]>> \in Seq(R)
  BY <1>2, MappedTyped, OneTyped
<1>4. MapsFrom(RawOf, x, s)
  BY MappedCons
<1>5. FlattenSeq(<<RawOf[x]>> \o Mapped(RawOf, s)) = FlattenSeq(<<RawOf[x]>>) \o FlattenSeq(Mapped(RawOf, s))
  BY <1>1, <1>3, FlattenConcat
<1>6. FlattenSeq(<<RawOf[x]>>) = RawOf[x]
  BY <1>1, <1>2, FlattenOne
<1>7. RawOf[x] = Raw(x)
  BY RawTyped
<1> QED
  BY <1>4, <1>5, <1>6, <1>7 DEF RawGrows, RawText, MapsFrom

-----------------------------------------------------------------------------
\* What compileURITemplate yields at a position, and where it goes on.
BracedAt(tmpl, i) == tmpl[i] = "{" /\ CloseAt(tmpl, i) > 2
ItemAt(tmpl, i) == IF BracedAt(tmpl, i) THEN Capture(SubSeq(tmpl, i + 1, i + CloseAt(tmpl, i) - 2), FALSE)
                   ELSE Literal(tmpl[i])
ItemHead(tmpl, i) == IF BracedAt(tmpl, i) THEN <<Capture(SubSeq(tmpl, i + 1, i + CloseAt(tmpl, i) - 2), FALSE)>>
                     ELSE <<Literal(tmpl[i])>>
AfterItem(tmpl, i) == IF BracedAt(tmpl, i) THEN i + CloseAt(tmpl, i) ELSE i + 1
ItemHeads(tmpl) == [i \in DOMAIN tmpl |-> ItemHead(tmpl, i)]
ItemNexts(tmpl) == [i \in DOMAIN tmpl |-> AfterItem(tmpl, i)]

LEMMA CompileIs ==
  ASSUME NEW tmpl
  PROVE  compileURITemplate(tmpl) = Scan(Len(tmpl), ItemHeads(tmpl), ItemNexts(tmpl))
BY DEF compileURITemplate, ItemHeads, ItemNexts, ItemHead, AfterItem, BracedAt, CloseAt

Rest(s, i, j, piece) == piece \o From(s, j) = From(s, i)

LEMMA RestIs ==
  ASSUME NEW S, NEW s \in Seq(S), NEW i \in 1 .. Len(s), NEW j \in (i + 1) .. (Len(s) + 1)
  PROVE  Rest(s, i, j, SubSeq(s, i, j - 1))
<1>1. Len(s) \in Nat
  BY LenProperties
<1> DEFINE k == j - 1
<1>2. i \in 1 .. (Len(s) + 1) /\ k \in (i - 1) .. Len(s) /\ Len(s) \in k .. Len(s) /\ k + 1 = j
  BY <1>1
<1> HIDE DEF k
<1>3. SubSeq(s, i, k) \o SubSeq(s, k + 1, Len(s)) = SubSeq(s, i, Len(s))
  BY <1>2, ConcatAdjacentSubSeq
<1> QED
  BY <1>2, <1>3 DEF Rest, From, k

\* A text from a brace to the next closing one.
Braces(s, i, k) == s[i] = "{" /\ s[k] = "}"

LEMMA BracketedIs ==
  ASSUME NEW S, NEW s \in Seq(S), NEW i \in Nat, NEW k \in Nat, 1 <= i, i + 1 <= k, k <= Len(s),
         Braces(s, i, k)
  PROVE  SubSeq(s, i, k) = Bracketed(SubSeq(s, i + 1, k - 1))
<1>1. Len(s) \in Nat
  BY LenProperties
<1>2. i \in 1 .. Len(s) /\ k \in i .. Len(s) /\ i + 1 \in 1 .. Len(s) /\ k \in (i + 1) .. Len(s)
  BY <1>1
<1>3. SubSeq(s, i, k) = <<s[i]>> \o SubSeq(s, i + 1, k)
  BY <1>2, SubSeqRecursiveFirst
<1> DEFINE m == i + 1
           q == SubSeq(s, i + 1, k - 1)
<1>4. SubSeq(s, m, k) = SubSeq(s, m, k - 1) \o <<s[k]>>
  <2>1. m \in 1 .. Len(s) /\ k \in m .. Len(s)
    BY <1>2
  <2> HIDE DEF m
  <2> QED
    BY <2>1, SubSeqRecursiveSecond
<1>5. q \in Seq(S) /\ <<s[i]>> \in Seq(S) /\ <<s[k]>> \in Seq(S)
  <2>1. s[i] \in S /\ s[k] \in S
    BY <1>2, ElementOfSeq
  <2>2. i + 1 \in Nat /\ k - 1 \in Nat /\ 1 <= i + 1 /\ i + 1 <= (k - 1) + 1 /\ k - 1 <= Len(s)
    BY <1>1
  <2> QED
    BY <2>1, <2>2, SubSeqIs, OneTyped
<1>6. Regroups(<<s[i]>>, q, <<s[k]>>)
  <2> HIDE DEF q
  <2> QED
    BY <1>5, Regroup
<1> QED
  BY <1>3, <1>4, <1>6 DEF Regroups, Bracketed, Braces

LEMMA ItemFound ==
  ASSUME NEW tmpl \in Seq(Char), NEW i \in 1 .. Len(tmpl)
  PROVE  /\ ItemAt(tmpl, i) \in Items /\ ItemHead(tmpl, i) = <<ItemAt(tmpl, i)>>
         /\ AfterItem(tmpl, i) \in (i + 1) .. (Len(tmpl) + 1)
         /\ Raw(ItemAt(tmpl, i)) = SubSeq(tmpl, i, AfterItem(tmpl, i) - 1)
<1> DEFINE n == Len(tmpl)
           x == CloseAt(tmpl, i)
<1>1. n \in Nat /\ tmpl[i] \in Char
  BY LenProperties, ElementOfSeq
<1>2. /\ x \in 0 .. (n + 1 - i) /\ (x # 0 => tmpl[i + x - 1] = "}")
      /\ \A k \in i .. n : tmpl[k] = "}" => x # 0 /\ i + x - 1 <= k
  BY CloseIs
<1>3. ItemHead(tmpl, i) = <<ItemAt(tmpl, i)>>
  BY DEF ItemHead, ItemAt
<1>4. CASE BracedAt(tmpl, i)
  <2>1. /\ ItemAt(tmpl, i) = Capture(SubSeq(tmpl, i + 1, i + x - 2), FALSE) /\ AfterItem(tmpl, i) = i + x
        /\ tmpl[i] = "{" /\ x > 2
    BY <1>4 DEF ItemAt, AfterItem, BracedAt
  <2> HIDE DEF x
  <2> DEFINE a == i + 1
             k == i + x - 1
             b == i + x - 2
             q == SubSeq(tmpl, a, b)
  <2>2. /\ a \in Nat /\ b \in Nat /\ k \in Nat /\ 1 <= a /\ a <= b /\ a <= k /\ a <= b + 1 /\ b <= n /\ k <= n
        /\ b = k - 1 /\ k = (i + x) - 1 /\ i \in Nat /\ 1 <= i /\ i + 1 <= k
        /\ i + x \in (i + 1) .. (n + 1) /\ x # 0
    <3> HIDE DEF n
    <3>1. n \in Nat /\ i \in 1 .. n /\ x \in 0 .. (n + 1 - i) /\ x > 2
      BY <1>1, <1>2, <2>1 DEF n
    <3> QED
      BY <3>1
  <2>2b. tmpl[k] = "}"
    BY <1>2, <2>2
  <2>2a. Braces(tmpl, i, k)
    <3> HIDE DEF k
    <3> QED
      BY <2>1, <2>2b DEF Braces
  <2>3. q \in Seq(Char) /\ Len(q) = b + 1 - a /\ \A m \in 1 .. (b + 1 - a) : q[m] = tmpl[a + m - 1]
    <3>1. a \in Nat /\ b \in Nat /\ 1 <= a /\ a <= b + 1 /\ b <= Len(tmpl)
      <4> HIDE DEF a, b, k
      <4> QED
        BY <2>2
    <3> HIDE DEF a, b
    <3> QED
      BY ONLY <3>1, SubSeqIs, tmpl \in Seq(Char)
  <2>4. \A m \in 1 .. Len(q) : q[m] \in Inner
    <3>1. ASSUME NEW m \in 1 .. (b + 1 - a) PROVE q[m] # "}" /\ q[m] \in Char
      <4>1. a + m - 1 \in i .. n /\ ~(i + x - 1 <= a + m - 1) /\ a + m - 1 \in 1 .. n
        <5> HIDE DEF n
        <5>1. n \in Nat /\ i \in 1 .. n /\ x \in 0 .. (n + 1 - i) /\ x > 2
          BY <1>1, <1>2, <2>1 DEF n
        <5> QED
          BY <3>1, <5>1
      <4>2. tmpl[a + m - 1] # "}"
        BY <1>2, <4>1
      <4>3. tmpl[a + m - 1] \in Char
        BY <4>1, ElementOfSeq
      <4> QED
        BY <2>3, <4>2, <4>3
    <3> QED
      BY <2>3, <3>1 DEF Inner
  <2>5. q \in Seq(Inner)
    <3>1. q = [m \in 1 .. Len(q) |-> q[m]] /\ Len(q) \in Nat
      <4> HIDE DEF q
      <4> QED
        BY <2>3, LenProperties
    <3> HIDE DEF q
    <3> QED
      BY <2>4, <3>1, IsASeq
  <2>6. SubSeq(tmpl, i, k) = Bracketed(q)
    <3>1. SubSeq(tmpl, i, k) = Bracketed(SubSeq(tmpl, i + 1, k - 1))
      <4> HIDE DEF k
      <4> QED
        BY <2>2, <2>2a, BracketedIs
    <3> QED
      BY <2>2, <3>1
  <2>7. Capture(q, FALSE) \in Items /\ Raw(Capture(q, FALSE)) = Bracketed(q)
    <3> HIDE DEF q
    <3> QED
      BY <2>5 DEF Items, Raw, Capture, IsCapture
  <2>8. ItemAt(tmpl, i) = Capture(q, FALSE) /\ SubSeq(tmpl, i, AfterItem(tmpl, i) - 1) = SubSeq(tmpl, i, k)
    BY <2>1, <2>2
  <2> QED
    BY <1>3, <2>1, <2>2, <2>6, <2>7, <2>8
<1>5. CASE ~BracedAt(tmpl, i)
  <2>1. ItemAt(tmpl, i) = Literal(tmpl[i]) /\ AfterItem(tmpl, i) = i + 1
    BY <1>5 DEF ItemAt, AfterItem
  <2>2. Literal(tmpl[i]) \in Items /\ Raw(Literal(tmpl[i])) = <<tmpl[i]>>
    <3>1. tmpl[i] # ""
      BY <1>1, CharNotEmpty
    <3>2. Literal(tmpl[i]) \in Items
      BY <1>1 DEF Items
    <3> QED
      BY <3>1, <3>2 DEF Raw, Literal, IsCapture
  <2>3. SubSeq(tmpl, i, i) = <<tmpl[i]>>
    <3>1. i \in i .. Len(tmpl) /\ i \in Int /\ i + 1 \in Int /\ i < i + 1 /\ <<tmpl[i]>> \in Seq(Char)
      BY <1>1, OneTyped
    <3>2. SubSeq(tmpl, i, i) = <<tmpl[i]>> \o SubSeq(tmpl, i + 1, i)
      BY <3>1, SubSeqRecursiveFirst
    <3>3. SubSeq(tmpl, i + 1, i) = <<>>
      BY <3>1, SubSeqEmpty
    <3>4. <<tmpl[i]>> \o <<>> = <<tmpl[i]>>
      BY <3>1, ConcatEmptySeq
    <3> QED
      BY <3>2, <3>3, <3>4
  <2>4. (i + 1) - 1 = i /\ i + 1 \in (i + 1) .. (n + 1)
    BY <1>1
  <2> QED
    BY <1>3, <2>1, <2>2, <2>3, <2>4
<1> QED
  BY <1>4, <1>5

\* resource.go:121: an expression keeps the text of its template, placeholders
\* and all.
LEMMA Compiled ==
  ASSUME NEW tmpl \in Seq(Char)
  PROVE  compileURITemplate(tmpl) \in Seq(Items) /\ RawText(compileURITemplate(tmpl)) = tmpl
<1> DEFINE n == Len(tmpl)
           head == ItemHeads(tmpl)
           next == ItemNexts(tmpl)
<1>1. n \in Nat /\ DOMAIN tmpl = 1 .. n
  BY LenProperties
<1>2. \A i \in 1 .. n : head[i] = ItemHead(tmpl, i) /\ next[i] = AfterItem(tmpl, i)
  BY <1>1 DEF ItemHeads, ItemNexts
<1> HIDE DEF head, next
<1>3. Onward(n, next)
  BY <1>2, ItemFound DEF Onward
<1>4. \A i \in 1 .. n : ItemAt(tmpl, i) \in Items /\ head[i] = <<ItemAt(tmpl, i)>> /\ head[i] \in Seq(Items)
  BY <1>2, ItemFound, OneTyped
<1>5. PICK f : Walk(n, head, next, f) /\ \A i \in 1 .. (n + 1) : f[i] \in Seq(Items)
  BY <1>1, <1>3, <1>4, ScanWalks
<1>6. compileURITemplate(tmpl) = f[1] /\ f[n + 1] = <<>> /\ \A i \in 1 .. n : f[i] = head[i] \o f[next[i]]
  BY <1>5, CompileIs DEF Walk, head, next
<1> DEFINE T == {i \in 1 .. (n + 1) : RawText(f[i]) # From(tmpl, i)}
<1>7. ASSUME T # {} PROVE FALSE
  <2>1. PICK i \in T : \A m \in T : m <= i
    <3>1. T \subseteq 1 .. (n + 1) /\ n + 1 \in Nat
      BY <1>1
    <3> HIDE DEF T
    <3> QED
      BY <1>7, <3>1, LeastMark
  <2>2. i # n + 1
    <3>1. Mapped(RawOf, <<>>) = <<>>
      BY DEF Mapped
    <3>2. RawText(f[n + 1]) = <<>>
      BY <1>6, <3>1, FlattenEmpty DEF RawText
    <3>3. From(tmpl, n + 1) = <<>>
      <4>1. n + 1 \in Int /\ n \in Int /\ n < n + 1
        BY <1>1
      <4> QED
        BY <4>1, SubSeqEmpty DEF From
    <3> QED
      BY <3>2, <3>3
  <2>3. i \in 1 .. n
    BY <1>1, <2>2
  <2> DEFINE j == next[i]
             x == ItemAt(tmpl, i)
  <2>4. j \in (i + 1) .. (n + 1) /\ j \in 1 .. (n + 1) /\ ~(j <= i) /\ f[j] \in Seq(Items)
    <3>1. j \in (i + 1) .. (n + 1)
      BY <1>3, <2>3 DEF Onward
    <3> HIDE DEF j
    <3>2. j \in 1 .. (n + 1) /\ ~(j <= i)
      BY <1>1, <2>3, <3>1
    <3> QED
      BY <1>5, <3>1, <3>2
  <2>5. RawText(f[j]) = From(tmpl, j)
    <3> HIDE DEF j
    <3> QED
      BY <2>1, <2>4
  <2>6. x \in Items /\ Raw(x) = SubSeq(tmpl, i, j - 1) /\ f[i] = <<x>> \o f[j]
    BY <1>2, <1>4, <1>6, <2>3, ItemFound
  <2> HIDE DEF j, x
  <2>7. RawGrows(x, f[j])
    BY <2>4, <2>6, RawCons
  <2>8. Rest(tmpl, i, j, SubSeq(tmpl, i, j - 1))
    BY <2>3, <2>4, RestIs
  <2>9. RawText(f[i]) = From(tmpl, i)
    BY <2>5, <2>6, <2>7, <2>8 DEF RawGrows, Rest
  <2> QED
    BY <2>1, <2>9
<1>8. 1 \in 1 .. (n + 1) /\ From(tmpl, 1) = tmpl
  BY <1>1, SubSeqFull DEF From
<1> QED
  BY <1>5, <1>6, <1>7, <1>8

-----------------------------------------------------------------------------
\* What Substitute yields at a position, and where it goes on.
FoundAt(s, old, i) == IsPrefix(old, From(s, i))
PutAt(s, old, new, i) == IF FoundAt(s, old, i) THEN new ELSE <<s[i]>>
AfterPut(s, old, i) == IF FoundAt(s, old, i) THEN i + Len(old) ELSE i + 1
PutHeads(s, old, new) == [i \in DOMAIN s |-> PutAt(s, old, new, i)]
PutNexts(s, old) == [i \in DOMAIN s |-> AfterPut(s, old, i)]

LEMMA SubstituteIs ==
  ASSUME NEW s, NEW old, NEW new
  PROVE  Substitute(s, old, new) = Scan(Len(s), PutHeads(s, old, new), PutNexts(s, old))
BY DEF Substitute, PutHeads, PutNexts, PutAt, AfterPut, FoundAt

\* Where one text begins in another.
Begins(s, old, i) == i + Len(old) <= Len(s) + 1 /\ \A k \in 1 .. Len(old) : s[i + k - 1] = old[k]

LEMMA FoundIs ==
  ASSUME NEW S, NEW s \in Seq(S), NEW old \in Seq(S), NEW i \in 1 .. Len(s)
  PROVE  FoundAt(s, old, i) <=> Begins(s, old, i)
<1> DEFINE r == From(s, i)
<1>1. Len(s) \in Nat /\ Len(old) \in Nat /\ i \in 1 .. (Len(s) + 1)
  BY LenProperties
<1>2. r \in Seq(S) /\ Len(r) = Len(s) + 1 - i /\ \A k \in 1 .. (Len(s) + 1 - i) : r[k] = s[i + k - 1]
  BY <1>1, FromIs
<1> HIDE DEF r
<1>3. FoundAt(s, old, i) <=> Len(old) <= Len(r) /\ SubSeq(old, 1, Len(old)) = SubSeq(r, 1, Len(old))
  BY DEF FoundAt, IsPrefix, r
<1>4. SubSeq(old, 1, Len(old)) = old
  BY SubSeqFull
<1>5. CASE ~(Len(old) <= Len(r))
  BY <1>1, <1>2, <1>3, <1>5 DEF Begins
<1>6. CASE Len(old) <= Len(r)
  <2>1. /\ SubSeq(r, 1, Len(old)) \in Seq(S) /\ Len(SubSeq(r, 1, Len(old))) = Len(old) + 1 - 1
        /\ \A k \in 1 .. (Len(old) + 1 - 1) : SubSeq(r, 1, Len(old))[k] = r[1 + k - 1]
    <3>1. 1 \in Nat /\ Len(old) \in Nat /\ 1 <= 1 /\ 1 <= Len(old) + 1
      BY <1>1
    <3> QED
      BY <1>2, <1>6, <3>1, SubSeqIs
  <2> DEFINE p == SubSeq(r, 1, Len(old))
  <2>2. p \in Seq(S) /\ Len(p) = Len(old) /\ \A k \in 1 .. Len(old) : p[k] = s[i + k - 1]
    <3>1. Len(old) + 1 - 1 = Len(old) /\ \A k \in 1 .. Len(old) : 1 + k - 1 = k /\ k \in 1 .. (Len(s) + 1 - i)
      BY <1>1, <1>2, <1>6
    <3> QED
      BY <1>2, <2>1, <3>1
  <2> HIDE DEF p
  <2>3. old = p <=> \A k \in 1 .. Len(old) : s[i + k - 1] = old[k]
    <3>1. ASSUME \A k \in 1 .. Len(old) : s[i + k - 1] = old[k] PROVE old = p
      BY <2>2, <3>1, SeqEqual
    <3> QED
      BY <2>2, <3>1
  <2>4. i + Len(old) <= Len(s) + 1
    BY <1>1, <1>2, <1>6
  <2> QED
    BY <1>3, <1>4, <1>6, <2>3, <2>4 DEF p, Begins
<1> QED
  BY <1>5, <1>6

\* Where nothing is found the text is copied.
CopiedFrom(s, f, a, b) == f[a] = SubSeq(s, a, b - 1) \o f[b]

LEMMA Copied ==
  ASSUME NEW S, NEW s \in Seq(S), NEW f, \A i \in 1 .. (Len(s) + 1) : f[i] \in Seq(S),
         NEW a \in 1 .. (Len(s) + 1), NEW b \in a .. (Len(s) + 1),
         \A i \in a .. (b - 1) : f[i] = <<s[i]>> \o f[i + 1]
  PROVE  CopiedFrom(s, f, a, b)
<1> DEFINE T == {i \in 1 .. (Len(s) + 1) : a <= i /\ i <= b /\ ~CopiedFrom(s, f, i, b)}
<1>0. Len(s) \in Nat
  BY LenProperties
<1>1. ASSUME T # {} PROVE FALSE
  <2>1. PICK i \in T : \A m \in T : m <= i
    <3>1. T \subseteq 1 .. (Len(s) + 1) /\ Len(s) + 1 \in Nat
      BY <1>0
    <3> HIDE DEF T
    <3> QED
      BY <1>1, <3>1, LeastMark
  <2>2. i # b
    <3>1. CopiedFrom(s, f, b, b)
      <4>1. b \in Int /\ b - 1 \in Int /\ b - 1 < b /\ b \in 1 .. (Len(s) + 1)
        BY <1>0
      <4>2. SubSeq(s, b, b - 1) = <<>>
        <5> DEFINE c == b - 1
        <5>1. b \in Int /\ c \in Int /\ c < b
          BY <4>1
        <5> HIDE DEF c
        <5>2. SubSeq(s, b, c) = <<>>
          BY <5>1, SubSeqEmpty
        <5> QED
          BY <5>2 DEF c
      <4>3. <<>> \o f[b] = f[b]
        BY <4>1, ConcatEmptySeq
      <4> QED
        BY <4>2, <4>3 DEF CopiedFrom
    <3> QED
      BY <3>1
  <2>3. i \in a .. (b - 1) /\ i \in 1 .. Len(s) /\ i + 1 \in 1 .. (Len(s) + 1) /\ a <= i + 1 /\ i + 1 <= b /\ ~(i + 1 <= i)
    BY <1>0, <2>2
  <2>4. CopiedFrom(s, f, i + 1, b)
    BY <2>1, <2>3
  <2>5. f[i] = <<s[i]>> \o f[i + 1]
    BY <2>3
  <2> DEFINE n == b - 1
             q == SubSeq(s, i + 1, n)
  <2>6. SubSeq(s, i, n) = <<s[i]>> \o q
    <3>1. i \in 1 .. Len(s) /\ n \in i .. Len(s)
      BY <1>0, <2>3
    <3> HIDE DEF n
    <3> QED
      BY <3>1, SubSeqRecursiveFirst
  <2>7. <<s[i]>> \in Seq(S) /\ q \in Seq(S) /\ f[b] \in Seq(S)
    <3>1. s[i] \in S
      BY <2>3, ElementOfSeq
    <3>2. i + 1 \in Nat /\ n \in Nat /\ 1 <= i + 1 /\ i + 1 <= n + 1 /\ n <= Len(s) /\ b \in 1 .. (Len(s) + 1)
      BY <1>0, <2>3
    <3> HIDE DEF n
    <3> QED
      BY <3>1, <3>2, SubSeqIs, OneTyped
  <2>8. Regroups(<<s[i]>>, q, f[b])
    <3> HIDE DEF q
    <3> QED
      BY <2>7, Regroup
  <2>9. CopiedFrom(s, f, i, b)
    BY <2>4, <2>5, <2>6, <2>8 DEF CopiedFrom, Regroups
  <2> QED
    BY <2>1, <2>9
<1>2. a \in 1 .. (Len(s) + 1) /\ a <= b
  BY <1>0
<1> QED
  BY <1>0, <1>1, <1>2

-----------------------------------------------------------------------------
(* Placeholders, and what replacing one does to a text.                     *)

\* A text has no brace, or it is a placeholder whose name has none.
Bare == Char \ {"{", "}"}
PlainPiece(p) == \A k \in 1 .. Len(p) : p[k] # "{"
Placeholder(p) == \E n \in Seq(Bare) : p = Bracketed(n)
PieceOf(p) == p \in Seq(Char) /\ (PlainPiece(p) \/ Placeholder(p))
BracketShape(p, l) ==
  /\ p \in Seq(Char) /\ l \in Nat /\ Len(p) = l + 2 /\ p[1] = "{" /\ p[l + 2] = "}"
  /\ \A k \in 2 .. (l + 1) : p[k] # "{" /\ p[k] # "}"

LEMMA BracketShaped ==
  ASSUME NEW n \in Seq(Bare)
  PROVE  BracketShape(Bracketed(n), Len(n))
<1> DEFINE l == Len(n)
           a == <<"{">> \o n
           p == a \o <<"}">>
<1>1. l \in Nat /\ n \in Seq(Char) /\ \A k \in 1 .. l : n[k] \in Bare
  <2>1. Bare \subseteq Char
    BY DEF Bare
  <2> QED
    BY <2>1, SeqMonotonic, LenProperties, ElementOfSeq
<1>2. \A k \in 1 .. l : n[k] # "{" /\ n[k] # "}"
  BY <1>1 DEF Bare
<1>3. "{" \in Char /\ "}" \in Char
  BY DEF Char, Code
<1>4. PICK u, v : u = "{" /\ v = "}"
  OBVIOUS
<1>5. u \in Char /\ v \in Char
  BY <1>3, <1>4
<1>6. <<u>> \in Seq(Char) /\ Len(<<u>>) = 1 /\ <<u>>[1] = u /\ <<v>> \in Seq(Char) /\ Len(<<v>>) = 1 /\ <<v>>[1] = v
  BY <1>5
<1> DEFINE b == <<u>> \o n
           q == b \o <<v>>
<1>7. /\ b \in Seq(Char) /\ Len(b) = 1 + l
      /\ \A k \in 1 .. (1 + l) : b[k] = IF k <= 1 THEN <<u>>[k] ELSE n[k - 1]
  BY <1>1, <1>6, ConcatProperties
<1> HIDE DEF b
<1>8. /\ q \in Seq(Char) /\ Len(q) = (1 + l) + 1
      /\ \A k \in 1 .. ((1 + l) + 1) : q[k] = IF k <= 1 + l THEN b[k] ELSE <<v>>[k - (1 + l)]
  BY <1>6, <1>7, ConcatProperties
<1> HIDE DEF q, l
<1>9. Len(q) = l + 2 /\ q[1] = u /\ q[l + 2] = v /\ \A k \in 2 .. (l + 1) : q[k] = n[k - 1] /\ k - 1 \in 1 .. l
  <2>1. 1 \in 1 .. ((1 + l) + 1) /\ 1 <= 1 + l /\ 1 \in 1 .. (1 + l) /\ l + 2 \in 1 .. ((1 + l) + 1) /\ ~(l + 2 <= 1 + l)
        /\ (l + 2) - (1 + l) = 1 /\ (1 + l) + 1 = l + 2
    BY <1>1
  <2>2. \A k \in 2 .. (l + 1) : k \in 1 .. ((1 + l) + 1) /\ k <= 1 + l /\ k \in 1 .. (1 + l) /\ ~(k <= 1) /\ k - 1 \in 1 .. l
    BY <1>1
  <2>3. q[1] = u
    <3>1. b[1] = <<u>>[1]
      BY <1>7, <2>1
    <3>2. q[1] = b[1]
      BY <1>8, <2>1
    <3> QED
      BY <1>6, <3>1, <3>2
  <2>4. q[l + 2] = v
    BY <1>6, <1>8, <2>1
  <2> QED
    BY <1>7, <1>8, <2>1, <2>2, <2>3, <2>4
<1>10. \A k \in 2 .. (l + 1) : q[k] # "{" /\ q[k] # "}"
  BY <1>2, <1>9
<1>11. Bracketed(n) = q
  BY <1>4 DEF Bracketed, q, b
<1>12. BracketShape(q, l)
  BY <1>1, <1>4, <1>8, <1>9, <1>10 DEF BracketShape
<1> QED
  BY <1>11, <1>12 DEF l

\* One that begins as another does is the other.
LEMMA SameBrackets ==
  ASSUME NEW p, NEW q, NEW l, NEW m, BracketShape(p, l), BracketShape(q, m),
         \A k \in 1 .. Len(p) : k <= Len(q) => p[k] = q[k]
  PROVE  p = q
<1>1. /\ l \in Nat /\ m \in Nat /\ Len(p) = l + 2 /\ Len(q) = m + 2 /\ p \in Seq(Char) /\ q \in Seq(Char)
  BY DEF BracketShape
<1>2. ASSUME l < m PROVE FALSE
  <2>1. l + 2 \in 2 .. (m + 1) /\ l + 2 \in 1 .. Len(p) /\ l + 2 <= Len(q)
    BY <1>1, <1>2
  <2>2. p[l + 2] = q[l + 2]
    BY <2>1
  <2> QED
    BY <2>1, <2>2 DEF BracketShape
<1>3. ASSUME m < l PROVE FALSE
  <2>1. m + 2 \in 2 .. (l + 1) /\ m + 2 \in 1 .. Len(p) /\ m + 2 <= Len(q)
    BY <1>1, <1>3
  <2>2. p[m + 2] = q[m + 2]
    BY <2>1
  <2> QED
    BY <2>1, <2>2 DEF BracketShape
<1>4. l = m
  BY <1>1, <1>2, <1>3
<1>5. Len(p) = Len(q) /\ \A k \in 1 .. Len(p) : p[k] = q[k]
  BY <1>1, <1>4
<1> QED
  BY <1>1, <1>5, SeqEqual

Through(X, f, c, k) == Made(X, k) \o f[c[k + 1]] = f[1]
Replaced(ss, old, new) == [i \in 1 .. Len(ss) |-> IF ss[i] = old THEN new ELSE ss[i]]

LEMMA Between ==
  ASSUME NEW a \in Nat, NEW b \in Nat, NEW l \in Nat, 1 <= a, b <= l + 1, NEW p \in a .. (b - 1)
  PROVE  p \in 1 .. l /\ p - a + 1 \in 1 .. (b - a) /\ a + (p - a + 1) - 1 = p
OBVIOUS

\* A piece that is not the placeholder is not found, nor is it in one.
LEMMA NotFound ==
  ASSUME NEW ss \in Seq(Seq(Char)), NEW s \in Seq(Char), NEW c, Laid(ss, s, c),
         NEW n \in Seq(Bare), NEW i \in 1 .. Len(ss), PieceOf(ss[i]), ss[i] # Bracketed(n),
         NEW p \in c[i] .. (c[i + 1] - 1)
  PROVE  ~FoundAt(s, Bracketed(n), p)
<1> DEFINE old == Bracketed(n)
           l == Len(n)
           k == p - c[i] + 1
<1>1. Len(ss) \in Nat /\ ss[i] \in Seq(Char) /\ Len(ss[i]) \in Nat /\ Len(s) \in Nat
  BY LenProperties, ElementOfSeq
<1>2. /\ i \in 1 .. (Len(ss) + 1) /\ i + 1 \in 1 .. (Len(ss) + 1)
      /\ c[i] \in Nat /\ 1 <= c[i] /\ c[i + 1] \in Nat /\ c[i + 1] <= Len(s) + 1
      /\ c[i + 1] = c[i] + Len(ss[i])
      /\ \A j \in 1 .. Len(ss[i]) : s[c[i] + j - 1] = ss[i][j]
  BY <1>1 DEF Laid
<1>3. k \in 1 .. Len(ss[i]) /\ c[i] + k - 1 = p /\ p \in 1 .. Len(s)
  <2>1. c[i] \in Nat /\ c[i + 1] \in Nat /\ Len(s) \in Nat /\ 1 <= c[i] /\ c[i + 1] <= Len(s) + 1
    BY <1>1, <1>2
  <2>2. p \in 1 .. Len(s) /\ k \in 1 .. (c[i + 1] - c[i]) /\ c[i] + k - 1 = p
    BY <2>1, Between
  <2>3. c[i + 1] - c[i] = Len(ss[i])
    BY <1>1, <1>2
  <2> QED
    BY <2>2, <2>3
<1>4. BracketShape(old, l)
  BY BracketShaped
<1> HIDE DEF k, l, old
<1>5. ASSUME FoundAt(s, old, p) PROVE FALSE
  <2>1. old \in Seq(Char) /\ l \in Nat /\ Len(old) = l + 2
    BY <1>4 DEF BracketShape
  <2>2. p + Len(old) <= Len(s) + 1 /\ \A j \in 1 .. Len(old) : s[p + j - 1] = old[j]
    <3>1. p \in 1 .. Len(s)
      BY <1>3
    <3>2. old \in Seq(Char)
      BY <2>1
    <3>3. Len(old) >= 1
      BY <2>1
    <3>4. Begins(s, old, p)
      BY <1>5, <3>1, <3>2, <3>3, FoundIs
    <3> QED
      BY <3>4 DEF Begins
  <2>3. s[p] = old[1]
    <3>1. 1 \in 1 .. Len(old) /\ p + 1 - 1 = p
      BY <1>3, <2>1
    <3> QED
      BY <2>2, <3>1
  <2>4. ss[i][k] = "{"
    <3>1. s[p] = ss[i][k]
      BY <1>2, <1>3
    <3> QED
      BY <1>4, <2>3, <3>1 DEF BracketShape
  <2>5. PICK r \in Seq(Bare) : ss[i] = Bracketed(r)
    BY <1>3, <2>4 DEF PieceOf, PlainPiece, Placeholder
  <2>6. BracketShape(ss[i], Len(r))
    BY <2>5, BracketShaped
  <2>7. k = 1
    <3>1. Len(r) \in Nat /\ Len(ss[i]) = Len(r) + 2
      BY <2>6 DEF BracketShape
    <3>2. k \in 2 .. (Len(r) + 1) \/ k = 1 \/ k = Len(r) + 2
      BY <1>3, <3>1
    <3>3. k # Len(r) + 2
      BY <2>4, <2>6 DEF BracketShape
    <3>4. k \notin 2 .. (Len(r) + 1)
      BY <2>4, <2>6 DEF BracketShape
    <3> QED
      BY <3>2, <3>3, <3>4
  <2>8. p = c[i]
    BY <1>2, <1>3, <2>7
  <2>9. \A j \in 1 .. Len(ss[i]) : j <= Len(old) => ss[i][j] = old[j]
    <3>1. \A j \in 1 .. Len(ss[i]) : j <= Len(old) => j \in 1 .. Len(old)
      BY <1>1, <2>1
    <3> QED
      BY <1>2, <2>2, <2>8, <3>1
  <2>10. ss[i] = old
    BY <1>4, <2>6, <2>9, SameBrackets
  <2> QED
    BY <2>10 DEF old
<1> QED
  BY <1>5 DEF old

\* proxy.go:346: a placeholder is replaced where it stands, and nothing else is.
LEMMA Substituted ==
  ASSUME NEW ss \in Seq(Seq(Char)), \A i \in 1 .. Len(ss) : PieceOf(ss[i]),
         NEW n \in Seq(Bare), NEW new \in Seq(Char)
  PROVE  Substitute(FlattenSeq(ss), Bracketed(n), new) = FlattenSeq(Replaced(ss, Bracketed(n), new))
<1> DEFINE s == FlattenSeq(ss)
           old == Bracketed(n)
           m == Len(ss)
           head == PutHeads(s, old, new)
           next == PutNexts(s, old)
           X == Replaced(ss, old, new)
<1>1. m \in Nat /\ s \in Seq(Char) /\ Len(s) \in Nat /\ DOMAIN s = 1 .. Len(s)
  BY FlattenTyped, LenProperties
<1>2. PICK c : Laid(ss, s, c)
  BY FlattenLaid
<1>2a. PICK l : BracketShape(old, l)
  BY BracketShaped
<1>3. old \in Seq(Char) /\ Len(old) \in Nat /\ Len(old) >= 2
  <2>1. old \in Seq(Char) /\ l \in Nat /\ Len(old) = l + 2
    BY <1>2a DEF BracketShape
  <2> QED
    BY <2>1
<1>4. Substitute(s, old, new) = Scan(Len(s), head, next)
  BY SubstituteIs
<1>5. \A i \in 1 .. Len(s) : head[i] = PutAt(s, old, new, i) /\ next[i] = AfterPut(s, old, i)
  BY <1>1 DEF PutHeads, PutNexts
<1>5a. \A i \in 1 .. m : X[i] = IF ss[i] = old THEN new ELSE ss[i]
  BY DEF Replaced
<1>5b. X = [i \in 1 .. m |-> X[i]]
  BY DEF Replaced
<1>5c. \A i \in 1 .. m : ss[i] \in Seq(Char)
  BY ElementOfSeq
<1> HIDE DEF s, head, next, old, X
<1>6. Onward(Len(s), next)
  <2>1. ASSUME NEW i \in 1 .. Len(s) PROVE next[i] \in (i + 1) .. (Len(s) + 1)
    <3>1. CASE FoundAt(s, old, i)
      <4>1. next[i] = i + Len(old)
        BY <1>5, <3>1 DEF AfterPut
      <4>2. i + Len(old) <= Len(s) + 1
        BY <1>1, <1>3, <3>1, FoundIs DEF Begins
      <4> QED
        BY <1>1, <1>3, <4>1, <4>2
    <3>2. CASE ~FoundAt(s, old, i)
      <4>1. next[i] = i + 1
        BY <1>5, <3>2 DEF AfterPut
      <4> QED
        BY <1>1, <4>1
    <3> QED
      BY <3>1, <3>2
  <2> QED
    BY <2>1 DEF Onward
<1>7. \A i \in 1 .. Len(s) : head[i] \in Seq(Char)
  <2>1. ASSUME NEW i \in 1 .. Len(s) PROVE head[i] \in Seq(Char)
    <3>1. s[i] \in Char
      BY <1>1, ElementOfSeq
    <3>2. <<s[i]>> \in Seq(Char)
      BY <3>1, OneTyped
    <3> QED
      BY <1>5, <3>2 DEF PutAt
  <2> QED
    BY <2>1
<1>8. PICK f : Walk(Len(s), head, next, f) /\ \A i \in 1 .. (Len(s) + 1) : f[i] \in Seq(Char)
  BY <1>1, <1>6, <1>7, ScanWalks
<1>9. f[1] = Substitute(s, old, new) /\ f[Len(s) + 1] = <<>> /\ \A i \in 1 .. Len(s) : f[i] = head[i] \o f[next[i]]
  BY <1>4, <1>8 DEF Walk
<1>10. ASSUME NEW i \in 1 .. m
       PROVE  /\ c[i] \in 1 .. (Len(s) + 1) /\ c[i + 1] \in c[i] .. (Len(s) + 1) /\ c[i + 1] \in 1 .. (Len(s) + 1)
              /\ c[i + 1] = c[i] + Len(ss[i])
              /\ \A k \in 1 .. Len(ss[i]) : s[c[i] + k - 1] = ss[i][k]
  <2>1. i \in 1 .. (m + 1) /\ i + 1 \in 1 .. (m + 1) /\ Len(ss[i]) \in Nat
    BY <1>1, <1>5c, LenProperties
  <2>2. /\ c[i] \in Nat /\ 1 <= c[i] /\ c[i] <= Len(s) + 1 /\ c[i + 1] \in Nat /\ c[i + 1] <= Len(s) + 1
        /\ c[i + 1] = c[i] + Len(ss[i])
        /\ \A k \in 1 .. Len(ss[i]) : s[c[i] + k - 1] = ss[i][k]
    BY <1>2, <2>1 DEF Laid
  <2> QED
    BY <1>1, <2>1, <2>2
<1>11. ASSUME NEW i \in 1 .. m PROVE f[c[i]] = X[i] \o f[c[i + 1]]
  <2>1. CASE ss[i] = old
    <3>1. c[i] \in 1 .. Len(s) /\ c[i] + Len(old) = c[i + 1] /\ c[i + 1] <= Len(s) + 1
      BY <1>1, <1>3, <1>10, <2>1
    <3>2. FoundAt(s, old, c[i])
      <4>1. Begins(s, old, c[i])
        BY <1>10, <2>1, <3>1 DEF Begins
      <4> QED
        BY <1>1, <1>3, <3>1, <4>1, FoundIs
    <3>3. head[c[i]] = new /\ next[c[i]] = c[i + 1]
      BY <1>5, <3>1, <3>2 DEF PutAt, AfterPut
    <3> QED
      BY <1>5a, <1>9, <2>1, <3>1, <3>3
  <2>2. CASE ss[i] # old
    <3>1. ASSUME NEW p \in c[i] .. (c[i + 1] - 1) PROVE f[p] = <<s[p]>> \o f[p + 1]
      <4>1. ~FoundAt(s, old, p)
        BY <1>1, <1>2, <2>2, <3>1, NotFound DEF old
      <4>2. p \in 1 .. Len(s)
        <5>1. c[i] \in Nat /\ c[i + 1] \in Nat /\ 1 <= c[i] /\ c[i + 1] <= Len(s) + 1
          BY <1>1, <1>10
        <5> QED
          BY <1>1, <5>1, Between
      <4>3. head[p] = <<s[p]>> /\ next[p] = p + 1
        BY <1>5, <4>1, <4>2 DEF PutAt, AfterPut
      <4> QED
        BY <1>9, <4>2, <4>3
    <3>2. CopiedFrom(s, f, c[i], c[i + 1])
      <4> DEFINE a == c[i]
                 b == c[i + 1]
      <4>1. a \in 1 .. (Len(s) + 1) /\ b \in a .. (Len(s) + 1) /\ \A p \in a .. (b - 1) : f[p] = <<s[p]>> \o f[p + 1]
        BY <1>10, <3>1
      <4> HIDE DEF a, b
      <4>2. CopiedFrom(s, f, a, b)
        BY <1>1, <1>8, <4>1, Copied
      <4> QED
        BY <4>2 DEF a, b
    <3>3. SubSeq(s, c[i], c[i + 1] - 1) = ss[i]
      BY <1>1, <1>2, LaidPart
    <3> QED
      BY <1>5a, <2>2, <3>2, <3>3 DEF CopiedFrom
  <2> QED
    BY <2>1, <2>2
<1> DEFINE T == {k \in Nat : k <= m => Through(X, f, c, k)}
<1>12. \A i \in 1 .. m : X[i] \in Seq(Char)
  BY <1>5a, <1>5c
<1>13. 0 \in T
  <2>1. c[0 + 1] = 1 /\ f[1] \in Seq(Char)
    BY <1>1, <1>2, <1>8 DEF Laid
  <2>2. <<>> \o f[1] = f[1]
    BY <2>1, ConcatEmptySeq
  <2> QED
    BY <2>1, <2>2, MadeNone DEF Through
<1>14. ASSUME NEW k \in Nat, k \in T PROVE k + 1 \in T
  <2>1. ASSUME k + 1 <= m PROVE Through(X, f, c, k + 1)
    <3>1. k + 1 \in 1 .. m /\ k <= m /\ \A i \in 1 .. (k + 1) : i \in 1 .. m
      BY <1>1, <2>1
    <3>2. MadeGrows(X, k)
      BY <1>12, <3>1, MadeOneMore
    <3>3. f[c[k + 1]] = X[k + 1] \o f[c[(k + 1) + 1]]
      BY <1>11, <3>1
    <3>4. Made(X, k) \o f[c[k + 1]] = f[1]
      BY <1>14, <3>1 DEF Through
    <3>5. Regroups(Made(X, k), X[k + 1], f[c[(k + 1) + 1]])
      <4>1. Made(X, k) \in Seq(Char)
        <5>1. \A i \in 1 .. k : X[i] \in Seq(Char)
          BY <1>12, <3>1
        <5> QED
          BY <5>1, MadeTyped
      <4>2. X[k + 1] \in Seq(Char) /\ f[c[(k + 1) + 1]] \in Seq(Char)
        BY <1>8, <1>10, <1>12, <3>1
      <4> QED
        BY <4>1, <4>2, Regroup
    <3> QED
      BY <3>2, <3>3, <3>4, <3>5 DEF MadeGrows, Regroups, Through
  <2> QED
    BY <2>1
<1>15. Nat \subseteq T
  <2> HIDE DEF T
  <2> QED
    BY <1>13, <1>14, Counting
<1>16. Made(X, m) \o f[c[m + 1]] = f[1]
  BY <1>1, <1>15 DEF Through
<1>17. c[m + 1] = Len(s) + 1 /\ Made(X, m) \in Seq(Char)
  BY <1>1, <1>2, <1>12, MadeTyped DEF Laid
<1>18. Made(X, m) \o <<>> = Made(X, m)
  BY <1>17, ConcatEmptySeq
<1>19. Made(X, m) = FlattenSeq(X)
  BY <1>5b DEF Made, Firsts
<1> QED
  BY <1>9, <1>16, <1>17, <1>18, <1>19 DEF s, old, X

-----------------------------------------------------------------------------
(* Every found value put in its place.                                      *)

\* What is found in a text without braces for the items of a template.
Located(re, vars_) ==
  /\ re \in Seq(Items)
  /\ DOMAIN vars_ = {re[i].name : i \in Captured(re)}
  /\ \A i \in 1 .. Len(re) :
       /\ IsCapture(re[i]) => re[i].name \in Seq(Bare)
       /\ ~IsCapture(re[i]) => re[i].char # "{"
  /\ \A n \in DOMAIN vars_ : vars_[n] \in Seq(Char) /\ PlainPiece(vars_[n])
Filled(re, vars_, D) ==
  [i \in 1 .. Len(re) |-> IF IsCapture(re[i]) /\ re[i].name \in D THEN vars_[re[i].name] ELSE Raw(re[i])]
FilledText(re, vars_, D) == FlattenSeq(Filled(re, vars_, D))

LEMMA BareTyped ==
  ASSUME NEW n \in Seq(Bare)
  PROVE  n \in Seq(Char)
<1>1. Bare \subseteq Char
  BY DEF Bare
<1> QED
  BY <1>1, SeqMonotonic

\* Two placeholders of one text have one name.
LEMMA BracketedApart ==
  ASSUME NEW m \in Seq(Bare), NEW n \in Seq(Bare), Bracketed(m) = Bracketed(n)
  PROVE  m = n
<1>1. m \in Seq(Char) /\ n \in Seq(Char)
  BY BareTyped
<1>2. <<"{">> \in Seq(Char) /\ <<"}">> \in Seq(Char)
  BY OneTyped DEF Char, Code
<1>3. <<"{">> \o m \in Seq(Char) /\ <<"{">> \o n \in Seq(Char)
  BY <1>1, <1>2, ConcatProperties
<1>4. \A s, u, v \in Seq(Char) : s \o u = v \o u => s = v
  BY ConcatSimplifications
<1>5. \A s, u, v \in Seq(Char) : s \o u = s \o v => u = v
  BY ConcatSimplifications
<1>6. <<"{">> \o m = <<"{">> \o n
  BY <1>2, <1>3, <1>4 DEF Bracketed
<1> QED
  BY <1>1, <1>2, <1>5, <1>6

\* One with a name is not without braces.
LEMMA BracketedNotPlain ==
  ASSUME NEW n \in Seq(Bare)
  PROVE  ~PlainPiece(Bracketed(n))
<1>1. BracketShape(Bracketed(n), Len(n))
  BY BracketShaped
<1>2. Len(n) \in Nat /\ Len(Bracketed(n)) = Len(n) + 2
  BY <1>1 DEF BracketShape
<1>3. 1 \in 1 .. Len(Bracketed(n))
  BY <1>2
<1>4. Bracketed(n)[1] = "{"
  BY <1>1 DEF BracketShape
<1> QED
  BY <1>3, <1>4 DEF PlainPiece

PieceShape(re, vars_, D, i) ==
  LET x == re[i]
      p == Filled(re, vars_, D)[i] IN
  /\ p \in Seq(Char)
  /\ IsCapture(x) => x.name \in DOMAIN vars_ /\ x.name \in Seq(Bare)
  /\ IsCapture(x) /\ x.name \in D => p = vars_[x.name] /\ PlainPiece(p)
  /\ IsCapture(x) /\ x.name \notin D => p = Bracketed(x.name)
  /\ ~IsCapture(x) => PlainPiece(p)

LEMMA FilledIs ==
  ASSUME NEW re, NEW vars_, Located(re, vars_), NEW D, D \subseteq DOMAIN vars_, NEW i \in 1 .. Len(re)
  PROVE  PieceShape(re, vars_, D, i)
<1> DEFINE x == re[i]
           p == Filled(re, vars_, D)[i]
<1>1. x \in Items /\ Raw(x) \in Seq(Char) /\ DOMAIN re = 1 .. Len(re)
  BY ElementOfSeq, LenProperties, RawTyped DEF Located
<1>2. p = IF IsCapture(x) /\ x.name \in D THEN vars_[x.name] ELSE Raw(x)
  BY DEF Filled
<1>3. IsCapture(x) => x.name \in DOMAIN vars_ /\ x.name \in Seq(Bare)
  BY <1>1 DEF Located, Captured
<1>4. IsCapture(x) /\ x.name \in D => p = vars_[x.name] /\ PlainPiece(p) /\ p \in Seq(Char)
  BY <1>2 DEF Located
<1>5. IsCapture(x) /\ x.name \notin D => p = Bracketed(x.name) /\ p \in Seq(Char)
  BY <1>1, <1>2 DEF Raw
<1>6. ASSUME ~IsCapture(x) PROVE PlainPiece(p) /\ p \in Seq(Char)
  <2>1. p = <<x.char>> /\ p \in Seq(Char)
    BY <1>1, <1>2, <1>6 DEF Raw
  <2>2. x.char # "{"
    BY <1>6 DEF Located
  <2>3. PICK c : c = x.char
    OBVIOUS
  <2>4. Len(<<c>>) = 1 /\ <<c>>[1] = c
    OBVIOUS
  <2>5. \A k \in 1 .. Len(p) : p[k] = c
    BY <2>1, <2>3, <2>4
  <2> QED
    BY <2>1, <2>2, <2>3, <2>5 DEF PlainPiece
<1>7. p \in Seq(Char)
  BY <1>4, <1>5, <1>6
<1>8. ~IsCapture(x) => PlainPiece(p)
  BY <1>6
<1> HIDE DEF p, x
<1>9. /\ IsCapture(x) => x.name \in DOMAIN vars_ /\ x.name \in Seq(Bare)
      /\ IsCapture(x) /\ x.name \in D => p = vars_[x.name] /\ PlainPiece(p)
      /\ IsCapture(x) /\ x.name \notin D => p = Bracketed(x.name)
  BY <1>3, <1>4, <1>5
<1> QED
  BY <1>7, <1>8, <1>9 DEF p, x, PieceShape

\* proxy.go:346: one variable more.
LEMMA OneFilled ==
  ASSUME NEW re, NEW vars_, Located(re, vars_), NEW D, D \subseteq DOMAIN vars_, NEW n \in DOMAIN vars_
  PROVE  Substitute(FilledText(re, vars_, D), Bracketed(n), vars_[n]) = FilledText(re, vars_, D \cup {n})
<1> DEFINE ss == Filled(re, vars_, D)
           tt == Filled(re, vars_, D \cup {n})
           m == Len(re)
<1>1. m \in Nat /\ DOMAIN re = 1 .. m
  BY LenProperties DEF Located
<1>2. n \in Seq(Bare) /\ vars_[n] \in Seq(Char) /\ PlainPiece(vars_[n]) /\ D \cup {n} \subseteq DOMAIN vars_
  <2>1. PICK j \in 1 .. m : IsCapture(re[j]) /\ n = re[j].name
    BY <1>1 DEF Located, Captured
  <2>2. n \in Seq(Bare)
    BY <2>1 DEF Located
  <2> QED
    BY <2>2 DEF Located
<1>3. \A i \in 1 .. m : ss[i] \in Seq(Char) /\ tt[i] \in Seq(Char)
  BY <1>2, FilledIs DEF PieceShape
<1>4. ss \in Seq(Seq(Char)) /\ Len(ss) = m
  <2>1. PICK R : R = Seq(Char)
    OBVIOUS
  <2>2. ss = [i \in 1 .. m |-> ss[i]]
    BY DEF Filled
  <2> HIDE DEF ss
  <2>3. \A i \in 1 .. m : ss[i] \in R
    BY <1>3, <2>1
  <2>4. [i \in 1 .. m |-> ss[i]] \in Seq(R) /\ Len([i \in 1 .. m |-> ss[i]]) = m
    BY <1>1, <2>3
  <2> QED
    BY <2>1, <2>2, <2>4
<1>5. ASSUME NEW i \in 1 .. m PROVE PieceOf(ss[i]) /\ tt[i] = IF ss[i] = Bracketed(n) THEN vars_[n] ELSE ss[i]
  <2> DEFINE x == re[i]
  <2>1. ss[i] \in Seq(Char) /\ ~PlainPiece(Bracketed(n))
    BY <1>2, <1>3, BracketedNotPlain
  <2>2. CASE ~IsCapture(x)
    <3>1. PlainPiece(ss[i])
      BY <2>2, FilledIs DEF PieceShape
    <3>2. tt[i] = ss[i]
      BY <2>2 DEF Filled
    <3> QED
      BY <2>1, <3>1, <3>2 DEF PieceOf
  <2>3. CASE IsCapture(x) /\ x.name \in D
    <3>1. PlainPiece(ss[i]) /\ ss[i] = vars_[x.name]
      BY <2>3, FilledIs DEF PieceShape
    <3>2. tt[i] = vars_[x.name]
      BY <1>2, <2>3, FilledIs DEF PieceShape
    <3> QED
      BY <2>1, <3>1, <3>2 DEF PieceOf
  <2>4. CASE IsCapture(x) /\ x.name \notin D
    <3>0. PieceShape(re, vars_, D, i)
      BY FilledIs
    <3>1. ss[i] = Bracketed(x.name) /\ x.name \in Seq(Bare)
      BY <2>4, <3>0 DEF PieceShape
    <3>2. PieceOf(ss[i])
      BY <2>1, <3>1 DEF PieceOf, Placeholder
    <3>3. CASE x.name = n
      <4>1. tt[i] = vars_[n]
        BY <1>2, <2>4, <3>3, FilledIs DEF PieceShape
      <4> QED
        BY <3>1, <3>2, <3>3, <4>1
    <3>4. CASE x.name # n
      <4>1. ss[i] # Bracketed(n)
        BY <1>2, <3>1, <3>4, BracketedApart
      <4>2. tt[i] = Bracketed(x.name)
        BY <1>2, <2>4, <3>4, FilledIs DEF PieceShape
      <4> QED
        BY <3>1, <3>2, <4>1, <4>2
    <3> QED
      BY <3>3, <3>4
  <2> QED
    BY <2>2, <2>3, <2>4
<1>6. tt = Replaced(ss, Bracketed(n), vars_[n])
  <2>1. tt = [i \in 1 .. m |-> tt[i]]
    BY DEF Filled
  <2> HIDE DEF tt, ss
  <2>2. Replaced(ss, Bracketed(n), vars_[n]) = [i \in 1 .. m |-> IF ss[i] = Bracketed(n) THEN vars_[n] ELSE ss[i]]
    BY <1>4 DEF Replaced
  <2> QED
    BY <1>5, <2>1, <2>2
<1> HIDE DEF ss, tt
<1>7. Substitute(FlattenSeq(ss), Bracketed(n), vars_[n]) = FlattenSeq(Replaced(ss, Bracketed(n), vars_[n]))
  BY <1>2, <1>4, <1>5, Substituted
<1>8. FilledText(re, vars_, D) = FlattenSeq(ss) /\ FilledText(re, vars_, D \cup {n}) = FlattenSeq(tt)
  BY DEF FilledText, ss, tt
<1> QED
  BY <1>6, <1>7, <1>8

\* The server's match has the items at the places of one way to fit.
MatchedVars(re, uri, at) ==
  LET last(n) == Max({i \in Captured(re) : re[i].name = n})
  IN [n \in {re[i].name : i \in Captured(re)} |-> SubSeq(uri, at[last(n)], at[last(n) + 1] - 1)]

LEMMA MatchIs ==
  ASSUME NEW tmpl \in Seq(Char), NEW uri \in Seq(Char), match(tmpl, uri).matched
  PROVE  LET re == compileURITemplate(tmpl)
             at == Best(re, uri, FALSE)
         IN /\ re \in Seq(Items) /\ Placement(re, uri, at)
            /\ match(tmpl, uri).vars = MatchedVars(re, uri, at)
<1> DEFINE re == compileURITemplate(tmpl)
           at == Best(re, uri, FALSE)
<1>1. re \in Seq(Items)
  BY Compiled
<1>2. Len(re) \in Nat /\ DOMAIN re = 1 .. Len(re) /\ Len(uri) \in Nat
  BY <1>1, LenProperties
<1> HIDE DEF re
<1>3. match(tmpl, uri) = Match(re, uri, FALSE)
  BY DEF match, re
<1>4. Fits(re, uri) # {}
  BY <1>3 DEF Match, NoMatch
<1>5. at \in Fits(re, uri)
  BY <1>2, <1>4, BestFits
<1>6. Placement(re, uri, at)
  BY <1>2, <1>5, FitsPlaced
<1>7. match(tmpl, uri).vars = MatchedVars(re, uri, at)
  BY <1>3, <1>4 DEF Match, MatchedVars
<1> QED
  BY <1>1, <1>6, <1>7 DEF re

LEMMA PlacedDivides ==
  ASSUME NEW re, Len(re) \in Nat, NEW s, Len(s) \in Nat, NEW at, Placement(re, s, at)
  PROVE  Divides(s, at, Len(re))
<1> DEFINE m == Len(re)
<1>1. \A i \in 1 .. m : at[i] \in Nat /\ at[i + 1] \in Nat /\ at[i] < at[i + 1] /\ i + 1 \in 1 .. (m + 1)
  BY Steps
<1>2. at[1] = 1 /\ at[m + 1] = Len(s) + 1 /\ \A i \in 1 .. (m + 1) : at[i] \in Nat
  BY DEF Placement
<1>3. \A i \in 1 .. (m + 1) : at[1] <= at[i] /\ at[i] <= at[m + 1]
  <2> SUFFICES ASSUME NEW i \in 1 .. (m + 1) PROVE at[1] <= at[i] /\ at[i] <= at[m + 1]
    OBVIOUS
  <2>1. 1 \in 1 .. (m + 1) /\ m + 1 \in 1 .. (m + 1) /\ (1 = i \/ 1 < i) /\ (i = m + 1 \/ i < m + 1)
    OBVIOUS
  <2>2. at[1] = at[i] \/ at[1] < at[i]
    BY <2>1, Rising
  <2>3. at[i] = at[m + 1] \/ at[i] < at[m + 1]
    BY <2>1, Rising
  <2>4. at[1] \in Nat /\ at[i] \in Nat /\ at[m + 1] \in Nat
    BY <1>2, <2>1
  <2> QED
    BY <2>2, <2>3, <2>4
<1> QED
  BY <1>1, <1>2, <1>3 DEF Divides

LEMMA BareName ==
  ASSUME NEW n \in Seq(Inner), "{" \notin ToSet(n)
  PROVE  n \in Seq(Bare)
<1>1. Len(n) \in Nat /\ DOMAIN n = 1 .. Len(n) /\ n \in [1 .. Len(n) -> Inner]
  BY LenProperties
<1>2. \A k \in 1 .. Len(n) : n[k] \in Inner /\ n[k] # "{"
  BY <1>1, ElementOfSeq DEF ToSet
<1>3. \A k \in 1 .. Len(n) : n[k] \in Bare
  BY <1>2 DEF Inner, Bare
<1>4. n \in [1 .. Len(n) -> Bare]
  BY <1>1, <1>3
<1>5. Seq(Bare) = UNION {[1 .. k -> Bare] : k \in Nat}
  BY SeqDef
<1>6. [1 .. Len(n) -> Bare] \in {[1 .. k -> Bare] : k \in Nat}
  BY <1>1
<1> QED
  BY <1>4, <1>5, <1>6

\* What the items of a template without repeated names have matched makes the URI.
LEMMA MatchedLocated ==
  ASSUME NEW tmpl \in Seq(Char), NEW uri \in Seq(Char), match(tmpl, uri).matched, Restorable(tmpl, uri)
  PROVE  LET re == compileURITemplate(tmpl)
             found == match(tmpl, uri).vars
         IN Located(re, found) /\ FilledText(re, found, DOMAIN found) = uri
<1> DEFINE re == compileURITemplate(tmpl)
           at == Best(re, uri, FALSE)
           m == Len(re)
           found == match(tmpl, uri).vars
<1>1. re \in Seq(Items) /\ Placement(re, uri, at) /\ found = MatchedVars(re, uri, at)
  BY MatchIs
<1>2. /\ \A i, j \in Captured(re) : re[i].name = re[j].name => i = j
      /\ \A i \in Captured(re) : "{" \notin ToSet(re[i].name)
      /\ ToSet(uri) \cap {"{", "}"} = {}
  BY DEF Restorable
<1>3. m \in Nat /\ DOMAIN re = 1 .. m /\ Len(uri) \in Nat /\ DOMAIN uri = 1 .. Len(uri)
  BY <1>1, LenProperties
<1>3a. \A p \in 1 .. Len(uri) : uri[p] # "{"
  BY <1>2, <1>3 DEF ToSet
<1> HIDE DEF re, at, m, found
<1>4. \A i \in 1 .. m : at[i] \in Nat /\ at[i + 1] \in Nat /\ at[i] < at[i + 1] /\ i + 1 \in 1 .. (m + 1)
  BY <1>1, <1>3, Steps DEF m
<1>5. Divides(uri, at, m)
  BY <1>1, <1>3, PlacedDivides DEF m
<1>6. ASSUME NEW i \in 1 .. m
      PROVE  at[i] \in 1 .. Len(uri) /\ at[i + 1] - 1 \in at[i] .. Len(uri)
  <2>1. i \in 1 .. (m + 1) /\ i + 1 \in 1 .. (m + 1)
    BY <1>3, <1>4
  <2>2. at[i] \in 1 .. (Len(uri) + 1) /\ at[i + 1] \in 1 .. (Len(uri) + 1) /\ at[i] < at[i + 1]
    BY <1>4, <1>5, <2>1 DEF Divides
  <2> QED
    BY <1>3, <2>2
<1>7. \A i \in Captured(re) : i \in 1 .. m /\ found[re[i].name] = Part(uri, at, i)
  <2>1. ASSUME NEW i \in Captured(re) PROVE found[re[i].name] = Part(uri, at, i)
    <3> DEFINE T == {j \in Captured(re) : re[j].name = re[i].name}
    <3>1. T = {i}
      BY <1>2
    <3>2. Max({i}) = i
      <4>1. {i} \subseteq 1 .. m
        BY <1>3 DEF Captured
      <4>2. {i} # {} /\ m \in Nat
        BY <1>3
      <4>3. Max({i}) \in {i}
        BY <4>1, <4>2, GreatestIs
      <4> QED
        BY <4>3
    <3>3. found[re[i].name] = SubSeq(uri, at[Max(T)], at[Max(T) + 1] - 1)
      BY <1>1 DEF MatchedVars
    <3> HIDE DEF T
    <3> QED
      BY <3>1, <3>2, <3>3 DEF Part
  <2> QED
    BY <1>3, <2>1 DEF Captured
<1>8. DOMAIN found = {re[i].name : i \in Captured(re)}
  BY <1>1 DEF MatchedVars
<1>9. ASSUME NEW i \in 1 .. m
      PROVE  Part(uri, at, i) \in Seq(Char) /\ PlainPiece(Part(uri, at, i))
  <2> DEFINE a == at[i]
             b == at[i + 1] - 1
             p == SubSeq(uri, a, b)
  <2>1. a \in 1 .. Len(uri) /\ b \in a .. Len(uri)
    BY <1>6
  <2> HIDE DEF a, b
  <2>2. p \in Seq(Char) /\ Len(p) = b + 1 - a /\ \A k \in 1 .. (b + 1 - a) : p[k] = uri[a + k - 1]
    <3>1. a \in Nat /\ b \in Nat /\ 1 <= a /\ a <= b + 1 /\ b <= Len(uri)
      BY <1>3, <2>1
    <3> QED
      BY <3>1, SubSeqIs
  <2>3. \A k \in 1 .. (b + 1 - a) : a + k - 1 \in 1 .. Len(uri)
    BY <1>3, <2>1
  <2> HIDE DEF p
  <2>4. \A k \in 1 .. Len(p) : p[k] # "{"
    BY <1>3a, <2>2, <2>3
  <2> QED
    BY <2>2, <2>4 DEF p, a, b, PlainPiece, Part
<1>10. ASSUME NEW i \in 1 .. m, ~IsCapture(re[i])
       PROVE  re[i].char # "{" /\ Part(uri, at, i) = <<re[i].char>>
  <2>1. at[i + 1] = at[i] + 1 /\ uri[at[i]] = re[i].char
    BY <1>1, <1>10 DEF Placement, m
  <2>2. at[i] \in 1 .. Len(uri) /\ at[i] \in at[i] .. Len(uri) /\ at[i + 1] - 1 = at[i] /\ at[i] < at[i] + 1
        /\ at[i] + 1 \in Int /\ at[i] \in Int
    BY <1>3, <1>6, <2>1
  <2>3. re[i].char # "{"
    BY <1>3a, <2>1, <2>2
  <2>4. SubSeq(uri, at[i], at[i]) = <<uri[at[i]]>> \o SubSeq(uri, at[i] + 1, at[i])
    BY <2>2, SubSeqRecursiveFirst
  <2>5. SubSeq(uri, at[i] + 1, at[i]) = <<>>
    BY <2>2, SubSeqEmpty
  <2>6. uri[at[i]] \in Char
    BY <2>2, ElementOfSeq
  <2>7. <<uri[at[i]]>> \o <<>> = <<uri[at[i]]>>
    BY <2>6, OneTyped, ConcatEmptySeq
  <2> QED
    BY <2>1, <2>2, <2>3, <2>4, <2>5, <2>7 DEF Part
<1>11. ASSUME NEW i \in 1 .. m, IsCapture(re[i]) PROVE re[i].name \in Seq(Bare)
  <2>1. i \in Captured(re) /\ re[i] \in Items
    BY <1>1, <1>3, <1>11, ElementOfSeq DEF Captured, m
  <2>2. re[i].name \in Seq(Inner)
    BY <1>11, <2>1, ItemKinds
  <2> QED
    BY <1>2, <2>1, <2>2, BareName
<1>12. Located(re, found)
  <2>1. \A n \in DOMAIN found : found[n] \in Seq(Char) /\ PlainPiece(found[n])
    BY <1>7, <1>8, <1>9
  <2> QED
    BY <1>1, <1>8, <1>10, <1>11, <2>1 DEF Located, m
<1>13. FilledText(re, found, DOMAIN found) = uri
  <2>1. ASSUME NEW i \in 1 .. m
        PROVE  (IF IsCapture(re[i]) /\ re[i].name \in DOMAIN found THEN found[re[i].name] ELSE Raw(re[i]))
               = Part(uri, at, i)
    <3>1. CASE IsCapture(re[i])
      <4>1. i \in Captured(re)
        BY <1>3, <3>1 DEF Captured
      <4> QED
        BY <1>7, <1>8, <3>1, <4>1
    <3>2. CASE ~IsCapture(re[i])
      BY <1>10, <3>2 DEF Raw
    <3> QED
      BY <3>1, <3>2
  <2>2. Filled(re, found, DOMAIN found) = Parts(uri, at, m)
    BY <2>1 DEF Filled, Parts, m
  <2>3. FlattenSeq(Parts(uri, at, m)) = uri
    BY <1>3, <1>5, PartsMake
  <2> QED
    BY <2>2, <2>3 DEF FilledText
<1> QED
  BY <1>12, <1>13 DEF re, found

-----------------------------------------------------------------------------
(* Expanding what was matched, in any order of the variables.               *)

\* proxy.go:342: the template after every variable of an order.
InOrder(tmpl, found, order, g) ==
  g = [n \in 0 .. Len(order) |->
        IF n = 0 THEN tmpl ELSE Substitute(g[n - 1], Bracketed(order[n]), found[order[n]])]
OneExpansion(tmpl, found, order) == (CHOOSE g : InOrder(tmpl, found, order, g))[Len(order)]

LEMMA ExpansionsAre ==
  ASSUME NEW tmpl, NEW found
  PROVE  expandTemplate(tmpl, found) = {OneExpansion(tmpl, found, order) : order \in SetToSeqs(DOMAIN found)}
BY DEF expandTemplate, OneExpansion, InOrder, Bracketed

\* An order has every member of a finite set.
LEMMA OrderHasAll ==
  ASSUME NEW D, IsFiniteSet(D), NEW order \in SetToSeqs(D)
  PROVE  /\ Len(order) \in Nat
         /\ \A j \in 1 .. Len(order) : order[j] \in D
         /\ {order[j] : j \in 1 .. Len(order)} = D
<1> DEFINE c == Cardinality(D)
<1>1. c \in Nat
  BY FS_CardinalityType
<1>2. IsFiniteSet(1 .. c) /\ Cardinality(1 .. c) = c
  BY <1>1, FS_Interval
<1>3. order \in [1 .. c -> D] /\ \A i, j \in 1 .. c : i # j => order[i] # order[j]
  BY DEF SetToSeqs
<1>4. order \in Injection(1 .. c, D)
  BY <1>3 DEF Injection, IsInjective
<1>5. order \in Surjection(1 .. c, D)
  BY <1>2, <1>4, FS_Injection
<1>6. \A n \in D : \E j \in 1 .. c : order[j] = n
  BY <1>5 DEF Surjection
<1>7. Len(order) = c
  BY <1>1, <1>3
<1> QED
  BY <1>1, <1>3, <1>6, <1>7

LEMMA NamesFinite ==
  ASSUME NEW re \in Seq(Items)
  PROVE  IsFiniteSet({re[i].name : i \in Captured(re)})
<1> DEFINE D == {re[i].name : i \in Captured(re)}
           f == [i \in Captured(re) |-> re[i].name]
<1>1. Len(re) \in Nat /\ DOMAIN re = 1 .. Len(re)
  BY LenProperties
<1>2. IsFiniteSet(1 .. Len(re))
  BY <1>1, FS_Interval
<1>3. Captured(re) \in SUBSET (1 .. Len(re))
  BY <1>1 DEF Captured
<1>4. IsFiniteSet(Captured(re))
  BY <1>2, <1>3, FS_Subset
<1>5. f \in Surjection(Captured(re), D)
  BY DEF Surjection
<1> HIDE DEF f, D
<1>6. IsFiniteSet(D)
  BY <1>4, <1>5, FS_Surjection
<1> QED
  BY <1>6 DEF D

\* With no variable it is the template.
LEMMA NothingFilled ==
  ASSUME NEW re \in Seq(Items), NEW found
  PROVE  FilledText(re, found, {}) = RawText(re)
<1>1. Len(re) \in Nat /\ DOMAIN re = 1 .. Len(re)
  BY LenProperties
<1>2. \A i \in 1 .. Len(re) : re[i] \in Items /\ RawOf[re[i]] = Raw(re[i])
  BY ElementOfSeq, RawTyped
<1>3. Filled(re, found, {}) = Mapped(RawOf, re)
  BY <1>1, <1>2 DEF Filled, Mapped
<1> QED
  BY <1>3 DEF FilledText, RawText

\* Some order of the variables there always is.
LEMMA OrdersExist ==
  ASSUME NEW S, IsFiniteSet(S)
  PROVE  SetToSeqs(S) # {}
<1> DEFINE n == Cardinality(S)
<1>1. n \in Nat /\ ExistsBijection(1 .. n, S)
  BY FS_CardinalityType
<1>2. PICK f : f \in Bijection(1 .. n, S)
  BY <1>1 DEF ExistsBijection
<1>3. f \in [1 .. n -> S] /\ \A i, j \in 1 .. n : i # j => f[i] # f[j]
  BY <1>2 DEF Bijection, Injection, IsInjective
<1> QED
  BY <1>3 DEF SetToSeqs

\* proxy.go:267: of a URI that its template matches a forwarding handler makes that
\* URI again, in whatever order it comes to the variables.
THEOREM UriRestored ==
  ASSUME NEW tmpl \in Seq(Char), NEW uri \in Seq(Char),
         match(tmpl, uri).matched, Restorable(tmpl, uri)
  PROVE  expandTemplate(tmpl, match(tmpl, uri).vars) = {uri}
<1> DEFINE re == compileURITemplate(tmpl)
           found == match(tmpl, uri).vars
<1>1. Located(re, found) /\ FilledText(re, found, DOMAIN found) = uri
  BY MatchedLocated
<1>2. re \in Seq(Items) /\ RawText(re) = tmpl
  BY Compiled
<1> HIDE DEF re, found
<1>3. IsFiniteSet(DOMAIN found)
  BY <1>1, <1>2, NamesFinite DEF Located
<1>4. ASSUME NEW order \in SetToSeqs(DOMAIN found) PROVE OneExpansion(tmpl, found, order) = uri
  <2> DEFINE c == Len(order)
             Earlier(k) == {order[j] : j \in 1 .. k}
             w == [k \in 0 .. c |-> FilledText(re, found, Earlier(k))]
             g == CHOOSE g : InOrder(tmpl, found, order, g)
  <2>1. c \in Nat /\ (\A j \in 1 .. c : order[j] \in DOMAIN found) /\ Earlier(c) = DOMAIN found
    BY <1>3, OrderHasAll
  <2>2. w[0] = tmpl
    <3>1. Earlier(0) = {} /\ 0 \in 0 .. c
      BY <2>1
    <3> QED
      BY <1>2, <3>1, NothingFilled
  <2>3. ASSUME NEW n \in 1 .. c
        PROVE  w[n] = Substitute(w[n - 1], Bracketed(order[n]), found[order[n]])
    <3>1. n \in 0 .. c /\ n - 1 \in 0 .. c /\ order[n] \in DOMAIN found
      BY <2>1
    <3>2. Earlier(n) = Earlier(n - 1) \cup {order[n]}
      <4>1. \A j \in 1 .. n : j = n \/ j \in 1 .. (n - 1)
        BY <2>1
      <4>2. \A j \in 1 .. (n - 1) : j \in 1 .. n
        BY <2>1
      <4>3. n \in 1 .. n
        BY <2>1
      <4> QED
        BY <4>1, <4>2, <4>3
    <3>3. Earlier(n - 1) \subseteq DOMAIN found
      BY <2>1
    <3> HIDE DEF Earlier
    <3> QED
      BY <1>1, <3>1, <3>2, <3>3, OneFilled
  <2> HIDE DEF Earlier, w
  <2>4. InOrder(tmpl, found, order, w)
    <3>1. w = [k \in 0 .. c |-> w[k]]
      BY DEF w
    <3>2. \A k \in 0 .. c : w[k] = IF k = 0 THEN tmpl ELSE Substitute(w[k - 1], Bracketed(order[k]), found[order[k]])
      <4>1. \A k \in 0 .. c : k # 0 => k \in 1 .. c
        BY <2>1
      <4> QED
        BY <2>2, <2>3, <4>1
    <3> QED
      BY <3>1, <3>2 DEF InOrder
  <2>5. InOrder(tmpl, found, order, g)
    BY <2>4
  <2> HIDE DEF g
  <2>6. \A k \in 0 .. c : g[k] = IF k = 0 THEN tmpl ELSE Substitute(g[k - 1], Bracketed(order[k]), found[order[k]])
    BY <2>5 DEF InOrder
  <2> DEFINE T == {k \in Nat : k <= c => g[k] = w[k]}
  <2>7. 0 \in T
    <3>1. 0 \in 0 .. c
      BY <2>1
    <3> QED
      BY <2>2, <2>6, <3>1
  <2>8. ASSUME NEW k \in Nat, k \in T PROVE k + 1 \in T
    <3>1. ASSUME k + 1 <= c PROVE g[k + 1] = w[k + 1]
      <4>1. k + 1 \in 0 .. c /\ k + 1 # 0 /\ k + 1 \in 1 .. c /\ (k + 1) - 1 = k /\ k <= c
        BY <2>1, <3>1
      <4>2. g[k] = w[k]
        BY <2>8, <4>1
      <4>3. g[k + 1] = Substitute(g[k], Bracketed(order[k + 1]), found[order[k + 1]])
        BY <2>6, <4>1
      <4> QED
        BY <2>3, <4>1, <4>2, <4>3
    <3> QED
      BY <3>1
  <2>9. Nat \subseteq T
    <3> HIDE DEF T
    <3> QED
      BY <2>7, <2>8, Counting
  <2>10. g[c] = w[c]
    BY <2>1, <2>9
  <2>11. w[c] = FilledText(re, found, DOMAIN found)
    BY <2>1 DEF w
  <2> QED
    BY <1>1, <2>10, <2>11 DEF OneExpansion, g
<1>5. SetToSeqs(DOMAIN found) # {}
  BY <1>3, OrdersExist
<1> QED
  BY <1>4, <1>5, ExpansionsAre DEF found

-----------------------------------------------------------------------------
(* Tasks.                                                                   *)

\* A task is taken up once: it is expanded, and what comes out is matched.
ExpansionOf(given) ==
  CASE given.dialect = "fastmcp" -> ExpandURITemplate(given.template, given.vars)
    [] OTHER -> Expand(Parse(given.template), given.vars)
MatchedWith(given, uri) ==
  CASE given.dialect = "fastmcp" -> MatchURITemplate(uri, given.template)
    [] given.dialect = "rfc" -> MatchTemplate(Parse(given.template), uri)
    [] OTHER -> parseQueryKeepBlank(Tail(uri))
ExpandedThenMatched ==
  /\ task.kind = "uri" /\ t \in UriTasks
  /\ \/ answers = <<>>
     \/ answers = <<ExpansionOf(t)>>
     \/ answers = <<ExpansionOf(t), MatchedWith(t, ExpansionOf(t))>>

WhatWasPutIn(given, found) ==
  CASE given.dialect = "rfc" ->
         RfcInvertible(Parse(given.template), given.vars) =>
           found = [matched |-> TRUE, vars |-> [n \in DOMAIN given.vars |-> given.vars[n].items[1]]]
    [] given.dialect = "fastmcp" ->
         FastInvertible(given.template, given.vars) => found = [matched |-> TRUE, vars |-> given.vars]
    [] OTHER -> found = QueryOf(given.vars)

LEMMA ComesBack ==
  ASSUME NEW given, WellFormedUri(given)
  PROVE  WhatWasPutIn(given, MatchedWith(given, ExpansionOf(given)))
<1> DEFINE tmpl == given.template
           vv == given.vars
           found == MatchedWith(given, ExpansionOf(given))
<1>1. tmpl \in Seq(Char) /\ given.dialect \in {"rfc", "fastmcp", "query"}
  BY DEF WellFormedUri
<1>2. "rfc" # "fastmcp" /\ "rfc" # "query" /\ "fastmcp" # "query"
  OBVIOUS
<1>3. CASE given.dialect = "rfc"
  <2>1. found = MatchTemplate(Parse(tmpl), Expand(Parse(tmpl), vv))
    BY <1>2, <1>3 DEF MatchedWith, ExpansionOf
  <2>2. ASSUME RfcInvertible(Parse(tmpl), vv)
        PROVE  found = [matched |-> TRUE, vars |-> [n \in DOMAIN vv |-> vv[n].items[1]]]
    <3>1. \A n \in DOMAIN vv : vv[n] \in Value /\ (vv[n].kind = "string" => Len(vv[n].items) = 1)
      BY <1>2, <1>3 DEF WellFormedUri
    <3> HIDE DEF found, tmpl, vv
    <3> QED
      BY <1>1, <2>1, <2>2, <3>1, RfcCase
  <2> QED
    BY <1>3, <2>2 DEF WhatWasPutIn
<1>4. CASE given.dialect = "fastmcp"
  <2>1. found = MatchURITemplate(ExpandURITemplate(tmpl, vv), tmpl)
    BY <1>2, <1>4 DEF MatchedWith, ExpansionOf
  <2>2. ASSUME FastInvertible(tmpl, vv)
        PROVE  found = [matched |-> TRUE, vars |-> vv]
    <3>1. vv \in [DOMAIN vv -> Seq(Char)]
      BY <1>4 DEF WellFormedUri
    <3> HIDE DEF found, tmpl, vv
    <3> QED
      BY <1>1, <2>1, <2>2, <3>1, FastCase
  <2> QED
    BY <1>2, <1>4, <2>2 DEF WhatWasPutIn
<1>5. CASE given.dialect = "query"
  <2>1. found = parseQueryKeepBlank(Tail(Expand(Parse(tmpl), vv)))
    BY <1>2, <1>5 DEF MatchedWith, ExpansionOf
  <2>2. found = QueryOf(vv)
    BY <1>5, <2>1, QueryCase
  <2> QED
    BY <1>2, <1>5, <2>2 DEF WhatWasPutIn
<1> QED
  BY <1>1, <1>3, <1>4, <1>5

LEMMA AppendOne ==
  ASSUME NEW x, NEW y
  PROVE  Append(<<x>>, y) = <<x, y>>
<1> DEFINE S == {x, y}
           p == <<x>>
           q == Append(p, y)
           r == <<x, y>>
<1>1. x \in S /\ y \in S
  OBVIOUS
<1> HIDE DEF S
<1>2. p \in Seq(S) /\ Len(p) = 1 /\ p[1] = x
  BY <1>1, OneTyped
<1>3. r \in Seq(S) /\ Len(r) = 2 /\ r[1] = x /\ r[2] = y
  BY <1>1, TwoTyped
<1> HIDE DEF p, r
<1>4. q \in Seq(S) /\ Len(q) = 2 /\ q[1] = x /\ q[2] = y
  <2>1. /\ q \in Seq(S) /\ Len(q) = Len(p) + 1 /\ q[Len(p) + 1] = y
        /\ \A i \in 1 .. Len(p) : q[i] = p[i]
    <3>1. p \in Seq(S) /\ y \in S
      BY <1>1, <1>2
    <3>2. q \in Seq(S) /\ Len(q) = Len(p) + 1
      BY <3>1, AppendProperties
    <3>3. q[Len(p) + 1] = y
      BY <3>1, AppendProperties
    <3>4. \A i \in 1 .. Len(p) : q[i] = p[i]
      BY <3>1, AppendProperties
    <3> QED
      BY <3>2, <3>3, <3>4
  <2> HIDE DEF q
  <2>2. Len(p) + 1 = 2 /\ 1 \in 1 .. Len(p)
    BY <1>2
  <2> QED
    BY <1>2, <2>1, <2>2
<1> HIDE DEF q
<1>5. \A i \in 1 .. 2 : i = 1 \/ i = 2
  OBVIOUS
<1>6. \A i \in 1 .. Len(q) : q[i] = r[i]
  BY <1>3, <1>4, <1>5
<1>7. q = r
  BY <1>3, <1>4, <1>6, SeqEqual
<1> QED
  BY <1>7 DEF p, q, r

\* uritemplate.go:215, 543, fastmcp.go:154, 201, 293: of any template that can be
\* inverted, and of any values, what was put into a URI is what is found in it.
THEOREM WhatIsExpandedIsFound == UriSpec => []UriRoundTrip
<1>1. UriInit => ExpandedThenMatched
  BY DEF UriInit, ExpandedThenMatched, t
<1>2. ExpandedThenMatched /\ [UriNext]_taskVars => ExpandedThenMatched'
  <2> SUFFICES ASSUME ExpandedThenMatched, [UriNext]_taskVars
               PROVE  ExpandedThenMatched'
    OBVIOUS
  <2>0. /\ task.kind = "uri" /\ t \in UriTasks
        /\ \/ answers = <<>>
           \/ answers = <<ExpansionOf(t)>>
           \/ answers = <<ExpansionOf(t), MatchedWith(t, ExpansionOf(t))>>
    BY DEF ExpandedThenMatched
  <2>1. CASE ExpandUri
    <3>1. UNCHANGED task /\ Len(answers) = 0 /\ answers' = Append(answers, ExpansionOf(t))
      BY <2>1 DEF ExpandUri, NextCall, ExpansionOf
    <3>2. PICK x : x = ExpansionOf(t)
      OBVIOUS
    <3>3. answers = <<>>
      BY <2>0, <3>1
    <3>4. answers' = <<x>>
      BY <3>1, <3>2, <3>3
    <3>5. t' = t
      BY <3>1 DEF t
    <3> QED
      BY <2>0, <3>1, <3>2, <3>4, <3>5 DEF ExpandedThenMatched, ExpansionOf, MatchedWith
  <2>2. CASE MatchUri
    <3>1. UNCHANGED task /\ Len(answers) = 1 /\ answers' = Append(answers, MatchedWith(t, answers[1]))
      BY <2>2 DEF MatchUri, NextCall, MatchedWith
    <3>2. answers = <<ExpansionOf(t)>>
      <4>1. PICK a : a = ExpansionOf(t)
        OBVIOUS
      <4>2. PICK b : b = MatchedWith(t, ExpansionOf(t))
        OBVIOUS
      <4>3. answers = <<>> \/ answers = <<a>> \/ answers = <<a, b>>
        BY <2>0, <4>1, <4>2
      <4>4. answers = <<a>>
        BY <3>1, <4>3
      <4> QED
        BY <4>1, <4>4
    <3>3. PICK x : x = ExpansionOf(t)
      OBVIOUS
    <3>4. PICK y : y = MatchedWith(t, x)
      OBVIOUS
    <3>5. answers = <<x>> /\ answers[1] = x
      BY <3>2, <3>3
    <3>6. answers' = <<x, y>>
      <4>1. MatchedWith(t, answers[1]) = y
        BY <3>4, <3>5, Zenon
      <4>2. answers' = Append(answers, y)
        BY <3>1, <4>1
      <4>3. answers' = Append(<<x>>, y)
        BY <3>5, <4>2, Zenon
      <4>4. Append(<<x>>, y) = <<x, y>>
        BY AppendOne
      <4> QED
        BY <4>3, <4>4
    <3>7. t' = t
      BY <3>1 DEF t
    <3> QED
      BY <2>0, <3>1, <3>3, <3>4, <3>6, <3>7 DEF ExpandedThenMatched, ExpansionOf, MatchedWith
  <2>3. CASE UNCHANGED taskVars
    <3>1. task' = task /\ answers' = answers /\ t' = t
      BY <2>3 DEF taskVars, t
    <3> QED
      BY <2>0, <3>1 DEF ExpandedThenMatched, ExpansionOf, MatchedWith
  <2> QED
    BY <2>1, <2>2, <2>3 DEF UriNext
<1>3. ExpandedThenMatched => UriRoundTrip
  <2> SUFFICES ASSUME ExpandedThenMatched, After("uri", 2)
               PROVE  UriRoundTrip
    BY DEF UriRoundTrip
  <2>1. t \in UriTasks /\ WellFormedUri(t)
    BY UriTasksAssumption DEF ExpandedThenMatched
  <2>2. PICK x : x = ExpansionOf(t)
    OBVIOUS
  <2>3. PICK y : y = MatchedWith(t, x)
    OBVIOUS
  <2>4. answers = <<x, y>>
    BY <2>2, <2>3 DEF ExpandedThenMatched, After
  <2>5. answers[2] = MatchedWith(t, ExpansionOf(t))
    BY <2>2, <2>3, <2>4
  <2> QED
    BY <2>1, <2>5, ComesBack DEF WhatWasPutIn, UriRoundTrip
<1> QED
  BY <1>1, <1>2, <1>3, PTL DEF UriSpec

-----------------------------------------------------------------------------
(* Batches.                                                                 *)

\* The loop of handleHTTPBatch over the first n messages.
Loop(methods, messages, n, responses) ==
  responses = [k \in 0 .. n |-> IF k = 0 THEN <<>>
                                ELSE responses[k - 1] \o Dispatch(methods, messages[k])]

\* The loop over any number of messages has a run.
LEMMA LoopRuns ==
  ASSUME NEW methods, NEW messages, NEW n \in Nat
  PROVE  \E responses : Loop(methods, messages, n, responses)
<1> DEFINE Bad == {k \in Nat : ~ \E responses : Loop(methods, messages, k, responses)}
<1>1. ASSUME Bad # {} PROVE FALSE
  <2>1. PICK k \in Bad : \A m \in Bad : k <= m
    BY <1>1, Least
  <2>2. CASE k = 0
    <3> DEFINE none == [j \in 0 .. 0 |-> <<>>]
    <3>1. none = [j \in 0 .. 0 |-> IF j = 0 THEN <<>>
                                   ELSE none[j - 1] \o Dispatch(methods, messages[j])]
      OBVIOUS
    <3> QED
      BY <2>1, <2>2, <3>1 DEF Loop
  <2>3. CASE k # 0
    <3>1. k - 1 \in Nat /\ k - 1 \notin Bad
      BY <2>1, <2>3
    <3>2. PICK before : Loop(methods, messages, k - 1, before)
      BY <3>1
    <3> DEFINE after == [j \in 0 .. k |-> IF j = k THEN before[k - 1] \o Dispatch(methods, messages[k])
                                          ELSE before[j]]
    <3>3. after = [j \in 0 .. k |-> IF j = 0 THEN <<>>
                                    ELSE after[j - 1] \o Dispatch(methods, messages[j])]
      BY <2>1, <2>3, <3>2, SMTT(60) DEF Loop
    <3> QED
      BY <2>1, <3>3 DEF Loop
  <2> QED
    BY <2>2, <2>3
<1> QED
  BY <1>1

\* What the loop holds after each turn.
LEMMA CollectedRuns ==
  ASSUME NEW methods, NEW messages \in Seq(Message)
  PROVE  Loop(methods, messages, Len(messages), Collected(methods, messages))
<1>1. Len(messages) \in Nat
  OBVIOUS
<1>2. \E responses : Loop(methods, messages, Len(messages), responses)
  BY <1>1, LoopRuns
<1> QED
  BY <1>2, Zenon DEF Loop, Collected

Answer == [id : Nat, error : {"none", "method not found"}]

LEMMA DispatchAnswers ==
  ASSUME NEW methods, NEW m \in Message
  PROVE  /\ m.id = NoId => Dispatch(methods, m) = <<>>
         /\ m.id # NoId => \E a \in Answer : a.id = m.id /\ Dispatch(methods, m) = <<a>>
<1>1. m.id = NoId => Dispatch(methods, m) = <<>>
  BY DEF Dispatch
<1>2. ASSUME m.id # NoId PROVE \E a \in Answer : a.id = m.id /\ Dispatch(methods, m) = <<a>>
  <2> DEFINE error == IF m.method \in methods THEN "none" ELSE "method not found"
             a == [id |-> m.id, error |-> error]
  <2>1. a \in Answer /\ a.id = m.id
    <3>1. error \in {"none", "method not found"} /\ m.id \in Nat
      BY DEF Message
    <3> HIDE DEF error
    <3> QED
      BY <3>1 DEF Answer
  <2>2. Dispatch(methods, m) = <<a>>
    BY <1>2 DEF Dispatch
  <2> HIDE DEF a
  <2> QED
    BY <2>1, <2>2
<1> QED
  BY <1>1, <1>2

\* The k-th answer is that of message from[k].
AnswersFrom(body, messages, n, from) ==
  /\ from \in [DOMAIN body -> 1 .. n]
  /\ \A j, k \in DOMAIN body : j < k => from[j] < from[k]
  /\ {from[k] : k \in DOMAIN body} = {i \in 1 .. n : messages[i].id # NoId}
  /\ \A k \in DOMAIN body : body[k].id = messages[from[k]].id

LEMMA OwedAnswers ==
  ASSUME NEW messages, NEW n, NEW body
  PROVE  Owed(body, messages, n) <=> \E from : AnswersFrom(body, messages, n, from)
BY DEF Owed, AnswersFrom

\* One turn: what was owed before is still answered in its order.
LEMMA OwedStep ==
  ASSUME NEW methods, NEW messages \in Seq(Message), NEW n \in 1 .. Len(messages),
         NEW body \in Seq(Answer), Owed(body, messages, n - 1)
  PROVE  /\ body \o Dispatch(methods, messages[n]) \in Seq(Answer)
         /\ Owed(body \o Dispatch(methods, messages[n]), messages, n)
<1> DEFINE asked(m) == {i \in 1 .. m : messages[i].id # NoId}
<1>1. n \in Nat /\ n >= 1 /\ messages[n] \in Message
  OBVIOUS
<1>2. PICK from : AnswersFrom(body, messages, n - 1, from)
  BY OwedAnswers
<1>3. CASE messages[n].id = NoId
  <2>1. body \o Dispatch(methods, messages[n]) = body
    BY <1>1, <1>3, DispatchAnswers
  <2>2. asked(n) = asked(n - 1)
    BY <1>1, <1>3
  <2>3. AnswersFrom(body, messages, n, from)
    BY <1>1, <1>2, <2>2 DEF AnswersFrom
  <2> QED
    BY <2>1, <2>3, OwedAnswers
<1>4. CASE messages[n].id # NoId
  <2>1. PICK a \in Answer : a.id = messages[n].id /\ Dispatch(methods, messages[n]) = <<a>>
    BY <1>1, <1>4, DispatchAnswers
  <2> DEFINE all == body \o <<a>>
             L == Len(body)
             to == [k \in DOMAIN all |-> IF k <= L THEN from[k] ELSE n]
  <2>2. /\ all \in Seq(Answer) /\ L \in Nat /\ DOMAIN body = 1 .. L /\ DOMAIN all = 1 .. (L + 1)
        /\ \A k \in 1 .. L : all[k] = body[k]
        /\ all[L + 1] = a
    BY <2>1
  <2>3. \A k \in 1 .. L : to[k] = from[k] /\ from[k] \in 1 .. (n - 1)
    BY <1>2, <2>2 DEF AnswersFrom
  <2>4. to[L + 1] = n
    BY <2>2
  <2>5. to \in [DOMAIN all -> 1 .. n]
    <3>1. \A k \in DOMAIN all : to[k] \in 1 .. n
      BY <1>1, <2>2, <2>3, <2>4, SMTT(60)
    <3> QED
      BY <3>1
  <2>6. \A j, k \in DOMAIN all : j < k => to[j] < to[k]
    BY <1>1, <1>2, <2>2, <2>3, <2>4 DEF AnswersFrom
  <2>7. {to[k] : k \in DOMAIN all} = asked(n)
    <3>1. asked(n) = asked(n - 1) \cup {n}
      BY <1>1, <1>4
    <3>2. asked(n - 1) = {from[k] : k \in 1 .. L}
      BY <1>2, <2>2 DEF AnswersFrom
    <3> HIDE DEF to
    <3>3. {to[k] : k \in 1 .. (L + 1)} = {to[k] : k \in 1 .. L} \cup {to[L + 1]}
      BY <2>2
    <3>4. {to[k] : k \in 1 .. L} = {from[k] : k \in 1 .. L}
      BY <2>3
    <3> QED
      BY <2>2, <2>4, <3>1, <3>2, <3>3, <3>4
  <2>8. \A k \in DOMAIN all : all[k].id = messages[to[k]].id
    BY <1>2, <2>1, <2>2, <2>3, <2>4 DEF AnswersFrom
  <2> HIDE DEF all, to
  <2>9. AnswersFrom(all, messages, n, to)
    BY <2>5, <2>6, <2>7, <2>8 DEF AnswersFrom
  <2> QED
    BY <2>1, <2>2, <2>9, OwedAnswers DEF all
<1> QED
  BY <1>3, <1>4

\* By least counterexample over the turns of the loop.
LEMMA CollectedOwed ==
  ASSUME NEW methods, NEW messages \in Seq(Message), NEW n \in 0 .. Len(messages)
  PROVE  /\ Collected(methods, messages)[n] \in Seq(Answer)
         /\ Owed(Collected(methods, messages)[n], messages, n)
<1> DEFINE C == Collected(methods, messages)
           Good(k) == C[k] \in Seq(Answer) /\ Owed(C[k], messages, k)
           Bad == {k \in 0 .. Len(messages) : ~Good(k)}
<1>1. C = [k \in 0 .. Len(messages) |-> IF k = 0 THEN <<>>
                                        ELSE C[k - 1] \o Dispatch(methods, messages[k])]
  BY CollectedRuns DEF Loop
<1> HIDE DEF C
<1>2. ASSUME Bad # {} PROVE FALSE
  <2>0. Bad \subseteq Nat
    OBVIOUS
  <2>1. PICK k \in Bad : \A m \in Bad : k <= m
    <3> HIDE DEF Bad
    <3> QED
      BY <1>2, <2>0, Least
  <2>2. CASE k = 0
    <3>1. C[0] = <<>>
      BY <1>1
    <3>2. AnswersFrom(<<>>, messages, 0, <<>>)
      BY DEF AnswersFrom
    <3>3. Good(0)
      BY <3>1, <3>2, OwedAnswers
    <3> QED
      BY <2>1, <2>2, <3>3
  <2>3. CASE k # 0
    <3>1. k \in 1 .. Len(messages) /\ k - 1 \in 0 .. Len(messages) /\ k - 1 \notin Bad
      BY <2>1, <2>3
    <3>2. Good(k - 1)
      BY <3>1
    <3>3. C[k] = C[k - 1] \o Dispatch(methods, messages[k])
      BY <1>1, <3>1
    <3>4. Good(k)
      BY <3>1, <3>2, <3>3, OwedStep
    <3> QED
      BY <2>1, <3>4
  <2> QED
    BY <2>2, <2>3
<1> QED
  BY <1>2 DEF C

LEMMA OwedNothing ==
  ASSUME NEW messages \in Seq(Message), NEW n \in 0 .. Len(messages), NEW body \in Seq(Answer),
         Owed(body, messages, n)
  PROVE  body = <<>> <=> \A i \in 1 .. n : messages[i].id = NoId
<1>1. PICK from : AnswersFrom(body, messages, n, from)
  BY OwedAnswers
<1>2. body = <<>> <=> DOMAIN body = {}
  OBVIOUS
<1> QED
  BY <1>1, <1>2 DEF AnswersFrom

\* http.go:75, handleHTTPBatch: every request of a batch is answered once, in the
\* order of the batch, whatever its length and whichever of its messages are
\* notifications; a batch of notifications has no answers and is accepted.
THEOREM BatchAnsweredInOrder ==
  ASSUME NEW methods, NEW body, body.messages \in Seq(Message)
  PROVE  LET reply == handleHTTPBatch(methods, body)
         IN /\ reply.challenge = <<>>
            /\ Owed(reply.body, body.messages, Len(body.messages))
            /\ reply.status = IF \E i \in DOMAIN body.messages : body.messages[i].id # NoId
                                THEN 200 ELSE 202
<1> DEFINE messages == body.messages
           responses == Collected(methods, messages)[Len(messages)]
<1>1. responses \in Seq(Answer) /\ Owed(responses, messages, Len(messages))
  BY CollectedOwed
<1>2. responses = <<>> <=> \A i \in 1 .. Len(messages) : messages[i].id = NoId
  BY <1>1, OwedNothing
<1>3. handleHTTPBatch(methods, body) = IF responses = <<>> THEN Reply(202, <<>>) ELSE Reply(200, responses)
  BY DEF handleHTTPBatch
<1> HIDE DEF responses
<1> QED
  BY <1>1, <1>2, <1>3 DEF Reply

\* The messages behind the middleware, one alone or a batch.
LEMMA HandlerAnswers ==
  ASSUME WellFormedRequest(t)
  PROVE  Handled(HTTPHandler(t.methods, t.request))
<1> DEFINE body == t.request.body
           messages == body.messages
           reply == HTTPHandler(t.methods, t.request)
<1>1. messages \in Seq(Message)
  BY DEF WellFormedRequest
<1>2. ASSUME t.request.method # "POST" PROVE reply.challenge = <<>>
  BY <1>2 DEF HTTPHandler, Reply
<1>3. ASSUME t.request.method = "POST", body.kind = "malformed" PROVE reply.challenge = <<>>
  BY <1>3 DEF HTTPHandler, handleHTTPPost, ParseError, Reply
<1> DEFINE Right == /\ reply.challenge = <<>>
                    /\ Owed(reply.body, messages, Len(messages))
                    /\ reply.status = IF \E i \in DOMAIN messages : messages[i].id # NoId THEN 200 ELSE 202
<1>4. ASSUME t.request.method = "POST", body.kind = "batch" PROVE Right
  <2>1. reply = handleHTTPBatch(t.methods, body)
    BY <1>4 DEF HTTPHandler, handleHTTPPost
  <2> QED
    BY <1>1, <2>1, BatchAnsweredInOrder
<1>5. ASSUME t.request.method = "POST", body.kind = "one" PROVE Right
  <2>1. Len(messages) = 1 /\ DOMAIN messages = {1} /\ messages[1] \in Message
    BY <1>1, <1>5 DEF WellFormedRequest
  <2> DEFINE response == Dispatch(t.methods, messages[1])
  <2>2. reply = IF response = <<>> THEN Reply(202, <<>>) ELSE Reply(200, response)
    BY <1>5 DEF HTTPHandler, handleHTTPPost
  <2>3. AnswersFrom(<<>>, messages, 0, <<>>)
    BY DEF AnswersFrom
  <2>4. Owed(<<>>, messages, 0)
    BY <2>3, OwedAnswers
  <2>5. <<>> \o response \in Seq(Answer) /\ Owed(<<>> \o response, messages, 1)
    <3>1. <<>> \in Seq(Answer) /\ 1 \in 1 .. Len(messages) /\ 1 - 1 = 0
      BY <2>1
    <3> QED
      BY <1>1, <2>4, <3>1, OwedStep
  <2>6. <<>> \o response = response
    <3>1. CASE messages[1].id = NoId
      BY <2>1, <3>1, DispatchAnswers
    <3>2. CASE messages[1].id # NoId
      <4>1. PICK a \in Answer : response = <<a>>
        BY <2>1, <3>2, DispatchAnswers
      <4> HIDE DEF response
      <4> QED
        BY <4>1
    <3> QED
      BY <3>1, <3>2
  <2>7. response = <<>> <=> messages[1].id = NoId
    BY <2>1, DispatchAnswers
  <2> HIDE DEF response
  <2>8. CASE response = <<>>
    BY <2>1, <2>2, <2>5, <2>6, <2>7, <2>8 DEF Reply
  <2>9. CASE response # <<>>
    BY <2>1, <2>2, <2>5, <2>6, <2>7, <2>9 DEF Reply
  <2> QED
    BY <2>8, <2>9
<1>6. body.kind \in {"malformed", "batch", "one"}
  BY DEF WellFormedRequest
<1> QED
  BY <1>2, <1>3, <1>4, <1>5, <1>6 DEF Handled

-----------------------------------------------------------------------------
(* Keys.                                                                    *)

\* The keys of a set that a token may be checked with: one, or none.
Fitting(jwks, kty, kid) ==
  LET set == {i \in DOMAIN jwks : jwks[i].kty = kty}
      fits == {i \in set : kid = <<>> \/ jwks[i].kid = kid}
  IN IF kid = <<>> /\ \E i, j \in set : i # j THEN {}
     ELSE {jwks[i].key : i \in {j \in fits : \A k \in fits : j <= k}} \ {Unreadable}

\* keyFor gives the first key that fits, and none where that does not decode
\* or where a token without a key id may mean any of several.
LEMMA FirstKey ==
  ASSUME NEW jwks \in Seq(Jwk), NEW kty, NEW kid, NEW key, key # NoKey, key # Unreadable
  PROVE  keyFor(jwks, kty, kid) = key <=> key \in Fitting(jwks, kty, kid)
<1> DEFINE set == {i \in DOMAIN jwks : jwks[i].kty = kty}
           fits == {i \in set : kid = <<>> \/ jwks[i].kid = kid}
           found == {i \in DOMAIN jwks : jwks[i].kty = kty /\ (kid = <<>> \/ jwks[i].kid = kid)}
           first == CHOOSE i \in found : \A j \in found : i <= j
<1>1. found = fits /\ found \subseteq Nat
  OBVIOUS
<1>2. kid = <<>> => fits = set
  OBVIOUS
<1>3. keyFor(jwks, kty, kid) =
        IF found = {} \/ (kid = <<>> /\ found # {first}) \/ jwks[first].key = Unreadable
          THEN NoKey ELSE jwks[first].key
  BY DEF keyFor
<1> HIDE DEF found, fits, set
<1>4. CASE found = {}
  BY <1>1, <1>3, <1>4 DEF fits, set, Fitting
<1>5. CASE found # {}
  <2>1. \E n \in found : \A m \in found : n <= m
    BY <1>1, <1>5, Least
  <2>2. first \in found /\ \A j \in found : first <= j
    BY <2>1
  <2> HIDE DEF first
  <2>3. {j \in fits : \A k \in fits : j <= k} = {first}
    <3>1. ASSUME NEW j \in fits, \A k \in fits : j <= k PROVE j = first
      BY <1>1, <2>2, <3>1
    <3> QED
      BY <1>1, <2>2, <3>1
  <2>4. kid = <<>> => (found # {first} <=> \E i, j \in set : i # j)
    BY <1>1, <1>2, <2>2
  <2>5. (key \in {jwks[i].key : i \in {j \in fits : \A k \in fits : j <= k}} \ {Unreadable})
          <=> key = jwks[first].key
    BY <2>3
  <2>6. keyFor(jwks, kty, kid) = key
          <=> ~(kid = <<>> /\ found # {first}) /\ key = jwks[first].key
    BY <1>3, <1>5
  <2> QED
    BY <2>4, <2>5, <2>6 DEF set, fits, Fitting
<1> QED
  BY <1>4, <1>5

\* verifySignature accepts the tokens that a key of the verifier's signed.
LEMMA SignedByOwnKey ==
  ASSUME t.verifier.jwks \in Seq(Jwk), WellFormedJwt(Jwt), "alg" \in DOMAIN Jwt.header
  PROVE  verifySignature(t.verifier, Jwt) <=>
           /\ Jwt.header.alg \in {"HS256", "RS256"}
           /\ Jwt.sig.alg = Jwt.header.alg
           /\ Jwt.sig.key \in KeysFor(Jwt.header.alg, Jwt.header.kid)
<1> DEFINE v == t.verifier
           header == Jwt.header
           key == VerificationKey(v, header)
<1>1. Jwt.sig \in [alg : STRING, key : STRING \ {NoKey, Unreadable}]
  BY DEF WellFormedJwt
<1>2. verifySignature(v, Jwt) <=> Jwt.sig.alg = header.alg /\ Jwt.sig.key = key
  <2>1. Jwt.sig = [alg |-> header.alg, key |-> key] <=> Jwt.sig.alg = header.alg /\ Jwt.sig.key = key
    BY <1>1
  <2> QED
    BY <1>1, <2>1 DEF verifySignature
<1>3. CASE header.alg = "HS256"
  <2>1. key = IF v.hmac # NoKey THEN v.hmac ELSE keyFor(v.jwks, "oct", header.kid)
    BY <1>3 DEF VerificationKey
  <2>2. CASE v.hmac # NoKey
    BY <1>2, <1>3, <2>1, <2>2 DEF KeysFor
  <2>3. CASE v.hmac = NoKey
    <3>1. KeysFor(header.alg, header.kid) = Fitting(v.jwks, "oct", header.kid)
      BY <1>3, <2>3 DEF KeysFor, Fitting
    <3>2. keyFor(v.jwks, "oct", header.kid) = Jwt.sig.key
            <=> Jwt.sig.key \in Fitting(v.jwks, "oct", header.kid)
      BY <1>1, FirstKey
    <3> QED
      BY <1>2, <1>3, <2>1, <2>3, <3>1, <3>2
  <2> QED
    BY <2>2, <2>3
<1>4. CASE header.alg = "RS256"
  <2>1. key = IF v.rsa # NoKey THEN v.rsa ELSE keyFor(v.jwks, "RSA", header.kid)
    BY <1>4 DEF VerificationKey
  <2>2. CASE v.rsa # NoKey
    BY <1>2, <1>4, <2>1, <2>2 DEF KeysFor
  <2>3. CASE v.rsa = NoKey
    <3>1. KeysFor(header.alg, header.kid) = Fitting(v.jwks, "RSA", header.kid)
      BY <1>4, <2>3 DEF KeysFor, Fitting
    <3>2. keyFor(v.jwks, "RSA", header.kid) = Jwt.sig.key
            <=> Jwt.sig.key \in Fitting(v.jwks, "RSA", header.kid)
      BY <1>1, FirstKey
    <3> QED
      BY <1>2, <1>4, <2>1, <2>3, <3>1, <3>2
  <2> QED
    BY <2>2, <2>3
<1>5. CASE header.alg \notin {"HS256", "RS256"}
  BY <1>1, <1>2, <1>5 DEF VerificationKey
<1> QED
  BY <1>3, <1>4, <1>5

-----------------------------------------------------------------------------
(* Claims.                                                                  *)

\* A claim of each kind has the parts that kind has.
LEMMA ClaimKinds ==
  ASSUME NEW c \in ClaimValue
  PROVE  /\ c.kind = "number" => c.n \in Int
         /\ c.kind = "list" => c.items \in Seq(TextClaim \cup OtherClaim)
BY DEF ClaimValue, TextClaim, OtherClaim

LEMMA ListClaims ==
  ASSUME NEW c \in ClaimValue, c.kind = "list", NEW words
  PROVE  words \in listClaim(c)
           <=> \E i \in DOMAIN c.items : c.items[i] = [kind |-> "text", words |-> words]
<1>1. c.items \in Seq(TextClaim \cup OtherClaim)
  BY ClaimKinds
<1>2. \A i \in DOMAIN c.items : c.items[i] \in TextClaim \cup OtherClaim
  BY <1>1
<1>3. ASSUME NEW item \in TextClaim \cup OtherClaim
      PROVE  item = [kind |-> "text", words |-> words] <=> item.kind = "text" /\ item.words = words
  BY DEF TextClaim, OtherClaim
<1> QED
  BY <1>2, <1>3 DEF listClaim

LEMMA Times ==
  ASSUME WellFormedJwt(Jwt), "claims" \in DOMAIN Jwt.payload, NEW name
  PROVE  LET time == timeClaim(Jwt.payload.claims, name)
         IN /\ time.set = HasClaim(name, "number")
            /\ time.set => time.t = Claim(name).n /\ Claim(name).n \in Int
<1>1. CASE name \in DOMAIN Jwt.payload.claims
  <2>1. Claim(name) \in ClaimValue
    BY <1>1 DEF WellFormedJwt, Claim
  <2>2. claim(Jwt.payload.claims, name) = Claim(name)
    BY <1>1 DEF claim, Claim
  <2> QED
    BY <1>1, <2>1, <2>2, ClaimKinds DEF timeClaim, HasClaim, At, NoTime
<1>2. CASE name \notin DOMAIN Jwt.payload.claims
  BY <1>2 DEF timeClaim, claim, HasClaim, NoTime
<1> QED
  BY <1>1, <1>2

LEMMA TextClaims ==
  ASSUME NEW name, NEW words, words # <<>>
  PROVE  stringClaim(Jwt.payload.claims, name) = words
           <=> HasClaim(name, "text") /\ Claim(name).words = words
<1>1. CASE name \in DOMAIN Jwt.payload.claims
  BY <1>1 DEF stringClaim, claim, HasClaim, Claim
<1>2. CASE name \notin DOMAIN Jwt.payload.claims
  BY <1>2 DEF stringClaim, claim, HasClaim
<1> QED
  BY <1>1, <1>2

LEMMA Audiences ==
  ASSUME WellFormedJwt(Jwt), "claims" \in DOMAIN Jwt.payload, NEW audience, audience # <<>>
  PROVE  audience \in audienceClaim(claim(Jwt.payload.claims, "aud")) <=> Says("aud", audience)
<1> DEFINE c == claim(Jwt.payload.claims, "aud")
<1>1. CASE "aud" \in DOMAIN Jwt.payload.claims
  <2>1. c = Claim("aud") /\ c \in ClaimValue
    BY <1>1 DEF claim, Claim, WellFormedJwt
  <2>2. CASE c.kind = "text"
    BY <1>1, <2>1, <2>2 DEF audienceClaim, Says, HasClaim
  <2>3. CASE c.kind = "list"
    <3>1. audience \in audienceClaim(c) <=> audience \in listClaim(c)
      BY <2>3 DEF audienceClaim
    <3> QED
      BY <1>1, <2>1, <2>3, <3>1, ListClaims DEF Says, HasClaim
  <2>4. CASE c.kind \notin {"text", "list"}
    BY <1>1, <2>1, <2>4 DEF audienceClaim, Says, HasClaim
  <2> QED
    BY <2>2, <2>3, <2>4
<1>2. CASE "aud" \notin DOMAIN Jwt.payload.claims
  BY <1>2 DEF claim, audienceClaim, Says, HasClaim
<1> QED
  BY <1>1, <1>2

LEMMA Scopes ==
  ASSUME WellFormedJwt(Jwt), "claims" \in DOMAIN Jwt.payload, t.verifier.kind = "jwt", NEW scope
  PROVE  scope \in scopeValues(claim(Jwt.payload.claims, t.verifier.scopeClaim)) <=> Grants(scope)
<1> DEFINE name == t.verifier.scopeClaim
           c == claim(Jwt.payload.claims, name)
<1>1. CASE name \in DOMAIN Jwt.payload.claims
  <2>1. c = Claim(name) /\ c \in ClaimValue
    BY <1>1 DEF claim, Claim, WellFormedJwt
  <2>2. CASE c.kind = "text"
    BY <1>1, <2>1, <2>2 DEF scopeValues, Grants, HasClaim
  <2>3. CASE c.kind = "list"
    <3>1. scope \in scopeValues(c) <=> scope \in listClaim(c)
      BY <2>3 DEF scopeValues
    <3>2. Grants(scope) <=> Says(name, scope)
      BY <2>1, <2>3 DEF Grants, HasClaim
    <3> QED
      BY <1>1, <2>1, <2>3, <3>1, <3>2, ListClaims DEF Says, HasClaim
  <2>4. CASE c.kind \notin {"text", "list"}
    BY <1>1, <2>1, <2>4 DEF scopeValues, Grants, Says, HasClaim
  <2> QED
    BY <2>2, <2>3, <2>4
<1>2. CASE name \notin DOMAIN Jwt.payload.claims
  BY <1>2 DEF claim, scopeValues, Grants, Says, HasClaim
<1> QED
  BY <1>1, <1>2

-----------------------------------------------------------------------------
(* Verdicts.                                                                *)

\* What the verifier says of the token of a header: the token when it is genuine,
\* current and meant for this server, and why not otherwise.
RightVerdict ==
  IF ~Genuine \/ ~Current \/ ~Intended
    THEN Verdict \in {Refused("invalid"), Refused("expired")}
  ELSE IF t.verifier.kind = "jwt" /\ ~(\A scope \in t.verifier.scopes : Grants(scope))
    THEN Verdict = Refused("scope")
  ELSE Verdict.ok /\ \A scope : scope \in Verdict.token.scopes <=> Grants(scope)

LEMMA StaticVerdict ==
  ASSUME WellFormedRequest(t), Presented, t.verifier.kind = "static"
  PROVE  RightVerdict
<1> DEFINE table == t.verifier.table
           token == table[raw]
<1>1. raw = Header.token /\ raw # <<>>
  BY DEF raw, Presented, Header, bearerToken
<1>2. Verdict = VerifyStatic(table, raw, t.now)
  BY DEF Verdict
<1>3. CASE raw \notin DOMAIN table
  <2>1. ~Genuine
    BY <1>1, <1>3 DEF Genuine
  <2> QED
    BY <1>1, <1>2, <1>3, <2>1 DEF VerifyStatic, RightVerdict
<1>4. CASE raw \in DOMAIN table
  <2>1. token \in StaticToken /\ t.now \in Int
    BY <1>4 DEF WellFormedRequest
  <2>2. Genuine /\ Intended
    BY <1>1, <1>4 DEF Genuine, Intended
  <2>3. Current <=> ~Expired(token, t.now)
    <3>1. token.exp.t \in Int /\ token.nbf.t \in Int
      BY <2>1 DEF StaticToken, Time
    <3>2. Current <=> /\ token.exp.set => t.now < token.exp.t
                      /\ token.nbf.set => t.now >= token.nbf.t
      BY <1>1 DEF Current
    <3> HIDE DEF token
    <3> QED
      BY <2>1, <3>1, <3>2 DEF Expired
  <2>4. Verdict = IF Expired(token, t.now) THEN Refused("expired") ELSE Admitted(token)
    BY <1>1, <1>2, <1>4 DEF VerifyStatic
  <2>5. \A scope : scope \in token.scopes <=> Grants(scope)
    BY <1>1 DEF Grants
  <2> HIDE DEF token
  <2> QED
    BY <2>2, <2>3, <2>4, <2>5 DEF RightVerdict, Admitted
<1> QED
  BY <1>3, <1>4

LEMMA JwtVerdict ==
  ASSUME WellFormedRequest(t), Presented, t.verifier.kind = "jwt"
  PROVE  RightVerdict
<1> DEFINE v == t.verifier
           claims == Jwt.payload.claims
           token == buildToken(v, raw, claims)
<1>1. raw = Header.token /\ raw # <<>>
  BY DEF raw, Presented, Header, bearerToken
<1>2. Verdict = VerifyJWT(v, raw, Jwt, t.now)
  BY <1>1 DEF Verdict, Jwt
<1>3. /\ v.jwks \in Seq(Jwk) /\ v.leeway \in Int /\ t.now \in Int
      /\ WellFormedJwt(Jwt)
  BY <1>1 DEF WellFormedRequest, Jwt, raw
<1>4. CASE ~Genuine
  <2>1. \/ Jwt.segments # 3
        \/ "alg" \notin DOMAIN Jwt.header
        \/ ~verifySignature(v, Jwt)
        \/ "claims" \notin DOMAIN Jwt.payload
    BY <1>3, <1>4, SignedByOwnKey DEF Genuine
  <2>2. Verdict = Refused("invalid")
    BY <1>1, <1>2, <2>1 DEF VerifyJWT
  <2> QED
    BY <1>4, <2>2 DEF RightVerdict
<1>5. CASE Genuine
  <2>1. /\ Jwt.segments = 3
        /\ "alg" \in DOMAIN Jwt.header
        /\ "claims" \in DOMAIN Jwt.payload
        /\ verifySignature(v, Jwt)
    BY <1>3, <1>5, SignedByOwnKey DEF Genuine
  <2>2. Verdict = validateClaims(v, token, t.now)
    BY <1>1, <1>2, <2>1 DEF VerifyJWT
  <2>3. /\ token.exp = timeClaim(claims, "exp") /\ token.nbf = timeClaim(claims, "nbf")
        /\ token.iss = stringClaim(claims, "iss")
        /\ token.aud = audienceClaim(claim(claims, "aud"))
        /\ token.scopes = scopeValues(claim(claims, v.scopeClaim))
    BY DEF buildToken
  <2> HIDE DEF token
  <2> DEFINE late == token.exp.set /\ t.now - v.leeway >= token.exp.t
             early == token.nbf.set /\ t.now + v.leeway < token.nbf.t
             stranger == v.issuer # <<>> /\ token.iss # v.issuer
             elsewhere == v.audience # <<>> /\ v.audience \notin token.aud
  <2>4. Current <=> ~late /\ ~early
    <3>1. /\ token.exp.set = HasClaim("exp", "number")
          /\ token.exp.set => token.exp.t = Claim("exp").n /\ Claim("exp").n \in Int
      BY <1>3, <2>1, <2>3, Times
    <3>2. /\ token.nbf.set = HasClaim("nbf", "number")
          /\ token.nbf.set => token.nbf.t = Claim("nbf").n /\ Claim("nbf").n \in Int
      BY <1>3, <2>1, <2>3, Times
    <3> QED
      BY <1>3, <3>1, <3>2 DEF Current
  <2>5. Intended <=> ~stranger /\ ~elsewhere
    <3>1. v.issuer # <<>> =>
            (token.iss = v.issuer <=> HasClaim("iss", "text") /\ Claim("iss").words = v.issuer)
      BY <2>3, TextClaims
    <3>2. v.audience # <<>> => (v.audience \in token.aud <=> Says("aud", v.audience))
      BY <1>3, <2>1, <2>3, Audiences
    <3> QED
      BY <3>1, <3>2 DEF Intended
  <2>6. \A scope : scope \in token.scopes <=> Grants(scope)
    BY <1>3, <2>1, <2>3, Scopes
  <2>7. RequireScopes(token, v.scopes) <=> \A scope \in v.scopes : Grants(scope)
    BY <2>6 DEF RequireScopes, HasScope
  <2>8. validateClaims(v, token, t.now) =
          IF late THEN Refused("expired")
          ELSE IF early THEN Refused("expired")
          ELSE IF stranger THEN Refused("invalid")
          ELSE IF elsewhere THEN Refused("invalid")
          ELSE IF ~RequireScopes(token, v.scopes) THEN Refused("scope")
          ELSE Admitted(token)
    BY DEF validateClaims
  <2> HIDE DEF late, early, stranger, elsewhere
  <2> QED
    BY <1>5, <2>2, <2>4, <2>5, <2>6, <2>7, <2>8 DEF RightVerdict, Admitted
<1> QED
  BY <1>4, <1>5

-----------------------------------------------------------------------------
(* Requests.                                                                *)

\* A request behind the middleware, by the verdict on its token.
LEMMA MiddlewareRefuses ==
  ASSUME WellFormedRequest(t), NEW cfg, cfg.scopes = t.opts.scopes, NEW served, NEW reply,
         reply = BearerMiddleware(cfg, Header, Verdict, served)
  PROVE  IF ~Presented THEN RefusedWith(reply, 401, "invalid_request")
         ELSE IF ~Genuine \/ ~Current \/ ~Intended THEN RefusedWith(reply, 401, "invalid_token")
         ELSE IF ~Scoped THEN RefusedWith(reply, 403, "insufficient_scope")
         ELSE reply = served
<1>1. Presented <=> bearerToken(Header) # <<>>
  BY DEF Presented, bearerToken
<1>2. ASSUME NEW status, NEW code, reply = writeChallenge(cfg, status, code)
      PROVE  RefusedWith(reply, status, code)
  BY <1>2 DEF writeChallenge, RefusedWith
<1>3. CASE ~Presented
  <2>1. reply = writeChallenge(cfg, 401, "invalid_request")
    BY <1>1, <1>3 DEF BearerMiddleware
  <2> QED
    BY <1>2, <1>3, <2>1
<1>4. CASE Presented
  <2>1. RightVerdict
    BY <1>4, StaticVerdict, JwtVerdict DEF WellFormedRequest
  <2>2. reply = IF ~Verdict.ok
                  THEN writeChallenge(cfg, statusForError(Verdict.error), errorCode(Verdict.error))
                ELSE IF ~RequireScopes(Verdict.token, cfg.scopes)
                  THEN writeChallenge(cfg, 403, "insufficient_scope")
                ELSE served
    BY <1>1, <1>4 DEF BearerMiddleware
  <2> DEFINE granted == t.verifier.kind = "jwt" => \A scope \in t.verifier.scopes : Grants(scope)
  <2>3. CASE ~Genuine \/ ~Current \/ ~Intended
    <3>1. ~Verdict.ok /\ Verdict.error \in {"invalid", "expired"}
      BY <2>1, <2>3 DEF RightVerdict, Refused
    <3>2. reply = writeChallenge(cfg, 401, "invalid_token")
      BY <2>2, <3>1 DEF statusForError, errorCode
    <3> QED
      BY <1>2, <1>4, <2>3, <3>2
  <2>4. CASE Genuine /\ Current /\ Intended /\ ~granted
    <3>1. ~Verdict.ok /\ Verdict.error = "scope"
      BY <2>1, <2>4 DEF RightVerdict, Refused
    <3>2. reply = writeChallenge(cfg, 403, "insufficient_scope")
      BY <2>2, <3>1 DEF statusForError, errorCode
    <3>3. ~Scoped
      BY <2>4 DEF Scoped
    <3> QED
      BY <1>2, <1>4, <2>4, <3>2, <3>3
  <2>5. CASE Genuine /\ Current /\ Intended /\ granted
    <3>1. Verdict.ok /\ \A scope : scope \in Verdict.token.scopes <=> Grants(scope)
      BY <2>1, <2>5 DEF RightVerdict
    <3>2. RequireScopes(Verdict.token, cfg.scopes) <=> Scoped
      BY <2>5, <3>1 DEF RequireScopes, HasScope, Scoped
    <3>3. CASE Scoped
      BY <1>4, <2>2, <2>5, <3>1, <3>2, <3>3
    <3>4. CASE ~Scoped
      <4>1. reply = writeChallenge(cfg, 403, "insufficient_scope")
        BY <2>2, <3>1, <3>2, <3>4
      <4> QED
        BY <1>2, <1>4, <2>5, <3>4, <4>1
    <3> QED
      BY <3>3, <3>4
  <2> HIDE DEF granted
  <2> QED
    BY <2>3, <2>4, <2>5
<1> QED
  BY <1>3, <1>4

\* auth/middleware.go:63, BearerMiddleware: a request reaches the wrapped handler
\* exactly when its token is genuine, current, meant for this server and has every
\* scope asked for, and is refused for the first of these that fails, whatever the
\* keys, the claims and the clock.
THEOREM RequestServed ==
  ASSUME WellFormedRequest(t), task.kind = "http",
         answers = <<Protect(t.settings, t.opts, t.methods, t.request, Verdict)>>
  PROVE  AnsweredOrRefused
<1> DEFINE reply == answers[1]
           cfg == [t.opts EXCEPT !.meta = IF @ # <<>> THEN @ ELSE MetadataURL(t.settings)]
           served == HTTPHandler(t.methods, t.request)
<1>0. reply = Protect(t.settings, t.opts, t.methods, t.request, Verdict) /\ Len(answers) = 1
  OBVIOUS
<1> HIDE DEF reply
<1>1. CASE t.request.path = WellKnownPath
  <2>1. reply = MetadataHandler(t.settings, t.request.method)
    BY <1>0, <1>1 DEF Protect
  <2>2. reply.challenge = <<>> /\ reply.status \in {200, 405}
    BY <2>1 DEF MetadataHandler, Reply
  <2> QED
    BY <1>1, <2>2 DEF AnsweredOrRefused, After, reply
<1>2. CASE t.request.path # WellKnownPath
  <2>1. reply = BearerMiddleware(cfg, Header, Verdict, served)
    BY <1>0, <1>2 DEF Protect, Header
  <2>2. cfg.scopes = t.opts.scopes
    BY DEF WellFormedRequest
  <2> HIDE DEF cfg
  <2>3. Handled(served)
    BY HandlerAnswers
  <2> HIDE DEF served
  <2>4. IF ~Presented THEN RefusedWith(reply, 401, "invalid_request")
        ELSE IF ~Genuine \/ ~Current \/ ~Intended THEN RefusedWith(reply, 401, "invalid_token")
        ELSE IF ~Scoped THEN RefusedWith(reply, 403, "insufficient_scope")
        ELSE reply = served
    BY <2>1, <2>2, MiddlewareRefuses
  <2> QED
    BY <1>2, <2>3, <2>4 DEF AnsweredOrRefused, After, reply
<1> QED
  BY <1>1, <1>2

\* A task is taken up once, and its reply is what Protect makes of it.
ServedOnce ==
  /\ task.kind = "http" /\ t \in HttpTasks
  /\ answers \in {<<>>, <<Protect(t.settings, t.opts, t.methods, t.request, Verdict)>>}

\* metadata.go:123, middleware.go:63, http.go:75: every reply of a protected
\* server is the one its request may expect.
THEOREM RequestsAnsweredOrRefused == HttpSpec => []AnsweredOrRefused
<1>1. HttpInit => ServedOnce
  BY DEF HttpInit, ServedOnce, t
<1>2. ServedOnce /\ [ServeHTTP]_taskVars => ServedOnce'
  <2> SUFFICES ASSUME ServedOnce, [ServeHTTP]_taskVars
               PROVE  ServedOnce'
    OBVIOUS
  <2> DEFINE reply == Protect(t.settings, t.opts, t.methods, t.request, Verdict)
  <2>1. task' = task /\ answers' \in {answers, <<reply>>}
    <3> HIDE DEF reply
    <3>1. CASE ServeHTTP
      <4>1. UNCHANGED task /\ Len(answers) = 0 /\ answers' = Append(answers, reply)
        BY <3>1 DEF ServeHTTP, NextCall, reply
      <4>2. answers = <<>>
        BY <4>1 DEF ServedOnce
      <4>3. answers' = Append(<<>>, reply)
        BY <4>1, <4>2
      <4>4. answers' = <<reply>>
        BY <4>3
      <4> QED
        BY <4>1, <4>4
    <3>2. CASE UNCHANGED taskVars
      BY <3>2 DEF taskVars
    <3> QED
      BY <3>1, <3>2
  <2>2. t' = t /\ reply' = reply
    BY <2>1 DEF t, Verdict, raw
  <2> QED
    BY <2>1, <2>2 DEF ServedOnce
<1>3. ServedOnce => AnsweredOrRefused
  <2>1. CASE answers = <<>>
    BY <2>1 DEF AnsweredOrRefused, After
  <2>2. CASE ServedOnce /\ answers # <<>>
    BY <2>2, RequestServed, HttpTasksAssumption DEF ServedOnce
  <2> QED
    BY <2>1, <2>2
<1> QED
  BY <1>1, <1>2, <1>3, PTL DEF HttpSpec
=============================================================================
