--------------------------- MODULE SelectionProofs ---------------------------
(***************************************************************************)
(* Facts about sequences that the proofs of several components rest on:    *)
(* what FlattenSeq and SelectIn return, for all sequences.                 *)
(***************************************************************************)
EXTENDS Selection, FiniteSetTheorems, WellFoundedInduction, TLAPS

-----------------------------------------------------------------------------
(* A set of natural numbers has a least element: an induction below is a   *)
(* least counterexample.                                                   *)
LEMMA LeastNumber ==
    ASSUME NEW T, T \subseteq Nat, T # {}
    PROVE  \E m \in T : \A n \in T : m <= n
<1>1. IsWellFoundedOn(OpToRel(<, Nat), Nat)
  BY NatLessThanWellFounded
<1>2. PICK m \in T : \A n \in T : ~ (<<n, m>> \in OpToRel(<, Nat))
  BY <1>1, WFMin
<1>3. \A n \in T : ~(n < m)
  BY <1>2 DEF OpToRel
<1> QED
  BY <1>3

Flattens(f, seqs, m) ==
    f = [i \in 1 .. m |-> IF i = 1 THEN seqs[i] ELSE f[i - 1] \o seqs[i]]

(* There is a function that flattens the first n of seqs step by step, as  *)
(* FlattenSeq does.                                                        *)
LEMMA FlattenExists ==
    ASSUME NEW seqs, NEW n \in Nat
    PROVE  \E f : Flattens(f, seqs, n)
<1> DEFINE Good(m) == \E f : Flattens(f, seqs, m)
           Bad == {m \in Nat : ~Good(m)}
<1>1. Good(0)
  <2> DEFINE f == [i \in 1 .. 0 |-> 0]
  <2>1. Flattens(f, seqs, 0)
    BY DEF Flattens
  <2> QED
    BY <2>1
<1>2. ASSUME NEW m \in Nat, Good(m) PROVE Good(m + 1)
  <2>1. PICK f : Flattens(f, seqs, m)
    BY <1>2
  <2> DEFINE g == [i \in 1 .. m + 1 |->
                     IF i = 1 THEN seqs[i] ELSE f[i - 1] \o seqs[i]]
  <2>2. \A i \in 1 .. m : f[i] = IF i = 1 THEN seqs[i] ELSE f[i - 1] \o seqs[i]
    BY <2>1 DEF Flattens
  <2>3. \A i \in 1 .. m + 1 : g[i] = IF i = 1 THEN seqs[i] ELSE f[i - 1] \o seqs[i]
    OBVIOUS
  <2>4. g = [i \in 1 .. m + 1 |-> IF i = 1 THEN seqs[i] ELSE g[i - 1] \o seqs[i]]
    <3>1. ASSUME NEW i \in 1 .. m + 1, i # 1 PROVE g[i - 1] = f[i - 1]
      <4>1. i - 1 \in 1 .. m /\ i - 1 \in 1 .. m + 1
        BY <3>1
      <4> HIDE DEF g
      <4> QED
        BY <2>2, <2>3, <4>1
    <3> QED
      BY <3>1
  <2> QED
    BY <2>4 DEF Flattens
<1>3. Bad = {}
  <2> HIDE DEF Good
  <2>1. SUFFICES ASSUME Bad # {} PROVE FALSE
    OBVIOUS
  <2>2. PICK m \in Bad : \A k \in Bad : m <= k
    BY <2>1, LeastNumber
  <2>3. m # 0 /\ m - 1 \in Nat /\ m - 1 \notin Bad
    BY <1>1, <2>2
  <2>4. Good(m - 1 + 1)
    BY <1>2, <2>3
  <2>5. m - 1 + 1 = m
    BY <2>2
  <2> QED
    BY <2>2, <2>4, <2>5
<1> QED
  BY <1>3

(* A flattened sequence of sequences over T is a sequence over T. *)
LEMMA FlattenType ==
    ASSUME NEW T, NEW seqs \in Seq(Seq(T))
    PROVE  FlattenSeq(seqs) \in Seq(T)
<1>1. CASE Len(seqs) = 0
  <2>1. seqs = <<>>
    BY <1>1
  <2>2. FlattenSeq(seqs) = seqs
    BY <1>1 DEF FlattenSeq
  <2>3. <<>> \in Seq(T)
    OBVIOUS
  <2> QED
    BY <2>1, <2>2, <2>3
<1>2. CASE Len(seqs) # 0
  <2> DEFINE f == CHOOSE f : Flattens(f, seqs, Len(seqs))
             Bad == {i \in Nat : i \in 1 .. Len(seqs) /\ f[i] \notin Seq(T)}
  <2>1. Flattens(f, seqs, Len(seqs))
    <3>1. Len(seqs) \in Nat
      OBVIOUS
    <3> QED
      BY <3>1, FlattenExists
  <2>2. FlattenSeq(seqs) = f[Len(seqs)]
    BY <1>2 DEF FlattenSeq, Flattens
  <2> HIDE DEF f
  <2>3. \A i \in 1 .. Len(seqs) : seqs[i] \in Seq(T)
    OBVIOUS
  <2>4. \A i \in 1 .. Len(seqs) :
           f[i] = IF i = 1 THEN seqs[i] ELSE f[i - 1] \o seqs[i]
    BY <2>1 DEF Flattens
  <2>5. Bad = {}
    <3>1. SUFFICES ASSUME Bad # {} PROVE FALSE
      OBVIOUS
    <3>2. PICK i \in Bad : \A k \in Bad : i <= k
      BY <3>1, LeastNumber
    <3>3. i # 1
      BY <2>3, <2>4, <3>2
    <3>4. f[i - 1] \in Seq(T)
      BY <3>2, <3>3
    <3>5. f[i - 1] \o seqs[i] \in Seq(T)
      BY <2>3, <3>2, <3>4
    <3> QED
      BY <2>4, <3>2, <3>3, <3>5
  <2>6. f[Len(seqs)] \in Seq(T)
    BY <1>2, <2>5
  <2> QED
    BY <2>2, <2>6
<1> QED
  BY <1>1, <1>2

(* What is selected of a sequence is a sequence over what is selected. *)
LEMMA SelectInType ==
    ASSUME NEW T, NEW seq \in Seq(T), NEW S
    PROVE  SelectIn(seq, S) \in Seq(S)
<1> DEFINE seqs == [k \in DOMAIN seq |-> IF seq[k] \in S THEN <<seq[k]>> ELSE <<>>]
<1>1. DOMAIN seq = 1 .. Len(seq) /\ Len(seq) \in Nat
  OBVIOUS
<1>2. ASSUME NEW k \in DOMAIN seq
      PROVE  (IF seq[k] \in S THEN <<seq[k]>> ELSE <<>>) \in Seq(S)
  OBVIOUS
<1>3. seqs \in Seq(Seq(S))
  BY <1>1, <1>2
<1>4. SelectIn(seq, S) = FlattenSeq(seqs)
  BY DEF SelectIn
<1> QED
  <2> HIDE DEF seqs
  <2> QED
    BY <1>3, <1>4, FlattenType

(* A set of indices of a sequence has a greatest element. *)
LEMMA GreatestIndex ==
    ASSUME NEW n \in Nat, NEW K, K \subseteq 1 .. n, K # {}
    PROVE  \E k \in K : \A j \in K : j <= k
<1> DEFINE M == {n - k : k \in K}
<1>1. M \subseteq Nat /\ M # {}
  <2>1. \A k \in K : n - k \in Nat
    OBVIOUS
  <2> QED
    BY <2>1
<1>2. PICK m \in M : \A x \in M : m <= x
  BY <1>1, LeastNumber
<1>3. PICK k \in K : m = n - k
  OBVIOUS
<1>4. ASSUME NEW j \in K PROVE j <= k
  <2>1. n - j \in M
    OBVIOUS
  <2>2. n - k <= n - j
    BY <1>2, <1>3, <2>1
  <2> QED
    BY <2>2
<1> QED
  BY <1>4

(* A function on a finite set has finitely many values. *)
LEMMA FiniteRange ==
    ASSUME NEW S, NEW T, IsFiniteSet(S), NEW f \in [S -> T], \A y \in T : \E x \in S : f[x] = y
    PROVE  IsFiniteSet(T)
<1>1. f \in Surjection(S, T)
  BY DEF Surjection
<1> QED
  BY <1>1, FS_Surjection

(* A sequence without repetitions has as many elements as it is long.     *)
LEMMA DistinctCardinality ==
    ASSUME NEW T, NEW seq \in Seq(T), \A i, j \in DOMAIN seq : seq[i] = seq[j] => i = j
    PROVE  IsFiniteSet(ToSet(seq)) /\ Cardinality(ToSet(seq)) = Len(seq)
<1>1. DOMAIN seq = 1 .. Len(seq) /\ Len(seq) \in Nat
  OBVIOUS
<1>2. seq \in [1 .. Len(seq) -> ToSet(seq)]
  BY <1>1 DEF ToSet
<1>3. seq \in Bijection(1 .. Len(seq), ToSet(seq))
  <2>1. IsInjective(seq)
    BY DEF IsInjective
  <2>2. \A e \in ToSet(seq) : \E i \in 1 .. Len(seq) : seq[i] = e
    BY <1>1 DEF ToSet
  <2> QED
    BY <1>2, <2>1, <2>2 DEF Bijection, Injection, Surjection
<1>4. IsFiniteSet(1 .. Len(seq)) /\ Cardinality(1 .. Len(seq)) = Len(seq)
  <2>1. 1 \in Int /\ Len(seq) \in Int
    BY <1>1
  <2>2. /\ IsFiniteSet(1 .. Len(seq))
        /\ Cardinality(1 .. Len(seq)) = IF 1 > Len(seq) THEN 0 ELSE Len(seq) - 1 + 1
    BY <2>1, FS_Interval
  <2> QED
    BY <1>1, <2>2
<1>5. ExistsBijection(1 .. Len(seq), ToSet(seq))
  BY <1>3 DEF ExistsBijection
<1> QED
  BY <1>4, <1>5, FS_Bijection

(* A filter keeps exactly the elements that are asked for, and does not    *)
(* repeat one that the sequence does not repeat.                           *)
LEMMA SelectInElements ==
    ASSUME NEW T, NEW seq \in Seq(T), NEW S
    PROVE  /\ ToSet(SelectIn(seq, S)) = ToSet(seq) \cap S
           /\ (\A i, j \in DOMAIN seq : seq[i] = seq[j] => i = j) =>
                 \A i, j \in DOMAIN SelectIn(seq, S) :
                    SelectIn(seq, S)[i] = SelectIn(seq, S)[j] => i = j
<1> DEFINE seqs == [k \in DOMAIN seq |-> IF seq[k] \in S THEN <<seq[k]>> ELSE <<>>]
           n == Len(seq)
           Before(m) == {seq[i] : i \in 1 .. m}
           Distinct(s) == \A i, j \in DOMAIN s : s[i] = s[j] => i = j
           Good(s, m) == /\ s \in Seq(T) /\ ToSet(s) = Before(m) \cap S
                         /\ Distinct(seq) => Distinct(s)
<1>1. DOMAIN seq = 1 .. n /\ n \in Nat
  OBVIOUS
<1>2. seqs = [k \in 1 .. n |-> IF seq[k] \in S THEN <<seq[k]>> ELSE <<>>]
  BY <1>1
<1>3. SelectIn(seq, S) = FlattenSeq(seqs) /\ Len(seqs) = n
  BY <1>1 DEF SelectIn
<1>4. \A k \in 1 .. n : seqs[k] = IF seq[k] \in S THEN <<seq[k]>> ELSE <<>>
  BY <1>2
<1> HIDE DEF seqs
<1>5. ASSUME NEW m \in 1 .. n, NEW s, Good(s, m - 1)
      PROVE  Good(s \o seqs[m], m)
  <2>1. Before(m) = Before(m - 1) \cup {seq[m]}
    BY <1>1
  <2>2. s \in Seq(T) /\ seq[m] \in T
    BY <1>1, <1>5
  <2>3. CASE seq[m] \notin S
    <3>1. s \o seqs[m] = s
      <4>1. seqs[m] = <<>>
        BY <1>4, <2>3
      <4>2. s \o <<>> = s
        BY <2>2
      <4> QED
        BY <4>1, <4>2
    <3>2. Before(m) \cap S = Before(m - 1) \cap S
      BY <2>1, <2>3
    <3> HIDE DEF Before
    <3> QED
      BY <1>5, <3>1, <3>2
  <2>4. CASE seq[m] \in S
    <3>1. s \o seqs[m] = Append(s, seq[m])
      <4>1. seqs[m] = <<seq[m]>>
        BY <1>4, <2>4
      <4>2. s \o <<seq[m]>> = Append(s, seq[m])
        BY <2>2
      <4> QED
        BY <4>1, <4>2
    <3>2. PICK t : t = Append(s, seq[m])
      OBVIOUS
    <3>3. /\ t \in Seq(T) /\ DOMAIN t = DOMAIN s \cup {Len(s) + 1}
          /\ t[Len(s) + 1] = seq[m] /\ \A i \in DOMAIN s : t[i] = s[i]
      BY <2>2, <3>2
    <3>4. ToSet(t) = ToSet(s) \cup {seq[m]}
      BY <3>3 DEF ToSet
    <3>5. ToSet(t) = Before(m) \cap S
      BY <1>5, <2>1, <2>4, <3>4
    <3>6. ASSUME Distinct(seq) PROVE Distinct(t)
      <4>1. \A i \in 1 .. m - 1 : seq[i] # seq[m]
        BY <1>1, <3>6
      <4>2. seq[m] \notin ToSet(s)
        BY <1>5, <4>1
      <4>3. \A i \in DOMAIN s : s[i] # seq[m]
        BY <4>2 DEF ToSet
      <4>4. Distinct(s)
        BY <1>5, <3>6
      <4> QED
        BY <3>3, <4>3, <4>4
    <3> HIDE DEF Before, Distinct
    <3> QED
      BY <3>1, <3>2, <3>3, <3>5, <3>6
  <2> QED
    BY <2>3, <2>4
<1>6. Good(<<>>, 0)
  BY DEF ToSet
<1>7. Good(FlattenSeq(seqs), n)
  <2>1. CASE n = 0
    <3>1. seqs = <<>>
      BY <1>2, <2>1
    <3>2. FlattenSeq(seqs) = seqs
      BY <1>3, <2>1 DEF FlattenSeq
    <3> QED
      BY <1>6, <2>1, <3>1, <3>2
  <2>2. CASE n # 0
    <3> DEFINE f == CHOOSE f : Flattens(f, seqs, n)
               Bad == {i \in Nat : i \in 1 .. n /\ ~Good(f[i], i)}
    <3>1. Flattens(f, seqs, n)
      BY <1>1, FlattenExists
    <3>2. FlattenSeq(seqs) = f[n]
      BY <1>3, <2>2 DEF FlattenSeq, Flattens
    <3> HIDE DEF f
    <3>3. \A i \in 1 .. n : f[i] = IF i = 1 THEN seqs[i] ELSE f[i - 1] \o seqs[i]
      BY <3>1 DEF Flattens
    <3> HIDE DEF Good
    <3>4. Good(seqs[1], 1)
      <4>1. Good(<<>> \o seqs[1], 1)
        <5>1. PICK m \in 1 .. n : m = 1 /\ m - 1 = 0
          BY <1>1, <2>2
        <5>2. Good(<<>>, m - 1)
          BY <1>6, <5>1
        <5> QED
          BY <1>5, <5>1, <5>2
      <4>2. <<>> \o seqs[1] = seqs[1]
        BY <1>1, <1>4, <2>2
      <4> QED
        BY <4>1, <4>2
    <3>5. Bad = {}
      <4>1. SUFFICES ASSUME Bad # {} PROVE FALSE
        OBVIOUS
      <4>2. PICK i \in Bad : \A k \in Bad : i <= k
        BY <4>1, LeastNumber
      <4>3. i # 1 /\ i \in 1 .. n
        BY <3>3, <3>4, <4>2
      <4>4. Good(f[i - 1], i - 1)
        BY <1>1, <4>2, <4>3
      <4>5. Good(f[i - 1] \o seqs[i], i)
        BY <1>5, <4>3, <4>4
      <4>6. f[i] = f[i - 1] \o seqs[i]
        BY <3>3, <4>3
      <4> QED
        BY <4>2, <4>5, <4>6
    <3> QED
      BY <1>1, <2>2, <3>2, <3>5
  <2> QED
    BY <2>1, <2>2
<1>8. Before(n) = ToSet(seq)
  BY <1>1 DEF ToSet
<1> QED
  BY <1>3, <1>7, <1>8

-----------------------------------------------------------------------------
(* Order *)

(* The numbers of a function on 1 .. n increase. *)
Ascending(f, n) == \A i, j \in 1 .. n : i < j => f[i] < f[j]

(* A set of numbers can be listed in increasing order in one way only. *)
LEMMA AscendingListAgrees ==
    ASSUME NEW n \in Nat, NEW m \in Nat, NEW f \in [1 .. n -> Nat], NEW g \in [1 .. m -> Nat],
           Ascending(f, n), Ascending(g, m),
           {f[i] : i \in 1 .. n} \subseteq {g[i] : i \in 1 .. m},
           {g[i] : i \in 1 .. m} \subseteq {f[i] : i \in 1 .. n}
    PROVE  \A i \in (1 .. n) \cap (1 .. m) : f[i] = g[i]
<1> DEFINE Bad == {i \in Nat : i \in (1 .. n) \cap (1 .. m) /\ f[i] # g[i]}
<1>1. SUFFICES ASSUME Bad # {} PROVE FALSE
  OBVIOUS
<1>2. PICK i \in Bad : \A k \in Bad : i <= k
  BY <1>1, LeastNumber
<1>3. \A k \in (1 .. n) \cap (1 .. m) : k < i => f[k] = g[k]
  BY <1>2
<1>4. i \in 1 .. n /\ i \in 1 .. m /\ f[i] # g[i] /\ f[i] \in Nat /\ g[i] \in Nat
  BY <1>2
<1>5. CASE f[i] < g[i]
  <2>1. PICK j \in 1 .. m : f[i] = g[j]
    BY <1>4
  <2>2. j < i
    BY <1>4, <1>5, <2>1 DEF Ascending
  <2>3. j \in 1 .. n /\ f[j] = g[j]
    BY <1>3, <1>4, <2>2
  <2> QED
    BY <1>4, <2>1, <2>2, <2>3 DEF Ascending
<1>6. CASE g[i] < f[i]
  <2>1. PICK j \in 1 .. n : g[i] = f[j]
    BY <1>4
  <2>2. j < i
    BY SMTT(20), <1>4, <1>6, <2>1 DEF Ascending
  <2>3. j \in 1 .. m /\ f[j] = g[j]
    BY <1>3, <1>4, <2>2
  <2> QED
    BY <1>4, <2>1, <2>2, <2>3 DEF Ascending
<1> QED
  BY <1>4, <1>5, <1>6

(* A list of fewer numbers is not longer.                                  *)
LEMMA AscendingListNoLonger ==
    ASSUME NEW n \in Nat, NEW m \in Nat, NEW f \in [1 .. n -> Nat], NEW g \in [1 .. m -> Nat],
           Ascending(g, m), \A i \in (1 .. n) \cap (1 .. m) : f[i] = g[i],
           {g[i] : i \in 1 .. m} \subseteq {f[i] : i \in 1 .. n}
    PROVE  m <= n
<1>1. SUFFICES ASSUME n < m PROVE FALSE
  OBVIOUS
<1>2. n + 1 \in 1 .. m
  BY <1>1
<1>3. PICK j \in 1 .. n : g[n + 1] = f[j]
  BY <1>2
<1>4. j \in 1 .. m /\ f[j] = g[j] /\ j < n + 1
  BY <1>1, <1>3
<1> QED
  BY <1>2, <1>3, <1>4 DEF Ascending

(* f lists the numbers of S in ascending order. *)
Lists(f, n, S) ==
    f \in [1 .. n -> Nat] /\ Ascending(f, n) /\ {f[i] : i \in 1 .. n} = S

(* So two such lists of one set are the same.                              *)
LEMMA AscendingListUnique ==
    ASSUME NEW S, NEW n \in Nat, NEW m \in Nat, NEW f, NEW g, Lists(f, n, S), Lists(g, m, S)
    PROVE  n = m /\ \A i \in 1 .. n : f[i] = g[i]
<1>1. /\ f \in [1 .. n -> Nat] /\ g \in [1 .. m -> Nat] /\ Ascending(f, n) /\ Ascending(g, m)
      /\ {f[i] : i \in 1 .. n} = {g[i] : i \in 1 .. m}
  BY DEF Lists
<1>2. \A i \in (1 .. n) \cap (1 .. m) : f[i] = g[i]
  BY <1>1, AscendingListAgrees
<1>3. m <= n
  BY <1>1, <1>2, AscendingListNoLonger
<1>4. n <= m
  <2>1. \A i \in (1 .. m) \cap (1 .. n) : g[i] = f[i]
    BY <1>2
  <2> QED
    BY <1>1, <2>1, AscendingListNoLonger
<1> QED
  BY <1>2, <1>3, <1>4

(* The places of the first m elements of a sequence that are in S. *)
PlacesOf(seq, S, m) == {i \in 1 .. m : seq[i] \in S}

(* f tells for each element of s its place among the first m of seq. *)
Picks(f, s, seq, S, m) ==
    /\ f \in [1 .. Len(s) -> 1 .. m] /\ Ascending(f, Len(s))
    /\ {f[k] : k \in 1 .. Len(s)} = PlacesOf(seq, S, m)
    /\ \A k \in 1 .. Len(s) : s[k] = seq[f[k]]

(* A filter keeps the order. *)
LEMMA SelectInOrder ==
    ASSUME NEW T, NEW seq \in Seq(T), NEW S
    PROVE  \E f : Picks(f, SelectIn(seq, S), seq, S, Len(seq))
<1> DEFINE seqs == [k \in DOMAIN seq |-> IF seq[k] \in S THEN <<seq[k]>> ELSE <<>>]
           n == Len(seq)
           Good(s, m) == s \in Seq(T) /\ \E f : Picks(f, s, seq, S, m)
<1>1. DOMAIN seq = 1 .. n /\ n \in Nat
  OBVIOUS
<1>2. seqs = [k \in 1 .. n |-> IF seq[k] \in S THEN <<seq[k]>> ELSE <<>>]
  BY <1>1
<1>3. SelectIn(seq, S) = FlattenSeq(seqs) /\ Len(seqs) = n
  BY <1>1 DEF SelectIn
<1>4. \A k \in 1 .. n : seqs[k] = IF seq[k] \in S THEN <<seq[k]>> ELSE <<>>
  BY <1>2
<1> HIDE DEF seqs
<1>5. ASSUME NEW m \in 1 .. n, NEW s, Good(s, m - 1)
      PROVE  Good(s \o seqs[m], m)
  <2>1. s \in Seq(T) /\ seq[m] \in T /\ Len(s) \in Nat
    BY <1>1, <1>5
  <2>2. PICK f : Picks(f, s, seq, S, m - 1)
    BY <1>5
  <2>3. CASE seq[m] \notin S
    <3>1. s \o seqs[m] = s
      <4>1. seqs[m] = <<>>
        BY <1>4, <2>3
      <4>2. s \o <<>> = s
        BY <2>1
      <4> QED
        BY <4>1, <4>2
    <3>2. PlacesOf(seq, S, m) = PlacesOf(seq, S, m - 1)
      BY <1>1, <2>3 DEF PlacesOf
    <3>3. f \in [1 .. Len(s) -> 1 .. m]
      BY <1>1, <2>2 DEF Picks
    <3>4. Picks(f, s, seq, S, m)
      BY <2>2, <3>2, <3>3 DEF Picks
    <3> QED
      BY <2>1, <3>1, <3>4
  <2>4. CASE seq[m] \in S
    <3>1. s \o seqs[m] = Append(s, seq[m])
      <4>1. seqs[m] = <<seq[m]>>
        BY <1>4, <2>4
      <4>2. s \o <<seq[m]>> = Append(s, seq[m])
        BY <2>1
      <4> QED
        BY <4>1, <4>2
    <3>2. PICK t : t = Append(s, seq[m])
      OBVIOUS
    <3>3. /\ t \in Seq(T) /\ Len(t) = Len(s) + 1
          /\ t[Len(s) + 1] = seq[m] /\ \A i \in 1 .. Len(s) : t[i] = s[i]
      BY <2>1, <3>2
    <3> DEFINE g == [k \in 1 .. Len(s) + 1 |-> IF k = Len(s) + 1 THEN m ELSE f[k]]
    <3>4. f \in [1 .. Len(s) -> 1 .. m - 1]
      BY <2>2 DEF Picks
    <3>5. /\ g \in [1 .. Len(t) -> 1 .. m]
          /\ g[Len(s) + 1] = m /\ \A k \in 1 .. Len(s) : g[k] = f[k] /\ g[k] \in 1 .. m - 1
      <4>1. \A k \in 1 .. Len(s) : f[k] \in 1 .. m - 1
        BY <3>4
      <4>2. \A k \in 1 .. Len(s) : k # Len(s) + 1 /\ k \in 1 .. Len(s) + 1
        BY <2>1
      <4>3. g[Len(s) + 1] = m /\ \A k \in 1 .. Len(s) : g[k] = f[k]
        BY <2>1, <4>2
      <4>4. m \in 1 .. m /\ \A k \in 1 .. Len(s) : f[k] \in 1 .. m
        BY <1>1, <4>1
      <4>5. \A k \in 1 .. Len(s) + 1 : k = Len(s) + 1 \/ k \in 1 .. Len(s)
        BY <2>1
      <4>6. \A k \in 1 .. Len(s) + 1 : (IF k = Len(s) + 1 THEN m ELSE f[k]) \in 1 .. m
        BY <4>4, <4>5
      <4>7. g \in [1 .. Len(s) + 1 -> 1 .. m]
        BY <4>6
      <4> QED
        BY <3>3, <4>1, <4>3, <4>7
    <3> HIDE DEF g
    <3>6. Ascending(g, Len(t))
      <4>1. Ascending(f, Len(s))
        BY <2>2 DEF Picks
      <4>2. ASSUME NEW i \in 1 .. Len(s) + 1, NEW j \in 1 .. Len(s) + 1, i < j
            PROVE  g[i] < g[j]
        <5>1. i \in 1 .. Len(s) /\ (j = Len(s) + 1 \/ j \in 1 .. Len(s))
          BY <2>1, <4>2
        <5>2. CASE j = Len(s) + 1
          BY <1>1, <3>5, <5>1, <5>2
        <5>3. CASE j \in 1 .. Len(s)
          BY <3>5, <4>1, <4>2, <5>1, <5>3 DEF Ascending
        <5> QED
          BY <5>1, <5>2, <5>3
      <4> QED
        BY <3>3, <4>2 DEF Ascending
    <3>7. {g[k] : k \in 1 .. Len(t)} = {f[k] : k \in 1 .. Len(s)} \cup {m}
      <4>1. 1 .. Len(t) = 1 .. Len(s) \cup {Len(s) + 1}
        BY <2>1, <3>3
      <4> QED
        BY SMTT(20), <3>5, <4>1
    <3>8. PlacesOf(seq, S, m) = PlacesOf(seq, S, m - 1) \cup {m}
      BY <1>1, <2>4 DEF PlacesOf
    <3>9. ASSUME NEW k \in 1 .. Len(t) PROVE t[k] = seq[g[k]]
      <4>1. k \in 1 .. Len(s) \/ k = Len(s) + 1
        BY <2>1, <3>3
      <4> QED
        BY <2>2, <3>3, <3>5, <4>1 DEF Picks
    <3>10. Picks(g, t, seq, S, m)
      BY <2>2, <3>5, <3>6, <3>7, <3>8, <3>9 DEF Picks
    <3> QED
      BY <3>1, <3>2, <3>3, <3>10
  <2> QED
    BY <2>3, <2>4
<1>6. Good(<<>>, 0)
  <2> DEFINE f == [k \in 1 .. 0 |-> 0]
  <2>1. f \in [1 .. Len(<<>>) -> 1 .. 0] /\ Len(<<>>) = 0
    OBVIOUS
  <2>2. Picks(f, <<>>, seq, S, 0)
    BY <2>1 DEF Picks, PlacesOf, Ascending
  <2>3. <<>> \in Seq(T)
    OBVIOUS
  <2> QED
    BY <2>2, <2>3
<1>7. Good(FlattenSeq(seqs), n)
  <2>1. CASE n = 0
    <3>1. seqs = <<>>
      BY <1>2, <2>1
    <3>2. FlattenSeq(seqs) = seqs
      BY <1>3, <2>1 DEF FlattenSeq
    <3> QED
      BY <1>6, <2>1, <3>1, <3>2
  <2>2. CASE n # 0
    <3> DEFINE f == CHOOSE f : Flattens(f, seqs, n)
               Bad == {i \in Nat : i \in 1 .. n /\ ~Good(f[i], i)}
    <3>1. Flattens(f, seqs, n)
      BY <1>1, FlattenExists
    <3>2. FlattenSeq(seqs) = f[n]
      BY <1>3, <2>2 DEF FlattenSeq, Flattens
    <3> HIDE DEF f
    <3>3. \A i \in 1 .. n : f[i] = IF i = 1 THEN seqs[i] ELSE f[i - 1] \o seqs[i]
      BY <3>1 DEF Flattens
    <3> HIDE DEF Good
    <3>4. Good(seqs[1], 1)
      <4>1. Good(<<>> \o seqs[1], 1)
        <5>1. PICK m \in 1 .. n : m = 1 /\ m - 1 = 0
          BY <1>1, <2>2
        <5>2. Good(<<>>, m - 1)
          BY <1>6, <5>1
        <5> QED
          BY <1>5, <5>1, <5>2
      <4>2. <<>> \o seqs[1] = seqs[1]
        BY <1>1, <1>4, <2>2
      <4> QED
        BY <4>1, <4>2
    <3>5. Bad = {}
      <4>1. SUFFICES ASSUME Bad # {} PROVE FALSE
        OBVIOUS
      <4>2. PICK i \in Bad : \A k \in Bad : i <= k
        BY <4>1, LeastNumber
      <4>3. i # 1 /\ i \in 1 .. n
        BY <3>3, <3>4, <4>2
      <4>4. Good(f[i - 1], i - 1)
        BY <1>1, <4>2, <4>3
      <4>5. Good(f[i - 1] \o seqs[i], i)
        BY <1>5, <4>3, <4>4
      <4>6. f[i] = f[i - 1] \o seqs[i]
        BY <3>3, <4>3
      <4> QED
        BY <4>2, <4>5, <4>6
    <3> QED
      BY <1>1, <2>2, <3>2, <3>5
  <2> QED
    BY <2>1, <2>2
<1> QED
  BY <1>3, <1>7

(* Where what is selected lies together, the filter returns this part.     *)
LEMMA SelectInRun ==
    ASSUME NEW T, NEW seq \in Seq(T), NEW S, NEW a \in Nat, NEW n \in Nat, a + n <= Len(seq),
           \A i \in 1 .. Len(seq) : seq[i] \in S <=> a < i /\ i <= a + n
    PROVE  /\ Len(SelectIn(seq, S)) = n
           /\ \A k \in 1 .. n : SelectIn(seq, S)[k] = seq[a + k]
<1> DEFINE s == SelectIn(seq, S)
           g == [k \in 1 .. n |-> a + k]
<1>1. s \in Seq(S) /\ Len(s) \in Nat /\ Len(seq) \in Nat
  BY SelectInType
<1>2. PICK f : Picks(f, s, seq, S, Len(seq))
  BY SelectInOrder
<1> HIDE DEF s
<1>3. f \in [1 .. Len(s) -> Nat] /\ Ascending(f, Len(s))
  BY <1>1, <1>2 DEF Picks
<1>4. g \in [1 .. n -> Nat] /\ Ascending(g, n)
  BY DEF Ascending
<1>5. {f[k] : k \in 1 .. Len(s)} = {g[k] : k \in 1 .. n}
  <2>1. {f[k] : k \in 1 .. Len(s)} = {i \in 1 .. Len(seq) : a < i /\ i <= a + n}
    BY <1>2 DEF Picks, PlacesOf
  <2>2. {g[k] : k \in 1 .. n} = {i \in 1 .. Len(seq) : a < i /\ i <= a + n}
    <3>1. ASSUME NEW i \in 1 .. Len(seq), a < i, i <= a + n PROVE \E k \in 1 .. n : g[k] = i
      <4>1. i - a \in 1 .. n /\ g[i - a] = i
        BY <1>1, <3>1
      <4> QED
        BY <4>1
    <3>2. \A k \in 1 .. n : g[k] \in 1 .. Len(seq) /\ a < g[k] /\ g[k] <= a + n
      BY <1>1
    <3> HIDE DEF g
    <3> QED
      BY <3>1, <3>2
  <2> QED
    BY <2>1, <2>2
<1>6. Len(s) = n /\ \A k \in 1 .. Len(s) : f[k] = g[k]
  <2>1. PICK m, h, R : m = Len(s) /\ h = g /\ R = {g[k] : k \in 1 .. n}
    OBVIOUS
  <2> HIDE DEF g
  <2>2. m \in Nat /\ Lists(f, m, R) /\ Lists(h, n, R)
    BY <1>1, <1>3, <1>4, <1>5, <2>1 DEF Lists
  <2>3. m = n /\ \A k \in 1 .. m : f[k] = h[k]
    BY <2>2, AscendingListUnique
  <2> QED
    BY <2>1, <2>3
<1>7. \A k \in 1 .. n : s[k] = seq[a + k]
  BY <1>2, <1>6 DEF Picks
<1> QED
  BY <1>6, <1>7 DEF s

(* A filter that every element passes changes nothing.                     *)
LEMMA SelectAll ==
    ASSUME NEW T, NEW seq \in Seq(T), NEW S, \A i \in 1 .. Len(seq) : seq[i] \in S
    PROVE  /\ Len(SelectIn(seq, S)) = Len(seq)
           /\ \A k \in 1 .. Len(seq) : SelectIn(seq, S)[k] = seq[k]
<1>1. PICK a, n : a = 0 /\ n = Len(seq)
  OBVIOUS
<1>2. a \in Nat /\ n \in Nat /\ a + n <= Len(seq)
  BY <1>1
<1>3. \A i \in 1 .. Len(seq) : seq[i] \in S <=> a < i /\ i <= a + n
  BY <1>1
<1>4. /\ Len(SelectIn(seq, S)) = n
      /\ \A k \in 1 .. n : SelectIn(seq, S)[k] = seq[a + k]
  BY ZenonT(30), <1>2, <1>3, SelectInRun
<1>5. \A k \in 1 .. n : a + k = k
  BY <1>1
<1> QED
  BY <1>1, <1>4, <1>5

(* The elements of a sequence are in the order R, a set of pairs.          *)
InOrder(s, R) == \A p, q \in DOMAIN s : p < q => <<s[p], s[q]>> \in R

(* What is selected of a sequence is in the order of the sequence.         *)
LEMMA SelectInKeepsOrder ==
    ASSUME NEW T, NEW seq \in Seq(T), NEW S, NEW R, InOrder(seq, R)
    PROVE  InOrder(SelectIn(seq, S), R)
<1>1. PICK s : s = SelectIn(seq, S)
  OBVIOUS
<1>2. s \in Seq(S) /\ DOMAIN s = 1 .. Len(s) /\ Len(s) \in Nat /\ Len(seq) \in Nat
      /\ DOMAIN seq = 1 .. Len(seq)
  <2>1. s \in Seq(S)
    BY <1>1, SelectInType
  <2> QED
    BY <2>1
<1>3. PICK f : Picks(f, s, seq, S, Len(seq))
  BY <1>1, SelectInOrder
<1>4. ASSUME NEW p \in DOMAIN s, NEW q \in DOMAIN s, p < q
      PROVE  <<s[p], s[q]>> \in R
  <2>1. /\ f[p] \in DOMAIN seq /\ f[q] \in DOMAIN seq /\ f[p] < f[q]
        /\ s[p] = seq[f[p]] /\ s[q] = seq[f[q]]
    BY <1>2, <1>3, <1>4 DEF Picks, Ascending
  <2> QED
    BY <2>1 DEF InOrder
<1> QED
  BY <1>1, <1>4 DEF InOrder

(* Sequences each of which is in an order, and whose elements come before  *)
(* those of later ones, are flattened to a sequence in this order.         *)
LEMMA FlattenInOrder ==
    ASSUME NEW T, NEW seqs \in Seq(Seq(T)), NEW R,
           \A i, j \in DOMAIN seqs : \A a \in DOMAIN seqs[i], b \in DOMAIN seqs[j] :
              i < j \/ (i = j /\ a < b) => <<seqs[i][a], seqs[j][b]>> \in R
    PROVE  InOrder(FlattenSeq(seqs), R)
<1> DEFINE n == Len(seqs)
           From(s, m) == \A p \in DOMAIN s : \E i \in 1 .. m : \E a \in DOMAIN seqs[i] :
                            s[p] = seqs[i][a]
           Good(s, m) == s \in Seq(T) /\ InOrder(s, R) /\ From(s, m)
<1>1. DOMAIN seqs = 1 .. n /\ n \in Nat /\ \A i \in 1 .. n : seqs[i] \in Seq(T)
  OBVIOUS
<1>2. ASSUME NEW m \in 1 .. n, NEW s, Good(s, m - 1)
      PROVE  Good(s \o seqs[m], m)
  <2>1. PICK t, u : t = seqs[m] /\ u = s \o t
    OBVIOUS
  <2>2. s \in Seq(T) /\ t \in Seq(T)
    BY <1>1, <1>2, <2>1
  <2>3. /\ u \in Seq(T) /\ DOMAIN u = 1 .. Len(s) + Len(t) /\ DOMAIN s = 1 .. Len(s)
        /\ DOMAIN t = 1 .. Len(t) /\ Len(s) \in Nat /\ Len(t) \in Nat
        /\ \A p \in 1 .. Len(s) : u[p] = s[p]
        /\ \A p \in Len(s) + 1 .. Len(s) + Len(t) : u[p] = t[p - Len(s)]
    BY <2>1, <2>2
  <2>4. ASSUME NEW p \in DOMAIN s
        PROVE  \E i \in 1 .. m - 1 : \E a \in DOMAIN seqs[i] : u[p] = seqs[i][a]
    <3>1. \E i \in 1 .. m - 1 : \E a \in DOMAIN seqs[i] : s[p] = seqs[i][a]
      BY <1>2, Zenon
    <3>2. PICK x : x = u[p] /\ x = s[p]
      BY <2>3
    <3> QED
      BY <3>1, <3>2, Zenon
  <2>5. ASSUME NEW p \in DOMAIN u, p > Len(s)
        PROVE  p - Len(s) \in DOMAIN t /\ u[p] = t[p - Len(s)]
    <3>1. p \in Len(s) + 1 .. Len(s) + Len(t)
      BY <2>3, <2>5
    <3>2. p - Len(s) \in 1 .. Len(t)
      BY <2>3, <3>1
    <3> QED
      BY <2>3, <3>1, <3>2
  <2>6. From(u, m)
    <3>1. ASSUME NEW p \in DOMAIN u
          PROVE  \E i \in 1 .. m : \E a \in DOMAIN seqs[i] : u[p] = seqs[i][a]
      <4>1. CASE p \in DOMAIN s
        <5>1. \A i \in 1 .. m - 1 : i \in 1 .. m
          BY <1>1
        <5> QED
          BY <2>4, <4>1, <5>1
      <4>2. CASE p \notin DOMAIN s
        <5>1. p > Len(s) /\ m \in 1 .. m
          BY <1>1, <2>3, <4>2
        <5> QED
          BY <2>1, <2>5, <5>1
      <4> QED
        BY <4>1, <4>2
    <3> QED
      BY <3>1
  <2>7. InOrder(u, R)
    <3>1. ASSUME NEW p \in DOMAIN s, NEW q \in DOMAIN u, q > Len(s) PROVE <<u[p], u[q]>> \in R
      <4>1. PICK i \in 1 .. m - 1 : \E a \in DOMAIN seqs[i] : u[p] = seqs[i][a]
        BY <2>4
      <4>2. PICK a \in DOMAIN seqs[i] : u[p] = seqs[i][a]
        BY <4>1
      <4>3. q - Len(s) \in DOMAIN seqs[m] /\ u[q] = seqs[m][q - Len(s)]
        BY <2>1, <2>5, <3>1
      <4>4. i \in DOMAIN seqs /\ m \in DOMAIN seqs /\ i < m
        BY <1>1
      <4> QED
        BY <4>2, <4>3, <4>4
    <3>2. ASSUME NEW p \in DOMAIN u, NEW q \in DOMAIN u, p < q PROVE <<u[p], u[q]>> \in R
      <4>1. CASE p \in DOMAIN s /\ q \in DOMAIN s
        BY <1>2, <2>3, <3>2, <4>1 DEF InOrder
      <4>2. CASE p \notin DOMAIN s
        <5>1. p > Len(s) /\ q > Len(s)
          BY <2>3, <3>2, <4>2
        <5>2. /\ p - Len(s) \in DOMAIN seqs[m] /\ q - Len(s) \in DOMAIN seqs[m]
              /\ u[p] = seqs[m][p - Len(s)] /\ u[q] = seqs[m][q - Len(s)]
              /\ m \in DOMAIN seqs
          BY <1>1, <2>1, <2>5, <5>1
        <5>3. p - Len(s) < q - Len(s)
          BY <2>3, <3>2
        <5> QED
          BY <5>2, <5>3
      <4>3. CASE p \in DOMAIN s /\ q \notin DOMAIN s
        <5>1. q > Len(s)
          BY <2>3, <4>3
        <5> QED
          BY <3>1, <4>3, <5>1
      <4> QED
        BY <4>1, <4>2, <4>3
    <3> QED
      BY <3>2 DEF InOrder
  <2> HIDE DEF From
  <2> QED
    BY <2>1, <2>3, <2>6, <2>7
<1>3. Good(<<>>, 0)
  BY DEF InOrder
<1> HIDE DEF Good
<1>4. Good(FlattenSeq(seqs), n)
  <2>1. CASE n = 0
    <3>1. seqs = <<>>
      BY <2>1
    <3>2. FlattenSeq(seqs) = seqs
      BY <2>1 DEF FlattenSeq
    <3> QED
      BY <1>3, <2>1, <3>1, <3>2
  <2>2. CASE n # 0
    <3> DEFINE f == CHOOSE f : Flattens(f, seqs, n)
               Bad == {i \in Nat : i \in 1 .. n /\ ~Good(f[i], i)}
    <3>1. Flattens(f, seqs, n)
      BY <1>1, FlattenExists
    <3>2. FlattenSeq(seqs) = f[n]
      BY <2>2 DEF FlattenSeq, Flattens
    <3> HIDE DEF f
    <3>3. \A i \in 1 .. n : f[i] = IF i = 1 THEN seqs[i] ELSE f[i - 1] \o seqs[i]
      BY <3>1 DEF Flattens
    <3>4. Good(seqs[1], 1)
      <4>1. PICK m \in 1 .. n : m = 1 /\ m - 1 = 0
        BY <1>1, <2>2
      <4>2. Good(<<>>, m - 1)
        BY <1>3, <4>1
      <4>3. Good(<<>> \o seqs[m], m)
        BY <1>2, <4>2
      <4>4. <<>> \o seqs[m] = seqs[m]
        BY <1>1
      <4> QED
        BY <4>1, <4>3, <4>4
    <3>5. Bad = {}
      <4>1. SUFFICES ASSUME Bad # {} PROVE FALSE
        OBVIOUS
      <4>2. PICK i \in Bad : \A k \in Bad : i <= k
        BY <4>1, LeastNumber
      <4>3. i # 1 /\ i \in 1 .. n
        BY <3>3, <3>4, <4>2
      <4>4. Good(f[i - 1], i - 1)
        BY <1>1, <4>2, <4>3
      <4>5. Good(f[i - 1] \o seqs[i], i)
        BY <1>2, <4>3, <4>4
      <4>6. f[i] = f[i - 1] \o seqs[i]
        BY <3>3, <4>3
      <4> QED
        BY <4>2, <4>5, <4>6
    <3> QED
      <4>1. n \in 1 .. n /\ n \in Nat
        BY <1>1, <2>2
      <4>2. n \notin Bad => Good(f[n], n)
        BY <4>1
      <4> HIDE DEF Bad, n
      <4>3. Good(f[n], n)
        BY <3>5, <4>2
      <4> QED
        BY <3>2, <4>3
  <2> QED
    BY <2>1, <2>2
<1> QED
  BY <1>4 DEF Good

(* Sequences that repeat nothing and share nothing are flattened to a      *)
(* sequence that repeats nothing.                                          *)
LEMMA FlattenDistinct ==
    ASSUME NEW T, NEW seqs \in Seq(Seq(T)),
           \A i, j \in DOMAIN seqs : \A a \in DOMAIN seqs[i], b \in DOMAIN seqs[j] :
              seqs[i][a] = seqs[j][b] => i = j /\ a = b
    PROVE  \A p, q \in DOMAIN FlattenSeq(seqs) :
              FlattenSeq(seqs)[p] = FlattenSeq(seqs)[q] => p = q
<1> DEFINE R == {e \in T \X T : e[1] # e[2]}
<1>1. ASSUME NEW i \in DOMAIN seqs, NEW j \in DOMAIN seqs,
             NEW a \in DOMAIN seqs[i], NEW b \in DOMAIN seqs[j], i < j \/ (i = j /\ a < b)
      PROVE  <<seqs[i][a], seqs[j][b]>> \in R
  <2>1. seqs[i] \in Seq(T) /\ seqs[j] \in Seq(T) /\ i \in Nat /\ j \in Nat
    OBVIOUS
  <2>2. a \in Nat /\ b \in Nat /\ seqs[i][a] \in T /\ seqs[j][b] \in T
    BY <2>1
  <2> QED
    BY <1>1, <2>1, <2>2
<1> HIDE DEF R
<1>2. InOrder(FlattenSeq(seqs), R)
  BY <1>1, FlattenInOrder
<1>3. PICK s : s = FlattenSeq(seqs)
  OBVIOUS
<1>4. s \in Seq(T)
  BY <1>3, FlattenType
<1>5. ASSUME NEW p \in DOMAIN s, NEW q \in DOMAIN s, p < q PROVE s[p] # s[q]
  BY <1>2, <1>3, <1>5 DEF InOrder, R
<1> QED
  BY <1>3, <1>4, <1>5

=============================================================================
