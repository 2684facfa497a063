---------------------------- MODULE SafeOwnersProofs ----------------------------
(***************************************************************************)
(* Theorems about the owners of a Safe, for any Safe, wallets, crashes and *)
(* deployments.                                                            *)
(***************************************************************************)
EXTENDS SafeOwners, SelectionProofs

-----------------------------------------------------------------------------
(* The wallets in the order of their addresses *)

Increasing(seq) == \A j, k \in DOMAIN seq : j < k => seq[j] < seq[k]

Enumerates(seq, n, S) == seq \in [1 .. n -> S] /\ ToSet(seq) = S /\ Increasing(seq)

(* Where a number belongs in an increasing list.                           *)
LEMMA PlaceInOrder ==
    ASSUME NEW n \in Nat, NEW seq \in [1 .. n -> Nat], Increasing(seq),
           NEW a \in Nat, \A k \in 1 .. n : seq[k] # a
    PROVE  \E p \in 0 .. n : /\ \A k \in 1 .. n : k <= p => seq[k] < a
                             /\ \A k \in 1 .. n : k > p => a < seq[k]
<1> DEFINE K == {k \in 1 .. n : seq[k] < a}
<1>1. CASE K = {}
  <2>1. \A k \in 1 .. n : seq[k] \in Nat /\ ~(seq[k] < a) /\ seq[k] # a
    BY <1>1
  <2>2. \A k \in 1 .. n : k > 0 => a < seq[k]
    BY <2>1
  <2> QED
    BY <2>2
<1>2. CASE K # {}
  <2>1. PICK p \in K : \A j \in K : j <= p
    BY <1>2, GreatestIndex
  <2>2. p \in 0 .. n /\ p \in 1 .. n /\ seq[p] < a
    BY <2>1
  <2>3. ASSUME NEW k \in 1 .. n, k <= p PROVE seq[k] < a
    <3>1. k = p \/ seq[k] < seq[p]
      BY <2>2, <2>3 DEF Increasing
    <3> QED
      BY <2>2, <3>1
  <2>4. ASSUME NEW k \in 1 .. n, k > p PROVE a < seq[k]
    <3>1. k \notin K
      BY <2>1, <2>2, <2>4
    <3> QED
      BY <3>1
  <2> QED
    BY <2>2, <2>3, <2>4
<1> QED
  BY <1>1, <1>2

(* A number more can be put in its place.                                  *)
LEMMA InsertInOrder ==
    ASSUME NEW n \in Nat, NEW S \in SUBSET Nat, NEW seq, Enumerates(seq, n, S),
           NEW a \in Nat, a \notin S
    PROVE  \E new : Enumerates(new, n + 1, S \cup {a})
<1>1. /\ seq \in [1 .. n -> Nat] /\ DOMAIN seq = 1 .. n /\ Increasing(seq)
      /\ \A k \in 1 .. n : seq[k] \in S /\ seq[k] # a
      /\ \A b \in S : \E k \in 1 .. n : seq[k] = b
  BY DEF Enumerates, ToSet
<1>2. PICK p \in 0 .. n : /\ \A k \in 1 .. n : k <= p => seq[k] < a
                          /\ \A k \in 1 .. n : k > p => a < seq[k]
  BY <1>1, PlaceInOrder
<1>3. PICK new : new = [k \in 1 .. n + 1 |-> IF k <= p THEN seq[k]
                                             ELSE IF k = p + 1 THEN a ELSE seq[k - 1]]
  OBVIOUS
<1>4. /\ DOMAIN new = 1 .. n + 1
      /\ \A k \in 1 .. n + 1 : new[k] = IF k <= p THEN seq[k]
                                        ELSE IF k = p + 1 THEN a ELSE seq[k - 1]
  BY <1>3
<1>5. /\ \A k \in 1 .. n : k <= p => k \in 1 .. n + 1 /\ new[k] = seq[k]
      /\ p + 1 \in 1 .. n + 1 /\ new[p + 1] = a
      /\ \A k \in 1 .. n : k > p => k + 1 \in 1 .. n + 1 /\ new[k + 1] = seq[k]
  BY <1>4
<1>6. ASSUME NEW k \in 1 .. n + 1
      PROVE  \/ k <= p /\ k \in 1 .. n /\ new[k] = seq[k]
             \/ k = p + 1 /\ new[k] = a
             \/ k > p + 1 /\ k - 1 \in 1 .. n /\ new[k] = seq[k - 1]
  BY <1>4
<1>7. \A k \in 1 .. n + 1 : new[k] \in S \cup {a}
  BY <1>1, <1>6
<1>8. new \in [1 .. n + 1 -> S \cup {a}]
  BY <1>3, <1>7
<1>9. ASSUME NEW b \in S \cup {a} PROVE b \in ToSet(new)
  <2>1. CASE b = a
    BY <1>4, <1>5, <2>1 DEF ToSet
  <2>2. CASE b \in S
    <3>1. PICK k \in 1 .. n : seq[k] = b
      BY <1>1, <2>2
    <3>2. k <= p \/ k > p
      OBVIOUS
    <3>3. \E j \in 1 .. n + 1 : new[j] = b
      BY <1>5, <3>1, <3>2
    <3> QED
      BY <1>4, <3>3 DEF ToSet
  <2> QED
    BY <2>1, <2>2
<1>10. ToSet(new) = S \cup {a}
  BY <1>4, <1>7, <1>9 DEF ToSet
<1>11. ASSUME NEW j \in 1 .. n + 1, NEW k \in 1 .. n + 1, j < k
       PROVE  new[j] < new[k]
  <2>1. CASE k <= p
    <3>1. j <= p /\ j \in 1 .. n /\ k \in 1 .. n
      BY <1>11, <2>1
    <3> QED
      BY <1>1, <1>5, <1>11, <2>1, <3>1 DEF Increasing
  <2>2. CASE k = p + 1
    <3>1. j <= p /\ j \in 1 .. n
      BY <1>11, <2>2
    <3> QED
      BY <1>2, <1>5, <2>2, <3>1
  <2>3. CASE k > p + 1
    <3>1. k - 1 \in 1 .. n /\ k - 1 > p /\ new[k] = seq[k - 1]
      BY <1>6, <2>3
    <3>2. CASE j <= p
      <4>1. j \in 1 .. n /\ new[j] = seq[j] /\ j < k - 1
        BY <1>6, <2>3, <3>2
      <4> QED
        BY <1>1, <3>1, <4>1 DEF Increasing
    <3>3. CASE j = p + 1
      BY <1>2, <1>5, <3>1, <3>3
    <3>4. CASE j > p + 1
      <4>1. j - 1 \in 1 .. n /\ new[j] = seq[j - 1] /\ j - 1 < k - 1
        BY <1>6, <1>11, <3>4
      <4> QED
        BY <1>1, <3>1, <4>1 DEF Increasing
    <3> QED
      BY <3>2, <3>3, <3>4
  <2> QED
    BY <2>1, <2>2, <2>3
<1> QED
  BY <1>4, <1>8, <1>10, <1>11 DEF Enumerates, Increasing

WalletSet(n) == {WalletAddress[i] : i \in 0 .. n - 1}

(* Any number of wallets can be sorted.                                    *)
LEMMA WalletsEnumerable ==
    ASSUME NEW n \in 0 .. NumWallets
    PROVE  \E seq : Enumerates(seq, n, WalletSet(n))
<1> DEFINE Good(m) == \E seq : Enumerates(seq, m, WalletSet(m))
           Bad == {m \in 0 .. NumWallets : ~Good(m)}
<1>1. NumWallets \in Nat
  BY SafeOwnersAssumption
<1>2. Good(0)
  <2>1. Enumerates(<<>>, 0, WalletSet(0))
    <3>1. WalletSet(0) = {}
      BY DEF WalletSet
    <3>2. <<>> \in [1 .. 0 -> {}] /\ DOMAIN <<>> = {}
      OBVIOUS
    <3>3. ToSet(<<>>) = {} /\ Increasing(<<>>)
      BY <3>2 DEF ToSet, Increasing
    <3> QED
      BY <3>1, <3>2, <3>3, Zenon DEF Enumerates
  <2> QED
    BY <2>1
<1>3. ASSUME NEW m \in 0 .. NumWallets, m # 0, Good(m - 1)
      PROVE  Good(m)
  <2>1. m - 1 \in Nat /\ m - 1 \in 0 .. NumWallets - 1 /\ (m - 1) + 1 = m
    BY <1>1, <1>3
  <2>2. PICK a : a = WalletAddress[m - 1]
    OBVIOUS
  <2>3. \A i \in 0 .. NumWallets - 1 : WalletAddress[i] \in Nat
    BY SafeOwnersAssumption
  <2>4. a \in Nat
    BY <2>1, <2>2, <2>3
  <2>5. \A i \in 0 .. (m - 1) - 1 : i \in 0 .. NumWallets - 1 /\ i # m - 1
    BY <1>1, <2>1
  <2>6. WalletSet(m - 1) \in SUBSET Nat
    BY <2>3, <2>5 DEF WalletSet
  <2>7. a \notin WalletSet(m - 1)
    <3>1. \A i \in 0 .. (m - 1) - 1 : WalletAddress[i] # a
      BY <2>1, <2>2, <2>5, SafeOwnersAssumption DEF IsInjective
    <3> QED
      BY <3>1 DEF WalletSet
  <2>8. WalletSet(m) = WalletSet(m - 1) \cup {a}
    <3>1. \A i : i \in 0 .. m - 1 <=> i \in 0 .. (m - 1) - 1 \/ i = m - 1
      BY <2>1
    <3> QED
      BY <2>2, <3>1 DEF WalletSet
  <2>9. PICK seq : Enumerates(seq, m - 1, WalletSet(m - 1))
    BY <1>3
  <2>10. PICK S : S = WalletSet(m - 1)
    OBVIOUS
  <2>11. \E new : Enumerates(new, (m - 1) + 1, S \cup {a})
    BY <2>1, <2>4, <2>6, <2>7, <2>9, <2>10, InsertInOrder
  <2> QED
    BY <2>1, <2>8, <2>10, <2>11
<1> HIDE DEF Good
<1>4. Bad = {}
  <2> SUFFICES ASSUME Bad # {} PROVE FALSE
    OBVIOUS
  <2>0. Bad \subseteq Nat
    BY <1>1
  <2>1. PICK m \in Bad : \A k \in Bad : m <= k
    BY <2>0, LeastNumber
  <2>2. m # 0 /\ m \in 0 .. NumWallets
    BY <1>2, <2>1
  <2>3. m - 1 \in 0 .. NumWallets /\ m - 1 \notin Bad
    BY <1>1, <2>1, <2>2
  <2> QED
    BY <1>3, <2>1, <2>2, <2>3
<1> QED
  BY <1>4 DEF Good

(* An enumeration is a list without repetitions.                           *)
LEMMA EnumerationIsList ==
    ASSUME NEW n \in Nat, NEW S \in SUBSET Nat, NEW seq, Enumerates(seq, n, S)
    PROVE  /\ seq \in Seq(S) /\ Len(seq) = n /\ DOMAIN seq = 1 .. n
           /\ \A j, k \in DOMAIN seq : seq[j] = seq[k] => j = k
           /\ IsFiniteSet(S) /\ Cardinality(S) = n
<1>1. seq \in Seq(S) /\ Len(seq) = n /\ DOMAIN seq = 1 .. n /\ ToSet(seq) = S
  BY DEF Enumerates
<1>2. ASSUME NEW j \in 1 .. n, NEW k \in 1 .. n, seq[j] = seq[k] PROVE j = k
  <2>0. \A m \in 1 .. n : seq[m] \in S
    BY DEF Enumerates
  <2>1. seq[j] \in Nat /\ seq[k] \in Nat
    BY <2>0
  <2>2. ~(j < k) /\ ~(k < j)
    BY <1>1, <1>2, <2>1 DEF Enumerates, Increasing
  <2> QED
    BY <2>2
<1>3. \A j, k \in DOMAIN seq : seq[j] = seq[k] => j = k
  BY <1>1, <1>2
<1> QED
  BY <1>1, <1>3, DistinctCardinality

(* The wallets that an attempt works on.                                   *)
LEMMA SortedWalletsList ==
    ASSUME NEW n \in 0 .. NumWallets
    PROVE  /\ SortedWallets(n) \in Seq(Wallets) /\ Len(SortedWallets(n)) = n
           /\ DOMAIN SortedWallets(n) = 1 .. n
           /\ \A j, k \in DOMAIN SortedWallets(n) :
                 SortedWallets(n)[j] = SortedWallets(n)[k] => j = k
<1>1. NumWallets \in Nat /\ n \in Nat
  BY SafeOwnersAssumption
<1>2. PICK S : S = WalletSet(n)
  OBVIOUS
<1>3. S \in SUBSET Nat /\ S \subseteq Wallets
  <2>1. \A i \in 0 .. n - 1 : i \in 0 .. NumWallets - 1
    BY <1>1
  <2>2. \A i \in 0 .. NumWallets - 1 : WalletAddress[i] \in Nat
    BY SafeOwnersAssumption
  <2> QED
    BY <1>2, <2>1, <2>2 DEF WalletSet, Wallets
<1>4. PICK seq : Enumerates(seq, n, S)
  BY <1>2, WalletsEnumerable
<1>5. Cardinality(S) = n
  BY <1>1, <1>3, <1>4, EnumerationIsList
<1>6. SortedWallets(n) = CHOOSE s \in [1 .. n -> S] :
          ToSet(s) = S /\ \A j, k \in DOMAIN s : j < k => s[j] < s[k]
  BY <1>2, <1>5 DEF SortedWallets, Sorted, WalletSet
<1>7. \E s \in [1 .. n -> S] : ToSet(s) = S /\ \A j, k \in DOMAIN s : j < k => s[j] < s[k]
  BY <1>4 DEF Enumerates, Increasing
<1>8. PICK sorted : sorted = SortedWallets(n)
  OBVIOUS
<1>9. Enumerates(sorted, n, S)
  BY <1>6, <1>7, <1>8 DEF Enumerates, Increasing
<1>10. /\ sorted \in Seq(S) /\ Len(sorted) = n /\ DOMAIN sorted = 1 .. n
       /\ \A j, k \in DOMAIN sorted : sorted[j] = sorted[k] => j = k
  BY <1>1, <1>3, <1>9, EnumerationIsList
<1>11. sorted \in Seq(Wallets)
  <2>1. \A k \in 1 .. n : sorted[k] \in S
    BY <1>9 DEF Enumerates
  <2>2. \A k \in 1 .. n : sorted[k] \in Wallets
    BY <1>3, <2>1
  <2>3. sorted \in [1 .. n -> Wallets]
    BY <1>9, <2>2 DEF Enumerates
  <2> QED
    BY <1>1, <2>3
<1> QED
  BY <1>8, <1>10, <1>11

-----------------------------------------------------------------------------
(* The list of owners *)

Added(old, new, a) ==
    /\ Len(new) = Len(old) + 1
    /\ new[1] = a
    /\ \A k \in 1 .. Len(old) : new[k + 1] = old[k]

Removed(old, new, j) ==
    /\ Len(new) = Len(old) - 1
    /\ \A k \in 1 .. Len(new) : new[k] = IF k < j THEN old[k] ELSE old[k + 1]

(* A new head.                                                             *)
LEMMA HeadAdded ==
    ASSUME NEW T, NEW old \in Seq(T), IsInjective(old), NEW a \in T, a \notin ToSet(old)
    PROVE  /\ <<a>> \o old \in Seq(T) /\ IsInjective(<<a>> \o old)
           /\ Added(old, <<a>> \o old, a)
           /\ ToSet(<<a>> \o old) = ToSet(old) \cup {a}
<1>1. Len(old) \in Nat /\ DOMAIN old = 1 .. Len(old)
  OBVIOUS
<1>2. PICK new : new = <<a>> \o old
  OBVIOUS
<1>3. /\ new \in Seq(T) /\ Len(new) = Len(old) + 1 /\ DOMAIN new = 1 .. Len(old) + 1
      /\ new[1] = a /\ \A k \in 1 .. Len(old) : new[k + 1] = old[k]
  BY <1>2
<1>4. \A k \in 1 .. Len(old) : old[k] # a
  BY <1>1 DEF ToSet
<1>5. \A k \in DOMAIN new : k = 1 \/ (k - 1 \in 1 .. Len(old) /\ new[k] = old[k - 1])
  BY <1>1, <1>3
<1>6. ASSUME NEW j \in DOMAIN new, NEW k \in DOMAIN new, new[j] = new[k]
      PROVE  j = k
  <2>1. CASE j = 1 \/ k = 1
    BY <1>3, <1>4, <1>5, <1>6, <2>1
  <2>2. CASE j # 1 /\ k # 1
    <3>1. /\ j - 1 \in DOMAIN old /\ k - 1 \in DOMAIN old
          /\ old[j - 1] = old[k - 1]
      BY <1>1, <1>5, <1>6, <2>2
    <3>2. j - 1 = k - 1
      BY <3>1 DEF IsInjective
    <3> QED
      BY <1>3, <3>2
  <2> QED
    BY <2>1, <2>2
<1>7. ToSet(new) = ToSet(old) \cup {a}
  <2>1. \A b \in ToSet(old) : \E k \in DOMAIN new : new[k] = b
    <3>1. \A k \in 1 .. Len(old) : k + 1 \in DOMAIN new
      BY <1>1, <1>3
    <3> QED
      BY <1>1, <1>3, <3>1 DEF ToSet
  <2>2. \E k \in DOMAIN new : new[k] = a
    BY <1>1, <1>3
  <2>3. \A k \in DOMAIN new : new[k] = a \/ new[k] \in ToSet(old)
    BY <1>1, <1>3, <1>5 DEF ToSet
  <2> QED
    BY <2>1, <2>2, <2>3 DEF ToSet
<1> QED
  BY <1>2, <1>3, <1>6, <1>7, Zenon DEF Added, IsInjective

(* An element of the second of two lists put together.                     *)
LEMMA ElementOfSecond ==
    ASSUME NEW T, NEW s \in Seq(T), NEW t \in Seq(T), NEW k \in 1 .. Len(s) + Len(t),
           ~(k <= Len(s))
    PROVE  (s \o t)[k] = t[k - Len(s)]
  OBVIOUS

(* One entry less.                                                         *)
LEMMA EntryRemoved ==
    ASSUME NEW T, NEW old \in Seq(T), IsInjective(old), NEW j \in DOMAIN old
    PROVE  /\ RemoveAt(old, j) \in Seq(T) /\ IsInjective(RemoveAt(old, j))
           /\ Removed(old, RemoveAt(old, j), j)
           /\ ToSet(RemoveAt(old, j)) = ToSet(old) \ {old[j]}
<1>1. Len(old) \in Nat /\ DOMAIN old = 1 .. Len(old) /\ j \in 1 .. Len(old)
  OBVIOUS
<1>2. PICK new : new = RemoveAt(old, j)
  OBVIOUS
<1>3. PICK front, back : /\ front = SubSeq(old, 1, j - 1)
                         /\ back = SubSeq(old, j + 1, Len(old))
  OBVIOUS
<1>4. /\ front \in Seq(T) /\ Len(front) = j - 1
      /\ \A k \in 1 .. j - 1 : front[k] = old[k]
  BY <1>1, <1>3
<1>5. /\ back \in Seq(T) /\ Len(back) = Len(old) - j
      /\ \A k \in 1 .. Len(old) - j : back[k] = old[j + k]
  <2>1. j + 1 \in 1 .. Len(old) + 1
    BY <1>1
  <2>2. back \in Seq(T) /\ Len(back) = IF j + 1 <= Len(old) THEN Len(old) - (j + 1) + 1 ELSE 0
    BY <1>1, <1>3, <2>1
  <2>3. Len(back) = Len(old) - j
    BY <1>1, <2>2
  <2>4. \A k \in 1 .. Len(old) - (j + 1) + 1 : back[k] = old[(j + 1) + k - 1]
    BY <1>1, <1>3, <2>1
  <2>5. \A k \in 1 .. Len(old) - j : back[k] = old[j + k]
    BY <1>1, <2>4
  <2> QED
    BY <2>2, <2>3, <2>5
<1>6. new = front \o back
  BY <1>2, <1>3 DEF RemoveAt
<1>7. /\ new \in Seq(T) /\ Len(new) = Len(old) - 1 /\ DOMAIN new = 1 .. Len(old) - 1
  <2>0. front \in Seq(T) /\ back \in Seq(T)
    BY <1>4, <1>5
  <2>1. new \in Seq(T) /\ Len(new) = Len(front) + Len(back)
    BY <1>6, <2>0
  <2>2. Len(front) + Len(back) = Len(old) - 1
    BY <1>1, <1>4, <1>5
  <2> QED
    BY <2>1, <2>2
<1>8. ASSUME NEW k \in 1 .. Len(old) - 1
      PROVE  new[k] = IF k < j THEN old[k] ELSE old[k + 1]
  <2>1. CASE k < j
    BY <1>1, <1>4, <1>5, <1>6, <2>1
  <2>2. CASE ~(k < j)
    <3>1. k - (j - 1) \in 1 .. Len(old) - j /\ j + (k - (j - 1)) = k + 1
      BY <1>1, <2>2
    <3>2. new[k] = back[k - (j - 1)]
      <4>1. Len(front) = j - 1 /\ Len(back) = Len(old) - j /\ front \in Seq(T) /\ back \in Seq(T)
        BY <1>4, <1>5
      <4>2. k \in 1 .. Len(front) + Len(back) /\ ~(k <= Len(front)) /\ k - Len(front) = k - (j - 1)
        BY <1>1, <2>2, <4>1
      <4>3. new[k] = back[k - Len(front)]
        BY <1>6, <4>1, <4>2, ElementOfSecond
      <4> QED
        BY <4>2, <4>3, Zenon
    <3> QED
      BY <1>5, <2>2, <3>1, <3>2
  <2> QED
    BY <2>1, <2>2
<1>9. ASSUME NEW k \in DOMAIN new
      PROVE  \/ k < j /\ k \in DOMAIN old /\ new[k] = old[k]
             \/ k >= j /\ k + 1 \in DOMAIN old /\ new[k] = old[k + 1]
  BY <1>1, <1>7, <1>8
<1>10. ASSUME NEW m \in DOMAIN new, NEW k \in DOMAIN new, new[m] = new[k]
      PROVE  m = k
  <2>1. m \in Nat /\ k \in Nat
    BY <1>1, <1>7
  <2>2. m = k \/ m + 1 = k + 1 \/ (m < j /\ k >= j /\ m = k + 1) \/ (k < j /\ m >= j /\ m + 1 = k)
    BY <1>9, <1>10 DEF IsInjective
  <2> QED
    BY <1>1, <2>1, <2>2
<1>11. ToSet(new) = ToSet(old) \ {old[j]}
  <2>1. ASSUME NEW k \in DOMAIN old, k # j PROVE old[k] \in ToSet(new)
    <3>1. CASE k < j
      <4>1. k \in DOMAIN new /\ new[k] = old[k]
        BY <1>1, <1>7, <1>8, <3>1
      <4> QED
        BY <4>1 DEF ToSet
    <3>2. CASE k > j
      <4>1. k - 1 \in DOMAIN new /\ ~(k - 1 < j) /\ (k - 1) + 1 = k
        BY <1>1, <1>7, <3>2
      <4>2. new[k - 1] = old[k]
        BY <1>7, <1>8, <4>1
      <4> QED
        BY <4>1, <4>2 DEF ToSet
    <3> QED
      BY <1>1, <2>1, <3>1, <3>2
  <2>2. ASSUME NEW k \in DOMAIN new PROVE new[k] \in ToSet(old) /\ new[k] # old[j]
    <3>1. CASE k < j
      <4>1. k \in DOMAIN old /\ new[k] = old[k] /\ k # j
        BY <1>1, <1>9, <3>1
      <4> QED
        BY <4>1 DEF ToSet, IsInjective
    <3>2. CASE k >= j
      <4>0. k \in Nat /\ j \in Nat
        BY <1>1, <1>7
      <4>1. k + 1 \in DOMAIN old /\ new[k] = old[k + 1]
        BY <1>9, <3>2, <4>0
      <4>2. k + 1 # j
        BY <3>2, <4>0
      <4> QED
        BY <4>1, <4>2 DEF ToSet, IsInjective
    <3> QED
      BY <1>1, <1>7, <3>1, <3>2
  <2>3. \A b \in ToSet(old) : b # old[j] => b \in ToSet(new)
    BY <2>1 DEF ToSet
  <2>4. \A b \in ToSet(new) : b \in ToSet(old) /\ b # old[j]
    BY <2>2 DEF ToSet
  <2> QED
    BY <2>3, <2>4
<1> QED
  BY <1>2, <1>7, <1>8, <1>10, <1>11, Zenon DEF Removed, IsInjective

(* A wallet that comes or goes leaves the project's owners as they are.    *)
LEMMA WalletAddedKeepsOrder ==
    ASSUME NEW T, NEW old \in Seq(T), NEW new \in Seq(T), NEW a \in Wallets,
           Added(old, new, a)
    PROVE  ProjectOwners(new) = ProjectOwners(old) /\ ProjectOrder(new) = ProjectOrder(old)
<1>1. /\ DOMAIN old = 1 .. Len(old) /\ Len(old) \in Nat
      /\ DOMAIN new = 1 .. Len(old) + 1
      /\ new[1] = a /\ \A k \in 1 .. Len(old) : new[k + 1] = old[k]
  BY DEF Added
<1>2. \A k \in DOMAIN old : k + 1 \in DOMAIN new /\ new[k + 1] = old[k]
  BY <1>1
<1>3. \A k \in DOMAIN new : new[k] \notin Wallets =>
          k - 1 \in DOMAIN old /\ old[k - 1] = new[k]
  <2>1. \A k \in DOMAIN new : k # 1 => k - 1 \in 1 .. Len(old) /\ (k - 1) + 1 = k
    BY <1>1
  <2> QED
    BY <1>1, <2>1
<1>4. ProjectOwners(new) = ProjectOwners(old)
  <2>1. \A x : x \notin Wallets => ((\E k \in DOMAIN new : new[k] = x) <=> (\E k \in DOMAIN old : old[k] = x))
    BY <1>2, <1>3
  <2> QED
    BY <2>1 DEF ProjectOwners, ToSet
<1>5. ASSUME NEW x, NEW y, x \notin Wallets, y \notin Wallets
      PROVE  (\E j, k \in DOMAIN new : j < k /\ new[j] = x /\ new[k] = y)
             <=> (\E j, k \in DOMAIN old : j < k /\ old[j] = x /\ old[k] = y)
  <2>1. ASSUME NEW j \in DOMAIN new, NEW k \in DOMAIN new, j < k, new[j] = x, new[k] = y
        PROVE  \E m, l \in DOMAIN old : m < l /\ old[m] = x /\ old[l] = y
    <3>1. j - 1 \in DOMAIN old /\ old[j - 1] = x /\ k - 1 \in DOMAIN old /\ old[k - 1] = y
      BY <1>3, <1>5, <2>1
    <3>2. j - 1 < k - 1
      BY <1>1, <2>1
    <3> QED
      BY <3>1, <3>2
  <2>2. ASSUME NEW j \in DOMAIN old, NEW k \in DOMAIN old, j < k, old[j] = x, old[k] = y
        PROVE  \E m, l \in DOMAIN new : m < l /\ new[m] = x /\ new[l] = y
    <3>1. j + 1 < k + 1
      BY <1>1, <2>2
    <3> QED
      BY <1>2, <2>2, <3>1
  <2> QED
    BY <2>1, <2>2
<1>6. ASSUME NEW x \in ProjectOwners(old), NEW y \in ProjectOwners(old)
      PROVE  x \notin Wallets /\ y \notin Wallets
  BY DEF ProjectOwners
<1>7. ProjectOrder(new) = ProjectOrder(old)
  <2>1. ASSUME NEW pair \in ProjectOwners(old) \X ProjectOwners(old)
        PROVE  (\E j, k \in DOMAIN new : j < k /\ new[j] = pair[1] /\ new[k] = pair[2])
               <=> (\E j, k \in DOMAIN old : j < k /\ old[j] = pair[1] /\ old[k] = pair[2])
    <3>1. PICK x, y : x = pair[1] /\ y = pair[2]
      OBVIOUS
    <3>2. x \notin Wallets /\ y \notin Wallets
      BY <1>6, <3>1
    <3>3. (\E j, k \in DOMAIN new : j < k /\ new[j] = x /\ new[k] = y)
          <=> (\E j, k \in DOMAIN old : j < k /\ old[j] = x /\ old[k] = y)
      BY <1>5, <3>2, Zenon
    <3> QED
      BY <3>1, <3>3, Zenon
  <2> QED
    BY <1>4, <2>1 DEF ProjectOrder
<1> QED
  BY <1>4, <1>7

(* The same for a wallet that goes.                                        *)
LEMMA WalletRemovedKeepsOrder ==
    ASSUME NEW T, NEW old \in Seq(T), NEW new \in Seq(T), NEW i \in DOMAIN old,
           old[i] \in Wallets, Removed(old, new, i)
    PROVE  ProjectOwners(new) = ProjectOwners(old) /\ ProjectOrder(new) = ProjectOrder(old)
<1>1. /\ DOMAIN old = 1 .. Len(old) /\ Len(old) \in Nat /\ i \in 1 .. Len(old)
      /\ DOMAIN new = 1 .. Len(old) - 1
      /\ \A k \in DOMAIN new : new[k] = IF k < i THEN old[k] ELSE old[k + 1]
  BY DEF Removed
<1> DEFINE Was(k) == IF k < i THEN k ELSE k + 1
           Is(k) == IF k < i THEN k ELSE k - 1
<1>2. \A k \in DOMAIN new : Was(k) \in DOMAIN old /\ new[k] = old[Was(k)]
  BY <1>1
<1>3. \A k \in DOMAIN old : old[k] \notin Wallets =>
          Is(k) \in DOMAIN new /\ new[Is(k)] = old[k]
  <2>1. ASSUME NEW k \in DOMAIN old, old[k] \notin Wallets
        PROVE  Is(k) \in DOMAIN new /\ new[Is(k)] = old[k]
    <3>1. k # i
      BY <2>1
    <3>2. CASE k < i
      <4>1. k \in DOMAIN new
        BY <1>1, <3>2
      <4> QED
        BY <1>1, <3>2, <4>1
    <3>3. CASE k > i
      <4>1. k - 1 \in DOMAIN new /\ ~(k - 1 < i) /\ (k - 1) + 1 = k /\ ~(k < i)
        BY <1>1, <3>3
      <4>2. new[k - 1] = old[k]
        BY <1>1, <4>1
      <4> QED
        BY <4>1, <4>2
    <3> QED
      BY <1>1, <3>1, <3>2, <3>3
  <2> QED
    BY <2>1
<1>4. \A j, k \in DOMAIN new : j < k => Was(j) < Was(k)
  BY <1>1
<1>5. \A j, k \in DOMAIN old : j < k /\ k # i => (Is(j) < Is(k) \/ j = i)
  BY <1>1
<1> HIDE DEF Was, Is
<1>6. ProjectOwners(new) = ProjectOwners(old)
  <2>1. \A x : x \notin Wallets => ((\E k \in DOMAIN new : new[k] = x) <=> (\E k \in DOMAIN old : old[k] = x))
    BY <1>2, <1>3
  <2> QED
    BY <2>1 DEF ProjectOwners, ToSet
<1>7. ASSUME NEW x, NEW y, x \notin Wallets, y \notin Wallets
      PROVE  (\E j, k \in DOMAIN new : j < k /\ new[j] = x /\ new[k] = y)
             <=> (\E j, k \in DOMAIN old : j < k /\ old[j] = x /\ old[k] = y)
  <2>1. ASSUME NEW j \in DOMAIN new, NEW k \in DOMAIN new, j < k, new[j] = x, new[k] = y
        PROVE  \E m, l \in DOMAIN old : m < l /\ old[m] = x /\ old[l] = y
    BY <1>2, <1>4, <2>1
  <2>2. ASSUME NEW j \in DOMAIN old, NEW k \in DOMAIN old, j < k, old[j] = x, old[k] = y
        PROVE  \E m, l \in DOMAIN new : m < l /\ new[m] = x /\ new[l] = y
    <3>1. j # i /\ k # i
      BY <1>7, <2>2
    <3> QED
      BY <1>3, <1>5, <1>7, <2>2, <3>1
  <2> QED
    BY <2>1, <2>2
<1>8. ASSUME NEW x \in ProjectOwners(old), NEW y \in ProjectOwners(old)
      PROVE  x \notin Wallets /\ y \notin Wallets
  BY DEF ProjectOwners
<1>9. ProjectOrder(new) = ProjectOrder(old)
  <2>1. ASSUME NEW pair \in ProjectOwners(old) \X ProjectOwners(old)
        PROVE  (\E j, k \in DOMAIN new : j < k /\ new[j] = pair[1] /\ new[k] = pair[2])
               <=> (\E j, k \in DOMAIN old : j < k /\ old[j] = pair[1] /\ old[k] = pair[2])
    <3>1. PICK x, y : x = pair[1] /\ y = pair[2]
      OBVIOUS
    <3>2. x \notin Wallets /\ y \notin Wallets
      BY <1>8, <3>1
    <3>3. (\E j, k \in DOMAIN new : j < k /\ new[j] = x /\ new[k] = y)
          <=> (\E j, k \in DOMAIN old : j < k /\ old[j] = x /\ old[k] = y)
      BY <1>7, <3>2, Zenon
    <3> QED
      BY <3>1, <3>3, Zenon
  <2> QED
    BY <1>6, <2>1 DEF ProjectOrder
<1> QED
  BY <1>6, <1>9

-----------------------------------------------------------------------------
(* The Safe, before and after a call *)

SafeOK(s) ==
    /\ s \in [owners : Seq(Owners \cup Wallets), threshold : 1 .. NumWallets]
    /\ IsInjective(s.owners) /\ s.threshold <= Len(s.owners)

(* What a call of addOwnerWithThreshold leaves.                            *)
LEMMA AddOwnerResult ==
    ASSUME SafeOK(safe), NEW a \in Owners \cup Wallets, NEW t \in 1 .. NumWallets
    PROVE  /\ SafeOK(AddOwner(a, t))
           /\ \/ AddOwner(a, t) = safe /\ (IsOwner(a) \/ t > Len(safe.owners) + 1)
              \/ /\ ~IsOwner(a) /\ AddOwner(a, t).threshold = t
                 /\ Added(safe.owners, AddOwner(a, t).owners, a)
                 /\ ToSet(AddOwner(a, t).owners) = ToSet(safe.owners) \cup {a}
<1>1. NumWallets \in Nat
  BY SafeOwnersAssumption
<1>2. CASE ~IsOwner(a) /\ t \in 1 .. Len(safe.owners) + 1
  <2>1. PICK old : old = safe.owners
    OBVIOUS
  <2>2. PICK new : new = <<a>> \o old
    OBVIOUS
  <2>3. old \in Seq(Owners \cup Wallets) /\ IsInjective(old) /\ a \notin ToSet(old)
    BY <1>2, <2>1 DEF SafeOK, IsOwner
  <2>4. /\ new \in Seq(Owners \cup Wallets) /\ IsInjective(new)
        /\ Added(old, new, a) /\ ToSet(new) = ToSet(old) \cup {a}
    <3>1. PICK T : T = Owners \cup Wallets
      OBVIOUS
    <3>2. old \in Seq(T) /\ a \in T
      BY <2>3, <3>1
    <3>3. /\ <<a>> \o old \in Seq(T) /\ IsInjective(<<a>> \o old)
          /\ Added(old, <<a>> \o old, a) /\ ToSet(<<a>> \o old) = ToSet(old) \cup {a}
      BY <2>3, <3>2, HeadAdded
    <3> QED
      BY <2>2, <3>1, <3>3, Zenon
  <2>5. AddOwner(a, t) = [owners |-> new, threshold |-> t]
    BY <1>2, <2>1, <2>2 DEF AddOwner
  <2>6. t <= Len(new)
    BY <1>2, <2>1, <2>4 DEF Added
  <2>7. SafeOK(AddOwner(a, t))
    BY <2>4, <2>5, <2>6 DEF SafeOK
  <2>8. AddOwner(a, t).owners = new /\ AddOwner(a, t).threshold = t
    BY <2>5
  <2> QED
    BY <1>2, <2>1, <2>4, <2>7, <2>8
<1>3. CASE ~(~IsOwner(a) /\ t \in 1 .. Len(safe.owners) + 1)
  <2>1. AddOwner(a, t) = safe
    BY <1>3 DEF AddOwner
  <2>2. Len(safe.owners) \in Nat
    BY DEF SafeOK
  <2>3. IsOwner(a) \/ t > Len(safe.owners) + 1
    BY <1>1, <1>3, <2>2
  <2> QED
    BY <2>1, <2>3
<1> QED
  BY <1>2, <1>3

(* What a call of removeOwner leaves.                                      *)
LEMMA RemoveOwnerResult ==
    ASSUME SafeOK(safe), NEW p, NEW a, NEW t \in 1 .. NumWallets
    PROVE  /\ SafeOK(RemoveOwner(p, a, t))
           /\ \/ /\ RemoveOwner(p, a, t) = safe
                 /\ ~Linked(p, a) \/ t > Len(safe.owners) - 1
              \/ /\ Linked(p, a) /\ RemoveOwner(p, a, t).threshold = t
                 /\ \E j \in DOMAIN safe.owners :
                       /\ safe.owners[j] = a
                       /\ Removed(safe.owners, RemoveOwner(p, a, t).owners, j)
                 /\ ToSet(RemoveOwner(p, a, t).owners) = ToSet(safe.owners) \ {a}
<1>1. NumWallets \in Nat
  BY SafeOwnersAssumption
<1>2. CASE Linked(p, a) /\ t \in 1 .. Len(safe.owners) - 1
  <2>1. PICK old : old = safe.owners
    OBVIOUS
  <2>2. PICK j : j = CHOOSE k \in DOMAIN old : old[k] = a
    OBVIOUS
  <2>3. \E k \in DOMAIN old : old[k] = a
    BY <1>2, <2>1 DEF Linked
  <2>4. j \in DOMAIN old /\ old[j] = a
    BY <2>2, <2>3
  <2>5. PICK new : new = RemoveAt(old, j)
    OBVIOUS
  <2>6. old \in Seq(Owners \cup Wallets) /\ IsInjective(old)
    BY <2>1 DEF SafeOK
  <2>7. /\ new \in Seq(Owners \cup Wallets) /\ IsInjective(new)
        /\ Removed(old, new, j) /\ ToSet(new) = ToSet(old) \ {a}
    BY <2>4, <2>5, <2>6, EntryRemoved
  <2>8. RemoveOwner(p, a, t) = [owners |-> new, threshold |-> t]
    BY <1>2, <2>1, <2>2, <2>5 DEF RemoveOwner
  <2>9. t <= Len(new)
    BY <1>2, <2>1, <2>7 DEF Removed
  <2>10. SafeOK(RemoveOwner(p, a, t))
    BY <2>7, <2>8, <2>9 DEF SafeOK
  <2>11. RemoveOwner(p, a, t).owners = new /\ RemoveOwner(p, a, t).threshold = t
    BY <2>8
  <2> QED
    BY <1>2, <2>1, <2>4, <2>7, <2>10, <2>11
<1>3. CASE ~(Linked(p, a) /\ t \in 1 .. Len(safe.owners) - 1)
  <2>1. RemoveOwner(p, a, t) = safe
    BY <1>3 DEF RemoveOwner
  <2>2. Len(safe.owners) \in Nat
    BY DEF SafeOK
  <2>3. ~Linked(p, a) \/ t > Len(safe.owners) - 1
    BY <1>1, <1>3, <2>2
  <2> QED
    BY <2>1, <2>3
<1> QED
  BY <1>2, <1>3

(* What a call of changeThreshold leaves.                                  *)
LEMMA ChangeThresholdResult ==
    ASSUME SafeOK(safe), NEW t \in 1 .. NumWallets
    PROVE  /\ SafeOK(ChangeThreshold(t)) /\ ChangeThreshold(t).owners = safe.owners
           /\ ChangeThreshold(t).threshold \in {t, safe.threshold}
<1>1. CASE t \in 1 .. Len(safe.owners)
  <2>1. ChangeThreshold(t) = [owners |-> safe.owners, threshold |-> t]
    BY <1>1 DEF ChangeThreshold, SafeOK
  <2> QED
    BY <1>1, <2>1 DEF SafeOK
<1>2. CASE t \notin 1 .. Len(safe.owners)
  BY <1>2 DEF ChangeThreshold
<1> QED
  BY <1>1, <1>2

-----------------------------------------------------------------------------
(* The inductive invariant *)

(* The types, in three parts.                                              *)
AttemptTyped ==
    /\ attempt \in [pc : {"idle", "add", "status", "approve", "removeRoles",
                          "remove", "execute"},
                    wallets : Seq(Wallets), i : 1 .. NumWallets + 1,
                    threshold : 1 .. NumWallets, saved : {"own", "max"}]
    /\ attempt.i <= attempt.threshold + 1

OthersTyped ==
    /\ balance \in {"own", "max"}
    /\ root \in {"EMPTY", "APPROVED", "COMPLETED", "FAILED"}
    /\ signers \in Signers
    /\ report \in {"none", "success", "failure", "already", "crashed",
                   "reverted", "TypeError", "Address is not owner",
                   "Owner was not removed"}
    /\ crashes \in 0 .. MaxCrashes /\ disturbed \in BOOLEAN

(* What an attempt knows of the Safe and of its wallets: it has read the   *)
(* Safe's threshold, its wallets are the sorted ones, and the ones before  *)
(* the i-th are owners.                                                    *)
AttemptOK ==
    /\ attempt.pc \in {"add", "status", "approve", "remove"} =>
          attempt.threshold = safe.threshold
    /\ attempt.pc \in {"add", "status", "approve"} =>
          attempt.wallets = SortedWallets(attempt.threshold)
    /\ attempt.pc = "add" =>
          \A k \in DOMAIN attempt.wallets :
             k < attempt.i => attempt.wallets[k] \in ToSet(safe.owners)
    /\ attempt.pc \in {"status", "approve"} =>
          \A k \in DOMAIN attempt.wallets : attempt.wallets[k] \in ToSet(safe.owners)
    /\ attempt.pc = "remove" => attempt.wallets = SortedWallets(ConfigThreshold)

Inv == TypeOK /\ AttemptOK

(* The parts are the type invariant.                                       *)
LEMMA TypeParts ==
    /\ TypeOK <=> SafeOK(safe) /\ AttemptTyped /\ OthersTyped
    /\ TypeOK' <=> SafeOK(safe') /\ AttemptTyped' /\ OthersTyped'
  BY DEF TypeOK, SafeOK, AttemptTyped, OthersTyped

(* No attempt.                                                             *)
LEMMA IdleAttempt ==
    /\ attempt = Idle => AttemptTyped /\ attempt.pc = "idle" /\ AttemptOK
    /\ attempt' = Idle => AttemptTyped' /\ attempt'.pc = "idle" /\ AttemptOK'
<1>1. 1 \in 1 .. NumWallets /\ 1 \in 1 .. NumWallets + 1
  BY SafeOwnersAssumption
<1>2. <<>> \in Seq(Wallets)
  OBVIOUS
<1>3. ASSUME NEW a, a = Idle
      PROVE  /\ a \in [pc : {"idle", "add", "status", "approve", "removeRoles",
                          "remove", "execute"},
                       wallets : Seq(Wallets), i : 1 .. NumWallets + 1,
                       threshold : 1 .. NumWallets, saved : {"own", "max"}]
             /\ a.i <= a.threshold + 1 /\ a.pc = "idle"
  BY <1>1, <1>2, <1>3 DEF Idle
<1>4. ASSUME attempt = Idle PROVE AttemptTyped /\ attempt.pc = "idle" /\ AttemptOK
  BY <1>3, <1>4 DEF AttemptTyped, AttemptOK
<1>5. ASSUME attempt' = Idle PROVE  AttemptTyped' /\ attempt'.pc = "idle" /\ AttemptOK'
  BY <1>3, <1>5 DEF AttemptTyped, AttemptOK
<1> QED
  BY <1>4, <1>5

(* The next step of an attempt.                                            *)
LEMMA AttemptGoes ==
    ASSUME AttemptTyped, Go("status") \/ Go("approve") \/ Go("execute") \/ Go("removeRoles")
    PROVE  /\ AttemptTyped' /\ attempt'.wallets = attempt.wallets /\ attempt'.i = attempt.i
           /\ attempt'.threshold = attempt.threshold /\ attempt'.saved = attempt.saved
           /\ Go("status") => attempt'.pc = "status"
           /\ Go("approve") => attempt'.pc = "approve"
           /\ Go("execute") => attempt'.pc = "execute"
           /\ Go("removeRoles") => attempt'.pc = "removeRoles"
  BY DEF AttemptTyped, Go

(* The next wallet of an attempt.                                          *)
LEMMA AttemptContinues ==
    ASSUME AttemptTyped, Continue(attempt.i), attempt.i <= attempt.threshold
    PROVE  /\ AttemptTyped' /\ attempt'.wallets = attempt.wallets
           /\ attempt'.i = attempt.i + 1 /\ attempt'.pc = attempt.pc
           /\ attempt'.threshold = attempt.threshold /\ attempt'.saved = attempt.saved
<1>1. /\ NumWallets \in Nat /\ attempt.i \in Nat /\ attempt.threshold \in 1 .. NumWallets
  BY SafeOwnersAssumption DEF AttemptTyped
<1>2. attempt.i + 1 \in 1 .. NumWallets + 1 /\ attempt.i + 1 <= attempt.threshold + 1
  BY <1>1
<1>3. PICK next : next = attempt.i + 1
  OBVIOUS
<1>4. attempt' = [attempt EXCEPT !.i = next]
  BY <1>3 DEF Continue
<1> QED
  BY <1>2, <1>3, <1>4 DEF AttemptTyped

(* The beginning of injectRoles and of removeRoles.                        *)
LEMMA AttemptImpersonates ==
    ASSUME SafeOK(safe), balance \in {"own", "max"}, NEW n \in 1 .. NumWallets,
           \/ Impersonate("add", SortedWallets(n))
           \/ Impersonate("remove", SortedWallets(n))
    PROVE  /\ AttemptTyped' /\ attempt'.wallets = SortedWallets(n) /\ attempt'.i = 1
           /\ attempt'.threshold = safe.threshold /\ attempt'.saved = balance
           /\ Impersonate("add", SortedWallets(n)) => attempt'.pc = "add"
           /\ Impersonate("remove", SortedWallets(n)) => attempt'.pc = "remove"
<1>1. NumWallets \in Nat /\ safe.threshold \in 1 .. NumWallets /\ n \in 0 .. NumWallets
  BY SafeOwnersAssumption DEF SafeOK
<1>2. PICK wallets : wallets = SortedWallets(n)
  OBVIOUS
<1>3. wallets \in Seq(Wallets)
  BY <1>1, <1>2, SortedWalletsList
<1>4. 1 \in 1 .. NumWallets + 1 /\ 1 <= safe.threshold + 1
  BY <1>1
<1>5. Impersonate("add", wallets) \/ Impersonate("remove", wallets)
  BY <1>2
<1>6. /\ AttemptTyped' /\ attempt'.wallets = wallets /\ attempt'.i = 1
      /\ attempt'.threshold = safe.threshold /\ attempt'.saved = balance
      /\ Impersonate("add", wallets) => attempt'.pc = "add"
      /\ Impersonate("remove", wallets) => attempt'.pc = "remove"
  BY <1>1, <1>3, <1>4, <1>5 DEF Impersonate, AttemptTyped
<1> QED
  BY <1>2, <1>6

(* The first state.                                                        *)
LEMMA InitInv == Init => Inv
<1> SUFFICES ASSUME Init PROVE Inv
  OBVIOUS
<1>1. SafeOK(safe)
  <2>1. \A k \in DOMAIN InitialOwners : InitialOwners[k] \in Owners \cup Wallets
    BY SafeOwnersAssumption
  <2>2. InitialOwners \in Seq(Owners \cup Wallets)
    BY <2>1, SafeOwnersAssumption
  <2> QED
    BY <2>2, SafeOwnersAssumption DEF Init, SafeOK
<1>2. AttemptTyped /\ AttemptOK
  BY IdleAttempt DEF Init
<1>3. OthersTyped
  BY SafeOwnersAssumption DEF Init, OthersTyped
<1> QED
  BY <1>1, <1>2, <1>3, TypeParts DEF Inv

(* The steps that begin or move on an attempt, and leave the Safe alone.   *)
LEMMA QuietSteps ==
    ASSUME Inv, \/ InjectRoles \/ AlreadyExecuted \/ RolesInjected \/ ReadStatus
                \/ Approve \/ ApproveReverts \/ RemoveRoles \/ RolesRemoved
                \/ ExecuteRoot \/ Finish \/ Crash \/ NewDeployment
    PROVE  Inv'
<1>1. SafeOK(safe) /\ AttemptTyped /\ OthersTyped /\ AttemptOK
  BY TypeParts DEF Inv
<1>2. safe' = safe /\ SafeOK(safe')
  BY <1>1 DEF InjectRoles, AlreadyExecuted, RolesInjected, ReadStatus, Approve, ApproveReverts,
         RemoveRoles, RolesRemoved, ExecuteRoot, Finish, Crash, NewDeployment
<1>3. attempt.saved \in {"own", "max"} /\ attempt.i \in Nat /\ safe.threshold \in 1 .. NumWallets
  BY <1>1, SafeOwnersAssumption DEF AttemptTyped, SafeOK
<1>4. OthersTyped'
  <2>1. CASE InjectRoles \/ RemoveRoles
    BY <1>1, <2>1 DEF InjectRoles, RemoveRoles, Impersonate, OthersTyped
  <2>2. CASE RolesInjected \/ RolesRemoved
    BY <1>1, <1>3, <2>2 DEF RolesInjected, RolesRemoved, OthersTyped
  <2>3. CASE AlreadyExecuted \/ Approve \/ ExecuteRoot \/ Finish \/ NewDeployment
    BY <1>1, <2>3 DEF AlreadyExecuted, Approve, ExecuteRoot, Finish, NewDeployment, OthersTyped
  <2>4. CASE ReadStatus
    <3>1. report' = report \/ report' = "failure"
      BY <2>4 DEF ReadStatus
    <3> QED
      BY <1>1, <2>4, <3>1 DEF ReadStatus, OthersTyped
  <2>5. CASE ApproveReverts
    <3>1. disturbed' \in BOOLEAN
      BY <2>5 DEF ApproveReverts, Throw
    <3> QED
      BY <1>1, <2>5, <3>1 DEF ApproveReverts, Throw, OthersTyped
  <2>6. CASE Crash
    <3>1. disturbed' \in BOOLEAN
      BY <2>6 DEF Crash, Throw
    <3>2. crashes' \in 0 .. MaxCrashes
      <4>1. crashes \in 0 .. MaxCrashes /\ MaxCrashes \in Nat
        BY <1>1, SafeOwnersAssumption DEF OthersTyped
      <4>2. crashes < MaxCrashes /\ crashes' = crashes + 1
        BY <2>6 DEF Crash
      <4> QED
        BY <4>1, <4>2
    <3> QED
      BY <1>1, <2>6, <3>1, <3>2 DEF Crash, Throw, OthersTyped
  <2> QED
    BY <2>1, <2>2, <2>3, <2>4, <2>5, <2>6
<1>5. AttemptTyped' /\ AttemptOK'
  <2>1. CASE attempt' = attempt
    BY <1>1, <1>2, <2>1 DEF AttemptTyped, AttemptOK
  <2>2. CASE attempt' = Idle
    BY <2>2, IdleAttempt
  <2>3. CASE InjectRoles
    <3>1. /\ AttemptTyped' /\ attempt'.wallets = SortedWallets(safe.threshold) /\ attempt'.i = 1
          /\ attempt'.threshold = safe.threshold /\ attempt'.pc = "add"
      BY <1>1, <1>3, <2>3, AttemptImpersonates DEF InjectRoles, OthersTyped
    <3>2. DOMAIN attempt'.wallets = 1 .. safe.threshold
      <4>1. safe.threshold \in 0 .. NumWallets
        BY <1>3, SafeOwnersAssumption
      <4> QED
        BY <3>1, <4>1, SortedWalletsList
    <3>3. \A k \in DOMAIN attempt'.wallets : ~(k < attempt'.i)
      BY <1>3, <3>1, <3>2
    <3> QED
      BY <1>2, <3>1, <3>3 DEF AttemptOK
  <2>4. CASE RemoveRoles
    <3>1. ConfigThreshold \in 1 .. NumWallets
      BY SafeOwnersAssumption
    <3>2. /\ AttemptTyped' /\ attempt'.wallets = SortedWallets(ConfigThreshold) /\ attempt'.i = 1
          /\ attempt'.threshold = safe.threshold /\ attempt'.pc = "remove"
      BY <1>1, <2>4, <3>1, AttemptImpersonates DEF RemoveRoles, OthersTyped
    <3> QED
      BY <1>2, <3>2 DEF AttemptOK
  <2>5. CASE RolesInjected
    <3>1. /\ AttemptTyped' /\ attempt'.wallets = attempt.wallets
          /\ attempt'.threshold = attempt.threshold /\ attempt'.pc = "status"
      BY <1>1, <2>5, AttemptGoes DEF RolesInjected
    <3>2. attempt.pc = "add" /\ attempt.i > Len(attempt.wallets)
      BY <2>5 DEF RolesInjected
    <3>3. \A k \in DOMAIN attempt.wallets : k < attempt.i
      <4>1. attempt.wallets \in Seq(Wallets)
        BY <1>1 DEF AttemptTyped
      <4> QED
        BY <1>3, <3>2, <4>1
    <3> QED
      BY <1>1, <1>2, <3>1, <3>2, <3>3 DEF AttemptOK
  <2>6. CASE ReadStatus /\ attempt' # Idle
    <3>1. Go("approve") \/ Go("execute")
      BY <1>1, <2>6 DEF ReadStatus, OthersTyped
    <3>2. attempt.pc = "status"
      BY <2>6 DEF ReadStatus
    <3>3. /\ AttemptTyped' /\ attempt'.wallets = attempt.wallets
          /\ attempt'.threshold = attempt.threshold /\ attempt'.pc \in {"approve", "execute"}
      BY <1>1, <3>1, AttemptGoes
    <3> QED
      BY <1>1, <1>2, <3>2, <3>3 DEF AttemptOK
  <2>7. CASE Approve \/ RolesRemoved
    <3>1. AttemptTyped' /\ attempt'.pc \in {"removeRoles", "execute"}
      BY <1>1, <2>7, AttemptGoes DEF Approve, RolesRemoved
    <3> QED
      BY <3>1 DEF AttemptOK
  <2>8. CASE AlreadyExecuted \/ ApproveReverts \/ ExecuteRoot \/ Finish \/ Crash \/ NewDeployment
    <3>1. attempt' = attempt \/ attempt' = Idle
      BY <2>8 DEF AlreadyExecuted, ApproveReverts, ExecuteRoot, Finish, Crash, NewDeployment, Throw
    <3> QED
      BY <2>1, <2>2, <3>1
  <2> QED
    BY <2>2, <2>3, <2>4, <2>5, <2>6, <2>7, <2>8
<1> QED
  BY <1>2, <1>4, <1>5, TypeParts DEF Inv

(* A wallet becomes an owner, or the attempt ends.                         *)
LEMMA AddWalletStep ==
    ASSUME Inv, AddWallet
    PROVE  /\ Inv' /\ safe'.threshold = safe.threshold
           /\ \/ safe' = safe
              \/ Added(safe.owners, safe'.owners, attempt.wallets[attempt.i])
           /\ attempt.wallets[attempt.i] \in Wallets
<1>1. SafeOK(safe) /\ AttemptTyped /\ OthersTyped /\ AttemptOK
  BY TypeParts DEF Inv
<1>2. /\ attempt.pc = "add" /\ attempt.i <= Len(attempt.wallets)
      /\ attempt.threshold = safe.threshold /\ attempt.threshold \in 1 .. NumWallets
      /\ attempt.wallets = SortedWallets(attempt.threshold)
      /\ attempt.i \in 1 .. NumWallets + 1
  BY <1>1 DEF AddWallet, AttemptTyped, AttemptOK
<1>3. /\ attempt.wallets \in Seq(Wallets) /\ Len(attempt.wallets) = attempt.threshold
      /\ DOMAIN attempt.wallets = 1 .. attempt.threshold
  <2>1. attempt.threshold \in 0 .. NumWallets
    BY <1>2, SafeOwnersAssumption
  <2> QED
    BY <1>2, <2>1, SortedWalletsList
<1>4. attempt.i \in DOMAIN attempt.wallets /\ attempt.i <= attempt.threshold
  BY <1>2, <1>3, SafeOwnersAssumption
<1>5. PICK wallet : wallet = attempt.wallets[attempt.i]
  OBVIOUS
<1>6. wallet \in Wallets /\ wallet \in Owners \cup Wallets
  BY <1>3, <1>4, <1>5
<1>7. safe' = AddOwner(wallet, attempt.threshold)
  BY <1>5 DEF AddWallet, ThresholdToKeep
<1>8. /\ SafeOK(safe')
      /\ \/ safe' = safe
         \/ /\ safe'.threshold = attempt.threshold
            /\ Added(safe.owners, safe'.owners, wallet)
            /\ ToSet(safe'.owners) = ToSet(safe.owners) \cup {wallet}
  BY <1>1, <1>2, <1>6, <1>7, AddOwnerResult, Zenon
<1>9. safe'.threshold = safe.threshold /\ ToSet(safe.owners) \subseteq ToSet(safe'.owners)
  BY <1>2, <1>8
<1>10. AttemptTyped' /\ AttemptOK' /\ OthersTyped'
  <2>1. CASE wallet \in ToSet(safe'.owners)
    <3>1. Continue(attempt.i) /\ UNCHANGED <<balance, root, signers, report, crashes, disturbed>>
      BY <1>5, <2>1 DEF AddWallet
    <3>2. /\ AttemptTyped' /\ attempt'.wallets = attempt.wallets
          /\ attempt'.i = attempt.i + 1 /\ attempt'.pc = "add"
          /\ attempt'.threshold = attempt.threshold
      BY <1>1, <1>2, <1>4, <3>1, AttemptContinues
    <3>3. \A k \in DOMAIN attempt.wallets :
             k < attempt.i + 1 => attempt.wallets[k] \in ToSet(safe'.owners)
      <4>1. \A k \in DOMAIN attempt.wallets : k < attempt.i + 1 => k < attempt.i \/ k = attempt.i
        BY <1>2, <1>3, SafeOwnersAssumption
      <4>2. \A k \in DOMAIN attempt.wallets :
               k < attempt.i => attempt.wallets[k] \in ToSet(safe.owners)
        BY <1>1, <1>2 DEF AttemptOK
      <4> QED
        BY <1>5, <1>9, <2>1, <4>1, <4>2, Zenon
    <3>4. AttemptOK'
      BY <1>2, <1>9, <3>2, <3>3 DEF AttemptOK
    <3>5. OthersTyped'
      BY <1>1, <3>1 DEF OthersTyped
    <3> QED
      BY <3>2, <3>4, <3>5
  <2>2. CASE wallet \notin ToSet(safe'.owners)
    <3>1. Throw("Address is not owner") /\ UNCHANGED <<balance, root, signers, crashes>>
      BY <1>5, <2>2 DEF AddWallet
    <3>2. disturbed' \in BOOLEAN /\ report' = "Address is not owner" /\ attempt' = Idle
      BY <3>1 DEF Throw
    <3>3. OthersTyped'
      BY <1>1, <3>1, <3>2 DEF OthersTyped
    <3> QED
      BY <3>2, <3>3, IdleAttempt
  <2> QED
    BY <2>1, <2>2
<1> QED
  BY <1>5, <1>6, <1>8, <1>9, <1>10, TypeParts DEF Inv

(* A wallet is removed, or the attempt ends.                               *)
LEMMA RemoveWalletStep ==
    ASSUME Inv, RemoveWallet
    PROVE  /\ Inv' /\ safe'.threshold = safe.threshold
           /\ \/ safe' = safe
              \/ \E j \in DOMAIN safe.owners :
                    /\ safe.owners[j] \in Wallets
                    /\ Removed(safe.owners, safe'.owners, j)
<1>1. SafeOK(safe) /\ AttemptTyped /\ OthersTyped /\ AttemptOK
  BY TypeParts DEF Inv
<1>2. /\ attempt.pc = "remove" /\ ~LoopIsOver(attempt.i)
      /\ attempt.threshold = safe.threshold /\ attempt.threshold \in 1 .. NumWallets
      /\ attempt.wallets = SortedWallets(ConfigThreshold) /\ attempt.wallets \in Seq(Wallets)
      /\ attempt.i \in 1 .. NumWallets + 1
  BY <1>1 DEF RemoveWallet, AttemptTyped, AttemptOK
<1>3. attempt.i <= attempt.threshold /\ attempt.i \in Nat /\ attempt.i >= 1
  BY <1>2, SafeOwnersAssumption DEF LoopIsOver
<1>4. CASE TypeErrorAt(attempt.i)
  <2>1. Throw("TypeError") /\ safe' = safe /\ UNCHANGED <<balance, root, signers, crashes>>
    BY <1>4 DEF RemoveWallet
  <2>2. disturbed' \in BOOLEAN /\ report' = "TypeError" /\ attempt' = Idle
    BY <2>1 DEF Throw
  <2>3. OthersTyped'
    BY <1>1, <2>1, <2>2 DEF OthersTyped
  <2>4. SafeOK(safe')
    BY <1>1, <2>1
  <2> QED
    BY <2>1, <2>2, <2>3, <2>4, IdleAttempt, TypeParts DEF Inv
<1>5. CASE ~TypeErrorAt(attempt.i)
  <2>1. attempt.i \in DOMAIN attempt.wallets
    <3>1. attempt.i <= Len(attempt.wallets) \/ attempt.i + 1 <= Len(attempt.wallets)
      BY <1>2, <1>3, <1>5 DEF TypeErrorAt
    <3> QED
      BY <1>2, <1>3, <3>1
  <2>2. PICK wallet : wallet = attempt.wallets[attempt.i]
    OBVIOUS
  <2>3. wallet \in Wallets
    BY <1>2, <2>1, <2>2
  <2>4. PICK prev : prev = PrevOwner(attempt.i)
    OBVIOUS
  <2>5. /\ safe' = RemoveOwner(prev, wallet, attempt.threshold)
        /\ IF wallet \in ToSet(safe'.owners)
           THEN Throw("Owner was not removed")
           ELSE Continue(attempt.i) /\ UNCHANGED <<report, disturbed>>
        /\ UNCHANGED <<balance, root, signers, crashes>>
    BY <1>5, <2>2, <2>4 DEF RemoveWallet
  <2>6. /\ SafeOK(safe')
        /\ \/ safe' = safe
           \/ /\ safe'.threshold = attempt.threshold
              /\ \E j \in DOMAIN safe.owners : /\ safe.owners[j] = wallet
                                               /\ Removed(safe.owners, safe'.owners, j)
    <3>1. PICK new : new = RemoveOwner(prev, wallet, attempt.threshold)
      OBVIOUS
    <3>2. /\ SafeOK(new)
          /\ \/ new = safe
             \/ /\ new.threshold = attempt.threshold
                /\ \E j \in DOMAIN safe.owners : /\ safe.owners[j] = wallet
                                                 /\ Removed(safe.owners, new.owners, j)
      BY <1>1, <1>2, <3>1, RemoveOwnerResult
    <3> QED
      BY <2>5, <3>1, <3>2, Zenon
  <2>7. safe'.threshold = safe.threshold
    BY <1>2, <2>6
  <2>8. AttemptTyped' /\ AttemptOK' /\ OthersTyped'
    <3>1. CASE wallet \in ToSet(safe'.owners)
      <4>1. Throw("Owner was not removed") /\ UNCHANGED <<balance, root, signers, crashes>>
        BY <2>5, <3>1
      <4>2. disturbed' \in BOOLEAN /\ report' = "Owner was not removed" /\ attempt' = Idle
        BY <4>1 DEF Throw
      <4>3. OthersTyped'
        BY <1>1, <4>1, <4>2 DEF OthersTyped
      <4> QED
        BY <4>2, <4>3, IdleAttempt
    <3>2. CASE wallet \notin ToSet(safe'.owners)
      <4>1. Continue(attempt.i) /\ UNCHANGED <<balance, root, signers, report, crashes, disturbed>>
        BY <2>5, <3>2
      <4>2. /\ AttemptTyped' /\ attempt'.wallets = attempt.wallets
            /\ attempt'.pc = "remove" /\ attempt'.threshold = attempt.threshold
        BY <1>1, <1>2, <1>3, <4>1, AttemptContinues
      <4>3. AttemptOK'
        BY <1>2, <2>7, <4>2 DEF AttemptOK
      <4>4. OthersTyped'
        BY <1>1, <4>1 DEF OthersTyped
      <4> QED
        BY <4>2, <4>3, <4>4
    <3> QED
      BY <3>1, <3>2
  <2> QED
    BY <2>3, <2>6, <2>7, <2>8, TypeParts DEF Inv
<1> QED
  BY <1>4, <1>5

(* What a transaction of the deployment does to the Safe.                  *)
LEMMA SafeChangesStep ==
    ASSUME Inv, SafeChangesOwners
    PROVE  Inv'
<1>1. SafeOK(safe) /\ AttemptTyped /\ OthersTyped /\ AttemptOK
  BY TypeParts DEF Inv
<1>2. attempt.pc = "execute"
      /\ UNCHANGED <<balance, root, signers, attempt, report, crashes, disturbed>>
  BY DEF SafeChangesOwners
<1>3. safe.threshold \in 1 .. NumWallets
  BY <1>1 DEF SafeOK
<1>4. SafeOK(safe')
  <2>1. ASSUME NEW owner \in Owners, safe' = AddOwner(owner, safe.threshold)
        PROVE  SafeOK(safe')
    <3>1. owner \in Owners \cup Wallets
      OBVIOUS
    <3> QED
      BY <1>1, <1>3, <2>1, <3>1, AddOwnerResult, Zenon
  <2>2. ASSUME NEW prevOwner, NEW owner, safe' = RemoveOwner(prevOwner, owner, safe.threshold)
        PROVE  SafeOK(safe')
    BY <1>1, <1>3, <2>2, RemoveOwnerResult, Zenon
  <2>3. ASSUME NEW threshold \in Thresholds, safe' = ChangeThreshold(threshold)
        PROVE  SafeOK(safe')
    <3>1. threshold \in 1 .. NumWallets
      BY SafeOwnersAssumption
    <3> QED
      BY <1>1, <2>3, <3>1, ChangeThresholdResult, Zenon
  <2> QED
    BY <2>1, <2>2, <2>3 DEF SafeChangesOwners
<1>5. AttemptTyped' /\ AttemptOK' /\ OthersTyped'
  BY <1>1, <1>2 DEF AttemptTyped, AttemptOK, OthersTyped
<1> QED
  BY <1>4, <1>5, TypeParts DEF Inv

(* Every step keeps the invariant.                                         *)
LEMMA NextInv == Inv /\ [Next]_vars => Inv'
<1>1. ASSUME Inv, Next PROVE Inv'
  BY <1>1, QuietSteps, AddWalletStep, RemoveWalletStep, SafeChangesStep, Zenon DEF Next
<1>2. ASSUME Inv, UNCHANGED vars PROVE Inv'
  <2>1. UNCHANGED <<safe, balance, root, signers, attempt, report, crashes, disturbed>>
    BY <1>2 DEF vars
  <2> QED
    <3>1. TypeOK'
      <4>1. SafeOK(safe) /\ AttemptTyped /\ OthersTyped
        BY <1>2, TypeParts DEF Inv
      <4>2. SafeOK(safe') /\ AttemptTyped'
        BY <2>1, <4>1 DEF AttemptTyped
      <4>3. OthersTyped'
        BY <2>1, <4>1 DEF OthersTyped
      <4> QED
        BY <4>2, <4>3, TypeParts
    <3>2. AttemptOK'
      BY <1>2, <2>1, Zenon DEF Inv, AttemptOK
    <3> QED
      BY <3>1, <3>2 DEF Inv
<1> QED
  BY <1>1, <1>2

(* The states of the Safe and of the attempts are what TypeOK says: in     *)
(* particular the list of owners never repeats one, and never has fewer    *)
(* entries than the threshold.                                             *)
THEOREM TypeCorrect == Spec => []TypeOK
<1>1. Inv => TypeOK
  BY DEF Inv
<1> QED
  BY <1>1, InitInv, NextInv, PTL DEF Spec

(* When the root is approved, at least as many wallets as the threshold    *)
(* demands are owners, however often an injection was cut short before.    *)
THEOREM EnoughWalletsSign == Spec => []WalletsCanApprove
<1>1. ASSUME Inv PROVE WalletsCanApprove
  <2> SUFFICES ASSUME attempt.pc \in {"status", "approve"}
               PROVE  Cardinality(ToSet(safe.owners) \cap Wallets) >= safe.threshold
    BY DEF WalletsCanApprove
  <2>1. SafeOK(safe) /\ AttemptTyped /\ AttemptOK
    BY <1>1, TypeParts DEF Inv
  <2>2. /\ attempt.threshold = safe.threshold /\ attempt.threshold \in 0 .. NumWallets
        /\ attempt.wallets = SortedWallets(attempt.threshold)
        /\ \A k \in DOMAIN attempt.wallets : attempt.wallets[k] \in ToSet(safe.owners)
    BY <2>1, SafeOwnersAssumption DEF AttemptTyped, AttemptOK
  <2>3. PICK wallets : wallets = attempt.wallets
    OBVIOUS
  <2>4. /\ wallets \in Seq(Wallets) /\ Len(wallets) = safe.threshold
        /\ \A j, k \in DOMAIN wallets : wallets[j] = wallets[k] => j = k
    BY <2>2, <2>3, SortedWalletsList
  <2>5. IsFiniteSet(ToSet(wallets)) /\ Cardinality(ToSet(wallets)) = safe.threshold
    BY <2>4, DistinctCardinality
  <2>6. ToSet(wallets) \subseteq ToSet(safe.owners) \cap Wallets
    BY <2>2, <2>3, <2>4 DEF ToSet
  <2>7. PICK owners : owners = safe.owners
    OBVIOUS
  <2>8. IsFiniteSet(ToSet(owners))
    <3>1. owners \in Seq(Owners \cup Wallets) /\ IsInjective(owners)
      BY <2>1, <2>7 DEF SafeOK
    <3>2. \A j, k \in DOMAIN owners : owners[j] = owners[k] => j = k
      BY <3>1 DEF IsInjective
    <3>3. PICK T : T = Owners \cup Wallets
      OBVIOUS
    <3>4. owners \in Seq(T)
      BY <3>1, <3>3
    <3> QED
      BY <3>2, <3>4, DistinctCardinality
  <2>9. IsFiniteSet(ToSet(owners) \cap Wallets)
    BY <2>8, FS_Subset
  <2>10. Cardinality(ToSet(wallets)) <= Cardinality(ToSet(owners) \cap Wallets)
    BY <2>6, <2>7, <2>9, FS_Subset
  <2>11. Cardinality(ToSet(owners) \cap Wallets) \in Nat /\ safe.threshold \in Nat
    BY <2>1, <2>9, FS_CardinalityType, SafeOwnersAssumption DEF SafeOK
  <2> QED
    BY <2>5, <2>7, <2>10, <2>11
<1> QED
  BY <1>1, InitInv, NextInv, PTL DEF Spec

(* Adding and removing the wallets never removes or reorders the project's *)
(* owners and never changes the threshold, in any state an attempt finds.  *)
THEOREM ProjectOwnersStay == Spec => OnlyWalletsMove
<1> DEFINE Kept == /\ ProjectOwners(safe'.owners) = ProjectOwners(safe.owners)
                   /\ ProjectOrder(safe'.owners) = ProjectOrder(safe.owners)
                   /\ safe'.threshold = safe.threshold
<1>1. ASSUME Inv, Next, attempt.pc \in {"add", "remove"} PROVE Kept
  <2>1. CASE safe' = safe
    BY <2>1
  <2>2. CASE safe' # safe
    <3>1. AddWallet \/ RemoveWallet
      BY <1>1, <2>2 DEF Next, InjectRoles, AlreadyExecuted, RolesInjected, ReadStatus, Approve,
         ApproveReverts, RemoveRoles, RolesRemoved, ExecuteRoot, Finish, Crash, NewDeployment,
         SafeChangesOwners
    <3>2. SafeOK(safe) /\ SafeOK(safe')
      BY <1>1, NextInv, TypeParts DEF Inv
    <3>3. PICK T : T = Owners \cup Wallets
      OBVIOUS
    <3>4. PICK old, new : old = safe.owners /\ new = safe'.owners
      OBVIOUS
    <3>5. old \in Seq(T) /\ new \in Seq(T)
      BY <3>2, <3>3, <3>4 DEF SafeOK
    <3>6. CASE AddWallet
      <4>1. /\ safe'.threshold = safe.threshold
            /\ \E a \in Wallets : Added(old, new, a)
        BY <1>1, <2>2, <3>4, <3>6, AddWalletStep
      <4>2. PICK a \in Wallets : Added(old, new, a)
        BY <4>1
      <4>3. ProjectOwners(new) = ProjectOwners(old) /\ ProjectOrder(new) = ProjectOrder(old)
        BY <3>5, <4>2, WalletAddedKeepsOrder
      <4> QED
        BY <3>4, <4>1, <4>3
    <3>7. CASE RemoveWallet
      <4>1. /\ safe'.threshold = safe.threshold
            /\ \E j \in DOMAIN old : old[j] \in Wallets /\ Removed(old, new, j)
        BY <1>1, <2>2, <3>4, <3>7, RemoveWalletStep
      <4>2. PICK j \in DOMAIN old : old[j] \in Wallets /\ Removed(old, new, j)
        BY <4>1
      <4>3. ProjectOwners(new) = ProjectOwners(old) /\ ProjectOrder(new) = ProjectOrder(old)
        BY <3>5, <4>2, WalletRemovedKeepsOrder
      <4> QED
        BY <3>4, <4>1, <4>3
    <3> QED
      BY <3>1, <3>6, <3>7
  <2> QED
    BY <2>1, <2>2
<1>2. ASSUME Inv, [Next]_vars
      PROVE  [attempt.pc \in {"add", "remove"} => Kept]_vars
  BY <1>1, <1>2
<1> QED
  BY <1>2, InitInv, NextInv, PTL DEF Spec, OnlyWalletsMove

-----------------------------------------------------------------------------
(* No trace is left                                                        *)
(*                                                                         *)
(* removeRoles sorts as many wallets as the threshold in the configuration *)
(* and removes as many as the threshold of the Safe.  The theorem is about *)
(* a Safe whose threshold is, and remains, the configured one.             *)

ConfiguredThreshold == Thresholds \cup {InitialThreshold} \subseteq {ConfigThreshold}

(* The wallets from lo to hi are owners, the last one first, and are at    *)
(* the head of the list; below them are the project's owners, enough for   *)
(* the threshold.                                                          *)
Stacked(owners, lo, hi) ==
    /\ Len(owners) >= hi - lo + 1 + ConfigThreshold
    /\ \A p \in DOMAIN owners : p > hi - lo + 1 => owners[p] \notin Wallets
    /\ \A p \in DOMAIN owners :
          p <= hi - lo + 1 => owners[p] = SortedWallets(ConfigThreshold)[hi + 1 - p]

(* An attempt answers once, and what it executes it has approved.          *)
RootOK ==
    /\ Answered => attempt.pc = "idle" /\ root # "EMPTY"
    /\ attempt.pc \in {"removeRoles", "remove", "execute"} => root # "EMPTY"

(* Which wallets are owners at each point of an attempt.                   *)
OwnersOK ==
    /\ attempt.pc = "idle" =>
          IF root = "EMPTY"
          THEN \E k \in 0 .. ConfigThreshold : Stacked(safe.owners, 1, k)
          ELSE Answered /\ Stacked(safe.owners, 1, 0)
    /\ attempt.pc = "add" =>
          \E k \in 0 .. ConfigThreshold :
             k >= attempt.i - 1 /\ Stacked(safe.owners, 1, k)
    /\ attempt.pc \in {"status", "approve", "removeRoles"} =>
          Stacked(safe.owners, 1, ConfigThreshold)
    /\ attempt.pc = "remove" => Stacked(safe.owners, attempt.i, ConfigThreshold)
    /\ attempt.pc = "execute" => Stacked(safe.owners, 1, 0)
    /\ attempt.pc \in {"add", "status", "approve"} => root = "EMPTY"

(* The module's own balance is not lost.                                   *)
BalanceOK ==
    crashes = 0 => IF attempt.pc \in {"add", "remove"}
                   THEN attempt.saved = "own" ELSE balance = "own"

Undisturbed == ~disturbed => OwnersOK /\ BalanceOK

Trace == Inv /\ safe.threshold = ConfigThreshold /\ RootOK /\ Undisturbed

(* The configured threshold is a number of wallets.                        *)
LEMMA ConfigThresholdType ==
    ConfigThreshold \in Nat /\ ConfigThreshold \in 0 .. NumWallets /\ ConfigThreshold \in 1 .. NumWallets
<1>1. ConfigThreshold \in 1 .. NumWallets /\ NumWallets \in Nat
  BY SafeOwnersAssumption
<1> QED
  BY <1>1

(* No wallet is an owner of an empty stack, and the other way round.       *)
LEMMA EmptyStack ==
    ASSUME NEW T, NEW owners \in Seq(T), NEW lo \in Int, NEW hi \in Int, hi = lo - 1
    PROVE  Stacked(owners, lo, hi) <=>
              Len(owners) >= ConfigThreshold /\ ToSet(owners) \cap Wallets = {}
<1>1. hi - lo + 1 = 0 /\ ConfigThreshold \in Nat
  BY ConfigThresholdType
<1>2. \A p \in DOMAIN owners : p > hi - lo + 1 /\ ~(p <= hi - lo + 1)
  BY <1>1
<1>3. hi - lo + 1 + ConfigThreshold = ConfigThreshold
  BY <1>1
<1>4. Stacked(owners, lo, hi) <=>
         Len(owners) >= ConfigThreshold /\ \A p \in DOMAIN owners : owners[p] \notin Wallets
  BY <1>2, <1>3, Zenon DEF Stacked
<1>5. (\A p \in DOMAIN owners : owners[p] \notin Wallets) <=> ToSet(owners) \cap Wallets = {}
  BY DEF ToSet
<1> QED
  BY <1>4, <1>5

(* The wallets that a local deployment uses.                               *)
LEMMA ConfiguredWallets ==
    LET W == SortedWallets(ConfigThreshold)
    IN /\ W \in Seq(Wallets) /\ Len(W) = ConfigThreshold /\ DOMAIN W = 1 .. ConfigThreshold
       /\ \A j, k \in 1 .. ConfigThreshold : W[j] = W[k] => j = k
       /\ \A j \in 1 .. ConfigThreshold : W[j] \in Wallets
       /\ ConfigThreshold \in Nat /\ ConfigThreshold \in 1 .. NumWallets
<1>1. ConfigThreshold \in Nat /\ ConfigThreshold \in 0 .. NumWallets /\ ConfigThreshold \in 1 .. NumWallets
  BY ConfigThresholdType
<1>2. PICK W : W = SortedWallets(ConfigThreshold)
  OBVIOUS
<1>3. /\ W \in Seq(Wallets) /\ Len(W) = ConfigThreshold /\ DOMAIN W = 1 .. ConfigThreshold
      /\ \A j, k \in DOMAIN W : W[j] = W[k] => j = k
  BY <1>1, <1>2, SortedWalletsList
<1>4. \A j \in 1 .. ConfigThreshold : W[j] \in Wallets
  BY <1>3
<1> QED
  BY <1>1, <1>2, <1>3, <1>4

(* The next wallet goes on the stack.                                      *)
LEMMA StackGrows ==
    ASSUME NEW T, NEW old \in Seq(T), NEW new \in Seq(T),
           NEW k \in 0 .. ConfigThreshold - 1, Stacked(old, 1, k),
           Added(old, new, SortedWallets(ConfigThreshold)[k + 1])
    PROVE  Stacked(new, 1, k + 1)
<1>1. PICK W : W = SortedWallets(ConfigThreshold)
  OBVIOUS
<1>2. ConfigThreshold \in Nat /\ k \in Nat
  BY ConfigThresholdType
<1>3. /\ Len(new) = Len(old) + 1 /\ Len(old) \in Nat
      /\ DOMAIN old = 1 .. Len(old) /\ DOMAIN new = 1 .. Len(old) + 1
      /\ new[1] = W[k + 1] /\ \A p \in 1 .. Len(old) : new[p + 1] = old[p]
  BY <1>1 DEF Added
<1>4. /\ Len(old) >= k + ConfigThreshold
      /\ \A p \in DOMAIN old : p > k => old[p] \notin Wallets
      /\ \A p \in DOMAIN old : p <= k => old[p] = W[k + 1 - p]
  <2>1. k - 1 + 1 = k
    BY <1>2
  <2> QED
    BY <1>1, <2>1 DEF Stacked
<1>5. ASSUME NEW p \in DOMAIN new
      PROVE  p = 1 \/ (p - 1 \in DOMAIN old /\ new[p] = old[p - 1])
  <2>1. p = 1 \/ (p - 1 \in 1 .. Len(old) /\ (p - 1) + 1 = p)
    BY <1>3
  <2> QED
    BY <1>3, <2>1
<1>6. Len(new) >= (k + 1) + ConfigThreshold
  BY <1>2, <1>3, <1>4
<1>7. ASSUME NEW p \in DOMAIN new, p > k + 1 PROVE new[p] \notin Wallets
  <2>1. p - 1 \in DOMAIN old /\ new[p] = old[p - 1] /\ p - 1 > k
    BY <1>2, <1>3, <1>5, <1>7
  <2> QED
    BY <1>4, <2>1
<1>8. ASSUME NEW p \in DOMAIN new, p <= k + 1 PROVE new[p] = W[(k + 1) + 1 - p]
  <2>1. CASE p = 1
    <3>1. (k + 1) + 1 - p = k + 1
      BY <1>2, <2>1
    <3> QED
      BY <1>3, <2>1, <3>1
  <2>2. CASE p # 1
    <3>1. p - 1 \in DOMAIN old /\ new[p] = old[p - 1]
      BY <1>5, <2>2
    <3>2. p - 1 <= k /\ k + 1 - (p - 1) = (k + 1) + 1 - p
      BY <1>2, <1>3, <1>8
    <3>3. old[p - 1] = W[k + 1 - (p - 1)]
      BY <1>4, <3>1, <3>2
    <3> QED
      BY <3>1, <3>2, <3>3, Zenon
  <2> QED
    BY <2>1, <2>2
<1>9. (k + 1) - 1 + 1 = k + 1
  BY <1>2
<1> QED
  BY <1>1, <1>6, <1>7, <1>8, <1>9 DEF Stacked

(* The lowest wallet leaves the stack.                                     *)
LEMMA StackShrinks ==
    ASSUME NEW T, NEW old \in Seq(T), IsInjective(old), NEW new \in Seq(T),
           NEW i \in 1 .. ConfigThreshold, Stacked(old, i, ConfigThreshold),
           NEW j \in DOMAIN old, old[j] = SortedWallets(ConfigThreshold)[i],
           Removed(old, new, j)
    PROVE  Stacked(new, i + 1, ConfigThreshold)
<1>1. PICK W, n : W = SortedWallets(ConfigThreshold) /\ n = ConfigThreshold
  OBVIOUS
<1>2. n \in Nat /\ i \in 1 .. n /\ W[i] \in Wallets
  BY <1>1, ConfiguredWallets
<1>3. /\ Len(new) = Len(old) - 1 /\ Len(old) \in Nat /\ j \in 1 .. Len(old)
      /\ DOMAIN old = 1 .. Len(old) /\ DOMAIN new = 1 .. Len(old) - 1
      /\ \A p \in 1 .. Len(old) - 1 : new[p] = IF p < j THEN old[p] ELSE old[p + 1]
  <2>1. /\ Len(new) = Len(old) - 1
        /\ \A p \in 1 .. Len(new) : new[p] = IF p < j THEN old[p] ELSE old[p + 1]
    BY Zenon DEF Removed
  <2>2. /\ Len(old) \in Nat /\ DOMAIN old = 1 .. Len(old) /\ DOMAIN new = 1 .. Len(new)
    OBVIOUS
  <2> QED
    BY <2>1, <2>2, Zenon
<1>4. /\ Len(old) >= n - i + 1 + n
      /\ \A p \in DOMAIN old : p > n - i + 1 => old[p] \notin Wallets
      /\ \A p \in DOMAIN old : p <= n - i + 1 => old[p] = W[n + 1 - p]
  BY <1>1, Zenon DEF Stacked
<1>5. j = n - i + 1
  <2>1. n - i + 1 \in DOMAIN old /\ n - i + 1 <= n - i + 1 /\ n + 1 - (n - i + 1) = i
    BY <1>2, <1>3, <1>4
  <2>2. old[n - i + 1] = W[i]
    BY <1>4, <2>1
  <2> QED
    BY <1>1, <2>1, <2>2 DEF IsInjective
<1>6. n - (i + 1) + 1 = n - i
  BY <1>2
<1>7. Len(new) >= n - i + n
  BY <1>2, <1>3, <1>4
<1>8. ASSUME NEW p \in DOMAIN new, p > n - i PROVE new[p] \notin Wallets
  <2>1. p \in 1 .. Len(old) - 1 /\ ~(p < j) /\ p + 1 \in DOMAIN old /\ p + 1 > n - i + 1
    BY <1>2, <1>3, <1>5, <1>8
  <2>2. new[p] = old[p + 1]
    BY <1>3, <2>1
  <2> QED
    BY <1>4, <2>1, <2>2
<1>9. ASSUME NEW p \in DOMAIN new, p <= n - i PROVE new[p] = W[n + 1 - p]
  <2>1. p \in 1 .. Len(old) - 1 /\ p < j /\ p \in DOMAIN old /\ p <= n - i + 1
    BY <1>2, <1>3, <1>5, <1>9
  <2>2. new[p] = old[p]
    BY <1>3, <2>1
  <2> QED
    BY <1>4, <2>1, <2>2
<1> QED
  BY <1>1, <1>6, <1>7, <1>8, <1>9 DEF Stacked

(* An exception that is not counted as a disturbance has left the root as  *)
(* new as it was.                                                          *)
LEMMA HarmlessException ==
    ASSUME NEW error, Throw(error), disturbed \in BOOLEAN, ~disturbed'
    PROVE  ~disturbed /\ root = "EMPTY" /\ attempt'.pc = "idle" /\ attempt'.saved = "own"
           /\ report' = error
  BY DEF Throw, Idle

(* The injection of a wallet leaves it on the stack.                       *)
LEMMA AddWalletTrace ==
    ASSUME Trace, AddWallet
    PROVE  safe'.threshold = ConfigThreshold /\ RootOK' /\ Undisturbed'
<1>1. /\ SafeOK(safe) /\ AttemptTyped /\ OthersTyped /\ AttemptOK /\ Inv
      /\ safe.threshold = ConfigThreshold /\ RootOK /\ Undisturbed
  BY TypeParts DEF Inv, Trace
<1>2. SafeOK(safe') /\ AttemptTyped' /\ safe'.threshold = ConfigThreshold
  BY <1>1, AddWalletStep, TypeParts DEF Inv
<1>3. PICK W, n : W = SortedWallets(ConfigThreshold) /\ n = ConfigThreshold
  OBVIOUS
<1>4. /\ attempt.pc = "add" /\ attempt.wallets = W /\ attempt.threshold = n
      /\ attempt.i <= Len(W) /\ attempt.i \in 1 .. NumWallets + 1
  BY <1>1, <1>3 DEF AddWallet, AttemptTyped, AttemptOK
<1>5. /\ W \in Seq(Wallets) /\ Len(W) = n /\ DOMAIN W = 1 .. n
      /\ n \in Nat /\ n \in 1 .. NumWallets
      /\ \A j, k \in 1 .. n : W[j] = W[k] => j = k
      /\ \A j \in 1 .. n : W[j] \in Wallets
  BY <1>3, ConfiguredWallets
<1>6. PICK i : i = attempt.i
  OBVIOUS
<1>7. i \in 1 .. n
  BY <1>4, <1>5, <1>6, SafeOwnersAssumption
<1>8. PICK wallet : wallet = W[i]
  OBVIOUS
<1>9. wallet \in Wallets /\ wallet \in Owners \cup Wallets
  BY <1>5, <1>7, <1>8
<1>10. /\ safe' = AddOwner(wallet, n)
       /\ IF wallet \in ToSet(safe'.owners)
          THEN Continue(i) /\ UNCHANGED <<report, disturbed>>
          ELSE Throw("Address is not owner")
       /\ UNCHANGED <<balance, root, signers, crashes>>
  BY <1>4, <1>6, <1>8 DEF AddWallet, ThresholdToKeep
<1>11. \/ safe' = safe /\ (wallet \in ToSet(safe.owners) \/ n > Len(safe.owners) + 1)
       \/ /\ wallet \notin ToSet(safe.owners)
          /\ Added(safe.owners, safe'.owners, wallet)
          /\ ToSet(safe'.owners) = ToSet(safe.owners) \cup {wallet}
  <2>1. PICK new : new = AddOwner(wallet, n)
    OBVIOUS
  <2>2. \/ new = safe /\ (IsOwner(wallet) \/ n > Len(safe.owners) + 1)
        \/ /\ ~IsOwner(wallet) /\ new.threshold = n
           /\ Added(safe.owners, new.owners, wallet)
           /\ ToSet(new.owners) = ToSet(safe.owners) \cup {wallet}
    BY <1>1, <1>5, <1>9, <2>1, AddOwnerResult, Zenon
  <2> QED
    BY <1>10, <2>1, <2>2, Zenon DEF IsOwner
<1>12. ~(n > Len(safe.owners) + 1)
  <2>1. n <= Len(safe.owners) /\ Len(safe.owners) \in Nat
    BY <1>1, <1>3 DEF SafeOK
  <2> QED
    BY <1>5, <2>1
<1>13. wallet \in ToSet(safe'.owners)
  BY <1>11, <1>12
<1>14. /\ attempt'.i = i + 1 /\ attempt'.pc = "add" /\ attempt'.saved = attempt.saved
       /\ UNCHANGED <<balance, root, signers, crashes, report, disturbed>>
  <2>1. Continue(attempt.i) /\ UNCHANGED <<balance, root, signers, crashes, report, disturbed>>
    BY <1>6, <1>10, <1>13
  <2>2. attempt.i <= attempt.threshold
    BY <1>4, <1>5
  <2> QED
    BY <1>1, <1>4, <1>6, <2>1, <2>2, AttemptContinues
<1>15. RootOK'
  BY <1>1, <1>4, <1>14 DEF RootOK, Answered
<1>16. ASSUME ~disturbed
       PROVE  \E k \in 0 .. n : k >= (i + 1) - 1 /\ Stacked(safe'.owners, 1, k)
  <2>1. PICK k \in 0 .. n : k >= i - 1 /\ Stacked(safe.owners, 1, k)
    BY <1>1, <1>3, <1>4, <1>6, <1>16 DEF Undisturbed, OwnersOK
  <2>2. k \in Nat /\ i \in Nat
    BY <1>5, <1>7
  <2>3. PICK owners : owners = safe.owners
    OBVIOUS
  <2>4. owners \in Seq(Owners \cup Wallets) /\ DOMAIN owners = 1 .. Len(owners) /\ Len(owners) \in Nat
    BY <1>1, <2>3 DEF SafeOK
  <2>5. /\ Len(owners) >= k + n
        /\ \A p \in DOMAIN owners : p > k => owners[p] \notin Wallets
        /\ \A p \in DOMAIN owners : p <= k => owners[p] = W[k + 1 - p]
    <3>1. k - 1 + 1 = k
      BY <2>2
    <3> QED
      BY <1>3, <2>1, <2>3, <3>1 DEF Stacked
  <2>6. CASE k >= i
    <3>1. k + 1 - i \in DOMAIN owners /\ k + 1 - i <= k /\ k + 1 - (k + 1 - i) = i
      BY <1>5, <1>7, <2>2, <2>4, <2>5, <2>6
    <3>2. owners[k + 1 - i] = wallet
      BY <1>8, <2>5, <3>1
    <3>3. wallet \in ToSet(safe.owners)
      BY <2>3, <3>1, <3>2 DEF ToSet
    <3>4. safe' = safe
      BY <1>11, <3>3
    <3>5. k >= (i + 1) - 1
      BY <2>2, <2>6
    <3> QED
      BY <2>1, <3>4, <3>5
  <2>7. CASE ~(k >= i)
    <3>1. k = i - 1 /\ k + 1 = i /\ k \in 0 .. n - 1
      BY <1>5, <1>7, <2>1, <2>2, <2>7
    <3>2. wallet \notin ToSet(safe.owners)
      <4> SUFFICES ASSUME NEW p \in DOMAIN owners, owners[p] = wallet PROVE FALSE
        BY <2>3 DEF ToSet
      <4>1. p <= k /\ p \in Nat /\ p >= 1
        BY <1>9, <2>2, <2>4, <2>5
      <4>2. owners[p] = W[k + 1 - p] /\ k + 1 - p \in 1 .. n /\ k + 1 - p # i
        BY <1>5, <2>2, <2>5, <3>1, <4>1
      <4> QED
        BY <1>5, <1>7, <1>8, <4>2
    <3>3. PICK new : new = safe'.owners
      OBVIOUS
    <3>4. Added(owners, new, W[k + 1])
      BY <1>8, <1>11, <1>12, <2>3, <3>1, <3>2, <3>3
    <3>5. PICK T : T = Owners \cup Wallets
      OBVIOUS
    <3>6. owners \in Seq(T) /\ new \in Seq(T)
      BY <1>2, <2>4, <3>3, <3>5 DEF SafeOK
    <3>7. Stacked(owners, 1, k)
      BY <2>1, <2>3
    <3>8. Stacked(new, 1, k + 1)
      BY <1>3, <3>1, <3>4, <3>6, <3>7, StackGrows
    <3>9. i \in 0 .. n /\ i >= (i + 1) - 1
      BY <1>5, <1>7
    <3> QED
      BY <3>1, <3>3, <3>8, <3>9
  <2> QED
    BY <2>6, <2>7
<1>17. Undisturbed'
  <2> SUFFICES ASSUME ~disturbed PROVE OwnersOK' /\ BalanceOK'
    BY <1>14 DEF Undisturbed
  <2>1. OwnersOK /\ BalanceOK
    BY <1>1 DEF Undisturbed
  <2>2. OwnersOK'
    BY <1>3, <1>4, <1>14, <1>16, <2>1 DEF OwnersOK
  <2>3. BalanceOK'
    BY <1>4, <1>14, <2>1 DEF BalanceOK
  <2> QED
    BY <2>2, <2>3
<1> QED
  BY <1>2, <1>15, <1>17

(* The removal of a wallet finds it at the bottom of the stack.            *)
LEMMA RemoveWalletTrace ==
    ASSUME Trace, RemoveWallet
    PROVE  safe'.threshold = ConfigThreshold /\ RootOK' /\ Undisturbed'
<1>1. /\ SafeOK(safe) /\ AttemptTyped /\ OthersTyped /\ AttemptOK /\ Inv
      /\ safe.threshold = ConfigThreshold /\ RootOK /\ Undisturbed
  BY TypeParts DEF Inv, Trace
<1>2. SafeOK(safe') /\ AttemptTyped' /\ safe'.threshold = ConfigThreshold
  BY <1>1, RemoveWalletStep, TypeParts DEF Inv
<1>3. PICK W, n : W = SortedWallets(ConfigThreshold) /\ n = ConfigThreshold
  OBVIOUS
<1>4. /\ W \in Seq(Wallets) /\ Len(W) = n /\ DOMAIN W = 1 .. n
      /\ n \in Nat /\ n \in 1 .. NumWallets
      /\ \A j \in 1 .. n : W[j] \in Wallets
  BY <1>3, ConfiguredWallets
<1>5. /\ attempt.pc = "remove" /\ attempt.wallets = W /\ attempt.threshold = n
      /\ ~LoopIsOver(attempt.i) /\ attempt.i \in 1 .. NumWallets + 1
  BY <1>1, <1>3 DEF RemoveWallet, AttemptTyped, AttemptOK
<1>6. PICK i : i = attempt.i
  OBVIOUS
<1>7. i \in 1 .. n
  BY <1>4, <1>5, <1>6, SafeOwnersAssumption DEF LoopIsOver
<1>8. ~TypeErrorAt(i)
  BY <1>4, <1>5, <1>7 DEF TypeErrorAt
<1>9. PICK wallet, prev : wallet = W[i] /\ prev = PrevOwner(i)
  OBVIOUS
<1>10. /\ safe' = RemoveOwner(prev, wallet, n)
       /\ IF wallet \in ToSet(safe'.owners)
          THEN Throw("Owner was not removed")
          ELSE Continue(i) /\ UNCHANGED <<report, disturbed>>
       /\ UNCHANGED <<balance, root, signers, crashes>>
  BY <1>5, <1>6, <1>8, <1>9 DEF RemoveWallet
<1>11. \/ safe' = safe /\ (~Linked(prev, wallet) \/ n > Len(safe.owners) - 1)
       \/ /\ \E j \in DOMAIN safe.owners : /\ safe.owners[j] = wallet
                                           /\ Removed(safe.owners, safe'.owners, j)
          /\ ToSet(safe'.owners) = ToSet(safe.owners) \ {wallet}
  <2>1. PICK new : new = RemoveOwner(prev, wallet, n)
    OBVIOUS
  <2>2. \/ /\ new = safe
           /\ ~Linked(prev, wallet) \/ n > Len(safe.owners) - 1
        \/ /\ Linked(prev, wallet) /\ new.threshold = n
           /\ \E j \in DOMAIN safe.owners : /\ safe.owners[j] = wallet
                                            /\ Removed(safe.owners, new.owners, j)
           /\ ToSet(new.owners) = ToSet(safe.owners) \ {wallet}
    BY <1>1, <1>4, <2>1, RemoveOwnerResult
  <2> QED
    BY <1>10, <2>1, <2>2, Zenon
<1>12. PICK owners : owners = safe.owners
  OBVIOUS
<1>13. /\ owners \in Seq(Owners \cup Wallets) /\ IsInjective(owners)
       /\ DOMAIN owners = 1 .. Len(owners) /\ Len(owners) \in Nat
  BY <1>1, <1>12 DEF SafeOK
<1>14. ASSUME ~disturbed
       PROVE  /\ Linked(prev, wallet) /\ ~(n > Len(owners) - 1)
              /\ Stacked(owners, i, n)
  <2>1. Stacked(owners, i, n)
    BY <1>1, <1>3, <1>5, <1>6, <1>12, <1>14 DEF Undisturbed, OwnersOK
  <2>2. /\ Len(owners) >= n - i + 1 + n
        /\ \A p \in DOMAIN owners : p <= n - i + 1 => owners[p] = W[n + 1 - p]
    BY <1>3, <2>1 DEF Stacked
  <2>3. ~(n > Len(owners) - 1)
    BY <1>4, <1>7, <1>13, <2>2
  <2>4. PICK k : k = n - i + 1
    OBVIOUS
  <2>5. k \in DOMAIN owners /\ k <= n - i + 1 /\ n + 1 - k = i
    BY <1>4, <1>7, <1>13, <2>2, <2>4
  <2>6. owners[k] = wallet
    BY <1>9, <2>2, <2>5
  <2>7. prev = IF k = 1 THEN SENTINEL_OWNERS ELSE owners[k - 1]
    <3>1. CASE k = 1
      <4>1. ~(i < n)
        BY <1>4, <1>7, <2>4, <3>1
      <4>2. prev = SENTINEL_OWNERS
        BY <1>5, <1>9, <4>1 DEF PrevOwner
      <4> QED
        BY <3>1, <4>2
    <3>2. CASE k # 1
      <4>1. i < n /\ k - 1 \in DOMAIN owners /\ k - 1 <= n - i + 1 /\ n + 1 - (k - 1) = i + 1
        BY <1>4, <1>7, <1>13, <2>4, <2>5, <3>2
      <4>2. prev = W[i + 1]
        BY <1>5, <1>9, <4>1 DEF PrevOwner
      <4>3. owners[k - 1] = W[i + 1]
        BY <2>2, <4>1
      <4> QED
        BY <3>2, <4>2, <4>3
    <3> QED
      BY <3>1, <3>2
  <2>8. Linked(prev, wallet)
    BY <1>12, <2>5, <2>6, <2>7, Zenon DEF Linked
  <2> QED
    BY <2>1, <2>3, <2>8
<1>15. ASSUME ~disturbed
       PROVE  /\ wallet \notin ToSet(safe'.owners)
              /\ Stacked(safe'.owners, i + 1, n)
  <2>1. PICK j \in DOMAIN owners : /\ owners[j] = wallet
                                   /\ Removed(owners, safe'.owners, j)
    BY <1>11, <1>12, <1>14, <1>15
  <2>2. wallet \notin ToSet(safe'.owners)
    BY <1>11, <1>12, <1>14, <1>15
  <2>3. PICK T, new : T = Owners \cup Wallets /\ new = safe'.owners
    OBVIOUS
  <2>4. owners \in Seq(T) /\ new \in Seq(T)
    BY <1>2, <1>13, <2>3 DEF SafeOK
  <2>5. /\ i \in 1 .. ConfigThreshold /\ Stacked(owners, i, ConfigThreshold)
        /\ owners[j] = SortedWallets(ConfigThreshold)[i] /\ Removed(owners, new, j)
    BY <1>3, <1>7, <1>9, <1>14, <1>15, <2>1, <2>3
  <2>6. Stacked(new, i + 1, ConfigThreshold)
    BY <1>13, <2>4, <2>5, StackShrinks
  <2> QED
    BY <1>3, <2>2, <2>3, <2>6
<1>16. ASSUME wallet \notin ToSet(safe'.owners)
       PROVE  /\ attempt'.i = i + 1 /\ attempt'.pc = "remove" /\ attempt'.saved = attempt.saved
              /\ UNCHANGED <<balance, root, signers, crashes, report, disturbed>>
  <2>1. Continue(attempt.i) /\ UNCHANGED <<balance, root, signers, crashes, report, disturbed>>
    BY <1>6, <1>10, <1>16
  <2>2. attempt.i <= attempt.threshold
    BY <1>4, <1>5, <1>6, <1>7
  <2> QED
    BY <1>1, <1>5, <1>6, <2>1, <2>2, AttemptContinues
<1>17. ASSUME wallet \in ToSet(safe'.owners)
       PROVE  /\ attempt'.pc = "idle" /\ report' = "Owner was not removed"
              /\ disturbed' = (disturbed \/ root # "EMPTY")
  <2>1. Throw("Owner was not removed")
    BY <1>10, <1>17
  <2>2. attempt' = Idle /\ report' = "Owner was not removed" /\ disturbed' = (disturbed \/ root # "EMPTY")
    BY <2>1, Zenon DEF Throw
  <2> QED
    BY <2>2, IdleAttempt, Zenon
<1>18. root # "EMPTY" /\ root' = root
  BY <1>1, <1>5, <1>10 DEF RootOK
<1>19. RootOK'
  <2>1. CASE wallet \notin ToSet(safe'.owners)
    BY <1>1, <1>5, <1>16, <1>18, <2>1 DEF RootOK, Answered
  <2>2. CASE wallet \in ToSet(safe'.owners)
    BY <1>17, <2>2 DEF RootOK, Answered
  <2> QED
    BY <2>1, <2>2
<1>20. Undisturbed'
  <2> SUFFICES ASSUME ~disturbed' PROVE OwnersOK' /\ BalanceOK'
    BY DEF Undisturbed
  <2>1. wallet \notin ToSet(safe'.owners)
    BY <1>17, <1>18, <1>1 DEF OthersTyped
  <2>2. ~disturbed
    BY <1>16, <2>1
  <2>3. Stacked(safe'.owners, i + 1, n)
    BY <1>15, <2>2
  <2>4. OwnersOK'
    BY <1>3, <1>16, <2>1, <2>3 DEF OwnersOK
  <2>5. BalanceOK
    BY <1>1, <2>2 DEF Undisturbed
  <2>6. BalanceOK'
    BY <1>5, <1>16, <2>1, <2>5 DEF BalanceOK
  <2> QED
    BY <2>4, <2>6
<1> QED
  BY <1>2, <1>19, <1>20

(* The transactions of the deployment find no wallet and bring none.       *)
LEMMA SafeChangesTrace ==
    ASSUME ConfiguredThreshold, Trace, SafeChangesOwners
    PROVE  safe'.threshold = ConfigThreshold /\ RootOK' /\ Undisturbed'
<1>1. /\ SafeOK(safe) /\ Inv /\ safe.threshold = ConfigThreshold /\ RootOK /\ Undisturbed
  BY TypeParts DEF Inv, Trace
<1>2. SafeOK(safe')
  BY <1>1, SafeChangesStep, TypeParts DEF Inv
<1>3. attempt.pc = "execute"
      /\ UNCHANGED <<balance, root, signers, attempt, report, crashes, disturbed>>
  BY DEF SafeChangesOwners
<1>4. safe.threshold \in 1 .. NumWallets
  BY <1>1 DEF SafeOK
<1>5. /\ safe'.threshold = ConfigThreshold
      /\ \/ \E owner \in Owners : ToSet(safe'.owners) \subseteq ToSet(safe.owners) \cup {owner}
         \/ ToSet(safe'.owners) \subseteq ToSet(safe.owners)
  <2>1. ASSUME NEW owner \in Owners, safe' = AddOwner(owner, safe.threshold)
        PROVE  /\ safe'.threshold = safe.threshold
               /\ ToSet(safe'.owners) \subseteq ToSet(safe.owners) \cup {owner}
    <3>1. owner \in Owners \cup Wallets
      OBVIOUS
    <3>2. PICK new : new = AddOwner(owner, safe.threshold)
      OBVIOUS
    <3>3. new = safe \/ (/\ new.threshold = safe.threshold
                         /\ ToSet(new.owners) = ToSet(safe.owners) \cup {owner})
      BY <1>1, <1>4, <3>1, <3>2, AddOwnerResult, Zenon
    <3> QED
      BY <2>1, <3>2, <3>3
  <2>2. ASSUME NEW prevOwner, NEW owner, safe' = RemoveOwner(prevOwner, owner, safe.threshold)
        PROVE  /\ safe'.threshold = safe.threshold
               /\ ToSet(safe'.owners) \subseteq ToSet(safe.owners)
    <3>1. PICK new : new = RemoveOwner(prevOwner, owner, safe.threshold)
      OBVIOUS
    <3>2. new = safe \/ (/\ new.threshold = safe.threshold
                         /\ ToSet(new.owners) = ToSet(safe.owners) \ {owner})
      BY <1>1, <1>4, <3>1, RemoveOwnerResult
    <3> QED
      BY <2>2, <3>1, <3>2
  <2>3. ASSUME NEW threshold \in Thresholds, safe' = ChangeThreshold(threshold)
        PROVE  safe'.threshold = ConfigThreshold /\ safe'.owners = safe.owners
    <3>1. threshold \in 1 .. NumWallets /\ threshold = ConfigThreshold
      BY SafeOwnersAssumption DEF ConfiguredThreshold
    <3>2. PICK new : new = ChangeThreshold(threshold)
      OBVIOUS
    <3>3. new.owners = safe.owners /\ new.threshold \in {threshold, safe.threshold}
      BY <1>1, <3>1, <3>2, ChangeThresholdResult
    <3> QED
      BY <1>1, <2>3, <3>1, <3>2, <3>3
  <2>4. CASE \E owner \in Owners : safe' = AddOwner(owner, safe.threshold)
    BY <1>1, <2>1, <2>4
  <2>5. CASE \E prevOwner \in Owners \cup {SENTINEL_OWNERS}, owner \in Owners :
                safe' = RemoveOwner(prevOwner, owner, safe.threshold)
    BY <1>1, <2>2, <2>5
  <2>6. CASE \E threshold \in Thresholds : safe' = ChangeThreshold(threshold)
    BY <1>1, <2>3, <2>6
  <2> QED
    BY <2>4, <2>5, <2>6 DEF SafeChangesOwners
<1>6. RootOK'
  BY <1>1, <1>3 DEF RootOK, Answered
<1>7. Undisturbed'
  <2> SUFFICES ASSUME ~disturbed PROVE OwnersOK' /\ BalanceOK'
    BY <1>3 DEF Undisturbed
  <2>1. OwnersOK /\ BalanceOK
    BY <1>1 DEF Undisturbed
  <2>2. PICK T, old, new : T = Owners \cup Wallets /\ old = safe.owners /\ new = safe'.owners
    OBVIOUS
  <2>3. old \in Seq(T) /\ new \in Seq(T) /\ Stacked(old, 1, 0)
    BY <1>1, <1>2, <1>3, <2>1, <2>2 DEF SafeOK, OwnersOK
  <2>4. ToSet(old) \cap Wallets = {}
    BY <2>3, EmptyStack
  <2>5. ToSet(new) \cap Wallets = {}
    BY <1>5, <2>2, <2>4, SafeOwnersAssumption
  <2>6. Len(new) >= ConfigThreshold
    BY <1>2, <1>5, <2>2, <2>3, ConfigThresholdType DEF SafeOK
  <2>7. Stacked(new, 1, 0)
    BY <2>3, <2>5, <2>6, EmptyStack
  <2>8. OwnersOK'
    BY <1>3, <2>2, <2>7 DEF OwnersOK
  <2>9. BalanceOK'
    BY <1>3, <2>1 DEF BalanceOK
  <2> QED
    BY <2>8, <2>9
<1> QED
  BY <1>1, <1>5, <1>6, <1>7

(* The steps that leave the Safe alone.                                    *)
LEMMA QuietTrace ==
    ASSUME Trace, \/ InjectRoles \/ AlreadyExecuted \/ RolesInjected \/ ReadStatus
                  \/ Approve \/ ApproveReverts \/ RemoveRoles \/ RolesRemoved
                  \/ ExecuteRoot \/ Finish \/ Crash \/ NewDeployment
    PROVE  safe'.threshold = ConfigThreshold /\ RootOK' /\ Undisturbed'
<1>1. /\ SafeOK(safe) /\ AttemptTyped /\ OthersTyped /\ AttemptOK
      /\ safe.threshold = ConfigThreshold /\ RootOK /\ Undisturbed
  BY TypeParts DEF Inv, Trace
<1>2. safe' = safe /\ safe'.threshold = ConfigThreshold
  BY <1>1 DEF InjectRoles, AlreadyExecuted, RolesInjected, ReadStatus, Approve, ApproveReverts,
         RemoveRoles, RolesRemoved, ExecuteRoot, Finish, Crash, NewDeployment
<1>3. PICK n : n = ConfigThreshold
  OBVIOUS
<1>4. n \in Nat /\ n \in 1 .. NumWallets /\ 0 \in 0 .. n /\ n \in 0 .. n
  BY <1>3, ConfigThresholdType
<1>5. PICK owners : owners = safe.owners
  OBVIOUS
<1>6. /\ attempt.i \in 1 .. NumWallets + 1 /\ attempt.threshold \in 1 .. NumWallets
      /\ attempt.i <= attempt.threshold + 1 /\ NumWallets \in Nat
  BY <1>1, SafeOwnersAssumption DEF AttemptTyped
<1>7. CASE InjectRoles
  <2>1. /\ attempt.pc = "idle" /\ ~Answered
        /\ UNCHANGED <<safe, root, signers, report, crashes, disturbed>>
    BY <1>7 DEF InjectRoles
  <2>2. attempt'.i = 1 /\ attempt'.saved = balance /\ attempt'.pc = "add"
    <3>1. safe.threshold \in 1 .. NumWallets
      BY <1>1, <1>3, <1>4
    <3> QED
      BY <1>1, <1>7, <3>1, AttemptImpersonates DEF InjectRoles, OthersTyped
  <2>3. RootOK'
    BY <2>1, <2>2 DEF RootOK, Answered
  <2>4. ASSUME ~disturbed PROVE OwnersOK' /\ BalanceOK'
    <3>1. OwnersOK /\ BalanceOK
      BY <1>1, <2>4 DEF Undisturbed
    <3>2. root = "EMPTY" /\ \E k \in 0 .. n : Stacked(owners, 1, k)
      BY <1>3, <1>5, <2>1, <3>1 DEF OwnersOK
    <3>3. \A k \in 0 .. n : k >= 1 - 1
      BY <1>4
    <3>4. OwnersOK'
      BY <1>3, <1>5, <2>1, <2>2, <3>2, <3>3 DEF OwnersOK
    <3>5. BalanceOK'
      BY <2>1, <2>2, <3>1 DEF BalanceOK
    <3> QED
      BY <3>4, <3>5
  <2> QED
    BY <1>2, <2>1, <2>3, <2>4 DEF Undisturbed
<1>8. CASE AlreadyExecuted
  <2>1. /\ attempt.pc = "idle" /\ ~Answered /\ root = "COMPLETED" /\ report' = "already"
        /\ UNCHANGED <<safe, balance, root, signers, attempt, crashes, disturbed>>
    BY <1>8 DEF AlreadyExecuted
  <2>2. RootOK'
    BY <2>1 DEF RootOK, Answered
  <2>3. ASSUME ~disturbed PROVE FALSE
    BY <1>1, <2>1, <2>3 DEF Undisturbed, OwnersOK
  <2> QED
    BY <1>2, <2>1, <2>2, <2>3 DEF Undisturbed
<1>9. CASE RolesInjected
  <2>1. /\ attempt.pc = "add" /\ attempt.i > Len(attempt.wallets) /\ balance' = attempt.saved
        /\ UNCHANGED <<safe, root, signers, report, crashes, disturbed>>
    BY <1>9 DEF RolesInjected
  <2>2. attempt'.pc = "status"
    BY <1>1, <1>9, AttemptGoes DEF RolesInjected
  <2>3. RootOK'
    BY <1>1, <2>1, <2>2 DEF RootOK, Answered
  <2>4. ASSUME ~disturbed PROVE OwnersOK' /\ BalanceOK'
    <3>1. OwnersOK /\ BalanceOK
      BY <1>1, <2>4 DEF Undisturbed
    <3>2. PICK k \in 0 .. n : k >= attempt.i - 1 /\ Stacked(owners, 1, k)
      BY <1>3, <1>5, <2>1, <3>1 DEF OwnersOK
    <3>3. attempt.wallets = SortedWallets(n)
      BY <1>1, <1>3, <2>1 DEF AttemptOK
    <3>4. Len(attempt.wallets) = n
      BY <1>3, <3>3, ConfiguredWallets
    <3>5. k = n
      BY <1>4, <1>6, <2>1, <3>2, <3>4
    <3>6. OwnersOK'
      BY <1>3, <1>5, <2>1, <2>2, <3>1, <3>2, <3>5 DEF OwnersOK
    <3>7. BalanceOK'
      BY <2>1, <2>2, <3>1 DEF BalanceOK
    <3> QED
      BY <3>6, <3>7
  <2> QED
    BY <1>2, <2>1, <2>3, <2>4 DEF Undisturbed
<1>10. CASE ReadStatus
  <2>1. /\ attempt.pc = "status"
        /\ UNCHANGED <<safe, balance, root, signers, crashes, disturbed>>
    BY <1>10 DEF ReadStatus
  <2>2. \/ root = "EMPTY" /\ Go("approve") /\ report' = report
        \/ root = "APPROVED" /\ Go("execute") /\ report' = report
        \/ root \notin {"EMPTY", "APPROVED"} /\ attempt' = Idle /\ report' = "failure"
    BY <1>1, <1>10 DEF ReadStatus, OthersTyped
  <2>3. \/ root = "EMPTY" /\ attempt'.pc = "approve" /\ report' = report
        \/ root = "APPROVED" /\ attempt'.pc = "execute" /\ report' = report
        \/ root \notin {"EMPTY", "APPROVED"} /\ attempt'.pc = "idle" /\ report' = "failure"
    BY <1>1, <2>2, AttemptGoes, IdleAttempt
  <2>4. RootOK'
    BY <1>1, <2>1, <2>3 DEF RootOK, Answered
  <2>5. ASSUME ~disturbed PROVE OwnersOK' /\ BalanceOK'
    <3>1. OwnersOK /\ BalanceOK
      BY <1>1, <2>5 DEF Undisturbed
    <3>2. root = "EMPTY" /\ attempt'.pc = "approve"
      BY <2>1, <2>3, <3>1 DEF OwnersOK
    <3>3. OwnersOK'
      BY <2>1, <3>1, <3>2 DEF OwnersOK
    <3>4. BalanceOK'
      BY <2>1, <3>1, <3>2 DEF BalanceOK
    <3> QED
      BY <3>3, <3>4
  <2> QED
    BY <1>2, <2>1, <2>4, <2>5 DEF Undisturbed
<1>11. CASE Approve
  <2>1. /\ attempt.pc = "approve" /\ root' = "APPROVED"
        /\ UNCHANGED <<safe, balance, signers, report, crashes, disturbed>>
    BY <1>11 DEF Approve
  <2>2. attempt'.pc = "removeRoles"
    BY <1>1, <1>11, AttemptGoes DEF Approve
  <2>3. RootOK'
    BY <1>1, <2>1, <2>2 DEF RootOK, Answered
  <2>4. ASSUME ~disturbed PROVE OwnersOK' /\ BalanceOK'
    <3>1. OwnersOK /\ BalanceOK
      BY <1>1, <2>4 DEF Undisturbed
    <3>2. OwnersOK' /\ BalanceOK'
      BY <2>1, <2>2, <3>1 DEF OwnersOK, BalanceOK
    <3> QED
      BY <3>2
  <2> QED
    BY <1>2, <2>1, <2>3, <2>4 DEF Undisturbed
<1>12. CASE RemoveRoles
  <2>1. /\ attempt.pc = "removeRoles"
        /\ UNCHANGED <<safe, root, signers, report, crashes, disturbed>>
    BY <1>12 DEF RemoveRoles
  <2>2. attempt'.i = 1 /\ attempt'.saved = balance /\ attempt'.pc = "remove"
    BY <1>1, <1>12, AttemptImpersonates, ConfigThresholdType DEF RemoveRoles, OthersTyped
  <2>3. RootOK'
    BY <1>1, <2>1, <2>2 DEF RootOK, Answered
  <2>4. ASSUME ~disturbed PROVE OwnersOK' /\ BalanceOK'
    <3>1. OwnersOK /\ BalanceOK
      BY <1>1, <2>4 DEF Undisturbed
    <3>2. OwnersOK' /\ BalanceOK'
      BY <2>1, <2>2, <3>1 DEF OwnersOK, BalanceOK
    <3> QED
      BY <3>2
  <2> QED
    BY <1>2, <2>1, <2>3, <2>4 DEF Undisturbed
<1>13. CASE RolesRemoved
  <2>1. /\ attempt.pc = "remove" /\ LoopIsOver(attempt.i) /\ balance' = attempt.saved
        /\ UNCHANGED <<safe, root, signers, report, crashes, disturbed>>
    BY <1>13 DEF RolesRemoved
  <2>2. attempt'.pc = "execute"
    BY <1>1, <1>13, AttemptGoes DEF RolesRemoved
  <2>3. RootOK'
    BY <1>1, <2>1, <2>2 DEF RootOK, Answered
  <2>4. ASSUME ~disturbed PROVE OwnersOK' /\ BalanceOK'
    <3>1. OwnersOK /\ BalanceOK
      BY <1>1, <2>4 DEF Undisturbed
    <3>2. Stacked(owners, attempt.i, n)
      BY <1>3, <1>5, <2>1, <3>1 DEF OwnersOK
    <3>3. attempt.threshold = n
      BY <1>1, <1>3, <2>1 DEF AttemptOK
    <3>4. attempt.i \in Int /\ n \in Int /\ n = attempt.i - 1
      BY <1>4, <1>6, <2>1, <3>3 DEF LoopIsOver
    <3>5. PICK T : T = Owners \cup Wallets
      OBVIOUS
    <3>6. owners \in Seq(T)
      BY <1>1, <1>5, <3>5 DEF SafeOK
    <3>7. Len(owners) >= ConfigThreshold /\ ToSet(owners) \cap Wallets = {}
      BY <3>2, <3>4, <3>6, EmptyStack
    <3>8. Stacked(owners, 1, 0)
      BY <3>6, <3>7, EmptyStack
    <3>9. OwnersOK'
      BY <1>5, <2>1, <2>2, <3>8 DEF OwnersOK
    <3>10. BalanceOK'
      BY <2>1, <2>2, <3>1 DEF BalanceOK
    <3> QED
      BY <3>9, <3>10
  <2> QED
    BY <1>2, <2>1, <2>3, <2>4 DEF Undisturbed
<1>14. CASE ExecuteRoot
  <2>1. /\ attempt.pc = "execute" /\ root' \in {"COMPLETED", "FAILED"}
        /\ UNCHANGED <<safe, balance, signers, attempt, report, crashes, disturbed>>
    BY <1>14 DEF ExecuteRoot
  <2>2. RootOK'
    BY <1>1, <2>1 DEF RootOK, Answered
  <2>3. ASSUME ~disturbed PROVE OwnersOK' /\ BalanceOK'
    BY <1>1, <2>1, <2>3 DEF Undisturbed, OwnersOK, BalanceOK
  <2> QED
    BY <1>2, <2>1, <2>2, <2>3 DEF Undisturbed
<1>15. CASE Finish
  <2>1. /\ attempt.pc = "execute" /\ report' \in {"success", "failure"} /\ attempt' = Idle
        /\ UNCHANGED <<safe, balance, root, signers, crashes, disturbed>>
    BY <1>15 DEF Finish
  <2>2. attempt'.pc = "idle"
    BY <2>1, IdleAttempt
  <2>3. root # "EMPTY" /\ Answered'
    BY <1>1, <2>1 DEF RootOK, Answered
  <2>4. RootOK'
    BY <2>1, <2>2, <2>3 DEF RootOK
  <2>5. ASSUME ~disturbed PROVE OwnersOK' /\ BalanceOK'
    <3>1. OwnersOK /\ BalanceOK
      BY <1>1, <2>5 DEF Undisturbed
    <3>2. OwnersOK'
      BY <2>1, <2>2, <2>3, <3>1 DEF OwnersOK
    <3>3. BalanceOK'
      BY <2>1, <2>2, <3>1 DEF BalanceOK
    <3> QED
      BY <3>2, <3>3
  <2> QED
    BY <1>2, <2>1, <2>4, <2>5 DEF Undisturbed
<1>16. CASE ApproveReverts \/ Crash
  <2>1. PICK error \in {"reverted", "crashed"} : Throw(error)
    BY <1>16 DEF ApproveReverts, Crash
  <2>2. UNCHANGED <<safe, balance, root, signers>>
    BY <1>16 DEF ApproveReverts, Crash
  <2>3. attempt'.pc = "idle" /\ report' = error
    BY <2>1, IdleAttempt DEF Throw
  <2>4. RootOK'
    BY <2>3 DEF RootOK, Answered
  <2>5. crashes' = 0 => ApproveReverts /\ attempt.pc = "approve" /\ crashes = 0
    <3>1. CASE Crash
      <4>1. crashes \in 0 .. MaxCrashes /\ MaxCrashes \in Nat
        BY <1>1, SafeOwnersAssumption DEF OthersTyped
      <4> QED
        BY <3>1, <4>1 DEF Crash
    <3>2. CASE ApproveReverts
      BY <3>2 DEF ApproveReverts
    <3> QED
      BY <1>16, <3>1, <3>2
  <2>6. attempt.pc # "idle"
    BY <1>16 DEF ApproveReverts, Crash
  <2>7. ASSUME ~disturbed' PROVE OwnersOK' /\ BalanceOK'
    <3>1. ~disturbed /\ root = "EMPTY"
      BY <1>1, <2>1, <2>7, HarmlessException DEF OthersTyped
    <3>2. OwnersOK /\ BalanceOK
      BY <1>1, <3>1 DEF Undisturbed
    <3>3. attempt.pc \in {"add", "status", "approve"}
      BY <1>1, <2>6, <3>1 DEF RootOK, AttemptTyped
    <3>4. \E k \in 0 .. n : Stacked(owners, 1, k)
      BY <1>3, <1>4, <1>5, <3>2, <3>3 DEF OwnersOK
    <3>5. OwnersOK'
      BY <1>3, <1>5, <2>2, <2>3, <3>1, <3>4 DEF OwnersOK
    <3>6. BalanceOK'
      BY <2>2, <2>3, <2>5, <3>2 DEF BalanceOK
    <3> QED
      BY <3>5, <3>6
  <2> QED
    BY <1>2, <2>4, <2>7 DEF Undisturbed
<1>17. CASE NewDeployment
  <2>1. /\ attempt.pc = "idle" /\ root \in {"COMPLETED", "FAILED"} /\ root' = "EMPTY"
        /\ report' = "none" /\ UNCHANGED <<safe, balance, attempt, crashes, disturbed>>
    BY <1>17 DEF NewDeployment
  <2>2. RootOK'
    BY <2>1 DEF RootOK, Answered
  <2>3. ASSUME ~disturbed PROVE OwnersOK' /\ BalanceOK'
    <3>1. OwnersOK /\ BalanceOK
      BY <1>1, <2>3 DEF Undisturbed
    <3>2. Stacked(owners, 1, 0)
      BY <1>5, <2>1, <3>1 DEF OwnersOK
    <3>3. OwnersOK'
      BY <1>3, <1>4, <1>5, <2>1, <3>2 DEF OwnersOK
    <3>4. BalanceOK'
      BY <2>1, <3>1 DEF BalanceOK
    <3> QED
      BY <3>3, <3>4
  <2> QED
    BY <1>2, <2>1, <2>2, <2>3 DEF Undisturbed
<1> QED
  BY <1>7, <1>8, <1>9, <1>10, <1>11, <1>12, <1>13, <1>14, <1>15, <1>16, <1>17

(* If the Safe's threshold is the configured one, no wallet is an owner    *)
(* when the deployment executes and when it is over, unless an earlier     *)
(* attempt was cut short after the approval; and the module has its own    *)
(* balance again if no attempt was cut short at all.                       *)
THEOREM WalletsGoAsTheyCame ==
    ASSUME ConfiguredThreshold
    PROVE  Spec => []LeavesNoTrace
<1>1. Init => Trace
  <2> SUFFICES ASSUME Init PROVE Trace
    OBVIOUS
  <2>1. Inv /\ SafeOK(safe)
    BY InitInv, TypeParts DEF Inv
  <2>2. /\ safe.owners = InitialOwners /\ safe.threshold = InitialThreshold
        /\ attempt = Idle /\ report = "none" /\ balance = "own" /\ root = "EMPTY"
    BY DEF Init
  <2>3. attempt.pc = "idle"
    BY <2>2, IdleAttempt
  <2>4. safe.threshold = ConfigThreshold
    BY <2>2 DEF ConfiguredThreshold
  <2>5. RootOK /\ BalanceOK
    BY <2>2, <2>3 DEF RootOK, BalanceOK, Answered
  <2>6. PICK owners : owners = safe.owners
    OBVIOUS
  <2>7. owners \in Seq(Owners) /\ Len(owners) >= ConfigThreshold
    BY <2>1, <2>2, <2>4, <2>6, ConfigThresholdType, SafeOwnersAssumption DEF SafeOK
  <2>8. ToSet(owners) \cap Wallets = {}
    BY <2>7, SafeOwnersAssumption DEF ToSet
  <2>9. Stacked(owners, 1, 0)
    BY <2>7, <2>8, EmptyStack
  <2>10. 0 \in 0 .. ConfigThreshold
    BY ConfigThresholdType
  <2>11. OwnersOK
    BY <2>2, <2>3, <2>6, <2>9, <2>10 DEF OwnersOK
  <2> QED
    BY <2>1, <2>4, <2>5, <2>11 DEF Trace, Undisturbed
<1>2. Trace /\ [Next]_vars => Trace'
  <2>1. ASSUME Trace, Next PROVE Trace'
    <3>1. Inv'
      BY <2>1, NextInv DEF Trace
    <3>2. safe'.threshold = ConfigThreshold /\ RootOK' /\ Undisturbed'
      BY <2>1, QuietTrace, AddWalletTrace, RemoveWalletTrace, SafeChangesTrace, Zenon DEF Next
    <3> QED
      BY <3>1, <3>2 DEF Trace
  <2>2. ASSUME Trace, UNCHANGED vars PROVE Trace'
    <3>1. Inv'
      BY <2>2, NextInv DEF Trace
    <3>2. UNCHANGED <<safe, balance, root, attempt, report, crashes, disturbed>>
      BY <2>2 DEF vars
    <3> QED
      BY <2>2, <3>1, <3>2, Zenon DEF Trace, RootOK, Undisturbed, OwnersOK, BalanceOK, Answered
  <2> QED
    BY <2>1, <2>2
<1>3. ASSUME Trace PROVE LeavesNoTrace
  <2> SUFFICES ASSUME attempt.pc = "execute" \/ report \in {"success", "failure"}, ~disturbed
               PROVE  ToSet(safe.owners) \cap Wallets = {} /\ (crashes = 0 => balance = "own")
    BY Zenon DEF LeavesNoTrace
  <2>1. SafeOK(safe) /\ RootOK /\ OwnersOK /\ BalanceOK
    BY <1>3, TypeParts DEF Trace, Inv, Undisturbed
  <2>2. attempt.pc = "execute" \/ (attempt.pc = "idle" /\ root # "EMPTY")
    BY <2>1 DEF RootOK, Answered
  <2>3. Stacked(safe.owners, 1, 0)
    BY <2>1, <2>2 DEF OwnersOK
  <2>4. PICK T, owners : T = Owners \cup Wallets /\ owners = safe.owners
    OBVIOUS
  <2>5. owners \in Seq(T)
    BY <2>1, <2>4 DEF SafeOK
  <2>6. ToSet(owners) \cap Wallets = {}
    BY <2>3, <2>4, <2>5, EmptyStack
  <2>7. crashes = 0 => balance = "own"
    BY <2>1, <2>2 DEF BalanceOK
  <2> QED
    BY <2>4, <2>6, <2>7
<1> QED
  BY <1>1, <1>2, <1>3, PTL DEF Spec
=============================================================================
