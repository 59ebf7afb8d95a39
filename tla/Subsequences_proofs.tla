------------------------ MODULE Subsequences_proofs ------------------------
(***************************************************************************)
(* What Pick(s, I) is, for every sequence and every set of its positions.  *)
(***************************************************************************)
EXTENDS Subsequences, FunctionTheorems, FiniteSetTheorems, SequenceTheorems, TLAPS

\* One position after the other: f takes the places of Pick(s, I) to those of s.
Embeds(f, s, I) ==
    /\ f \in [1..Cardinality(I) -> I]
    /\ \A k \in 1..Cardinality(I) : Pick(s, I)[k] = s[f[k]]
    /\ \A j, k \in 1..Cardinality(I) : j < k => f[j] < f[k]
    /\ \A i \in I : \E k \in 1..Cardinality(I) : f[k] = i

\* Ranks of positions grow with them and lie between 1 and their number.
LEMMA RankGrows ==
    ASSUME NEW n \in Nat, NEW I \in SUBSET (1..n)
    PROVE  /\ IsFiniteSet(I) /\ Cardinality(I) \in Nat
           /\ \A i \in I : Rank(I, i) \in 1..Cardinality(I)
           /\ \A i, j \in I : i < j => Rank(I, i) < Rank(I, j)
<1>1. IsFiniteSet(I) /\ Cardinality(I) \in Nat
  <2>1. IsFiniteSet(1..n)
    BY FS_Interval
  <2>2. IsFiniteSet(I)
    BY <2>1, FS_Subset
  <2>. QED  BY <2>2, FS_CardinalityType
<1>0. \A i \in I : i \in Nat
  OBVIOUS
<1>2. ASSUME NEW i \in I
      PROVE  IsFiniteSet({j \in I : j <= i}) /\ Rank(I, i) \in Nat /\ Rank(I, i) <= Cardinality(I)
  <2>. DEFINE Low == {j \in I : j <= i}
  <2>1. Low \in SUBSET I
    OBVIOUS
  <2>. HIDE DEF Low
  <2>2. IsFiniteSet(Low) /\ Cardinality(Low) <= Cardinality(I) /\ Cardinality(Low) \in Nat
    BY <1>1, <2>1, FS_Subset, FS_CardinalityType
  <2>. QED  BY <2>2 DEF Rank, Low
<1>3. ASSUME NEW i \in I PROVE Rank(I, i) >= 1
  <2>. DEFINE Low == {j \in I : j <= i}
  <2>1. i \in Low
    OBVIOUS
  <2>2. Low # {}
    BY <2>1
  <2>3. IsFiniteSet(Low) /\ Cardinality(Low) \in Nat
    BY <1>2 DEF Rank
  <2>. HIDE DEF Low
  <2>4. Cardinality(Low) # 0
    BY <2>2, <2>3, FS_EmptySet
  <2>5. Cardinality(Low) >= 1
    BY <2>3, <2>4
  <2>. QED  BY <2>5 DEF Rank, Low
<1>4. ASSUME NEW i \in I, NEW j \in I, i < j PROVE Rank(I, i) < Rank(I, j)
  <2>. DEFINE A == {k \in I : k <= i}
              B == {k \in I : k <= j}
  <2>1. IsFiniteSet(A) /\ IsFiniteSet(B) /\ Cardinality(A) \in Nat /\ Cardinality(B) \in Nat
    BY <1>2 DEF Rank
  <2>2. A \in SUBSET B
    <3>1. i \in Nat /\ j \in Nat /\ \A k \in I : k \in Nat
      BY <1>0
    <3>2. \A k \in I : k <= i => k <= j
      BY <1>4, <3>1
    <3>. QED  BY <3>2
  <2>3. j \in B /\ j \notin A
    BY <1>4
  <2>. HIDE DEF A, B
  <2>4. Cardinality(A) <= Cardinality(B) /\ (Cardinality(A) = Cardinality(B) => A = B)
    BY <2>1, <2>2, FS_Subset
  <2>5. Cardinality(A) < Cardinality(B)
    BY <2>1, <2>3, <2>4
  <2>. QED  BY <2>5 DEF Rank, A, B
<1>. QED
  <2>1. ASSUME NEW i \in I PROVE Rank(I, i) \in 1..Cardinality(I)
    <3>1. Rank(I, i) \in Nat /\ Rank(I, i) <= Cardinality(I) /\ Rank(I, i) >= 1
      BY <1>2, <1>3
    <3>. QED  BY <1>1, <3>1
  <2>. QED  BY <1>1, <2>1, <1>4

\* Every number up to the number of positions is the rank of one of them.
LEMMA RankIsOnto ==
    ASSUME NEW n \in Nat, NEW I \in SUBSET (1..n)
    PROVE  \A k \in 1..Cardinality(I) : \E i \in I : Rank(I, i) = k
<1>. DEFINE c == Cardinality(I)
            r == [i \in I |-> Rank(I, i)]
<1>1. IsFiniteSet(I) /\ c \in Nat
  BY RankGrows
<1>2. \A i \in I : Rank(I, i) \in 1..c
  BY RankGrows
<1>3. \A i, j \in I : i < j => Rank(I, i) < Rank(I, j)
  BY RankGrows
<1>4. r \in [I -> 1..c]
  BY <1>2
<1>5. \A i, j \in I : r[i] = r[j] => i = j
  <2>. SUFFICES ASSUME NEW i \in I, NEW j \in I, r[i] = r[j], i # j PROVE FALSE
    OBVIOUS
  <2>1. i \in Nat /\ j \in Nat
    OBVIOUS
  <2>2. Rank(I, i) = Rank(I, j)
    OBVIOUS
  <2>3. Rank(I, i) \in Nat /\ Rank(I, j) \in Nat
    BY <1>1, <1>2
  <2>. QED  BY <1>3, <2>1, <2>2, <2>3
<1>. HIDE DEF r
<1>6. r \in Injection(I, 1..c)
  BY <1>4, <1>5, Fun_IsInj
<1>7. IsFiniteSet(1..c) /\ Cardinality(1..c) = c
  <2>1. /\ IsFiniteSet(1..c)
        /\ Cardinality(1..c) = IF 1 > c THEN 0 ELSE c - 1 + 1
    BY <1>1, FS_Interval
  <2>. QED  BY <1>1, <2>1
<1>8. r \in Surjection(I, 1..c)
  BY <1>6, <1>7, FS_Injection
<1>9. \A k \in 1..c : \E i \in I : r[i] = k
  BY <1>8, Fun_SurjectionProperties
<1>. QED  BY <1>9 DEF r

\* Pick(s, I) is a sequence of elements of s, and embeds into s exactly at the
\* positions I.
LEMMA PickEmbeds ==
    ASSUME NEW S, NEW s \in Seq(S), NEW I \in SUBSET (1..Len(s))
    PROVE  /\ Pick(s, I) \in Seq(S)
           /\ Cardinality(I) \in Nat
           /\ Len(Pick(s, I)) = Cardinality(I)
           /\ \E f : Embeds(f, s, I)
<1>. DEFINE c == Cardinality(I)
            f == [k \in 1..c |-> CHOOSE i \in I : Rank(I, i) = k]
<1>0. Len(s) \in Nat /\ \A i \in I : i \in Nat /\ i \in 1..Len(s)
  OBVIOUS
<1>1. c \in Nat /\ Len(s) \in Nat
  BY <1>0, RankGrows
<1>2. \A k \in 1..c : f[k] \in I /\ Rank(I, f[k]) = k
  BY <1>1, RankIsOnto
<1>3. f \in [1..c -> I]
  BY <1>2
<1>4. Pick(s, I) = [k \in 1..c |-> s[f[k]]]
  BY DEF Pick
<1>. HIDE DEF f
<1>5. \A k \in 1..c : s[f[k]] \in S
  BY <1>0, <1>2, ElementOfSeq
<1>6. Pick(s, I) \in Seq(S) /\ Len(Pick(s, I)) = c
  BY <1>1, <1>4, <1>5
<1>7. \A j, k \in 1..c : j < k => f[j] < f[k]
  <2>. SUFFICES ASSUME NEW j \in 1..c, NEW k \in 1..c, j < k, ~(f[j] < f[k]) PROVE FALSE
    OBVIOUS
  <2>1. f[j] \in I /\ f[k] \in I /\ Rank(I, f[j]) = j /\ Rank(I, f[k]) = k
    BY <1>2
  <2>2. f[j] \in Nat /\ f[k] \in Nat
    BY <1>0, <2>1
  <2>3. f[j] = f[k] \/ f[k] < f[j]
    BY <2>2
  <2>4. CASE f[j] = f[k]
    BY <1>1, <2>1, <2>4
  <2>5. CASE f[k] < f[j]
    <3>1. Rank(I, f[k]) < Rank(I, f[j])
      BY <1>1, <2>1, <2>5, RankGrows
    <3>. QED  BY <1>1, <2>1, <3>1
  <2>. QED  BY <2>3, <2>4, <2>5
<1>8. \A i \in I : \E k \in 1..c : f[k] = i
  <2>. SUFFICES ASSUME NEW i \in I PROVE \E k \in 1..c : f[k] = i
    OBVIOUS
  <2>. DEFINE k == Rank(I, i)
  <2>1. k \in 1..c
    BY <1>1, RankGrows
  <2>2. f[k] \in I /\ Rank(I, f[k]) = k
    BY <1>2, <2>1
  <2>3. ~(f[k] < i) /\ ~(i < f[k])
    <3>1. k \in Nat
      BY <1>1, <2>1
    <3>2. \A a, b \in I : a < b => Rank(I, a) < Rank(I, b)
      BY <1>1, RankGrows
    <3>. HIDE DEF k
    <3>3. f[k] < i => k < k
      BY <2>2, <3>2 DEF k
    <3>4. i < f[k] => k < k
      BY <2>2, <3>2 DEF k
    <3>. QED  BY <3>1, <3>3, <3>4
  <2>4. i \in Nat /\ f[k] \in Nat
    BY <1>0, <2>2
  <2>5. f[k] = i
    BY <2>3, <2>4
  <2>. QED  BY <2>1, <2>5
<1>9. \A k \in 1..c : Pick(s, I)[k] = s[f[k]]
  BY <1>4
<1>10. Embeds(f, s, I)
  BY <1>3, <1>7, <1>8, <1>9 DEF Embeds
<1>. QED  BY <1>1, <1>6, <1>10
\* p is what is left of q when some elements are taken out.
Within(p, q) ==
    \E f \in [1..Len(p) -> 1..Len(q)] :
        /\ \A k \in 1..Len(p) : p[k] = q[f[k]]
        /\ \A j, k \in 1..Len(p) : j < k => f[j] < f[k]

\* A pick of s lies within s.
LEMMA PickWithin ==
    ASSUME NEW S, NEW s \in Seq(S), NEW I \in SUBSET (1..Len(s))
    PROVE  /\ Pick(s, I) \in Seq(S)
           /\ Within(Pick(s, I), s)
           /\ \A k \in 1..Len(Pick(s, I)) : \E i \in I : Pick(s, I)[k] = s[i]
<1>1. /\ Pick(s, I) \in Seq(S)
      /\ Len(Pick(s, I)) = Cardinality(I)
  BY PickEmbeds
<1>2. PICK f : Embeds(f, s, I)
  BY PickEmbeds
<1>3. f \in [1..Len(Pick(s, I)) -> I]
  BY <1>1, <1>2 DEF Embeds
<1>4. f \in [1..Len(Pick(s, I)) -> 1..Len(s)]
  BY <1>3
<1>5. \A k \in 1..Len(Pick(s, I)) : Pick(s, I)[k] = s[f[k]]
  BY <1>1, <1>2 DEF Embeds
<1>6. \A j, k \in 1..Len(Pick(s, I)) : j < k => f[j] < f[k]
  BY <1>1, <1>2 DEF Embeds
<1>7. \A k \in 1..Len(Pick(s, I)) : f[k] \in I
  BY <1>3
<1>8. Within(Pick(s, I), s)
  BY <1>4, <1>5, <1>6 DEF Within
<1>. QED  BY <1>1, <1>5, <1>7, <1>8

\* Taking out the element after p leaves p and the rest in order.
LEMMA SkipWithin ==
    ASSUME NEW S, NEW p \in Seq(S), NEW q \in Seq(S), q # <<>>
    PROVE  /\ p \o Tail(q) \in Seq(S)
           /\ Within(p \o Tail(q), p \o q)
<1>. DEFINE n == Len(p)
            f == [k \in 1..Len(p \o Tail(q)) |-> IF k <= n THEN k ELSE k + 1]
<1>1. /\ Tail(q) \in Seq(S) /\ Len(Tail(q)) = Len(q) - 1 /\ Len(q) \in Nat /\ Len(q) > 0
      /\ \A k \in 1..(Len(q) - 1) : Tail(q)[k] = q[k + 1]
  OBVIOUS
<1>2. /\ n \in Nat /\ p \o Tail(q) \in Seq(S) /\ Len(p \o Tail(q)) = n + (Len(q) - 1)
      /\ Len(p \o q) = n + Len(q)
      /\ \A k \in 1..(n + (Len(q) - 1)) :
            (p \o Tail(q))[k] = IF k <= n THEN p[k] ELSE Tail(q)[k - n]
      /\ \A k \in 1..(n + Len(q)) : (p \o q)[k] = IF k <= n THEN p[k] ELSE q[k - n]
  BY <1>1
<1>. DEFINE l == Len(q)
            m == n + (l - 1)
<1>3. l \in Nat /\ l > 0 /\ m \in Nat
  BY <1>1, <1>2
<1>4. f \in [1..m -> 1..(n + l)]
  BY <1>2, <1>3
<1>5. \A j, k \in 1..m : j < k => f[j] < f[k]
  BY <1>2, <1>3
<1>6. ASSUME NEW k \in 1..m PROVE (p \o Tail(q))[k] = (p \o q)[f[k]]
  <2>1. CASE k <= n
    BY <1>2, <1>3, <1>6, <2>1
  <2>2. CASE ~(k <= n)
    <3>1. f[k] = k + 1 /\ k + 1 \in 1..(n + l) /\ k - n \in 1..(l - 1) /\ ~(k + 1 <= n)
          /\ k + 1 - n = (k - n) + 1
      BY <1>2, <1>3, <1>6, <2>2
    <3>2. (p \o Tail(q))[k] = Tail(q)[k - n] /\ (p \o q)[k + 1] = q[k + 1 - n]
      BY <1>2, <2>2, <3>1
    <3>. QED  BY <1>1, <3>1, <3>2
  <2>. QED  BY <2>1, <2>2
<1>. QED  BY <1>2, <1>4, <1>5, <1>6 DEF Within
\* Moving the first element of q to the end of p changes nothing of the whole.
LEMMA MoveOver ==
    ASSUME NEW S, NEW p \in Seq(S), NEW q \in Seq(S), q # <<>>
    PROVE  Append(p, Head(q)) \o Tail(q) = p \o q
<1>1. /\ Tail(q) \in Seq(S) /\ Len(Tail(q)) = Len(q) - 1 /\ Len(q) \in Nat /\ Len(q) > 0
      /\ \A k \in 1..(Len(q) - 1) : Tail(q)[k] = q[k + 1]
      /\ Head(q) = q[1] /\ Head(q) \in S
  OBVIOUS
<1>2. Append(p, Head(q)) \in Seq(S) /\ Len(Append(p, Head(q))) = Len(p) + 1 /\ Len(p) \in Nat
      /\ \A k \in 1..Len(p) : Append(p, Head(q))[k] = p[k]
      /\ Append(p, Head(q))[Len(p) + 1] = Head(q)
  BY <1>1
<1>. DEFINE a == Append(p, Head(q)) \o Tail(q)
            b == p \o q
            l == Len(p) + Len(q)
<1>3. /\ a \in Seq(S) /\ b \in Seq(S) /\ Len(a) = l /\ Len(b) = l /\ l \in Nat
      /\ \A k \in 1..l : a[k] = IF k <= Len(p) + 1 THEN Append(p, Head(q))[k]
                                ELSE Tail(q)[k - (Len(p) + 1)]
      /\ \A k \in 1..l : b[k] = IF k <= Len(p) THEN p[k] ELSE q[k - Len(p)]
  BY <1>1, <1>2
<1>. HIDE DEF a, b
<1>4. ASSUME NEW k \in 1..l PROVE a[k] = b[k]
  <2>1. CASE k <= Len(p)
    BY <1>1, <1>2, <1>3, <2>1
  <2>2. CASE k = Len(p) + 1
    BY <1>1, <1>2, <1>3, <2>2
  <2>3. CASE k > Len(p) + 1
    <3>1. k - (Len(p) + 1) \in 1..(Len(q) - 1) /\ (k - (Len(p) + 1)) + 1 = k - Len(p)
      BY <1>1, <1>2, <2>3
    <3>. QED  BY <1>1, <1>2, <1>3, <2>3, <3>1
  <2>. QED  BY <1>2, <2>1, <2>2, <2>3
<1>5. a = b
  BY <1>3, <1>4
<1>. QED  BY <1>5 DEF a, b

\* g lists the positions I in their order.
Lists(g, c, I) ==
    /\ g \in [1..c -> I]
    /\ \A j, k \in 1..c : j < k => g[j] < g[k]
    /\ \A i \in I : \E k \in 1..c : g[k] = i

\* Whatever lists the positions in their order is how Pick runs through them.
LEMMA PickIs ==
    ASSUME NEW S, NEW s \in Seq(S), NEW I \in SUBSET (1..Len(s)), NEW c \in Nat, NEW g, Lists(g, c, I)
    PROVE  Len(Pick(s, I)) = c /\ \A k \in 1..c : Pick(s, I)[k] = s[g[k]]
<1>. g \in [1..c -> I] /\ (\A j, k \in 1..c : j < k => g[j] < g[k])
     /\ \A i \in I : \E k \in 1..c : g[k] = i
  BY DEF Lists
<1>0. \A k \in 1..c : g[k] \in I /\ g[k] \in Nat /\ k \in Nat
  <2>1. \A i \in I : i \in Nat
    OBVIOUS
  <2>2. \A k \in 1..c : g[k] \in I /\ k \in Nat
    OBVIOUS
  <2>. QED  BY <2>1, <2>2
<1>1. \A j, k \in 1..c : g[j] = g[k] => j = k
  BY <1>0
<1>2. ASSUME NEW k \in 0..c, NEW J, J = {g[m] : m \in 1..k}
      PROVE  IsFiniteSet(J) /\ Cardinality(J) = k
  <2>. DEFINE h == [m \in 1..k |-> g[m]]
  <2>1. k \in Nat /\ 1..k \subseteq 1..c
    OBVIOUS
  <2>2. h \in [1..k -> J] /\ \A x, y \in 1..k : h[x] = h[y] => x = y
    BY <1>1, <1>2, <2>1
  <2>3. \A i \in J : \E x \in 1..k : h[x] = i
    BY <1>2
  <2>. HIDE DEF h
  <2>4. h \in Bijection(1..k, J)
    BY <2>2, <2>3, Fun_IsBij
  <2>5. ExistsBijection(1..k, J)
    BY <2>4 DEF ExistsBijection
  <2>6. IsFiniteSet(1..k) /\ Cardinality(1..k) = k
    BY <2>1, FS_Interval
  <2>. QED  BY <2>5, <2>6, FS_Bijection
<1>3. Cardinality(I) = c
  <2>1. \A i \in I : i \in {g[m] : m \in 1..c}
    OBVIOUS
  <2>2. \A i \in {g[m] : m \in 1..c} : i \in I
    BY <1>0
  <2>3. I = {g[m] : m \in 1..c}
    BY <2>1, <2>2
  <2>4. c \in 0..c
    OBVIOUS
  <2>. QED  BY <1>2, <2>3, <2>4
<1>4. ASSUME NEW k \in 1..c
      PROVE  Rank(I, g[k]) = k
  <2>1. {j \in I : j <= g[k]} = {g[m] : m \in 1..k}
    <3>1. \A m \in 1..c : g[m] <= g[k] => m \in 1..k
      BY <1>0
    <3>2. \A m \in 1..k : m \in 1..c /\ g[m] <= g[k]
      <4>1. ASSUME NEW m \in 1..k PROVE m \in 1..c /\ g[m] <= g[k]
        <5>1. m \in 1..c /\ (m = k \/ m < k)
          OBVIOUS
        <5>. QED  BY <1>0, <5>1
      <4>. QED  BY <4>1
    <3>. QED  BY <1>0, <3>1, <3>2
  <2>2. k \in 0..c
    OBVIOUS
  <2>. QED  BY <1>2, <2>1, <2>2 DEF Rank
<1>5. ASSUME NEW k \in 1..c
      PROVE  (CHOOSE i \in I : Rank(I, i) = k) = g[k]
  <2>. DEFINE e == CHOOSE i \in I : Rank(I, i) = k
  <2>1. e \in I /\ Rank(I, e) = k
    BY <1>0, <1>4
  <2>2. PICK m \in 1..c : g[m] = e
    BY <2>1
  <2>3. m = k
    BY <1>4, <2>1, <2>2
  <2>. QED  BY <2>2, <2>3
<1>6. Pick(s, I) = [k \in 1..c |-> s[CHOOSE i \in I : Rank(I, i) = k]]
  BY <1>3 DEF Pick
<1>7. \A k \in 1..c : s[CHOOSE i \in I : Rank(I, i) = k] = s[g[k]]
  BY <1>5
<1>8. Len(Pick(s, I)) = c
  BY <1>3, PickEmbeds
<1>. QED  BY <1>6, <1>7, <1>8, ZenonT(60)

\* What is picked from the front of a sequence does not depend on the rest.
LEMMA PickFront ==
    ASSUME NEW S, NEW s \in Seq(S), NEW t \in Seq(S), NEW I \in SUBSET (1..Len(s))
    PROVE  Pick(s \o t, I) = Pick(s, I)
<1>. DEFINE c == Cardinality(I)
            st == s \o t
            p == Pick(s, I)
<1>0. /\ Len(s) \in Nat /\ Len(t) \in Nat /\ \A i \in 1..Len(s) : st[i] = s[i] /\ i \in Nat
      /\ st \in Seq(S) /\ Len(st) = Len(s) + Len(t)
  OBVIOUS
<1>1. p \in Seq(S) /\ c \in Nat /\ Len(p) = c
  BY PickEmbeds
<1>2. PICK f : Embeds(f, s, I)
  BY PickEmbeds
<1>3. /\ f \in [1..c -> I] /\ \A k \in 1..c : p[k] = s[f[k]]
      /\ \A j, k \in 1..c : j < k => f[j] < f[k]
      /\ \A i \in I : \E k \in 1..c : f[k] = i
  BY <1>2 DEF Embeds
<1>4. p = [k \in 1..c |-> s[f[k]]]
  BY <1>1, <1>3
<1>. HIDE DEF st, p, c
<1>5. Pick(st, I) = p
  <2>1. I \in SUBSET (1..Len(st))
    BY <1>0
  <2>2. Lists(f, c, I)
    BY <1>3 DEF Lists
  <2>3. Len(Pick(st, I)) = c /\ \A k \in 1..c : Pick(st, I)[k] = st[f[k]]
    BY <1>0, <1>1, <2>1, <2>2, PickIs
  <2>4. Pick(st, I) \in Seq(S)
    BY <1>0, <2>1, PickEmbeds
  <2>5. \A k \in 1..c : st[f[k]] = s[f[k]]
    BY <1>0, <1>3
  <2>6. \A k \in 1..c : Pick(st, I)[k] = p[k]
    BY <1>3, <2>3, <2>5
  <2>. DEFINE q == Pick(st, I)
  <2>7. q \in Seq(S) /\ Len(q) = Len(p) /\ \A k \in 1..Len(q) : q[k] = p[k]
    BY <1>1, <2>3, <2>4, <2>6
  <2>. HIDE DEF q
  <2>8. q = p
    BY <1>1, <2>7, SeqEqual
  <2>. QED  BY <2>8 DEF q
<1>. QED  BY <1>5 DEF st, p

\* One more picked position after the others adds one element.
LEMMA PickGrows ==
    ASSUME NEW S, NEW s \in Seq(S), NEW t \in Seq(S), NEW I \in SUBSET (1..Len(s)),
           NEW m \in (Len(s) + 1)..(Len(s) + Len(t))
    PROVE  Pick(s \o t, I \cup {m}) = Append(Pick(s, I), (s \o t)[m])
<1>. DEFINE c == Cardinality(I)
            st == s \o t
            p == Pick(s, I)
<1>0. /\ Len(s) \in Nat /\ Len(t) \in Nat /\ \A i \in 1..Len(s) : st[i] = s[i] /\ i \in Nat
      /\ st \in Seq(S) /\ Len(st) = Len(s) + Len(t)
  OBVIOUS
<1>1. p \in Seq(S) /\ c \in Nat /\ Len(p) = c
  BY PickEmbeds
<1>2. PICK f : Embeds(f, s, I)
  BY PickEmbeds
<1>3. /\ f \in [1..c -> I] /\ \A k \in 1..c : p[k] = s[f[k]]
      /\ \A j, k \in 1..c : j < k => f[j] < f[k]
      /\ \A i \in I : \E k \in 1..c : f[k] = i
  BY <1>2 DEF Embeds
<1>4. p = [k \in 1..c |-> s[f[k]]]
  BY <1>1, <1>3
<1>. HIDE DEF st, p, c
<1>5. Pick(st, I \cup {m}) = Append(p, st[m])
  <2>. DEFINE g == [k \in 1..(c + 1) |-> IF k <= c THEN f[k] ELSE m]
              J == I \cup {m}
  <2>0. m \in Nat /\ m > Len(s) /\ m <= Len(st) /\ m \in 1..Len(st) /\ c + 1 \in Nat
        /\ \A i \in I : i \in Nat /\ i <= Len(s) /\ i < m /\ i \in 1..Len(st)
    BY <1>0, <1>1
  <2>1. J \in SUBSET (1..Len(st)) /\ Len(st) \in Nat
    BY <1>0, <2>0
  <2>2. \A k \in 1..(c + 1) : (k \in 1..c /\ k <= c) \/ (k = c + 1 /\ ~(k <= c))
    BY <1>1
  <2>3. /\ \A k \in 1..c : k \in 1..(c + 1) /\ g[k] = f[k] /\ f[k] \in I
        /\ c + 1 \in 1..(c + 1) /\ g[c + 1] = m
    BY <1>1, <1>3, <2>2
  <2>4. g \in [1..(c + 1) -> J]
    BY <1>3, <2>2
  <2>. HIDE DEF g
  <2>5. \A j, k \in 1..(c + 1) : j < k => g[j] < g[k]
    <3>1. ASSUME NEW j \in 1..(c + 1), NEW k \in 1..(c + 1), j < k PROVE g[j] < g[k]
      <4>1. j \in 1..c
        BY <1>1, <2>2, <3>1
      <4>2. CASE k \in 1..c
        BY <1>3, <2>3, <3>1, <4>1, <4>2
      <4>3. CASE k = c + 1
        BY <2>0, <2>3, <4>1, <4>3
      <4>. QED  BY <2>2, <4>2, <4>3
    <3>. QED  BY <3>1
  <2>6. \A i \in J : \E k \in 1..(c + 1) : g[k] = i
    <3>1. \A i \in I : \E k \in 1..(c + 1) : g[k] = i
      BY <1>3, <2>3
    <3>. QED  BY <2>3, <3>1
  <2>7. Pick(st, J) \in Seq(S) /\ Len(Pick(st, J)) = c + 1
        /\ \A k \in 1..(c + 1) : Pick(st, J)[k] = st[g[k]]
    <3>. HIDE DEF J
    <3>1. Lists(g, c + 1, J)
      BY <2>4, <2>5, <2>6 DEF Lists
    <3>. DEFINE e == c + 1
    <3>. HIDE DEF e
    <3>2. st \in Seq(S) /\ J \in SUBSET (1..Len(st)) /\ e \in Nat /\ Lists(g, e, J)
      BY <1>0, <2>0, <2>1, <3>1 DEF e
    <3>3. Len(Pick(st, J)) = e /\ \A k \in 1..e : Pick(st, J)[k] = st[g[k]]
      BY <3>2, PickIs
    <3>4. Pick(st, J) \in Seq(S)
      BY <3>2, PickEmbeds, Zenon
    <3>. QED  BY <3>3, <3>4 DEF e
  <2>8. st[m] \in S
    BY <1>0, <2>0
  <2>. DEFINE q == Append(p, st[m])
  <2>9. /\ \A k \in 1..c : q[k] = p[k]
        /\ q[c + 1] = st[m] /\ q \in Seq(S) /\ Len(q) = c + 1
    BY <1>1, <2>8
  <2>10. \A k \in 1..(c + 1) : q[k] = st[g[k]]
    <3>1. ASSUME NEW k \in 1..c PROVE q[k] = st[g[k]]
      <4>1. q[k] = s[f[k]] /\ g[k] = f[k] /\ f[k] \in I
        BY <1>3, <2>3, <2>9
      <4>2. f[k] \in 1..Len(s)
        BY <4>1
      <4>. QED  BY <1>0, <4>1, <4>2
    <3>2. q[c + 1] = st[g[c + 1]]
      BY <2>3, <2>9
    <3>. HIDE DEF q
    <3>. QED  BY <2>2, <3>1, <3>2
  <2>. DEFINE u == Pick(st, J)
  <2>11. /\ u \in Seq(S) /\ q \in Seq(S) /\ Len(u) = Len(q)
         /\ \A k \in 1..Len(u) : u[k] = q[k]
    BY <2>7, <2>9, <2>10
  <2>. HIDE DEF q, u
  <2>12. u = q
    BY <2>11, SeqEqual
  <2>. QED  BY <2>12 DEF q, u
<1>. QED  BY <1>5 DEF st, p

\* One that loses its beginning, up to the first picked element.
LEMMA PickShrinks ==
    ASSUME NEW S, NEW s \in Seq(S), NEW I \in SUBSET (1..Len(s)), NEW d \in I,
           \A i \in I : d <= i
    PROVE  /\ Pick(s, I) # <<>> /\ Head(Pick(s, I)) = s[d]
           /\ Pick(SubSeq(s, d + 1, Len(s)), {i \in 1..(Len(s) - d) : i + d \in I}) = Tail(Pick(s, I))
<1>. DEFINE c == Cardinality(I)
            p == Pick(s, I)
            r == SubSeq(s, d + 1, Len(s))
            J == {i \in 1..(Len(s) - d) : i + d \in I}
<1>0. Len(s) \in Nat /\ d \in Nat /\ d \in 1..Len(s) /\ \A i \in I : i \in Nat /\ i \in 1..Len(s)
  OBVIOUS
<1>1. p \in Seq(S) /\ c \in Nat /\ Len(p) = c
  BY PickEmbeds
<1>2. PICK f : Embeds(f, s, I)
  BY PickEmbeds
<1>3. /\ f \in [1..c -> I] /\ \A k \in 1..c : p[k] = s[f[k]]
      /\ \A j, k \in 1..c : j < k => f[j] < f[k]
      /\ \A i \in I : \E k \in 1..c : f[k] = i
  BY <1>2 DEF Embeds
<1>4. r \in Seq(S) /\ Len(r) = Len(s) - d /\ \A i \in 1..(Len(s) - d) : r[i] = s[i + d]
  BY <1>0
<1>5. J \in SUBSET (1..(Len(s) - d)) /\ \A i \in J : i + d \in I /\ i \in Nat
  BY <1>0
<1>6. \A i \in I : i # d => i - d \in J
  BY <1>0
<1>. HIDE DEF p, c, r, J
<1>7. c >= 1 /\ 1 \in 1..c /\ f[1] = d /\ \A k \in 2..c : k \in 1..c /\ f[k] # d
  <2>1. PICK k \in 1..c : f[k] = d
    BY <1>3
  <2>2. c >= 1 /\ 1 \in 1..c
    BY <1>1, <2>1
  <2>3. f[1] \in I /\ f[1] >= d /\ f[1] \in Nat
    BY <1>0, <1>3, <2>2
  <2>4. k = 1
    <3>1. ~(1 < k)
      BY <1>0, <1>3, <2>1, <2>2, <2>3
    <3>. QED  BY <2>1, <3>1
  <2>5. \A x \in 2..c : x \in 1..c /\ 1 < x /\ f[1] < f[x]
    BY <1>1, <1>3, <2>2
  <2>. QED  BY <1>0, <2>1, <2>2, <2>4, <2>5
<1>8. p # <<>> /\ Head(p) = s[d]
  <2>1. Len(p) >= 1 /\ p[1] = s[d]
    BY <1>1, <1>3, <1>7
  <2>. QED  BY <1>1, <2>1
<1>9. Tail(p) \in Seq(S) /\ Len(Tail(p)) = c - 1 /\ \A k \in 1..(c - 1) : Tail(p)[k] = p[k + 1]
  BY <1>1, <1>8
<1>10. Pick(r, J) \in Seq(S) /\ Len(Pick(r, J)) = c - 1
       /\ \A k \in 1..(c - 1) : Pick(r, J)[k] = r[f[k + 1] - d]
  <2>. DEFINE g == [k \in 1..(c - 1) |-> f[k + 1] - d]
  <2>0. c - 1 \in Nat /\ Len(s) - d \in Nat /\ \A k \in 1..(c - 1) : k \in Nat /\ k + 1 \in 2..c /\ k + 1 \in 1..c
    BY <1>0, <1>1, <1>7
  <2>1. g \in [1..(c - 1) -> J]
    BY <1>3, <1>6, <1>7, <2>0
  <2>2. \A k \in 1..(c - 1) : g[k] = f[k + 1] - d /\ f[k + 1] \in Nat
    BY <1>0, <1>3, <2>0
  <2>. HIDE DEF g
  <2>3. \A j, k \in 1..(c - 1) : j < k => g[j] < g[k]
    <3>1. ASSUME NEW j \in 1..(c - 1), NEW k \in 1..(c - 1), j < k PROVE g[j] < g[k]
      <4>1. f[j + 1] < f[k + 1]
        <5>1. j + 1 < k + 1
          BY <2>0, <3>1
        <5>. QED  BY <1>3, <2>0, <5>1
      <4>. QED  BY <1>0, <2>2, <4>1
    <3>. QED  BY <3>1
  <2>4. \A i \in J : \E k \in 1..(c - 1) : g[k] = i
    <3>1. ASSUME NEW i \in J PROVE \E k \in 1..(c - 1) : g[k] = i
      <4>1. i + d \in I /\ i \in Nat /\ i >= 1
        BY <1>5
      <4>2. PICK x \in 1..c : f[x] = i + d
        BY <1>3, <4>1
      <4>3. x # 1
        BY <1>0, <1>7, <4>1, <4>2
      <4>4. x - 1 \in 1..(c - 1) /\ (x - 1) + 1 = x
        BY <1>1, <4>2, <4>3
      <4>5. g[x - 1] = (i + d) - d
        BY <2>2, <4>2, <4>4
      <4>. QED  BY <1>0, <4>1, <4>4, <4>5
    <3>. QED  BY <3>1
  <2>5. Lists(g, c - 1, J)
    BY <2>1, <2>3, <2>4 DEF Lists
  <2>6. J \in SUBSET (1..Len(r))
    BY <1>4, <1>5
  <2>7. Len(Pick(r, J)) = c - 1 /\ \A k \in 1..(c - 1) : Pick(r, J)[k] = r[g[k]]
    <3>. DEFINE e == c - 1
    <3>. HIDE DEF e
    <3>1. r \in Seq(S) /\ J \in SUBSET (1..Len(r)) /\ e \in Nat /\ Lists(g, e, J)
      BY <1>4, <2>0, <2>5, <2>6 DEF e
    <3>2. Len(Pick(r, J)) = e /\ \A k \in 1..e : Pick(r, J)[k] = r[g[k]]
      BY <3>1, PickIs
    <3>. QED  BY <3>2 DEF e
  <2>8. Pick(r, J) \in Seq(S)
    BY <1>4, <2>6, PickEmbeds
  <2>. QED  BY <2>2, <2>7, <2>8
<1>11. \A k \in 1..(c - 1) : r[f[k + 1] - d] = p[k + 1]
  <2>1. ASSUME NEW k \in 1..(c - 1) PROVE r[f[k + 1] - d] = p[k + 1]
    <3>0. k + 1 \in 2..c /\ k + 1 \in 1..c
      BY <1>1, <1>7
    <3>1. f[k + 1] \in I /\ f[k + 1] # d /\ p[k + 1] = s[f[k + 1]]
      BY <1>3, <1>7, <3>0
    <3>. DEFINE x == f[k + 1]
    <3>. HIDE DEF x
    <3>2. x \in I /\ x # d /\ x \in Nat /\ p[k + 1] = s[x]
      BY <1>0, <3>1 DEF x
    <3>3. x - d \in J /\ (x - d) + d = x
      BY <1>0, <1>6, <3>2
    <3>4. x - d \in 1..(Len(s) - d)
      BY <1>5, <3>3
    <3>5. r[x - d] = s[(x - d) + d]
      BY <1>4, <3>4
    <3>. QED  BY <3>2, <3>3, <3>5 DEF x
  <2>. QED  BY <2>1
<1>12. Pick(r, J) = Tail(p)
  <2>. DEFINE t == Tail(p)
              u == Pick(r, J)
  <2>1. t \in Seq(S) /\ Len(t) = c - 1 /\ \A k \in 1..(c - 1) : t[k] = p[k + 1]
    BY <1>9
  <2>2. u \in Seq(S) /\ Len(u) = c - 1 /\ \A k \in 1..(c - 1) : u[k] = p[k + 1]
    BY <1>10, <1>11
  <2>. HIDE DEF t, u
  <2>3. u = t
    BY <2>1, <2>2, SeqEqual
  <2>. QED  BY <2>3 DEF t, u
<1>. QED  BY <1>8, <1>12 DEF p, r, J
=============================================================================
