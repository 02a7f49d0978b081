----------------------------- MODULE NamingProofs -----------------------------
(***************************************************************************)
(* Proofs of the properties of Naming, for all names over the alphabet and *)
(* lists of them of every length.                                          *)
(*                                                                         *)
(* An id is a concatenation, and billets are sorted: both are defined over *)
(* lists of any length, and what they are is proved by induction.  UpTo is *)
(* induction for a set, and rests on the least element of a set of natural *)
(* numbers.                                                                *)
(***************************************************************************)
EXTENDS Naming, FiniteSetTheorems, SequenceTheorems, WellFoundedInduction, TLAPS

\* A set of natural numbers has a least one.
LEMMA Least ==
  ASSUME NEW S, S \subseteq Nat, S # {}
  PROVE  \E m \in S : \A k \in S : m <= k
<1>1. PICK m \in S : \A k \in S : ~ (<<k, m>> \in OpToRel(<, Nat))
  BY NatLessThanWellFounded, WFMin, Zenon
<1>2. \A k \in S : m <= k
  <2> TAKE k \in S
  <2>1. <<k, m>> \notin OpToRel(<, Nat)
    BY <1>1
  <2>2. ~ (k < m)
    BY <2>1, Zenon DEF OpToRel
  <2> QED BY <2>2
<1> QED BY <1>2

\* Induction up to n, for a set.
LEMMA UpTo ==
  ASSUME NEW n \in Nat, NEW S,
         1 \in S,
         \A m \in 1..(n - 1) : m \in S => m + 1 \in S
  PROVE  \A m \in 1..n : m \in S
<1> DEFINE Fails == (1..n) \ S
<1> SUFFICES ASSUME Fails # {} PROVE FALSE
  OBVIOUS
<1>1. Fails \subseteq Nat
  OBVIOUS
<1>2. PICK m \in Fails : \A k \in Fails : m <= k
  <2> HIDE DEF Fails
  <2> QED BY <1>1, Least
<1>3. m \in Nat /\ m >= 1 /\ m <= n /\ m # 1
  OBVIOUS
<1>4. m - 1 \in 1..(n - 1) /\ m - 1 \notin Fails
  BY <1>2, <1>3
<1>5. (m - 1) + 1 \in S
  BY <1>3, <1>4
<1> QED BY <1>3, <1>5

-----------------------------------------------------------------------------
(* Concatenation.                                                          *)

\* FlattenSeq is the last of the concatenations of the first parts.
LEMMA Flatten ==
  ASSUME NEW X, NEW parts \in Seq(Seq(X)), parts # <<>>
  PROVE  \E f \in [1..Len(parts) -> Seq(X)] :
           /\ f[1] = parts[1]
           /\ \A i \in 2..Len(parts) : f[i] = f[i - 1] \o parts[i]
           /\ FlattenSeq(parts) = f[Len(parts)]
<1> DEFINE n == Len(parts)
           Step(g, i) == IF i = 1 THEN parts[i] ELSE g[i - 1] \o parts[i]
           Solves(g, m) == g = [i \in 1..m |-> Step(g, i)]
           S == {m \in 1..n : \E g \in [1..m -> Seq(X)] : Solves(g, m)}
<1>1. n \in Nat /\ n >= 1 /\ \A i \in 1..n : parts[i] \in Seq(X)
  OBVIOUS
<1>2. 1 \in S
  <2> DEFINE g == [i \in 1..1 |-> parts[1]]
  <2>1. g \in [1..1 -> Seq(X)] /\ Solves(g, 1) /\ 1 \in 1..n
    BY <1>1
  <2> HIDE DEF g, Solves
  <2> QED BY <2>1
<1>3. ASSUME NEW m \in 1..(n - 1), m \in S PROVE m + 1 \in S
  <2>1. PICK h \in [1..m -> Seq(X)] : Solves(h, m)
    BY <1>3
  <2>2. m \in Nat /\ m >= 1 /\ m + 1 \in 1..n
    BY <1>1
  <2> DEFINE last == h[m] \o parts[m + 1]
             g == [i \in 1..(m + 1) |-> IF i = m + 1 THEN last ELSE h[i]]
  <2>3. last \in Seq(X)
    BY <1>1, <2>2
  <2>4. g \in [1..(m + 1) -> Seq(X)]
    <3> HIDE DEF last
    <3> QED BY <2>2, <2>3
  <2>5. \A i \in 1..(m + 1) : g[i] = Step(g, i)
    <3> TAKE i \in 1..(m + 1)
    <3>1. CASE i = m + 1
      <4>1. g[m] = h[m] /\ g[m + 1] = last
        <5> HIDE DEF last
        <5> QED BY <2>2
      <4>2. (m + 1) - 1 = m /\ m + 1 # 1
        BY <2>2
      <4> HIDE DEF g
      <4> QED BY <3>1, <4>1, <4>2
    <3>2. CASE i # m + 1
      <4>1. i \in 1..m
        BY <2>2, <3>2
      <4>2. h[i] = Step(h, i) /\ g[i] = h[i]
        BY <2>1, <4>1, <3>2
      <4>3. i # 1 => g[i - 1] = h[i - 1]
        BY <2>2, <4>1
      <4> QED BY <4>2, <4>3
    <3> QED BY <3>1, <3>2
  <2>6. Solves(g, m + 1)
    BY <2>5
  <2> QED BY <2>2, <2>4, <2>6
<1>4. n \in S
  <2> HIDE DEF S
  <2>1. \A m \in 1..n : m \in S
    BY <1>1, <1>2, <1>3, UpTo, Zenon
  <2> QED BY <1>1, <2>1
<1>5. PICK h \in [1..n -> Seq(X)] : Solves(h, n)
  BY <1>4
<1> DEFINE f == CHOOSE g : Solves(g, n)
<1>6. Solves(f, n)
  BY <1>5
<1>7. FlattenSeq(parts) = f[n]
  BY <1>1 DEF FlattenSeq
<1>8. \A i \in 1..n : f[i] = Step(f, i)
  BY <1>6
<1>9. \A i \in 1..n : h[i] = Step(h, i)
  BY <1>5
<1> HIDE DEF f
<1>10. \A i \in 1..n : f[i] = h[i]
  <2> DEFINE T == {i \in 1..n : f[i] = h[i]}
  <2>1. 1 \in 1..n
    BY <1>1
  <2>2. 1 \in T
    BY <1>8, <1>9, <2>1
  <2>3. ASSUME NEW m \in 1..(n - 1), m \in T PROVE m + 1 \in T
    <3>1. m + 1 \in 1..n /\ m + 1 # 1 /\ (m + 1) - 1 = m
      BY <1>1
    <3>2. f[m + 1] = f[m] \o parts[m + 1] /\ h[m + 1] = h[m] \o parts[m + 1]
      BY <1>8, <1>9, <3>1
    <3> QED BY <2>3, <3>1, <3>2
  <2> HIDE DEF T, n
  <2>4. \A m \in 1..n : m \in T
    BY <1>1, <2>2, <2>3, UpTo, Zenon
  <2> QED BY <2>4 DEF T
<1>11. /\ h[1] = parts[1]
       /\ \A i \in 2..n : h[i] = h[i - 1] \o parts[i]
       /\ FlattenSeq(parts) = h[n]
  <2>1. 1 \in 1..n /\ n \in 1..n
    BY <1>1
  <2>2. ASSUME NEW i \in 2..n PROVE h[i] = h[i - 1] \o parts[i]
    <3>1. i \in 1..n /\ i # 1
      BY <1>1
    <3> QED BY <1>9, <3>1
  <2>3. h[1] = parts[1]
    BY <1>9, <2>1
  <2>4. FlattenSeq(parts) = h[n]
    BY <1>7, <1>10, <2>1
  <2> QED BY <2>2, <2>3, <2>4
<1> QED BY <1>11

\* A concatenation of sequences over X is one.
LEMMA FlattenType ==
  ASSUME NEW X, NEW parts \in Seq(Seq(X))
  PROVE  FlattenSeq(parts) \in Seq(X)
<1>1. CASE parts = <<>>
  BY <1>1 DEF FlattenSeq
<1>2. CASE parts # <<>>
  <2>1. PICK f \in [1..Len(parts) -> Seq(X)] : FlattenSeq(parts) = f[Len(parts)]
    BY <1>2, Flatten
  <2>2. Len(parts) \in 1..Len(parts)
    BY <1>2
  <2> QED BY <2>1, <2>2
<1> QED BY <1>1, <1>2

\* It is empty only if its first part is.
LEMMA FlattenNonempty ==
  ASSUME NEW X, NEW parts \in Seq(Seq(X)), parts # <<>>, parts[1] # <<>>
  PROVE  FlattenSeq(parts) # <<>>
<1>1. PICK f \in [1..Len(parts) -> Seq(X)] :
        /\ f[1] = parts[1]
        /\ \A i \in 2..Len(parts) : f[i] = f[i - 1] \o parts[i]
        /\ FlattenSeq(parts) = f[Len(parts)]
  BY Flatten
<1> DEFINE n == Len(parts)
           S == {i \in 1..n : f[i] # <<>>}
<1>2. n \in Nat /\ n >= 1
  OBVIOUS
<1>3. 1 \in S
  BY <1>1, <1>2
<1>4. ASSUME NEW m \in 1..(n - 1), m \in S PROVE m + 1 \in S
  <2>1. m + 1 \in 2..n /\ m \in 1..n /\ m + 1 \in 1..n /\ (m + 1) - 1 = m
    BY <1>2
  <2>2. f[m + 1] = f[m] \o parts[m + 1] /\ f[m] # <<>>
    BY <1>1, <1>4, <2>1
  <2>3. f[m] \in Seq(X)
    BY <2>1
  <2>4. parts[m + 1] \in Seq(X)
    BY <2>1, ElementOfSeq
  <2>5. f[m + 1] # <<>>
    <3> DEFINE u == f[m]
               v == parts[m + 1]
    <3>1. u \in Seq(X) /\ v \in Seq(X) /\ u # <<>>
      BY <2>2, <2>3, <2>4
    <3> HIDE DEF u, v
    <3>2. u \o v # <<>>
      BY <3>1, ConcatEqualIffEmpty
    <3> QED BY <2>2, <3>2 DEF u, v
  <2> QED BY <2>1, <2>5
<1>5. n \in S
  <2> HIDE DEF S
  <2>1. \A m \in 1..n : m \in S
    BY <1>2, <1>3, <1>4, UpTo, Zenon
  <2> QED BY <1>2, <2>1
<1> QED BY <1>1, <1>5

\* If each part is one element, those are its elements.
LEMMA FlattenSingles ==
  ASSUME NEW X, NEW s \in Seq(X)
  PROVE  FlattenSeq([i \in DOMAIN s |-> <<s[i]>>]) = s
<1> DEFINE parts == [i \in DOMAIN s |-> <<s[i]>>]
           n == Len(s)
<1>1. n \in Nat /\ DOMAIN s = 1..n /\ \A i \in 1..n : s[i] \in X
  BY LenProperties
<1>2. parts = [i \in 1..n |-> <<s[i]>>]
  BY <1>1
<1>3. \A i \in 1..n : parts[i] = <<s[i]>> /\ <<s[i]>> \in Seq(X)
  BY <1>1, <1>2
<1>4. parts \in Seq(Seq(X)) /\ Len(parts) = n
  <2> HIDE DEF n
  <2> QED BY <1>1, <1>2, <1>3
<1> HIDE DEF parts
<1>5. CASE s = <<>>
  <2>1. parts = <<>>
    BY <1>1, <1>3, <1>4, <1>5
  <2> QED BY <1>5, <2>1 DEF FlattenSeq, parts
<1>6. CASE s # <<>>
  <2>1. n >= 1 /\ parts # <<>>
    BY <1>1, <1>3, <1>4, <1>6
  <2>2. PICK f \in [1..n -> Seq(X)] :
          /\ f[1] = parts[1]
          /\ \A i \in 2..n : f[i] = f[i - 1] \o parts[i]
          /\ FlattenSeq(parts) = f[n]
    <3> HIDE DEF n
    <3>1. \E f \in [1..Len(parts) -> Seq(X)] :
            /\ f[1] = parts[1]
            /\ \A i \in 2..Len(parts) : f[i] = f[i - 1] \o parts[i]
            /\ FlattenSeq(parts) = f[Len(parts)]
      BY <1>4, <2>1, Flatten, Zenon
    <3> QED BY <1>4, <3>1
  <2> DEFINE S == {i \in 1..n : /\ Len(f[i]) = i
                                /\ \A k \in 1..i : f[i][k] = s[k]}
  <2>3. 1 \in S
    <3>1. 1 \in 1..n
      BY <1>1, <2>1
    <3>2. f[1] = <<s[1]>>
      BY <1>3, <2>2, <3>1
    <3>3. Len(<<s[1]>>) = 1 /\ \A k \in 1..1 : <<s[1]>>[k] = s[k]
      OBVIOUS
    <3> QED BY <3>1, <3>2, <3>3
  <2>4. ASSUME NEW m \in 1..(n - 1), m \in S PROVE m + 1 \in S
    <3>1. m + 1 \in 2..n /\ m \in 1..n /\ m + 1 \in 1..n /\ (m + 1) - 1 = m
      BY <1>1, <1>3, <1>4
    <3>2. f[m + 1] = f[m] \o <<s[m + 1]>> /\ f[m] \in Seq(X) /\ s[m + 1] \in X
      BY <1>1, <1>3, <1>4, <2>2, <3>1
    <3>3. Len(f[m]) = m /\ \A k \in 1..m : f[m][k] = s[k]
      BY <2>4
    <3>4. Len(f[m + 1]) = m + 1
      BY <3>1, <3>2, <3>3
    <3>5. ASSUME NEW k \in 1..(m + 1) PROVE f[m + 1][k] = s[k]
      <4>1. CASE k \in 1..m
        BY <3>2, <3>3, <4>1
      <4>2. CASE k = m + 1
        BY <3>1, <3>2, <3>3, <4>2
      <4> QED BY <3>1, <4>1, <4>2
    <3> QED BY <3>1, <3>4, <3>5
  <2>5. \A m \in 1..n : m \in S
    <3> HIDE DEF S, n
    <3> QED BY <1>1, <1>3, <1>4, <2>3, <2>4, UpTo, Zenon
  <2>6. n \in 1..n
    BY <1>1, <1>3, <1>4, <2>1
  <2>7. f[n] \in Seq(X) /\ Len(f[n]) = n /\ \A k \in 1..n : f[n][k] = s[k]
    BY <2>2, <2>5, <2>6
  <2>8. f[n] = s
    BY <2>7, SeqEqual
  <2> QED BY <2>2, <2>8 DEF parts
<1> QED BY <1>5, <1>6

\* Firsts drops the empty name and repetitions.
LEMMA FirstsDistinct ==
  ASSUME NEW N, NEW s \in Seq(N)
  PROVE  /\ Firsts(s) \in Seq(N \ {<<>>})
         /\ \A i, j \in DOMAIN Firsts(s) : i # j => Firsts(s)[i] # Firsts(s)[j]
<1> DEFINE New(i) == s[i] # <<>> /\ \A j \in 1..(i - 1) : s[j] # s[i]
           parts == [i \in DOMAIN s |-> IF New(i) THEN <<s[i]>> ELSE <<>>]
           n == Len(s)
           M == N \ {<<>>}
<1>1. n \in Nat /\ DOMAIN s = 1..n /\ \A i \in 1..n : s[i] \in N
  BY LenProperties
<1>2. parts = [i \in 1..n |-> IF New(i) THEN <<s[i]>> ELSE <<>>]
  BY <1>1
<1>3. Firsts(s) = FlattenSeq(parts)
  BY DEF Firsts
<1> HIDE DEF parts
<1>4. \A i \in 1..n : /\ parts[i] = IF New(i) THEN <<s[i]>> ELSE <<>>
                      /\ parts[i] \in Seq(M)
  <2> TAKE i \in 1..n
  <2>1. parts[i] = IF New(i) THEN <<s[i]>> ELSE <<>>
    BY <1>2
  <2>2. New(i) => s[i] \in M
    BY <1>1
  <2> HIDE DEF M, New
  <2> QED BY <2>1, <2>2
<1>5. parts \in Seq(Seq(M)) /\ Len(parts) = n
  <2> HIDE DEF n, M, New
  <2> QED BY <1>1, <1>2, <1>4
<1>6. FlattenSeq(parts) \in Seq(M)
  BY <1>5, FlattenType
<1> DEFINE Distinct(t) == \A i, j \in 1..Len(t) : i # j => t[i] # t[j]
<1>7. Distinct(FlattenSeq(parts))
  <2>1. CASE n = 0
    <3>1. parts = <<>>
      BY <1>5, <2>1, EmptySeq
    <3> QED BY <3>1 DEF FlattenSeq
  <2>2. CASE n # 0
    <3> HIDE DEF n, M, Distinct
    <3>1. n >= 1 /\ parts # <<>>
      BY <1>1, <1>5, <2>2
    <3>2. \E f \in [1..Len(parts) -> Seq(M)] :
            /\ f[1] = parts[1]
            /\ \A i \in 2..Len(parts) : f[i] = f[i - 1] \o parts[i]
            /\ FlattenSeq(parts) = f[Len(parts)]
      BY <1>5, <3>1, Flatten, Zenon
    <3>3. PICK f \in [1..n -> Seq(M)] :
            /\ f[1] = parts[1]
            /\ \A i \in 2..n : f[i] = f[i - 1] \o parts[i]
            /\ FlattenSeq(parts) = f[n]
      BY <1>5, <3>2
    <3> DEFINE From(t, i) == \A a \in 1..Len(t) : \E j \in 1..i : t[a] = s[j]
               S == {i \in 1..n : Distinct(f[i]) /\ From(f[i], i)}
    <3>4. 1 \in S
      <4>1. 1 \in 1..n
        BY <1>1, <3>1
      <4>2. f[1] = <<s[1]>> \/ f[1] = <<>>
        BY <1>4, <3>3, <4>1
      <4>3. Distinct(f[1])
        BY <4>2 DEF Distinct
      <4>4. From(f[1], 1)
        BY <4>2
      <4> QED BY <4>1, <4>3, <4>4
    <3>5. ASSUME NEW m \in 1..(n - 1), m \in S PROVE m + 1 \in S
      <4>1. m + 1 \in 2..n /\ m \in 1..n /\ m + 1 \in 1..n /\ (m + 1) - 1 = m
            /\ m \in Nat
        BY <1>1
      <4>2. f[m + 1] = f[m] \o parts[m + 1] /\ f[m] \in Seq(M)
        BY <3>3, <4>1
      <4>3. Distinct(f[m]) /\ From(f[m], m)
        BY <3>5
      <4>4. CASE ~ New(m + 1)
        <5>1. parts[m + 1] = <<>>
          BY <1>4, <4>1, <4>4
        <5>2. f[m + 1] = f[m]
          BY <4>2, <5>1, ConcatEmptySeq
        <5>3. From(f[m], m + 1)
          BY <4>1, <4>3
        <5> QED BY <4>1, <4>3, <5>2, <5>3
      <4>5. CASE New(m + 1)
        <5> DEFINE t == f[m]
                   u == f[m + 1]
                   l == Len(t)
        <5>1. u = t \o <<s[m + 1]>> /\ s[m + 1] \in M
          <6>1. parts[m + 1] = <<s[m + 1]>>
            BY <1>4, <4>1, <4>5
          <6>2. s[m + 1] \in M
            BY <1>1, <4>1, <4>5 DEF M
          <6> QED BY <4>2, <6>1, <6>2
        <5>2. t \in Seq(M) /\ l \in Nat
          BY <4>2
        <5>3. Len(u) = l + 1 /\ u[l + 1] = s[m + 1]
              /\ \A a \in 1..l : u[a] = t[a]
          <6> HIDE DEF t, u
          <6> QED BY <5>1, <5>2
        <5>4. \A a \in 1..l : \E j \in 1..m : t[a] = s[j]
          BY <4>3
        <5>5. \A j \in 1..m : s[j] # s[m + 1]
          BY <4>1, <4>5
        <5>6. \A a \in 1..l : u[a] # s[m + 1]
          BY <5>3, <5>4, <5>5
        <5>7. Distinct(u)
          <6> SUFFICES ASSUME NEW a \in 1..Len(u), NEW b \in 1..Len(u), a # b
                       PROVE  u[a] # u[b]
            BY DEF Distinct
          <6>1. CASE a \in 1..l /\ b \in 1..l
            BY <4>3, <5>3, <6>1 DEF Distinct
          <6>2. CASE a = l + 1 /\ b \in 1..l
            BY <5>3, <5>6, <6>2
          <6>3. CASE b = l + 1 /\ a \in 1..l
            BY <5>3, <5>6, <6>3
          <6> HIDE DEF u, l
          <6> QED BY <5>2, <5>3, <6>1, <6>2, <6>3
        <5>8. From(u, m + 1)
          <6> SUFFICES ASSUME NEW a \in 1..Len(u)
                       PROVE  \E j \in 1..(m + 1) : u[a] = s[j]
            OBVIOUS
          <6>1. CASE a \in 1..l
            BY <4>1, <5>3, <5>4, <6>1
          <6>2. CASE a = l + 1
            BY <4>1, <5>3, <6>2
          <6>3. a \in 1..l \/ a = l + 1
            <7> HIDE DEF u, l
            <7> QED BY <5>2, <5>3
          <6> QED BY <6>1, <6>2, <6>3
        <5> QED BY <4>1, <5>7, <5>8
      <4> HIDE DEF S, New
      <4> QED BY <4>4, <4>5
    <3>6. \A m \in 1..n : m \in S
      <4> HIDE DEF S
      <4> QED BY <1>1, <3>4, <3>5, UpTo, Zenon
    <3>7. n \in 1..n
      BY <1>1, <3>1
    <3>8. Distinct(f[n])
      BY <3>6, <3>7
    <3> QED BY <3>3, <3>8
  <2> QED BY <2>1, <2>2
<1>8. DOMAIN FlattenSeq(parts) = 1..Len(FlattenSeq(parts))
  BY <1>6, LenProperties
<1> QED BY <1>3, <1>6, <1>7, <1>8

-----------------------------------------------------------------------------
(* Names.                                                                  *)

\* A nonempty set of positions has a first and a last one.
LEMMA FirstAndLast ==
  ASSUME NEW n \in Nat, NEW S, S \subseteq 1..n, S # {}
  PROVE  /\ Min(S) \in S /\ Max(S) \in S
         /\ \A k \in S : Min(S) <= k /\ k <= Max(S)
<1>1. \E m \in S : \A k \in S : m <= k
  <2>1. S \subseteq Nat
    OBVIOUS
  <2> QED BY <2>1, Least
<1>2. \E m \in S : \A k \in S : m >= k
  <2> DEFINE R == {n - k : k \in S}
  <2>1. \A k \in S : n - k \in Nat
    <3> TAKE k \in S
    <3>1. k \in 1..n
      OBVIOUS
    <3> QED BY <3>1
  <2>2. R \subseteq Nat /\ R # {}
    BY <2>1
  <2>3. PICK r \in R : \A k \in R : r <= k
    <3> HIDE DEF R
    <3> QED BY <2>2, Least
  <2>4. PICK m \in S : r = n - m
    BY <2>3
  <2>5. \A k \in S : n - m <= n - k
    BY <2>3, <2>4
  <2>6. \A k \in S : m >= k
    <3> TAKE k \in S
    <3>1. k \in Int /\ m \in Int /\ n - m <= n - k
      BY <2>5
    <3> QED BY <3>1
  <2> QED BY <2>6
<1>3. Min(S) \in S /\ \A k \in S : Min(S) <= k
  BY <1>1 DEF Min
<1>4. Max(S) \in S /\ \A k \in S : Max(S) >= k
  BY <1>2 DEF Max
<1>5. S \subseteq Int
  OBVIOUS
<1> QED BY <1>3, <1>4, <1>5

Solid(s) == {i \in DOMAIN s : s[i] # "space"}

\* A name without a space at its ends is trimmed.
LEMMA TrimFixed ==
  ASSUME NEW s \in Seq(Char), s # <<>>, s[1] # "space", s[Len(s)] # "space"
  PROVE  Trim(s) = s
<1> DEFINE n == Len(s)
<1>1. n \in Nat /\ n >= 1 /\ DOMAIN s = 1..n
  BY LenProperties, EmptySeq
<1>2. 1 \in Solid(s) /\ n \in Solid(s) /\ Solid(s) \subseteq 1..n
  <2>1. 1 \in 1..n /\ n \in 1..n
    BY <1>1
  <2> QED BY <1>1, <2>1 DEF Solid
<1>3. /\ Min(Solid(s)) \in Solid(s) /\ Max(Solid(s)) \in Solid(s)
      /\ \A k \in Solid(s) : Min(Solid(s)) <= k /\ k <= Max(Solid(s))
  <2> HIDE DEF n
  <2> QED BY <1>1, <1>2, FirstAndLast
<1>4. Min(Solid(s)) = 1 /\ Max(Solid(s)) = n
  <2> HIDE DEF n
  <2> DEFINE a == Min(Solid(s))
             b == Max(Solid(s))
  <2>1. a \in 1..n /\ b \in 1..n
    BY <1>2, <1>3
  <2>2. a <= 1 /\ n <= b
    BY <1>2, <1>3
  <2> HIDE DEF a, b
  <2>3. a = 1 /\ b = n
    BY <1>1, <2>1, <2>2
  <2> QED BY <2>3 DEF a, b
<1>5. Trim(s) = SubSeq(s, 1, n)
  BY <1>2, <1>4 DEF Trim, Solid
<1> QED BY <1>5, SubSeqFull

\* Trimming yields a name that is empty or has no space at its ends, so it is
\* trimmed.
LEMMA TrimTrims ==
  ASSUME NEW s \in Seq(Char)
  PROVE  Trim(s) \in Seq(Char) /\ Trim(Trim(s)) = Trim(s)
<1> DEFINE n == Len(s)
<1>1. n \in Nat /\ DOMAIN s = 1..n /\ Solid(s) \subseteq 1..n
      /\ \A i \in 1..n : s[i] \in Char
  BY LenProperties DEF Solid
<1>2. CASE Solid(s) = {}
  <2>1. Trim(s) = <<>>
    BY <1>2 DEF Trim, Solid
  <2>2. Trim(<<>>) = <<>>
    BY DEF Trim
  <2> QED BY <2>1, <2>2
<1>3. CASE Solid(s) # {}
  <2> DEFINE a == Min(Solid(s))
             b == Max(Solid(s))
             t == SubSeq(s, a, b)
  <2>1. a \in Solid(s) /\ b \in Solid(s) /\ \A k \in Solid(s) : a <= k /\ k <= b
    <3> HIDE DEF n
    <3> QED BY <1>1, <1>3, FirstAndLast
  <2>2. Trim(s) = t
    BY <1>3 DEF Trim, Solid
  <2>3. a \in 1..n /\ b \in 1..n /\ a <= b /\ s[a] # "space" /\ s[b] # "space"
    BY <1>1, <2>1 DEF Solid
  <2>4. /\ t \in Seq(Char) /\ Len(t) = b - a + 1
        /\ \A i \in 1..(b - a + 1) : t[i] = s[a + i - 1]
    <3> HIDE DEF a, b, n
    <3>1. a \in Int /\ b \in Int /\ a <= b
      BY <1>1, <2>3
    <3>2. \A i \in a..b : i \in 1..n
      BY <1>1, <2>3, <3>1
    <3>3. \A i \in a..b : s[i] \in Char
      BY <1>1, <3>2
    <3>4. /\ SubSeq(s, a, b) \in Seq(Char)
          /\ Len(SubSeq(s, a, b)) = IF a <= b THEN b - a + 1 ELSE 0
          /\ \A i \in 1..(b - a + 1) : SubSeq(s, a, b)[i] = s[a + i - 1]
      BY <3>1, <3>3, SubSeqProperties
    <3> QED BY <3>1, <3>4
  <2> HIDE DEF a, b, n, t
  <2>5. t # <<>> /\ t[1] # "space" /\ t[Len(t)] # "space"
    <3>1. a \in Int /\ b \in Int
      BY <1>1, <2>3
    <3>2. b - a + 1 >= 1
      BY <2>3, <3>1
    <3>3. 1 \in 1..(b - a + 1) /\ b - a + 1 \in 1..(b - a + 1)
      BY <3>1, <3>2
    <3>4. t[1] = s[a] /\ t[b - a + 1] = s[b]
      <4>1. a + 1 - 1 = a /\ a + (b - a + 1) - 1 = b
        BY <3>1
      <4>2. t[1] = s[a + 1 - 1] /\ t[b - a + 1] = s[a + (b - a + 1) - 1]
        BY <2>4, <3>3
      <4> QED BY <4>1, <4>2
    <3>5. t # <<>>
      BY <2>4, <3>2, EmptySeq
    <3> QED BY <2>3, <2>4, <3>4, <3>5
  <2>6. Trim(t) = t
    BY <2>4, <2>5, TrimFixed
  <2> QED BY <2>2, <2>4, <2>6
<1> QED BY <1>2, <1>3

SafeChar == {c \in Char : Safe(c)}

\* The characters are those the alphabet lists.
LEMMA Characters ==
  /\ Char = {"space", "dot", "slash", "colon", "underscore", "a", "aud", "b"}
  /\ SafeChar = {"dot", "underscore", "a", "aud", "b"}
<1>1. DOMAIN Alphabet = 1..8
  BY DEF Alphabet
<1>2. 1..8 = {1, 2, 3, 4, 5, 6, 7, 8}
  OBVIOUS
<1>3. Char = {Alphabet[1], Alphabet[2], Alphabet[3], Alphabet[4], Alphabet[5],
              Alphabet[6], Alphabet[7], Alphabet[8]}
  BY <1>1, <1>2 DEF Char, ToSet
<1>4. Char = {"space", "dot", "slash", "colon", "underscore", "a", "aud", "b"}
  BY <1>3 DEF Alphabet
<1> QED BY <1>4 DEF SafeChar, Safe

\* What sanitizeBilletName returns is not empty and is safe.
LEMMA SanitizeSafe ==
  ASSUME NEW name \in Seq(Char)
  PROVE  /\ sanitizeBilletName(name) \in Seq(SafeChar)
         /\ sanitizeBilletName(name) # <<>>
<1> DEFINE t == Trim(name)
           n == Len(t)
           Part(i) == IF Safe(t[i]) THEN <<t[i]>>
                      ELSE IF i = 1 \/ Safe(t[i - 1]) THEN <<"underscore">>
                           ELSE <<>>
           parts == [i \in DOMAIN t |-> Part(i)]
<1>1. CASE t = <<>>
  BY <1>1, Characters DEF sanitizeBilletName
<1>2. CASE t # <<>>
  <2>1. sanitizeBilletName(name) = FlattenSeq(parts)
    BY <1>2 DEF sanitizeBilletName
  <2>2. t \in Seq(Char)
    BY TrimTrims
  <2>3. n \in Nat /\ n >= 1 /\ DOMAIN t = 1..n /\ \A i \in 1..n : t[i] \in Char
    BY <1>2, <2>2, LenProperties, EmptySeq
  <2> HIDE DEF t, n
  <2>4. parts = [i \in 1..n |-> Part(i)]
    BY <2>3
  <2>5. \A i \in 1..n : Part(i) \in Seq(SafeChar)
    <3> TAKE i \in 1..n
    <3>1. "underscore" \in SafeChar
      BY Characters
    <3>2. Safe(t[i]) => t[i] \in SafeChar
      BY <2>3 DEF SafeChar
    <3> HIDE DEF SafeChar
    <3> QED BY <3>1, <3>2
  <2>6. parts \in Seq(Seq(SafeChar)) /\ Len(parts) = n /\ parts[1] = Part(1)
    <3> HIDE DEF Part
    <3>1. parts \in [1..n -> Seq(SafeChar)]
      BY <2>4, <2>5
    <3> QED BY <2>3, <2>4, <3>1
  <2>7. parts # <<>> /\ parts[1] # <<>>
    <3>1. Part(1) # <<>>
      OBVIOUS
    <3> HIDE DEF parts, Part
    <3> QED BY <2>3, <2>6, <3>1, EmptySeq
  <2> HIDE DEF parts
  <2> QED BY <2>1, <2>6, <2>7, FlattenType, FlattenNonempty
<1> QED BY <1>1, <1>2

\* It does not change a name that is safe, so it does not change an id.
LEMMA SanitizeKeeps ==
  ASSUME NEW s \in Seq(SafeChar), s # <<>>
  PROVE  sanitizeBilletName(s) = s
<1> DEFINE n == Len(s)
<1>1. n \in Nat /\ n >= 1 /\ DOMAIN s = 1..n /\ \A i \in 1..n : s[i] \in SafeChar
  BY LenProperties, EmptySeq
<1>2. s \in Seq(Char)
  <2>1. SafeChar \subseteq Char
    BY DEF SafeChar
  <2> QED BY <2>1, SeqMonotonic
<1>3. \A i \in 1..n : Safe(s[i]) /\ s[i] # "space"
  BY <1>1 DEF SafeChar, Safe
<1>4. Trim(s) = s
  BY <1>1, <1>2, <1>3, TrimFixed
<1>5. sanitizeBilletName(s) = FlattenSeq([i \in DOMAIN s |-> <<s[i]>>])
  <2>1. [i \in DOMAIN s |->
           IF Safe(s[i]) THEN <<s[i]>>
           ELSE IF i = 1 \/ Safe(s[i - 1]) THEN <<"underscore">> ELSE <<>>]
        = [i \in DOMAIN s |-> <<s[i]>>]
    BY <1>1, <1>3
  <2> QED BY <1>4, <2>1 DEF sanitizeBilletName
<1> QED BY <1>5, FlattenSingles

\* What identifies the parts of an id: the names and the separators are safe.
LEMMA JoinedSafe ==
  ASSUME NEW billets \in Seq(Seq(Char))
  PROVE  Joined(billets) \in Seq(SafeChar)
<1> DEFINE n == Len(billets)
           Part(i) == IF i = 1 THEN sanitizeBilletName(billets[i])
                      ELSE Separator \o sanitizeBilletName(billets[i])
           parts == [i \in DOMAIN billets |-> Part(i)]
<1>1. n \in Nat /\ DOMAIN billets = 1..n /\ \A i \in 1..n : billets[i] \in Seq(Char)
  BY LenProperties
<1>2. Separator \in Seq(SafeChar)
  BY Characters DEF Separator
<1>3. \A i \in 1..n : Part(i) \in Seq(SafeChar)
  <2> TAKE i \in 1..n
  <2>1. sanitizeBilletName(billets[i]) \in Seq(SafeChar)
    BY <1>1, SanitizeSafe
  <2>2. Separator \o sanitizeBilletName(billets[i]) \in Seq(SafeChar)
    BY <1>2, <2>1, ConcatProperties
  <2> QED BY <2>1, <2>2
<1>4. parts \in Seq(Seq(SafeChar))
  <2> HIDE DEF Part, n
  <2>1. parts = [i \in 1..n |-> Part(i)]
    BY <1>1
  <2>2. parts \in [1..n -> Seq(SafeChar)]
    BY <1>3, <2>1
  <2> QED BY <1>1, <2>2
<1>5. Joined(billets) = FlattenSeq(parts)
  BY DEF Joined
<1> HIDE DEF parts
<1> QED BY <1>4, <1>5, FlattenType

\* So an id is a name that sanitizeBilletName does not change.
LEMMA IdIsFixed ==
  ASSUME NEW billets \in Seq(Seq(Char)), NEW audience \in Seq(Char)
  PROVE  /\ subscriptionID(billets, audience) \in Seq(SafeChar)
         /\ sanitizeBilletName(subscriptionID(billets, audience))
            = subscriptionID(billets, audience)
<1> DEFINE j == Joined(billets)
           a == sanitizeBilletName(audience)
           id == j \o Separator \o <<"aud">> \o Separator \o a
<1>1. j \in Seq(SafeChar) /\ a \in Seq(SafeChar) /\ a # <<>>
  BY JoinedSafe, SanitizeSafe
<1>2. Separator \in Seq(SafeChar) /\ <<"aud">> \in Seq(SafeChar)
  BY Characters DEF Separator
<1>3. subscriptionID(billets, audience) = id
  BY DEF subscriptionID
<1> HIDE DEF j, a
<1>4. j \o Separator \o <<"aud">> \o Separator \in Seq(SafeChar)
  BY <1>1, <1>2, ConcatProperties
<1>5. id \in Seq(SafeChar) /\ id # <<>>
  <2> DEFINE head == j \o Separator \o <<"aud">> \o Separator
  <2>1. head \in Seq(SafeChar)
    BY <1>4
  <2> HIDE DEF head
  <2>2. head \o a \in Seq(SafeChar) /\ head \o a # <<>>
    BY <1>1, <2>1, ConcatProperties, ConcatEqualIffEmpty
  <2> QED BY <2>2 DEF head
<1> HIDE DEF id
<1> QED BY <1>3, <1>5, SanitizeKeeps

-----------------------------------------------------------------------------
(* The order of names, and sorting.                                        *)

\* Each character has a place of its own in the alphabet.
LEMMA Ranks ==
  /\ \A c \in Char : Rank(c) \in 1..8
  /\ \A c, d \in Char : Rank(c) = Rank(d) => c = d
<1>1. DOMAIN Alphabet = 1..8
  BY DEF Alphabet
<1>2. ASSUME NEW c \in Char PROVE Rank(c) \in 1..8 /\ Alphabet[Rank(c)] = c
  <2>1. \E i \in 1..8 : Alphabet[i] = c
    BY <1>1 DEF Char, ToSet
  <2> QED BY <1>1, <2>1 DEF Rank
<1> QED BY <1>2

\* Of two names, one comes first.
LEMMA BeforeTotal ==
  ASSUME NEW s \in Seq(Char), NEW t \in Seq(Char), s # t
  PROVE  Before(s, t) \/ Before(t, s)
<1> DEFINE m == Len(s)
           n == Len(t)
           D == {i \in 1..(m + n + 1) : i > m \/ i > n \/ s[i] # t[i]}
<1>1. /\ m \in Nat /\ n \in Nat
      /\ \A i \in 1..m : s[i] \in Char
      /\ \A i \in 1..n : t[i] \in Char
  BY LenProperties
<1>2. m + n + 1 \in D /\ D \subseteq Nat
  BY <1>1
<1>3. PICK i \in D : \A k \in D : i <= k
  <2> HIDE DEF D
  <2> QED BY <1>2, Least
<1>4. i \in Nat /\ i >= 1
  BY <1>1
<1>5. ASSUME NEW k \in 1..(i - 1) PROVE k <= m /\ k <= n /\ s[k] = t[k]
  <2>1. k \notin D /\ k \in 1..(m + n + 1)
    BY <1>1, <1>3, <1>4
  <2> QED BY <1>1, <2>1
<1>6. i <= m + 1 /\ i <= n + 1
  <2>1. CASE i = 1
    BY <1>1, <2>1
  <2>2. CASE i # 1
    <3>1. i - 1 \in 1..(i - 1)
      BY <1>4, <2>2
    <3>2. i - 1 <= m /\ i - 1 <= n
      BY <1>5, <3>1
    <3> QED BY <1>1, <1>4, <3>2
  <2> QED BY <2>1, <2>2
<1>7. \A k \in 1..(i - 1) : s[k] = t[k] /\ t[k] = s[k]
  BY <1>5
<1>8. CASE i <= m /\ i <= n
  <2>1. s[i] # t[i] /\ s[i] \in Char /\ t[i] \in Char
    BY <1>1, <1>4, <1>8
  <2>2. Rank(s[i]) < Rank(t[i]) \/ Rank(t[i]) < Rank(s[i])
    <3>1. Rank(s[i]) \in Int /\ Rank(t[i]) \in Int /\ Rank(s[i]) # Rank(t[i])
      BY <2>1, Ranks
    <3> QED BY <3>1
  <2>3. i \in 1..m /\ i \in 1..n
    BY <1>1, <1>4, <1>8
  <2> QED BY <1>6, <1>7, <2>2, <2>3 DEF Before
<1>9. CASE i = m + 1 /\ i <= n
  <2>1. i \in 1..n
    BY <1>1, <1>4, <1>9
  <2> QED BY <1>7, <1>9, <2>1 DEF Before
<1>10. CASE i = n + 1 /\ i <= m
  <2>1. i \in 1..m
    BY <1>1, <1>4, <1>10
  <2> QED BY <1>7, <1>10, <2>1 DEF Before
<1>11. CASE i = m + 1 /\ i = n + 1
  <2>1. m = n /\ \A k \in 1..m : s[k] = t[k]
    BY <1>1, <1>7, <1>11
  <2> QED BY <2>1, SeqEqual
<1>12. \/ i <= m /\ i <= n
       \/ i = m + 1 /\ i <= n
       \/ i = n + 1 /\ i <= m
       \/ i = m + 1 /\ i = n + 1
  BY <1>1, <1>4, <1>6
<1> QED BY <1>8, <1>9, <1>10, <1>11, <1>12

\* What comes before a name comes before all that come after it.
LEMMA BeforeTransitive ==
  ASSUME NEW s \in Seq(Char), NEW t \in Seq(Char), NEW u \in Seq(Char),
         Before(s, t), Before(t, u)
  PROVE  Before(s, u)
<1> DEFINE l == Len(s)
           m == Len(t)
           n == Len(u)
<1>1. /\ l \in Nat /\ m \in Nat /\ n \in Nat
      /\ \A i \in 1..l : Rank(s[i]) \in Int
      /\ \A i \in 1..m : Rank(t[i]) \in Int
      /\ \A i \in 1..n : Rank(u[i]) \in Int
  <2>1. \A c \in Char : Rank(c) \in Int
    BY Ranks
  <2>2. /\ l \in Nat /\ m \in Nat /\ n \in Nat
        /\ \A i \in 1..l : s[i] \in Char
        /\ \A i \in 1..m : t[i] \in Char
        /\ \A i \in 1..n : u[i] \in Char
    BY LenProperties
  <2> QED BY <2>1, <2>2
<1>2. PICK i \in 1..m : /\ i <= l + 1
                        /\ \A k \in 1..(i - 1) : s[k] = t[k]
                        /\ i = l + 1 \/ Rank(s[i]) < Rank(t[i])
  BY DEF Before
<1>3. PICK j \in 1..n : /\ j <= m + 1
                        /\ \A k \in 1..(j - 1) : t[k] = u[k]
                        /\ j = m + 1 \/ Rank(t[j]) < Rank(u[j])
  BY DEF Before
<1> HIDE DEF l, m, n
<1>4. ASSUME NEW p \in 1..n, p <= l + 1, \A k \in 1..(p - 1) : s[k] = u[k],
             p = l + 1 \/ Rank(s[p]) < Rank(u[p])
      PROVE  Before(s, u)
  BY <1>4 DEF Before, l, n
<1>5. CASE i < j
  <2>1. i \in 1..n /\ i \in 1..(j - 1) /\ t[i] = u[i]
    BY <1>1, <1>3, <1>5
  <2>2. \A k \in 1..(i - 1) : s[k] = u[k]
    <3> TAKE k \in 1..(i - 1)
    <3>1. k \in 1..(j - 1)
      BY <1>1, <1>5
    <3> QED BY <1>2, <1>3, <3>1
  <2> QED BY <1>2, <1>4, <2>1, <2>2
<1>6. CASE j <= i
  <2>1. j \in 1..m /\ Rank(t[j]) < Rank(u[j])
    BY <1>1, <1>3, <1>6
  <2>2. \A k \in 1..(j - 1) : s[k] = u[k]
    <3> TAKE k \in 1..(j - 1)
    <3>1. k \in 1..(i - 1)
      BY <1>1, <1>6
    <3> QED BY <1>2, <1>3, <3>1
  <2>3. j <= l + 1
    BY <1>1, <1>2, <1>6
  <2>4. j = l + 1 \/ Rank(s[j]) < Rank(u[j])
    <3>1. CASE j = i
      <4>1. CASE i = l + 1
        BY <3>1, <4>1
      <4>2. CASE i # l + 1
        <5>1. i \in 1..l
          BY <1>1, <1>2, <4>2
        <5>2. /\ Rank(s[i]) \in Int /\ Rank(t[i]) \in Int /\ Rank(u[i]) \in Int
              /\ Rank(s[i]) < Rank(t[i]) /\ Rank(t[i]) < Rank(u[i])
          BY <1>1, <1>2, <2>1, <3>1, <4>2, <5>1
        <5> QED BY <3>1, <5>2
      <4> QED BY <4>1, <4>2
    <3>2. CASE j # i
      <4>1. j \in 1..(i - 1)
        BY <1>1, <1>6, <3>2
      <4> QED BY <1>2, <2>1, <4>1
    <3> QED BY <3>1, <3>2
  <2> QED BY <1>4, <2>2, <2>3, <2>4
<1> QED BY <1>1, <1>5, <1>6

InOrder(s, S) == /\ ToSet(s) = S
                 /\ \A i, j \in DOMAIN s : i < j => Before(s[i], s[j])

\* A name is inserted into a sorted list before the first that comes after it.
LEMMA Insertion ==
  ASSUME NEW m \in Nat, NEW T, NEW x, x \notin T,
         NEW s \in [1..m -> T], InOrder(s, T),
         T \cup {x} \subseteq Seq(Char)
  PROVE  \E u \in [1..(m + 1) -> T \cup {x}] : InOrder(u, T \cup {x})
<1>1. \A i \in 1..m : s[i] \in T /\ s[i] \in Seq(Char) /\ s[i] # x
  OBVIOUS
<1>2. \A i, j \in 1..m : i < j => Before(s[i], s[j])
  BY DEF InOrder
<1> DEFINE A == {i \in 1..m : ~ Before(s[i], x)} \cup {m + 1}
<1>3. A \subseteq Nat /\ A # {}
  OBVIOUS
<1>4. PICK k \in A : \A i \in A : k <= i
  <2> HIDE DEF A
  <2> QED BY <1>3, Least
<1>5. k \in 1..(m + 1) /\ k \in Nat
  OBVIOUS
<1>6. \A i \in 1..m : i < k => Before(s[i], x)
  <2> SUFFICES ASSUME NEW i \in 1..m, i < k, ~ Before(s[i], x) PROVE FALSE
    OBVIOUS
  <2>1. i \in A /\ i \in Nat
    OBVIOUS
  <2> QED BY <1>4, <1>5, <2>1
<1>7. \A i \in 1..m : k <= i => Before(x, s[i])
  <2> SUFFICES ASSUME NEW i \in 1..m, k <= i PROVE Before(x, s[i])
    OBVIOUS
  <2>1. k \in 1..m /\ k # m + 1
    BY <1>5
  <2>2. ~ Before(s[k], x)
    BY <2>1
  <2>3. Before(x, s[k])
    BY <1>1, <2>1, <2>2, BeforeTotal
  <2>4. CASE i = k
    BY <2>3, <2>4
  <2>5. CASE i # k
    <3>1. Before(s[k], s[i])
      BY <1>2, <1>5, <2>1, <2>5
    <3> QED BY <1>1, <2>1, <2>3, <3>1, BeforeTransitive
  <2> QED BY <2>4, <2>5
<1> HIDE DEF A
<1> DEFINE u == [i \in 1..(m + 1) |->
                   IF i < k THEN s[i] ELSE IF i = k THEN x ELSE s[i - 1]]
<1>8. /\ \A i \in 1..(m + 1) : i < k => i \in 1..m /\ u[i] = s[i]
      /\ u[k] = x
      /\ \A i \in 1..(m + 1) : k < i => i - 1 \in 1..m /\ u[i] = s[i - 1]
  BY <1>5
<1>9. u \in [1..(m + 1) -> T \cup {x}]
  BY <1>1, <1>5
<1> HIDE DEF u
<1>10. DOMAIN u = 1..(m + 1)
  BY <1>9
<1>11. ToSet(u) = T \cup {x}
  <2>1. ToSet(u) \subseteq T \cup {x}
    BY <1>9 DEF ToSet
  <2>2. x \in ToSet(u)
    BY <1>5, <1>8, <1>10 DEF ToSet
  <2>3. ASSUME NEW y \in T PROVE y \in ToSet(u)
    <3>1. PICK i \in 1..m : y = s[i]
      BY DEF InOrder, ToSet
    <3>2. CASE i < k
      <4>1. i \in 1..(m + 1) /\ u[i] = y
        BY <1>8, <3>1, <3>2
      <4> QED BY <1>10, <4>1 DEF ToSet
    <3>3. CASE ~ (i < k)
      <4>1. i + 1 \in 1..(m + 1) /\ k < i + 1 /\ (i + 1) - 1 = i
        BY <1>5, <3>3
      <4>2. u[i + 1] = y
        BY <1>8, <3>1, <4>1
      <4> QED BY <1>10, <4>1, <4>2 DEF ToSet
    <3> QED BY <3>2, <3>3
  <2> QED BY <2>1, <2>2, <2>3
<1>12. ASSUME NEW i \in 1..(m + 1), NEW j \in 1..(m + 1), i < j
       PROVE  Before(u[i], u[j])
  <2>1. i \in Int /\ j \in Int
    OBVIOUS
  <2>2. CASE j < k
    BY <1>2, <1>5, <1>8, <1>12, <2>1, <2>2
  <2>3. CASE j = k
    BY <1>6, <1>8, <1>12, <2>3
  <2>4. CASE k < j /\ i < k
    BY <1>2, <1>5, <1>8, <1>12, <2>1, <2>4
  <2>5. CASE k < j /\ i = k
    <3>1. j - 1 \in 1..m /\ k <= j - 1
      BY <1>5, <1>8, <2>1, <2>5
    <3> QED BY <1>7, <1>8, <2>5, <3>1
  <2>6. CASE k < j /\ k < i
    <3>1. i - 1 < j - 1
      BY <1>12, <2>1
    <3> QED BY <1>2, <1>8, <2>6, <3>1
  <2> QED BY <1>5, <2>1, <2>2, <2>3, <2>4, <2>5, <2>6
<1> QED BY <1>9, <1>10, <1>11, <1>12 DEF InOrder

\* A finite set of names has a sorted list, and Sorted is one.
LEMMA SortedSorts ==
  ASSUME NEW S, IsFiniteSet(S), S \subseteq Seq(Char)
  PROVE  /\ Sorted(S) \in Seq(S)
         /\ InOrder(Sorted(S), S)
         /\ Len(Sorted(S)) = Cardinality(S)
<1> DEFINE n == Cardinality(S)
           Sortable(T) == \E s \in [1..Cardinality(T) -> T] : InOrder(s, T)
           R == {m \in 1..n : \A T \in SUBSET S : Cardinality(T) = m => Sortable(T)}
<1>1. n \in Nat /\ \A T \in SUBSET S : IsFiniteSet(T)
  BY FS_CardinalityType, FS_Subset
<1>2. ASSUME NEW m \in Nat, NEW T \in SUBSET S, Cardinality(T) = m + 1,
             \A U \in SUBSET S : Cardinality(U) = m => Sortable(U)
      PROVE  Sortable(T)
  <2> HIDE DEF Sortable
  <2>1. IsFiniteSet(T)
    BY <1>1
  <2>2. T # {}
    <3>1. Cardinality({}) = 0 /\ m + 1 # 0
      BY FS_EmptySet
    <3> QED BY <1>2, <3>1
  <2>3. PICK x \in T : TRUE
    BY <2>2
  <2>4. Cardinality(T \ {x}) = m
    <3>1. Cardinality(T \ {x}) = Cardinality(T) - 1
      BY <2>1, <2>3, FS_RemoveElement
    <3> QED BY <1>2, <3>1
  <2>5. PICK s \in [1..m -> T \ {x}] : InOrder(s, T \ {x})
    <3>1. Sortable(T \ {x})
      BY <1>2, <2>4
    <3> QED BY <2>4, <3>1 DEF Sortable
  <2>6. (T \ {x}) \cup {x} = T /\ x \notin T \ {x} /\ T \subseteq Seq(Char)
    BY <2>3
  <2>7. \E u \in [1..(m + 1) -> T] : InOrder(u, T)
    <3> DEFINE U == T \ {x}
    <3>1. U \cup {x} = T /\ x \notin U /\ s \in [1..m -> U] /\ InOrder(s, U)
      BY <2>5, <2>6
    <3> HIDE DEF U
    <3>2. \E u \in [1..(m + 1) -> U \cup {x}] : InOrder(u, U \cup {x})
      BY <2>6, <3>1, Insertion
    <3> QED BY <3>1, <3>2
  <2> QED BY <1>2, <2>7 DEF Sortable
<1>3. ASSUME NEW T \in SUBSET S, Cardinality(T) = 0 PROVE Sortable(T)
  <2>1. T = {}
    BY <1>1, <1>3, FS_EmptySet
  <2>2. <<>> \in [1..0 -> T] /\ InOrder(<<>>, T)
    BY <2>1 DEF InOrder, ToSet
  <2> QED BY <1>3, <2>2
<1>4. ASSUME n = 0 PROVE Sortable(S)
  <2> HIDE DEF Sortable
  <2> QED BY <1>3, <1>4
<1>5. ASSUME n # 0 PROVE Sortable(S)
  <2>1. 1 \in R
    <3>1. 0 + 1 = 1 /\ 1 \in 1..n
      BY <1>1, <1>5
    <3>2. \A T \in SUBSET S : Cardinality(T) = 1 => Sortable(T)
      <4> HIDE DEF Sortable
      <4> QED BY <1>2, <1>3, <3>1
    <3> HIDE DEF Sortable
    <3> QED BY <3>1, <3>2
  <2>2. ASSUME NEW m \in 1..(n - 1), m \in R PROVE m + 1 \in R
    <3>1. m \in Nat /\ m + 1 \in 1..n
      BY <1>1
    <3> HIDE DEF Sortable
    <3>2. \A T \in SUBSET S : Cardinality(T) = m + 1 => Sortable(T)
      BY <1>2, <2>2, <3>1
    <3> QED BY <3>1, <3>2
  <2>3. \A m \in 1..n : m \in R
    <3> HIDE DEF R, n
    <3> QED BY <1>1, <2>1, <2>2, UpTo, Zenon
  <2>4. n \in R
    <3>1. n \in 1..n
      BY <1>1, <1>5
    <3> HIDE DEF R, n
    <3> QED BY <2>3, <3>1
  <2> HIDE DEF Sortable
  <2> QED BY <2>4
<1>6. \E s \in [1..n -> S] : InOrder(s, S)
  BY <1>4, <1>5
<1>7. Sorted(S) \in [1..n -> S] /\ InOrder(Sorted(S), S)
  <2>1. Sorted(S) = CHOOSE s \in [1..n -> S] : InOrder(s, S)
    BY DEF Sorted, InOrder
  <2> QED BY <1>6, <2>1
<1> HIDE DEF n
<1>8. Sorted(S) \in Seq(S) /\ Len(Sorted(S)) = n
  BY <1>1, <1>7
<1> QED BY <1>7, <1>8 DEF n

-----------------------------------------------------------------------------
(* The id of plain names can be read back.                                 *)

Separated(p, s) == p \o Separator \o s

\* Where the characters of a name, a separator and a name are.
LEMMA Around ==
  ASSUME NEW p \in Seq(Char), NEW s \in Seq(Char)
  PROVE  LET w == Separated(p, s)
         IN  /\ w \in Seq(Char)
             /\ Len(w) = Len(p) + 2 + Len(s)
             /\ \A i \in 1..Len(p) : w[i] = p[i]
             /\ w[Len(p) + 1] = "underscore" /\ w[Len(p) + 2] = "underscore"
             /\ \A i \in 1..Len(s) : w[Len(p) + 2 + i] = s[i]
<1> DEFINE v == p \o Separator
           w == v \o s
           m == Len(p)
           n == Len(s)
<1>1. m \in Nat /\ n \in Nat
  BY LenProperties
<1>2. /\ Separator \in Seq(Char) /\ Len(Separator) = 2
      /\ Separator[1] = "underscore" /\ Separator[2] = "underscore"
  BY Characters DEF Separator
<1>3. /\ v \in Seq(Char) /\ Len(v) = m + 2
      /\ \A i \in 1..(m + 2) : v[i] = IF i <= m THEN p[i] ELSE Separator[i - m]
  <2>1. /\ v \in Seq(Char) /\ Len(v) = Len(p) + Len(Separator)
        /\ \A i \in 1..Len(p) + Len(Separator) :
             v[i] = IF i <= Len(p) THEN p[i] ELSE Separator[i - Len(p)]
    BY <1>2, ConcatProperties, Zenon
  <2> QED BY <1>2, <2>1
<1> HIDE DEF v
<1>4. /\ w \in Seq(Char) /\ Len(w) = m + 2 + n
      /\ \A i \in 1..(m + 2 + n) : w[i] = IF i <= m + 2 THEN v[i] ELSE s[i - (m + 2)]
  <2>1. v \in Seq(Char)
    BY <1>3
  <2>2. /\ w \in Seq(Char) /\ Len(w) = Len(v) + Len(s)
        /\ \A i \in 1..Len(v) + Len(s) :
             w[i] = IF i <= Len(v) THEN v[i] ELSE s[i - Len(v)]
    BY <2>1, ConcatProperties, Zenon
  <2> QED BY <1>3, <2>2
<1> HIDE DEF w, m, n
<1>5. \A i \in 1..m : w[i] = p[i]
  BY <1>1, <1>3, <1>4
<1>6. w[m + 1] = "underscore" /\ w[m + 2] = "underscore"
  <2>1. m + 1 \in 1..(m + 2) /\ m + 2 \in 1..(m + 2)
        /\ m + 1 \in 1..(m + 2 + n) /\ m + 2 \in 1..(m + 2 + n)
        /\ ~ (m + 1 <= m) /\ ~ (m + 2 <= m)
        /\ (m + 1) - m = 1 /\ (m + 2) - m = 2
    BY <1>1
  <2>2. w[m + 1] = v[m + 1] /\ w[m + 2] = v[m + 2]
    BY <1>1, <1>4, <2>1
  <2>3. v[m + 1] = Separator[1] /\ v[m + 2] = Separator[2]
    BY <1>3, <2>1
  <2> QED BY <1>2, <2>2, <2>3
<1>7. \A i \in 1..n : w[m + 2 + i] = s[i]
  <2> TAKE i \in 1..n
  <2>1. m + 2 + i \in 1..(m + 2 + n) /\ ~ (m + 2 + i <= m + 2)
        /\ (m + 2 + i) - (m + 2) = i
    BY <1>1
  <2> QED BY <1>4, <2>1
<1> QED BY <1>4, <1>5, <1>6, <1>7 DEF Separated, w, v, m, n

\* There is no separator in a plain name.
LEMMA NoSeparator ==
  ASSUME NEW w \in Seq(Char), Plain(w), NEW p \in Seq(Char), NEW s \in Seq(Char)
  PROVE  w # Separated(p, s)
<1> SUFFICES ASSUME w = Separated(p, s) PROVE FALSE
  OBVIOUS
<1>1. /\ Len(w) = Len(p) + 2 + Len(s)
      /\ w[Len(p) + 1] = "underscore" /\ w[Len(p) + 2] = "underscore"
  BY Around
<1>2. Len(p) \in Nat /\ Len(s) \in Nat
  BY LenProperties
<1>3. Len(p) + 1 \in 1..(Len(w) - 1) /\ (Len(p) + 1) + 1 = Len(p) + 2
  BY <1>1, <1>2
<1>4. w[Len(p) + 1] # "underscore" \/ w[(Len(p) + 1) + 1] # "underscore"
  BY <1>3 DEF Plain
<1> QED BY <1>1, <1>3, <1>4

\* What follows the last separator cannot be read as longer.
LEMMA NotLonger ==
  ASSUME NEW p \in Seq(Char), NEW s \in Seq(Char),
         NEW q \in Seq(Char), NEW t \in Seq(Char), Plain(t),
         Separated(p, s) = Separated(q, t)
  PROVE  Len(t) <= Len(s)
<1> DEFINE w == Separated(p, s)
           k == Len(p)
           l == Len(q)
           m == Len(s)
           n == Len(t)
<1>1. k \in Nat /\ l \in Nat /\ m \in Nat /\ n \in Nat
  BY LenProperties
<1>2. Len(w) = k + 2 + m /\ w[k + 1] = "underscore" /\ w[k + 2] = "underscore"
  BY Around
<1>3. Len(w) = l + 2 + n /\ \A i \in 1..n : w[l + 2 + i] = t[i]
  <2> DEFINE x == Separated(q, t)
  <2>1. Len(x) = Len(q) + 2 + Len(t) /\ \A i \in 1..Len(t) : x[Len(q) + 2 + i] = t[i]
    BY Around
  <2>2. x = w
    OBVIOUS
  <2> HIDE DEF x, w
  <2> QED BY <2>1, <2>2
<1>4. t[1] # "underscore"
      /\ \A i \in 1..(n - 1) : t[i] # "underscore" \/ t[i + 1] # "underscore"
  BY DEF Plain
<1> HIDE DEF w, k, l, m, n
<1> SUFFICES ASSUME m < n PROVE FALSE
  BY <1>1 DEF m, n
<1>5. k + m = l + n
  BY <1>1, <1>2, <1>3
<1>6. CASE n = m + 1
  <2>1. 1 \in 1..n /\ l + 2 + 1 = k + 2
    BY <1>1, <1>5, <1>6
  <2> QED BY <1>2, <1>3, <1>4, <2>1
<1>7. CASE n >= m + 2
  <2> DEFINE i == k - l - 1
  <2>1. i \in 1..n /\ i + 1 \in 1..n /\ i \in 1..(n - 1)
        /\ l + 2 + i = k + 1 /\ l + 2 + (i + 1) = k + 2
    BY <1>1, <1>5, <1>7
  <2> HIDE DEF i
  <2>2. t[i] = "underscore" /\ t[i + 1] = "underscore"
    BY <1>2, <1>3, <2>1
  <2> QED BY <1>4, <2>1, <2>2
<1> QED BY <1>1, <1>6, <1>7

\* So the last plain name of an id, and what comes before it, can be read back.
LEMMA LastName ==
  ASSUME NEW p \in Seq(Char), NEW s \in Seq(Char), Plain(s),
         NEW q \in Seq(Char), NEW t \in Seq(Char), Plain(t),
         Separated(p, s) = Separated(q, t)
  PROVE  p = q /\ s = t
<1> DEFINE w == Separated(p, s)
<1>1. /\ Len(p) \in Nat /\ Len(s) \in Nat /\ Len(q) \in Nat /\ Len(t) \in Nat
      /\ Len(s) <= Len(t) /\ Len(t) <= Len(s)
  BY LenProperties, NotLonger
<1>2. /\ Len(w) = Len(p) + 2 + Len(s)
      /\ \A i \in 1..Len(p) : w[i] = p[i]
      /\ \A i \in 1..Len(s) : w[Len(p) + 2 + i] = s[i]
  BY Around
<1>3. /\ Len(w) = Len(q) + 2 + Len(t)
      /\ \A i \in 1..Len(q) : w[i] = q[i]
      /\ \A i \in 1..Len(t) : w[Len(q) + 2 + i] = t[i]
  <2> DEFINE x == Separated(q, t)
  <2>1. /\ Len(x) = Len(q) + 2 + Len(t)
        /\ \A i \in 1..Len(q) : x[i] = q[i]
        /\ \A i \in 1..Len(t) : x[Len(q) + 2 + i] = t[i]
    BY Around
  <2>2. x = w
    OBVIOUS
  <2> HIDE DEF x, w
  <2> QED BY <2>1, <2>2
<1> HIDE DEF w
<1>4. Len(s) = Len(t) /\ Len(p) = Len(q)
  BY <1>1, <1>2, <1>3
<1>5. \A i \in 1..Len(p) : p[i] = q[i]
  BY <1>2, <1>3, <1>4
<1>6. \A i \in 1..Len(s) : s[i] = t[i]
  BY <1>2, <1>3, <1>4
<1> QED BY <1>4, <1>5, <1>6, SeqEqual

PlainNames(b) == b # <<>> /\ \A i \in DOMAIN b : Plain(b[i])

\* The id of plain names is built name by name.
LEMMA JoinedPlain ==
  ASSUME NEW b \in Seq(Seq(Char)), PlainNames(b)
  PROVE  \E f \in [1..Len(b) -> Seq(Char)] :
           /\ f[1] = b[1]
           /\ \A i \in 2..Len(b) : f[i] = Separated(f[i - 1], b[i])
           /\ Joined(b) = f[Len(b)]
<1> DEFINE n == Len(b)
           Part(i) == IF i = 1 THEN sanitizeBilletName(b[i])
                      ELSE Separator \o sanitizeBilletName(b[i])
           parts == [i \in DOMAIN b |-> Part(i)]
<1>1. n \in Nat /\ n >= 1 /\ DOMAIN b = 1..n /\ \A i \in 1..n : b[i] \in Seq(Char)
  BY LenProperties, EmptySeq DEF PlainNames
<1>2. \A i \in 1..n : sanitizeBilletName(b[i]) = b[i]
  BY <1>1 DEF PlainNames, Plain
<1>3. Separator \in Seq(Char)
  BY Characters DEF Separator
<1>4. \A i \in 1..n : /\ Part(i) = IF i = 1 THEN b[i] ELSE Separator \o b[i]
                      /\ Part(i) \in Seq(Char)
  BY <1>1, <1>2, <1>3, ConcatProperties
<1>5. parts = [i \in 1..n |-> Part(i)]
  BY <1>1
<1>6. parts \in Seq(Seq(Char)) /\ Len(parts) = n
      /\ \A i \in 1..n : parts[i] = Part(i)
  <2> HIDE DEF Part, n
  <2> QED BY <1>1, <1>4, <1>5
<1>7. parts # <<>>
  BY <1>1, <1>6, EmptySeq
<1>8. Joined(b) = FlattenSeq(parts)
  BY DEF Joined
<1> HIDE DEF parts, n
<1>9. \E f \in [1..Len(parts) -> Seq(Char)] :
        /\ f[1] = parts[1]
        /\ \A i \in 2..Len(parts) : f[i] = f[i - 1] \o parts[i]
        /\ FlattenSeq(parts) = f[Len(parts)]
  BY <1>6, <1>7, Flatten, Zenon
<1>10. PICK f \in [1..n -> Seq(Char)] :
        /\ f[1] = parts[1]
        /\ \A i \in 2..n : f[i] = f[i - 1] \o parts[i]
        /\ FlattenSeq(parts) = f[n]
  BY <1>6, <1>9
<1>11. f[1] = b[1]
  <2>1. 1 \in 1..n
    BY <1>1
  <2> HIDE DEF Part
  <2> QED BY <1>4, <1>6, <1>10, <2>1
<1>12. ASSUME NEW i \in 2..n PROVE f[i] = Separated(f[i - 1], b[i])
  <2>1. i \in 1..n /\ i # 1 /\ i - 1 \in 1..n
    BY <1>1
  <2>2. parts[i] = Separator \o b[i]
    <3> HIDE DEF Part
    <3> QED BY <1>4, <1>6, <2>1
  <2>3. f[i] = f[i - 1] \o (Separator \o b[i])
    BY <1>10, <2>2
  <2>4. f[i - 1] \in Seq(Char) /\ b[i] \in Seq(Char)
    BY <1>1, <2>1
  <2>5. (f[i - 1] \o Separator) \o b[i] = f[i - 1] \o (Separator \o b[i])
    <3> DEFINE u == f[i - 1]
               v == b[i]
    <3> HIDE DEF u, v
    <3>1. u \in Seq(Char) /\ v \in Seq(Char)
      BY <2>4 DEF u, v
    <3>2. (u \o Separator) \o v = u \o (Separator \o v)
      BY <1>3, <3>1, ConcatAssociative, SMTT(30)
    <3> QED BY <3>2 DEF u, v
  <2> QED BY <2>3, <2>5 DEF Separated
<1>13. Joined(b) = f[n]
  BY <1>8, <1>10
<1> QED BY <1>11, <1>12, <1>13 DEF n

\* Two lists of plain names that are joined to the same name are equal.
LEMMA JoinedInjective ==
  ASSUME NEW b \in Seq(Seq(Char)), PlainNames(b),
         NEW c \in Seq(Seq(Char)), PlainNames(c),
         Joined(b) = Joined(c)
  PROVE  b = c
<1> DEFINE n == Len(b)
           m == Len(c)
<1>1. /\ n \in Nat /\ n >= 1 /\ DOMAIN b = 1..n
      /\ \A i \in 1..n : b[i] \in Seq(Char) /\ Plain(b[i])
  BY LenProperties, EmptySeq DEF PlainNames
<1>2. /\ m \in Nat /\ m >= 1 /\ DOMAIN c = 1..m
      /\ \A i \in 1..m : c[i] \in Seq(Char) /\ Plain(c[i])
  BY LenProperties, EmptySeq DEF PlainNames
<1>3. PICK f \in [1..n -> Seq(Char)] :
        /\ f[1] = b[1]
        /\ \A i \in 2..n : f[i] = Separated(f[i - 1], b[i])
        /\ Joined(b) = f[n]
  BY JoinedPlain
<1>4. PICK g \in [1..m -> Seq(Char)] :
        /\ g[1] = c[1]
        /\ \A i \in 2..m : g[i] = Separated(g[i - 1], c[i])
        /\ Joined(c) = g[m]
  BY JoinedPlain
<1> HIDE DEF n, m
<1> DEFINE Same(i, j) == i = j /\ \A k \in 1..i : b[k] = c[k]
           R == {i \in 1..n : \A j \in 1..m : f[i] = g[j] => Same(i, j)}
<1>5. \A j \in 1..m :
        j # 1 => /\ j \in 2..m /\ j - 1 \in 1..m
                 /\ g[j - 1] \in Seq(Char)
                 /\ g[j] = Separated(g[j - 1], c[j])
  <2> TAKE j \in 1..m
  <2>1. j # 1 => j \in 2..m /\ j - 1 \in 1..m
    BY <1>2
  <2> QED BY <1>4, <2>1
<1>6. 1 \in R
  <2>1. 1 \in 1..n /\ b[1] \in Seq(Char) /\ Plain(b[1])
    BY <1>1
  <2> SUFFICES ASSUME NEW j \in 1..m, f[1] = g[j] PROVE Same(1, j)
    BY <2>1
  <2>2. CASE j = 1
    <3>1. b[1] = c[1]
      BY <1>3, <1>4, <2>2
    <3>2. 1..1 = {1}
      OBVIOUS
    <3> QED BY <2>2, <3>1, <3>2
  <2>3. CASE j # 1
    <3>1. g[j - 1] \in Seq(Char) /\ c[j] \in Seq(Char)
          /\ b[1] = Separated(g[j - 1], c[j])
      BY <1>2, <1>3, <1>5, <2>3
    <3> QED BY <2>1, <3>1, NoSeparator
  <2> QED BY <2>2, <2>3
<1>7. ASSUME NEW i \in 1..(n - 1), i \in R PROVE i + 1 \in R
  <2>1. /\ i \in Nat /\ i \in 1..n /\ i + 1 \in 1..n /\ i + 1 \in 2..n
        /\ (i + 1) - 1 = i
    BY <1>1
  <2>2. f[i + 1] = Separated(f[i], b[i + 1])
        /\ f[i] \in Seq(Char) /\ b[i + 1] \in Seq(Char) /\ Plain(b[i + 1])
    BY <1>1, <1>3, <2>1
  <2> SUFFICES ASSUME NEW j \in 1..m, f[i + 1] = g[j] PROVE Same(i + 1, j)
    BY <2>1
  <2>3. c[j] \in Seq(Char) /\ Plain(c[j])
    BY <1>2
  <2>4. CASE j = 1
    <3>1. c[j] = Separated(f[i], b[i + 1])
      BY <1>4, <2>2, <2>4
    <3> QED BY <2>2, <2>3, <3>1, NoSeparator
  <2>5. CASE j # 1
    <3>1. j - 1 \in 1..m /\ g[j - 1] \in Seq(Char)
          /\ g[j] = Separated(g[j - 1], c[j])
      BY <1>5, <2>5
    <3>2. f[i] = g[j - 1] /\ b[i + 1] = c[j]
      <4>1. Separated(f[i], b[i + 1]) = Separated(g[j - 1], c[j])
        BY <2>2, <3>1
      <4> QED BY <2>2, <2>3, <3>1, <4>1, LastName, SMTT(30)
    <3>3. Same(i, j - 1)
      BY <1>7, <3>1, <3>2
    <3>4. j = i + 1
      BY <1>2, <2>1, <3>3
    <3>5. ASSUME NEW k \in 1..(i + 1) PROVE b[k] = c[k]
      <4>1. CASE k \in 1..i
        BY <3>3, <4>1
      <4>2. CASE k = i + 1
        BY <3>2, <3>4, <4>2
      <4> QED BY <2>1, <4>1, <4>2
    <3> QED BY <3>4, <3>5
  <2> QED BY <2>4, <2>5
<1>8. \A i \in 1..n : i \in R
  <2> HIDE DEF R
  <2> QED BY <1>1, <1>6, <1>7, UpTo, Zenon
<1>9. n \in 1..n /\ m \in 1..m
  BY <1>1, <1>2
<1>10. Same(n, m)
  <2>1. f[n] = g[m]
    BY <1>3, <1>4
  <2>2. n \in R
    BY <1>8, <1>9
  <2> QED BY <1>9, <2>1, <2>2
<1> QED BY <1>10, SeqEqual DEF n, m

\* Requests of plain names that have one id are the same request.
LEMMA IdInjective ==
  ASSUME NEW b \in Seq(Seq(Char)), PlainNames(b), NEW s \in Seq(Char), Plain(s),
         NEW c \in Seq(Seq(Char)), PlainNames(c), NEW t \in Seq(Char), Plain(t),
         subscriptionID(b, s) = subscriptionID(c, t)
  PROVE  b = c /\ s = t
<1> DEFINE p == Joined(b)
           q == Joined(c)
           aud == <<"aud">>
           x == Separated(p, aud)
           y == Separated(q, aud)
<1>1. SafeChar \subseteq Char
  BY DEF SafeChar
<1>2. p \in Seq(Char) /\ q \in Seq(Char)
  BY <1>1, JoinedSafe, SeqMonotonic
<1>3. aud \in Seq(Char) /\ Plain(aud)
  <2>1. aud \in Seq(SafeChar) /\ aud \in Seq(Char) /\ aud # <<>>
    BY Characters
  <2>2. Len(aud) = 1 /\ aud[1] = "aud"
    OBVIOUS
  <2>3. sanitizeBilletName(aud) = aud
    BY <2>1, SanitizeKeeps
  <2> HIDE DEF aud
  <2>4. aud[1] # "underscore"
    BY <2>2
  <2> QED BY <2>1, <2>2, <2>3, <2>4 DEF Plain
<1> HIDE DEF p, q, aud
<1>4. x \in Seq(Char) /\ y \in Seq(Char)
  BY <1>2, <1>3, Around
<1>5. Separated(x, s) = Separated(y, t)
  BY DEF subscriptionID, Plain, Separated, p, q, aud
<1> HIDE DEF x, y
<1>6. x = y /\ s = t
  BY <1>4, <1>5, LastName
<1>7. p = q
  BY <1>2, <1>3, <1>6, LastName DEF x, y
<1>8. b = c
  BY <1>7, JoinedInjective DEF p, q
<1> QED BY <1>6, <1>8

-----------------------------------------------------------------------------
(* Requests and subscriptions.                                             *)

\* The set of names a list is normalized to.
Named(names) == {Trim(n) : n \in ToSet(names)} \ {<<>>}

\* A normalized list is the sorted list of its names, which are trimmed and not
\* empty.
LEMMA Normalized ==
  ASSUME NEW names \in Seq(Seq(Char))
  PROVE  /\ IsFiniteSet(Named(names))
         /\ \A n \in Named(names) : n \in Seq(Char) \ {<<>>} /\ n = Trim(n)
         /\ normalizeBillets(names) = Sorted(Named(names))
<1> DEFINE all == {Trim(n) : n \in ToSet(names)}
           f == [i \in 1..Len(names) |-> Trim(names[i])]
<1>1. /\ Len(names) \in Nat /\ DOMAIN names = 1..Len(names)
      /\ \A i \in 1..Len(names) : names[i] \in Seq(Char)
  BY LenProperties
<1>2. ToSet(names) = {names[i] : i \in 1..Len(names)}
  BY <1>1 DEF ToSet
<1>3. f \in Surjection(1..Len(names), all)
  <2>1. f \in [1..Len(names) -> all]
    BY <1>2
  <2>2. \A t \in all : \E i \in 1..Len(names) : f[i] = t
    BY <1>2
  <2> HIDE DEF f, all
  <2> QED BY <2>1, <2>2 DEF Surjection
<1>4. IsFiniteSet(all)
  <2>1. IsFiniteSet(1..Len(names))
    BY <1>1, FS_Interval
  <2> HIDE DEF f, all
  <2> QED BY <1>3, <2>1, FS_Surjection
<1>5. Named(names) \in SUBSET all
  BY DEF Named
<1>6. IsFiniteSet(Named(names))
  <2> HIDE DEF all
  <2> QED BY <1>4, <1>5, FS_Subset
<1>7. ASSUME NEW n \in Named(names) PROVE n \in Seq(Char) \ {<<>>} /\ n = Trim(n)
  <2>1. PICK i \in 1..Len(names) : n = Trim(names[i])
    BY <1>2 DEF Named
  <2> QED BY <1>1, <2>1, TrimTrims DEF Named
<1>8. normalizeBillets(names) = Sorted(Named(names))
  BY DEF normalizeBillets, Named
<1> QED BY <1>6, <1>7, <1>8

\* The audience of a subscription is a name.
LEMMA AudienceType ==
  ASSUME NEW requested \in Seq(Char)
  PROVE  resolveAudience(requested) \in Seq(Char)
BY ConstantsAssumption, TrimTrims DEF resolveAudience

\* What SubscriptionInv says of one subscription.
Entry(id, sub) ==
  LET names == ToSet(sub.billets)
  IN  /\ names # {} /\ IsFiniteSet(names)
      /\ \A n \in names : n \in Seq(Char) \ {<<>>} /\ n = Trim(n)
      /\ sub = Sub(Sorted(names), sub.audience)
      /\ sub.audience \in Seq(Char)
      /\ id = subscriptionID(sub.billets, sub.audience)

\* SubscriptionInv is about one subscription at a time, now and after a step.
LEMMA Entries == SubscriptionInv <=> \A id \in DOMAIN subscriptions :
                                       Entry(id, subscriptions[id])
BY DEF SubscriptionInv, Entry

LEMMA EntriesNext == SubscriptionInv' <=> \A id \in DOMAIN subscriptions' :
                                            Entry(id, subscriptions'[id])
BY DEF SubscriptionInv, Entry

\* A subscription is made of the names and the audience of a request.
LEMMA Requested ==
  ASSUME NEW names \in Seq(Seq(Char)), normalizeBillets(names) # <<>>,
         NEW requested \in Seq(Char)
  PROVE  LET sub == Sub(normalizeBillets(names), resolveAudience(requested))
         IN  Entry(subscriptionID(sub.billets, sub.audience), sub)
<1> DEFINE b == normalizeBillets(names)
           a == resolveAudience(requested)
<1>1. /\ IsFiniteSet(Named(names))
      /\ \A n \in Named(names) : n \in Seq(Char) \ {<<>>} /\ n = Trim(n)
      /\ b = Sorted(Named(names))
  BY Normalized
<1>2. a \in Seq(Char)
  BY AudienceType
<1> HIDE DEF b, a
<1>3. Named(names) \subseteq Seq(Char)
  BY <1>1
<1>4. b \in Seq(Named(names)) /\ ToSet(b) = Named(names)
  BY <1>1, <1>3, SortedSorts DEF InOrder
<1>5. Named(names) # {}
  <2>1. b # <<>>
    BY DEF b
  <2>2. Len(b) \in Nat /\ Len(b) # 0 /\ \A i \in 1..Len(b) : b[i] \in Named(names)
    BY <1>4, <2>1, EmptySeq, LenProperties
  <2>3. b[1] \in Named(names)
    BY <2>2
  <2> QED BY <2>3
<1>6. /\ Sub(b, a).billets = b /\ Sub(b, a).audience = a
  BY DEF Sub
<1>7. Entry(subscriptionID(b, a), Sub(b, a))
  BY <1>1, <1>2, <1>4, <1>5, <1>6 DEF Entry
<1> QED BY <1>6, <1>7 DEF b, a

\* The billets of a subscription are a sorted list of names, and not empty.
LEMMA EntryType ==
  ASSUME NEW id, NEW sub, Entry(id, sub)
  PROVE  /\ sub.billets \in Seq(Seq(Char)) /\ sub.billets # <<>>
         /\ \A i \in DOMAIN sub.billets :
              sub.billets[i] # <<>> /\ sub.billets[i] = Trim(sub.billets[i])
         /\ \A i, j \in DOMAIN sub.billets :
              i < j => Before(sub.billets[i], sub.billets[j])
<1> DEFINE b == sub.billets
           S == ToSet(b)
<1>1. /\ S # {} /\ IsFiniteSet(S) /\ S \subseteq Seq(Char)
      /\ \A n \in S : n # <<>> /\ n = Trim(n)
  BY DEF Entry
<1>2. b = Sorted(S)
  BY DEF Entry, Sub
<1>3. b \in Seq(S) /\ InOrder(b, S)
  <2> HIDE DEF b, S
  <2> QED BY <1>1, <1>2, SortedSorts
<1>4. \A i \in DOMAIN b : b[i] \in S
  BY DEF ToSet
<1>5. b # <<>>
  BY <1>1 DEF ToSet
<1>6. b \in Seq(Seq(Char))
  <2> HIDE DEF b, S
  <2> QED BY <1>1, <1>3, SeqMonotonic
<1> HIDE DEF b, S
<1>7. /\ \A i \in DOMAIN b : b[i] # <<>> /\ b[i] = Trim(b[i])
      /\ \A i, j \in DOMAIN b : i < j => Before(b[i], b[j])
  BY <1>1, <1>3, <1>4 DEF InOrder
<1> QED BY <1>5, <1>6, <1>7 DEF b

-----------------------------------------------------------------------------
(* The invariant, and what follows from it.                                *)

\* SubscriptionInv with the types of the names and the answers.
NamingInv ==
  /\ available \in Seq(Seq(Char) \ {<<>>})
  /\ credentials \subseteq Seq(Char) \ {<<>>}
  /\ SubscriptionInv
  /\ answer.kind \in {"none", "billet", "subscription", "post"}

\* Discovery merges its lists into distinct names.
LEMMA Merged ==
  ASSUME NEW lists \in Discoveries
  PROVE  LET names == unionDiscoveredBillets(lists)
         IN  /\ names \in Seq(Seq(Char) \ {<<>>})
             /\ \A i, j \in DOMAIN names : i # j => names[i] # names[j]
<1> DEFINE N == Seq(Char)
<1>1. lists \in [1..3 -> Seq(N)]
  BY ConstantsAssumption
<1> HIDE DEF N
<1>2. lists \in Seq(Seq(N))
  BY <1>1, SMTT(30)
<1>3. FlattenSeq(lists) \in Seq(N)
  BY <1>2, FlattenType
<1>4. /\ Firsts(FlattenSeq(lists)) \in Seq(N \ {<<>>})
      /\ \A i, j \in DOMAIN Firsts(FlattenSeq(lists)) :
           i # j => Firsts(FlattenSeq(lists))[i] # Firsts(FlattenSeq(lists))[j]
  BY <1>3, FirstsDistinct
<1> QED BY <1>4 DEF unionDiscoveredBillets, N

\* Each step keeps the invariant, and an answer is of the kind of its request.
LEMMA RefreshKeeps ==
  ASSUME NamingInv, NEW lists \in Discoveries, Refresh(lists)
  PROVE  NamingInv'
<1>1. available' \in Seq(Seq(Char) \ {<<>>})
  BY Merged DEF Refresh
<1>2. credentials' \subseteq Seq(Char) \ {<<>>}
  <2>1. CASE available' = <<>>
    BY <2>1 DEF Refresh, NamingInv
  <2>2. CASE available' # <<>>
    <3>1. credentials' \subseteq ToSet(available')
      BY <2>2 DEF Refresh
    <3>2. ToSet(available') \subseteq Seq(Char) \ {<<>>}
      BY <1>1, LenProperties DEF ToSet
    <3> QED BY <3>1, <3>2
  <2> QED BY <2>1, <2>2
<1>3. SubscriptionInv'
  BY Entries, EntriesNext DEF Refresh, NamingInv
<1>4. answer'.kind = answer.kind
  BY DEF Refresh
<1> QED BY <1>1, <1>2, <1>3, <1>4 DEF NamingInv

LEMMA GetBilletKeeps ==
  ASSUME NamingInv, NEW n, GetBillet(n)
  PROVE  NamingInv' /\ answer'.kind = "billet"
<1>1. answer'.kind = "billet"
  BY DEF GetBillet, Reply
<1>2. UNCHANGED <<available, credentials, subscriptions>>
  BY DEF GetBillet
<1>3. SubscriptionInv'
  BY <1>2, Entries, EntriesNext DEF NamingInv
<1> QED BY <1>1, <1>2, <1>3 DEF NamingInv

LEMMA CreateSubscriptionKeeps ==
  ASSUME NamingInv, NEW names \in Lists, NEW requested \in Audiences,
         CreateSubscription(names, requested)
  PROVE  NamingInv' /\ answer'.kind = "post"
<1> DEFINE sub == Sub(normalizeBillets(names), resolveAudience(requested))
           id == subscriptionID(sub.billets, sub.audience)
<1>1. answer'.kind = "post"
  BY DEF CreateSubscription, Reply
<1>2. UNCHANGED <<available, credentials>>
  BY DEF CreateSubscription
<1>3. Entry(id, sub)
  <2>1. names \in Seq(Seq(Char)) /\ requested \in Seq(Char)
    BY ConstantsAssumption
  <2>2. normalizeBillets(names) # <<>>
    BY DEF CreateSubscription, Sub
  <2> QED BY <2>1, <2>2, Requested
<1>4. \A i \in DOMAIN subscriptions : Entry(i, subscriptions[i])
  BY Entries DEF NamingInv
<1>5. \/ UNCHANGED subscriptions
      \/ subscriptions' = [i \in DOMAIN subscriptions \cup {id} |->
                             IF i = id THEN sub ELSE subscriptions[i]]
  BY DEF CreateSubscription
<1> HIDE DEF sub, id
<1>6. \A i \in DOMAIN subscriptions' : Entry(i, subscriptions'[i])
  BY <1>3, <1>4, <1>5
<1> QED BY <1>1, <1>2, <1>6, EntriesNext DEF NamingInv

LEMMA GetSubscriptionKeeps ==
  ASSUME NamingInv, NEW id, GetSubscription(id)
  PROVE  NamingInv' /\ answer'.kind = "subscription"
<1>1. answer'.kind = "subscription"
  BY DEF GetSubscription, Reply
<1>2. UNCHANGED <<available, credentials, subscriptions>>
  BY DEF GetSubscription
<1>3. SubscriptionInv'
  BY <1>2, Entries, EntriesNext DEF NamingInv
<1> QED BY <1>1, <1>2, <1>3 DEF NamingInv

LEMMA DeleteSubscriptionKeeps ==
  ASSUME NamingInv, NEW id, DeleteSubscription(id)
  PROVE  NamingInv'
<1>1. UNCHANGED <<available, credentials, answer>>
  BY DEF DeleteSubscription
<1>2. \A i \in DOMAIN subscriptions : Entry(i, subscriptions[i])
  BY Entries DEF NamingInv
<1>3. PICK k : subscriptions' = [j \in DOMAIN subscriptions \ {k} |-> subscriptions[j]]
  BY DEF DeleteSubscription
<1>4. \A i \in DOMAIN subscriptions' : Entry(i, subscriptions'[i])
  BY <1>2, <1>3
<1> QED BY <1>1, <1>4, EntriesNext DEF NamingInv

LEMMA NextKeeps == NamingInv /\ [Next]_vars => NamingInv'
<1> SUFFICES ASSUME NamingInv, [Next]_vars PROVE NamingInv'
  OBVIOUS
<1>1. CASE UNCHANGED vars
  BY <1>1, Entries, EntriesNext DEF NamingInv, vars
<1>2. CASE Next
  BY <1>2, RefreshKeeps, GetBilletKeeps, CreateSubscriptionKeeps,
     GetSubscriptionKeeps, DeleteSubscriptionKeeps DEF Next
<1> QED BY <1>1, <1>2

LEMMA Invariance == Spec => []NamingInv
<1>1. Init => NamingInv
  <2> SUFFICES ASSUME Init PROVE NamingInv
    OBVIOUS
  <2>1. available \in Seq(Seq(Char) \ {<<>>}) /\ credentials = {}
        /\ answer.kind = "none"
    BY DEF Init, Reply
  <2>2. DOMAIN subscriptions = {}
    BY DEF Init
  <2> QED BY <2>1, <2>2, Entries DEF NamingInv
<1> QED BY <1>1, NextKeeps, PTL DEF Spec

\* Every subscription in the map of subscription.go has the id of its billets
\* and its audience, and billets that are sorted, trimmed and not empty, for
\* every list and audience a client may POST.
THEOREM IdsOfRequests == Spec => []SubscriptionInv
<1>1. NamingInv => SubscriptionInv
  BY DEF NamingInv
<1> QED BY <1>1, Invariance, PTL

\* The names in d.available and d.credentials are names, and the billets of a
\* subscription are the sorted list normalizeBillets makes of them.
THEOREM NamingTypes == Spec => []TypeOK
<1>1. NamingInv => TypeOK
  <2> SUFFICES ASSUME NamingInv PROVE TypeOK
    OBVIOUS
  <2>1. \A id \in DOMAIN subscriptions : Entry(id, subscriptions[id])
    BY Entries DEF NamingInv
  <2>2. ASSUME NEW id \in DOMAIN subscriptions
        PROVE  LET b == subscriptions[id].billets
               IN  /\ b # <<>>
                   /\ \A i \in DOMAIN b : b[i] # <<>> /\ b[i] = Trim(b[i])
                   /\ \A i, j \in DOMAIN b : i < j => Before(b[i], b[j])
    BY <2>1, EntryType
  <2> QED BY <2>2 DEF TypeOK, NamingInv
<1> QED BY <1>1, Invariance, PTL

\* unionDiscoveredBillets (billets.go) keeps one of each name, however often
\* the three lists of a discovery repeat it.
THEOREM EachNameOnce == Spec => []AvailableOnce
<1>1. Init => AvailableOnce
  BY DEF Init, AvailableOnce
<1>2. AvailableOnce /\ [Next]_vars => AvailableOnce'
  <2> SUFFICES ASSUME AvailableOnce, [Next]_vars PROVE AvailableOnce'
    OBVIOUS
  <2>1. CASE UNCHANGED available
    BY <2>1 DEF AvailableOnce
  <2>2. ASSUME NEW d \in Discoveries, Refresh(d) PROVE AvailableOnce'
    BY <2>2, Merged DEF Refresh, AvailableOnce
  <2> QED BY <2>1, <2>2 DEF Next, vars, GetBillet, CreateSubscription,
                            GetSubscription, DeleteSubscription
<1> QED BY <1>1, <1>2, PTL DEF Spec

\* The id of a subscription is a function of the set of its billets and its
\* audience: normalizeBillets makes one list of a set.
THEOREM OneId == Spec => []OneIdPerRequest
<1>1. NamingInv => OneIdPerRequest
  <2> SUFFICES ASSUME NamingInv,
                      NEW i \in DOMAIN subscriptions, NEW j \in DOMAIN subscriptions,
                      subscriptions[i].audience = subscriptions[j].audience,
                      ToSet(subscriptions[i].billets) = ToSet(subscriptions[j].billets)
               PROVE  i = j
    BY DEF OneIdPerRequest
  <2> DEFINE s == subscriptions[i]
             t == subscriptions[j]
  <2>1. Entry(i, s) /\ Entry(j, t)
    BY Entries DEF NamingInv
  <2>2. s = Sub(Sorted(ToSet(s.billets)), s.audience)
        /\ t = Sub(Sorted(ToSet(t.billets)), t.audience)
    BY <2>1 DEF Entry
  <2>3. s = t
    BY <2>2
  <2> QED BY <2>1, <2>3 DEF Entry
<1> QED BY <1>1, Invariance, PTL

\* findSubscription (api.go) compares the sanitized ids with the segment of the
\* path: sanitizing changes no id subscriptionID makes, so the segment finds the
\* subscription with that id and no other.
THEOREM ReachableById == Spec => []SubscriptionReachable
<1>1. Init => SubscriptionReachable
  BY DEF Init, Reply, SubscriptionReachable
<1>2. NamingInv /\ SubscriptionReachable /\ [Next]_vars => SubscriptionReachable'
  <2> SUFFICES ASSUME NamingInv, SubscriptionReachable, [Next]_vars
               PROVE  SubscriptionReachable'
    OBVIOUS
  <2>1. CASE UNCHANGED answer
    BY <2>1 DEF SubscriptionReachable
  <2>2. ASSUME NEW n, GetBillet(n) PROVE SubscriptionReachable'
    BY <2>2, GetBilletKeeps DEF SubscriptionReachable
  <2>3. ASSUME NEW names \in Lists, NEW a \in Audiences, CreateSubscription(names, a)
        PROVE  SubscriptionReachable'
    BY <2>3, CreateSubscriptionKeeps DEF SubscriptionReachable
  <2>4. ASSUME NEW id \in DOMAIN subscriptions, GetSubscription(id)
        PROVE  SubscriptionReachable'
    <3>1. ASSUME NEW i \in DOMAIN subscriptions PROVE sanitizeBilletName(i) = i
      <4>1. Entry(i, subscriptions[i])
        BY Entries DEF NamingInv
      <4>2. /\ subscriptions[i].billets \in Seq(Seq(Char))
            /\ subscriptions[i].audience \in Seq(Char)
            /\ i = subscriptionID(subscriptions[i].billets, subscriptions[i].audience)
        BY <4>1, EntryType DEF Entry
      <4> QED BY <4>2, IdIsFixed
    <3>2. findSubscription(id) = {id}
      BY <3>1 DEF findSubscription
    <3>3. answer' = Reply("subscription", {subscriptions[id]}, {subscriptions[id]})
      BY <2>4, <3>2 DEF GetSubscription
    <3> QED BY <3>3 DEF Reply, SubscriptionReachable
  <2> QED BY <2>1, <2>2, <2>3, <2>4 DEF Next, vars, Refresh, DeleteSubscription
<1> QED BY <1>1, <1>2, Invariance, PTL DEF Spec

\* A POST /subscriptions whose names and audience have no unsafe character and
\* no "__" is answered with its own subscription, unless the one it gets was
\* made of a name that has: subscriptionID can be read back.
THEOREM PlainOwnEntry == Spec => []PlainRequestsOwnEntry
<1>1. Init => PlainRequestsOwnEntry
  BY DEF Init, Reply, PlainRequestsOwnEntry
<1>2. NamingInv /\ PlainRequestsOwnEntry /\ [Next]_vars => PlainRequestsOwnEntry'
  <2> SUFFICES ASSUME NamingInv, PlainRequestsOwnEntry, [Next]_vars
               PROVE  PlainRequestsOwnEntry'
    OBVIOUS
  <2>1. CASE UNCHANGED answer
    BY <2>1 DEF PlainRequestsOwnEntry
  <2>2. ASSUME NEW n, GetBillet(n) PROVE PlainRequestsOwnEntry'
    BY <2>2, GetBilletKeeps DEF PlainRequestsOwnEntry
  <2>3. ASSUME NEW id, GetSubscription(id) PROVE PlainRequestsOwnEntry'
    BY <2>3, GetSubscriptionKeeps DEF PlainRequestsOwnEntry
  <2>4. ASSUME NEW names \in Lists, NEW a \in Audiences, CreateSubscription(names, a)
        PROVE  PlainRequestsOwnEntry'
    <3> DEFINE sub == Sub(normalizeBillets(names), resolveAudience(a))
               id == subscriptionID(sub.billets, sub.audience)
               entry == subscriptions[id]
    <3>1. Entry(id, sub)
      <4>1. names \in Seq(Seq(Char)) /\ a \in Seq(Char)
        BY ConstantsAssumption
      <4>2. normalizeBillets(names) # <<>>
        BY <2>4 DEF CreateSubscription, Sub
      <4> QED BY <4>1, <4>2, Requested
    <3>2. \/ answer' = Reply("post", {sub}, {sub})
          \/ id \in DOMAIN subscriptions /\ answer' = Reply("post", {sub}, {entry})
      BY <2>4 DEF CreateSubscription
    <3>3. id \in DOMAIN subscriptions => Entry(id, entry)
      BY Entries DEF NamingInv
    <3> HIDE DEF sub, id, entry
    <3>4. CASE answer' = Reply("post", {sub}, {sub})
      BY <3>4 DEF Reply, PlainRequestsOwnEntry
    <3>5. CASE /\ id \in DOMAIN subscriptions
               /\ answer' = Reply("post", {sub}, {entry})
      <4>1. answer'.asked = {sub} /\ answer'.got = {entry}
        BY <3>5 DEF Reply
      <4> SUFFICES ASSUME PlainSub(sub), PlainSub(entry) PROVE sub = entry
        BY <4>1 DEF PlainRequestsOwnEntry
      <4>2. Entry(id, entry)
        BY <3>3, <3>5
      <4>3. ASSUME NEW s, Entry(id, s), PlainSub(s)
            PROVE  /\ s.billets \in Seq(Seq(Char)) /\ PlainNames(s.billets)
                   /\ s.audience \in Seq(Char) /\ Plain(s.audience)
                   /\ id = subscriptionID(s.billets, s.audience)
                   /\ s = Sub(s.billets, s.audience)
        <5>1. s.billets \in Seq(Seq(Char)) /\ s.billets # <<>>
          BY <4>3, EntryType
        <5>2. \A i \in DOMAIN s.billets : s.billets[i] \in ToSet(s.billets)
          BY DEF ToSet
        <5>3. PlainNames(s.billets) /\ Plain(s.audience)
          BY <4>3, <5>1, <5>2 DEF PlainSub, PlainNames
        <5>4. /\ s = Sub(Sorted(ToSet(s.billets)), s.audience)
              /\ s.audience \in Seq(Char)
              /\ id = subscriptionID(s.billets, s.audience)
          BY <4>3 DEF Entry
        <5>5. s = Sub(s.billets, s.audience)
          BY <5>4 DEF Sub
        <5> QED BY <5>1, <5>3, <5>4, <5>5
      <4>4. sub.billets = entry.billets /\ sub.audience = entry.audience
        BY <3>1, <4>2, <4>3, IdInjective
      <4>5. /\ sub = Sub(sub.billets, sub.audience)
            /\ entry = Sub(entry.billets, entry.audience)
        BY <3>1, <4>2, <4>3
      <4> QED BY <4>4, <4>5
    <3> QED BY <3>2, <3>4, <3>5
  <2> QED BY <2>1, <2>2, <2>3, <2>4 DEF Next, vars, Refresh, DeleteSubscription
<1> QED BY <1>1, <1>2, Invariance, PTL DEF Spec

=============================================================================
