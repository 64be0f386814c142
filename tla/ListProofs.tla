----------------------------- MODULE ListProofs ----------------------------
(***************************************************************************)
(* What is proved of lists of any length: what the loop of module Lists    *)
(* keeps of one, and that the slices of module Pagination cut it into      *)
(* pages.                                                                  *)
(***************************************************************************)
EXTENDS Lists, Pagination, FiniteSetTheorems, SequenceTheorems, WellFoundedInduction, TLAPS

(* A set of numbers that is not empty has a least one.                     *)
LEMMA HasLeast ==
  ASSUME NEW T \in SUBSET Nat, T # {}
  PROVE  \E m \in T : \A k \in T : m <= k
<1> DEFINE Less == OpToRel(<, Nat)
<1>1. IsWellFoundedOn(Less, Nat)
  BY NatLessThanWellFounded
<1>2. \A k, m \in Nat : k < m => <<k, m>> \in Less
  BY DEF OpToRel
<1> HIDE DEF Less
<1>3. \E m \in T : \A k \in T : <<k, m>> \notin Less
  BY <1>1, WFMin
<1>4. PICK m \in T : \A k \in T : <<k, m>> \notin Less
  BY <1>3
<1>5. \A k \in T : ~(k < m)
  BY <1>2, <1>4
<1>6. QED
  BY <1>5

(* The loop over a list has a first step and goes on from each to the next.*)
LEMMA KeptLoop ==
  ASSUME NEW S, NEW s \in Seq(S), NEW set
  PROVE  \E kept :
           /\ kept = [n \in 0 .. Len(s) |->
                        IF n = 0 THEN <<>>
                        ELSE IF s[n] \in set THEN Append(kept[n - 1], s[n]) ELSE kept[n - 1]]
           /\ Kept(s, set) = kept[Len(s)]
<1> DEFINE Next1(k, n) == IF s[n] \in set THEN Append(k, s[n]) ELSE k
           Run(g, m) == /\ g = [n \in 0 .. m |-> g[n]]
                        /\ g[0] = <<>>
                        /\ \A n \in 1 .. m : g[n] = Next1(g[n - 1], n)
           Bad == {m \in Nat : ~\E g : Run(g, m)}
<1>1. Bad = {}
  <2>. SUFFICES ASSUME Bad # {} PROVE FALSE
    OBVIOUS
  <2>1. PICK m \in Bad : \A k \in Bad : m <= k
    <3>1. Bad \in SUBSET Nat
      OBVIOUS
    <3>2. QED
      BY <3>1, HasLeast
  <2>2. CASE m = 0
    <3>1. Run([n \in 0 .. 0 |-> <<>>], 0)
      OBVIOUS
    <3>2. QED BY <2>2, <3>1
  <2>3. CASE m # 0
    <3>1. m \in Nat /\ m - 1 \in Nat /\ m - 1 \notin Bad
      BY <2>1, <2>3
    <3>2. PICK g : Run(g, m - 1)
      BY <3>1
    <3> DEFINE f == [n \in 0 .. m |-> IF n = m THEN Next1(g[m - 1], m) ELSE g[n]]
    <3>3. DOMAIN f = 0 .. m /\ f[0] = <<>>
      BY <3>1, <3>2, <2>3
    <3>4. ASSUME NEW n \in 1 .. m PROVE f[n] = Next1(f[n - 1], n)
      <4>1. n - 1 \in 0 .. m /\ n - 1 # m /\ n \in 0 .. m
        BY <3>1
      <4>2. f[n - 1] = g[n - 1]
        BY <4>1
      <4>3. n # m => n \in 1 .. (m - 1) /\ f[n] = g[n]
        BY <3>1, <4>1
      <4>4. QED
        BY <3>2, <4>1, <4>2, <4>3
    <3> HIDE DEF f
    <3>5. f = [n \in 0 .. m |-> f[n]]
      BY DEF f
    <3>6. Run(f, m)
      BY <3>3, <3>4, <3>5
    <3>7. QED BY <2>1, <3>6
  <2>4. QED BY <2>2, <2>3
<1>2. PICK g : Run(g, Len(s))
  BY <1>1, LenProperties
<1>3. g = [n \in 0 .. Len(s) |->
                        IF n = 0 THEN <<>>
                        ELSE IF s[n] \in set THEN Append(g[n - 1], s[n]) ELSE g[n - 1]]
  <2>1. \A n \in 0 .. Len(s) :
          g[n] = IF n = 0 THEN <<>>
                 ELSE IF s[n] \in set THEN Append(g[n - 1], s[n]) ELSE g[n - 1]
    BY <1>2, LenProperties
  <2>2. QED
    BY <1>2, <2>1
<1>4. QED
  BY <1>3 DEF Kept

(* It keeps each element of the set, once for each place it had and in the *)
(* same order, and nothing else.                                           *)
LEMMA KeptElements ==
  ASSUME NEW S, NEW s \in Seq(S), NEW set
  PROVE  /\ Kept(s, set) \in Seq(S)
         /\ \E from \in [1 .. Len(Kept(s, set)) -> 1 .. Len(s)] :
              /\ \A i, j \in DOMAIN from : i < j => from[i] < from[j]
              /\ \A i, j \in DOMAIN from : from[i] = from[j] => i = j
              /\ \A i \in DOMAIN from : Kept(s, set)[i] = s[from[i]] /\ s[from[i]] \in set
         /\ \A j \in 1 .. Len(s) : s[j] \in set =>
              \E i \in 1 .. Len(Kept(s, set)) : Kept(s, set)[i] = s[j]
<1>1. PICK kept :
        /\ kept = [n \in 0 .. Len(s) |->
                     IF n = 0 THEN <<>>
                     ELSE IF s[n] \in set THEN Append(kept[n - 1], s[n]) ELSE kept[n - 1]]
        /\ Kept(s, set) = kept[Len(s)]
  BY KeptLoop
<1> DEFINE Places(k, n) ==
             \E from \in [1 .. Len(k) -> 1 .. n] :
               /\ \A i, j \in DOMAIN from : i < j => from[i] < from[j]
               /\ \A i \in DOMAIN from : k[i] = s[from[i]] /\ s[from[i]] \in set
           All(k, n) == \A j \in 1 .. n : s[j] \in set => \E i \in 1 .. Len(k) : k[i] = s[j]
           Good(n) == kept[n] \in Seq(S) /\ Places(kept[n], n) /\ All(kept[n], n)
           Bad == {n \in 0 .. Len(s) : ~Good(n)}
<1>2. Len(s) \in Nat
  BY LenProperties
<1>3. \A n \in 0 .. Len(s) :
        kept[n] = IF n = 0 THEN <<>>
                  ELSE IF s[n] \in set THEN Append(kept[n - 1], s[n]) ELSE kept[n - 1]
  BY <1>1
<1>4. Good(0)
  <2>. DEFINE from == [i \in 1 .. 0 |-> 0]
  <2>1. kept[0] = <<>> /\ <<>> \in Seq(S) /\ Len(<<>>) = 0
    BY <1>2, <1>3
  <2>2. from \in [1 .. 0 -> 1 .. 0] /\ 1 .. 0 = {} /\ DOMAIN from = {}
    OBVIOUS
  <2> HIDE DEF from
  <2>3. Places(<<>>, 0)
    BY <2>1, <2>2
  <2>4. All(<<>>, 0)
    BY <2>2
  <2> HIDE DEF Places, All
  <2>5. QED
    BY <2>1, <2>3, <2>4
<1>5. ASSUME NEW n \in 1 .. Len(s), Good(n - 1)
      PROVE  Good(n)
  <2>. DEFINE k == kept[n - 1]
  <2>1. n \in Nat /\ n - 1 \in 0 .. Len(s) /\ s[n] \in S
    BY <1>2
  <2>2. k \in Seq(S) /\ Len(k) \in Nat /\ Places(k, n - 1) /\ All(k, n - 1)
    <3> HIDE DEF Places, All
    <3>1. k \in Seq(S) /\ Places(k, n - 1) /\ All(k, n - 1)
      BY <1>5
    <3>2. QED
      BY <3>1, LenProperties
  <2>2a. k \in Seq(S) /\ Len(k) \in Nat
    BY <2>2
  <2>3. kept[n] = IF s[n] \in set THEN Append(k, s[n]) ELSE k
    BY <1>2, <1>3, <2>1
  <2> HIDE DEF k
  <2>4. PICK from \in [1 .. Len(k) -> 1 .. (n - 1)] :
          /\ \A i, j \in DOMAIN from : i < j => from[i] < from[j]
          /\ \A i \in DOMAIN from : k[i] = s[from[i]] /\ s[from[i]] \in set
    BY <2>2
  <2>5. CASE s[n] \notin set
    <3>1. from \in [1 .. Len(k) -> 1 .. n]
      BY <2>1, <2>4
    <3>2. Places(k, n)
      BY <2>4, <3>1
    <3>3. All(k, n)
      BY <2>1, <2>2, <2>5
    <3> HIDE DEF Places, All
    <3>4. QED
      BY <2>2, <2>3, <2>5, <3>2, <3>3
  <2>6. CASE s[n] \in set
    <3>. DEFINE a == Append(k, s[n])
                to == [i \in 1 .. Len(a) |-> IF i = Len(a) THEN n ELSE from[i]]
    <3>1. a \in Seq(S) /\ Len(a) = Len(k) + 1 /\ a[Len(k) + 1] = s[n]
          /\ \A i \in 1 .. Len(k) : a[i] = k[i]
      BY <2>1, <2>2
    <3> HIDE DEF a
    <3>2. to \in [1 .. Len(a) -> 1 .. n]
      BY <2>1, <2>2, <2>4, <3>1
    <3>3. \A i \in 1 .. Len(a) : IF i = Len(a) THEN to[i] = n
                                 ELSE i \in 1 .. Len(k) /\ to[i] = from[i] /\ to[i] \in 1 .. (n - 1)
      BY <2>2, <2>4, <3>1
    <3> HIDE DEF to
    <3>4. ASSUME NEW i \in 1 .. Len(a), NEW j \in 1 .. Len(a), i < j
          PROVE  to[i] < to[j]
      <4>1. j \in Nat /\ i \in 1 .. Len(k) /\ i # Len(a) /\ to[i] = from[i] /\ to[i] \in 1 .. (n - 1)
        BY <2>2a, <3>1, <3>3, <3>4
      <4>2. CASE j = Len(a)
        BY <2>1, <3>3, <4>1, <4>2
      <4>3. CASE j # Len(a)
        BY <2>4, <3>3, <3>4, <4>1, <4>3
      <4>4. QED
        BY <4>2, <4>3
    <3>5. ASSUME NEW i \in 1 .. Len(a)
          PROVE  a[i] = s[to[i]] /\ s[to[i]] \in set
      BY <2>4, <2>6, <3>1, <3>3
    <3>6. Places(a, n)
      <4>1. DOMAIN to = 1 .. Len(a)
        BY <3>2
      <4>2. QED
        BY <3>2, <3>4, <3>5, <4>1
    <3>7. All(a, n)
      <4>1. ASSUME NEW j \in 1 .. n, s[j] \in set
            PROVE  \E i \in 1 .. Len(a) : a[i] = s[j]
        <5>1. CASE j = n
          BY <2>2, <3>1, <5>1
        <5>2. CASE j # n
          <6>1. j \in 1 .. (n - 1)
            BY <2>1, <5>2
          <6>2. PICK i \in 1 .. Len(k) : k[i] = s[j]
            BY <2>2, <4>1, <6>1
          <6>3. i \in 1 .. Len(a) /\ a[i] = s[j]
            BY <2>2a, <3>1, <6>2
          <6>4. QED
            BY <6>3
        <5>3. QED
          BY <5>1, <5>2
      <4>2. QED
        BY <4>1
    <3>8. kept[n] = a
      BY <2>3, <2>6 DEF a
    <3> HIDE DEF Places, All
    <3>9. QED
      BY <3>1, <3>6, <3>7, <3>8
  <2>7. QED
    BY <2>5, <2>6
<1> HIDE DEF Good
<1>6. Bad = {}
  <2>. SUFFICES ASSUME Bad # {} PROVE FALSE
    OBVIOUS
  <2>1. Bad \in SUBSET Nat
    BY <1>2
  <2>2. PICK n \in Bad : \A m \in Bad : n <= m
    BY <2>1, HasLeast
  <2>3. n \in 1 .. Len(s) /\ n - 1 \in 0 .. Len(s) /\ n - 1 \notin Bad
    BY <1>2, <1>4, <2>2
  <2>4. QED
    BY <1>5, <2>2, <2>3
<1>7. Good(Len(s))
  BY <1>2, <1>6
<1>8. kept[Len(s)] \in Seq(S) /\ Places(kept[Len(s)], Len(s)) /\ All(kept[Len(s)], Len(s))
  BY <1>7 DEF Good
<1> HIDE DEF Good, Bad
<1>9. PICK r : r = kept[Len(s)]
  OBVIOUS
<1>10. Kept(s, set) = r
  BY <1>1, <1>9
<1>11. PICK from \in [1 .. Len(r) -> 1 .. Len(s)] :
         /\ \A i, j \in DOMAIN from : i < j => from[i] < from[j]
         /\ \A i \in DOMAIN from : r[i] = s[from[i]] /\ s[from[i]] \in set
  BY <1>8, <1>9
<1>12. \A i, j \in DOMAIN from : from[i] = from[j] => i = j
  <2>1. \A i, j \in DOMAIN from : i \in Int /\ j \in Int /\ from[i] \in Int /\ from[j] \in Int
    BY <1>11
  <2>2. QED
    BY <1>11, <2>1
<1>13. /\ r \in Seq(S)
       /\ \A j \in 1 .. Len(s) : s[j] \in set => \E i \in 1 .. Len(r) : r[i] = s[j]
  BY <1>8, <1>9
<1>14. \E places \in [1 .. Len(r) -> 1 .. Len(s)] :
         /\ \A i, j \in DOMAIN places : i < j => places[i] < places[j]
         /\ \A i, j \in DOMAIN places : places[i] = places[j] => i = j
         /\ \A i \in DOMAIN places : r[i] = s[places[i]] /\ s[places[i]] \in set
  BY <1>11, <1>12
<1>15. QED
  BY <1>10, <1>13, <1>14

(* A field of what a list has and one more record.                         *)
LEMMA ColumnAppended ==
  ASSUME NEW S, NEW T, NEW k \in Seq(S), NEW x \in S, NEW field,
         Column(k, field) \in Seq(T), x[field] \in T
  PROVE  Column(Append(k, x), field) = Append(Column(k, field), x[field])
<1> DEFINE c == Column(k, field)
           a == Append(k, x)
           b == Append(c, x[field])
<1>1. Len(k) \in Nat /\ DOMAIN k = 1 .. Len(k) /\ DOMAIN c = DOMAIN k
  BY LenProperties DEF Column
<1>2. c \in Seq(T) /\ \A i \in 1 .. Len(k) : c[i] = k[i][field]
  BY <1>1 DEF Column
<1>3. Len(c) = Len(k)
  <2>1. Len(c) \in Nat /\ DOMAIN c = 1 .. Len(c)
    BY <1>2, LenProperties
  <2>2. QED
    BY <1>1, <2>1
<1> HIDE DEF c
<1>4. /\ a \in Seq(S) /\ Len(a) = Len(k) + 1 /\ a[Len(k) + 1] = x
      /\ \A i \in 1 .. Len(k) : a[i] = k[i]
  OBVIOUS
<1>5. /\ b \in Seq(T) /\ Len(b) = Len(c) + 1 /\ b[Len(c) + 1] = x[field]
      /\ \A i \in 1 .. Len(c) : b[i] = c[i]
  BY <1>2
<1>6. DOMAIN a = 1 .. (Len(k) + 1) /\ b = [i \in 1 .. (Len(k) + 1) |-> b[i]]
  BY <1>3, <1>4, <1>5, LenProperties
<1> HIDE DEF a, b
<1>7. \A i \in 1 .. (Len(k) + 1) : a[i][field] = b[i]
  <2>1. SUFFICES ASSUME NEW i \in 1 .. (Len(k) + 1) PROVE a[i][field] = b[i]
    OBVIOUS
  <2>2. i \in 1 .. Len(k) \/ i = Len(k) + 1
    BY <1>1
  <2>3. QED
    BY <1>2, <1>3, <1>4, <1>5, <2>2
<1>8. Column(a, field) = b
  BY <1>6, <1>7 DEF Column
<1>9. QED
  BY <1>8 DEF a, b, c

(* To keep records and take a field of each is to keep these fields.       *)
LEMMA KeptColumn ==
  ASSUME NEW S, NEW T, NEW s \in Seq(S), NEW t \in Seq(T), NEW A, NEW B, NEW field,
         Len(s) = Len(t),
         \A i \in 1 .. Len(t) : s[i][field] = t[i] /\ (s[i] \in A <=> t[i] \in B)
  PROVE  Column(Kept(s, A), field) = Kept(t, B)
<1>1. PICK f :
        /\ f = [n \in 0 .. Len(s) |->
                  IF n = 0 THEN <<>>
                  ELSE IF s[n] \in A THEN Append(f[n - 1], s[n]) ELSE f[n - 1]]
        /\ Kept(s, A) = f[Len(s)]
  BY KeptLoop
<1>2. PICK g :
        /\ g = [n \in 0 .. Len(t) |->
                  IF n = 0 THEN <<>>
                  ELSE IF t[n] \in B THEN Append(g[n - 1], t[n]) ELSE g[n - 1]]
        /\ Kept(t, B) = g[Len(t)]
  BY KeptLoop
<1> DEFINE Good(n) == f[n] \in Seq(S) /\ g[n] \in Seq(T) /\ Column(f[n], field) = g[n]
           Bad == {n \in 0 .. Len(s) : ~Good(n)}
<1>3. Len(s) \in Nat /\ \A n \in 1 .. Len(s) : s[n] \in S /\ t[n] \in T
  BY LenProperties, ElementOfSeq
<1>4. \A n \in 0 .. Len(s) :
        /\ f[n] = IF n = 0 THEN <<>>
                  ELSE IF s[n] \in A THEN Append(f[n - 1], s[n]) ELSE f[n - 1]
        /\ g[n] = IF n = 0 THEN <<>>
                  ELSE IF t[n] \in B THEN Append(g[n - 1], t[n]) ELSE g[n - 1]
  BY <1>1, <1>2
<1>5. Good(0)
  <2>1. f[0] = <<>> /\ g[0] = <<>>
    BY <1>3, <1>4
  <2>2. Column(<<>>, field) = <<>>
    BY DEF Column
  <2>3. QED
    BY <2>1, <2>2
<1>6. ASSUME NEW n \in 1 .. Len(s), Good(n - 1)
      PROVE  Good(n)
  <2>1. n \in 0 .. Len(s) /\ n # 0 /\ n \in 1 .. Len(t) /\ s[n] \in S /\ t[n] \in T
    BY <1>3
  <2>2. s[n][field] = t[n] /\ (s[n] \in A <=> t[n] \in B)
    BY <2>1
  <2>3. CASE s[n] \in A
    <3>1. f[n] = Append(f[n - 1], s[n]) /\ g[n] = Append(g[n - 1], t[n])
      BY <1>4, <2>1, <2>2, <2>3
    <3>2. f[n - 1] \in Seq(S) /\ g[n - 1] \in Seq(T) /\ Column(f[n - 1], field) = g[n - 1]
      BY <1>6
    <3>3. Append(f[n - 1], s[n]) \in Seq(S) /\ Append(g[n - 1], t[n]) \in Seq(T)
      BY <2>1, <3>2
    <3>4. Column(Append(f[n - 1], s[n]), field) = Append(g[n - 1], t[n])
      BY <2>1, <2>2, <3>2, ColumnAppended
    <3>5. QED
      BY <3>1, <3>3, <3>4
  <2>4. CASE s[n] \notin A
    <3>1. f[n] = f[n - 1] /\ g[n] = g[n - 1]
      BY <1>4, <2>1, <2>2, <2>4
    <3>2. QED
      BY <1>6, <3>1
  <2>5. QED
    BY <2>3, <2>4
<1> HIDE DEF Good
<1>7. Bad = {}
  <2>1. SUFFICES ASSUME Bad # {} PROVE FALSE
    OBVIOUS
  <2>2. Bad \in SUBSET Nat
    BY <1>3
  <2>3. PICK n \in Bad : \A m \in Bad : n <= m
    BY <2>1, <2>2, HasLeast
  <2>4. n \in 1 .. Len(s) /\ n - 1 \in 0 .. Len(s) /\ n - 1 \notin Bad
    BY <1>3, <1>5, <2>3
  <2>5. QED
    BY <1>6, <2>3, <2>4
<1>8. Good(Len(s))
  BY <1>3, <1>7
<1>9. QED
  BY <1>1, <1>2, <1>8 DEF Good

(* The first of a list is on it.                                           *)
LEMMA HeadListed ==
  ASSUME NEW S, NEW s \in Seq(S), s # <<>>
  PROVE  Head(s) \in Range(s)
<1>1. Len(s) \in Nat /\ DOMAIN s = 1 .. Len(s) /\ Len(s) # 0
  BY LenProperties, EmptySeq
<1>2. Head(s) = s[1]
  OBVIOUS
<1>3. 1 \in DOMAIN s
  BY <1>1
<1>4. QED
  BY <1>2, <1>3 DEF Range

(* As a set, what is kept is the part of the list in the set.              *)
LEMMA KeptRange ==
  ASSUME NEW S, NEW s \in Seq(S), NEW set
  PROVE  Range(Kept(s, set)) = Range(s) \cap set
<1> DEFINE k == Kept(s, set)
<1>1. k \in Seq(S)
  BY KeptElements
<1>2. PICK from \in [1 .. Len(k) -> 1 .. Len(s)] :
        \A i \in DOMAIN from : k[i] = s[from[i]] /\ s[from[i]] \in set
  BY KeptElements
<1>3. \A j \in 1 .. Len(s) : s[j] \in set => \E i \in 1 .. Len(k) : k[i] = s[j]
  BY KeptElements
<1>4. DOMAIN k = 1 .. Len(k) /\ DOMAIN s = 1 .. Len(s)
  BY <1>1, LenProperties
<1> HIDE DEF k
<1>5. Range(k) \subseteq Range(s) \cap set
  BY <1>2, <1>4 DEF Range
<1>6. Range(s) \cap set \subseteq Range(k)
  BY <1>3, <1>4 DEF Range
<1>7. QED
  BY <1>5, <1>6 DEF k

(* Of a list without repetitions it is one without, not longer than that   *)
(* list, and of an empty one nothing.                                      *)
LEMMA KeptDistinct ==
  ASSUME NEW S, NEW s \in Seq(S), NEW set, IsInjective(s)
  PROVE  /\ IsInjective(Kept(s, set))
         /\ Len(Kept(s, set)) <= Len(s)
<1> DEFINE k == Kept(s, set)
<1>1. k \in Seq(S)
  BY KeptElements
<1>2. PICK from \in [1 .. Len(k) -> 1 .. Len(s)] :
        /\ \A i, j \in DOMAIN from : from[i] = from[j] => i = j
        /\ \A i \in DOMAIN from : k[i] = s[from[i]] /\ s[from[i]] \in set
  BY KeptElements
<1>3. /\ DOMAIN k = 1 .. Len(k) /\ DOMAIN s = 1 .. Len(s)
      /\ Len(k) \in Nat /\ Len(s) \in Nat
  BY <1>1, LenProperties
<1> HIDE DEF k
<1>4. IsInjective(k)
  BY <1>2, <1>3 DEF IsInjective
<1>5. from \in Injection(1 .. Len(k), 1 .. Len(s))
  BY <1>2 DEF Injection, IsInjective
<1>6. /\ IsFiniteSet(1 .. Len(s))
      /\ Cardinality(1 .. Len(s)) = Len(s) /\ Cardinality(1 .. Len(k)) = Len(k)
  <2>1. \A n \in Nat : IsFiniteSet(1 .. n) /\ Cardinality(1 .. n) = n
    BY FS_Interval
  <2>2. QED
    BY <1>3, <2>1
<1>7. Len(k) <= Len(s)
  BY <1>5, <1>6, FS_Injection
<1>8. QED
  BY <1>4, <1>7 DEF k

(* A list without repetitions has as many elements as its range.           *)
LEMMA DistinctLength ==
  ASSUME NEW S, NEW s \in Seq(S), IsInjective(s)
  PROVE  IsFiniteSet(Range(s)) /\ Cardinality(Range(s)) = Len(s)
<1>1. DOMAIN s = 1 .. Len(s) /\ Len(s) \in Nat /\ s \in [1 .. Len(s) -> S]
  BY LenProperties
<1>2. s \in [1 .. Len(s) -> Range(s)]
  BY <1>1 DEF Range
<1>3. s \in Bijection(1 .. Len(s), Range(s))
  BY <1>1, <1>2 DEF Bijection, Injection, Surjection, IsInjective, Range
<1>4. IsFiniteSet(1 .. Len(s)) /\ Cardinality(1 .. Len(s)) = Len(s)
  BY <1>1, FS_Interval
<1>5. QED
  BY <1>3, <1>4, FS_Bijection DEF ExistsBijection

(* The elements of the set up to the one that is kept in place p are p.    *)
LEMMA KeptRank ==
  ASSUME NEW S, NEW s \in Seq(S), NEW set, IsInjective(s),
         NEW p \in 1 .. Len(Kept(s, set))
  PROVE  LET upto == {c \in Range(s) \cap set :
                        \E i, j \in DOMAIN s : i <= j /\ s[i] = c /\ s[j] = Kept(s, set)[p]}
         IN  IsFiniteSet(upto) /\ Cardinality(upto) = p
<1> DEFINE k == Kept(s, set)
           upto == {c \in Range(s) \cap set :
                        \E i, j \in DOMAIN s : i <= j /\ s[i] = c /\ s[j] = k[p]}
<1>1. k \in Seq(S)
  BY KeptElements
<1>2. PICK from \in [1 .. Len(k) -> 1 .. Len(s)] :
        /\ \A i, j \in DOMAIN from : i < j => from[i] < from[j]
        /\ \A i \in DOMAIN from : k[i] = s[from[i]] /\ s[from[i]] \in set
  BY KeptElements
<1>3. IsInjective(k) /\ Range(k) = Range(s) \cap set
  BY KeptDistinct, KeptRange
<1>4. /\ DOMAIN k = 1 .. Len(k) /\ DOMAIN s = 1 .. Len(s)
      /\ Len(k) \in Nat /\ Len(s) \in Nat
  BY <1>1, LenProperties
<1> HIDE DEF k
<1> DEFINE g == [q \in 1 .. p |-> k[q]]
<1>5. p \in 1 .. Len(k) /\ p \in Nat /\ 1 .. p \subseteq 1 .. Len(k)
  BY <1>4 DEF k
<1>6. ASSUME NEW q \in 1 .. p PROVE k[q] \in upto
  <2>1. q \in 1 .. Len(k) /\ (q = p \/ q < p)
    BY <1>4, <1>5
  <2>2. from[q] \in DOMAIN s /\ from[p] \in DOMAIN s /\ from[q] <= from[p]
    BY <1>2, <1>4, <1>5, <2>1
  <2>3. k[q] \in Range(s) \cap set
    BY <1>3, <1>4, <2>1 DEF Range
  <2>4. s[from[q]] = k[q] /\ s[from[p]] = k[p]
    BY <1>2, <1>5, <2>1
  <2>5. QED
    BY <2>2, <2>3, <2>4
<1>7. ASSUME NEW c \in upto PROVE \E q \in 1 .. p : k[q] = c
  <2>1. PICK i \in DOMAIN s, j \in DOMAIN s : i <= j /\ s[i] = c /\ s[j] = k[p]
    OBVIOUS
  <2>2. PICK q \in 1 .. Len(k) : k[q] = c
    BY <1>3, <1>4 DEF Range
  <2>3. from[q] = i /\ from[p] = j
    BY <1>2, <1>4, <1>5, <2>1, <2>2 DEF IsInjective
  <2>4. ~(p < q)
    BY <1>2, <1>4, <1>5, <2>1, <2>3
  <2>5. q \in 1 .. p
    BY <1>4, <1>5, <2>4
  <2>6. QED
    BY <2>2, <2>5
<1> HIDE DEF upto
<1>8. g \in Bijection(1 .. p, upto)
  <2>1. g \in [1 .. p -> upto]
    BY <1>6
  <2>2. IsInjective(g)
    BY <1>3, <1>4, <1>5 DEF IsInjective
  <2>3. \A c \in upto : \E q \in 1 .. p : g[q] = c
    BY <1>7
  <2>4. QED
    BY <2>1, <2>2, <2>3 DEF Bijection, Injection, Surjection
<1>9. IsFiniteSet(1 .. p) /\ Cardinality(1 .. p) = p
  BY <1>5, FS_Interval
<1>10. IsFiniteSet(upto) /\ Cardinality(upto) = p
  BY <1>8, <1>9, FS_Bijection DEF ExistsBijection
<1>11. QED
  BY <1>10 DEF upto, k

(* Of a list without repetitions, keeping what is in a row is slicing.     *)
LEMMA KeptInterval ==
  ASSUME NEW S, NEW s \in Seq(S), IsInjective(s),
         NEW a \in Nat, NEW b \in Nat, a <= b, b <= Len(s)
  PROVE  Kept(s, {s[i] : i \in (a + 1) .. b}) = SubSeq(s, a + 1, b)
<1> DEFINE set == {s[i] : i \in (a + 1) .. b}
           k == Kept(s, set)
<1>0. \A i \in (a + 1) .. b : s[i] \in set
  OBVIOUS
<1>o. \A x \in set : \E i \in (a + 1) .. b : x = s[i]
  OBVIOUS
<1> HIDE DEF set
<1>1. k \in Seq(S)
  BY KeptElements
<1>2. PICK from \in [1 .. Len(k) -> 1 .. Len(s)] :
        /\ \A i, j \in DOMAIN from : i < j => from[i] < from[j]
        /\ \A i \in DOMAIN from : k[i] = s[from[i]] /\ s[from[i]] \in set
  BY KeptElements
<1>3. \A j \in 1 .. Len(s) : s[j] \in set => \E i \in 1 .. Len(k) : k[i] = s[j]
  <2>1. DOMAIN s = 1 .. Len(s) /\ DOMAIN k = 1 .. Len(k)
    BY <1>1, LenProperties
  <2>2. Range(k) = Range(s) \cap set
    BY KeptRange
  <2> HIDE DEF k
  <2>3. QED
    BY <2>1, <2>2 DEF Range
<1>4. /\ DOMAIN k = 1 .. Len(k) /\ DOMAIN s = 1 .. Len(s)
      /\ Len(k) \in Nat /\ Len(s) \in Nat
  BY <1>1, LenProperties
<1> HIDE DEF k
<1>5. \A q \in 1 .. Len(k) : from[q] \in (a + 1) .. b
  <2>1. ASSUME NEW q \in 1 .. Len(k) PROVE from[q] \in (a + 1) .. b
    <3>1. PICK i \in (a + 1) .. b : s[from[q]] = s[i]
      BY <1>o, <1>2
    <3>2. i \in DOMAIN s /\ from[q] \in DOMAIN s
      BY <1>2, <1>4
    <3>3. QED
      BY <3>1, <3>2 DEF IsInjective
  <2>2. QED
    BY <2>1
<1>6. ASSUME NEW i \in (a + 1) .. b PROVE \E q \in 1 .. Len(k) : from[q] = i
  <2>1. i \in 1 .. Len(s) /\ s[i] \in set
    BY <1>0, <1>4
  <2>2. PICK q \in 1 .. Len(k) : k[q] = s[i]
    BY <1>3, <2>1
  <2>3. s[from[q]] = s[i] /\ from[q] \in DOMAIN s
    BY <1>2, <1>4, <2>2
  <2>4. QED
    BY <1>4, <2>1, <2>3 DEF IsInjective
<1> DEFINE Off == {q \in 1 .. Len(k) : from[q] # a + q}
<1>7. Off = {}
  <2> SUFFICES ASSUME Off # {} PROVE FALSE
    OBVIOUS
  <2>1. Off \in SUBSET Nat
    BY <1>4
  <2>2. PICK q \in Off : \A r \in Off : q <= r
    BY <2>1, HasLeast
  <2>3. q \in 1 .. Len(k) /\ from[q] # a + q
    OBVIOUS
  <2>4. \A r \in 1 .. (q - 1) : from[r] = a + r
    <3>1. ASSUME NEW r \in 1 .. (q - 1) PROVE from[r] = a + r
      <4>1. r \in 1 .. Len(k) /\ ~(q <= r)
        BY <1>4, <2>3
      <4>2. QED
        BY <2>2, <4>1
    <3>2. QED
      BY <3>1
  <2>5. from[q] > a + q
    <3>1. CASE q = 1
      BY <1>5, <2>3, <3>1
    <3>2. CASE q # 1
      <4>1. q - 1 \in 1 .. (q - 1) /\ q - 1 \in 1 .. Len(k) /\ q - 1 < q
        BY <1>4, <2>3, <3>2
      <4>2. from[q - 1] = a + (q - 1) /\ from[q - 1] < from[q]
        BY <1>2, <2>3, <2>4, <4>1
      <4>3. from[q] \in Int /\ q \in Int
        BY <1>5, <2>3
      <4>4. a + (q - 1) < from[q]
        BY <4>2
      <4>5. QED
        BY <2>3, <4>3, <4>4
    <3>3. QED
      BY <3>1, <3>2
  <2>6. a + q \in (a + 1) .. b
    BY <1>5, <2>3, <2>5
  <2>7. PICK r \in 1 .. Len(k) : from[r] = a + q
    BY <1>6, <2>6
  <2>8. CASE r < q
    <3>1. r \in 1 .. (q - 1)
      BY <2>3, <2>8
    <3>2. from[r] = a + r
      BY <2>4, <3>1
    <3>3. QED
      BY <2>3, <2>7, <2>8, <3>2
  <2>9. CASE r = q
    BY <2>3, <2>7, <2>9
  <2>10. CASE q < r
    <3>1. from[q] < from[r]
      BY <1>2, <2>3, <2>10
    <3>2. from[q] \in Int
      BY <1>5, <2>3
    <3>3. QED
      BY <2>3, <2>5, <2>7, <3>1, <3>2
  <2>11. r \in Int /\ q \in Int
    BY <2>3
  <2>12. QED
    BY <2>8, <2>9, <2>10, <2>11
<1>8. \A q \in 1 .. Len(k) : from[q] = a + q /\ a + q <= b
  BY <1>5, <1>7
<1>9. Len(k) = b - a
  <2>1. Len(k) <= b - a
    BY <1>4, <1>8
  <2>2. CASE a = b
    BY <1>4, <2>1, <2>2
  <2>3. CASE a # b
    <3>1. b \in (a + 1) .. b
      BY <2>3
    <3>2. PICK q \in 1 .. Len(k) : from[q] = b
      BY <1>6, <3>1
    <3>3. b = a + q
      BY <1>8, <3>2
    <3>4. q <= Len(k) /\ q \in Int /\ Len(k) \in Int /\ b - a = q
      BY <1>4, <3>3
    <3>5. QED
      BY <2>1, <3>4
  <2>4. QED
    BY <2>2, <2>3
<1>10. /\ SubSeq(s, a + 1, b) \in Seq(S) /\ Len(SubSeq(s, a + 1, b)) = b - a
       /\ \A q \in 1 .. (b - a) : SubSeq(s, a + 1, b)[q] = s[a + q]
  <2>1. \A i \in (a + 1) .. b : s[i] \in S
    <3>1. ASSUME NEW i \in (a + 1) .. b PROVE s[i] \in S
      <4>1. i \in 1 .. Len(s)
        BY <1>4
      <4>2. QED
        BY <4>1, ElementOfSeq
    <3>2. QED
      BY <3>1
  <2>2. QED
    BY <1>4, <2>1
<1>11. \A q \in 1 .. Len(k) : k[q] = SubSeq(s, a + 1, b)[q]
  BY <1>2, <1>8, <1>9, <1>10
<1>12. k = SubSeq(s, a + 1, b)
  BY <1>1, <1>9, <1>10, <1>11, SeqEqual
<1>13. QED
  BY <1>12 DEF k, set

-----------------------------------------------------------------------------
(* Lists in pages, of a positive size.                                     *)

(* What integer division by a positive number is.                          *)
LEMMA Division ==
  ASSUME NEW n \in Int, NEW d \in Nat, d > 0
  PROVE  /\ n \div d \in Int
         /\ d * (n \div d) <= n
         /\ n < d * (n \div d) + d
OBVIOUS

(* A product grows with its factor.                                        *)
LEMMA Monotone ==
  ASSUME NEW a \in Int, NEW b \in Int, NEW d \in Nat, a <= b
  PROVE  a * d <= b * d
OBVIOUS

(* The pages of a list are as many as it takes, and the last is not empty. *)
LEMMA PageCount ==
  ASSUME NEW items \in Nat, NEW perPage \in Nat, perPage > 0
  PROVE  LET count == getPageCount(items, perPage)
         IN  /\ count \in Nat
             /\ items <= count * perPage
             /\ items > 0 => count >= 1 /\ (count - 1) * perPage < items
<1> DEFINE count == (items + perPage - 1) \div perPage
<1>1. getPageCount(items, perPage) = count
  BY DEF getPageCount
<1>2. /\ count \in Int
      /\ perPage * count <= items + perPage - 1
      /\ items + perPage - 1 < perPage * count + perPage
  BY Division
<1> HIDE DEF count
<1>3. /\ perPage * count = count * perPage
      /\ (count - 1) * perPage = count * perPage - perPage
      /\ (count - 1) * perPage \in Int /\ count * perPage \in Int
  BY <1>2
<1>4. items <= count * perPage /\ (items > 0 => (count - 1) * perPage < items)
  BY <1>2, <1>3
<1>5. count >= 0
  <2>1. SUFFICES ASSUME count <= -1 PROVE FALSE
    BY <1>2
  <2>2. count * perPage <= (-1) * perPage
    BY <1>2, <2>1, Monotone
  <2> QED BY <1>3, <1>4, <2>2
<1>6. items > 0 => count # 0
  BY <1>3, <1>4
<1> QED BY <1>1, <1>2, <1>4, <1>5, <1>6

(* web/pagination.go:77-79, web/hosts.go:71: whatever page is asked for, a *)
(* list is never sliced outside of its bounds.                             *)
THEOREM SliceInBounds ==
  ASSUME NEW items \in Nat, NEW page \in Int, NEW perPage \in Nat, perPage > 0
  PROVE  ~SliceFails(items, page, perPage)
<1> DEFINE count == getPageCount(items, perPage)
           index == PageIndex(items, page, perPage)
<1>1. /\ count \in Nat
      /\ items <= count * perPage
      /\ items > 0 => count >= 1 /\ (count - 1) * perPage < items
  BY PageCount
<1> HIDE DEF count
<1>2. index \in Int /\ index >= 1 /\ (items = 0 => index = 1) /\ (items > 0 => index <= count)
  BY <1>1 DEF PageIndex, count
<1> HIDE DEF index
<1>3. /\ index * perPage \in Int /\ (index - 1) * perPage \in Int
      /\ index * perPage = (index - 1) * perPage + perPage
  BY <1>2
<1>4. 0 <= (index - 1) * perPage
  <2>1. 0 * perPage <= (index - 1) * perPage
    BY <1>2, Monotone
  <2> QED BY <2>1
<1>5. (index - 1) * perPage <= items
  <2>1. CASE items = 0
    BY <1>2, <2>1
  <2>2. CASE items > 0
    <3>1. (index - 1) * perPage <= (count - 1) * perPage
      BY <1>1, <1>2, <2>2, Monotone
    <3> QED BY <1>1, <1>3, <2>2, <3>1
  <2> QED BY <2>1, <2>2
<1>6. /\ 0 <= FirstElem(index, perPage)
      /\ FirstElem(index, perPage) <= LastElem(items, index, perPage)
      /\ LastElem(items, index, perPage) <= items
  BY <1>2, <1>3, <1>4, <1>5 DEF FirstElem, LastElem, Least
<1> QED BY <1>6 DEF SliceFails, index

(* web/pagination.go:25-79: each page with a link is shown as asked, and   *)
(* every element of a list is on exactly one of them.                      *)
THEOREM EveryElementOnOnePage ==
  ASSUME NEW items \in Nat, NEW perPage \in Nat, perPage > 0, NEW i \in 1 .. items
  PROVE  /\ \E p \in 1 .. getPageCount(items, perPage) :
              FirstElem(p, perPage) < i /\ i <= LastElem(items, p, perPage)
         /\ \A p, q \in 1 .. getPageCount(items, perPage) :
              /\ FirstElem(p, perPage) < i /\ i <= LastElem(items, p, perPage)
              /\ FirstElem(q, perPage) < i /\ i <= LastElem(items, q, perPage)
              => p = q
         /\ \A p \in 1 .. getPageCount(items, perPage) : PageIndex(items, p, perPage) = p
<1> DEFINE count == getPageCount(items, perPage)
           page == (i - 1) \div perPage
<1>1. /\ count \in Nat /\ items <= count * perPage /\ items > 0
  BY PageCount
<1>2. page \in Int /\ perPage * page <= i - 1 /\ i - 1 < perPage * page + perPage
  BY Division
<1> HIDE DEF count, page
<1>3. \E p \in 1 .. count : FirstElem(p, perPage) < i /\ i <= LastElem(items, p, perPage)
  <2>1. /\ perPage * page = page * perPage /\ page * perPage \in Int
        /\ (page + 1) * perPage = page * perPage + perPage
        /\ (page + 1 - 1) * perPage = page * perPage
    BY <1>2
  <2>2. page >= 0
    <3>1. SUFFICES ASSUME page <= -1 PROVE FALSE
      BY <1>2
    <3>2. page * perPage <= (-1) * perPage
      BY <1>2, <3>1, Monotone
    <3> QED BY <1>2, <2>1, <3>2
  <2>3. page + 1 <= count
    <3>1. SUFFICES ASSUME count <= page PROVE FALSE
      BY <1>1, <1>2
    <3>2. count * perPage <= page * perPage
      BY <1>1, <1>2, <3>1, Monotone
    <3>3. count * perPage \in Int
      BY <1>1
    <3> QED BY <1>1, <1>2, <2>1, <3>2, <3>3
  <2>4. /\ page + 1 \in 1 .. count
        /\ FirstElem(page + 1, perPage) < i /\ i <= LastElem(items, page + 1, perPage)
    BY <1>1, <1>2, <2>1, <2>2, <2>3 DEF FirstElem, LastElem, Least
  <2> QED BY <2>4
<1>4. ASSUME NEW p \in 1 .. count, NEW q \in 1 .. count, p < q,
             i <= LastElem(items, p, perPage), FirstElem(q, perPage) < i
      PROVE  FALSE
  <2>1. p * perPage <= (q - 1) * perPage
    BY <1>1, <1>4, Monotone
  <2>2. p * perPage \in Int /\ (q - 1) * perPage \in Int
    BY <1>1
  <2> QED BY <1>4, <2>1, <2>2 DEF FirstElem, LastElem, Least
<1>5. \A p \in 1 .. count : PageIndex(items, p, perPage) = p
  BY <1>1 DEF PageIndex, count
<1> QED BY <1>1, <1>3, <1>4, <1>5 DEF count

(* The page an element is on.                                              *)
LEMMA PageOf ==
  ASSUME NEW i \in Nat, i >= 1, NEW size \in Nat, size > 0
  PROVE  /\ ((i - 1) \div size) + 1 \in Int /\ ((i - 1) \div size) + 1 >= 1
         /\ \A p \in Int : ((i - 1) \div size) + 1 = p <=> (p - 1) * size < i /\ i <= p * size
<1> DEFINE q == (i - 1) \div size
<1>1. q \in Int /\ size * q <= i - 1 /\ i - 1 < size * q + size
  BY Division
<1> HIDE DEF q
<1>2. /\ size * q = q * size /\ q * size \in Int /\ (q + 1) * size = q * size + size
      /\ (q + 1 - 1) * size = q * size /\ (q + 1) * size \in Int
  BY <1>1
<1>3. q * size < i /\ i <= (q + 1) * size
  BY <1>1, <1>2
<1>4. q >= 0
  <2>1. SUFFICES ASSUME q <= -1 PROVE FALSE
    BY <1>1
  <2>2. q * size <= (-1) * size
    BY <1>1, <2>1, Monotone
  <2>3. QED
    BY <1>1, <1>2, <2>2
<1>5. ASSUME NEW p \in Int, (p - 1) * size < i, i <= p * size PROVE q + 1 = p
  <2>1. p * size \in Int /\ (p - 1) * size \in Int
    OBVIOUS
  <2>2. CASE p <= q
    <3>1. p * size <= q * size
      BY <1>1, <2>2, Monotone
    <3>2. QED
      BY <1>2, <1>3, <1>5, <2>1, <3>1
  <2>3. CASE p - 1 >= q + 1
    <3>1. (q + 1) * size <= (p - 1) * size
      BY <1>1, <2>3, Monotone
    <3>2. QED
      BY <1>2, <1>3, <1>5, <2>1, <3>1
  <2>4. QED
    BY <1>1, <2>2, <2>3
<1>6. QED
  <2>1. q + 1 \in Int /\ q + 1 >= 1
    BY <1>1, <1>4
  <2>2. ASSUME NEW p \in Int PROVE q + 1 = p <=> (p - 1) * size < i /\ i <= p * size
    <3>1. q + 1 = p => (p - 1) * size < i /\ i <= p * size
      BY <1>2, <1>3
    <3>2. QED
      BY <1>5, <3>1
  <2>3. QED
    BY <2>1, <2>2 DEF q

(* A page that is cut has every element that belongs on it, in its order.  *)
LEMMA PageShown ==
  ASSUME NEW S, NEW s \in Seq(S), IsInjective(s), NEW page \in Int, NEW size \in Nat, size > 0
  PROVE  LET pageOf(i) == ((i - 1) \div size) + 1
             lastPage == IF s = <<>> THEN 1 ELSE pageOf(Len(s))
             marked == IF page < 1 THEN 1 ELSE Least(page, lastPage)
         IN  /\ Slice(s, page, size) = Kept(s, {s[i] : i \in {j \in DOMAIN s : pageOf(j) = marked}})
             /\ s # <<>> => marked \in GetCurrentPages(Len(s), marked, size)
<1> DEFINE pageOf(i) == ((i - 1) \div size) + 1
           lastPage == IF s = <<>> THEN 1 ELSE pageOf(Len(s))
           marked == IF page < 1 THEN 1 ELSE Least(page, lastPage)
           n == Len(s)
           count == getPageCount(n, size)
           index == PageIndex(n, page, size)
           a == FirstElem(index, size)
           b == LastElem(n, index, size)
<1>1. n \in Nat /\ DOMAIN s = 1 .. n /\ (s = <<>> <=> n = 0)
  BY LenProperties, EmptySeq
<1>2. /\ count \in Nat /\ n <= count * size /\ count * size \in Int /\ (count - 1) * size \in Int
      /\ n > 0 => count >= 1 /\ (count - 1) * size < n
  <2>1. /\ count \in Nat /\ n <= count * size
        /\ n > 0 => count >= 1 /\ (count - 1) * size < n
    BY <1>1, PageCount
  <2> HIDE DEF count
  <2>2. count * size \in Int /\ (count - 1) * size \in Int
    BY <2>1
  <2>3. QED
    BY <2>1, <2>2
<1>3. \A i \in 1 .. n : /\ pageOf(i) \in Int /\ pageOf(i) >= 1
                        /\ \A p \in Int : pageOf(i) = p <=> (p - 1) * size < i /\ i <= p * size
  BY <1>1, PageOf
<1> HIDE DEF pageOf, count
<1>4. n > 0 => pageOf(n) = count
  <2>1. SUFFICES ASSUME n > 0 PROVE pageOf(n) = count
    OBVIOUS
  <2>2. n \in 1 .. n /\ count \in Int
    BY <1>1, <1>2, <2>1
  <2>3. (count - 1) * size < n /\ n <= count * size
    BY <1>2, <2>1
  <2>4. QED
    BY <1>3, <2>2, <2>3
<1>5. /\ index = marked /\ index \in Int /\ index >= 1 /\ (n > 0 => index <= count)
  BY <1>1, <1>2, <1>4 DEF PageIndex, Least, count
<1>6. a = (index - 1) * size /\ b = Least(n, index * size) /\ a \in Int /\ index * size \in Int
  BY <1>5 DEF FirstElem, LastElem
<1>7. 0 <= a /\ a <= b /\ b <= n
  BY <1>1, SliceInBounds DEF SliceFails
<1> HIDE DEF index, a, b
<1>8. b \in Int
  BY <1>1, <1>6 DEF Least
<1>9. \A j \in 1 .. n : pageOf(j) = index <=> a < j /\ j <= index * size
  BY <1>3, <1>5, <1>6
<1>10. \A j \in 1 .. n : j <= index * size <=> j <= b
  BY <1>1, <1>6 DEF Least
<1>11. a \in Nat /\ b \in Nat
  BY <1>6, <1>7, <1>8
<1>12. {j \in DOMAIN s : pageOf(j) = index} = (a + 1) .. b
  <2>1. ASSUME NEW j PROVE j \in (a + 1) .. b <=> j \in 1 .. n /\ a < j /\ j <= b
    BY <1>1, <1>7, <1>11
  <2>2. \A j : j \in DOMAIN s /\ pageOf(j) = index <=> j \in (a + 1) .. b
    BY <1>1, <1>9, <1>10, <2>1
  <2>3. QED
    BY <2>2
<1>13. Kept(s, {s[i] : i \in (a + 1) .. b}) = SubSeq(s, a + 1, b)
  BY <1>7, <1>11, KeptInterval DEF n
<1>14. Slice(s, page, size) = SubSeq(s, a + 1, b)
  BY DEF Slice, a, b, index
<1>15. Slice(s, page, size) = Kept(s, {s[i] : i \in {j \in DOMAIN s : pageOf(j) = index}})
  BY <1>12, <1>13, <1>14
<1>16. n > 0 => index \in GetCurrentPages(n, index, size)
  <2>1. SUFFICES ASSUME n > 0 PROVE index \in GetCurrentPages(n, index, size)
    OBVIOUS
  <2>2. index \in 1 .. count /\ index >= index - 2 /\ index <= index + 2
    BY <1>2, <1>5, <2>1
  <2>3. QED
    BY <2>2 DEF GetCurrentPages, count
<1>17. s # <<>> => n > 0
  BY <1>1
<1>18. marked = index
  BY <1>5
<1> HIDE DEF marked
<1>19. Slice(s, page, size) = Kept(s, {s[i] : i \in {j \in DOMAIN s : pageOf(j) = marked}})
  BY <1>15, <1>18
<1>20. s # <<>> => marked \in GetCurrentPages(n, marked, size)
  BY <1>16, <1>17, <1>18
<1>21. QED
  BY <1>19, <1>20 DEF marked, pageOf, n

(* A slice, wherever it begins and ends.                                   *)
LEMMA Sliced ==
  ASSUME NEW S, NEW s \in Seq(S), NEW m \in Nat \ {0}, NEW n \in Nat, n <= Len(s)
  PROVE  /\ SubSeq(s, m, n) \in Seq(S)
         /\ Len(SubSeq(s, m, n)) = IF m <= n THEN n - m + 1 ELSE 0
         /\ \A q \in 1 .. Len(SubSeq(s, m, n)) :
              SubSeq(s, m, n)[q] = s[m + q - 1] /\ m + q - 1 \in 1 .. Len(s)
<1>1. Len(s) \in Nat /\ \A i \in 1 .. Len(s) : s[i] \in S
  BY LenProperties, ElementOfSeq
<1>2. CASE m <= n
  <2>1. \A i \in m .. n : s[i] \in S
    BY <1>1
  <2>2. /\ SubSeq(s, m, n) \in Seq(S) /\ Len(SubSeq(s, m, n)) = n - m + 1
        /\ \A q \in 1 .. (n - m + 1) : SubSeq(s, m, n)[q] = s[m + q - 1]
    BY <1>2, <2>1
  <2>3. \A q \in 1 .. (n - m + 1) : m + q - 1 \in 1 .. Len(s)
    BY <1>1
  <2>4. QED
    BY <1>2, <2>2, <2>3
<1>3. CASE ~(m <= n)
  <2>1. SubSeq(s, m, n) = <<>>
    BY <1>3
  <2>2. QED
    BY <1>3, <2>1
<1>4. QED
  BY <1>2, <1>3

(* A page of a query has the elements of its window, once and in order.    *)
LEMMA PaginateElements ==
  ASSUME NEW S, NEW r \in Seq(S), NEW page \in Int, NEW size \in Int
  PROVE  /\ Offset(page, size) \in Nat /\ Paginate(r, page, size) \in Seq(S)
         /\ \A q \in 1 .. Len(Paginate(r, page, size)) :
              /\ Offset(page, size) + q \in 1 .. Len(r)
              /\ Paginate(r, page, size)[q] = r[Offset(page, size) + q]
         /\ \A p \in 1 .. Len(r) :
              Offset(page, size) < p /\ (size > 0 => p <= Offset(page, size) + size) =>
                \E q \in 1 .. Len(Paginate(r, page, size)) : Paginate(r, page, size)[q] = r[p]
<1> DEFINE o == Offset(page, size)
           rest == SubSeq(r, o + 1, Len(r))
           p == Paginate(r, page, size)
<1>1. o \in Nat
  <2>1. ASSUME NEW k \in Int PROVE (IF k > 0 THEN k ELSE 0) \in Nat
    OBVIOUS
  <2>2. (page - 1) * size \in Int /\ (1 - 1) * size \in Int
    OBVIOUS
  <2>3. QED
    BY <2>1, <2>2 DEF Offset
<1>2. p = IF size > 0 THEN SubSeq(rest, 1, Least(size, Len(rest))) ELSE rest
  BY DEF Paginate
<1> HIDE DEF o, p
<1>3. Len(r) \in Nat
  BY LenProperties
<1>4. /\ rest \in Seq(S) /\ Len(rest) = IF o + 1 <= Len(r) THEN Len(r) - (o + 1) + 1 ELSE 0
      /\ \A q \in 1 .. Len(rest) : rest[q] = r[o + 1 + q - 1] /\ o + 1 + q - 1 \in 1 .. Len(r)
  BY <1>1, <1>3, Sliced
<1>5. /\ Len(rest) \in Nat
      /\ \A q \in 1 .. Len(rest) : rest[q] = r[o + q] /\ o + q \in 1 .. Len(r)
  <2>1. Len(rest) \in Nat
    BY <1>1, <1>3, <1>4
  <2>2. \A q \in 1 .. Len(rest) : o + 1 + q - 1 = o + q
    BY <1>1, <2>1
  <2>3. QED
    BY <1>4, <2>1, <2>2
<1>6. \A i \in 1 .. Len(r) : o < i => i - o \in 1 .. Len(rest) /\ rest[i - o] = r[i]
  <2>1. ASSUME NEW i \in 1 .. Len(r), o < i
        PROVE  i - o \in 1 .. Len(rest) /\ o + (i - o) = i
    BY <1>1, <1>3, <1>4, <2>1
  <2>2. QED
    BY <1>5, <2>1
<1> HIDE DEF rest
<1>7. CASE ~(size > 0)
  <2>1. p = rest
    BY <1>2, <1>7
  <2>2. QED
    BY <1>1, <1>4, <1>5, <1>6, <1>7, <2>1 DEF p, o
<1>8. CASE size > 0
  <2> DEFINE l == Least(size, Len(rest))
  <2>1. l \in Nat /\ l <= Len(rest) /\ (l = size \/ l = Len(rest)) /\ l <= size
    BY <1>5, <1>8 DEF Least
  <2>2. p = SubSeq(rest, 1, l)
    BY <1>2, <1>8
  <2> HIDE DEF l
  <2>3. /\ p \in Seq(S) /\ Len(p) = IF 1 <= l THEN l - 1 + 1 ELSE 0
        /\ \A q \in 1 .. Len(p) : p[q] = rest[1 + q - 1] /\ 1 + q - 1 \in 1 .. Len(rest)
    BY <1>4, <2>1, <2>2, Sliced
  <2>4. Len(p) = l
    BY <2>1, <2>3
  <2>5. \A q \in 1 .. Len(p) : p[q] = rest[q] /\ q \in 1 .. Len(rest)
    <3>1. \A q \in 1 .. Len(p) : 1 + q - 1 = q
      BY <2>1, <2>4
    <3>2. QED
      BY <2>3, <3>1
  <2>6. ASSUME NEW i \in 1 .. Len(r), o < i, i <= o + size
        PROVE  \E q \in 1 .. Len(p) : p[q] = r[i]
    <3>1. i - o \in 1 .. Len(rest) /\ rest[i - o] = r[i]
      BY <1>6, <2>6
    <3>2. i - o <= size
      BY <1>1, <1>3, <2>6
    <3>3. i - o \in 1 .. l
      BY <1>1, <1>5, <2>1, <3>1, <3>2
    <3>4. QED
      BY <2>4, <2>5, <3>1, <3>3
  <2>7. QED
    BY <1>1, <1>5, <1>8, <2>3, <2>5, <2>6 DEF p, o
<1>9. QED
  BY <1>7, <1>8

(* So it is part of the list, repeats nothing the list does not, and is    *)
(* empty when the list ends before the window.                             *)
LEMMA PaginateRange ==
  ASSUME NEW S, NEW r \in Seq(S), NEW page \in Int, NEW size \in Int
  PROVE  /\ Range(Paginate(r, page, size)) \subseteq Range(r)
         /\ IsInjective(r) => IsInjective(Paginate(r, page, size))
         /\ Paginate(r, page, size) # <<>> => Offset(page, size) < Len(r)
<1> DEFINE p == Paginate(r, page, size)
           o == Offset(page, size)
<1>1. /\ o \in Nat /\ p \in Seq(S)
      /\ \A q \in 1 .. Len(p) : o + q \in 1 .. Len(r) /\ p[q] = r[o + q]
  BY PaginateElements
<1> HIDE DEF p, o
<1>2. /\ Len(p) \in Nat /\ Len(r) \in Nat
      /\ DOMAIN p = 1 .. Len(p) /\ DOMAIN r = 1 .. Len(r)
  BY <1>1, LenProperties
<1>3. Range(p) \subseteq Range(r)
  BY <1>1, <1>2 DEF Range
<1>4. ASSUME IsInjective(r) PROVE IsInjective(p)
  <2>1. ASSUME NEW q \in 1 .. Len(p), NEW t \in 1 .. Len(p), p[q] = p[t] PROVE q = t
    <3>1. o + q = o + t
      BY <1>1, <1>2, <1>4, <2>1 DEF IsInjective
    <3>2. QED
      BY <1>1, <1>2, <3>1
  <2>2. QED
    BY <1>2, <2>1 DEF IsInjective
<1>5. ASSUME p # <<>> PROVE o < Len(r)
  <2>1. 1 \in 1 .. Len(p)
    BY <1>1, <1>2, <1>5, EmptySeq
  <2>2. o + 1 \in 1 .. Len(r)
    BY <1>1, <2>1
  <2>3. QED
    BY <1>1, <1>2, <2>2
<1>6. QED
  BY <1>3, <1>4, <1>5 DEF p, o

=============================================================================
