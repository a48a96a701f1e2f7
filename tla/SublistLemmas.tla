---------------------------- MODULE SublistLemmas ----------------------------
(***************************************************************************)
(* What Keep returns, by induction on the prefix it has looked at: each     *)
(* element of the list that is in the set, none twice if none was twice in  *)
(* the list.  The library's induction theorems take an operator; these take *)
(* a set, and rest on the well-foundedness of the natural numbers.         *)
(***************************************************************************)
EXTENDS Sublists, WellFoundedInduction, TLAPS

(* A set of natural numbers has a least element. *)
LEMMA Least ==
    ASSUME NEW T, T \subseteq Nat, T # {}
    PROVE  \E x \in T : \A y \in T : x <= y
<1> DEFINE R == OpToRel(<, Nat)
<1>1. IsWellFoundedOn(R, Nat)
  BY NatLessThanWellFounded, Zenon
<1>2. \A x, y \in Nat : <<x, y>> \in R <=> x < y
  BY DEF OpToRel
<1> HIDE DEF R
<1>3. PICK x \in T : \A y \in T : ~ (<<y, x>> \in R)
  BY <1>1, WFMin, Zenon
<1>4. \A y \in T : ~ (y < x)
  BY <1>2, <1>3, Zenon
<1> QED
  BY <1>4, SMT

(* Induction up to n: a set that holds 0 and, with each number below n, its  *)
(* successor.                                                              *)
LEMMA Climb ==
    ASSUME NEW n \in Nat, NEW P, 0 \in P, \A i \in 1 .. n : i - 1 \in P => i \in P
    PROVE  0 .. n \subseteq P
<1> SUFFICES ASSUME (0 .. n) \ P # {}
             PROVE  FALSE
  BY Zenon
<1>1. PICK m \in (0 .. n) \ P : \A y \in (0 .. n) \ P : m <= y
  <2>1. (0 .. n) \ P \subseteq Nat
    BY SMT
  <2> QED
    BY <2>1, Least, Zenon
<1>2. m \in 1 .. n /\ m - 1 \in 0 .. n
  BY <1>1, SMT
<1>3. m - 1 \in P
  BY <1>1, <1>2, SMT
<1> QED
  BY <1>1, <1>2, <1>3, Zenon

(* One step of the filter, and a function g that takes n of them. *)
FilterStep(s, T, g, i) ==
    IF i = 0 THEN <<>> ELSE IF s[i] \in T THEN Append(g[i - 1], s[i]) ELSE g[i - 1]
Filters(s, T, g, n) == g = [i \in 0 .. n |-> FilterStep(s, T, g, i)]

(* The recursive definition has a solution. *)
LEMMA FilterExists ==
    ASSUME NEW s, NEW T, NEW len \in Nat
    PROVE  \E g : Filters(s, T, g, len)
<1> DEFINE P == {n \in 0 .. len : \E g : Filters(s, T, g, n)}
<1>1. 0 \in P
  <2> DEFINE g == [i \in 0 .. 0 |-> <<>>]
  <2>1. g = [i \in 0 .. 0 |-> FilterStep(s, T, g, i)]
    BY SMT DEF FilterStep
  <2>2. 0 \in 0 .. len
    BY SMT
  <2> QED
    BY <2>1, <2>2, Zenon DEF Filters
<1>2. ASSUME NEW n \in 1 .. len, n - 1 \in P
      PROVE  n \in P
  <2>1. PICK g : Filters(s, T, g, n - 1)
    BY <1>2, Zenon
  <2> DEFINE h == [i \in 0 .. n |-> IF i = n THEN FilterStep(s, T, g, n) ELSE g[i]]
  <2>2. n \in 0 .. len /\ (\A i \in 0 .. n - 1 : i \in 0 .. n /\ i # n)
        /\ \A i \in 0 .. n : (i # n => i \in 0 .. n - 1) /\ (i # 0 => i - 1 \in 0 .. n - 1)
    BY SMT
  <2>3. \A i \in 0 .. n - 1 : h[i] = g[i] /\ g[i] = FilterStep(s, T, g, i)
    BY <2>1, <2>2, Zenon DEF Filters
  <2>4. \A i \in 0 .. n : h[i] = FilterStep(s, T, g, i)
    BY <2>2, <2>3, Zenon
  <2>5. h = [i \in 0 .. n |-> h[i]]
    BY Zenon
  <2> HIDE DEF h
  <2>6. \A i \in 0 .. n : FilterStep(s, T, h, i) = FilterStep(s, T, g, i)
    BY <2>2, <2>3, Zenon DEF FilterStep
  <2>7. Filters(s, T, h, n)
    BY <2>4, <2>5, <2>6, Zenon DEF Filters
  <2> QED
    BY <2>2, <2>7, Zenon
<1> HIDE DEF P
<1>3. 0 .. len \subseteq P
  BY <1>1, <1>2, Climb, Zenon
<1>4. len \in P
  BY <1>3, SMT
<1> QED
  BY <1>4, Zenon DEF P

(* ... which is what Keep is defined by. *)
LEMMA KeepUnfold ==
    ASSUME NEW S, NEW s \in Seq(S), NEW T
    PROVE  \E g : Filters(s, T, g, Len(s)) /\ Keep(s, T) = g[Len(s)]
<1>1. PICK g : Filters(s, T, g, Len(s))
  <2> Len(s) \in Nat
    BY SMT
  <2> QED
    BY FilterExists, Zenon
<1> QED
  BY <1>1, Zenon DEF Keep, Filters, FilterStep

(* Keep(s, T) holds the elements of s that are in T, none of them twice unless *)
(* it is twice in s.                                                       *)
LEMMA KeepFacts ==
    ASSUME NEW S, NEW s \in Seq(S), NEW T
    PROVE  /\ Keep(s, T) \in Seq(S)
           /\ Elements(Keep(s, T)) = Elements(s) \cap T
           /\ Distinct(s) => Distinct(Keep(s, T))
<1>1. PICK g : Filters(s, T, g, Len(s)) /\ Keep(s, T) = g[Len(s)]
  BY KeepUnfold, Zenon
<1>2. Len(s) \in Nat
  BY SMT
<1> DEFINE Ok(n) == /\ g[n] \in Seq(S)
                    /\ \A x : x \in Elements(g[n]) <=> x \in T /\ \E j \in 1 .. n : s[j] = x
                    /\ Distinct(s) => Distinct(g[n])
           P == {n \in 0 .. Len(s) : Ok(n)}
<1>3. \A i \in 0 .. Len(s) : g[i] = IF i = 0 THEN <<>>
            ELSE IF s[i] \in T THEN Append(g[i - 1], s[i]) ELSE g[i - 1]
  BY <1>1, Zenon DEF Filters, FilterStep
<1>4. 0 \in P
  <2>1. g[0] = <<>> /\ 0 \in 0 .. Len(s)
    BY <1>2, <1>3, SMT
  <2>2. Ok(0)
    BY <2>1, SMT DEF Elements, Distinct
  <2> QED
    BY <2>1, <2>2, Zenon
<1>5. ASSUME NEW n \in 1 .. Len(s), n - 1 \in P
      PROVE  n \in P
  <2>1. n \in 0 .. Len(s) /\ n \in Nat /\ n - 1 \in 0 .. Len(s) /\ n # 0 /\ s[n] \in S
    BY <1>2, SMT
  <2>2. Ok(n - 1)
    BY <1>5, Zenon
  <2> HIDE DEF P
  <2>3. CASE s[n] \notin T
    <3>1. g[n] = g[n - 1]
      BY <1>3, <2>1, <2>3, Zenon
    <3>2. Ok(n)
      BY <2>1, <2>2, <2>3, <3>1, SMT
    <3> QED BY <2>1, <3>2, Zenon DEF P
  <2>4. CASE s[n] \in T
    <3>1. g[n] = Append(g[n - 1], s[n])
      BY <1>3, <2>1, <2>4, Zenon
    <3> DEFINE old == g[n - 1]
               new == Append(old, s[n])
    <3>2. old \in Seq(S)
      BY <2>2, Zenon
    <3> HIDE DEF old
    <3>3. /\ new \in Seq(S) /\ Len(new) = Len(old) + 1 /\ Len(old) \in Nat
          /\ \A i \in 1 .. Len(old) : new[i] = old[i]
          /\ new[Len(old) + 1] = s[n]
      BY <2>1, <3>2, SMT
    <3> HIDE DEF new
    <3>4. Elements(new) = Elements(old) \cup {s[n]}
      BY <3>3, SMT DEF Elements
    <3>5. \A x : x \in Elements(new) <=> x \in T /\ \E j \in 1 .. n : s[j] = x
      <4>1. \A x : x \in Elements(old) <=> x \in T /\ \E j \in 1 .. n - 1 : s[j] = x
        BY <2>2, Zenon DEF old
      <4>2. \A x : (\E j \in 1 .. n : s[j] = x) <=> x = s[n] \/ \E j \in 1 .. n - 1 : s[j] = x
        BY <2>1, SMT
      <4> QED
        BY <2>4, <3>4, <4>1, <4>2, Zenon
    <3>6. ASSUME Distinct(s) PROVE Distinct(new)
      <4>1. Distinct(old)
        BY <2>2, <3>6, Zenon DEF old
      <4>2. s[n] \notin Elements(old)
        <5> SUFFICES ASSUME s[n] \in Elements(old) PROVE FALSE
          OBVIOUS
        <5>1. PICK j \in 1 .. n - 1 : s[j] = s[n]
          BY <2>2, Zenon DEF old
        <5> QED
          BY <1>2, <2>1, <3>6, <5>1, SMT DEF Distinct
      <4> QED
        BY <3>3, <4>1, <4>2, SMT DEF Distinct, Elements
    <3>7. Ok(n)
      BY <3>1, <3>3, <3>5, <3>6, Zenon DEF new, old
    <3> QED
      BY <2>1, <3>7, Zenon DEF P
  <2> QED
    BY <2>3, <2>4, Zenon
<1> HIDE DEF P
<1>6. Len(s) \in P
  <2>1. 0 .. Len(s) \subseteq P
    BY <1>2, <1>4, <1>5, Climb, Zenon
  <2> QED
    BY <1>2, <2>1, SMT
<1>7. Ok(Len(s))
  BY <1>6, Zenon DEF P
<1>8. \A x : x \in Elements(s) <=> \E j \in 1 .. Len(s) : s[j] = x
  BY Zenon DEF Elements
<1> QED
  BY <1>1, <1>7, <1>8, Zenon

LEMMA ElementsAreIn ==
    ASSUME NEW S, NEW s \in Seq(S)
    PROVE  Elements(s) \subseteq S
BY SMT DEF Elements

(* Joining two lists. *)
LEMMA JoinFacts ==
    ASSUME NEW S, NEW a \in Seq(S), NEW b \in Seq(S)
    PROVE  /\ a \o b \in Seq(S)
           /\ Elements(a \o b) = Elements(a) \cup Elements(b)
           /\ Distinct(a) /\ Distinct(b) /\ Elements(a) \cap Elements(b) = {} => Distinct(a \o b)
<1>1. /\ a \o b \in Seq(S) /\ Len(a) \in Nat /\ Len(b) \in Nat /\ Len(a \o b) = Len(a) + Len(b)
      /\ \A i \in 1 .. Len(a) : (a \o b)[i] = a[i]
      /\ \A i \in 1 .. Len(b) : (a \o b)[Len(a) + i] = b[i]
  BY SMT
<1>2. \A i \in 1 .. Len(a \o b) : i \in 1 .. Len(a) \/ (i - Len(a) \in 1 .. Len(b) /\ i = Len(a) + (i - Len(a)))
  BY SMT, <1>1
<1>3. \A i \in 1 .. Len(b) : Len(a) + i \in 1 .. Len(a \o b)
  BY SMT, <1>1
<1>4. \A i \in 1 .. Len(a) : i \in 1 .. Len(a \o b)
  BY SMT, <1>1
<1>5. Elements(a \o b) = Elements(a) \cup Elements(b)
  <2> DEFINE ab == a \o b
  <2>1. \A i \in 1 .. Len(ab) : ab[i] \in Elements(a) \cup Elements(b)
    <3> SUFFICES ASSUME NEW i \in 1 .. Len(ab) PROVE ab[i] \in Elements(a) \cup Elements(b)
      OBVIOUS
    <3>1. CASE i \in 1 .. Len(a)
      BY <1>1, <3>1, Zenon DEF Elements
    <3>2. CASE i - Len(a) \in 1 .. Len(b) /\ i = Len(a) + (i - Len(a))
      <4>1. ab[i] = b[i - Len(a)]
        BY <1>1, <3>2, Zenon
      <4> QED
        BY <3>2, <4>1, Zenon DEF Elements
    <3> QED
      BY <1>2, <3>1, <3>2, Zenon
  <2>2. \A x \in Elements(a) : x \in Elements(ab)
    BY <1>1, <1>4, Zenon DEF Elements
  <2>3. \A x \in Elements(b) : x \in Elements(ab)
    BY <1>1, <1>3, Zenon DEF Elements
  <2>4. \A x \in Elements(ab) : x \in Elements(a) \cup Elements(b)
    <3> HIDE DEF ab
    <3> QED
      BY <2>1, Zenon DEF Elements
  <2> QED
    BY <2>2, <2>3, <2>4, Zenon
<1>6. ASSUME Distinct(a), Distinct(b), Elements(a) \cap Elements(b) = {}
      PROVE  Distinct(a \o b)
  <2> SUFFICES ASSUME NEW i \in 1 .. Len(a \o b), NEW j \in 1 .. Len(a \o b),
                      (a \o b)[i] = (a \o b)[j]
               PROVE  i = j
    BY Zenon DEF Distinct
  <2>1. \A m \in 1 .. Len(a), n \in 1 .. Len(b) : a[m] # b[n]
    BY <1>6, Zenon DEF Elements
  <2> QED
    BY SMT, <1>1, <1>2, <1>6, <2>1 DEF Distinct
<1> QED
  BY <1>1, <1>5, <1>6, Zenon

(* Appending to a list. *)
LEMMA AppendFacts ==
    ASSUME NEW S, NEW s \in Seq(S), NEW x \in S
    PROVE  /\ Append(s, x) \in Seq(S)
           /\ Elements(Append(s, x)) = Elements(s) \cup {x}
           /\ Distinct(s) /\ x \notin Elements(s) => Distinct(Append(s, x))
<1>1. <<x>> \in Seq(S) /\ Append(s, x) = s \o <<x>>
  BY SMT
<1>2. Elements(<<x>>) = {x} /\ Distinct(<<x>>)
  BY SMT DEF Elements, Distinct
<1>3. /\ s \o <<x>> \in Seq(S)
      /\ Elements(s \o <<x>>) = Elements(s) \cup Elements(<<x>>)
      /\ Distinct(s) /\ Distinct(<<x>>) /\ Elements(s) \cap Elements(<<x>>) = {}
            => Distinct(s \o <<x>>)
  BY <1>1, JoinFacts, Zenon
<1>4. x \notin Elements(s) => Elements(s) \cap {x} = {}
  BY Zenon
<1> QED
  BY <1>1, <1>2, <1>3, <1>4, SMT

LEMMA TailFacts ==
    ASSUME NEW S, NEW s \in Seq(S), s # <<>>
    PROVE  /\ Len(s) \in Nat /\ Len(s) >= 1 /\ Head(s) = s[1] /\ s[1] \in S
           /\ Tail(s) \in Seq(S) /\ Len(Tail(s)) = Len(s) - 1
           /\ \A i \in 1 .. Len(s) - 1 : i + 1 \in 1 .. Len(s) /\ Tail(s)[i] = s[i + 1]
BY SMT

(* The elements of a slice are those of the list, at their distance from its *)
(* first.                                                                   *)
LEMMA SubSeqFacts ==
    ASSUME NEW S, NEW s, NEW m \in Int, NEW n \in Int, \A i \in m .. n : s[i] \in S
    PROVE  /\ SubSeq(s, m, n) \in Seq(S)
           /\ Len(SubSeq(s, m, n)) = IF m <= n THEN n - m + 1 ELSE 0
           /\ \A i \in 1 .. n - m + 1 : SubSeq(s, m, n)[i] = s[m + i - 1]
BY SMT

(* The slice of all of a list is the list. *)
LEMMA SubSeqWhole ==
    ASSUME NEW S, NEW s \in Seq(S)
    PROVE  SubSeq(s, 1, Len(s)) = s
BY SMT

Front(s, n) == SubSeq(s, 1, n)
Back(s, n) == SubSeq(s, n + 1, Len(s))

(* Cutting a list in two: the halves have its elements, and share none. *)
LEMMA CutFacts ==
    ASSUME NEW S, NEW s \in Seq(S), Distinct(s), NEW n \in 0 .. Len(s)
    PROVE  /\ Front(s, n) \in Seq(S) /\ Len(Front(s, n)) = n /\ Distinct(Front(s, n))
           /\ \A i \in 1 .. n : Front(s, n)[i] = s[i] /\ i \in 1 .. Len(s)
           /\ Back(s, n) \in Seq(S) /\ Len(Back(s, n)) = Len(s) - n /\ Distinct(Back(s, n))
           /\ Elements(Front(s, n)) \cup Elements(Back(s, n)) = Elements(s)
           /\ Elements(Front(s, n)) \cap Elements(Back(s, n)) = {}
<1> DEFINE m == Len(s)
           a == SubSeq(s, 1, n)
           b == SubSeq(s, n + 1, m)
<1>1. m \in Nat /\ n \in Nat /\ n <= m /\ n \in Int /\ m \in Int /\ 1 \in Int /\ n + 1 \in Int
  BY SMT
<1>2. (\A i \in 1 .. n : s[i] \in S) /\ (\A i \in n + 1 .. m : s[i] \in S)
  BY SMT, <1>1
<1>3. /\ a \in Seq(S) /\ Len(a) = n
      /\ \A i \in 1 .. n : a[i] = s[i]
  <2>1. /\ a \in Seq(S) /\ Len(a) = IF 1 <= n THEN n - 1 + 1 ELSE 0
        /\ \A i \in 1 .. n - 1 + 1 : a[i] = s[1 + i - 1]
    <3> HIDE DEF m
    <3> QED
      BY SMT, <1>1, <1>2, SubSeqFacts
  <2> HIDE DEF a
  <2> QED
    BY SMT, <1>1, <2>1
<1>4. /\ b \in Seq(S) /\ Len(b) = m - n
      /\ \A i \in 1 .. m - n : b[i] = s[n + i]
  <2>1. /\ b \in Seq(S) /\ Len(b) = IF n + 1 <= m THEN m - (n + 1) + 1 ELSE 0
        /\ \A i \in 1 .. m - (n + 1) + 1 : b[i] = s[(n + 1) + i - 1]
    <3> DEFINE k == n + 1
    <3>1. k \in Int /\ m \in Int /\ \A i \in k .. m : s[i] \in S
      BY <1>1, <1>2, Zenon
    <3> HIDE DEF m, k
    <3>2. /\ SubSeq(s, k, m) \in Seq(S) /\ Len(SubSeq(s, k, m)) = IF k <= m THEN m - k + 1 ELSE 0
          /\ \A i \in 1 .. m - k + 1 : SubSeq(s, k, m)[i] = s[k + i - 1]
      BY SMT, <3>1, SubSeqFacts
    <3> QED
      BY <3>2, Zenon DEF k
  <2> HIDE DEF b
  <2> QED
    BY SMT, <1>1, <2>1
<1> HIDE DEF a, b
<1>5. Distinct(a)
  <2>1. \A i \in 1 .. n : i \in 1 .. m
    BY SMT, <1>1
  <2> QED
    BY <1>3, <2>1, Zenon DEF Distinct
<1>6. Distinct(b)
  BY SMT, <1>1, <1>4 DEF Distinct
<1>7. Elements(a) = {s[i] : i \in 1 .. n}
  BY <1>3, Zenon DEF Elements
<1>8. Elements(b) = {s[i] : i \in n + 1 .. m}
  <2>1. \A i \in 1 .. m - n : n + i \in n + 1 .. m
    BY SMT, <1>1
  <2>2. \A i \in n + 1 .. m : i - n \in 1 .. m - n /\ n + (i - n) = i
    BY SMT, <1>1
  <2>3. Elements(b) = {b[i] : i \in 1 .. m - n}
    BY <1>4, Zenon DEF Elements
  <2>4. \A x \in Elements(b) : x \in {s[i] : i \in n + 1 .. m}
    BY <1>4, <2>1, <2>3, Zenon
  <2>5. \A i \in n + 1 .. m : s[i] = b[i - n] /\ i - n \in 1 .. m - n
    BY <1>4, <2>2, Zenon
  <2>6. \A i \in n + 1 .. m : s[i] \in Elements(b)
    BY <2>3, <2>5, Zenon
  <2> QED
    BY <2>4, <2>6, Zenon
<1>9. \A i \in 1 .. m : i \in 1 .. n \/ i \in n + 1 .. m
  BY SMT, <1>1
<1>10. (\A i \in 1 .. n : i \in 1 .. m) /\ (\A i \in n + 1 .. m : i \in 1 .. m)
  BY SMT, <1>1
<1>11. Elements(a) \cup Elements(b) = Elements(s)
  BY <1>7, <1>8, <1>9, <1>10, Zenon DEF Elements
<1>12. Elements(a) \cap Elements(b) = {}
  <2>1. \A i \in 1 .. n, j \in n + 1 .. m : s[i] # s[j]
    BY SMT, <1>1, <1>10 DEF Distinct
  <2> QED
    BY <1>7, <1>8, <2>1, Zenon
<1> QED
  BY <1>3, <1>4, <1>5, <1>6, <1>10, <1>11, <1>12, Zenon DEF a, b, Front, Back
=============================================================================
