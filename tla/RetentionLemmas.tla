-------------------------- MODULE RetentionLemmas --------------------------
(***************************************************************************)
(* Facts about Filter and about the operators of Retention, for sequences  *)
(* of any length, that the proofs about the stores rest on.  Induction is  *)
(* by the well-foundedness of < on the natural numbers.                    *)
(***************************************************************************)
EXTENDS Retention, SequenceTheorems, WellFoundedInduction, TLAPS

(* Induction over the natural numbers, for a set T.                        *)
LEMMA Induction ==
    ASSUME NEW T, 0 \in T, \A n \in Nat : n \in T => n + 1 \in T
    PROVE  Nat \subseteq T
<1>1. SUFFICES ASSUME Nat \ T # {} PROVE FALSE
  OBVIOUS
<1> DEFINE R == OpToRel(<, Nat)
<1>2. \A m, n \in Nat : m < n => <<m, n>> \in R
  BY DEF OpToRel
<1>3. IsWellFoundedOn(R, Nat)
  BY NatLessThanWellFounded
<1> HIDE DEF R
<1>4. PICK x \in Nat \ T : \A y \in Nat \ T : ~(<<y, x>> \in R)
  <2>1. Nat \ T \subseteq Nat
    OBVIOUS
  <2> QED
    BY <1>1, <1>3, <2>1, WFMin
<1>5. x # 0 /\ x - 1 \in Nat /\ x - 1 < x /\ (x - 1) + 1 = x
  OBVIOUS
<1>6. <<x - 1, x>> \in R
  BY <1>2, <1>5
<1> QED
  BY <1>4, <1>5, <1>6

(* Induction over sequences that grow at their end, for a set T.           *)
LEMMA SeqInduction ==
    ASSUME NEW X, NEW T, <<>> \in T,
           \A s \in Seq(X), x \in X : s \in T => Append(s, x) \in T
    PROVE  Seq(X) \subseteq T
<1> DEFINE N == {n \in Nat : \A s \in Seq(X) : Len(s) = n => s \in T}
<1>1. 0 \in N
  <2>1. \A s \in Seq(X) : Len(s) = 0 => s = <<>>
    BY EmptySeq
  <2> QED
    BY <2>1
<1>2. ASSUME NEW n \in Nat, n \in N PROVE n + 1 \in N
  <2>1. SUFFICES ASSUME NEW s \in Seq(X), Len(s) = n + 1 PROVE s \in T
    OBVIOUS
  <2>2. PICK t \in Seq(X), x \in X : s = Append(t, x)
    <3>1. s # <<>>
      BY <2>1, EmptySeq
    <3> QED
      BY <3>1, SequenceEmptyOrAppend
  <2>3. Len(t) = n
    BY <2>1, <2>2
  <2>4. t \in T
    BY <1>2, <2>3
  <2> QED
    BY <2>2, <2>4
<1> HIDE DEF N
<1>3. Nat \subseteq N
  BY <1>1, <1>2, Induction
<1>4. ASSUME NEW s \in Seq(X) PROVE s \in T
  <2>1. Len(s) \in N
    BY <1>3
  <2> QED
    BY <2>1 DEF N
<1> QED
  BY <1>4

-----------------------------------------------------------------------------
(* Filter.                                                                 *)

(* taken is the recursive function in the definition of Filter, up to n.   *)
Taken(s, S, f, n) ==
    f = [i \in 0..n |->
            IF i = 0 THEN <<>>
            ELSE IF s[i] \in S THEN Append(f[i - 1], s[i])
            ELSE f[i - 1]]

(* The recursive function of Filter exists.                                *)
LEMMA TakenExists ==
    ASSUME NEW s, NEW S, NEW n \in Nat
    PROVE  \E f : Taken(s, S, f, n)
<1> DEFINE T == {m \in Nat : \E f : Taken(s, S, f, m)}
<1>1. 0 \in T
  <2>1. Taken(s, S, [i \in 0..0 |-> <<>>], 0)
    BY DEF Taken
  <2> QED
    BY <2>1
<1>2. ASSUME NEW m \in Nat, m \in T PROVE m + 1 \in T
  <2>1. PICK f : Taken(s, S, f, m)
    BY <1>2
  <2>2. PICK last : last = IF s[m + 1] \in S THEN Append(f[m], s[m + 1])
                           ELSE f[m]
    OBVIOUS
  <2>3. PICK g : g = [i \in 0..(m + 1) |-> IF i <= m THEN f[i] ELSE last]
    OBVIOUS
  <2>4. \A i \in 0..m : g[i] = f[i]
    BY <2>3
  <2>5. g[m + 1] = last
    BY <2>3
  <2>6. PICK h : h = [i \in 0..(m + 1) |->
                        IF i = 0 THEN <<>>
                        ELSE IF s[i] \in S THEN Append(g[i - 1], s[i])
                        ELSE g[i - 1]]
    OBVIOUS
  <2>7. ASSUME NEW i \in 0..(m + 1) PROVE h[i] = g[i]
    <3>1. CASE i = 0
      <4>1. f[0] = <<>> /\ g[0] = f[0]
        BY <2>1, <2>4 DEF Taken
      <4> QED
        BY <2>6, <3>1, <4>1
    <3>2. CASE i \in 1..m
      <4>1. i # 0 /\ i \in 0..m /\ i - 1 \in 0..m
        BY <3>2
      <4>2. g[i] = f[i] /\ g[i - 1] = f[i - 1]
        BY <2>4, <4>1
      <4>3. f[i] = IF s[i] \in S THEN Append(f[i - 1], s[i]) ELSE f[i - 1]
        BY <2>1, <4>1 DEF Taken
      <4>4. h[i] = IF s[i] \in S THEN Append(g[i - 1], s[i]) ELSE g[i - 1]
        BY <2>6, <4>1
      <4> QED
        BY <4>2, <4>3, <4>4
    <3>3. CASE i = m + 1
      <4>1. i # 0 /\ i - 1 = m
        BY <3>3
      <4>2. h[i] = IF s[i] \in S THEN Append(g[i - 1], s[i]) ELSE g[i - 1]
        BY <2>6, <4>1
      <4>3. g[m] = f[m]
        BY <2>4
      <4> QED
        BY <2>2, <2>5, <3>3, <4>1, <4>2, <4>3
    <3> QED
      BY <3>1, <3>2, <3>3
  <2>8. g = h
    BY <2>3, <2>6, <2>7
  <2>9. Taken(s, S, g, m + 1)
    BY <2>6, <2>8 DEF Taken
  <2> QED
    BY <2>9
<1> HIDE DEF T
<1>3. n \in T
  BY <1>1, <1>2, Induction
<1> QED
  BY <1>3 DEF T

(* Filter returns the value of that function at the last place.            *)
LEMMA FilterTaken ==
    ASSUME NEW s, NEW S, Len(s) \in Nat
    PROVE  \E f : Taken(s, S, f, Len(s)) /\ Filter(s, S) = f[Len(s)]
<1>1. PICK f : f = CHOOSE g : Taken(s, S, g, Len(s))
  OBVIOUS
<1>2. Taken(s, S, f, Len(s))
  BY <1>1, TakenExists
<1>3. Filter(s, S) = f[Len(s)]
  BY <1>1 DEF Filter, Taken
<1> QED
  BY <1>2, <1>3

(* The function depends on the elements up to n alone.                     *)
LEMMA TakenAgree ==
    ASSUME NEW s, NEW t, NEW S, NEW f, NEW g, NEW m \in Nat, NEW n \in Nat,
           n <= m, Taken(s, S, f, n), Taken(t, S, g, m),
           \A i \in 1..n : s[i] = t[i]
    PROVE  f[n] = g[n]
<1> DEFINE T == {i \in Nat : i <= n => f[i] = g[i]}
<1>1. 0 \in T
  BY DEF Taken
<1>2. ASSUME NEW i \in Nat, i \in T PROVE i + 1 \in T
  <2>1. SUFFICES ASSUME i + 1 <= n PROVE f[i + 1] = g[i + 1]
    OBVIOUS
  <2>2. /\ i + 1 \in 0..n /\ i + 1 \in 0..m /\ i + 1 # 0
        /\ (i + 1) - 1 = i /\ i + 1 \in 1..n
    BY <2>1
  <2>3. f[i] = g[i] /\ s[i + 1] = t[i + 1]
    BY <1>2, <2>1, <2>2
  <2>4. f[i + 1] = IF s[i + 1] \in S THEN Append(f[i], s[i + 1]) ELSE f[i]
    BY <2>2 DEF Taken
  <2>5. g[i + 1] = IF t[i + 1] \in S THEN Append(g[i], t[i + 1]) ELSE g[i]
    BY <2>2 DEF Taken
  <2> QED
    BY <2>3, <2>4, <2>5
<1> HIDE DEF T
<1>3. n \in T
  BY <1>1, <1>2, Induction
<1> QED
  BY <1>3 DEF T

(* There is nothing to filter in the empty sequence.                       *)
LEMMA FilterEmpty ==
    ASSUME NEW S
    PROVE  Filter(<<>>, S) = <<>>
<1>1. Len(<<>>) = 0
  OBVIOUS
<1>2. PICK f : Taken(<<>>, S, f, 0) /\ Filter(<<>>, S) = f[0]
  BY <1>1, FilterTaken
<1> QED
  BY <1>2 DEF Taken

(* The equation by which Filter is reasoned about.                         *)
LEMMA FilterAppend ==
    ASSUME NEW X, NEW s \in Seq(X), NEW x \in X, NEW S
    PROVE  Filter(Append(s, x), S) =
              IF x \in S THEN Append(Filter(s, S), x) ELSE Filter(s, S)
<1>1. PICK t : t = Append(s, x)
  OBVIOUS
<1>2. PICK n : n = Len(s)
  OBVIOUS
<1>3. /\ n \in Nat /\ Len(t) = n + 1 /\ t[n + 1] = x
      /\ \A i \in 1..n : s[i] = t[i]
  BY <1>1, <1>2
<1>4. PICK f : Taken(s, S, f, n) /\ Filter(s, S) = f[n]
  BY <1>2, <1>3, FilterTaken
<1>5. PICK g : Taken(t, S, g, n + 1) /\ Filter(t, S) = g[n + 1]
  BY <1>3, FilterTaken
<1>6. f[n] = g[n]
  BY <1>3, <1>4, <1>5, TakenAgree
<1>7. g[n + 1] = IF t[n + 1] \in S THEN Append(g[n], t[n + 1]) ELSE g[n]
  <2>1. n + 1 \in 0..(n + 1) /\ n + 1 # 0 /\ (n + 1) - 1 = n
    BY <1>3
  <2> QED
    BY <1>5, <2>1 DEF Taken
<1> QED
  BY <1>1, <1>3, <1>4, <1>5, <1>6, <1>7

(* A filtered sequence is a sequence of elements that passed the test.     *)
LEMMA FilterType ==
    ASSUME NEW X, NEW s \in Seq(X), NEW S
    PROVE  Filter(s, S) \in Seq(X) /\ Len(Filter(s, S)) <= Len(s)
<1> DEFINE T == {t \in Seq(X) : /\ Filter(t, S) \in Seq(X)
                                /\ Len(Filter(t, S)) <= Len(t)}
<1>1. <<>> \in T
  <2>1. <<>> \in Seq(X) /\ Len(<<>>) <= Len(<<>>)
    OBVIOUS
  <2> QED
    BY <2>1, FilterEmpty
<1>2. ASSUME NEW t \in Seq(X), NEW x \in X, t \in T
      PROVE  Append(t, x) \in T
  <2>1. PICK f : f = Filter(t, S)
    OBVIOUS
  <2>2. f \in Seq(X) /\ Len(f) <= Len(t)
    BY <1>2, <2>1
  <2>3. Filter(Append(t, x), S) = IF x \in S THEN Append(f, x) ELSE f
    BY <2>1, FilterAppend
  <2>4. /\ Append(f, x) \in Seq(X) /\ Len(Append(f, x)) = Len(f) + 1
        /\ Append(t, x) \in Seq(X) /\ Len(Append(t, x)) = Len(t) + 1
        /\ Len(f) \in Nat /\ Len(t) \in Nat
    BY <2>2
  <2>5. /\ Filter(Append(t, x), S) \in Seq(X)
        /\ Len(Filter(Append(t, x), S)) <= Len(Append(t, x))
    BY <2>2, <2>3, <2>4
  <2> QED
    BY <2>4, <2>5
<1> HIDE DEF T
<1>3. s \in T
  BY <1>1, <1>2, SeqInduction
<1> QED
  BY <1>3 DEF T

(* The elements of a filtered sequence: those of the sequence in S.        *)
LEMMA FilterElements ==
    ASSUME NEW X, NEW s \in Seq(X), NEW S
    PROVE  {Filter(s, S)[i] : i \in 1..Len(Filter(s, S))}
              = {s[i] : i \in 1..Len(s)} \cap S
<1> DEFINE E(t) == {t[i] : i \in 1..Len(t)}
<1> DEFINE T == {t \in Seq(X) : E(Filter(t, S)) = E(t) \cap S}
<1>1. <<>> \in T
  BY FilterEmpty
<1>2. ASSUME NEW t \in Seq(X), NEW x \in X, t \in T
      PROVE  Append(t, x) \in T
  <2>1. PICK f : f = Filter(t, S)
    OBVIOUS
  <2>2. f \in Seq(X) /\ E(f) = E(t) \cap S
    BY <1>2, <2>1, FilterType
  <2>3. Filter(Append(t, x), S) = IF x \in S THEN Append(f, x) ELSE f
    BY <2>1, FilterAppend
  <2>4. ASSUME NEW q \in Seq(X)
        PROVE  E(Append(q, x)) = E(q) \cup {x}
    <3>1. /\ Len(Append(q, x)) = Len(q) + 1 /\ Len(q) \in Nat
          /\ Append(q, x)[Len(q) + 1] = x
          /\ \A i \in 1..Len(q) : Append(q, x)[i] = q[i]
      OBVIOUS
    <3>2. 1..(Len(q) + 1) = (1..Len(q)) \cup {Len(q) + 1}
      BY <3>1
    <3> QED
      BY <3>1, <3>2
  <2>5. Append(t, x) \in Seq(X)
    OBVIOUS
  <2> HIDE DEF E
  <2>6. E(Append(t, x)) = E(t) \cup {x}
    BY <2>4
  <2>7. E(Filter(Append(t, x), S)) = (E(t) \cup {x}) \cap S
    <3>1. CASE x \in S
      <4>1. E(Append(f, x)) = E(f) \cup {x}
        BY <2>2, <2>4
      <4>2. Filter(Append(t, x), S) = Append(f, x)
        BY <2>3, <3>1
      <4> QED
        BY <2>2, <3>1, <4>1, <4>2
    <3>2. CASE x \notin S
      <4>1. Filter(Append(t, x), S) = f
        BY <2>3, <3>2
      <4> QED
        BY <2>2, <3>2, <4>1
    <3> QED
      BY <3>1, <3>2
  <2> QED
    BY <2>5, <2>6, <2>7
<1> HIDE DEF T
<1>3. s \in T
  BY <1>1, <1>2, SeqInduction
<1> QED
  BY <1>3 DEF T

(* The elements of a sequence that is empty, has one, or gets one more.    *)
LEMMA RangeFacts ==
    /\ Range(<<>>) = {}
    /\ \A x : Range(<<x>>) = {x}
    /\ \A X : \A s \in Seq(X) : Range(s) \subseteq X
    /\ \A X : \A s \in Seq(X) : \A x \in X :
          Range(Append(s, x)) = Range(s) \cup {x}
<1>1. Range(<<>>) = {}
  BY DEF Range
<1>2. ASSUME NEW x PROVE Range(<<x>>) = {x}
  BY DEF Range
<1>3. ASSUME NEW X, NEW s \in Seq(X) PROVE Range(s) \subseteq X
  BY RangeOfSeq
<1>4. ASSUME NEW X, NEW s \in Seq(X), NEW x \in X
      PROVE  Range(Append(s, x)) = Range(s) \cup {x}
  <2>1. <<x>> \in Seq(X)
    OBVIOUS
  <2>2. Append(s, x) = s \o <<x>>
    BY AppendIsConcat
  <2>3. Range(s \o <<x>>) = Range(s) \cup Range(<<x>>)
    <3>1. \A u \in Seq(X) : Range(s \o u) = Range(s) \cup Range(u)
      BY RangeConcatenation
    <3> QED
      BY <2>1, <3>1
  <2>4. Range(<<x>>) = {x}
    BY <1>2
  <2> QED
    BY <2>2, <2>3, <2>4
<1> QED
  BY <1>1, <1>2, <1>3, <1>4

(* Filtering keeps exactly the elements of the set.                        *)
LEMMA FilterRange ==
    ASSUME NEW X, NEW s \in Seq(X), NEW S
    PROVE  Filter(s, S) \in Seq(X) /\ Range(Filter(s, S)) = Range(s) \cap S
<1>1. PICK f : f = Filter(s, S)
  OBVIOUS
<1>2. f \in Seq(X)
  BY <1>1, FilterType
<1>3. \A x : x \in {f[i] : i \in 1..Len(f)}
                <=> x \in {s[i] : i \in 1..Len(s)} /\ x \in S
  BY <1>1, FilterElements
<1>4. Range(f) = {f[i] : i \in 1..Len(f)}
  BY <1>2, RangeEquality
<1>5. Range(s) = {s[i] : i \in 1..Len(s)}
  BY RangeEquality
<1> QED
  BY <1>1, <1>2, <1>3, <1>4, <1>5

(* Nothing is lost or moved if every element passes.                       *)
LEMMA FilterAll ==
    ASSUME NEW X, NEW s \in Seq(X), NEW S,
           \A i \in 1..Len(s) : s[i] \in S
    PROVE  Filter(s, S) = s
<1> DEFINE T == {t \in Seq(X) : (\A i \in 1..Len(t) : t[i] \in S)
                                   => Filter(t, S) = t}
<1>1. <<>> \in T
  BY FilterEmpty
<1>2. ASSUME NEW t \in Seq(X), NEW x \in X, t \in T
      PROVE  Append(t, x) \in T
  <2>1. SUFFICES ASSUME \A i \in 1..Len(Append(t, x)) : Append(t, x)[i] \in S
                 PROVE  Filter(Append(t, x), S) = Append(t, x)
    <3>1. Append(t, x) \in Seq(X)
      OBVIOUS
    <3> QED
      BY <3>1
  <2>2. /\ Len(Append(t, x)) = Len(t) + 1 /\ Len(t) \in Nat
        /\ Append(t, x)[Len(t) + 1] = x
        /\ \A i \in 1..Len(t) : Append(t, x)[i] = t[i]
    OBVIOUS
  <2>3. x \in S /\ \A i \in 1..Len(t) : t[i] \in S
    BY <2>1, <2>2
  <2>4. Filter(t, S) = t
    BY <1>2, <2>3
  <2> QED
    BY <2>3, <2>4, FilterAppend
<1> HIDE DEF T
<1>3. s \in T
  BY <1>1, <1>2, SeqInduction
<1> QED
  BY <1>3 DEF T

(* Only the test's verdict on the elements counts.                         *)
LEMMA FilterSame ==
    ASSUME NEW X, NEW s \in Seq(X), NEW S, NEW S2,
           \A i \in 1..Len(s) : s[i] \in S <=> s[i] \in S2
    PROVE  Filter(s, S) = Filter(s, S2)
<1> DEFINE T == {t \in Seq(X) :
                   (\A i \in 1..Len(t) : t[i] \in S <=> t[i] \in S2)
                      => Filter(t, S) = Filter(t, S2)}
<1>1. <<>> \in T
  BY FilterEmpty
<1>2. ASSUME NEW t \in Seq(X), NEW x \in X, t \in T
      PROVE  Append(t, x) \in T
  <2>1. SUFFICES
          ASSUME \A i \in 1..Len(Append(t, x)) :
                    Append(t, x)[i] \in S <=> Append(t, x)[i] \in S2
          PROVE  Filter(Append(t, x), S) = Filter(Append(t, x), S2)
    <3>1. Append(t, x) \in Seq(X)
      OBVIOUS
    <3> QED
      BY <3>1
  <2>2. /\ Len(Append(t, x)) = Len(t) + 1 /\ Len(t) \in Nat
        /\ Append(t, x)[Len(t) + 1] = x
        /\ \A i \in 1..Len(t) : Append(t, x)[i] = t[i]
    OBVIOUS
  <2>3. /\ x \in S <=> x \in S2
        /\ \A i \in 1..Len(t) : t[i] \in S <=> t[i] \in S2
    BY <2>1, <2>2
  <2>4. Filter(t, S) = Filter(t, S2)
    BY <1>2, <2>3
  <2>5. Filter(Append(t, x), S) =
          IF x \in S THEN Append(Filter(t, S), x) ELSE Filter(t, S)
    BY FilterAppend
  <2>6. Filter(Append(t, x), S2) =
          IF x \in S2 THEN Append(Filter(t, S2), x) ELSE Filter(t, S2)
    BY FilterAppend
  <2> QED
    BY <2>3, <2>4, <2>5, <2>6
<1> HIDE DEF T
<1>3. s \in T
  BY <1>1, <1>2, SeqInduction
<1> QED
  BY <1>3 DEF T

(* h shows where in s the elements of f come from, in their order.         *)
Embeds(h, f, s) ==
    /\ h \in [1..Len(f) -> 1..Len(s)]
    /\ \A i, j \in 1..Len(f) : i < j => h[i] < h[j]
    /\ \A i \in 1..Len(f) : f[i] = s[h[i]]

(* Filtering keeps the order and repeats nothing.                          *)
LEMMA FilterOrder ==
    ASSUME NEW X, NEW s \in Seq(X), NEW S
    PROVE  \E h : Embeds(h, Filter(s, S), s)
<1> DEFINE T == {t \in Seq(X) : \E h : Embeds(h, Filter(t, S), t)}
<1>1. <<>> \in T
  <2>1. <<>> \in Seq(X) /\ Len(<<>>) = 0 /\ Filter(<<>>, S) = <<>>
    BY FilterEmpty
  <2>2. Embeds([i \in 1..0 |-> 0], <<>>, <<>>)
    BY <2>1 DEF Embeds
  <2> QED
    BY <2>1, <2>2
<1>2. ASSUME NEW t \in Seq(X), NEW x \in X, t \in T
      PROVE  Append(t, x) \in T
  <2>1. PICK f : f = Filter(t, S)
    OBVIOUS
  <2>2. f \in Seq(X) /\ Len(f) \in Nat /\ Len(t) \in Nat
    BY <2>1, FilterType
  <2>3. PICK h : Embeds(h, f, t)
    BY <1>2, <2>1
  <2>4. PICK u : u = Append(t, x)
    OBVIOUS
  <2>5. /\ u \in Seq(X) /\ Len(u) = Len(t) + 1 /\ u[Len(t) + 1] = x
        /\ \A i \in 1..Len(t) : u[i] = t[i]
    BY <2>4
  <2>6. CASE x \notin S
    <3>1. Filter(u, S) = f
      BY <2>1, <2>4, <2>6, FilterAppend
    <3>2. 1..Len(t) \subseteq 1..Len(u)
      BY <2>2, <2>5
    <3>3. \A i \in 1..Len(f) : h[i] \in 1..Len(t)
      BY <2>3 DEF Embeds
    <3>4. Embeds(h, f, u)
      BY <2>3, <2>5, <3>2, <3>3 DEF Embeds
    <3> QED
      BY <2>4, <2>5, <3>1, <3>4
  <2>7. CASE x \in S
    <3>1. PICK g : g = Append(f, x)
      OBVIOUS
    <3>2. Filter(u, S) = g
      BY <2>1, <2>4, <2>7, <3>1, FilterAppend
    <3>3. /\ Len(g) = Len(f) + 1 /\ g[Len(f) + 1] = x
          /\ \A i \in 1..Len(f) : g[i] = f[i]
      BY <2>2, <3>1
    <3>4. PICK k : k = [i \in 1..Len(g) |-> IF i <= Len(f) THEN h[i]
                                            ELSE Len(t) + 1]
      OBVIOUS
    <3>5. /\ \A i \in 1..Len(f) : k[i] = h[i] /\ h[i] \in 1..Len(t)
          /\ k[Len(f) + 1] = Len(t) + 1
      BY <2>2, <2>3, <3>3, <3>4 DEF Embeds
    <3>6. \A i \in 1..Len(g) : i \in 1..Len(f) \/ i = Len(f) + 1
      BY <2>2, <3>3
    <3>7. k \in [1..Len(g) -> 1..Len(u)]
      <4>1. Len(t) + 1 \in 1..Len(u) /\ 1..Len(t) \subseteq 1..Len(u)
        BY <2>2, <2>5
      <4>2. \A i \in 1..Len(g) : k[i] \in 1..Len(u)
        BY <3>5, <3>6, <4>1
      <4> QED
        BY <3>4, <4>2
    <3>8. ASSUME NEW i \in 1..Len(g), NEW j \in 1..Len(g), i < j
          PROVE  k[i] < k[j]
      <4>1. i \in 1..Len(f)
        BY <2>2, <3>3, <3>8
      <4>2. CASE j \in 1..Len(f)
        BY <2>3, <3>5, <3>8, <4>1, <4>2 DEF Embeds
      <4>3. CASE j = Len(f) + 1
        BY <2>2, <3>5, <4>1, <4>3
      <4> QED
        BY <3>6, <4>2, <4>3
    <3>9. ASSUME NEW i \in 1..Len(g) PROVE g[i] = u[k[i]]
      <4>1. CASE i \in 1..Len(f)
        BY <2>3, <2>5, <3>3, <3>5, <4>1 DEF Embeds
      <4>2. CASE i = Len(f) + 1
        BY <2>5, <3>3, <3>5, <4>2
      <4> QED
        BY <3>6, <4>1, <4>2
    <3>10. Embeds(k, g, u)
      BY <3>7, <3>8, <3>9 DEF Embeds
    <3> QED
      BY <2>4, <2>5, <3>2, <3>10
  <2> QED
    BY <2>6, <2>7
<1> HIDE DEF T
<1>3. s \in T
  BY <1>1, <1>2, SeqInduction
<1> QED
  BY <1>3 DEF T

(* A function defined by recursion on 0..n exists, whatever its step G.    *)
IsStep(G, n, V) == G \in [(1..n) \X V -> V]
Recurs(f, a, G, n, V) ==
    /\ f \in [0..n -> V]
    /\ f[0] = a
    /\ \A i \in 1..n : f[i] = G[<<i, f[i - 1]>>]

(* A recursion over 0..n with a step of the right type has a solution.     *)
LEMMA Recursion ==
    ASSUME NEW V, NEW a \in V, NEW n \in Nat, NEW G, IsStep(G, n, V)
    PROVE  \E f : Recurs(f, a, G, n, V)
<1> USE DEF IsStep
<1> DEFINE P(f, m) == /\ f \in [0..m -> V]
                      /\ f[0] = a
                      /\ \A i \in 1..m : f[i] = G[<<i, f[i - 1]>>]
<1> DEFINE T == {m \in Nat : m <= n => \E f : P(f, m)}
<1>1. 0 \in T
  <2>1. P([i \in 0..0 |-> a], 0)
    OBVIOUS
  <2> QED
    BY <2>1
<1>2. ASSUME NEW m \in Nat, m \in T PROVE m + 1 \in T
  <2>1. SUFFICES ASSUME m + 1 <= n PROVE \E f : P(f, m + 1)
    OBVIOUS
  <2>2. PICK f : P(f, m)
    BY <1>2, <2>1
  <2>3. PICK last : last = G[<<m + 1, f[m]>>]
    OBVIOUS
  <2>4. f[m] \in V /\ last \in V
    <3>1. f[m] \in V
      BY <2>2
    <3>2. <<m + 1, f[m]>> \in (1..n) \X V
      BY <2>1, <3>1
    <3> QED
      BY <2>3, <3>1, <3>2
  <2>5. PICK g : g = [i \in 0..(m + 1) |-> IF i <= m THEN f[i] ELSE last]
    OBVIOUS
  <2>6. \A i \in 0..m : g[i] = f[i] /\ f[i] \in V
    BY <2>2, <2>5
  <2>7. g[m + 1] = last
    BY <2>5
  <2>8. \A i \in 0..(m + 1) : i \in 0..m \/ i = m + 1
    OBVIOUS
  <2>9. g \in [0..(m + 1) -> V]
    <3>1. \A i \in 0..(m + 1) : g[i] \in V
      BY <2>4, <2>6, <2>7, <2>8
    <3> QED
      BY <2>5, <3>1
  <2>10. ASSUME NEW i \in 1..(m + 1) PROVE g[i] = G[<<i, g[i - 1]>>]
    <3>1. CASE i \in 1..m
      <4>1. i \in 0..m /\ i - 1 \in 0..m
        BY <3>1
      <4>2. g[i] = f[i] /\ g[i - 1] = f[i - 1]
        BY <2>6, <4>1
      <4> QED
        BY <2>2, <3>1, <4>2
    <3>2. CASE i = m + 1
      <4>1. m \in 0..m /\ i - 1 = m
        BY <3>2
      <4>2. g[i - 1] = f[m]
        BY <2>6, <4>1
      <4> QED
        BY <2>3, <2>7, <3>2, <4>2
    <3> QED
      BY <3>1, <3>2
  <2>11. g[0] = a
    BY <2>2, <2>6
  <2>12. P(g, m + 1)
    BY <2>9, <2>10, <2>11
  <2> QED
    BY <2>12
<1> HIDE DEF T
<1>3. n \in T
  BY <1>1, <1>2, Induction
<1> QED
  BY <1>3 DEF T, Recurs

-----------------------------------------------------------------------------
(* Suffixes: what the size bounds keep.                                    *)

(* The last n elements of s.                                               *)
Newest(s, n) == SubSeq(s, Len(s) + 1 - n, Len(s))

(* The n newest records are the last n places of the sequence.             *)
LEMMA NewestPlaces ==
    ASSUME NEW X, NEW s \in Seq(X), NEW n \in 0..Len(s)
    PROVE  /\ Newest(s, n) \in Seq(X)
           /\ Len(Newest(s, n)) = n
           /\ \A i \in 1..n : Newest(s, n)[i] = s[Len(s) - n + i]
<1>1. Len(s) \in Nat /\ n \in Nat /\ n <= Len(s)
  BY LenProperties
<1>2. PICK k : k = Len(s) + 1 - n
  OBVIOUS
<1>3. k \in 1..(Len(s) + 1) /\ Len(s) + 1 - k = n
  BY <1>1, <1>2
<1>4. \A i \in k..Len(s) : s[i] \in X
  BY <1>1, <1>3, ElementOfSeq
<1>5. PICK t : t = SubSeq(s, k, Len(s))
  OBVIOUS
<1>6. t \in Seq(X)
  BY <1>1, <1>3, <1>4, <1>5
<1>7. Len(t) = n
  BY <1>1, <1>3, <1>5
<1>8. ASSUME NEW i \in 1..n PROVE t[i] = s[Len(s) - n + i]
  <2>1. k + i - 1 = Len(s) - n + i
    BY <1>1, <1>2
  <2>2. t[i] = s[k + i - 1]
    BY <1>1, <1>3, <1>5, <1>7
  <2> QED
    BY <2>1, <2>2
<1> QED
  BY <1>2, <1>5, <1>6, <1>7, <1>8 DEF Newest

(* All of a sequence, and a suffix of a suffix.                            *)
LEMMA NewestAll ==
    ASSUME NEW X, NEW s \in Seq(X)
    PROVE  Newest(s, Len(s)) = s
<1>1. Len(s) \in Nat /\ Len(s) \in 0..Len(s) /\ Len(s) - Len(s) = 0
  BY LenProperties
<1>2. PICK t : t = Newest(s, Len(s))
  OBVIOUS
<1>3. /\ t \in Seq(X) /\ Len(t) = Len(s)
      /\ \A i \in 1..Len(s) : t[i] = s[Len(s) - Len(s) + i]
  BY <1>1, <1>2, NewestPlaces
<1>4. \A i \in 1..Len(s) : t[i] = s[i]
  BY <1>1, <1>3
<1>5. t = s
  BY <1>3, <1>4, SeqEqual
<1> QED
  BY <1>2, <1>5

(* The newest of the newest are the newest.                                *)
LEMMA NewestOfNewest ==
    ASSUME NEW X, NEW s \in Seq(X), NEW n \in 0..Len(s), NEW m \in 0..n
    PROVE  Newest(Newest(s, n), m) = Newest(s, m)
<1>1. /\ Len(s) \in Nat /\ n \in Nat /\ m \in Nat /\ m \in 0..Len(s)
      /\ m <= n /\ n <= Len(s)
  BY LenProperties
<1>2. PICK t : t = Newest(s, n)
  OBVIOUS
<1>3. /\ t \in Seq(X) /\ Len(t) = n
      /\ \A i \in 1..n : t[i] = s[Len(s) - n + i]
  BY <1>2, NewestPlaces
<1>4. PICK a : a = Newest(t, m)
  OBVIOUS
<1>5. /\ a \in Seq(X) /\ Len(a) = m
      /\ \A i \in 1..m : a[i] = t[n - m + i]
  <2>1. m \in 0..Len(t)
    BY <1>3
  <2> QED
    BY <1>3, <1>4, <2>1, NewestPlaces
<1>6. PICK b : b = Newest(s, m)
  OBVIOUS
<1>7. /\ b \in Seq(X) /\ Len(b) = m
      /\ \A i \in 1..m : b[i] = s[Len(s) - m + i]
  BY <1>1, <1>6, NewestPlaces
<1>8. ASSUME NEW i \in 1..m PROVE a[i] = b[i]
  <2>1. /\ n - m + i \in 1..n
        /\ Len(s) - n + (n - m + i) = Len(s) - m + i
    BY <1>1
  <2>2. t[n - m + i] = s[Len(s) - n + (n - m + i)]
    BY <1>3, <2>1
  <2> QED
    BY <1>5, <1>7, <2>1, <2>2
<1>9. a = b
  BY <1>5, <1>7, <1>8, SeqEqual
<1> QED
  BY <1>2, <1>4, <1>6, <1>9

(* MostRecent keeps the last n, all if there are fewer.                    *)
LEMMA MostRecentNewest ==
    ASSUME NEW X, NEW s \in Seq(X), NEW n \in Nat
    PROVE  /\ Len(s) > n => MostRecent(s, n) = Newest(s, n)
           /\ Len(s) <= n => MostRecent(s, n) = s
<1>1. Len(s) \in Nat
  BY LenProperties
<1>2. ASSUME Len(s) > n PROVE MostRecent(s, n) = Newest(s, n)
  <2>1. Len(s) - n + 1 = Len(s) + 1 - n
    BY <1>1
  <2> QED
    BY <1>2, <2>1 DEF MostRecent, Newest
<1>3. ASSUME Len(s) <= n PROVE MostRecent(s, n) = s
  <2>1. Len(s) + 1 - Len(s) = 1 /\ ~(Len(s) > n)
    BY <1>1, <1>3
  <2>2. MostRecent(s, n) = Newest(s, Len(s))
    BY <2>1 DEF MostRecent, Newest
  <2> QED
    BY <2>2, NewestAll
<1> QED
  BY <1>2, <1>3

-----------------------------------------------------------------------------
(* The byte bound.                                                         *)

(* Records with a serialized length.                                       *)
Sized(X) == \A r \in X : r.size \in Nat

(* w[n] is the serialized length of the n newest records.                  *)
Weighs(s, w) ==
    /\ w \in [0..Len(s) -> Nat]
    /\ w[0] = 0
    /\ \A n \in 1..Len(s) : w[n] = w[n - 1] + s[Len(s) + 1 - n].size

(* The size of the n-th record from the end is a natural number.           *)
LEMMA SizeOf ==
    ASSUME NEW X, Sized(X), NEW s \in Seq(X), NEW n \in 1..Len(s)
    PROVE  Len(s) + 1 - n \in 1..Len(s) /\ s[Len(s) + 1 - n].size \in Nat
<1>1. Len(s) \in Nat
  BY LenProperties
<1>2. Len(s) + 1 - n \in 1..Len(s)
  BY <1>1
<1>3. s[Len(s) + 1 - n] \in X
  BY <1>2, ElementOfSeq
<1> QED
  BY <1>2, <1>3 DEF Sized

(* The bytes of the n newest records are defined for every n.              *)
LEMMA WeightsExist ==
    ASSUME NEW X, Sized(X), NEW s \in Seq(X)
    PROVE  \E w : Weighs(s, w)
<1>1. PICK N : N = Len(s)
  OBVIOUS
<1>2. N \in Nat
  BY <1>1, LenProperties
<1>3. \A n \in 1..N : s[N + 1 - n].size \in Nat
  BY <1>1, SizeOf
<1>4. PICK G : G = [z \in (1..N) \X Nat |-> z[2] + s[N + 1 - z[1]].size]
  OBVIOUS
<1>5. IsStep(G, N, Nat)
  BY <1>3, <1>4 DEF IsStep
<1>6. PICK w : Recurs(w, 0, G, N, Nat)
  BY <1>2, <1>5, Recursion
<1>7. ASSUME NEW n \in 1..N PROVE w[n] = w[n - 1] + s[N + 1 - n].size
  <2>1. n - 1 \in 0..N
    BY <1>2
  <2>2. w[n - 1] \in Nat
    BY <1>6, <2>1 DEF Recurs
  <2>3. <<n, w[n - 1]>> \in (1..N) \X Nat
    BY <2>2
  <2>4. G[<<n, w[n - 1]>>] = w[n - 1] + s[N + 1 - n].size
    BY <1>4, <2>3
  <2> QED
    BY <1>6, <2>4 DEF Recurs
<1>8. Weighs(s, w)
  BY <1>1, <1>6, <1>7 DEF Weighs, Recurs
<1> QED
  BY <1>8

(* More records have no fewer bytes.                                       *)
LEMMA WeightsGrow ==
    ASSUME NEW X, Sized(X), NEW s \in Seq(X), NEW w, Weighs(s, w),
           NEW m \in 0..Len(s), NEW n \in 0..Len(s), m <= n
    PROVE  w[m] <= w[n]
<1>1. Len(s) \in Nat /\ m \in Nat /\ n \in Nat
  BY LenProperties
<1> DEFINE T == {k \in Nat : m + k <= Len(s) => w[m] <= w[m + k]}
<1>2. 0 \in T
  BY <1>1 DEF Weighs
<1>3. ASSUME NEW k \in Nat, k \in T PROVE k + 1 \in T
  <2>1. SUFFICES ASSUME m + (k + 1) <= Len(s) PROVE w[m] <= w[m + (k + 1)]
    OBVIOUS
  <2>2. /\ m + (k + 1) \in 1..Len(s) /\ m + (k + 1) - 1 = m + k
        /\ m + k \in 0..Len(s) /\ m + k <= Len(s)
    BY <1>1, <2>1
  <2>3. w[m + (k + 1)] = w[m + k] + s[Len(s) + 1 - (m + (k + 1))].size
    BY <2>2 DEF Weighs
  <2>4. s[Len(s) + 1 - (m + (k + 1))].size \in Nat
    BY <2>2, SizeOf
  <2>5. w[m] <= w[m + k] /\ w[m + k] \in Nat /\ w[m] \in Nat
    BY <1>3, <2>2 DEF Weighs
  <2> QED
    BY <2>3, <2>4, <2>5
<1> HIDE DEF T
<1>4. n - m \in Nat /\ m + (n - m) = n
  BY <1>1
<1>5. n - m \in T
  BY <1>2, <1>3, <1>4, Induction
<1> QED
  BY <1>4, <1>5 DEF T

(* The states of the walk of BoundBytes over N records, and its step.      *)
WalkStates(N) == [budget : Int, first : 1..(N + 1), full : BOOLEAN]
WalkStep(s, n, v) ==
    IF v.full \/ s[Len(s) + 1 - n].size > v.budget
    THEN [v EXCEPT !.full = TRUE]
    ELSE [budget |-> v.budget - s[Len(s) + 1 - n].size,
          first |-> Len(s) + 1 - n, full |-> FALSE]

(* A step of the byte walk keeps the type of its state.                    *)
LEMMA WalkStepType ==
    ASSUME NEW X, Sized(X), NEW s \in Seq(X), NEW n \in 1..Len(s),
           NEW v \in WalkStates(Len(s))
    PROVE  WalkStep(s, n, v) \in WalkStates(Len(s))
<1>1. /\ Len(s) \in Nat /\ s[Len(s) + 1 - n].size \in Nat
      /\ Len(s) + 1 - n \in 1..(Len(s) + 1)
  BY SizeOf, LenProperties
<1>2. [v EXCEPT !.full = TRUE] \in WalkStates(Len(s))
  BY DEF WalkStates
<1>3. v.budget \in Int
  BY DEF WalkStates
<1>4. [budget |-> v.budget - s[Len(s) + 1 - n].size,
       first |-> Len(s) + 1 - n, full |-> FALSE] \in WalkStates(Len(s))
  BY <1>1, <1>3 DEF WalkStates
<1> QED
  BY <1>2, <1>4 DEF WalkStep

(* The byte bound keeps what its walk from the newest record on reaches.   *)
LEMMA BoundBytesWalk ==
    ASSUME NEW X, Sized(X), NEW s \in Seq(X), NEW max \in Int
    PROVE  \E f \in [0..Len(s) -> WalkStates(Len(s))] :
              /\ f[0] = [budget |-> max, first |-> Len(s) + 1, full |-> FALSE]
              /\ \A n \in 1..Len(s) : f[n] = WalkStep(s, n, f[n - 1])
              /\ BoundBytes(s, max) = SubSeq(s, f[Len(s)].first, Len(s))
<1>1. PICK N : N = Len(s)
  OBVIOUS
<1>2. N \in Nat
  BY <1>1, LenProperties
<1>3. PICK V : V = WalkStates(N)
  OBVIOUS
<1>4. PICK a : a = [budget |-> max, first |-> N + 1, full |-> FALSE]
  OBVIOUS
<1>5. a \in V
  BY <1>2, <1>3, <1>4 DEF WalkStates
<1>6. PICK G : G = [z \in (1..N) \X V |-> WalkStep(s, z[1], z[2])]
  OBVIOUS
<1>7. IsStep(G, N, V)
  BY <1>1, <1>3, <1>6, WalkStepType DEF IsStep
<1> DEFINE Good(f) ==
      f = [n \in 0..Len(s) |->
            IF n = 0
            THEN [budget |-> max, first |-> Len(s) + 1, full |-> FALSE]
            ELSE IF f[n - 1].full
                       \/ s[Len(s) + 1 - n].size > f[n - 1].budget
            THEN [f[n - 1] EXCEPT !.full = TRUE]
            ELSE [budget |-> f[n - 1].budget - s[Len(s) + 1 - n].size,
                  first |-> Len(s) + 1 - n, full |-> FALSE]]
<1>8. ASSUME NEW f
      PROVE  Good(f) <=> f = [n \in 0..N |-> IF n = 0 THEN a
                                             ELSE WalkStep(s, n, f[n - 1])]
  BY <1>1, <1>4 DEF WalkStep
<1> HIDE DEF Good
<1>9. \E f : Good(f)
  <2>1. PICK f : Recurs(f, a, G, N, V)
    BY <1>2, <1>5, <1>7, Recursion
  <2>2. ASSUME NEW n \in 0..N
        PROVE  f[n] = IF n = 0 THEN a ELSE WalkStep(s, n, f[n - 1])
    <3>1. CASE n = 0
      BY <2>1, <3>1 DEF Recurs
    <3>2. CASE n # 0
      <4>1. n \in 1..N /\ n - 1 \in 0..N
        BY <1>2, <3>2
      <4>2. <<n, f[n - 1]>> \in (1..N) \X V
        BY <2>1, <4>1 DEF Recurs
      <4>3. G[<<n, f[n - 1]>>] = WalkStep(s, n, f[n - 1])
        BY <1>6, <4>2
      <4> QED
        BY <2>1, <3>2, <4>1, <4>3 DEF Recurs
    <3> QED
      BY <3>1, <3>2
  <2>3. f = [n \in 0..N |-> IF n = 0 THEN a ELSE WalkStep(s, n, f[n - 1])]
    BY <2>1, <2>2 DEF Recurs
  <2> QED
    BY <1>8, <2>3
<1>10. PICK f : f = CHOOSE g : Good(g)
  OBVIOUS
<1>11. Good(f)
  BY <1>9, <1>10
<1>12. BoundBytes(s, max) = SubSeq(s, f[Len(s)].first, Len(s))
  BY <1>10 DEF BoundBytes, Good
<1>13. f = [n \in 0..N |-> IF n = 0 THEN a ELSE WalkStep(s, n, f[n - 1])]
  BY <1>8, <1>11
<1>14. f[0] = a /\ \A n \in 1..N : f[n] = WalkStep(s, n, f[n - 1])
  BY <1>2, <1>13
<1>15. \A n \in 0..N : f[n] \in V
  <2> DEFINE T == {n \in Nat : n <= N => f[n] \in V}
  <2>1. 0 \in T
    BY <1>5, <1>14
  <2>2. ASSUME NEW n \in Nat, n \in T PROVE n + 1 \in T
    <3>1. SUFFICES ASSUME n + 1 <= N PROVE f[n + 1] \in V
      OBVIOUS
    <3>2. n + 1 \in 1..N /\ (n + 1) - 1 = n /\ n <= N
      BY <1>2, <3>1
    <3>3. f[n] \in V
      BY <2>2, <3>2
    <3>4. f[n + 1] = WalkStep(s, n + 1, f[n])
      BY <1>14, <3>2
    <3> QED
      BY <1>1, <1>3, <3>2, <3>3, <3>4, WalkStepType
  <2> HIDE DEF T
  <2>3. Nat \subseteq T
    BY <2>1, <2>2, Induction
  <2> QED
    BY <1>2, <2>3 DEF T
<1>16. f \in [0..N -> V]
  BY <1>13, <1>15
<1> QED
  BY <1>1, <1>3, <1>4, <1>12, <1>14, <1>16

(* What the byte bound keeps is the longest suffix that fits.              *)
LEMMA BoundBytesLongest ==
    ASSUME NEW X, Sized(X), NEW s \in Seq(X), NEW max \in Nat,
           NEW w, Weighs(s, w)
    PROVE  \E m \in 0..Len(s) :
              /\ BoundBytes(s, max) = Newest(s, m)
              /\ w[m] <= max
              /\ \A n \in 0..Len(s) : w[n] <= max => n <= m
<1>1. PICK N : N = Len(s)
  OBVIOUS
<1>2. N \in Nat
  BY <1>1, LenProperties
<1>3. PICK f \in [0..Len(s) -> WalkStates(Len(s))] :
         /\ f[0] = [budget |-> max, first |-> Len(s) + 1, full |-> FALSE]
         /\ \A n \in 1..Len(s) : f[n] = WalkStep(s, n, f[n - 1])
         /\ BoundBytes(s, max) = SubSeq(s, f[Len(s)].first, Len(s))
  BY BoundBytesWalk
<1>4. \A n \in 0..N : /\ f[n] \in WalkStates(N)
                       /\ f[n].budget \in Int /\ f[n].first \in 1..(N + 1)
                       /\ f[n].full \in BOOLEAN
  BY <1>1, <1>3 DEF WalkStates
<1>5. w[0] = 0 /\ \A n \in 0..N : w[n] \in Nat
  BY <1>1, <1>2 DEF Weighs
<1> DEFINE I(n, k) ==
      /\ f[n].first = N + 1 - k
      /\ k \in 0..n /\ w[k] <= max
      /\ ~f[n].full => k = n /\ f[n].budget = max - w[n]
      /\ f[n].full => k < n /\ w[k + 1] > max
<1> DEFINE T == {n \in Nat : n <= N => \E k \in 0..N : I(n, k)}
<1>6. 0 \in T
  <2>1. I(0, 0)
    BY <1>1, <1>2, <1>3, <1>5
  <2> QED
    BY <1>2, <2>1
<1>7. ASSUME NEW n \in Nat, n \in T PROVE n + 1 \in T
  <2>1. SUFFICES ASSUME n + 1 <= N PROVE \E k \in 0..N : I(n + 1, k)
    OBVIOUS
  <2>2. PICK k \in 0..N : I(n, k)
    BY <1>2, <1>7, <2>1
  <2>3. /\ n + 1 \in 1..N /\ (n + 1) - 1 = n
        /\ n \in 0..N /\ n + 1 \in 0..N /\ N + 1 - (n + 1) = N - n
    BY <1>2, <2>1
  <2>4. PICK v : v = f[n]
    OBVIOUS
  <2>5. PICK u : u = f[n + 1]
    OBVIOUS
  <2>6. PICK z : z = s[N + 1 - (n + 1)].size
    OBVIOUS
  <2>7. z \in Nat
    BY <1>1, <2>3, <2>6, SizeOf
  <2>8. w[n + 1] = w[n] + z
    BY <1>1, <2>3, <2>6 DEF Weighs
  <2>9. u = IF v.full \/ z > v.budget THEN [v EXCEPT !.full = TRUE]
            ELSE [budget |-> v.budget - z, first |-> N + 1 - (n + 1),
                  full |-> FALSE]
    BY <1>1, <1>3, <2>3, <2>4, <2>5, <2>6 DEF WalkStep
  <2>10. v \in WalkStates(N) /\ v.budget \in Int /\ v.full \in BOOLEAN
    BY <1>4, <2>3, <2>4
  <2>11. w[n] \in Nat /\ w[n + 1] \in Nat
    BY <1>5, <2>3
  <2>12. CASE v.full
    <3>1. u.full /\ u.first = v.first
      BY <2>9, <2>10, <2>12 DEF WalkStates
    <3>2. I(n + 1, k)
      BY <2>2, <2>4, <2>5, <2>12, <3>1
    <3> QED
      BY <3>2
  <2>13. CASE ~v.full /\ z > v.budget
    <3>1. u.full /\ u.first = v.first
      BY <2>9, <2>10, <2>13 DEF WalkStates
    <3>2. k = n /\ v.budget = max - w[n]
      BY <2>2, <2>4, <2>13
    <3>3. w[n + 1] > max
      BY <2>7, <2>8, <2>11, <2>13, <3>2
    <3>4. I(n + 1, k)
      BY <2>2, <2>4, <2>5, <3>1, <3>2, <3>3
    <3> QED
      BY <3>4
  <2>14. CASE ~v.full /\ ~(z > v.budget)
    <3>1. /\ ~u.full /\ u.first = N + 1 - (n + 1)
          /\ u.budget = v.budget - z
      BY <2>9, <2>14
    <3>2. k = n /\ v.budget = max - w[n]
      BY <2>2, <2>4, <2>14
    <3>3. w[n + 1] <= max /\ u.budget = max - w[n + 1]
      BY <2>7, <2>8, <2>11, <2>14, <3>1, <3>2
    <3>4. I(n + 1, n + 1)
      BY <2>5, <3>1, <3>3
    <3> QED
      BY <2>3, <3>4
  <2> QED
    BY <2>12, <2>13, <2>14
<1> HIDE DEF T
<1>8. N \in T
  BY <1>2, <1>6, <1>7, Induction
<1>9. PICK m \in 0..N : I(N, m)
  BY <1>2, <1>8 DEF T
<1>10. BoundBytes(s, max) = Newest(s, m)
  BY <1>1, <1>3, <1>9 DEF Newest
<1>11. ASSUME NEW n \in 0..N, w[n] <= max PROVE n <= m
  <2>1. SUFFICES ASSUME n > m PROVE FALSE
    BY <1>2
  <2>2. f[N].full
    BY <1>2, <1>4, <1>9, <2>1
  <2>3. w[m + 1] > max /\ m + 1 \in 0..N /\ m + 1 <= n
    BY <1>2, <1>9, <2>1, <2>2
  <2>4. w[m + 1] <= w[n]
    BY <1>1, <2>3, WeightsGrow
  <2> QED
    BY <1>5, <1>11, <2>3, <2>4
<1> QED
  BY <1>1, <1>9, <1>10, <1>11

(* apply_size_bounds keeps a suffix, and all without size bounds.          *)
LEMMA SizeBoundsKeepSuffix ==
    ASSUME NEW X, Sized(X), NEW s \in Seq(X), NEW p \in AutoPolicies
    PROVE  /\ \E m \in 0..Len(s) : ApplySizeBounds(s, p) = Newest(s, m)
           /\ (p.maxCount = NoBound /\ p.maxBytes = NoBound)
                 => ApplySizeBounds(s, p) = s
<1>1. /\ p.maxCount # NoBound => p.maxCount \in Nat
      /\ p.maxBytes # NoBound => p.maxBytes \in Nat
  BY DEF AutoPolicies, Bounds
<1>2. PICK t : t = IF p.maxCount = NoBound THEN s ELSE MostRecent(s, p.maxCount)
  OBVIOUS
<1>3. Len(s) \in Nat /\ Len(s) \in 0..Len(s)
  BY LenProperties
<1>4. PICK n \in 0..Len(s) : t = Newest(s, n)
  <2>1. CASE p.maxCount = NoBound \/ Len(s) <= p.maxCount
    <3>1. t = s
      BY <1>1, <1>2, <2>1, MostRecentNewest
    <3> QED
      BY <1>3, <3>1, NewestAll
  <2>2. CASE p.maxCount # NoBound /\ Len(s) > p.maxCount
    <3>1. p.maxCount \in 0..Len(s)
      BY <1>1, <1>3, <2>2
    <3>2. t = Newest(s, p.maxCount)
      BY <1>1, <1>2, <2>2, MostRecentNewest
    <3> QED
      BY <3>1, <3>2
  <2> QED
    BY <1>1, <1>3, <2>1, <2>2
<1>5. t \in Seq(X) /\ Len(t) = n
  BY <1>4, NewestPlaces
<1>6. \E m \in 0..Len(s) : ApplySizeBounds(s, p) = Newest(s, m)
  <2>1. CASE p.maxBytes = NoBound
    BY <1>2, <1>4, <2>1 DEF ApplySizeBounds
  <2>2. CASE p.maxBytes # NoBound
    <3>1. PICK w : Weighs(t, w)
      BY <1>5, WeightsExist
    <3>2. PICK m \in 0..Len(t) : BoundBytes(t, p.maxBytes) = Newest(t, m)
      BY <1>1, <1>5, <2>2, <3>1, BoundBytesLongest
    <3>3. Newest(t, m) = Newest(s, m)
      BY <1>4, <1>5, <3>2, NewestOfNewest
    <3>4. m \in 0..Len(s)
      BY <1>3, <1>5
    <3> QED
      BY <1>2, <2>2, <3>2, <3>3, <3>4 DEF ApplySizeBounds
  <2> QED
    BY <2>1, <2>2
<1> QED
  BY <1>6 DEF ApplySizeBounds

-----------------------------------------------------------------------------
(* What retention and pruning leave is part of the log, in its order.      *)

IsPart(f, s) == \E h : Embeds(h, f, s)

(* The newest records are a part of the sequence, in its order.            *)
LEMMA NewestIsPart ==
    ASSUME NEW X, NEW s \in Seq(X), NEW m \in 0..Len(s)
    PROVE  IsPart(Newest(s, m), s)
<1>1. Len(s) \in Nat /\ m \in Nat /\ m <= Len(s)
  BY LenProperties
<1>2. PICK f : f = Newest(s, m)
  OBVIOUS
<1>3. Len(f) = m /\ \A i \in 1..m : f[i] = s[Len(s) - m + i]
  BY <1>2, NewestPlaces
<1>4. PICK h : h = [i \in 1..m |-> Len(s) - m + i]
  OBVIOUS
<1>5. \A i \in 1..m : h[i] = Len(s) - m + i /\ h[i] \in 1..Len(s)
  BY <1>1, <1>4
<1>6. h \in [1..m -> 1..Len(s)]
  BY <1>4, <1>5
<1>7. \A i, j \in 1..m : i < j => h[i] < h[j]
  BY <1>1, <1>5
<1>8. Embeds(h, f, s)
  BY <1>3, <1>5, <1>6, <1>7 DEF Embeds
<1> QED
  BY <1>2, <1>8 DEF IsPart

(* A part of a part is a part.                                             *)
LEMMA PartOfPart ==
    ASSUME NEW a, NEW b, NEW c, IsPart(a, b), IsPart(b, c),
           Len(a) \in Nat, Len(b) \in Nat, Len(c) \in Nat
    PROVE  IsPart(a, c)
<1>1. PICK g : Embeds(g, a, b)
  BY DEF IsPart
<1>2. PICK h : Embeds(h, b, c)
  BY DEF IsPart
<1>3. PICK k : k = [i \in 1..Len(a) |-> h[g[i]]]
  OBVIOUS
<1>4. \A i \in 1..Len(a) : /\ g[i] \in 1..Len(b) /\ k[i] = h[g[i]]
                           /\ h[g[i]] \in 1..Len(c) /\ a[i] = b[g[i]]
                           /\ b[g[i]] = c[h[g[i]]]
  BY <1>1, <1>2, <1>3 DEF Embeds
<1>5. k \in [1..Len(a) -> 1..Len(c)]
  BY <1>3, <1>4
<1>6. ASSUME NEW i \in 1..Len(a), NEW j \in 1..Len(a), i < j
      PROVE  k[i] < k[j]
  <2>1. g[i] < g[j]
    BY <1>1, <1>6 DEF Embeds
  <2>2. h[g[i]] < h[g[j]]
    BY <1>2, <1>4, <2>1 DEF Embeds
  <2> QED
    BY <1>4, <2>2
<1>7. Embeds(k, a, c)
  BY <1>4, <1>5, <1>6 DEF Embeds
<1> QED
  BY <1>7 DEF IsPart

(* A part repeats nothing, and has no element of its own.                  *)
LEMMA PartPlaces ==
    ASSUME NEW f, NEW s, IsPart(f, s), Len(f) \in Nat, Len(s) \in Nat
    PROVE  \E h \in [1..Len(f) -> 1..Len(s)] :
              /\ \A i, j \in 1..Len(f) : h[i] = h[j] => i = j
              /\ \A i \in 1..Len(f) : f[i] = s[h[i]]
<1>1. PICK h : Embeds(h, f, s)
  BY DEF IsPart
<1>2. ASSUME NEW i \in 1..Len(f), NEW j \in 1..Len(f), h[i] = h[j]
      PROVE  i = j
  <2>1. h[i] \in 1..Len(s) /\ h[j] \in 1..Len(s)
    BY <1>1 DEF Embeds
  <2>2. ~(i < j) /\ ~(j < i)
    <3>1. (i < j => h[i] < h[j]) /\ (j < i => h[j] < h[i])
      BY <1>1 DEF Embeds
    <3> QED
      BY <1>2, <2>1, <3>1
  <2> QED
    BY <2>2
<1> QED
  BY <1>1, <1>2 DEF Embeds

(* What a filter keeps is a part of the sequence, in its order.            *)
LEMMA FilterIsPart ==
    ASSUME NEW X, NEW s \in Seq(X), NEW S
    PROVE  Filter(s, S) \in Seq(X) /\ IsPart(Filter(s, S), s)
<1> QED
  BY FilterType, FilterOrder DEF IsPart

(* What the size bounds keep is a part of the records.                     *)
LEMMA SizeBoundsKeepPart ==
    ASSUME NEW X, Sized(X), NEW s \in Seq(X), NEW p \in AutoPolicies
    PROVE  ApplySizeBounds(s, p) \in Seq(X) /\ IsPart(ApplySizeBounds(s, p), s)
<1>1. PICK m \in 0..Len(s) : ApplySizeBounds(s, p) = Newest(s, m)
  BY SizeBoundsKeepSuffix
<1> QED
  BY <1>1, NewestPlaces, NewestIsPart

(* keep_most_recent and keep_older_than of `prune`.                        *)
LEMMA PruneKeepsPart ==
    ASSUME NEW X, NEW s \in Seq(X), NEW n \in Nat, NEW cutoff
    PROVE  /\ KeepMostRecent(s, n) \in Seq(X)
           /\ IsPart(KeepMostRecent(s, n), s)
           /\ KeepOlderThan(s, cutoff) \in Seq(X)
           /\ IsPart(KeepOlderThan(s, cutoff), s)
<1>1. Len(s) \in Nat /\ Len(s) \in 0..Len(s)
  BY LenProperties
<1>2. PICK m \in 0..Len(s) : MostRecent(s, n) = Newest(s, m)
  <2>1. CASE Len(s) > n
    <3>1. n \in 0..Len(s)
      BY <1>1, <2>1
    <3> QED
      BY <2>1, <3>1, MostRecentNewest
  <2>2. CASE Len(s) <= n
    BY <1>1, <2>2, MostRecentNewest, NewestAll
  <2> QED
    BY <1>1, <2>1, <2>2
<1>3. MostRecent(s, n) \in Seq(X) /\ IsPart(MostRecent(s, n), s)
  BY <1>2, NewestPlaces, NewestIsPart
<1> QED
  BY <1>3, FilterIsPart DEF KeepMostRecent, KeepOlderThan

(* retain_events: part of the log, and without a hard bound all of it that *)
(* was not delivered.                                                      *)
LEMMA RetainEventsKeepsPart ==
    ASSUME NEW X, Sized(X), NEW s \in Seq(X), NEW p \in AutoPolicies,
           NEW D, NEW time
    PROVE  /\ RetainEvents(s, D, p, time) \in Seq(X)
           /\ IsPart(RetainEvents(s, D, p, time), s)
           /\ (/\ p.maxAge = NoBound
               /\ p.maxCount = NoBound /\ p.maxBytes = NoBound)
              => \A i \in 1..Len(s) : s[i].id \notin D =>
                    \E j \in 1..Len(RetainEvents(s, D, p, time)) :
                       RetainEvents(s, D, p, time)[j] = s[i]
<1>1. PICK S : S = {r \in ToSet(s) : OutlivesAge(r, D, p, time)}
  OBVIOUS
<1>2. PICK t : t = Filter(s, S)
  OBVIOUS
<1>3. RetainEvents(s, D, p, time) = ApplySizeBounds(t, p)
  BY <1>1, <1>2 DEF RetainEvents
<1>4. t \in Seq(X) /\ IsPart(t, s)
  BY <1>2, FilterIsPart
<1>5. ApplySizeBounds(t, p) \in Seq(X) /\ IsPart(ApplySizeBounds(t, p), t)
  BY <1>4, SizeBoundsKeepPart
<1>6. IsPart(ApplySizeBounds(t, p), s)
  <2>1. /\ Len(s) \in Nat /\ Len(t) \in Nat
        /\ Len(ApplySizeBounds(t, p)) \in Nat
    BY <1>4, <1>5, LenProperties
  <2> QED
    BY <1>4, <1>5, <2>1, PartOfPart
<1>7. ASSUME p.maxAge = NoBound, p.maxCount = NoBound, p.maxBytes = NoBound,
             NEW i \in 1..Len(s), s[i].id \notin D
      PROVE  \E j \in 1..Len(t) : ApplySizeBounds(t, p) = t /\ t[j] = s[i]
  <2>1. ApplySizeBounds(t, p) = t
    BY <1>4, <1>7, SizeBoundsKeepSuffix
  <2>2. s[i] \in ToSet(s)
    BY LenProperties DEF ToSet
  <2>3. OutlivesAge(s[i], D, p, time)
    BY <1>7 DEF OutlivesAge, Exceeds
  <2>4. s[i] \in {s[k] : k \in 1..Len(s)} \cap S
    BY <1>1, <2>2, <2>3
  <2>5. s[i] \in {t[j] : j \in 1..Len(t)}
    BY <1>2, <2>4, FilterElements
  <2> QED
    BY <2>1, <2>5
<1> QED
  BY <1>3, <1>5, <1>6, <1>7

(* Retention of the dead-trigger queue keeps a part of it, in its order.   *)
LEMMA RetainDeadTriggersKeepsPart ==
    ASSUME NEW X, Sized(X), NEW s \in Seq(X), NEW p \in AutoPolicies, NEW time
    PROVE  /\ RetainDeadTriggers(s, p, time) \in Seq(X)
           /\ IsPart(RetainDeadTriggers(s, p, time), s)
<1>1. PICK t : t = Filter(s, {r \in ToSet(s) : ~Exceeds(time - r.ts, p.maxAge)})
  OBVIOUS
<1>2. RetainDeadTriggers(s, p, time) = ApplySizeBounds(t, p)
  BY <1>1 DEF RetainDeadTriggers
<1>3. t \in Seq(X) /\ IsPart(t, s)
  BY <1>1, FilterIsPart
<1>4. ApplySizeBounds(t, p) \in Seq(X) /\ IsPart(ApplySizeBounds(t, p), t)
  BY <1>3, SizeBoundsKeepPart
<1>5. IsPart(ApplySizeBounds(t, p), s)
  <2>1. /\ Len(s) \in Nat /\ Len(t) \in Nat
        /\ Len(ApplySizeBounds(t, p)) \in Nat
    BY <1>3, <1>4, LenProperties
  <2> QED
    BY <1>3, <1>4, <2>1, PartOfPart
<1> QED
  BY <1>2, <1>4, <1>5
=============================================================================
