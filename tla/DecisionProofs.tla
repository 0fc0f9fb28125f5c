--------------------------- MODULE DecisionProofs ---------------------------
(***************************************************************************)
(* Proofs about the pure decisions, for any log, policy, setting, retry,   *)
(* trigger configuration and chain of events: a sweep keeps the longest    *)
(* run of newest records that fits, an undelivered event goes only by a    *)
(* hard bound, the back-off doubles up to its cap, settings are refused or *)
(* taken as written, chains keep what their root carried, and triggers     *)
(* fire in the order of their priorities.                                  *)
(***************************************************************************)
EXTENDS Decisions, RetentionLemmas, FiniteSetTheorems

(* The recursive function in the definition of Total.                      *)
Sums(s, f) ==
    f = [n \in 0..Len(s) |->
            IF n = 0 THEN 0 ELSE f[n - 1] + s[Len(s) + 1 - n].size]

(* The weights of a suffix are those of the sequence.                      *)
LEMMA WeightsOfNewest ==
    ASSUME NEW X, NEW s \in Seq(X), NEW n \in 0..Len(s),
           NEW w, Weighs(s, w), NEW v, Weighs(Newest(s, n), v)
    PROVE  \A m \in 0..n : v[m] = w[m]
<1>1. Len(s) \in Nat /\ n \in Nat /\ n <= Len(s)
  BY LenProperties
<1>2. PICK t : t = Newest(s, n)
  OBVIOUS
<1>3. /\ Len(t) = n /\ Weighs(t, v)
      /\ \A i \in 1..n : t[i] = s[Len(s) - n + i]
  BY <1>2, NewestPlaces
<1> DEFINE T == {m \in Nat : m <= n => v[m] = w[m]}
<1>4. 0 \in T
  BY <1>3 DEF Weighs
<1>5. ASSUME NEW m \in Nat, m \in T PROVE m + 1 \in T
  <2>1. SUFFICES ASSUME m + 1 <= n PROVE v[m + 1] = w[m + 1]
    OBVIOUS
  <2>2. /\ m + 1 \in 1..n /\ m + 1 \in 1..Len(s) /\ (m + 1) - 1 = m
        /\ n + 1 - (m + 1) \in 1..n
        /\ Len(s) - n + (n + 1 - (m + 1)) = Len(s) + 1 - (m + 1)
    BY <1>1, <2>1
  <2>3. v[m + 1] = v[m] + t[n + 1 - (m + 1)].size
    BY <1>3, <2>2 DEF Weighs
  <2>4. w[m + 1] = w[m] + s[Len(s) + 1 - (m + 1)].size
    BY <2>2 DEF Weighs
  <2>5. t[n + 1 - (m + 1)] = s[Len(s) + 1 - (m + 1)]
    BY <1>3, <2>2
  <2>6. v[m] = w[m]
    BY <1>1, <1>5, <2>1
  <2> QED
    BY <2>3, <2>4, <2>5, <2>6
<1> HIDE DEF T
<1>6. Nat \subseteq T
  BY <1>4, <1>5, Induction
<1> QED
  BY <1>1, <1>6 DEF T

(* Total is the weight of the whole.                                       *)
LEMMA TotalWeighs ==
    ASSUME NEW X, Sized(X), NEW s \in Seq(X), NEW w, Weighs(s, w)
    PROVE  Total(s) = w[Len(s)]
<1>1. Len(s) \in Nat
  BY LenProperties
<1>2. Sums(s, w)
  <2>1. PICK u : u = [n \in 0..Len(s) |->
                        IF n = 0 THEN 0 ELSE w[n - 1] + s[Len(s) + 1 - n].size]
    OBVIOUS
  <2>2. \A n \in 0..Len(s) : w[n] = u[n]
    BY <1>1, <2>1 DEF Weighs
  <2>3. w = u
    BY <2>1, <2>2 DEF Weighs
  <2> QED
    BY <2>1, <2>3 DEF Sums
<1>3. PICK f : f = CHOOSE g : Sums(s, g)
  OBVIOUS
<1>4. Sums(s, f)
  BY <1>2, <1>3
<1>5. Total(s) = f[Len(s)]
  BY <1>3 DEF Total, Sums
<1> DEFINE T == {m \in Nat : m <= Len(s) => f[m] = w[m]}
<1>6. 0 \in T
  BY <1>1, <1>4 DEF Weighs, Sums
<1>7. ASSUME NEW m \in Nat, m \in T PROVE m + 1 \in T
  <2>1. SUFFICES ASSUME m + 1 <= Len(s) PROVE f[m + 1] = w[m + 1]
    OBVIOUS
  <2>2. /\ m + 1 \in 1..Len(s) /\ m + 1 \in 0..Len(s) /\ (m + 1) - 1 = m
        /\ m + 1 # 0
    BY <1>1, <2>1
  <2>3. f[m + 1] = f[m] + s[Len(s) + 1 - (m + 1)].size
    BY <1>4, <2>2 DEF Sums
  <2>4. w[m + 1] = w[m] + s[Len(s) + 1 - (m + 1)].size
    BY <2>2 DEF Weighs
  <2>5. f[m] = w[m]
    BY <1>1, <1>7, <2>1
  <2> QED
    BY <2>3, <2>4, <2>5
<1> HIDE DEF T
<1>8. Len(s) \in T
  BY <1>1, <1>6, <1>7, Induction
<1> QED
  BY <1>1, <1>5, <1>8 DEF T

(* The total of a suffix is its weight in the sequence.                    *)
LEMMA TotalOfNewest ==
    ASSUME NEW X, Sized(X), NEW s \in Seq(X), NEW w, Weighs(s, w),
           NEW n \in 0..Len(s)
    PROVE  Len(Newest(s, n)) = n /\ Total(Newest(s, n)) = w[n]
<1>1. PICK t : t = Newest(s, n)
  OBVIOUS
<1>2. t \in Seq(X) /\ Len(t) = n
  BY <1>1, NewestPlaces
<1>3. PICK v : Weighs(t, v)
  BY <1>2, WeightsExist
<1>4. n \in 0..n
  BY LenProperties
<1>5. v[n] = w[n]
  BY <1>1, <1>3, <1>4, WeightsOfNewest
<1>6. Total(t) = v[Len(t)]
  BY <1>2, <1>3, TotalWeighs
<1> QED
  BY <1>1, <1>2, <1>5, <1>6

-----------------------------------------------------------------------------
(* The size bounds.                                                        *)

(* With w the weights of s: n newest records fit.                          *)
Fits(n, w, p) == ~Exceeds(n, p.maxCount) /\ ~Exceeds(w[n], p.maxBytes)

(* The count and byte bounds keep the longest run of newest records that   *)
(* fits both.                                                              *)
LEMMA SizeBoundsLongest ==
    ASSUME NEW X, Sized(X), NEW s \in Seq(X), NEW p \in AutoPolicies,
           NEW w, Weighs(s, w)
    PROVE  \E m \in 0..Len(s) :
              /\ ApplySizeBounds(s, p) = Newest(s, m)
              /\ Fits(m, w, p)
              /\ \A n \in 0..Len(s) : Fits(n, w, p) => n <= m
<1>1. /\ p.maxCount # NoBound => p.maxCount \in Nat
      /\ p.maxBytes # NoBound => p.maxBytes \in Nat
      /\ Len(s) \in Nat /\ NoBound = -1
  BY LenProperties DEF AutoPolicies, Bounds, NoBound
<1>2. PICK t : t = IF p.maxCount = NoBound THEN s ELSE MostRecent(s, p.maxCount)
  OBVIOUS
<1>3. PICK n \in 0..Len(s) :
         /\ t = Newest(s, n)
         /\ ~Exceeds(n, p.maxCount)
         /\ \A k \in 0..Len(s) : ~Exceeds(k, p.maxCount) => k <= n
  <2>1. CASE p.maxCount = NoBound \/ Len(s) <= p.maxCount
    <3>1. t = s
      BY <1>1, <1>2, <2>1, MostRecentNewest
    <3>2. t = Newest(s, Len(s)) /\ Len(s) \in 0..Len(s)
      BY <1>1, <3>1, NewestAll
    <3>3. ~Exceeds(Len(s), p.maxCount)
      BY <1>1, <2>1 DEF Exceeds
    <3> QED
      BY <1>1, <3>2, <3>3
  <2>2. CASE ~(p.maxCount = NoBound \/ Len(s) <= p.maxCount)
    <3>1. p.maxCount \in 0..Len(s) /\ Len(s) > p.maxCount
      BY <1>1, <2>2
    <3>2. t = Newest(s, p.maxCount)
      BY <1>1, <1>2, <2>2, <3>1, MostRecentNewest
    <3>3. /\ ~Exceeds(p.maxCount, p.maxCount)
          /\ \A k \in 0..Len(s) : ~Exceeds(k, p.maxCount) => k <= p.maxCount
      BY <1>1, <2>2, <3>1 DEF Exceeds
    <3> QED
      BY <3>1, <3>2, <3>3
  <2> QED
    BY <2>1, <2>2
<1>4. n \in Nat /\ n <= Len(s)
  BY <1>1
<1>5. CASE p.maxBytes = NoBound
  <2>1. ApplySizeBounds(s, p) = t
    BY <1>2, <1>5 DEF ApplySizeBounds
  <2> QED
    BY <1>3, <1>5, <2>1 DEF Fits, Exceeds
<1>6. CASE p.maxBytes # NoBound
  <2>1. ApplySizeBounds(s, p) = BoundBytes(t, p.maxBytes)
    BY <1>2, <1>6 DEF ApplySizeBounds
  <2>2. t \in Seq(X) /\ Len(t) = n
    BY <1>3, NewestPlaces
  <2>3. PICK v : Weighs(t, v)
    BY <2>2, WeightsExist
  <2>4. \A m \in 0..n : v[m] = w[m] /\ w[m] \in Nat
    <3>1. \A m \in 0..n : v[m] = w[m]
      <4>1. n \in 0..Len(s) /\ Weighs(Newest(s, n), v)
        BY <1>3, <2>3
      <4> QED
        BY <4>1, WeightsOfNewest
    <3>2. \A m \in 0..n : w[m] \in Nat
      BY <1>1, <1>4 DEF Weighs
    <3> QED
      BY <3>1, <3>2
  <2>5. p.maxBytes \in Nat
    BY <1>1, <1>6
  <2>6. PICK m \in 0..Len(t) :
           /\ BoundBytes(t, p.maxBytes) = Newest(t, m)
           /\ v[m] <= p.maxBytes
           /\ \A k \in 0..Len(t) : v[k] <= p.maxBytes => k <= m
    BY <2>2, <2>3, <2>5, BoundBytesLongest
  <2>7. m \in 0..n /\ m \in 0..Len(s) /\ m <= n
    BY <1>1, <1>4, <2>2
  <2>8. Newest(t, m) = Newest(s, m)
    BY <1>3, <2>7, NewestOfNewest
  <2>9. Fits(m, w, p)
    <3>1. ~Exceeds(m, p.maxCount)
      BY <1>1, <1>3, <1>4, <2>7 DEF Exceeds
    <3> QED
      BY <2>4, <2>5, <2>6, <2>7, <3>1 DEF Fits, Exceeds
  <2>10. ASSUME NEW k \in 0..Len(s), Fits(k, w, p) PROVE k <= m
    <3>1. k <= n
      BY <1>3, <2>10 DEF Fits
    <3>2. k \in 0..n
      BY <1>1, <1>4, <3>1
    <3>3. w[k] <= p.maxBytes
      BY <1>6, <2>4, <2>5, <2>10, <3>2 DEF Fits, Exceeds
    <3> QED
      BY <2>2, <2>4, <2>6, <3>2, <3>3
  <2> QED
    BY <2>1, <2>6, <2>7, <2>8, <2>9, <2>10
<1> QED
  BY <1>5, <1>6

(* The suffixes of a sequence are its newest elements.                     *)
LEMMA SuffixesAreNewest ==
    ASSUME NEW X, NEW s \in Seq(X)
    PROVE  SuffixesOf(s) = {Newest(s, n) : n \in 0..Len(s)}
<1>1. Len(s) \in Nat
  BY LenProperties
<1>2. ASSUME NEW i \in 1..(Len(s) + 1)
      PROVE  \E n \in 0..Len(s) : SubSeq(s, i, Len(s)) = Newest(s, n)
  <2>1. /\ Len(s) + 1 - i \in 0..Len(s)
        /\ Len(s) + 1 - (Len(s) + 1 - i) = i
    BY <1>1
  <2> QED
    BY <2>1 DEF Newest
<1>3. ASSUME NEW n \in 0..Len(s)
      PROVE  \E i \in 1..(Len(s) + 1) : SubSeq(s, i, Len(s)) = Newest(s, n)
  <2>1. Len(s) + 1 - n \in 1..(Len(s) + 1)
    BY <1>1
  <2> QED
    BY <2>1 DEF Newest
<1> QED
  BY <1>2, <1>3 DEF SuffixesOf

(* apply_size_bounds, for any records and any policy: it keeps the longest *)
(* run of newest records that satisfies both bounds.                       *)
THEOREM SizeBoundsKeepLongest ==
    ASSUME NEW X, Sized(X), NEW s \in Seq(X), NEW p \in AutoPolicies
    PROVE  IsLongestFitting(ApplySizeBounds(s, p), s, p)
<1>1. PICK w : Weighs(s, w)
  BY WeightsExist
<1>2. PICK m \in 0..Len(s) :
         /\ ApplySizeBounds(s, p) = Newest(s, m)
         /\ Fits(m, w, p)
         /\ \A n \in 0..Len(s) : Fits(n, w, p) => n <= m
  BY <1>1, SizeBoundsLongest
<1>3. \A n \in 0..Len(s) :
         /\ Len(Newest(s, n)) = n
         /\ FitsSizes(Newest(s, n), p) <=> Fits(n, w, p)
  BY <1>1, TotalOfNewest DEF FitsSizes, Fits
<1>4. PICK Y : Y = SuffixesOf(s)
  OBVIOUS
<1>5. Y = {Newest(s, n) : n \in 0..Len(s)}
  BY <1>4, SuffixesAreNewest
<1>6. \A u \in Y : FitsSizes(u, p) => Len(u) <= Len(Newest(s, m))
  BY <1>2, <1>3, <1>5
<1>7. Newest(s, m) \in Y /\ FitsSizes(Newest(s, m), p)
  BY <1>2, <1>3, <1>5
<1> QED
  BY <1>2, <1>4, <1>6, <1>7 DEF IsLongestFitting

-----------------------------------------------------------------------------
(* The sweeps.                                                             *)

LogRecords == [id : Nat, ts : Nat, size : Nat]

Distinct(s) == \A i, j \in 1..Len(s) : s[i] = s[j] => i = j

(* What a sweep starts from: records that differ, a policy, and a part of  *)
(* the log that earlier sweeps left.                                       *)
SweepOK ==
    /\ log \in Seq(LogRecords)
    /\ Distinct(log)
    /\ policy \in AutoPolicies
    /\ now \in Nat
    /\ kept \in Seq(LogRecords)
    /\ IsPart(kept, log)

(* The records of a log have sizes, which the lemmas ask for.              *)
LEMMA LogRecordsSized == Sized(LogRecords)
BY DEF Sized, LogRecords

(* A log is part of itself.                                                *)
LEMMA IsPartOfItself ==
    ASSUME NEW X, NEW s \in Seq(X)
    PROVE  IsPart(s, s)
<1>1. Len(s) \in Nat
  BY LenProperties
<1>2. PICK h : h = [i \in 1..Len(s) |-> i]
  OBVIOUS
<1>3. Embeds(h, s, s)
  BY <1>1, <1>2 DEF Embeds
<1> QED
  BY <1>3 DEF IsPart

(* Every input a sweep starts from is well formed.                         *)
LEMMA SweepInit == Init => SweepOK
<1>1. SUFFICES ASSUME Init PROVE SweepOK
  OBVIOUS
<1>2. PICK n \in 0..MaxLen : log \in LogsOf(n)
  <2>1. 0 \in 0..MaxLen /\ 1..0 = {}
    BY DecisionsAssumption
  <2>2. CASE SweepCase
    BY <2>2 DEF SweepCase
  <2>3. CASE NoSweepCase
    <3>1. log = <<>>
      BY <2>3 DEF NoSweepCase
    <3>2. log \in LogsOf(0)
      BY <2>1, <3>1 DEF LogsOf
    <3> QED
      BY <2>1, <3>2
  <2> QED
    BY <1>1, <2>2, <2>3 DEF Init
<1>3. /\ log \in [1..n -> [id : 1..n, ts : 0..MaxTime, size : 1..MaxSize]]
      /\ \A i \in 1..n : log[i].id = i
  BY <1>2 DEF LogsOf
<1>4. n \in Nat
  BY DecisionsAssumption
<1>5. [id : 1..n, ts : 0..MaxTime, size : 1..MaxSize] \subseteq LogRecords
  BY <1>4, DecisionsAssumption DEF LogRecords
<1>6. log \in [1..n -> LogRecords]
  BY <1>3, <1>5
<1>7. log \in Seq(LogRecords)
  BY <1>4, <1>6, SeqDef
<1>8. Len(log) = n
  BY <1>4, <1>6, <1>7, LenProperties
<1>9. Distinct(log)
  BY <1>3, <1>8 DEF Distinct
<1>10. policy \in AutoPolicies
  <2>1. CASE SweepCase
    BY <2>1, DecisionsAssumption DEF SweepCase
  <2>2. CASE NoSweepCase
    BY <2>2 DEF NoSweepCase, AutoPolicies, Bounds
  <2> QED
    BY <1>1, <2>1, <2>2 DEF Init
<1>11. now \in Nat /\ kept = log
  BY <1>1, DecisionsAssumption DEF Init
<1>12. IsPart(kept, log)
  BY <1>7, <1>11, IsPartOfItself
<1> QED
  BY <1>7, <1>9, <1>10, <1>11, <1>12 DEF SweepOK

(* Every behaviour satisfies the invariant.                                *)
LEMMA SweepInvariance == Spec => []SweepOK
<1>1. SweepOK /\ [Next]_vars => SweepOK'
  <2>1. SUFFICES ASSUME SweepOK, [Next]_vars PROVE SweepOK'
    OBVIOUS
  <2>2. CASE Sweep
    <3>1. PICK r : r = RetainEvents(kept, delivered, policy, now)
      OBVIOUS
    <3>2. r \in Seq(LogRecords) /\ IsPart(r, kept)
      BY <2>1, <3>1, LogRecordsSized, RetainEventsKeepsPart DEF SweepOK
    <3>3. Len(r) \in Nat /\ Len(kept) \in Nat /\ Len(log) \in Nat
      BY <2>1, <3>2, LenProperties DEF SweepOK
    <3>4. IsPart(r, log)
      BY <2>1, <3>2, <3>3, PartOfPart DEF SweepOK
    <3>5. kept' = r /\ log' = log /\ policy' = policy /\ now' = now
      BY <2>2, <3>1 DEF Sweep
    <3> QED
      BY <2>1, <3>2, <3>4, <3>5 DEF SweepOK, Distinct
  <2>3. CASE Later
    BY <2>1, <2>3, DecisionsAssumption DEF Later, SweepOK, Distinct
  <2>4. CASE UNCHANGED sweepVars
    BY <2>1, <2>4 DEF sweepVars, SweepOK, Distinct
  <2> QED
    BY <2>1, <2>2, <2>3, <2>4 DEF Next, Retry, Emit, vars, sweepVars
<1> QED
  BY <1>1, SweepInit, PTL DEF Spec

(* Every sweep keeps the longest run of newest records that satisfies both *)
(* size bounds, out of those that no age bound removes.                    *)
THEOREM SweepKeepsLongest == Spec => []KeepsLongestFittingSuffix
<1>1. ASSUME SweepOK PROVE KeepsLongestFittingSuffix
  <2>1. PICK a : a = Filter(log, {r \in ToSet(log) :
                                    OutlivesAge(r, delivered, policy, now)})
    OBVIOUS
  <2>2. a \in Seq(LogRecords)
    BY <1>1, <2>1, FilterType DEF SweepOK
  <2>3. IsLongestFitting(ApplySizeBounds(a, policy), a, policy)
    BY <1>1, <2>2, LogRecordsSized, SizeBoundsKeepLongest DEF SweepOK
  <2> QED
    BY <2>1, <2>3 DEF KeepsLongestFittingSuffix, RetainEvents
<1> QED
  BY <1>1, SweepInvariance, PTL
-----------------------------------------------------------------------------
(* Undelivered events.                                                     *)

(* What a part of a log holds from one of its records on weighs no more    *)
(* than what the log holds from that record on.                            *)
LEMMA PartWeighsLess ==
    ASSUME NEW X, Sized(X), NEW s \in Seq(X), NEW f \in Seq(X),
           NEW w, Weighs(s, w), NEW v, Weighs(f, v),
           NEW h, Embeds(h, f, s)
    PROVE  \A n \in 1..Len(f) :
              v[n] <= w[Len(s) + 1 - h[Len(f) + 1 - n]]
<1>1. PICK N, M : N = Len(f) /\ M = Len(s)
  OBVIOUS
<1>2. N \in Nat /\ M \in Nat
  BY <1>1, LenProperties
<1>3. \A k \in 1..N : h[k] \in 1..M /\ f[k] = s[h[k]]
  BY <1>1 DEF Embeds
<1>4. \A k \in 0..M : w[k] \in Nat
  BY <1>1 DEF Weighs
<1> DEFINE T == {n \in Nat : n + 1 <= N => v[n + 1] <= w[M + 1 - h[N - n]]}
<1>5. ASSUME NEW n \in Nat, n + 1 <= N
      PROVE  /\ N - n \in 1..N /\ h[N - n] \in 1..M
             /\ M + 1 - h[N - n] \in 1..M /\ M - h[N - n] \in 0..M
             /\ v[n + 1] = v[n] + s[h[N - n]].size
             /\ w[M + 1 - h[N - n]] = w[M - h[N - n]] + s[h[N - n]].size
             /\ s[h[N - n]].size \in Nat
  <2>1. N - n \in 1..N /\ n + 1 \in 1..N /\ (n + 1) - 1 = n
        /\ N + 1 - (n + 1) = N - n
    BY <1>2, <1>5
  <2>2. PICK k : k = h[N - n]
    OBVIOUS
  <2>3. k \in 1..M /\ f[N - n] = s[k]
    BY <1>3, <2>1, <2>2
  <2>4. v[n + 1] = v[n] + f[N - n].size
    BY <1>1, <2>1 DEF Weighs
  <2>5. /\ M + 1 - k \in 1..M /\ M - k \in 0..M
        /\ (M + 1 - k) - 1 = M - k /\ M + 1 - (M + 1 - k) = k
    BY <1>2, <2>3
  <2>6. w[M + 1 - k] = w[M - k] + s[k].size
    BY <1>1, <2>5 DEF Weighs
  <2>7. s[k].size \in Nat
    BY <1>1, <2>3, ElementOfSeq DEF Sized
  <2> QED
    BY <2>1, <2>2, <2>3, <2>4, <2>5, <2>6, <2>7
<1>6. 0 \in T
  <2>1. SUFFICES ASSUME 1 <= N PROVE v[1] <= w[M + 1 - h[N]]
    BY <1>2
  <2>2. N - 0 = N /\ 0 + 1 = 1 /\ v[0] = 0
    BY <1>2 DEF Weighs
  <2>3. /\ M - h[N] \in 0..M
        /\ v[1] = v[0] + s[h[N]].size
        /\ w[M + 1 - h[N]] = w[M - h[N]] + s[h[N]].size
        /\ s[h[N]].size \in Nat
    BY <1>5, <2>1, <2>2
  <2> QED
    BY <1>4, <2>2, <2>3
<1>7. ASSUME NEW n \in Nat, n \in T PROVE n + 1 \in T
  <2>1. SUFFICES ASSUME (n + 1) + 1 <= N
                 PROVE  v[(n + 1) + 1] <= w[M + 1 - h[N - (n + 1)]]
    OBVIOUS
  <2>2. n + 1 \in Nat /\ n + 1 <= N /\ N - (n + 1) < N - n
    BY <1>2, <2>1
  <2>3. PICK a, b : a = h[N - (n + 1)] /\ b = h[N - n]
    OBVIOUS
  <2>4. /\ a \in 1..M /\ M - a \in 0..M /\ N - (n + 1) \in 1..N
        /\ v[(n + 1) + 1] = v[n + 1] + s[a].size
        /\ w[M + 1 - a] = w[M - a] + s[a].size
        /\ s[a].size \in Nat
    BY <1>5, <2>1, <2>2, <2>3
  <2>5. b \in 1..M /\ N - n \in 1..N /\ M + 1 - b \in 0..M
    BY <1>2, <1>5, <2>2, <2>3
  <2>6. a < b
    BY <1>1, <2>2, <2>3, <2>4, <2>5 DEF Embeds
  <2>7. M + 1 - b <= M - a
    BY <1>2, <2>4, <2>5, <2>6
  <2>8. w[M + 1 - b] <= w[M - a]
    BY <1>1, <2>4, <2>5, <2>7, WeightsGrow
  <2>9. v[n + 1] <= w[M + 1 - b]
    BY <1>7, <2>2, <2>3
  <2>10. v[n + 1] \in Nat
    BY <1>1, <1>2, <2>2 DEF Weighs
  <2> QED
    <3>1. w[M + 1 - b] \in Nat /\ w[M - a] \in Nat
      BY <1>4, <2>4, <2>5
    <3>2. \A k, x, y, z \in Nat :
             k <= x /\ x <= y => k + z <= y + z
      OBVIOUS
    <3>3. v[n + 1] + s[a].size <= w[M - a] + s[a].size
      BY <2>4, <2>8, <2>9, <2>10, <3>1, <3>2
    <3>4. v[(n + 1) + 1] <= w[M + 1 - a]
      BY <2>4, <3>3
    <3> QED
      BY <2>3, <3>4
<1> HIDE DEF T
<1>8. Nat \subseteq T
  BY <1>6, <1>7, Induction
<1>9. ASSUME NEW n \in 1..N PROVE v[n] <= w[M + 1 - h[N + 1 - n]]
  <2>1. n - 1 \in Nat /\ (n - 1) + 1 = n /\ N - (n - 1) = N + 1 - n /\ n <= N
    BY <1>2
  <2>2. n - 1 \in T
    BY <1>8, <2>1
  <2> QED
    BY <2>1, <2>2 DEF T
<1> QED
  BY <1>1, <1>9

(* A part of a log holds no more records from one of them on than the log. *)
LEMMA PartIsShorter ==
    ASSUME NEW X, NEW s \in Seq(X), NEW f \in Seq(X), NEW h, Embeds(h, f, s)
    PROVE  \A n \in 1..Len(f) : n <= Len(s) + 1 - h[Len(f) + 1 - n]
<1>1. PICK N, M : N = Len(f) /\ M = Len(s)
  OBVIOUS
<1>2. N \in Nat /\ M \in Nat
  BY <1>1, LenProperties
<1>3. \A k \in 1..N : h[k] \in 1..M
  BY <1>1 DEF Embeds
<1> DEFINE T == {n \in Nat : n + 1 <= N => n + 1 <= M + 1 - h[N - n]}
<1>4. 0 \in T
  <2>1. SUFFICES ASSUME 1 <= N PROVE 1 <= M + 1 - h[N]
    BY <1>2
  <2>2. h[N] \in 1..M
    BY <1>2, <1>3, <2>1
  <2> QED
    BY <1>2, <2>2
<1>5. ASSUME NEW n \in Nat, n \in T PROVE n + 1 \in T
  <2>1. SUFFICES ASSUME (n + 1) + 1 <= N
                 PROVE  (n + 1) + 1 <= M + 1 - h[N - (n + 1)]
    OBVIOUS
  <2>2. /\ N - (n + 1) \in 1..N /\ N - n \in 1..N /\ N - (n + 1) < N - n
        /\ n + 1 <= N
    BY <1>2, <2>1
  <2>3. PICK a, b : a = h[N - (n + 1)] /\ b = h[N - n]
    OBVIOUS
  <2>4. a < b /\ a \in 1..M /\ b \in 1..M
    BY <1>1, <1>3, <2>2, <2>3 DEF Embeds
  <2>5. n + 1 <= M + 1 - b
    BY <1>5, <2>2, <2>3
  <2>6. (n + 1) + 1 <= M + 1 - a
    BY <1>2, <2>4, <2>5
  <2> QED
    BY <2>3, <2>6
<1> HIDE DEF T
<1>6. Nat \subseteq T
  BY <1>4, <1>5, Induction
<1>7. ASSUME NEW n \in 1..N PROVE n <= M + 1 - h[N + 1 - n]
  <2>1. n - 1 \in Nat /\ (n - 1) + 1 = n /\ N - (n - 1) = N + 1 - n /\ n <= N
    BY <1>2
  <2>2. n - 1 \in T
    BY <1>6, <2>1
  <2> QED
    BY <2>1, <2>2 DEF T
<1> QED
  BY <1>1, <1>7

(* The m newest elements include any that has fewer than m behind it.      *)
LEMMA NewestHolds ==
    ASSUME NEW X, NEW s \in Seq(X), NEW m \in 0..Len(s), NEW k \in 1..Len(s),
           Len(s) + 1 - k <= m
    PROVE  \E j \in 1..Len(Newest(s, m)) : Newest(s, m)[j] = s[k]
<1>1. Len(s) \in Nat
  BY LenProperties
<1>2. PICK g : g = Newest(s, m)
  OBVIOUS
<1>3. Len(g) = m /\ \A i \in 1..m : g[i] = s[Len(s) - m + i]
  BY <1>2, NewestPlaces
<1>4. PICK j : j = m + k - Len(s)
  OBVIOUS
<1>5. j \in 1..m /\ Len(s) - m + j = k
  BY <1>1, <1>4
<1>6. g[j] = s[k]
  BY <1>3, <1>5
<1> QED
  BY <1>2, <1>3, <1>5, <1>6

(* Record i of s is undelivered, younger than the age bound and, with the  *)
(* newer records of s, within the size bounds.                             *)
Entitled(s, i, D, p, time) ==
    /\ s[i].id \notin D
    /\ ~Exceeds(time - s[i].ts, p.maxAge)
    /\ FitsSizes(SubSeq(s, i, Len(s)), p)

(* A sweep of a part of a log keeps every such record of the log.          *)
LEMMA SweepKeepsEntitled ==
    ASSUME NEW X, Sized(X), NEW s \in Seq(X), NEW f \in Seq(X), IsPart(f, s),
           Distinct(s), NEW p \in AutoPolicies, NEW D, NEW time,
           NEW i \in 1..Len(s), Entitled(s, i, D, p, time),
           NEW x \in 1..Len(f), f[x] = s[i]
    PROVE  \E j \in 1..Len(RetainEvents(f, D, p, time)) :
              RetainEvents(f, D, p, time)[j] = s[i]
<1>1. PICK S : S = {r \in ToSet(f) : OutlivesAge(r, D, p, time)}
  OBVIOUS
<1>2. PICK a : a = Filter(f, S)
  OBVIOUS
<1>3. a \in Seq(X) /\ IsPart(a, f)
  BY <1>2, FilterIsPart
<1>4. Len(a) \in Nat /\ Len(f) \in Nat /\ Len(s) \in Nat
  BY <1>3, LenProperties
<1>5. PICK h : Embeds(h, a, s)
  BY <1>3, <1>4, PartOfPart DEF IsPart
<1>6. PICK k \in 1..Len(a) : a[k] = s[i]
  <2>1. f[x] \in ToSet(f)
    BY LenProperties DEF ToSet
  <2>2. OutlivesAge(f[x], D, p, time)
    BY DEF OutlivesAge, Entitled
  <2>3. f[x] \in Range(f) /\ f[x] \in S
    BY <1>1, <2>1, <2>2 DEF ToSet, Range
  <2>4. f[x] \in Range(a)
    BY <1>2, <2>3, FilterRange
  <2>5. Range(a) = {a[y] : y \in 1..Len(a)}
    BY <1>3, RangeEquality
  <2> QED
    BY <2>4, <2>5
<1>7. h[k] = i
  <2>1. h[k] \in 1..Len(s) /\ a[k] = s[h[k]]
    BY <1>5 DEF Embeds
  <2> QED
    BY <1>6, <2>1 DEF Distinct
<1>8. PICK w : Weighs(s, w)
  BY WeightsExist
<1>9. PICK v : Weighs(a, v)
  BY <1>3, WeightsExist
<1>10. PICK n : n = Len(a) + 1 - k
  OBVIOUS
<1>11. n \in 1..Len(a) /\ Len(a) + 1 - n = k /\ n \in 0..Len(a)
  BY <1>4, <1>10
<1>12. PICK l : l = Len(s) + 1 - i
  OBVIOUS
<1>13. l \in 0..Len(s) /\ Len(s) + 1 - l = i /\ l \in Nat
  BY <1>4, <1>12
<1>14. Fits(l, w, p)
  <2>1. SubSeq(s, i, Len(s)) = Newest(s, l)
    BY <1>13 DEF Newest
  <2>2. Len(Newest(s, l)) = l /\ Total(Newest(s, l)) = w[l]
    BY <1>8, <1>13, TotalOfNewest
  <2> QED
    BY <2>1, <2>2 DEF FitsSizes, Fits, Entitled
<1>15. v[n] <= w[l] /\ v[n] \in Nat /\ w[l] \in Nat
  <2>1. v[n] <= w[Len(s) + 1 - h[Len(a) + 1 - n]]
    BY <1>3, <1>5, <1>8, <1>9, <1>11, PartWeighsLess
  <2> QED
    BY <1>7, <1>8, <1>9, <1>11, <1>12, <1>13, <2>1 DEF Weighs
<1>16. n <= l
  <2>1. n <= Len(s) + 1 - h[Len(a) + 1 - n]
    BY <1>3, <1>5, <1>11, PartIsShorter
  <2> QED
    BY <1>7, <1>11, <1>12, <2>1
<1>17. Fits(n, v, p)
  <2>1. /\ p.maxCount # NoBound => p.maxCount \in Nat
        /\ p.maxBytes # NoBound => p.maxBytes \in Nat
    BY DEF AutoPolicies, Bounds
  <2> QED
    <3>1. ~Exceeds(n, p.maxCount)
      BY <1>11, <1>13, <1>14, <1>16, <2>1 DEF Fits, Exceeds
    <3>2. ~Exceeds(v[n], p.maxBytes)
      BY <1>14, <1>15, <2>1 DEF Fits, Exceeds
    <3> QED
      BY <3>1, <3>2 DEF Fits
<1>18. PICK m \in 0..Len(a) : ApplySizeBounds(a, p) = Newest(a, m) /\ n <= m
  BY <1>3, <1>9, <1>11, <1>17, SizeBoundsLongest
<1>19. \E j \in 1..Len(Newest(a, m)) : Newest(a, m)[j] = s[i]
  <2>1. Len(a) + 1 - k <= m
    BY <1>10, <1>18
  <2>2. \E j \in 1..Len(Newest(a, m)) : Newest(a, m)[j] = a[k]
    BY <1>3, <2>1, NewestHolds
  <2> QED
    BY <1>6, <2>2
<1>20. RetainEvents(f, D, p, time) = Newest(a, m)
  BY <1>1, <1>2, <1>18 DEF RetainEvents
<1> QED
  BY <1>19, <1>20

(* However many sweeps run, and however late: an undelivered event leaves  *)
(* the log only when it is older than max_age, or when it and the newer    *)
(* records exceed max_count or max_bytes.                                  *)
THEOREM UndeliveredGoByHardBounds == Spec => []UndeliveredNeedHardBound
<1>1. Init => UndeliveredNeedHardBound
  BY DEF Init, UndeliveredNeedHardBound
<1>2. SweepOK /\ UndeliveredNeedHardBound /\ [Next]_vars
         => UndeliveredNeedHardBound'
  <2>1. SUFFICES ASSUME SweepOK, UndeliveredNeedHardBound,
                        [Next]_vars
                 PROVE  UndeliveredNeedHardBound'
    OBVIOUS
  <2>2. CASE Sweep
    <3>1. UNCHANGED <<log, delivered, policy, now>>
      BY <2>2 DEF Sweep
    <3>2. \A i : FitsSizes(SubSeq(log, i, Len(log)), policy)'
                   = FitsSizes(SubSeq(log, i, Len(log)), policy)
      BY <3>1 DEF FitsSizes, Total
    <3>3. SUFFICES ASSUME NEW i \in 1..Len(log), log[i].id \notin delivered,
                          ~Exceeds(now - log[i].ts, policy.maxAge),
                          FitsSizes(SubSeq(log, i, Len(log)), policy)
                   PROVE  \E j \in 1..Len(kept') : kept'[j] = log[i]
      BY <3>1, <3>2 DEF UndeliveredNeedHardBound, Exceeds
    <3>4. PICK x \in 1..Len(kept) : kept[x] = log[i]
      BY <2>1, <3>3 DEF UndeliveredNeedHardBound
    <3>5. PICK g : g = RetainEvents(kept, delivered, policy, now)
      OBVIOUS
    <3>6. \E j \in 1..Len(g) : g[j] = log[i]
      <4>1. /\ log \in Seq(LogRecords) /\ kept \in Seq(LogRecords)
            /\ IsPart(kept, log) /\ policy \in AutoPolicies
            /\ Distinct(log)
        BY <2>1 DEF SweepOK
      <4>2. Entitled(log, i, delivered, policy, now)
        BY <3>3 DEF Entitled
      <4> QED
        BY <3>3, <3>4, <3>5, <4>1, <4>2, LogRecordsSized, SweepKeepsEntitled
    <3>7. kept' = g
      BY <2>2, <3>5 DEF Sweep
    <3> QED
      BY <3>6, <3>7
  <2>3. CASE Later
    <3>1. /\ UNCHANGED <<log, delivered, policy, kept>>
          /\ now' \in Nat /\ now <= now' /\ now \in Nat
      BY <2>1, <2>3, DecisionsAssumption DEF Later, SweepOK
    <3>2. \A i \in 1..Len(log) : log[i].ts \in Nat
      <4>1. \A i \in 1..Len(log) : log[i] \in LogRecords
        BY <2>1, ElementOfSeq DEF SweepOK
      <4> QED
        BY <4>1 DEF LogRecords
    <3>3. policy.maxAge = NoBound \/ policy.maxAge \in Nat
      BY <2>1 DEF SweepOK, AutoPolicies, Bounds
    <3>4. \A i \in 1..Len(log) : Exceeds(now - log[i].ts, policy.maxAge) =>
             Exceeds(now' - log[i].ts, policy.maxAge)
      BY <3>1, <3>2, <3>3 DEF Exceeds
    <3>5. \A i : FitsSizes(SubSeq(log, i, Len(log)), policy)'
                   = FitsSizes(SubSeq(log, i, Len(log)), policy)
      BY <3>1 DEF FitsSizes, Total
    <3>6. \A i \in 1..Len(log) :
             Exceeds(now - log[i].ts, policy.maxAge)'
                = Exceeds(now' - log[i].ts, policy.maxAge)
      BY <3>1 DEF Exceeds
    <3> QED
      BY <2>1, <3>1, <3>4, <3>5, <3>6 DEF UndeliveredNeedHardBound
  <2>4. CASE UNCHANGED sweepVars
    <3>1. \A i : FitsSizes(SubSeq(log, i, Len(log)), policy)'
                   = FitsSizes(SubSeq(log, i, Len(log)), policy)
      BY <2>4 DEF sweepVars, FitsSizes, Total
    <3> QED
      BY <2>1, <2>4, <3>1 DEF sweepVars, UndeliveredNeedHardBound, Exceeds
  <2> QED
    BY <2>1, <2>2, <2>3, <2>4 DEF Next, Retry, Emit, vars, sweepVars
<1> QED
  BY <1>1, <1>2, SweepInvariance, PTL DEF Spec

-----------------------------------------------------------------------------
(* The back-off.                                                           *)

(* The smaller and the larger of two numbers.                              *)
LEMMA MinMaxOfTwo ==
    ASSUME NEW a \in Int, NEW b \in Int
    PROVE  /\ Min({a, b}) = IF a <= b THEN a ELSE b
           /\ Max({a, b}) = IF a <= b THEN b ELSE a
<1>1. PICK m : m = Min({a, b})
  OBVIOUS
<1>2. PICK k : k = Max({a, b})
  OBVIOUS
<1>3. \E x \in {a, b} : \A y \in {a, b} : x <= y
  OBVIOUS
<1>4. m \in {a, b} /\ \A y \in {a, b} : m <= y
  BY <1>1, <1>3 DEF Min
<1>5. \E x \in {a, b} : \A y \in {a, b} : x >= y
  OBVIOUS
<1>6. k \in {a, b} /\ \A y \in {a, b} : k >= y
  BY <1>2, <1>5 DEF Max
<1> QED
  BY <1>1, <1>2, <1>4, <1>6

(* power is the recursive function in the definition of PowerOfTwo.        *)
Doubles(f, n) == f = [i \in 0..n |-> IF i = 0 THEN 1 ELSE 2 * f[i - 1]]

(* The recursive function of PowerOfTwo exists and is a number everywhere. *)
LEMMA DoublesExists ==
    ASSUME NEW n \in Nat
    PROVE  \E f : Doubles(f, n)
<1>1. PICK G : G = [z \in (1..n) \X Nat |-> 2 * z[2]]
  OBVIOUS
<1>2. IsStep(G, n, Nat)
  BY <1>1 DEF IsStep
<1>3. PICK f : Recurs(f, 1, G, n, Nat)
  BY <1>2, Recursion
<1>4. ASSUME NEW i \in 1..n PROVE f[i] = 2 * f[i - 1]
  <2>1. i - 1 \in 0..n
    OBVIOUS
  <2>2. f[i - 1] \in Nat
    BY <1>3, <2>1 DEF Recurs
  <2>3. <<i, f[i - 1]>> \in (1..n) \X Nat
    BY <2>2
  <2>4. G[<<i, f[i - 1]>>] = 2 * f[i - 1]
    BY <1>1, <2>3
  <2> QED
    BY <1>3, <2>4 DEF Recurs
<1>5. PICK g : g = [i \in 0..n |-> IF i = 0 THEN 1 ELSE 2 * f[i - 1]]
  OBVIOUS
<1>6. \A i \in 0..n : f[i] = g[i]
  BY <1>3, <1>4, <1>5 DEF Recurs
<1>7. f = g
  BY <1>3, <1>5, <1>6 DEF Recurs
<1> QED
  BY <1>5, <1>7 DEF Doubles

(* Two such functions agree where both are defined.                        *)
LEMMA DoublesAgree ==
    ASSUME NEW m \in Nat, NEW n \in Nat, m <= n,
           NEW f, Doubles(f, m), NEW g, Doubles(g, n)
    PROVE  \A i \in 0..m : f[i] = g[i] /\ f[i] \in Nat \ {0}
<1> DEFINE T == {i \in Nat : i <= m => f[i] = g[i] /\ f[i] \in Nat \ {0}}
<1>1. 0 \in T
  <2>1. 0 \in 0..m /\ 0 \in 0..n
    OBVIOUS
  <2>2. f[0] = 1 /\ g[0] = 1
    BY <2>1 DEF Doubles
  <2> QED
    BY <2>2
<1>2. ASSUME NEW i \in Nat, i \in T PROVE i + 1 \in T
  <2>1. SUFFICES ASSUME i + 1 <= m
                 PROVE  f[i + 1] = g[i + 1] /\ f[i + 1] \in Nat \ {0}
    OBVIOUS
  <2>2. i + 1 \in 0..m /\ i + 1 \in 0..n /\ i + 1 # 0 /\ (i + 1) - 1 = i
    BY <2>1
  <2>3. f[i + 1] = 2 * f[i]
    BY <2>2 DEF Doubles
  <2>4. g[i + 1] = 2 * g[i]
    BY <2>2 DEF Doubles
  <2>5. f[i] = g[i] /\ f[i] \in Nat \ {0}
    BY <1>2, <2>1
  <2> QED
    BY <2>3, <2>4, <2>5
<1> HIDE DEF T
<1>3. Nat \subseteq T
  BY <1>1, <1>2, Induction
<1> QED
  BY <1>3 DEF T

(* The powers of two are positive and double from one to the next.         *)
LEMMA Powers ==
    /\ PowerOfTwo(0) = 1
    /\ \A n \in Nat : /\ PowerOfTwo(n) \in Nat \ {0}
                      /\ PowerOfTwo(n + 1) = 2 * PowerOfTwo(n)
<1>1. ASSUME NEW n \in Nat
      PROVE  \E f : Doubles(f, n) /\ PowerOfTwo(n) = f[n]
  <2>1. PICK f : f = CHOOSE g : Doubles(g, n)
    OBVIOUS
  <2>2. Doubles(f, n)
    BY <2>1, DoublesExists
  <2>3. PowerOfTwo(n) = f[n]
    BY <2>1 DEF PowerOfTwo, Doubles
  <2> QED
    BY <2>2, <2>3
<1>2. PowerOfTwo(0) = 1
  <2>1. PICK f : Doubles(f, 0) /\ PowerOfTwo(0) = f[0]
    BY <1>1
  <2>2. 0 \in 0..0
    OBVIOUS
  <2> QED
    BY <2>1, <2>2 DEF Doubles
<1>3. ASSUME NEW n \in Nat
      PROVE  /\ PowerOfTwo(n) \in Nat \ {0}
             /\ PowerOfTwo(n + 1) = 2 * PowerOfTwo(n)
  <2>1. n + 1 \in Nat /\ n <= n + 1 /\ n \in 0..n
    OBVIOUS
  <2>2. PICK f : Doubles(f, n) /\ PowerOfTwo(n) = f[n]
    BY <1>1
  <2>3. PICK g : Doubles(g, n + 1) /\ PowerOfTwo(n + 1) = g[n + 1]
    BY <1>1, <2>1
  <2>4. f[n] = g[n] /\ f[n] \in Nat \ {0}
    BY <2>1, <2>2, <2>3, DoublesAgree
  <2>5. n + 1 \in 0..(n + 1) /\ n + 1 # 0 /\ (n + 1) - 1 = n
    BY <2>1
  <2>6. g[n + 1] = 2 * g[n]
    BY <2>3, <2>5 DEF Doubles
  <2> QED
    BY <2>2, <2>3, <2>4, <2>6
<1> QED
  BY <1>2, <1>3

(* The delay is the base times the factor, up to the cap.                  *)
LEMMA DelayCapped ==
    ASSUME NEW base \in Nat, NEW n \in Nat \ {0}
    PROVE  /\ Factor(n) \in Nat
           /\ base * Factor(n) \in Nat
           /\ BackoffDelay(n, base) = IF base * Factor(n) <= MaxBackoff
                                      THEN base * Factor(n) ELSE MaxBackoff
<1>1. /\ Width \in Nat /\ MaxBackoff \in Nat /\ MaxDuration \in Nat
      /\ MaxBackoff <= MaxDuration
  <2>1. PowerOfTwo(Width) \in Nat
    BY Powers, SettingsAssumption
  <2> QED
    BY <2>1, SettingsAssumption
<1>2. Factor(n) \in Nat
  <2>1. n - 1 \in Nat
    OBVIOUS
  <2>2. PowerOfTwo(n - 1) \in Nat /\ PowerOfTwo(Width) \in Nat \ {0}
    BY <1>1, <2>1, Powers
  <2> QED
    BY <2>2 DEF Factor
<1>3. PICK x : x = base * Factor(n)
  OBVIOUS
<1>4. x \in Nat
  BY <1>2, <1>3
<1>5. Min({x, MaxDuration}) = IF x <= MaxDuration THEN x ELSE MaxDuration
  BY <1>1, <1>4, MinMaxOfTwo
<1>6. PICK y : y = Min({x, MaxDuration})
  OBVIOUS
<1>7. y \in Nat
  BY <1>1, <1>4, <1>5, <1>6
<1>8. Min({y, MaxBackoff}) = IF y <= MaxBackoff THEN y ELSE MaxBackoff
  BY <1>1, <1>7, MinMaxOfTwo
<1>9. CASE base = 0
  <2>1. x = 0
    BY <1>2, <1>3, <1>9
  <2> QED
    BY <1>1, <1>2, <1>3, <1>9, <2>1 DEF BackoffDelay
<1>10. CASE base # 0
  <2>1. BackoffDelay(n, base) = Min({y, MaxBackoff})
    BY <1>3, <1>6, <1>10 DEF BackoffDelay
  <2> QED
    BY <1>1, <1>2, <1>3, <1>4, <1>5, <1>6, <1>8, <2>1
<1> QED
  BY <1>9, <1>10

(* Twice a product is the product with twice a factor.                     *)
LEMMA TwiceProduct ==
    ASSUME NEW a \in Nat, NEW b \in Nat
    PROVE  a * (2 * b) = 2 * (a * b)
OBVIOUS

(* A product is no less than either of its positive factors.               *)
LEMMA ProductGrows ==
    ASSUME NEW a \in Nat \ {0}, NEW b \in Nat
    PROVE  b <= a * b
OBVIOUS

(* From every retry to the next the delay doubles, up to the cap.          *)
LEMMA DelayDoubles ==
    ASSUME NEW base \in Nat, NEW n \in Nat \ {0}
    PROVE  BackoffDelay(n + 1, base) =
               Min({2 * BackoffDelay(n, base), MaxBackoff})
<1>1. /\ Width \in Nat \ {0} /\ PowerOfTwo(Width) \in Nat \ {0}
      /\ MaxBackoff \in Nat /\ MaxBackoff < PowerOfTwo(Width)
  <2>1. PowerOfTwo(Width) \in Nat \ {0}
    BY Powers, SettingsAssumption
  <2> QED
    BY <2>1, SettingsAssumption
<1>2. PICK x : x = base * Factor(n)
  OBVIOUS
<1>3. PICK y : y = base * Factor(n + 1)
  OBVIOUS
<1>4. PICK d : d = BackoffDelay(n, base)
  OBVIOUS
<1>5. /\ x \in Nat /\ y \in Nat
      /\ d = IF x <= MaxBackoff THEN x ELSE MaxBackoff
      /\ BackoffDelay(n + 1, base) = IF y <= MaxBackoff THEN y ELSE MaxBackoff
  <2>1. n + 1 \in Nat \ {0}
    OBVIOUS
  <2> QED
    BY <1>2, <1>3, <1>4, <2>1, DelayCapped
<1>6. d \in Nat /\ 2 * d \in Nat
  BY <1>1, <1>5
<1>7. Min({2 * d, MaxBackoff}) =
         IF 2 * d <= MaxBackoff THEN 2 * d ELSE MaxBackoff
  BY <1>1, <1>6, MinMaxOfTwo
<1>8. y = 2 * x \/ base = 0 \/ (y >= MaxBackoff /\ 2 * x >= MaxBackoff)
  <2>1. CASE n < Width
    <3>1. /\ Factor(n) = PowerOfTwo(n - 1) /\ Factor(n + 1) = PowerOfTwo(n)
          /\ n - 1 \in Nat /\ (n - 1) + 1 = n
      BY <1>1, <2>1 DEF Factor
    <3>2. PowerOfTwo(n) = 2 * PowerOfTwo(n - 1) /\ PowerOfTwo(n - 1) \in Nat
      BY <3>1, Powers
    <3> QED
      BY <1>2, <1>3, <3>1, <3>2, TwiceProduct
  <2>2. CASE n >= Width /\ base # 0
    <3>1. Factor(n + 1) = PowerOfTwo(Width) - 1
      BY <1>1, <2>2 DEF Factor
    <3>2. y >= MaxBackoff
      <4>1. PowerOfTwo(Width) - 1 \in Nat /\ PowerOfTwo(Width) - 1 >= MaxBackoff
        BY <1>1
      <4>2. PowerOfTwo(Width) - 1 <= base * (PowerOfTwo(Width) - 1)
        BY <2>2, <4>1, ProductGrows
      <4> QED
        BY <1>1, <1>3, <1>5, <3>1, <4>1, <4>2
    <3>3. 2 * x >= MaxBackoff
      <4>1. Factor(n) \in Nat /\ 2 * Factor(n) >= MaxBackoff
        <5>1. CASE n = Width
          <6>1. /\ Factor(n) = PowerOfTwo(n - 1)
                /\ n - 1 \in Nat /\ (n - 1) + 1 = n
            BY <1>1, <5>1 DEF Factor
          <6>2. /\ PowerOfTwo(n) = 2 * PowerOfTwo(n - 1)
                /\ PowerOfTwo(n - 1) \in Nat
            BY <6>1, Powers
          <6> QED
            BY <1>1, <5>1, <6>1, <6>2
        <5>2. CASE n > Width
          <6>1. Factor(n) = PowerOfTwo(Width) - 1
            BY <1>1, <5>2 DEF Factor
          <6> QED
            BY <1>1, <6>1
        <5> QED
          BY <1>1, <2>2, <5>1, <5>2
      <4>2. Factor(n) <= x
        BY <1>2, <2>2, <4>1, ProductGrows
      <4> QED
        BY <1>1, <1>5, <4>1, <4>2
    <3> QED
      BY <3>2, <3>3
  <2> QED
    BY <1>1, <2>1, <2>2
<1>9. CASE base = 0
  <2>1. x = 0 /\ y = 0
    <3>1. Factor(n) \in Nat /\ Factor(n + 1) \in Nat
      <4>1. n + 1 \in Nat \ {0}
        OBVIOUS
      <4> QED
        BY <4>1, DelayCapped
    <3> QED
      BY <1>2, <1>3, <1>9, <3>1
  <2> QED
    BY <1>1, <1>4, <1>5, <1>7, <2>1
<1> QED
  BY <1>1, <1>4, <1>5, <1>7, <1>8, <1>9

-----------------------------------------------------------------------------
(* The settings.                                                           *)

(* The units a number may carry.                                           *)
Units == DOMAIN UnitSeconds \cup {"bare", "other"}

(* A setting that is unset is read as its default.                         *)
LEMMA DefaultFacts ==
    ASSUME NEW s \in RawTexts, NEW k \in Nat, NEW u \in Units
    PROVE  /\ OrDefault(s, k, u) \in RawTexts
           /\ s.text # "unset" => OrDefault(s, k, u) = s
           /\ s.text = "unset" =>
                 OrDefault(s, k, u) = [text |-> "number", n |-> k, unit |-> u]
BY DEF OrDefault, RawTexts, Units

(* A number is refused or read as it is written, and fits its width.       *)
LEMMA NumberFacts ==
    ASSUME NEW s \in RawTexts, NEW max \in Nat
    PROVE  /\ TakesNumber(ParseNumber(s, max), s)
           /\ Between(ParseNumber(s, max), 0, max)
           /\ ParseNumber(s, max) \in Nat \cup {Invalid}
<1>1. \/ ParseNumber(s, max) = Invalid
      \/ /\ s.text = "number" /\ s.unit = "bare" /\ s.n \in 0..max
         /\ ParseNumber(s, max) = s.n
  BY DEF ParseNumber
<1> QED
  BY <1>1 DEF TakesNumber, Between

(* A duration is refused or is the number times its unit, and fits.        *)
LEMMA DurationFacts ==
    ASSUME NEW s \in RawTexts
    PROVE  /\ TakesDuration(ParseDuration(s), s)
           /\ Between(ParseDuration(s), 0, MaxSeconds)
           /\ ParseDuration(s) \in Nat \cup {Invalid}
<1>1. CASE ParseDuration(s) = Invalid
  BY <1>1 DEF TakesDuration, Between
<1>2. CASE ParseDuration(s) # Invalid
  <2>1. /\ s.text = "number" /\ s.unit \in DOMAIN UnitSeconds
        /\ s.n \in 0..MaxInt
        /\ s.n * UnitSeconds[s.unit] <= MaxSeconds
        /\ ParseDuration(s) = s.n * UnitSeconds[s.unit]
    BY <1>2 DEF ParseDuration
  <2>2. UnitSeconds[s.unit] \in Nat
    BY <2>1 DEF UnitSeconds
  <2>3. s.n \in Nat /\ MaxSeconds \in Nat
    BY <2>1, SettingsAssumption
  <2>4. s.n * UnitSeconds[s.unit] \in Nat
    BY <2>2, <2>3
  <2> QED
    BY <2>1, <2>3, <2>4 DEF TakesDuration, Between
<1> QED
  BY <1>1, <1>2

(* The numbers that are read with a default: attempts, back-off, capacity  *)
(* and timeout.                                                            *)
LEMMA NumbersHonoured ==
    ASSUME NEW s \in RawTexts
    PROVE  /\ Between(SubmissionAttempts(s), 1, PowerOfTwo(Width) - 1)
           /\ Between(SubmissionBackoff(s), 0, MaxUnsigned)
           /\ DispatchCapacity(s) = 1024
                 \/ Between(DispatchCapacity(s), 1, MaxUnsigned)
           /\ RequestTimeout(s) = NoBound
                 \/ Between(RequestTimeout(s), 1, MaxUnsigned)
           /\ s.text # "unset" =>
                 /\ \/ SubmissionAttempts(s) = 1 /\ IsZero(s)
                    \/ TakesNumber(SubmissionAttempts(s), s)
                 /\ TakesNumber(SubmissionBackoff(s), s)
                 /\ s.text = "empty" \/ TakesNumber(DispatchCapacity(s), s)
                 /\ \/ RequestTimeout(s) = NoBound /\ IsZero(s)
                    \/ TakesNumber(RequestTimeout(s), s)
<1>1. PICK top \in Nat : top = PowerOfTwo(Width) - 1 /\ top >= 1
  <2>1. PICK w \in Nat : Width = w + 1
    <3>1. Width - 1 \in Nat /\ Width = (Width - 1) + 1
      BY SettingsAssumption
    <3> QED
      BY <3>1
  <2>2. PowerOfTwo(w) \in Nat \ {0} /\ PowerOfTwo(w + 1) = 2 * PowerOfTwo(w)
    BY Powers
  <2> QED
    BY <2>1, <2>2
<1>2. MaxUnsigned \in Nat /\ Invalid = -2 /\ NoBound = -1
  BY SettingsAssumption DEF Invalid, NoBound
<1>3. ASSUME NEW k \in Nat
      PROVE  \E t \in RawTexts :
                t = OrDefault(s, k, "bare") /\ (s.text # "unset" => t = s)
  <2>1. "bare" \in Units
    BY DEF Units
  <2> QED
    BY <2>1, DefaultFacts
<1>4. /\ Between(SubmissionAttempts(s), 1, top)
      /\ s.text # "unset" => \/ SubmissionAttempts(s) = 1 /\ IsZero(s)
                             \/ TakesNumber(SubmissionAttempts(s), s)
  <2>1. PICK t \in RawTexts :
           t = OrDefault(s, 3, "bare") /\ (s.text # "unset" => t = s)
    BY <1>3
  <2>2. PICK n : n = ParseNumber(t, top)
    OBVIOUS
  <2>3. SubmissionAttempts(s) = IF n = Invalid THEN Invalid ELSE Max({n, 1})
    BY <1>1, <2>1, <2>2 DEF SubmissionAttempts
  <2>4. TakesNumber(n, t) /\ Between(n, 0, top) /\ n \in Nat \cup {Invalid}
    BY <1>1, <2>2, NumberFacts
  <2>5. CASE n = Invalid
    BY <2>3, <2>5 DEF Between, TakesNumber
  <2>6. CASE n # Invalid
    <3>1. /\ n \in 0..top /\ n = t.n
          /\ t.text = "number" /\ t.unit = "bare"
      BY <2>4, <2>6 DEF Between, TakesNumber
    <3>2. SubmissionAttempts(s) = IF n = 0 THEN 1 ELSE n
      <4>1. n \in Int /\ n >= 0 /\ 1 \in Int
        BY <1>1, <3>1
      <4>2. Max({n, 1}) = IF n <= 1 THEN 1 ELSE n
        BY <4>1, MinMaxOfTwo
      <4> QED
        BY <2>3, <2>6, <4>1, <4>2
    <3>3. Between(SubmissionAttempts(s), 1, top)
      BY <1>1, <3>1, <3>2 DEF Between
    <3>4. s.text # "unset" => \/ SubmissionAttempts(s) = 1 /\ IsZero(s)
                              \/ TakesNumber(SubmissionAttempts(s), s)
      BY <2>1, <3>1, <3>2 DEF TakesNumber, IsZero
    <3> QED
      BY <3>3, <3>4
  <2> QED
    BY <2>5, <2>6
<1>5. /\ Between(SubmissionBackoff(s), 0, MaxUnsigned)
      /\ s.text # "unset" => TakesNumber(SubmissionBackoff(s), s)
  <2>1. PICK t \in RawTexts :
           t = OrDefault(s, 100, "bare") /\ (s.text # "unset" => t = s)
    BY <1>3
  <2>2. SubmissionBackoff(s) = ParseNumber(t, MaxUnsigned)
    BY <2>1 DEF SubmissionBackoff
  <2>3. /\ Between(SubmissionBackoff(s), 0, MaxUnsigned)
        /\ TakesNumber(SubmissionBackoff(s), t)
    BY <1>2, <2>2, NumberFacts
  <2> QED
    BY <2>1, <2>3
<1>6. /\ DispatchCapacity(s) = 1024
            \/ Between(DispatchCapacity(s), 1, MaxUnsigned)
      /\ s.text # "unset" =>
            s.text = "empty" \/ TakesNumber(DispatchCapacity(s), s)
  <2>1. PICK n : n = ParseNumber(s, MaxUnsigned)
    OBVIOUS
  <2>2. TakesNumber(n, s) /\ Between(n, 0, MaxUnsigned)
    BY <1>2, <2>1, NumberFacts
  <2>3. DispatchCapacity(s) = IF s.text \in {"unset", "empty"} THEN 1024
                              ELSE IF n = 0 THEN Invalid ELSE n
    BY <2>1 DEF DispatchCapacity
  <2> QED
    BY <1>2, <2>2, <2>3 DEF Between, TakesNumber
<1>7. /\ RequestTimeout(s) = NoBound
            \/ Between(RequestTimeout(s), 1, MaxUnsigned)
      /\ s.text # "unset" => \/ RequestTimeout(s) = NoBound /\ IsZero(s)
                             \/ TakesNumber(RequestTimeout(s), s)
  <2>1. PICK t \in RawTexts :
           t = OrDefault(s, 30, "bare") /\ (s.text # "unset" => t = s)
    BY <1>3
  <2>2. PICK n : n = ParseNumber(t, MaxUnsigned)
    OBVIOUS
  <2>3. TakesNumber(n, t) /\ Between(n, 0, MaxUnsigned)
    BY <1>2, <2>2, NumberFacts
  <2>4. RequestTimeout(s) = IF n = 0 THEN NoBound ELSE n
    BY <2>1, <2>2 DEF RequestTimeout
  <2> QED
    BY <1>2, <2>1, <2>3, <2>4 DEF Between, TakesNumber, IsZero
<1> QED
  BY <1>1, <1>4, <1>5, <1>6, <1>7

(* The interval of the background task.                                    *)
LEMMA IntervalHonoured ==
    ASSUME NEW s \in RawTexts
    PROVE  /\ Between(RetentionInterval(s), 0, MaxSeconds)
           /\ s.text # "unset" => TakesDuration(RetentionInterval(s), s)
<1>1. PICK t \in RawTexts :
         t = OrDefault(s, 5, "m") /\ (s.text # "unset" => t = s)
  <2>1. "m" \in Units
    BY DEF Units, UnitSeconds
  <2> QED
    BY <2>1, DefaultFacts
<1>2. RetentionInterval(s) = ParseDuration(t)
  BY <1>1 DEF RetentionInterval
<1> QED
  BY <1>1, <1>2, DurationFacts

(* What the bounds of a retention policy are read as.                      *)
LEMMA BoundFacts ==
    ASSUME NEW s \in RawTexts
    PROVE  /\ BoundDuration(s) \in Bounds \cup {Invalid}
           /\ BoundNumber(s) \in Bounds \cup {Invalid}
           /\ BoundNumber(s) = NoBound \/ TakesNumber(BoundNumber(s), s)
           /\ BoundDuration(s) = NoBound \/ TakesDuration(BoundDuration(s), s)
           /\ BoundNumber(s) = NoBound <=> TurnsOff(s)
           /\ BoundDuration(s) = NoBound <=> TurnsOff(s)
<1>1. Invalid = -2 /\ NoBound = -1 /\ MaxUnsigned \in Nat
  BY SettingsAssumption DEF Invalid, NoBound
<1>2. CASE TurnsOff(s)
  BY <1>2 DEF BoundDuration, BoundNumber, Bounds
<1>3. CASE ~TurnsOff(s)
  <2>1. /\ BoundDuration(s) = ParseDuration(s)
        /\ BoundNumber(s) = ParseNumber(s, MaxUnsigned)
    BY <1>3 DEF BoundDuration, BoundNumber
  <2>2. /\ ParseDuration(s) \in Nat \cup {Invalid}
        /\ TakesDuration(ParseDuration(s), s)
    BY DurationFacts
  <2>3. /\ ParseNumber(s, MaxUnsigned) \in Nat \cup {Invalid}
        /\ TakesNumber(ParseNumber(s, MaxUnsigned), s)
    BY <1>1, NumberFacts
  <2> QED
    BY <1>1, <1>3, <2>1, <2>2, <2>3 DEF Bounds
<1> QED
  BY <1>2, <1>3

(* The default of a bound that is a number.                                *)
LEMMA DefaultCount ==
    ASSUME NEW k \in Nat, k > 0, k <= MaxUnsigned
    PROVE  BoundNumber(OrDefault(Unset, k, "bare")) = k
<1>1. PICK c : c = [text |-> "number", n |-> k, unit |-> "bare"]
  OBVIOUS
<1>2. OrDefault(Unset, k, "bare") = c
  BY <1>1 DEF OrDefault, Unset
<1>3. c.text = "number" /\ c.n = k /\ c.unit = "bare"
  BY <1>1
<1>4. k \in 0..MaxUnsigned
  BY SettingsAssumption, SMT
<1>5. ParseNumber(c, MaxUnsigned) = k /\ ~TurnsOff(c)
  BY <1>3, <1>4 DEF ParseNumber, TurnsOff
<1> QED
  BY <1>2, <1>5 DEF BoundNumber

(* With nothing set, delivered events stay a day and the count is bounded. *)
LEMMA DefaultPolicy ==
    ASSUME NEW s
    PROVE  AutoRetention(Unset, s, Unset, s) =
              [grace |-> 86400, maxAge |-> BoundDuration(s),
               maxCount |-> 1000000, maxBytes |-> BoundNumber(s)]
<1>1. BoundDuration(OrDefault(Unset, 24, "h")) = 86400
  <2>1. PICK g : g = [text |-> "number", n |-> 24, unit |-> "h"]
    OBVIOUS
  <2>2. OrDefault(Unset, 24, "h") = g
    BY <2>1 DEF OrDefault, Unset
  <2>3. g.text = "number" /\ g.n = 24 /\ g.unit = "h"
    BY <2>1
  <2>4. "h" \in DOMAIN UnitSeconds /\ UnitSeconds["h"] = 3600
    BY DEF UnitSeconds
  <2>5. 86400 <= MaxSeconds /\ 86400 <= MaxInt /\ 24 \in 0..MaxInt
    BY SettingsAssumption, SMT
  <2>6. ParseDuration(g) = 86400
    BY <2>3, <2>4, <2>5, SMT DEF ParseDuration
  <2>7. ~TurnsOff(g)
    BY <2>3 DEF TurnsOff
  <2> QED
    BY <2>2, <2>6, <2>7 DEF BoundDuration
<1>2. BoundNumber(OrDefault(Unset, 1000000, "bare")) = 1000000
  BY DefaultCount, SettingsAssumption, SMT
<1> QED
  BY <1>1, <1>2, SMT DEF AutoRetention

(* Whatever is written for a setting, it is refused or taken exactly as it *)
(* is written, within the width of its type, and no bound is off unless    *)
(* that was written (the parse functions of main.rs).                      *)
THEOREM EverySettingHonoured == \A s \in RawTexts : Honoured(s)
<1>1. SUFFICES ASSUME NEW s \in RawTexts PROVE Honoured(s)
  OBVIOUS
<1>2. InRange(s) /\ (s.text # "unset" => Exact(s))
  BY NumbersHonoured, IntervalHonoured DEF InRange, Exact
<1>3. /\ BoundNumber(s) = NoBound \/ TakesNumber(BoundNumber(s), s)
      /\ BoundDuration(s) = NoBound \/ TakesDuration(BoundDuration(s), s)
      /\ BoundNumber(s) = NoBound
            <=> s.text \in {"unset", "empty", "off"} \/ IsZero(s)
      /\ BoundDuration(s) = NoBound <=> BoundNumber(s) = NoBound
  BY BoundFacts DEF TurnsOff, IsZero
<1>4. LET p == AutoRetention(Unset, s, Unset, s)
      IN  /\ p.grace = 86400 /\ p.maxCount = 1000000
          /\ Invalid \notin {p.grace, p.maxAge, p.maxCount, p.maxBytes}
                => p \in AutoPolicies
  <2>1. PICK p : p = AutoRetention(Unset, s, Unset, s)
    OBVIOUS
  <2>2. p = [grace |-> 86400, maxAge |-> BoundDuration(s),
             maxCount |-> 1000000, maxBytes |-> BoundNumber(s)]
    BY <2>1, DefaultPolicy, SMT
  <2>3. /\ p.grace = 86400 /\ p.maxAge = BoundDuration(s)
        /\ p.maxCount = 1000000 /\ p.maxBytes = BoundNumber(s)
    BY <2>2, SMT
  <2>4. 86400 \in Bounds /\ 1000000 \in Bounds
    BY SMT DEF Bounds
  <2>5. Invalid \notin {p.grace, p.maxAge, p.maxCount, p.maxBytes}
           => p \in AutoPolicies
    BY <2>2, <2>3, <2>4, BoundFacts, SMT DEF AutoPolicies
  <2> QED
    BY <2>1, <2>3, <2>5, SMT
<1>5. BoundsHonoured(s)
  BY <1>3, <1>4, SMT DEF BoundsHonoured
<1> QED
  BY <1>2, <1>5 DEF Honoured

-----------------------------------------------------------------------------
(* The settings and retries of a behaviour.                                *)

InputsOK == setting \in RawTexts /\ retry \in Nat

(* Every behaviour is about texts and retries.                             *)
LEMMA InputsInvariance == Spec => []InputsOK
<1>1. Init => InputsOK
  <2>1. SUFFICES ASSUME Init PROVE InputsOK
    OBVIOUS
  <2>2. setting = Unset \/ setting \in RawSettings
    BY <2>1 DEF Init
  <2>3. Unset \in RawTexts
    BY DEF Unset, RawTexts
  <2>4. setting \in RawTexts
    BY <2>2, <2>3, DecisionsAssumption
  <2>5. retry \in Nat
    BY <2>1 DEF Init
  <2> QED
    BY <2>4, <2>5 DEF InputsOK
<1>2. InputsOK /\ [Next]_vars => InputsOK'
  <2>1. SUFFICES ASSUME InputsOK, [Next]_vars PROVE InputsOK'
    OBVIOUS
  <2>2. setting' = setting
    BY <2>1 DEF Next, Sweep, Later, Retry, Emit, vars
  <2>3. retry' = retry \/ retry' = retry + 1
    BY <2>1 DEF Next, Sweep, Later, Retry, Emit, vars
  <2> QED
    BY <2>1, <2>2, <2>3 DEF InputsOK
<1> QED
  BY <1>1, <1>2, PTL DEF Spec

(* Every setting is refused or taken as it is written, in every behaviour. *)
THEOREM SettingsRefusedOrTaken == Spec => []SettingsHonoured
<1>1. InputsOK => SettingsHonoured
  BY EverySettingHonoured DEF InputsOK, SettingsHonoured
<1> QED
  BY <1>1, InputsInvariance, PTL

(* Whatever the base, the width of the factor and the cap, each retry      *)
(* waits twice as long as the one before it, up to the cap                 *)
(* (submission_backoff_delay).                                             *)
THEOREM BackoffCorrect == Spec => []BackoffDoublesToCap
<1>1. ASSUME InputsOK PROVE BackoffDoublesToCap
  <2>1. PICK base : base = SubmissionBackoff(setting)
    OBVIOUS
  <2>2. SUFFICES ASSUME base # Invalid
                 PROVE  /\ BackoffDelay(0, base) = 0
                        /\ BackoffDelay(1, base) = Min({base, MaxBackoff})
                        /\ retry > 0 =>
                              BackoffDelay(retry + 1, base) =
                                Min({2 * BackoffDelay(retry, base), MaxBackoff})
    BY <2>1 DEF BackoffDoublesToCap
  <2>3. base \in Nat
    <3>1. setting \in RawTexts
      BY <1>1 DEF InputsOK
    <3>2. Between(base, 0, MaxUnsigned)
      BY <2>1, <3>1, NumbersHonoured
    <3> QED
      BY <2>2, <3>2, SettingsAssumption, SMT DEF Between
  <2>4. BackoffDelay(0, base) = 0
    BY DEF BackoffDelay
  <2>5. BackoffDelay(1, base) = Min({base, MaxBackoff})
    <3>1. MaxBackoff \in Int /\ Width \in Nat \ {0}
      BY SettingsAssumption
    <3>2. 1 - 1 = 0 /\ 0 < Width
      BY <3>1
    <3>3. Factor(1) = 1
      BY <3>2, Powers DEF Factor
    <3>4. BackoffDelay(1, base) = IF base * Factor(1) <= MaxBackoff
                                  THEN base * Factor(1) ELSE MaxBackoff
      BY <2>3, DelayCapped
    <3>5. base * 1 = base
      BY <2>3
    <3> QED
      BY <2>3, <3>1, <3>3, <3>4, <3>5, MinMaxOfTwo
  <2>6. retry > 0 => BackoffDelay(retry + 1, base) =
                        Min({2 * BackoffDelay(retry, base), MaxBackoff})
    BY <1>1, <2>3, DelayDoubles DEF InputsOK
  <2> QED
    BY <2>4, <2>5, <2>6
<1> QED
  BY <1>1, InputsInvariance, PTL

-----------------------------------------------------------------------------
(* Chains of events.                                                       *)

Texts == STRING \cup {None}
Metadata == [trace : Texts, correlation : Texts, tenant : Texts, key : Texts,
             causation : Texts]
Envelopes == [id : STRING \ {None}, metadata : Metadata]
Links == [event : Envelopes, cause : Nat]

(* The correlation that the chain started by event root carries.           *)
CorrelationOf(root) == IF root.metadata.correlation = None THEN root.id
                       ELSE root.metadata.correlation

(* Event i of chain c has an earlier event as its cause, and carries what  *)
(* the first one set.                                                      *)
Follows(c, i) ==
    /\ c[i].cause \in 1..(i - 1)
    /\ c[i].event.metadata.correlation = CorrelationOf(c[1].event)
    /\ c[i].event.metadata.tenant = c[1].event.metadata.tenant
    /\ c[i].event.metadata.trace = c[1].event.metadata.trace
    /\ c[i].event.metadata.key = None
    /\ c[i].event.metadata.causation = c[c[i].cause].event.id

(* The invariant.  A follow-up takes its correlation from its cause, which *)
(* is the root's only because no event's id is the absent correlation.     *)
ChainOK ==
    /\ chain \in Seq(Links)
    /\ \A i \in 2..Len(chain) : Follows(chain, i)

(* The events that start a chain.                                          *)
LEMMA OriginatingFacts ==
    ASSUME NEW id \in STRING \ {None}, NEW e \in Originating(id, Metadatas)
    PROVE  e \in Envelopes
<1>1. \A m \in Metadatas : m \in Metadata
  BY DecisionsAssumption DEF Metadata, Texts
<1>2. PICK d \in Metadata : NewEnvelope(id) = [id |-> id, metadata |-> d]
  BY DEF NewEnvelope, Metadata, Texts
<1>3. NewEnvelope(id) \in Envelopes
  BY <1>2 DEF Envelopes
<1>4. ASSUME NEW m \in Metadata
      PROVE  WithMetadata(NewEnvelope(id), m) \in Envelopes
  BY <1>2 DEF WithMetadata, Envelopes
<1> QED
  BY <1>1, <1>3, <1>4 DEF Originating

(* What a follow-up event carries on.                                      *)
LEMMA FollowUpFacts ==
    ASSUME NEW cause \in Envelopes, NEW id \in STRING \ {None}
    PROVE  LET f == FollowUp(cause, id)
           IN  /\ f \in Envelopes
               /\ f.metadata.correlation = CorrelationOf(cause)
               /\ f.metadata.tenant = cause.metadata.tenant
               /\ f.metadata.trace = cause.metadata.trace
               /\ f.metadata.key = None
               /\ f.metadata.causation = cause.id
<1>1. PICK m : m = [trace |-> cause.metadata.trace,
                    correlation |-> CorrelationOf(cause),
                    tenant |-> cause.metadata.tenant, key |-> None,
                    causation |-> cause.id]
  OBVIOUS
<1>2. /\ cause.metadata \in Metadata /\ cause.id \in Texts /\ None \in Texts
      /\ cause.id \in STRING \ {None}
  BY DEF Envelopes, Texts
<1>3. /\ cause.metadata.trace \in Texts /\ cause.metadata.tenant \in Texts
      /\ cause.metadata.correlation \in Texts
  BY <1>2 DEF Metadata
<1>4. CorrelationOf(cause) \in Texts
  BY <1>2, <1>3 DEF CorrelationOf
<1>5. m \in Metadata
  BY <1>1, <1>2, <1>3, <1>4 DEF Metadata
<1>6. FollowUp(cause, id) = [id |-> id, metadata |-> m]
  BY <1>1 DEF FollowUp, WithMetadata, NewEnvelope, CorrelationOf
<1>7. FollowUp(cause, id) \in Envelopes
  BY <1>5, <1>6 DEF Envelopes
<1> QED
  BY <1>1, <1>6, <1>7

(* Every behaviour satisfies the invariant.                                *)
LEMMA ChainInvariance == Spec => []ChainOK
<1>1. /\ Len(ChainIds) \in Nat \ {0}
      /\ \A i \in 1..Len(ChainIds) : ChainIds[i] \in STRING \ {None}
  BY DecisionsAssumption, EmptySeq, ElementOfSeq
<1>2. Init => ChainOK
  <2>1. SUFFICES ASSUME Init PROVE ChainOK
    OBVIOUS
  <2>2. CASE chain = <<>>
    <3>1. chain \in Seq(Links) /\ Len(chain) = 0
      BY <2>2, EmptySeq
    <3> QED
      BY <3>1 DEF ChainOK
  <2>3. CASE chain # <<>>
    <3>1. PICK e \in Originating(ChainIds[1], Metadatas) :
             chain = <<[event |-> e, cause |-> 0]>>
      BY <2>1, <2>3 DEF Init
    <3>2. e \in Envelopes
      <4>1. ChainIds[1] \in STRING \ {None}
        BY <1>1
      <4> QED
        BY <4>1, OriginatingFacts
    <3>3. [event |-> e, cause |-> 0] \in Links
      BY <3>2 DEF Links
    <3>4. chain \in Seq(Links) /\ Len(chain) = 1
      BY <3>1, <3>3
    <3> QED
      BY <3>4 DEF ChainOK
  <2> QED
    BY <2>2, <2>3
<1>3. ChainOK /\ [Next]_vars => ChainOK'
  <2>1. SUFFICES ASSUME ChainOK, [Next]_vars PROVE ChainOK'
    OBVIOUS
  <2>2. CASE Emit
    <3>1. PICK n : n = Len(chain)
      OBVIOUS
    <3>2. n \in Nat \ {0} /\ n + 1 \in 1..Len(ChainIds) /\ chain \in Seq(Links)
      <4>1. chain \in Seq(Links) /\ chain # <<>> /\ n < Len(ChainIds)
        BY <2>1, <2>2, <3>1 DEF Emit, ChainOK
      <4>2. n \in Nat \ {0}
        BY <3>1, <4>1, EmptySeq
      <4> QED
        BY <1>1, <4>1, <4>2
    <3>3. PICK i \in 1..n :
             chain' = Append(chain,
                 [event |-> FollowUp(chain[i].event, ChainIds[n + 1]),
                  cause |-> i])
      BY <2>2, <3>1 DEF Emit
    <3>4. PICK c, d, f, x :
             /\ c = chain /\ d = chain' /\ x = [event |-> f, cause |-> i]
             /\ f = FollowUp(c[i].event, ChainIds[n + 1])
      OBVIOUS
    <3>5. /\ c \in Seq(Links) /\ Len(c) = n
          /\ \A j \in 2..n : Follows(c, j)
          /\ d = Append(c, x)
      BY <2>1, <3>1, <3>3, <3>4 DEF ChainOK
    <3>6. \A j \in 1..n : c[j] \in Links
      BY <3>5, ElementOfSeq
    <3>7. c[i] \in Links /\ c[1] \in Links
      BY <3>2, <3>6
    <3>8. c[i].event \in Envelopes /\ c[1].event \in Envelopes
      BY <3>7 DEF Links
    <3>9. ChainIds[n + 1] \in STRING \ {None}
      BY <1>1, <3>2
    <3>10. /\ f \in Envelopes
           /\ f.metadata.correlation = CorrelationOf(c[i].event)
           /\ f.metadata.tenant = c[i].event.metadata.tenant
           /\ f.metadata.trace = c[i].event.metadata.trace
           /\ f.metadata.key = None
           /\ f.metadata.causation = c[i].event.id
      BY <3>4, <3>8, <3>9, FollowUpFacts
    <3>11. x \in Links /\ x.event = f /\ x.cause = i
      BY <3>2, <3>4, <3>10 DEF Links
    <3>12. /\ d \in Seq(Links) /\ Len(d) = n + 1 /\ d[n + 1] = x
           /\ \A j \in 1..n : d[j] = c[j]
      BY <3>5, <3>11, AppendProperties
    <3>13. CorrelationOf(c[i].event) = CorrelationOf(c[1].event)
           /\ c[i].event.metadata.tenant = c[1].event.metadata.tenant
           /\ c[i].event.metadata.trace = c[1].event.metadata.trace
      <4>1. CASE i = 1
        BY <4>1
      <4>2. CASE i # 1
        <5>1. i \in 2..n
          BY <3>2, <4>2
        <5>2. Follows(c, i)
          BY <3>5, <5>1
        <5>3. CorrelationOf(c[1].event) # None
          BY <3>8 DEF CorrelationOf, Envelopes
        <5> QED
          BY <5>2, <5>3 DEF Follows, CorrelationOf
      <4> QED
        BY <4>1, <4>2
    <3>14. Follows(d, n + 1)
      <4>1. (n + 1) - 1 = n /\ 1 \in 1..n
        BY <3>2
      <4> QED
        BY <3>10, <3>11, <3>12, <3>13, <4>1 DEF Follows
    <3>15. ASSUME NEW j \in 2..n PROVE Follows(d, j)
      <4>1. Follows(c, j)
        BY <3>5
      <4>2. /\ j \in 1..n /\ 1 \in 1..n
            /\ \A k \in 1..(j - 1) : k \in 1..n
        BY <3>2
      <4>3. /\ d[j] = c[j] /\ d[1] = c[1] /\ c[j].cause \in 1..(j - 1)
            /\ d[c[j].cause] = c[c[j].cause]
        BY <3>12, <4>1, <4>2 DEF Follows
      <4> QED
        BY <4>1, <4>3 DEF Follows
    <3>16. \A j \in 2..Len(d) : Follows(d, j)
      <4>1. \A j \in 2..(n + 1) : j \in 2..n \/ j = n + 1
        BY <3>2
      <4> QED
        BY <3>12, <3>14, <3>15, <4>1
    <3> QED
      BY <3>4, <3>12, <3>16 DEF ChainOK
  <2>3. CASE UNCHANGED chain
    BY <2>1, <2>3 DEF ChainOK
  <2> QED
    BY <2>1, <2>2, <2>3 DEF Next, Sweep, Later, Retry, vars
<1> QED
  BY <1>2, <1>3, PTL DEF Spec

(* Every event of a chain, however long and whichever event each follows,  *)
(* carries what the event that started it set (follow_up).                 *)
THEOREM ChainsKeepRoot == Spec => []ChainKeepsRoot
<1>1. ChainOK => ChainKeepsRoot
  BY DEF ChainOK, ChainKeepsRoot, Follows, CorrelationOf
<1> QED
  BY <1>1, ChainInvariance, PTL

-----------------------------------------------------------------------------
(* The order in which triggers fire.                                       *)

Precedes(x, y) ==
    \/ x.priority > y.priority
    \/ x.priority = y.priority /\ x.name < y.name
InOrder(s) == \A i, j \in 1..Len(s) : i < j => Precedes(s[i], s[j])
Prioritised(X) == \A x \in X : x.priority \in Int /\ x.name \in Nat

(* Both ways to write the elements of a sequence.                          *)
LEMMA ToSetIsRange == \A s : ToSet(s) = Range(s)
BY DEF ToSet, Range

(* Some of the elements of a sequence in order are in order.               *)
LEMMA PartInOrder ==
    ASSUME NEW X, NEW s \in Seq(X), NEW f \in Seq(X), IsPart(f, s), InOrder(s)
    PROVE  InOrder(f)
<1>1. PICK h : Embeds(h, f, s)
  BY DEF IsPart
<1>2. /\ \A i \in 1..Len(f) : h[i] \in 1..Len(s) /\ f[i] = s[h[i]]
      /\ \A i, j \in 1..Len(f) : i < j => h[i] < h[j]
  BY <1>1 DEF Embeds
<1> QED
  BY <1>2 DEF InOrder

(* Two sequences in order, of which one precedes the other, make one.      *)
LEMMA ConcatInOrder ==
    ASSUME NEW X, NEW a \in Seq(X), NEW b \in Seq(X)
    PROVE  /\ a \o b \in Seq(X)
           /\ Range(a \o b) = Range(a) \cup Range(b)
           /\ (/\ InOrder(a) /\ InOrder(b)
               /\ \A x \in Range(a), y \in Range(b) : Precedes(x, y))
                 => InOrder(a \o b)
<1>1. PICK c : c = a \o b
  OBVIOUS
<1>2. Len(a) \in Nat /\ Len(b) \in Nat
  BY LenProperties
<1>3. /\ c \in Seq(X) /\ Len(c) = Len(a) + Len(b)
      /\ \A i \in 1..(Len(a) + Len(b)) :
            c[i] = IF i <= Len(a) THEN a[i] ELSE b[i - Len(a)]
  BY <1>1, ConcatProperties
<1>4. \A i \in 1..Len(c) : \/ i \in 1..Len(a) /\ c[i] = a[i]
                           \/ /\ i > Len(a) /\ i - Len(a) \in 1..Len(b)
                              /\ c[i] = b[i - Len(a)]
  BY <1>2, <1>3
<1>5. /\ \A i \in 1..Len(a) : i \in 1..Len(c) /\ c[i] = a[i]
      /\ \A i \in 1..Len(b) : i + Len(a) \in 1..Len(c) /\ c[i + Len(a)] = b[i]
  <2>1. ASSUME NEW i \in 1..Len(b)
        PROVE  i + Len(a) \in 1..Len(c) /\ c[i + Len(a)] = b[i]
    <3>1. /\ i + Len(a) \in 1..(Len(a) + Len(b)) /\ ~(i + Len(a) <= Len(a))
          /\ (i + Len(a)) - Len(a) = i
      BY <1>2
    <3> QED
      BY <1>3, <3>1
  <2> QED
    BY <1>2, <1>3, <2>1
<1>6. /\ Range(a) = {a[i] : i \in 1..Len(a)}
      /\ Range(b) = {b[i] : i \in 1..Len(b)}
  BY RangeEquality
<1>7. Range(c) = {c[i] : i \in 1..Len(c)}
  BY <1>3, RangeEquality
<1>8. Range(c) = Range(a) \cup Range(b)
  <2>1. \A i \in 1..Len(c) : c[i] \in Range(a) \cup Range(b)
    BY <1>4, <1>6
  <2>2. /\ \A i \in 1..Len(a) : a[i] \in Range(c)
        /\ \A i \in 1..Len(b) : b[i] \in Range(c)
    BY <1>5, <1>7
  <2> QED
    BY <1>6, <1>7, <2>1, <2>2
<1>9. ASSUME InOrder(a), InOrder(b),
             \A x \in Range(a), y \in Range(b) : Precedes(x, y)
      PROVE  InOrder(c)
  <2>1. SUFFICES ASSUME NEW i \in 1..Len(c), NEW j \in 1..Len(c), i < j
                 PROVE  Precedes(c[i], c[j])
    BY DEF InOrder
  <2>2. CASE j \in 1..Len(a) /\ c[j] = a[j]
    <3>1. i \in 1..Len(a) /\ c[i] = a[i]
      BY <1>2, <1>3, <2>1, <2>2, <1>4
    <3> QED
      BY <1>9, <2>1, <2>2, <3>1 DEF InOrder
  <2>3. CASE /\ j > Len(a) /\ j - Len(a) \in 1..Len(b)
             /\ c[j] = b[j - Len(a)]
    <3>1. CASE i \in 1..Len(a) /\ c[i] = a[i]
      BY <1>6, <1>9, <2>3, <3>1
    <3>2. CASE /\ i > Len(a) /\ i - Len(a) \in 1..Len(b)
               /\ c[i] = b[i - Len(a)]
      <4>1. i - Len(a) < j - Len(a)
        BY <1>2, <1>3, <2>1
      <4> QED
        BY <1>9, <2>3, <3>2, <4>1 DEF InOrder
    <3> QED
      BY <1>4, <3>1, <3>2
  <2> QED
    BY <1>4, <2>2, <2>3
<1> QED
  BY <1>1, <1>3, <1>8, <1>9

(* register keeps the order, as a new registration has the latest name.    *)
LEMMA RegisterInOrder ==
    ASSUME NEW X, NEW s \in Seq(X), NEW r \in X, Prioritised(X)
    PROVE  /\ Register(s, r) \in Seq(X)
           /\ Range(Register(s, r)) = Range(s) \cup {r}
           /\ InOrder(s) /\ (\A x \in Range(s) : x.name < r.name)
                 => InOrder(Register(s, r))
<1>1. PICK B : B = {x \in ToSet(s) : x.priority >= r.priority}
  OBVIOUS
<1>2. PICK a, b, m : a = Filter(s, B) /\ b = Filter(s, ToSet(s) \ B) /\ m = <<r>>
  OBVIOUS
<1>3. Register(s, r) = (a \o m) \o b
  BY <1>1, <1>2 DEF Register
<1>4. /\ a \in Seq(X) /\ IsPart(a, s) /\ b \in Seq(X) /\ IsPart(b, s)
      /\ Range(a) = Range(s) \cap B /\ Range(b) = Range(s) \ B
  BY <1>2, FilterIsPart, FilterRange, ToSetIsRange
<1>5. m \in Seq(X) /\ Range(m) = {r} /\ InOrder(m)
  <2>1. Range(m) = {r} /\ m \in Seq(X) /\ Len(m) = 1
    BY <1>2, RangeFacts
  <2> QED
    BY <2>1 DEF InOrder
<1>6. PICK c : c = a \o m
  OBVIOUS
<1>7. /\ c \in Seq(X) /\ Range(c) = Range(a) \cup Range(m)
      /\ (/\ InOrder(a) /\ InOrder(m)
          /\ \A x \in Range(a), y \in Range(m) : Precedes(x, y)) => InOrder(c)
  BY <1>4, <1>5, <1>6, ConcatInOrder
<1>8. /\ c \o b \in Seq(X) /\ Range(c \o b) = Range(c) \cup Range(b)
      /\ (/\ InOrder(c) /\ InOrder(b)
          /\ \A x \in Range(c), y \in Range(b) : Precedes(x, y))
            => InOrder(c \o b)
  BY <1>4, <1>7, ConcatInOrder
<1>9. ASSUME InOrder(s), \A x \in Range(s) : x.name < r.name
      PROVE  InOrder(c \o b)
  <2>1. InOrder(a) /\ InOrder(b)
    BY <1>4, <1>9, PartInOrder
  <2>2. Range(s) \subseteq X
    BY RangeFacts
  <2>3. \A x \in Range(s) : x.priority \in Int /\ x.name \in Nat
    BY <2>2 DEF Prioritised
  <2>4. r.priority \in Int /\ r.name \in Nat
    BY DEF Prioritised
  <2>5. \A x \in Range(a) : x.priority >= r.priority /\ x.name < r.name
                               /\ x.priority \in Int
    BY <1>1, <1>4, <1>9, <2>3
  <2>6. \A y \in Range(b) : ~(y.priority >= r.priority) /\ y.priority \in Int
    BY <1>1, <1>4, <2>3, ToSetIsRange
  <2>7. \A x \in Range(a), y \in Range(m) : Precedes(x, y)
    BY <1>5, <2>4, <2>5 DEF Precedes
  <2>8. \A x \in Range(c), y \in Range(b) : Precedes(x, y)
    <3>1. ASSUME NEW x \in Range(c), NEW y \in Range(b) PROVE Precedes(x, y)
      <4>1. x.priority >= r.priority /\ x.priority \in Int
        BY <1>5, <1>7, <2>4, <2>5
      <4>2. x.priority > y.priority
        BY <2>4, <2>6, <4>1
      <4> QED
        BY <4>2 DEF Precedes
    <3> QED
      BY <3>1
  <2> QED
    BY <1>5, <1>7, <1>8, <2>1, <2>7, <2>8
<1>10. Range(c \o b) = Range(s) \cup {r}
  BY <1>4, <1>5, <1>7, <1>8
<1> QED
  BY <1>3, <1>6, <1>8, <1>9, <1>10

(* f is how load_registry builds up its registry.                          *)
Loads(c, f) ==
    f = [n \in 0..Len(c) |-> IF n = 0 THEN <<>> ELSE Register(f[n - 1], c[n])]

(* A registry has the registrations of its configuration, in order, if     *)
(* each is named by its place.                                             *)
LEMMA LoadInOrder ==
    ASSUME NEW X, Prioritised(X), NEW c \in Seq(X),
           \A i \in 1..Len(c) : c[i].name = i
    PROVE  /\ LoadRegistry(c) \in Seq(X)
           /\ InOrder(LoadRegistry(c))
           /\ Range(LoadRegistry(c)) = {c[i] : i \in 1..Len(c)}
<1>1. PICK N : N = Len(c)
  OBVIOUS
<1>2. N \in Nat /\ \A i \in 1..N : c[i] \in X /\ c[i].name = i
  BY <1>1, LenProperties, ElementOfSeq
<1>3. PICK V : V = Seq(X)
  OBVIOUS
<1>4. PICK G : G = [x \in (1..N) \X V |-> Register(x[2], c[x[1]])]
  OBVIOUS
<1>5. \A n \in 1..N, v \in V : Register(v, c[n]) \in V
  BY <1>2, <1>3, RegisterInOrder
<1>6. IsStep(G, N, V)
  BY <1>4, <1>5 DEF IsStep
<1>7. <<>> \in V
  BY <1>3
<1>8. PICK g : Recurs(g, <<>>, G, N, V)
  BY <1>2, <1>6, <1>7, Recursion
<1>9. Loads(c, g)
  <2>1. PICK u : u = [n \in 0..N |->
                        IF n = 0 THEN <<>> ELSE Register(g[n - 1], c[n])]
    OBVIOUS
  <2>2. ASSUME NEW n \in 0..N PROVE g[n] = u[n]
    <3>1. CASE n = 0
      BY <1>8, <2>1, <3>1 DEF Recurs
    <3>2. CASE n # 0
      <4>1. n \in 1..N /\ n - 1 \in 0..N
        BY <1>2, <3>2
      <4>2. g[n - 1] \in V /\ g[n] = G[<<n, g[n - 1]>>]
        BY <1>8, <4>1 DEF Recurs
      <4>3. <<n, g[n - 1]>> \in (1..N) \X V
        BY <4>1, <4>2
      <4> QED
        BY <1>4, <2>1, <3>2, <4>2, <4>3
    <3> QED
      BY <3>1, <3>2
  <2>3. g = u
    BY <1>8, <2>1, <2>2 DEF Recurs
  <2> QED
    BY <1>1, <2>1, <2>3 DEF Loads
<1>10. PICK f : f = CHOOSE h : Loads(c, h)
  OBVIOUS
<1>11. Loads(c, f)
  BY <1>9, <1>10
<1>12. LoadRegistry(c) = f[N]
  BY <1>1, <1>10 DEF LoadRegistry, Loads
<1> DEFINE T == {n \in Nat : n <= N =>
                    /\ f[n] \in V /\ InOrder(f[n])
                    /\ Range(f[n]) = {c[i] : i \in 1..n}}
<1>13. 0 \in T
  <2>1. f[0] = <<>>
    BY <1>1, <1>2, <1>11 DEF Loads
  <2>2. Range(<<>>) = {} /\ InOrder(<<>>)
    BY RangeFacts DEF InOrder
  <2>3. {c[i] : i \in 1..0} = {}
    OBVIOUS
  <2> QED
    BY <1>7, <2>1, <2>2, <2>3
<1>14. ASSUME NEW n \in Nat, n \in T PROVE n + 1 \in T
  <2>1. SUFFICES ASSUME n + 1 <= N
                 PROVE  /\ f[n + 1] \in V /\ InOrder(f[n + 1])
                        /\ Range(f[n + 1]) = {c[i] : i \in 1..(n + 1)}
    OBVIOUS
  <2>2. /\ n + 1 \in 1..N /\ n + 1 \in 0..N /\ (n + 1) - 1 = n /\ n + 1 # 0
        /\ n <= N
    BY <1>2, <2>1
  <2>3. PICK v, r : v = f[n] /\ r = c[n + 1]
    OBVIOUS
  <2>4. f[n + 1] = Register(v, r)
    BY <1>1, <1>11, <2>2, <2>3 DEF Loads
  <2>5. v \in Seq(X) /\ InOrder(v) /\ Range(v) = {c[i] : i \in 1..n}
    BY <1>3, <1>14, <2>2, <2>3
  <2>6. r \in X /\ r.name = n + 1
    BY <1>2, <2>2, <2>3
  <2>7. \A i \in 1..n : c[i].name < r.name
    BY <1>2, <2>2, <2>6
  <2>8. \A x \in Range(v) : x.name < r.name
    BY <2>5, <2>7
  <2>9. /\ Register(v, r) \in Seq(X) /\ InOrder(Register(v, r))
        /\ Range(Register(v, r)) = Range(v) \cup {r}
    BY <2>5, <2>6, <2>8, RegisterInOrder
  <2>10. {c[i] : i \in 1..(n + 1)} = {c[i] : i \in 1..n} \cup {c[n + 1]}
    <3>1. \A i : i \in 1..(n + 1) <=> i \in 1..n \/ i = n + 1
      OBVIOUS
    <3> QED
      BY <3>1
  <2> QED
    BY <1>3, <2>3, <2>4, <2>5, <2>9, <2>10
<1> HIDE DEF T
<1>15. N \in T
  BY <1>2, <1>13, <1>14, Induction
<1> QED
  BY <1>1, <1>2, <1>3, <1>12, <1>15 DEF T

(* A sequence without repetitions is as long as the set of its elements'   *)
(* names is large.                                                         *)
LEMMA LengthIsCardinality ==
    ASSUME NEW X, NEW s \in Seq(X), NEW D, D = {x.name : x \in Range(s)},
           \A i, j \in 1..Len(s) : s[i].name = s[j].name => i = j
    PROVE  Len(s) = Cardinality(D)
<1>1. PICK n : n = Len(s)
  OBVIOUS
<1>2. n \in Nat
  BY <1>1, LenProperties
<1>3. Range(s) = {s[i] : i \in 1..n}
  BY <1>1, RangeEquality
<1>4. PICK h : h = [i \in 1..n |-> s[i].name]
  OBVIOUS
<1>5. h \in Bijection(1..n, D)
  <2>1. h \in [1..n -> D]
    BY <1>3, <1>4
  <2>2. h \in Injection(1..n, D)
    BY <1>1, <1>4, <2>1 DEF Injection, IsInjective
  <2>3. \A d \in D : \E i \in 1..n : h[i] = d
    BY <1>3, <1>4
  <2>4. h \in Surjection(1..n, D)
    BY <2>1, <2>3 DEF Surjection
  <2> QED
    BY <2>2, <2>4 DEF Bijection
<1>6. ExistsBijection(1..n, D)
  BY <1>5 DEF ExistsBijection
<1>7. IsFiniteSet(1..n) /\ Cardinality(1..n) = n
  <2>1. IsFiniteSet(1..n)
        /\ Cardinality(1..n) = IF 1 > n THEN 0 ELSE n - 1 + 1
    BY <1>2, FS_Interval
  <2> QED
    BY <1>2, <2>1
<1> QED
  BY <1>1, <1>6, <1>7, FS_Bijection

ConfigOK == config = <<>> \/ config \in Configurations

(* A behaviour is about one configuration.                                 *)
LEMMA ConfigInvariance == Spec => []ConfigOK
<1>1. Init => ConfigOK
  BY DEF Init, ConfigOK
<1>2. ConfigOK /\ [Next]_vars => ConfigOK'
  <2>1. SUFFICES ASSUME ConfigOK, [Next]_vars PROVE ConfigOK'
    OBVIOUS
  <2>2. config' = config
    BY <2>1 DEF Next, Sweep, Later, Retry, Emit, vars
  <2> QED
    BY <2>1, <2>2 DEF ConfigOK
<1> QED
  BY <1>1, <1>2, PTL DEF Spec

(* For every configuration, of any number of triggers with any priorities  *)
(* and conditions, an event fires the enabled ones that it matches, each   *)
(* once and in order (TriggerRegistry::register, matching,                 *)
(* parse_registry).                                                        *)
THEOREM TriggersFireInOrder == Spec => []FiresInOrder
<1>1. ASSUME ConfigOK PROVE FiresInOrder
  <2>1. PICK Y : Y = [name : Nat, priority : Int, enabled : BOOLEAN,
                      condition : MatchSpecs]
    OBVIOUS
  <2>2. config \in Seq(Y) /\ \A i \in DOMAIN config : config[i].name = i
    <3>1. CASE config = <<>>
      BY <3>1
    <3>2. CASE config \in Configurations
      BY <2>1, <3>2, DecisionsAssumption
    <3> QED
      BY <1>1, <3>1, <3>2 DEF ConfigOK
  <2>3. PICK c : c = [i \in DOMAIN config |-> EntryRegistration(config[i])]
    OBVIOUS
  <2>4. PICK N : N = Len(config)
    OBVIOUS
  <2>5. N \in Nat /\ DOMAIN config = 1..N /\ \A i \in 1..N : config[i] \in Y
    BY <2>2, <2>4, LenProperties, ElementOfSeq
  <2>6. PICK X : X = {c[i] : i \in 1..N}
    OBVIOUS
  <2>7. c \in Seq(X) /\ Len(c) = N
    BY <2>3, <2>5, <2>6
  <2>8. \A i \in 1..N : /\ c[i].name = i
                        /\ c[i].priority = config[i].priority
                        /\ c[i].enabled = config[i].enabled
                        /\ c[i].accepts = BuildCondition(config[i].condition)
    BY <2>2, <2>3, <2>5 DEF EntryRegistration
  <2>9. Prioritised(X)
    <3>1. \A i \in 1..N : config[i].priority \in Int
      BY <2>1, <2>5
    <3> QED
      BY <2>5, <2>6, <2>8, <3>1 DEF Prioritised
  <2>10. PICK R : R = ParseRegistry(config)
    OBVIOUS
  <2>11. R \in Seq(X) /\ InOrder(R) /\ Range(R) = X
    <3>1. R = LoadRegistry(c)
      BY <2>3, <2>10 DEF ParseRegistry
    <3> QED
      BY <2>6, <2>7, <2>8, <2>9, <3>1, LoadInOrder
  <2>12. SUFFICES
           ASSUME NEW e \in Events,
                  NEW fired, fired = Matching(R, e),
                  NEW due, due = {i \in DOMAIN config :
                                    /\ config[i].enabled
                                    /\ e \in BuildCondition(
                                                config[i].condition)}
           PROVE  /\ {r.name : r \in ToSet(fired)} = due
                  /\ Len(fired) = Cardinality(due)
                  /\ InOrder(fired)
    BY <2>10 DEF FiresInOrder, InOrder, Precedes
  <2>13. PICK A : A = {r \in ToSet(R) : r.enabled /\ e \in r.accepts}
    OBVIOUS
  <2>14. fired = Filter(R, A)
    BY <2>12, <2>13 DEF Matching
  <2>15. /\ fired \in Seq(X) /\ IsPart(fired, R)
         /\ Range(fired) = X \cap A
    BY <2>11, <2>14, FilterIsPart, FilterRange
  <2>16. InOrder(fired)
    BY <2>11, <2>15, PartInOrder
  <2>17. Range(fired) = {r \in X : r.enabled /\ e \in r.accepts}
    BY <2>11, <2>13, <2>15, ToSetIsRange
  <2>18. due = {r.name : r \in Range(fired)}
    <3>1. \A i \in due : \E r \in Range(fired) : r.name = i
      BY <2>5, <2>6, <2>8, <2>12, <2>17
    <3>2. \A r \in Range(fired) : r.name \in due
      BY <2>5, <2>6, <2>8, <2>12, <2>17
    <3>3. \A i \in due : i \in {r.name : r \in Range(fired)}
      BY <3>1
    <3>4. \A i \in {r.name : r \in Range(fired)} : i \in due
      BY <3>2
    <3> QED
      BY <3>3, <3>4
  <2>19. \A i, j \in 1..Len(fired) : fired[i].name = fired[j].name => i = j
    <3>1. \A i \in 1..Len(fired) : fired[i] \in X
      BY <2>15, LenProperties, ElementOfSeq
    <3>2. \A x, y \in X : x.name = y.name => ~Precedes(x, y)
      <4>1. \A x, y \in X : x.name = y.name => x = y
        BY <2>6, <2>8
      <4> QED
        BY <2>9, <4>1 DEF Precedes, Prioritised
    <3>3. ASSUME NEW i \in 1..Len(fired), NEW j \in 1..Len(fired),
                 fired[i].name = fired[j].name
          PROVE  i = j
      <4>1. ~(i < j) /\ ~(j < i)
        BY <2>16, <3>1, <3>2, <3>3 DEF InOrder
      <4> QED
        BY <4>1
    <3> QED
      BY <3>3
  <2>20. Len(fired) = Cardinality(due)
    BY <2>15, <2>18, <2>19, LengthIsCardinality
  <2> QED
    BY <2>16, <2>18, <2>20, ToSetIsRange
<1> QED
  BY <1>1, ConfigInvariance, PTL
=============================================================================
