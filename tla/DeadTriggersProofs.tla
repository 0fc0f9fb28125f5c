------------------------- MODULE DeadTriggersProofs -------------------------
(***************************************************************************)
(* Proofs about DeadTriggers, for any events, configurations, ranges,      *)
(* policies, failures and restarts: no recorded failure is forgotten, and  *)
(* a retry leaves no duplicates and reports what it left.                  *)
(***************************************************************************)
EXTENDS DeadTriggers, RetentionLemmas, FiniteSetTheorems

LogRecords == [id : Events, ts : Int, size : {1}]
DeadRecords == [id : Events, ts : Int, size : {1}, trigger : Names]
Reports == [drained : Nat, events : Nat, recovered : Nat, stillFailed : Nat]
Passes ==
    [kind : {"idle", "recover", "handle", "range", "retry"},
     todo : Seq(Events), rest : Seq(Registrations), nowFailed : SUBSET Names,
     drained : Seq(DeadRecords), report : Reports]

NamesOf(s) == {r.name : r \in Range(s)}
Named(s) == \A i, j \in 1..Len(s) : s[i].name = s[j].name => i = j

(* The types of the files and of the histories; the retained events were   *)
(* appended, and a dead trigger's record has its event's timestamp.        *)
RecordsOK ==
    /\ log \in Seq(LogRecords) /\ queue \in Seq(DeadRecords)
    /\ delivered \subseteq appended /\ appended \subseteq Events
    /\ owed \cup damaged \subseteq Events \X Names
    /\ \A r \in Range(log) : r.id \in appended
    /\ \A r \in Range(queue) : r.ts = Stamp[r.id]

ProcessOK ==
    /\ process \in {"none", "serve", "cli"}
    /\ registry \in Seq(Registrations)
    /\ DistinctNames => Named(registry)
    /\ starts \in 0..MaxStarts /\ failures \in 0..MaxFailures

(* A trigger in hand is one of an event in hand, and only a retry, which   *)
(* the operator runs, has drained anything.                                *)
PassOK(w, p) ==
    /\ p \in Passes
    /\ p.kind = "idle" => p = Idle
    /\ p.rest # <<>> => p.todo # <<>>
    /\ p.kind # "retry" => p.drained = <<>>
    /\ p.kind = "retry" => w = Operator

(* Which passes run in which process.                                      *)
TasksOK ==
    /\ task \in [Tasks -> Passes]
    /\ \A w \in Tasks : PassOK(w, task[w])
    /\ task[Operator].kind = "retry" => process = "cli"
    /\ process = "none" => \A w \in Tasks : task[w] = Idle
    /\ process = "cli" \/ task[Ingester].kind = "recover"
          => task[Ingester] = Idle \/ task[Operator] = Idle
    /\ Range(task[Ingester].todo) \subseteq appended

Base == RecordsOK /\ ProcessOK /\ TasksOK

(* What the retry pass has drained for the event in hand is back in the    *)
(* queue, still to be evaluated, or no longer owed.                        *)
HandledOK ==
    LET p == task[Operator]
    IN  p.todo # <<>> =>
            \A t \in NamesOf(Matching(registry, Head(p.todo))) :
                LET x == <<Head(p.todo), t>>
                IN  x \in Held(p) /\ x \in owed \ damaged =>
                        x \in Pairs(queue) \/ t \in NamesOf(p.rest)

(* What pass p has drained of the events that it has done.                 *)
Done(p) == {x \in Pairs(p.drained) : x[1] \notin Range(p.todo)}

(* While a retry runs, the queue holds only what failed again in this      *)
(* pass: pairs of events that are done, and of the event in hand those     *)
(* counted as failing now.                                                 *)
RetryFine(p, q) ==
    /\ IsInjective(p.todo) /\ IsInjective(q)
    /\ \A x \in Pairs(q) : x[1] \in Range(p.todo) =>
          x[1] = Head(p.todo) /\ x[2] \in p.nowFailed
    /\ p.todo # <<>> =>
          \A t \in p.nowFailed : <<Head(p.todo), t>> \in Pairs(q)
    /\ Named(p.rest) /\ NamesOf(p.rest) \cap p.nowFailed = {}
    /\ p.report.stillFailed = Cardinality(Done(p) \cap Pairs(q))
    /\ p.report.recovered = Cardinality(Done(p) \ Pairs(q))

RetryOK ==
    DistinctNames /\ task[Operator].kind = "retry"
        => RetryFine(task[Operator], queue)

(* The inductive invariant is Base /\ Safe.                               *)
Safe == NoneForgotten /\ HandledOK /\ RetryOK
-----------------------------------------------------------------------------
(* Sequences.                                                              *)

(* The library has two names for the elements of a sequence.               *)
LEMMA ToSetIsRange == \A s : ToSet(s) = Range(s)
BY DEF ToSet, Range

(* A nonempty sequence is its head and its tail: in elements, in           *)
(* distinctness and in trigger names.                                      *)
LEMMA HeadTailFacts ==
    ASSUME NEW X, NEW s \in Seq(X), s # <<>>
    PROVE  /\ Head(s) \in X /\ Tail(s) \in Seq(X)
           /\ Range(s) = {Head(s)} \cup Range(Tail(s))
           /\ IsInjective(s) =>
                 IsInjective(Tail(s)) /\ Head(s) \notin Range(Tail(s))
           /\ Named(s) =>
                 Named(Tail(s)) /\ Head(s).name \notin NamesOf(Tail(s))
           /\ NamesOf(s) = {Head(s).name} \cup NamesOf(Tail(s))
<1>1. PICK h, t : h = Head(s) /\ t = Tail(s)
  OBVIOUS
<1>2. /\ h \in X /\ t \in Seq(X) /\ Len(t) = Len(s) - 1
      /\ \A i \in 1..Len(t) : t[i] = s[i + 1]
  BY <1>1, HeadTailProperties
<1>3. Len(s) \in Nat /\ Len(s) >= 1 /\ h = s[1]
  BY <1>1, EmptySeq
<1>4. /\ \A i \in 1..Len(t) : i + 1 \in 1..Len(s) /\ i + 1 # 1
      /\ \A i \in 1..Len(s) : i = 1 \/ (i - 1 \in 1..Len(t) /\ i = (i - 1) + 1)
      /\ 1 \in 1..Len(s)
  BY <1>2, <1>3
<1>5. Range(s) = {s[i] : i \in 1..Len(s)} /\ DOMAIN s = 1..Len(s)
  BY RangeEquality, LenProperties
<1>6. Range(t) = {t[i] : i \in 1..Len(t)} /\ DOMAIN t = 1..Len(t)
  BY <1>2, RangeEquality, LenProperties
<1>7. Range(s) = {h} \cup Range(t)
  <2>1. ASSUME NEW i \in 1..Len(s) PROVE s[i] = h \/ s[i] \in Range(t)
    <3>1. CASE i = 1
      BY <1>3, <3>1
    <3>2. CASE i # 1
      <4>1. i - 1 \in 1..Len(t) /\ s[i] = t[i - 1]
        BY <1>2, <1>4, <3>2
      <4> QED
        BY <1>6, <4>1
    <3> QED
      BY <3>1, <3>2
  <2>2. \A i \in 1..Len(t) : t[i] \in Range(s)
    BY <1>2, <1>4, <1>5
  <2>3. h \in Range(s)
    BY <1>3, <1>4, <1>5
  <2> QED
    BY <1>5, <1>6, <2>1, <2>2, <2>3
<1>8. ASSUME IsInjective(s) PROVE IsInjective(t) /\ h \notin Range(t)
  <2>1. \A i, j \in 1..Len(s) : s[i] = s[j] => i = j
    BY <1>5, <1>8 DEF IsInjective
  <2>2. ASSUME NEW i \in 1..Len(t), NEW j \in 1..Len(t), t[i] = t[j]
        PROVE  i = j
    <3>1. i + 1 = j + 1
      BY <1>2, <1>4, <2>1, <2>2
    <3> QED
      BY <3>1
  <2>3. \A i \in 1..Len(t) : t[i] # h
    BY <1>2, <1>3, <1>4, <2>1
  <2> QED
    BY <1>6, <2>2, <2>3 DEF IsInjective
<1>9. NamesOf(s) = {h.name} \cup NamesOf(t)
  BY <1>7 DEF NamesOf
<1>10. ASSUME Named(s) PROVE Named(t) /\ h.name \notin NamesOf(t)
  <2>1. ASSUME NEW i \in 1..Len(t), NEW j \in 1..Len(t), t[i].name = t[j].name
        PROVE  i = j
    <3>1. i + 1 = j + 1
      BY <1>2, <1>4, <1>10, <2>1 DEF Named
    <3> QED
      BY <3>1
  <2>2. \A i \in 1..Len(t) : t[i].name # h.name
    BY <1>2, <1>3, <1>4, <1>10 DEF Named
  <2> QED
    BY <1>6, <2>1, <2>2 DEF Named, NamesOf
<1> QED
  BY <1>1, <1>2, <1>7, <1>8, <1>9, <1>10

(* Appending a new element keeps a sequence free of repetitions.           *)
LEMMA AppendInjective1 ==
    ASSUME NEW X, NEW s \in Seq(X), NEW x \in X, IsInjective(s),
           x \notin Range(s)
    PROVE  IsInjective(Append(s, x))
<1>1. PICK t : t = Append(s, x)
  OBVIOUS
<1>2. /\ t \in Seq(X) /\ Len(t) = Len(s) + 1 /\ t[Len(s) + 1] = x
      /\ \A i \in 1..Len(s) : t[i] = s[i]
  BY <1>1, AppendProperties
<1>3. Len(s) \in Nat /\ DOMAIN s = 1..Len(s) /\ DOMAIN t = 1..Len(t)
  BY <1>2, LenProperties
<1>4. Range(s) = {s[i] : i \in 1..Len(s)}
  BY RangeEquality
<1>5. ASSUME NEW i \in 1..Len(t), NEW j \in 1..Len(t), t[i] = t[j]
      PROVE  i = j
  <2>1. /\ i \in 1..Len(s) \/ i = Len(s) + 1
        /\ j \in 1..Len(s) \/ j = Len(s) + 1
    BY <1>2, <1>3
  <2>2. CASE i \in 1..Len(s) /\ j \in 1..Len(s)
    BY <1>2, <1>3, <1>5, <2>2 DEF IsInjective
  <2> QED
    BY <1>2, <1>4, <1>5, <2>1, <2>2
<1> QED
  BY <1>1, <1>3, <1>5 DEF IsInjective

(* The ids of records.                                                     *)
LEMMA IdsFacts ==
    ASSUME NEW s \in Seq(LogRecords)
    PROVE  /\ Ids(s) \in Seq(Events)
           /\ \A e \in Range(Ids(s)) : \E r \in Range(s) : r.id = e
<1>1. Len(s) \in Nat /\ Range(s) = {s[i] : i \in 1..Len(s)}
  BY LenProperties, RangeEquality
<1>2. PICK t : t = Ids(s)
  OBVIOUS
<1>3. t = [i \in 1..Len(s) |-> s[i].id]
  BY <1>2 DEF Ids
<1>4. \A i \in 1..Len(s) : s[i].id \in Events
  <2>1. \A i \in 1..Len(s) : s[i] \in LogRecords
    BY ElementOfSeq
  <2> QED
    BY <2>1 DEF LogRecords
<1>5. t \in [1..Len(s) -> Events]
  BY <1>3, <1>4
<1>6. t \in Seq(Events)
  BY <1>1, <1>5, SeqDef
<1>7. \A e \in Range(t) : \E i \in 1..Len(s) : e = s[i].id
  BY <1>3 DEF Range
<1> QED
  BY <1>1, <1>2, <1>6, <1>7

-----------------------------------------------------------------------------
(* The registry.                                                           *)

(* Part of a sequence has no other elements, and none twice.               *)
LEMMA PartFacts ==
    ASSUME NEW X, NEW s \in Seq(X), NEW f \in Seq(X), IsPart(f, s)
    PROVE  /\ Range(f) \subseteq Range(s)
           /\ Named(s) => Named(f)
<1>1. Len(f) \in Nat /\ Len(s) \in Nat
  BY LenProperties
<1>2. PICK h \in [1..Len(f) -> 1..Len(s)] :
         /\ \A i, j \in 1..Len(f) : h[i] = h[j] => i = j
         /\ \A i \in 1..Len(f) : f[i] = s[h[i]]
  BY <1>1, PartPlaces
<1>3. /\ Range(f) = {f[i] : i \in 1..Len(f)}
      /\ Range(s) = {s[i] : i \in 1..Len(s)}
  BY RangeEquality
<1>4. ASSUME Named(s) PROVE Named(f)
  BY <1>2, <1>4 DEF Named
<1> QED
  BY <1>2, <1>3, <1>4

(* Two sequences one after the other.                                      *)
LEMMA ConcatFacts ==
    ASSUME NEW X, NEW a \in Seq(X), NEW b \in Seq(X)
    PROVE  /\ a \o b \in Seq(X)
           /\ Range(a \o b) = Range(a) \cup Range(b)
           /\ NamesOf(a \o b) = NamesOf(a) \cup NamesOf(b)
           /\ (Named(a) /\ Named(b) /\ NamesOf(a) \cap NamesOf(b) = {})
                 => Named(a \o b)
<1>1. PICK c : c = a \o b
  OBVIOUS
<1>2. Len(a) \in Nat /\ Len(b) \in Nat
  BY LenProperties
<1>3. /\ c \in Seq(X) /\ Len(c) = Len(a) + Len(b)
      /\ \A i \in 1..(Len(a) + Len(b)) :
            c[i] = IF i <= Len(a) THEN a[i] ELSE b[i - Len(a)]
  BY <1>1, ConcatProperties
<1>4. \A i \in 1..Len(c) : \/ i \in 1..Len(a) /\ c[i] = a[i]
                           \/ i - Len(a) \in 1..Len(b) /\ c[i] = b[i - Len(a)]
  BY <1>2, <1>3
<1>5. /\ \A i \in 1..Len(a) : i \in 1..Len(c) /\ c[i] = a[i]
      /\ \A i \in 1..Len(b) : i + Len(a) \in 1..Len(c) /\ c[i + Len(a)] = b[i]
  <2>1. ASSUME NEW i \in 1..Len(b)
        PROVE  i + Len(a) \in 1..Len(c) /\ c[i + Len(a)] = b[i]
    <3>1. /\ i + Len(a) \in 1..(Len(a) + Len(b)) /\ ~(i + Len(a) <= Len(a))
          /\ (i + Len(a)) - Len(a) = i
      BY <1>2
    <3> QED
      BY <1>3, <3>1
  <2> QED
    BY <1>2, <1>3, <2>1
<1>6. /\ Range(a) = {a[i] : i \in 1..Len(a)}
      /\ Range(b) = {b[i] : i \in 1..Len(b)}
  BY RangeEquality
<1>7. Range(c) = {c[i] : i \in 1..Len(c)}
  BY <1>3, RangeEquality
<1>8. Range(c) = Range(a) \cup Range(b)
  <2>1. \A i \in 1..Len(c) : c[i] \in Range(a) \cup Range(b)
    BY <1>4, <1>6
  <2>2. /\ \A i \in 1..Len(a) : a[i] \in Range(c)
        /\ \A i \in 1..Len(b) : b[i] \in Range(c)
    BY <1>5, <1>7
  <2> QED
    BY <1>6, <1>7, <2>1, <2>2
<1>9. NamesOf(c) = NamesOf(a) \cup NamesOf(b)
  BY <1>8 DEF NamesOf
<1>10. ASSUME Named(a), Named(b), NamesOf(a) \cap NamesOf(b) = {}
       PROVE  Named(c)
  <2>1. /\ \A i \in 1..Len(a) : a[i].name \in NamesOf(a)
        /\ \A i \in 1..Len(b) : b[i].name \in NamesOf(b)
    BY <1>6 DEF NamesOf
  <2>2. ASSUME NEW i \in 1..Len(c), NEW j \in 1..Len(c), c[i].name = c[j].name
        PROVE  i = j
    <3>1. CASE i \in 1..Len(a) /\ c[i] = a[i]
      <4>1. j \in 1..Len(a) /\ c[j] = a[j]
        BY <1>4, <1>10, <2>1, <2>2, <3>1
      <4> QED
        BY <1>10, <2>2, <3>1, <4>1 DEF Named
    <3>2. CASE i - Len(a) \in 1..Len(b) /\ c[i] = b[i - Len(a)]
      <4>1. j - Len(a) \in 1..Len(b) /\ c[j] = b[j - Len(a)]
        BY <1>4, <1>10, <2>1, <2>2, <3>2
      <4>2. i - Len(a) = j - Len(a)
        BY <1>10, <2>2, <3>2, <4>1 DEF Named
      <4> QED
        BY <1>2, <1>3, <4>2
    <3> QED
      BY <1>4, <3>1, <3>2
  <2> QED
    BY <2>2 DEF Named
<1> QED
  BY <1>1, <1>3, <1>8, <1>9, <1>10

(* register keeps the names of the registrations distinct.                 *)
LEMMA RegisterFacts ==
    ASSUME NEW X, NEW s \in Seq(X), NEW r \in X
    PROVE  /\ Register(s, r) \in Seq(X)
           /\ NamesOf(Register(s, r)) = NamesOf(s) \cup {r.name}
           /\ Named(s) /\ r.name \notin NamesOf(s) => Named(Register(s, r))
<1>1. PICK B : B = {x \in ToSet(s) : x.priority >= r.priority}
  OBVIOUS
<1>2. PICK a, b, m : a = Filter(s, B) /\ b = Filter(s, ToSet(s) \ B) /\ m = <<r>>
  OBVIOUS
<1>3. Register(s, r) = (a \o m) \o b
  BY <1>1, <1>2 DEF Register
<1>4. /\ a \in Seq(X) /\ IsPart(a, s) /\ b \in Seq(X) /\ IsPart(b, s)
      /\ Range(a) = Range(s) \cap B /\ Range(b) = Range(s) \ B
  BY <1>2, FilterIsPart, FilterRange, ToSetIsRange
<1>5. m \in Seq(X) /\ Range(m) = {r} /\ NamesOf(m) = {r.name} /\ Named(m)
  <2>1. Range(m) = {r} /\ m \in Seq(X) /\ Len(m) = 1
    BY <1>2, RangeFacts
  <2>2. NamesOf(m) = {r.name}
    BY <2>1 DEF NamesOf
  <2> QED
    BY <2>1, <2>2 DEF Named
<1>6. PICK c : c = a \o m
  OBVIOUS
<1>7. /\ c \in Seq(X) /\ NamesOf(c) = NamesOf(a) \cup {r.name}
      /\ (Named(a) /\ NamesOf(a) \cap {r.name} = {}) => Named(c)
  BY <1>4, <1>5, <1>6, ConcatFacts
<1>8. /\ c \o b \in Seq(X) /\ NamesOf(c \o b) = NamesOf(c) \cup NamesOf(b)
      /\ (Named(c) /\ Named(b) /\ NamesOf(c) \cap NamesOf(b) = {})
            => Named(c \o b)
  BY <1>4, <1>7, ConcatFacts
<1>9. NamesOf(s) = NamesOf(a) \cup NamesOf(b)
  BY <1>4 DEF NamesOf
<1>10. ASSUME Named(s), r.name \notin NamesOf(s) PROVE Named(c \o b)
  <2>1. Named(a) /\ Named(b)
    BY <1>4, <1>10, PartFacts
  <2>2. \A x, y \in Range(s) : x.name = y.name => x = y
    <3>1. Range(s) = {s[i] : i \in 1..Len(s)}
      BY RangeEquality
    <3> QED
      BY <1>10, <3>1 DEF Named
  <2>3. NamesOf(a) \cap NamesOf(b) = {}
    BY <1>4, <2>2 DEF NamesOf
  <2> QED
    BY <1>7, <1>8, <1>9, <1>10, <2>1, <2>3
<1> QED
  BY <1>3, <1>6, <1>7, <1>8, <1>9, <1>10

(* f is how load_registry builds up its registry.                          *)
Loads(c, f) ==
    f = [n \in 0..Len(c) |-> IF n = 0 THEN <<>> ELSE Register(f[n - 1], c[n])]

(* A registry is made of its configuration's registrations.                *)
LEMMA LoadRegistryFacts ==
    ASSUME NEW c \in Configs
    PROVE  /\ LoadRegistry(c) \in Seq(Registrations)
           /\ DistinctNames => Named(LoadRegistry(c))
<1>1. c \in Seq(Registrations)
  <2>1. c \in Seq(ToSet(c))
    BY DeadTriggersAssumption
  <2>2. ToSet(c) \subseteq Registrations
    BY DEF Registrations
  <2> QED
    BY <2>1, <2>2
<1>2. PICK N : N = Len(c)
  OBVIOUS
<1>3. N \in Nat /\ \A i \in 1..N : c[i] \in Registrations
  BY <1>1, <1>2, LenProperties, ElementOfSeq
<1>4. PICK V : V = Seq(Registrations)
  OBVIOUS
<1>5. PICK G : G = [x \in (1..N) \X V |-> Register(x[2], c[x[1]])]
  OBVIOUS
<1>6. \A n \in 1..N, v \in V : Register(v, c[n]) \in V
  BY <1>3, <1>4, RegisterFacts
<1>7. IsStep(G, N, V)
  BY <1>5, <1>6 DEF IsStep
<1>8. <<>> \in V
  BY <1>4
<1>9. PICK g : Recurs(g, <<>>, G, N, V)
  BY <1>3, <1>7, <1>8, Recursion
<1>10. Loads(c, g)
  <2>1. PICK u : u = [n \in 0..N |->
                        IF n = 0 THEN <<>> ELSE Register(g[n - 1], c[n])]
    OBVIOUS
  <2>2. ASSUME NEW n \in 0..N PROVE g[n] = u[n]
    <3>1. CASE n = 0
      BY <1>9, <2>1, <3>1 DEF Recurs
    <3>2. CASE n # 0
      <4>1. n \in 1..N /\ n - 1 \in 0..N
        BY <1>3, <3>2
      <4>2. g[n - 1] \in V /\ g[n] = G[<<n, g[n - 1]>>]
        BY <1>9, <4>1 DEF Recurs
      <4>3. <<n, g[n - 1]>> \in (1..N) \X V
        BY <4>1, <4>2
      <4> QED
        BY <1>5, <2>1, <3>2, <4>2, <4>3
    <3> QED
      BY <3>1, <3>2
  <2>3. g = u
    BY <1>9, <2>1, <2>2 DEF Recurs
  <2> QED
    BY <1>2, <2>1, <2>3 DEF Loads
<1>11. PICK f : f = CHOOSE h : Loads(c, h)
  OBVIOUS
<1>12. Loads(c, f)
  BY <1>10, <1>11
<1>13. LoadRegistry(c) = f[N]
  BY <1>2, <1>11 DEF LoadRegistry, Loads
<1> DEFINE T == {n \in Nat : n <= N =>
                    /\ f[n] \in V /\ (DistinctNames => Named(f[n]))
                    /\ NamesOf(f[n]) = {c[i].name : i \in 1..n}}
<1>14. 0 \in T
  <2>1. f[0] = <<>>
    BY <1>2, <1>3, <1>12 DEF Loads
  <2>2. NamesOf(<<>>) = {} /\ Named(<<>>)
    BY RangeFacts DEF NamesOf, Named
  <2>3. {c[i].name : i \in 1..0} = {}
    OBVIOUS
  <2> QED
    BY <1>8, <2>1, <2>2, <2>3
<1>15. ASSUME NEW n \in Nat, n \in T PROVE n + 1 \in T
  <2>1. SUFFICES ASSUME n + 1 <= N
                 PROVE  /\ f[n + 1] \in V /\ (DistinctNames => Named(f[n + 1]))
                        /\ NamesOf(f[n + 1]) = {c[i].name : i \in 1..(n + 1)}
    OBVIOUS
  <2>2. /\ n + 1 \in 1..N /\ n + 1 \in 0..N /\ (n + 1) - 1 = n /\ n + 1 # 0
        /\ n <= N
    BY <1>3, <2>1
  <2>3. f[n + 1] = Register(f[n], c[n + 1])
    BY <1>2, <1>12, <2>2 DEF Loads
  <2>4. /\ f[n] \in V /\ (DistinctNames => Named(f[n]))
        /\ NamesOf(f[n]) = {c[i].name : i \in 1..n}
    BY <1>15, <2>2
  <2>5. ASSUME DistinctNames PROVE c[n + 1].name \notin NamesOf(f[n])
    <3>1. \A i \in 1..n : c[i].name # c[n + 1].name
      <4>1. \A i \in 1..n : i \in 1..N /\ i # n + 1
        BY <1>3, <2>2
      <4> QED
        BY <1>2, <2>2, <2>5, <4>1 DEF DistinctNames
    <3> QED
      BY <2>4, <3>1
  <2>6. /\ f[n + 1] \in V /\ (DistinctNames => Named(f[n + 1]))
        /\ NamesOf(f[n + 1]) = NamesOf(f[n]) \cup {c[n + 1].name}
    <3>1. PICK v, r : v = f[n] /\ r = c[n + 1]
      OBVIOUS
    <3>2. v \in Seq(Registrations) /\ r \in Registrations
      BY <1>3, <1>4, <2>2, <2>4, <3>1
    <3>3. /\ Register(v, r) \in Seq(Registrations)
          /\ NamesOf(Register(v, r)) = NamesOf(v) \cup {r.name}
          /\ Named(v) /\ r.name \notin NamesOf(v) => Named(Register(v, r))
      BY <3>2, RegisterFacts
    <3> QED
      BY <1>4, <2>3, <2>4, <2>5, <3>1, <3>3
  <2>7. {c[i].name : i \in 1..(n + 1)}
            = {c[i].name : i \in 1..n} \cup {c[n + 1].name}
    <3>1. \A i : i \in 1..(n + 1) <=> i \in 1..n \/ i = n + 1
      OBVIOUS
    <3> QED
      BY <3>1
  <2> QED
    BY <2>4, <2>6, <2>7
<1> HIDE DEF T
<1>16. N \in T
  BY <1>3, <1>14, <1>15, Induction
<1> QED
  BY <1>3, <1>4, <1>13, <1>16 DEF T

(* The triggers that match an event are registered.                        *)
LEMMA MatchingFacts ==
    ASSUME NEW s \in Seq(Registrations), NEW e
    PROVE  /\ Matching(s, e) \in Seq(Registrations)
           /\ Named(s) => Named(Matching(s, e))
           /\ NamesOf(Matching(s, e)) \subseteq Names
<1>1. PICK S : S = {r \in ToSet(s) : r.enabled /\ e \in r.accepts}
  OBVIOUS
<1>2. PICK f : f = Filter(s, S)
  OBVIOUS
<1>3. Matching(s, e) = f
  BY <1>1, <1>2 DEF Matching
<1>4. f \in Seq(Registrations) /\ IsPart(f, s)
  BY <1>2, FilterIsPart
<1>5. Named(s) => Named(f)
  BY <1>4, PartFacts
<1>6. Range(f) \subseteq Registrations
  BY <1>4, RangeFacts
<1> QED
  BY <1>3, <1>4, <1>5, <1>6 DEF NamesOf, Names

-----------------------------------------------------------------------------
(* Records.                                                                *)

(* Contains looks an element up among the values of the sequence.          *)
LEMMA ContainsIsRange ==
    ASSUME NEW X, NEW s \in Seq(X), NEW x
    PROVE  Contains(s, x) <=> x \in Range(s)
<1>1. Range(s) = {s[i] : i \in 1..Len(s)}
  BY RangeEquality
<1> QED
  BY <1>1 DEF Contains

(* What a pass holds, with the elements of its todo.                       *)
LEMMA HeldFacts ==
    ASSUME NEW p \in Passes
    PROVE  Held(p) = {x \in Pairs(p.drained) : x[1] \in Range(p.todo)}
<1>1. p.todo \in Seq(Events)
  BY DEF Passes
<1>2. \A x \in Pairs(p.drained) : Contains(p.todo, x[1]) <=> x[1] \in Range(p.todo)
  BY <1>1, ContainsIsRange
<1> QED
  BY <1>2 DEF Held

(* The event-trigger pairs of the dead-trigger queue, record by record.    *)
LEMMA PairsFacts ==
    /\ Pairs(<<>>) = {}
    /\ \A q \in Seq(DeadRecords) : Pairs(q) \subseteq Events \X Names
    /\ \A q : \A e, t : <<e, t>> \in Pairs(q) <=>
                \E r \in Range(q) : r.id = e /\ r.trigger = t
    /\ \A q \in Seq(DeadRecords), r \in DeadRecords :
          Pairs(Append(q, r)) = Pairs(q) \cup {<<r.id, r.trigger>>}
<1>1. \A q : Pairs(q) = {<<r.id, r.trigger>> : r \in Range(q)}
  BY ToSetIsRange DEF Pairs
<1>2. Pairs(<<>>) = {}
  BY <1>1, RangeFacts
<1>3. ASSUME NEW q \in Seq(DeadRecords) PROVE Pairs(q) \subseteq Events \X Names
  <2>1. Range(q) \subseteq DeadRecords
    BY RangeFacts
  <2>2. \A r \in DeadRecords : r.id \in Events /\ r.trigger \in Names
    BY DEF DeadRecords
  <2> QED
    BY <1>1, <2>1, <2>2
<1>4. ASSUME NEW q, NEW e, NEW t
      PROVE  <<e, t>> \in Pairs(q) <=> \E r \in Range(q) : r.id = e /\ r.trigger = t
  BY <1>1
<1>5. ASSUME NEW q \in Seq(DeadRecords), NEW r \in DeadRecords
      PROVE  Pairs(Append(q, r)) = Pairs(q) \cup {<<r.id, r.trigger>>}
  <2>1. Range(Append(q, r)) = Range(q) \cup {r}
    BY RangeFacts
  <2> QED
    BY <1>1, <2>1
<1> QED
  BY <1>2, <1>3, <1>4, <1>5

(* A queue has finitely many pairs.                                        *)
LEMMA PairsFinite ==
    ASSUME NEW q \in Seq(DeadRecords)
    PROVE  IsFiniteSet(Pairs(q))
<1> DEFINE T == {u \in Seq(DeadRecords) : IsFiniteSet(Pairs(u))}
<1>1. <<>> \in T
  <2>1. <<>> \in Seq(DeadRecords)
    OBVIOUS
  <2> QED
    BY <2>1, PairsFacts, FS_EmptySet
<1>2. ASSUME NEW u \in Seq(DeadRecords), NEW r \in DeadRecords, u \in T
      PROVE  Append(u, r) \in T
  <2>1. Append(u, r) \in Seq(DeadRecords)
    BY AppendProperties
  <2>2. Pairs(Append(u, r)) = Pairs(u) \cup {<<r.id, r.trigger>>}
    BY PairsFacts
  <2>3. IsFiniteSet(Pairs(u))
    BY <1>2
  <2>4. IsFiniteSet(Pairs(u) \cup {<<r.id, r.trigger>>})
    BY <2>3, FS_AddElement
  <2> QED
    BY <2>1, <2>2, <2>4
<1> HIDE DEF T
<1>3. q \in T
  BY <1>1, <1>2, SeqInduction
<1> QED
  BY <1>3 DEF T

(* f is how retry_dead_triggers orders the events of what it drained.      *)
Sees(q, f) ==
    f = [n \in 0..Len(q) |->
            IF n = 0 THEN <<>>
            ELSE IF Contains(f[n - 1], q[n].id) THEN f[n - 1]
            ELSE Append(f[n - 1], q[n].id)]

(* A retry handles each event of what it drained, and each once.           *)
LEMMA FirstSeenFacts ==
    ASSUME NEW q \in Seq(DeadRecords)
    PROVE  /\ FirstSeen(q) \in Seq(Events) /\ IsInjective(FirstSeen(q))
           /\ \A e : e \in Range(FirstSeen(q)) <=> \E r \in Range(q) : r.id = e
<1>1. PICK N : N = Len(q)
  OBVIOUS
<1>2. N \in Nat /\ \A i \in 1..N : q[i] \in DeadRecords
  BY <1>1, LenProperties, ElementOfSeq
<1>3. \A i \in 1..N : q[i].id \in Events
  BY <1>2 DEF DeadRecords
<1>4. PICK V : V = Seq(Events)
  OBVIOUS
<1>5. PICK G : G = [x \in (1..N) \X V |->
                      IF Contains(x[2], q[x[1]].id) THEN x[2]
                      ELSE Append(x[2], q[x[1]].id)]
  OBVIOUS
<1>6. \A n \in 1..N, v \in V : Append(v, q[n].id) \in V
  BY <1>3, <1>4, AppendProperties
<1>7. IsStep(G, N, V)
  BY <1>5, <1>6 DEF IsStep
<1>8. <<>> \in V
  BY <1>4
<1>9. PICK g : Recurs(g, <<>>, G, N, V)
  BY <1>2, <1>7, <1>8, Recursion
<1>10. Sees(q, g)
  <2>1. PICK u : u = [n \in 0..N |->
            IF n = 0 THEN <<>>
            ELSE IF Contains(g[n - 1], q[n].id) THEN g[n - 1]
            ELSE Append(g[n - 1], q[n].id)]
    OBVIOUS
  <2>2. ASSUME NEW n \in 0..N PROVE g[n] = u[n]
    <3>1. CASE n = 0
      BY <1>9, <2>1, <3>1 DEF Recurs
    <3>2. CASE n # 0
      <4>1. n \in 1..N /\ n - 1 \in 0..N
        BY <1>2, <3>2
      <4>2. g[n - 1] \in V /\ g[n] = G[<<n, g[n - 1]>>]
        BY <1>9, <4>1 DEF Recurs
      <4>3. <<n, g[n - 1]>> \in (1..N) \X V
        BY <4>1, <4>2
      <4> QED
        BY <1>5, <2>1, <3>2, <4>2, <4>3
    <3> QED
      BY <3>1, <3>2
  <2>3. g = u
    BY <1>9, <2>1, <2>2 DEF Recurs
  <2> QED
    BY <1>1, <2>1, <2>3 DEF Sees
<1>11. PICK f : f = CHOOSE h : Sees(q, h)
  OBVIOUS
<1>12. Sees(q, f)
  BY <1>10, <1>11
<1>13. FirstSeen(q) = f[N]
  BY <1>1, <1>11 DEF FirstSeen, Sees
<1> DEFINE T == {n \in Nat : n <= N =>
                    /\ f[n] \in V /\ IsInjective(f[n])
                    /\ \A e : e \in Range(f[n]) <=> \E i \in 1..n : q[i].id = e}
<1>14. 0 \in T
  <2>1. f[0] = <<>>
    BY <1>1, <1>2, <1>12 DEF Sees
  <2>2. Range(<<>>) = {} /\ IsInjective(<<>>)
    BY RangeFacts DEF IsInjective
  <2>3. 1..0 = {}
    OBVIOUS
  <2> QED
    BY <1>8, <2>1, <2>2, <2>3
<1>15. ASSUME NEW n \in Nat, n \in T PROVE n + 1 \in T
  <2>1. SUFFICES ASSUME n + 1 <= N
                 PROVE  /\ f[n + 1] \in V /\ IsInjective(f[n + 1])
                        /\ \A e : e \in Range(f[n + 1])
                                    <=> \E i \in 1..(n + 1) : q[i].id = e
    OBVIOUS
  <2>2. /\ n + 1 \in 1..N /\ n + 1 \in 0..N /\ (n + 1) - 1 = n /\ n + 1 # 0
        /\ n <= N
    BY <1>2, <2>1
  <2>3. PICK v, a : v = f[n] /\ a = q[n + 1].id
    OBVIOUS
  <2>4. f[n + 1] = IF Contains(v, a) THEN v ELSE Append(v, a)
    BY <1>1, <1>12, <2>2, <2>3 DEF Sees
  <2>5. /\ v \in Seq(Events) /\ IsInjective(v)
        /\ \A e : e \in Range(v) <=> \E i \in 1..n : q[i].id = e
    BY <1>4, <1>15, <2>2, <2>3
  <2>6. a \in Events
    BY <1>3, <2>2, <2>3
  <2>7. \A i : i \in 1..(n + 1) <=> i \in 1..n \/ i = n + 1
    OBVIOUS
  <2>8. \A e : (\E i \in 1..(n + 1) : q[i].id = e) <=> e \in Range(v) \/ e = a
    BY <2>3, <2>5, <2>7
  <2>9. CASE a \in Range(v)
    <3>1. f[n + 1] = v
      BY <2>4, <2>5, <2>9, ContainsIsRange
    <3> QED
      BY <1>4, <2>5, <2>8, <2>9, <3>1
  <2>10. CASE a \notin Range(v)
    <3>1. f[n + 1] = Append(v, a)
      BY <2>4, <2>5, <2>10, ContainsIsRange
    <3>2. /\ Append(v, a) \in Seq(Events)
          /\ Range(Append(v, a)) = Range(v) \cup {a}
      BY <2>5, <2>6, RangeFacts, AppendProperties
    <3>3. IsInjective(Append(v, a))
      BY <2>5, <2>6, <2>10, AppendInjective1
    <3> QED
      BY <1>4, <2>8, <3>1, <3>2, <3>3
  <2> QED
    BY <2>9, <2>10
<1> HIDE DEF T
<1>16. N \in T
  BY <1>2, <1>14, <1>15, Induction
<1>17. Range(q) = {q[i] : i \in 1..N}
  BY <1>1, RangeEquality
<1>18. \A e : (\E i \in 1..N : q[i].id = e) <=> \E r \in Range(q) : r.id = e
  BY <1>17
<1>19. /\ f[N] \in V /\ IsInjective(f[N])
       /\ \A e : e \in Range(f[N]) <=> \E i \in 1..N : q[i].id = e
  BY <1>2, <1>16 DEF T
<1> QED
  BY <1>4, <1>13, <1>18, <1>19

-----------------------------------------------------------------------------
(* Passes.                                                                 *)

(* The pass of a task at rest is well formed and holds nothing.            *)
LEMMA IdleFacts ==
    /\ Idle \in Passes /\ \A w : PassOK(w, Idle)
    /\ Idle.kind = "idle" /\ Idle.todo = <<>> /\ Idle.rest = <<>>
    /\ Idle.drained = <<>> /\ Idle.nowFailed = {}
    /\ Held(Idle) = {}
<1>1. /\ Idle.kind = "idle" /\ Idle.todo = <<>> /\ Idle.rest = <<>>
      /\ Idle.drained = <<>> /\ Idle.nowFailed = {}
  BY DEF Idle
<1>2. NoReport \in Reports
  BY DEF NoReport, Reports
<1>3. /\ <<>> \in Seq(Events) /\ <<>> \in Seq(Registrations)
      /\ <<>> \in Seq(DeadRecords)
  OBVIOUS
<1>4. Idle \in Passes
  BY <1>2, <1>3 DEF Idle, Passes
<1>5. Held(Idle) = {}
  BY <1>1, PairsFacts DEF Held
<1> QED
  BY <1>1, <1>4, <1>5 DEF PassOK

(* A pass as NewPass makes it.                                             *)
Fresh(kind, registrations, todo, drained) ==
    [kind |-> kind, todo |-> todo,
     rest |-> TriggersOfFirst(registrations, todo), nowFailed |-> {},
     drained |-> drained,
     report |-> [drained |-> Len(drained), events |-> 0, recovered |-> 0,
                 stillFailed |-> 0]]

(* The triggers handle has ahead of it for the first event of a pass:      *)
(* registrations, with distinct names if the registry has, and none        *)
(* without an event.                                                       *)
LEMMA TriggersFacts ==
    ASSUME NEW s \in Seq(Registrations), NEW todo
    PROVE  /\ TriggersOfFirst(s, todo) \in Seq(Registrations)
           /\ Named(s) => Named(TriggersOfFirst(s, todo))
           /\ todo = <<>> => TriggersOfFirst(s, todo) = <<>>
           /\ todo # <<>> => TriggersOfFirst(s, todo) = Matching(s, Head(todo))
<1>1. <<>> \in Seq(Registrations) /\ Named(<<>>)
  BY DEF Named
<1>2. CASE todo = <<>>
  BY <1>1, <1>2 DEF TriggersOfFirst
<1>3. CASE todo # <<>>
  BY <1>3, MatchingFacts DEF TriggersOfFirst
<1> QED
  BY <1>2, <1>3

(* A pass that begins has the fields Begin gives it.                       *)
LEMMA BeginFacts ==
    ASSUME NEW kind \in {"recover", "handle", "range", "retry"},
           NEW s \in Seq(Registrations), NEW todo \in Seq(Events),
           NEW drained \in Seq(DeadRecords)
    PROVE  /\ NewPass(kind, s, todo, drained) = Fresh(kind, s, todo, drained)
           /\ Fresh(kind, s, todo, drained) \in Passes
<1>1. PICK r : r = [NoReport EXCEPT !.drained = Len(drained)]
  OBVIOUS
<1>2. r = [drained |-> Len(drained), events |-> 0, recovered |-> 0,
           stillFailed |-> 0]
  BY <1>1 DEF NoReport
<1>3. PICK p : p = [Idle EXCEPT !.kind = kind, !.todo = todo,
                                !.rest = TriggersOfFirst(s, todo),
                                !.drained = drained, !.report = r]
  OBVIOUS
<1>4. p = Fresh(kind, s, todo, drained)
  BY <1>2, <1>3 DEF Idle, Fresh
<1>6. r \in Reports
  <2>1. Len(drained) \in Nat
    BY LenProperties
  <2> QED
    BY <1>2, <2>1 DEF Reports
<1>7. TriggersOfFirst(s, todo) \in Seq(Registrations)
  BY TriggersFacts
<1>8. Fresh(kind, s, todo, drained) \in Passes
  BY <1>2, <1>6, <1>7 DEF Fresh, Passes
<1> QED
  BY <1>1, <1>3, <1>4, <1>8 DEF NewPass

(* A step of one task replaces its pass and leaves the other's.            *)
LEMMA TaskUpdate ==
    ASSUME NEW f \in [Tasks -> Passes], NEW w \in Tasks, NEW p \in Passes,
           NEW g, g = [f EXCEPT ![w] = p]
    PROVE  /\ g \in [Tasks -> Passes] /\ g[w] = p
           /\ \A v \in Tasks : v # w => g[v] = f[v]
OBVIOUS

(* A task that begins a pass.                                              *)
LEMMA BeginKeeps ==
    ASSUME Base, NEW w \in Tasks, NEW p, PassOK(w, p), p.kind # "idle",
           task' = [task EXCEPT ![w] = p],
           \/ MayBegin(w) /\ process' = process /\ p.kind # "recover"
           \/ process = "none" /\ process' = "serve",
           p.kind = "retry" => process = "cli" /\ process' = "cli",
           w = Ingester => Range(p.todo) \subseteq appended',
           appended \subseteq appended'
    PROVE  TasksOK'
<1>1. /\ task \in [Tasks -> Passes]
      /\ \A v \in Tasks : PassOK(v, task[v])
      /\ task[Operator].kind = "retry" => process = "cli"
      /\ process = "none" => \A v \in Tasks : task[v] = Idle
      /\ Range(task[Ingester].todo) \subseteq appended
  BY DEF Base, TasksOK
<1>2. p \in Passes
  BY DEF PassOK
<1>3. /\ task' \in [Tasks -> Passes] /\ task'[w] = p
      /\ \A v \in Tasks : v # w => task'[v] = task[v]
  BY <1>1, <1>2, TaskUpdate
<1>4. Ingester \in Tasks /\ Operator \in Tasks /\ Ingester # Operator
  BY DeadTriggersAssumption DEF Tasks
<1>5. \A v \in Tasks : PassOK(v, task'[v])
  BY <1>1, <1>3
<1>6. task'[Operator].kind = "retry" => process' = "cli"
  <2>1. CASE w = Operator
    BY <1>3, <2>1
  <2>2. CASE w # Operator
    <3>1. task'[Operator] = task[Operator]
      BY <1>3, <1>4, <2>2
    <3> QED
      BY <1>1, <1>4, <3>1, IdleFacts
  <2> QED
    BY <2>1, <2>2
<1>7. process' # "none"
  BY DEF MayBegin, Serving
<1>8. process' = "cli" \/ task'[Ingester].kind = "recover"
          => task'[Ingester] = Idle \/ task'[Operator] = Idle
  <2>1. CASE process = "none"
    BY <1>1, <1>3, <1>4, <2>1
  <2>2. CASE process # "none" /\ Serving
    BY <1>3, <1>4, <2>2 DEF Serving
  <2>3. CASE process # "none" /\ ~Serving
    <3>1. \A v \in Tasks : task[v] = Idle
      BY <2>3 DEF MayBegin
    <3> QED
      BY <1>3, <1>4, <3>1
  <2> QED
    BY <2>1, <2>2, <2>3
<1>9. Range(task'[Ingester].todo) \subseteq appended'
  BY <1>1, <1>3, <1>4
<1> QED
  BY <1>3, <1>5, <1>6, <1>7, <1>8, <1>9 DEF TasksOK

(* A pass that goes on.                                                    *)
LEMMA WorkKeeps ==
    ASSUME Base, NEW w \in Tasks, NEW p \in Passes, task[w].kind # "idle",
           task' = [task EXCEPT ![w] = p],
           p.kind = task[w].kind, p.drained = task[w].drained,
           p.rest # <<>> => p.todo # <<>>,
           Range(p.todo) \subseteq Range(task[w].todo),
           process' = process, appended' = appended
    PROVE  TasksOK'
<1>1. /\ task \in [Tasks -> Passes]
      /\ \A v \in Tasks : PassOK(v, task[v])
      /\ task[Operator].kind = "retry" => process = "cli"
      /\ process = "none" => \A v \in Tasks : task[v] = Idle
      /\ process = "cli" \/ task[Ingester].kind = "recover"
            => task[Ingester] = Idle \/ task[Operator] = Idle
      /\ Range(task[Ingester].todo) \subseteq appended
  BY DEF Base, TasksOK
<1>2. /\ task' \in [Tasks -> Passes] /\ task'[w] = p
      /\ \A v \in Tasks : v # w => task'[v] = task[v]
  BY <1>1, TaskUpdate
<1>3. Ingester \in Tasks /\ Operator \in Tasks /\ Ingester # Operator
  BY DeadTriggersAssumption DEF Tasks
<1>4. PassOK(w, p)
  BY <1>1 DEF PassOK
<1>5. \A v \in Tasks : PassOK(v, task'[v]) /\ task'[v].kind = task[v].kind
  BY <1>1, <1>2, <1>4
<1>6. task[w] # Idle
  BY IdleFacts
<1>7. \A v \in Tasks : task[v] = Idle => task'[v] = Idle
  BY <1>2, <1>6
<1>8. Range(task'[Ingester].todo) \subseteq appended'
  BY <1>1, <1>2, <1>3
<1> QED
  BY <1>1, <1>2, <1>3, <1>5, <1>6, <1>7, <1>8 DEF TasksOK

(* A pass that ends, and perhaps its process.                              *)
LEMMA ReleaseKeeps ==
    ASSUME Base, NEW w \in Tasks, task' = [task EXCEPT ![w] = Idle],
           \/ process' = process
           \/ process' = "none" /\ \A v \in Tasks : v # w => task[v] = Idle,
           appended' = appended
    PROVE  TasksOK'
<1>1. /\ task \in [Tasks -> Passes]
      /\ \A v \in Tasks : PassOK(v, task[v])
      /\ task[Operator].kind = "retry" => process = "cli"
      /\ process = "none" => \A v \in Tasks : task[v] = Idle
      /\ Range(task[Ingester].todo) \subseteq appended
  BY DEF Base, TasksOK
<1>2. /\ task' \in [Tasks -> Passes] /\ task'[w] = Idle
      /\ \A v \in Tasks : v # w => task'[v] = task[v]
  BY <1>1, TaskUpdate, IdleFacts
<1>3. Ingester \in Tasks /\ Operator \in Tasks /\ Ingester # Operator
  BY DeadTriggersAssumption DEF Tasks
<1>4. \A v \in Tasks : PassOK(v, task'[v])
  BY <1>1, <1>2, IdleFacts
<1>5. process' = "none" => \A v \in Tasks : task'[v] = Idle
  BY <1>1, <1>2
<1>6. task'[Operator].kind = "retry" => process' = "cli"
  <2>1. CASE process' = "none"
    BY <1>3, <1>5, <2>1, IdleFacts
  <2>2. CASE process' = process
    BY <1>1, <1>2, <1>3, <2>2, IdleFacts
  <2> QED
    BY <2>1, <2>2
<1>7. task'[Ingester] = Idle \/ task'[Operator] = Idle
  BY <1>2, <1>3 DEF Tasks
<1>8. Range(task'[Ingester].todo) \subseteq appended'
  BY <1>1, <1>2, <1>3, IdleFacts, RangeFacts
<1> QED
  BY <1>2, <1>4, <1>5, <1>6, <1>7, <1>8 DEF TasksOK

-----------------------------------------------------------------------------
(* What is owed.                                                           *)

(* A step that is not the operator's: a pair is owed after it only if it   *)
(* was owed before and kept its record, or is in the queue.                *)
Carried ==
    \A x \in owed' \ damaged' :
        \/ x \in Pairs(queue')
        \/ x \in owed \ damaged /\ x \notin Pairs(queue)

(* A step that carries the records over and does not touch a running retry *)
(* pass keeps the safety part of the invariant.                            *)
LEMMA QuietKeeps ==
    ASSUME Safe, Carried, task'[Operator] = task[Operator],
           registry' = registry \/ task[Operator].todo = <<>>,
           task[Operator].kind = "retry" => queue' = queue
    PROVE  Safe'
<1>1. PICK p : p = task[Operator] /\ p = task'[Operator]
  OBVIOUS
<1>2. NoneForgotten'
  <2>1. Held(task[Operator])' = Held(p)
    BY <1>1 DEF Held, Pairs
  <2>2. owed \ damaged \subseteq Pairs(queue) \cup Held(p)
    BY <1>1 DEF Safe, NoneForgotten
  <2>3. \A x \in owed' \ damaged' : x \in Pairs(queue') \cup Held(p)
    BY <2>2 DEF Carried
  <2> QED
    BY <2>1, <2>3 DEF NoneForgotten
<1>3. HandledOK'
  <2>1. SUFFICES ASSUME p.todo # <<>>,
                        NEW t \in NamesOf(Matching(registry', Head(p.todo))),
                        <<Head(p.todo), t>> \in Held(p),
                        <<Head(p.todo), t>> \in owed' \ damaged'
                 PROVE  <<Head(p.todo), t>> \in Pairs(queue')
                            \/ t \in NamesOf(p.rest)
    BY <1>1 DEF HandledOK
  <2>2. registry' = registry
    BY <1>1, <2>1
  <2>3. PICK x : x = <<Head(p.todo), t>>
    OBVIOUS
  <2>4. x \in owed \ damaged => x \in Pairs(queue) \/ t \in NamesOf(p.rest)
    BY <1>1, <2>1, <2>2, <2>3 DEF Safe, HandledOK
  <2> QED
    BY <2>1, <2>3, <2>4 DEF Carried
<1>4. RetryOK'
  <2>1. SUFFICES ASSUME p.kind = "retry" PROVE RetryOK'
    BY <1>1 DEF RetryOK
  <2>2. queue' = queue
    BY <1>1, <2>1
  <2> QED
    BY <1>1, <2>2 DEF Safe, RetryOK, Pairs
<1> QED
  BY <1>2, <1>3, <1>4 DEF Safe

(* The operator holds nothing after the step.                              *)
LEMMA ClearedKeeps ==
    ASSUME NEW p, task'[Operator] = p, p.kind # "retry", Held(p) = {},
           owed' \ damaged' \subseteq Pairs(queue')
    PROVE  Safe'
<1>1. Held(task[Operator])' = {}
  BY DEF Held, Pairs
<1>2. NoneForgotten'
  BY <1>1 DEF NoneForgotten
<1>3. HandledOK'
  BY <1>1 DEF HandledOK
<1>4. RetryOK'
  BY DEF RetryOK
<1> QED
  BY <1>2, <1>3, <1>4 DEF Safe

(* A pass that is not a retry holds nothing.                               *)
LEMMA OnlyRetryHolds ==
    ASSUME NEW w, NEW p, PassOK(w, p), p.kind # "retry" \/ p.todo = <<>>
    PROVE  Held(p) = {}
<1>1. p \in Passes
  BY DEF PassOK
<1>2. CASE p.kind # "retry"
  <2>1. Pairs(p.drained) = {}
    BY <1>2, PairsFacts DEF PassOK
  <2> QED
    BY <2>1 DEF Held
<1>3. CASE p.todo = <<>>
  BY <1>1, <1>3, HeldFacts, RangeFacts
<1> QED
  BY <1>2, <1>3

(* Facts of every step.                                                    *)
LEMMA BaseFacts ==
    ASSUME Base
    PROVE  /\ Ingester \in Tasks /\ Operator \in Tasks /\ Ingester # Operator
           /\ \A w \in Tasks : w = Ingester \/ w = Operator
           /\ task \in [Tasks -> Passes]
           /\ \A w \in Tasks : PassOK(w, task[w]) /\ task[w] \in Passes
           /\ registry \in Seq(Registrations)
           /\ DistinctNames => Named(registry)
           /\ log \in Seq(LogRecords) /\ queue \in Seq(DeadRecords)
           /\ (process = "none" => \A w \in Tasks : task[w] = Idle)
           /\ process = "none" \/ process = "serve" \/ process = "cli"
           /\ task[Operator].kind = "retry" =>
                 process = "cli" /\ task[Ingester] = Idle
           /\ \A v, w \in Tasks :
                 (v # w /\ task[w].kind # "idle" /\ ~Serving) => task[v] = Idle
<1>1. Ingester \in Tasks /\ Operator \in Tasks /\ Ingester # Operator
  BY DeadTriggersAssumption DEF Tasks
<1>2. \A w \in Tasks : PassOK(w, task[w]) /\ task[w] \in Passes
  BY DEF Base, TasksOK, PassOK
<1>3. task[Operator].kind = "retry" => process = "cli" /\ task[Ingester] = Idle
  BY IdleFacts DEF Base, TasksOK
<1>4. ASSUME NEW v \in Tasks, NEW w \in Tasks, v # w, task[w].kind # "idle",
             ~Serving
      PROVE  task[v] = Idle
  <2>1. task[w] # Idle
    BY <1>4, IdleFacts
  <2>2. process # "none"
    BY <2>1 DEF Base, TasksOK
  <2>3. task[Ingester] = Idle \/ task[Operator] = Idle
    BY <1>4, <2>2 DEF Serving, Base, TasksOK, ProcessOK
  <2> QED
    BY <1>4, <2>1, <2>3 DEF Tasks
<1> QED
  BY <1>1, <1>2, <1>3, <1>4 DEF Base, TasksOK, ProcessOK, RecordsOK, Tasks

(* A task with an event in hand is not idle.                               *)
LEMMA BusyFacts ==
    ASSUME Base, NEW w \in Tasks, task[w].todo # <<>> \/ task[w].rest # <<>>
    PROVE  /\ task[w].kind # "idle" /\ task[w] # Idle /\ process # "none"
           /\ task[w].todo # <<>>
<1>1. PassOK(w, task[w])
  BY BaseFacts
<1>2. task[w] # Idle
  BY IdleFacts
<1> QED
  BY <1>1, <1>2, BaseFacts DEF PassOK

-----------------------------------------------------------------------------
(* Processes, and the beginning of passes.                                 *)

(* The invariant holds before the first process starts.                    *)
LEMMA InitSafe == Init => Base /\ Safe
<1>1. SUFFICES ASSUME Init PROVE Base /\ Safe
  OBVIOUS
<1>2. /\ <<>> \in Seq(LogRecords) /\ <<>> \in Seq(DeadRecords)
      /\ <<>> \in Seq(Registrations) /\ Named(<<>>) /\ Range(<<>>) = {}
  BY RangeFacts DEF Named
<1>3. RecordsOK
  BY <1>1, <1>2 DEF Init, RecordsOK
<1>4. ProcessOK
  <2>1. 0 \in 0..MaxStarts /\ 0 \in 0..MaxFailures
    BY DeadTriggersAssumption
  <2> QED
    BY <1>1, <1>2, <2>1 DEF Init, ProcessOK
<1>5. /\ Ingester \in Tasks /\ Operator \in Tasks
      /\ task \in [Tasks -> Passes] /\ \A w \in Tasks : task[w] = Idle
  BY <1>1, IdleFacts DEF Init, Tasks
<1>6. TasksOK
  BY <1>1, <1>2, <1>5, IdleFacts DEF Init, TasksOK
<1>7. Safe
  BY <1>1, <1>5, IdleFacts DEF Init, Safe, NoneForgotten, HandledOK, RetryOK
<1> QED
  BY <1>3, <1>4, <1>6, <1>7 DEF Base

(* A step that leaves the files alone.                                     *)
LEMMA RecordsKept ==
    ASSUME RecordsOK, UNCHANGED <<log, queue, delivered, appended, owed>>,
           damaged' \subseteq damaged \cup (Events \X Names)
    PROVE  RecordsOK'
BY DEF RecordsOK

(* A process that goes on or exits.                                        *)
LEMMA ContinueKeeps ==
    ASSUME ProcessOK, NEW p \in {"none", "serve", "cli"}, Continue(p),
           UNCHANGED starts, failures' \in 0..MaxFailures
    PROVE  ProcessOK'
<1>1. <<>> \in Seq(Registrations) /\ Named(<<>>)
  BY DEF Named
<1> QED
  BY <1>1 DEF ProcessOK, Continue

(* Starting serve, with its recovery, or a command keeps the invariant.    *)
LEMMA StartStep ==
    ASSUME Base, Safe, NEW kind \in {"serve", "cli"}, NEW config \in Configs,
           Start(kind, config)
    PROVE  Base' /\ Safe'
<1> USE BaseFacts
<1>1. \A w \in Tasks : task[w] = Idle
  BY DEF Start
<1>2. registry' \in Seq(Registrations) /\ (DistinctNames => Named(registry'))
  BY LoadRegistryFacts DEF Start
<1>3. RecordsOK'
  BY RecordsKept DEF Start, Base
<1>4. ProcessOK'
  <2>1. starts' \in 0..MaxStarts
    BY DeadTriggersAssumption DEF Start, Base, ProcessOK
  <2> QED
    BY <1>2, <2>1 DEF Start, Base, ProcessOK
<1>5. TasksOK' /\ task'[Operator] = task[Operator]
  <2>1. CASE kind = "cli"
    <3>1. task' = task
      BY <2>1 DEF Start
    <3> QED
      BY <1>1, <2>1, <3>1, IdleFacts DEF Start, Base, TasksOK
  <2>2. CASE kind = "serve"
    <3>1. PICK s : s = Filter(log, {r \in ToSet(log) : r.id \notin delivered})
      OBVIOUS
    <3>2. s \in Seq(LogRecords) /\ Range(s) \subseteq Range(log)
      BY <3>1, FilterRange
    <3>3. PICK todo : todo = Ids(s)
      OBVIOUS
    <3>4. todo \in Seq(Events) /\ Range(todo) \subseteq appended
      BY <3>2, <3>3, IdsFacts DEF Base, RecordsOK
    <3>5. <<>> \in Seq(DeadRecords)
      OBVIOUS
    <3>6. Begin(Ingester, "recover", registry', todo, <<>>)
      BY <2>2, <3>1, <3>3 DEF Start
    <3>7. PICK p : p = Fresh("recover", registry', todo, <<>>)
      OBVIOUS
    <3>8. task' = [task EXCEPT ![Ingester] = p] /\ p \in Passes
      BY <1>2, <3>4, <3>5, <3>6, <3>7, BeginFacts DEF Begin
    <3>9. /\ p.kind = "recover" /\ p.todo = todo /\ p.drained = <<>>
          /\ p.rest = TriggersOfFirst(registry', todo)
      BY <3>7 DEF Fresh
    <3>10. PassOK(Ingester, p)
      <4>1. p.rest # <<>> => p.todo # <<>>
        BY <1>2, <3>9, TriggersFacts
      <4> QED
        BY <3>8, <3>9, <4>1 DEF PassOK
    <3>11. /\ process = "none" /\ process' = "serve" /\ appended' = appended
      BY <2>2 DEF Start
    <3>12. TasksOK'
      BY <3>4, <3>8, <3>9, <3>10, <3>11, BeginKeeps
    <3> QED
      BY <3>8, <3>12, TaskUpdate
  <2> QED
    BY <2>1, <2>2
<1>6. Carried
  BY DEF Start, Safe, NoneForgotten, Carried
<1>7. Safe'
  BY <1>1, <1>5, <1>6, IdleFacts, QuietKeeps DEF Start
<1> QED
  BY <1>3, <1>4, <1>5, <1>7 DEF Base

(* A crash ends every pass; what a retry pass held and the queue lacks is  *)
(* lost and noted as damage.                                               *)
LEMMA CrashStep ==
    ASSUME Base, Safe, Crash
    PROVE  Base' /\ Safe'
<1> USE BaseFacts
<1>1. Held(task[Operator]) \subseteq Events \X Names
  <2>1. task[Operator].drained \in Seq(DeadRecords)
    BY DEF Passes
  <2> QED
    BY <2>1, PairsFacts DEF Held
<1>2. RecordsOK'
  BY <1>1, RecordsKept DEF Crash, Base
<1>3. ProcessOK'
  BY ContinueKeeps DEF Crash, Base, ProcessOK
<1>4. /\ task' \in [Tasks -> Passes] /\ \A w \in Tasks : task'[w] = Idle
  BY IdleFacts DEF Crash
<1>5. TasksOK'
  BY <1>4, IdleFacts, RangeFacts DEF TasksOK
<1>6. owed' \ damaged' \subseteq Pairs(queue')
  BY DEF Crash, Safe, NoneForgotten
<1>7. Safe'
  BY <1>4, <1>6, IdleFacts, ClearedKeeps
<1> QED
  BY <1>2, <1>3, <1>5, <1>7 DEF Base

(* Accepting an event appends it and begins to handle it.                  *)
LEMMA HandleStep ==
    ASSUME Base, Safe, NEW e \in Events, Handle(e)
    PROVE  Base' /\ Safe'
<1> USE BaseFacts
<1>1. Stored(e) \in LogRecords
  BY DeadTriggersAssumption DEF Stored, LogRecords
<1>2. /\ log' \in Seq(LogRecords) /\ Range(log') = Range(log) \cup {Stored(e)}
  BY <1>1, RangeFacts, AppendProperties DEF Handle
<1>3. Stored(e).id = e
  BY DEF Stored
<1>4. RecordsOK'
  <2>1. \A r \in Range(log') : r.id \in appended'
    BY <1>2, <1>3 DEF Handle, Base, RecordsOK
  <2>2. /\ queue' = queue /\ delivered' = delivered /\ owed' = owed
        /\ damaged' = damaged /\ appended' = appended \cup {e}
    BY DEF Handle
  <2> QED
    BY <1>2, <2>1, <2>2 DEF Base, RecordsOK
<1>5. ProcessOK'
  BY DEF Handle, Base, ProcessOK
<1>6. TasksOK' /\ task'[Operator] = task[Operator]
  <2>1. PICK todo : todo = <<e>>
    OBVIOUS
  <2>2. todo \in Seq(Events) /\ Range(todo) = {e} /\ <<>> \in Seq(DeadRecords)
    BY <2>1, RangeFacts
  <2>3. PICK p : p = Fresh("handle", registry, todo, <<>>)
    OBVIOUS
  <2>4. task' = [task EXCEPT ![Ingester] = p] /\ p \in Passes
    BY <2>1, <2>2, <2>3, BeginFacts DEF Handle, Begin
  <2>5. /\ p.kind = "handle" /\ p.todo = todo /\ p.drained = <<>>
        /\ p.rest = TriggersOfFirst(registry, todo)
    BY <2>3 DEF Fresh
  <2>6. PassOK(Ingester, p)
    <3>1. p.rest # <<>> => p.todo # <<>>
      BY <2>5, TriggersFacts
    <3> QED
      BY <2>4, <2>5, <3>1 DEF PassOK
  <2>7. /\ MayBegin(Ingester) /\ process' = process
        /\ appended' = appended \cup {e}
    BY DEF Handle
  <2>8. TasksOK'
    BY <2>2, <2>4, <2>5, <2>6, <2>7, BeginKeeps
  <2> QED
    BY <2>4, <2>8, TaskUpdate
<1>7. Carried
  BY DEF Handle, Carried
<1>8. Safe'
  BY <1>6, <1>7, QuietKeeps DEF Handle
<1> QED
  BY <1>4, <1>5, <1>6, <1>8 DEF Base

(* A range replay begins with the retained events it selects.              *)
LEMMA ReplayRangeStep ==
    ASSUME Base, Safe, NEW f, ReplayRange(f)
    PROVE  Base' /\ Safe'
<1> USE BaseFacts
<1>1. RecordsOK'
  BY RecordsKept DEF ReplayRange, Base
<1>2. ProcessOK'
  BY DEF ReplayRange, Base, ProcessOK
<1>3. PICK s : s = Filter(log, {r \in ToSet(log) : InRange(f, r.id)})
  OBVIOUS
<1>4. s \in Seq(LogRecords)
  BY <1>3, FilterType
<1>5. PICK todo : todo = Ids(s)
  OBVIOUS
<1>6. todo \in Seq(Events) /\ <<>> \in Seq(DeadRecords)
  BY <1>4, <1>5, IdsFacts
<1>7. Begin(Operator, "range", registry, todo, <<>>)
  BY <1>3, <1>5 DEF ReplayRange, PreviewRange
<1>8. PICK p : p = Fresh("range", registry, todo, <<>>)
  OBVIOUS
<1>9. task' = [task EXCEPT ![Operator] = p] /\ p \in Passes
  BY <1>6, <1>7, <1>8, BeginFacts DEF Begin
<1>10. /\ p.kind = "range" /\ p.todo = todo /\ p.drained = <<>>
       /\ p.rest = TriggersOfFirst(registry, todo)
  BY <1>8 DEF Fresh
<1>11. PassOK(Operator, p)
  <2>1. p.rest # <<>> => p.todo # <<>>
    BY <1>10, TriggersFacts
  <2> QED
    BY <1>9, <1>10, <2>1 DEF PassOK
<1>12. MayBegin(Operator) /\ process' = process /\ appended' = appended
  BY DEF ReplayRange
<1>13. TasksOK'
  BY <1>9, <1>10, <1>11, <1>12, BeginKeeps
<1>14. task'[Operator] = p /\ Held(p) = {}
  BY <1>9, <1>10, <1>11, TaskUpdate, OnlyRetryHolds
<1>15. owed' \ damaged' \subseteq Pairs(queue')
  <2>1. Held(task[Operator]) = {}
    BY <1>12, IdleFacts DEF MayBegin
  <2> QED
    BY <2>1 DEF ReplayRange, Safe, NoneForgotten
<1>16. Safe'
  BY <1>10, <1>14, <1>15, ClearedKeeps
<1> QED
  BY <1>1, <1>2, <1>13, <1>16 DEF Base

(* A drain that fails ends the command before it has handled anything; the *)
(* queue is intact, or empty and its pairs noted as damage.                *)
LEMMA DrainFailsStep ==
    ASSUME Base, Safe, DrainFails
    PROVE  Base' /\ Safe'
<1> USE BaseFacts
<1>1. RecordsOK'
  <2>1. CASE UNCHANGED <<queue, damaged>>
    BY <2>1, RecordsKept DEF DrainFails, Base
  <2>2. CASE queue' = <<>> /\ damaged' = damaged \cup Pairs(queue)
    <3>1. <<>> \in Seq(DeadRecords) /\ Range(<<>>) = {}
      BY RangeFacts
    <3>2. Pairs(queue) \subseteq Events \X Names
      BY PairsFacts
    <3> QED
      BY <2>2, <3>1, <3>2 DEF DrainFails, Base, RecordsOK
  <2> QED
    BY <2>1, <2>2 DEF DrainFails
<1>2. \A w \in Tasks : task[w] = Idle
  BY DEF DrainFails, MayBegin, Serving
<1>3. ProcessOK'
  <2>1. failures' \in 0..MaxFailures
    BY DeadTriggersAssumption DEF DrainFails, Base, ProcessOK
  <2> QED
    BY <2>1, ContinueKeeps DEF DrainFails, Base
<1>4. TasksOK'
  BY <1>2, IdleFacts DEF DrainFails, Continue, Base, TasksOK
<1>5. owed' \ damaged' \subseteq Pairs(queue')
  <2>1. owed \ damaged \subseteq Pairs(queue)
    BY <1>2, IdleFacts DEF Safe, NoneForgotten
  <2> QED
    BY <2>1 DEF DrainFails
<1>6. Safe'
  BY <1>2, <1>5, IdleFacts, ClearedKeeps DEF DrainFails
<1> QED
  BY <1>1, <1>3, <1>4, <1>6 DEF Base

-----------------------------------------------------------------------------
(* Removal of records, and the end of passes.                              *)

(* Fewer records in both files; what lost its record is no longer owed.    *)
LEMMA RemovalKeeps ==
    ASSUME Base, Safe, task[Operator].kind # "retry",
           log' \in Seq(LogRecords), Range(log') \subseteq Range(log),
           queue' \in Seq(DeadRecords), Range(queue') \subseteq Range(queue),
           \/ queue' = queue /\ owed' = owed
           \/ owed' = owed \ (Pairs(queue) \ Pairs(queue')),
           UNCHANGED <<process, registry, task, starts, failures, delivered,
                       appended, damaged>>
    PROVE  Base' /\ Safe'
<1>1. RecordsOK'
  BY DEF Base, RecordsOK
<1>2. ProcessOK'
  BY DEF Base, ProcessOK
<1>3. TasksOK'
  BY DEF Base, TasksOK
<1>4. Carried
  BY DEF Carried
<1>5. Safe'
  BY <1>4, QuietKeeps
<1> QED
  BY <1>1, <1>2, <1>3, <1>5 DEF Base

(* Log and dead-trigger records have sizes the retention bounds can add.   *)
LEMMA RecordsSized == Sized(LogRecords) /\ Sized(DeadRecords)
BY DEF Sized, LogRecords, DeadRecords

(* Automatic retention removes only records it may forget.                 *)
LEMMA MaintainStep ==
    ASSUME Base, Safe, NEW p \in Policies, NEW now \in Times, Maintain(p, now)
    PROVE  Base' /\ Safe'
<1> USE BaseFacts
<1>1. p \in AutoPolicies
  BY DeadTriggersAssumption
<1>2. PICK l : l = RetainEvents(log, delivered, p, now)
  OBVIOUS
<1>3. l \in Seq(LogRecords) /\ IsPart(l, log)
  BY <1>1, <1>2, RecordsSized, RetainEventsKeepsPart
<1>4. PICK q : q = RetainDeadTriggers(queue, p, now)
  OBVIOUS
<1>5. q \in Seq(DeadRecords) /\ IsPart(q, queue)
  BY <1>1, <1>4, RecordsSized, RetainDeadTriggersKeepsPart
<1>6. Range(l) \subseteq Range(log) /\ Range(q) \subseteq Range(queue)
  BY <1>3, <1>5, PartFacts
<1>7. task[Operator].kind # "retry"
  BY DEF Maintain, Serving
<1>8. \/ queue' = q /\ owed' = owed \ (Pairs(queue) \ Pairs(queue'))
      \/ queue' = queue /\ owed' = owed
  BY <1>4 DEF Maintain, Discard
<1> QED
  BY <1>2, <1>3, <1>5, <1>6, <1>7, <1>8, RemovalKeeps DEF Maintain

(* An explicit prune removes what the operator asked for.                  *)
LEMMA PruneStep ==
    ASSUME Base, Safe, Prune
    PROVE  Base' /\ Safe'
<1> USE BaseFacts
<1>1. task[Operator].kind # "retry"
  BY DEF Prune
<1>2. Len(queue) \in Nat
  BY LenProperties
<1>3. /\ \/ \E n \in Nat : log' = KeepMostRecent(log, n)
         \/ \E cutoff : log' = KeepOlderThan(log, cutoff)
      /\ \/ \E n \in Nat : queue' = KeepMostRecent(queue, n)
         \/ \E cutoff : queue' = KeepOlderThan(queue, cutoff)
      /\ owed' = owed \ (Pairs(queue) \ Pairs(queue'))
  BY <1>2 DEF Prune, Discard
<1>4. 0 \in Nat
  OBVIOUS
<1>5. /\ log' \in Seq(LogRecords) /\ IsPart(log', log)
      /\ queue' \in Seq(DeadRecords) /\ IsPart(queue', queue)
  BY <1>3, <1>4, PruneKeepsPart
<1>6. Range(log') \subseteq Range(log) /\ Range(queue') \subseteq Range(queue)
  BY <1>5, PartFacts
<1> QED
  BY <1>1, <1>3, <1>5, <1>6, RemovalKeeps DEF Prune

(* The pass of w ends with nothing held that is not marked as damaged.     *)
LEMMA ReleaseStep ==
    ASSUME Base, Safe, NEW w \in Tasks, task' = [task EXCEPT ![w] = Idle],
           \/ process' = process /\ registry' = registry
           \/ process' = "none" /\ \A v \in Tasks : v # w => task[v] = Idle,
           Held(task[w]) \subseteq damaged' \cup Pairs(queue),
           damaged \subseteq damaged',
           UNCHANGED <<queue, appended, owed>>
    PROVE  TasksOK' /\ Safe'
<1> USE BaseFacts
<1>1. TasksOK'
  BY ReleaseKeeps
<1>2. /\ task' \in [Tasks -> Passes] /\ task'[w] = Idle
      /\ \A v \in Tasks : v # w => task'[v] = task[v]
  BY TaskUpdate, IdleFacts
<1>3. CASE w = Operator
  <2>1. owed' \ damaged' \subseteq Pairs(queue')
    BY <1>3 DEF Safe, NoneForgotten
  <2>2. Safe'
    BY <1>2, <1>3, <2>1, IdleFacts, ClearedKeeps
  <2> QED
    BY <1>1, <2>2
<1>4. CASE w # Operator
  <2>1. task'[Operator] = task[Operator]
    BY <1>2, <1>4
  <2>2. Carried
    BY DEF Carried
  <2>3. registry' = registry \/ task[Operator].todo = <<>>
    BY <1>4, IdleFacts
  <2>4. Safe'
    BY <2>1, <2>2, <2>3, QuietKeeps
  <2> QED
    BY <1>1, <2>4
<1> QED
  BY <1>3, <1>4

(* An error from a store ends the pass; what it held and the queue lacks   *)
(* is noted as damage.                                                     *)
LEMMA HandlingFailsStep ==
    ASSUME Base, Safe, NEW w \in Tasks, HandlingFails(w)
    PROVE  Base' /\ Safe'
<1> USE BaseFacts
<1>1. task[w].kind # "idle"
  BY BusyFacts DEF HandlingFails
<1>2. Held(task[w]) \subseteq Events \X Names
  <2>1. task[w].drained \in Seq(DeadRecords)
    BY DEF Passes
  <2> QED
    BY <2>1, PairsFacts DEF Held
<1>3. RecordsOK'
  BY <1>2, RecordsKept DEF HandlingFails, Base
<1>4. ProcessOK'
  <2>1. failures' \in 0..MaxFailures
    BY DeadTriggersAssumption DEF HandlingFails, Base, ProcessOK
  <2>2. PICK p : p = IF Serving THEN process ELSE "none"
    OBVIOUS
  <2>3. Continue(p)
    BY <2>2 DEF HandlingFails
  <2>4. p \in {"none", "serve", "cli"}
    BY <2>2 DEF Base, ProcessOK
  <2> QED
    BY <2>1, <2>3, <2>4, ContinueKeeps DEF HandlingFails, Base
<1>5. \/ process' = process /\ registry' = registry
      \/ process' = "none" /\ \A v \in Tasks : v # w => task[v] = Idle
  <2>1. CASE Serving
    BY <2>1 DEF HandlingFails, Continue, Serving
  <2>2. CASE ~Serving
    BY <1>1, <2>2 DEF HandlingFails, Continue
  <2> QED
    BY <2>1, <2>2
<1>6. TasksOK' /\ Safe'
  BY <1>5, ReleaseStep DEF HandlingFails
<1> QED
  BY <1>3, <1>4, <1>6 DEF Base

(* A pass with nothing left ends, and a command exits with it.             *)
LEMMA FinishStep ==
    ASSUME Base, Safe, NEW w \in Tasks, Finish(w)
    PROVE  Base' /\ Safe'
<1> USE BaseFacts
<1>1. RecordsOK'
  BY RecordsKept DEF Finish, Base
<1>2. process # "none"
  BY IdleFacts DEF Finish
<1>3. ProcessOK'
  <2>1. PICK p : p = IF process = "cli" THEN "none" ELSE process
    OBVIOUS
  <2>2. Continue(p) /\ p \in {"none", "serve", "cli"}
    BY <2>1 DEF Finish, Base, ProcessOK
  <2> QED
    BY <2>2, ContinueKeeps DEF Finish, Base, ProcessOK
<1>4. \/ process' = process /\ registry' = registry
      \/ process' = "none" /\ \A v \in Tasks : v # w => task[v] = Idle
  <2>1. CASE process = "cli"
    BY <2>1 DEF Finish, Continue, Serving
  <2>2. CASE process # "cli"
    BY <1>2, <2>2 DEF Finish, Continue
  <2> QED
    BY <2>1, <2>2
<1>5. Held(task[w]) = {}
  BY OnlyRetryHolds DEF Finish
<1>6. TasksOK' /\ Safe'
  BY <1>4, <1>5, ReleaseStep DEF Finish
<1> QED
  BY <1>1, <1>3, <1>6 DEF Base

(* A request timeout drops the pass of a serving task.                     *)
LEMMA TimeoutStep ==
    ASSUME Base, Safe, NEW w \in Tasks, Timeout(w)
    PROVE  Base' /\ Safe'
<1> USE BaseFacts
<1>1. RecordsOK'
  BY RecordsKept DEF Timeout, Base
<1>2. ProcessOK'
  BY DEF Timeout, Base, ProcessOK
<1>3. task[w].kind # "retry"
  <2>1. task[Operator].kind # "retry"
    BY DEF Timeout, Serving
  <2> QED
    BY <2>1 DEF PassOK
<1>4. Held(task[w]) = {}
  BY <1>3, OnlyRetryHolds
<1>5. TasksOK' /\ Safe'
  BY <1>4, ReleaseStep DEF Timeout
<1> QED
  BY <1>1, <1>2, <1>5 DEF Base

-----------------------------------------------------------------------------
(* Handling, outside a retry.                                              *)

(* The fields of a well-formed pass.                                       *)
LEMMA PassFields ==
    ASSUME NEW p \in Passes
    PROVE  /\ p.kind \in {"idle", "recover", "handle", "range", "retry"}
           /\ p.todo \in Seq(Events) /\ p.rest \in Seq(Registrations)
           /\ p.nowFailed \subseteq Names /\ p.drained \in Seq(DeadRecords)
           /\ p.report \in Reports
           /\ p = [kind |-> p.kind, todo |-> p.todo, rest |-> p.rest,
                   nowFailed |-> p.nowFailed, drained |-> p.drained,
                   report |-> p.report]
BY DEF Passes

(* A pass that is no retry goes on: nothing is owed that was not owed      *)
(* before or is in the queue, and no record is removed.                    *)
LEMMA WorkSafe ==
    ASSUME Base, Safe, NEW w \in Tasks, NEW p \in Passes,
           task[w].kind # "idle", task[w].kind # "retry",
           task' = [task EXCEPT ![w] = p],
           p.kind = task[w].kind, p.drained = task[w].drained,
           registry' = registry,
           owed' \ damaged' \subseteq (owed \ damaged) \cup Pairs(queue'),
           Pairs(queue) \subseteq Pairs(queue')
    PROVE  Safe'
<1> USE BaseFacts
<1>1. /\ task'[w] = p /\ \A v \in Tasks : v # w => task'[v] = task[v]
  BY TaskUpdate
<1>2. CASE w = Ingester
  <2>1. task[Operator].kind # "retry"
    BY <1>2, IdleFacts
  <2>2. Carried
    BY DEF Carried
  <2> QED
    BY <1>1, <1>2, <2>1, <2>2, QuietKeeps
<1>3. CASE w = Operator
  <2>1. Held(task[Operator]) = {}
    BY <1>3, OnlyRetryHolds
  <2>2. Pairs(p.drained) = {}
    BY PairsFacts DEF PassOK
  <2>3. Held(p) = {}
    BY <2>2 DEF Held
  <2>4. owed' \ damaged' \subseteq Pairs(queue')
    BY <2>1 DEF Safe, NoneForgotten
  <2> QED
    BY <1>1, <1>3, <2>3, <2>4, ClearedKeeps
<1> QED
  BY <1>2, <1>3

(* The trigger in hand is one that the configuration names.                *)
LEMMA InHandFacts ==
    ASSUME Base, NEW w \in Tasks, task[w].rest # <<>>
    PROVE  /\ task[w].todo # <<>> /\ task[w].kind # "idle"
           /\ Head(task[w].todo) \in Events /\ Head(task[w].rest).name \in Names
           /\ Head(task[w].todo) \in Range(task[w].todo)
           /\ Tail(task[w].rest) \in Seq(Registrations)
           /\ InHand(w) = <<Head(task[w].todo), Head(task[w].rest).name>>
           /\ InHand(w) \in Events \X Names
<1>1. task[w].todo # <<>> /\ task[w].kind # "idle"
  BY BusyFacts
<1>2. task[w].todo \in Seq(Events) /\ task[w].rest \in Seq(Registrations)
  BY BaseFacts, PassFields
<1>3. /\ Head(task[w].todo) \in Events /\ Head(task[w].todo) \in Range(task[w].todo)
  BY <1>1, <1>2, HeadTailFacts
<1>4. Head(task[w].rest) \in Registrations /\ Tail(task[w].rest) \in Seq(Registrations)
  BY <1>2, HeadTailFacts
<1>5. Head(task[w].rest).name \in Names
  BY <1>4 DEF Names
<1> QED
  BY <1>1, <1>3, <1>4, <1>5 DEF InHand

(* What submitting a trigger does to its pass.                             *)
LEMMA SubmitPass ==
    ASSUME Base, NEW w \in Tasks, Submit(w)
    PROVE  \E p \in Passes :
              /\ task' = [task EXCEPT ![w] = p] /\ task'[w] = p
              /\ p.kind = task[w].kind /\ p.todo = task[w].todo
              /\ p.rest = Tail(task[w].rest)
              /\ p.nowFailed = task[w].nowFailed
              /\ p.drained = task[w].drained /\ p.report = task[w].report
<1> USE BaseFacts
<1>1. PICK o : o = task[w]
  OBVIOUS
<1>2. PICK p : p = [o EXCEPT !.rest = Tail(o.rest)]
  OBVIOUS
<1>3. p = [kind |-> o.kind, todo |-> o.todo, rest |-> Tail(o.rest),
           nowFailed |-> o.nowFailed, drained |-> o.drained,
           report |-> o.report]
  <2>1. o \in Passes
    BY <1>1
  <2> QED
    BY <1>2, <2>1 DEF Passes
<1>4. Tail(o.rest) \in Seq(Registrations)
  BY <1>1, InHandFacts DEF Submit
<1>5. p \in Passes
  <2>1. /\ o.kind \in {"idle", "recover", "handle", "range", "retry"}
        /\ o.todo \in Seq(Events) /\ o.nowFailed \subseteq Names
        /\ o.drained \in Seq(DeadRecords) /\ o.report \in Reports
    BY <1>1, PassFields
  <2> QED
    BY <1>3, <1>4, <2>1 DEF Passes
<1>6. task' = [task EXCEPT ![w] = p]
  BY <1>1, <1>2 DEF Submit
<1>7. task'[w] = p
  BY <1>5, <1>6, TaskUpdate
<1> QED
  BY <1>1, <1>3, <1>5, <1>6, <1>7

(* What a failing trigger does to its pass.                                *)
LEMMA FailPass ==
    ASSUME Base, NEW w \in Tasks, Fail(w)
    PROVE  \E p \in Passes :
              /\ task' = [task EXCEPT ![w] = p] /\ task'[w] = p
              /\ p.kind = task[w].kind /\ p.todo = task[w].todo
              /\ p.rest = Tail(task[w].rest)
              /\ p.nowFailed = task[w].nowFailed \cup {Head(task[w].rest).name}
              /\ p.drained = task[w].drained /\ p.report = task[w].report
<1> USE BaseFacts
<1>1. PICK o, t : o = task[w] /\ t = InHand(w)[2]
  OBVIOUS
<1>2. PICK p : p = [o EXCEPT !.rest = Tail(o.rest),
                             !.nowFailed = o.nowFailed \cup {t}]
  OBVIOUS
<1>3. p = [kind |-> o.kind, todo |-> o.todo, rest |-> Tail(o.rest),
           nowFailed |-> o.nowFailed \cup {t}, drained |-> o.drained,
           report |-> o.report]
  <2>1. o \in Passes
    BY <1>1
  <2> QED
    BY <1>2, <2>1 DEF Passes
<1>4. Tail(o.rest) \in Seq(Registrations) /\ t = Head(task[w].rest).name /\ t \in Names
  BY <1>1, InHandFacts DEF Fail
<1>5. p \in Passes
  <2>1. /\ o.kind \in {"idle", "recover", "handle", "range", "retry"}
        /\ o.todo \in Seq(Events) /\ o.nowFailed \subseteq Names
        /\ o.drained \in Seq(DeadRecords) /\ o.report \in Reports
    BY <1>1, PassFields
  <2> QED
    BY <1>3, <1>4, <2>1 DEF Passes
<1>6. task' = [task EXCEPT ![w] = p]
  BY <1>1, <1>2 DEF Fail
<1>7. task'[w] = p
  BY <1>5, <1>6, TaskUpdate
<1> QED
  BY <1>1, <1>3, <1>4, <1>5, <1>6, <1>7

(* The record of a failure.                                                *)
LEMMA FailQueue ==
    ASSUME Base, NEW w \in Tasks, Fail(w)
    PROVE  /\ Dead(InHand(w)[1], InHand(w)[2]) \in DeadRecords
           /\ queue' \in Seq(DeadRecords)
           /\ Pairs(queue') = Pairs(queue) \cup {InHand(w)}
           /\ Range(queue') = Range(queue) \cup {Dead(InHand(w)[1], InHand(w)[2])}
<1>1. PICK e, t : InHand(w) = <<e, t>> /\ e \in Events /\ t \in Names
  BY InHandFacts DEF Fail
<1>2. PICK r : r = Dead(e, t)
  OBVIOUS
<1>3. r = [id |-> e, ts |-> Stamp[e], size |-> 1, trigger |-> t]
  BY <1>2 DEF Dead
<1>4. r \in DeadRecords
  BY <1>1, <1>3, DeadTriggersAssumption DEF DeadRecords
<1>5. queue' = Append(queue, r)
  BY <1>1, <1>2 DEF Fail
<1>6. /\ queue' \in Seq(DeadRecords) /\ Range(queue') = Range(queue) \cup {r}
      /\ Pairs(queue') = Pairs(queue) \cup {<<r.id, r.trigger>>}
  BY <1>4, <1>5, BaseFacts, AppendProperties, RangeFacts, PairsFacts
<1>7. r = Dead(InHand(w)[1], InHand(w)[2]) /\ <<r.id, r.trigger>> = InHand(w)
  <2>1. InHand(w)[1] = e /\ InHand(w)[2] = t
    BY <1>1
  <2>2. r.id = e /\ r.trigger = t
    BY <1>3
  <2> QED
    BY <1>1, <1>2, <2>1, <2>2
<1> QED
  BY <1>4, <1>6, <1>7

(* A submission outside a retry.                                           *)
LEMMA SubmitStep ==
    ASSUME Base, Safe, NEW w \in Tasks, Submit(w)
    PROVE  Base' /\ (task[w].kind # "retry" => Safe')
<1>1. PICK p \in Passes :
         /\ task' = [task EXCEPT ![w] = p] /\ task'[w] = p
         /\ p.kind = task[w].kind /\ p.todo = task[w].todo
         /\ p.rest = Tail(task[w].rest) /\ p.drained = task[w].drained
  BY SubmitPass
<1>2. task[w].kind # "idle" /\ task[w].todo # <<>>
  BY InHandFacts DEF Submit
<1>3. RecordsOK'
  BY DEF Submit, Base, RecordsOK
<1>4. ProcessOK'
  BY DEF Submit, Base, ProcessOK
<1>5. TasksOK'
  BY <1>1, <1>2, WorkKeeps DEF Submit
<1>6. /\ registry' = registry /\ Pairs(queue) \subseteq Pairs(queue')
      /\ owed' \ damaged' \subseteq owed \ damaged
  BY DEF Submit
<1>7. task[w].kind # "retry" => Safe'
  BY <1>1, <1>2, <1>6, WorkSafe
<1> QED
  BY <1>3, <1>4, <1>5, <1>7 DEF Base

(* A failure outside a retry.                                              *)
LEMMA FailStep ==
    ASSUME Base, Safe, NEW w \in Tasks, Fail(w)
    PROVE  Base' /\ (task[w].kind # "retry" => Safe')
<1>1. PICK p \in Passes :
         /\ task' = [task EXCEPT ![w] = p] /\ task'[w] = p
         /\ p.kind = task[w].kind /\ p.todo = task[w].todo
         /\ p.rest = Tail(task[w].rest) /\ p.drained = task[w].drained
  BY FailPass
<1>2. task[w].kind # "idle" /\ task[w].todo # <<>> /\ InHand(w) \in Events \X Names
  BY InHandFacts DEF Fail
<1>3. RecordsOK'
  <2>1. \A r \in Range(queue') : r.ts = Stamp[r.id]
    <3>1. Dead(InHand(w)[1], InHand(w)[2]).ts
              = Stamp[Dead(InHand(w)[1], InHand(w)[2]).id]
      BY DEF Dead
    <3> QED
      BY <3>1, FailQueue DEF Base, RecordsOK
  <2>2. queue' \in Seq(DeadRecords)
    BY FailQueue
  <2>3. owed' \cup damaged' \subseteq Events \X Names
    BY <1>2 DEF Fail, Base, RecordsOK
  <2> QED
    BY <2>1, <2>2, <2>3 DEF Fail, Base, RecordsOK
<1>4. ProcessOK'
  <2>1. failures' \in 0..MaxFailures
    BY DeadTriggersAssumption DEF Fail, Base, ProcessOK
  <2> QED
    BY <2>1 DEF Fail, Base, ProcessOK
<1>5. TasksOK'
  BY <1>1, <1>2, WorkKeeps DEF Fail
<1>6. /\ registry' = registry /\ Pairs(queue) \subseteq Pairs(queue')
      /\ owed' \ damaged' \subseteq (owed \ damaged) \cup Pairs(queue')
  BY FailQueue DEF Fail
<1>7. task[w].kind # "retry" => Safe'
  BY <1>1, <1>2, <1>6, WorkSafe
<1> QED
  BY <1>3, <1>4, <1>5, <1>7 DEF Base

(* The pairs of one event are as many as its triggers.                     *)
Slice(e, S) == {<<e, t>> : t \in S}

(* The pairs of one event are as many as their trigger names.              *)
LEMMA SliceSize ==
    ASSUME NEW e, NEW S, IsFiniteSet(Slice(e, S))
    PROVE  IsFiniteSet(S) /\ Cardinality(S) = Cardinality(Slice(e, S))
<1>1. PICK A : A = Slice(e, S)
  OBVIOUS
<1>2. PICK f : f = [x \in A |-> x[2]]
  OBVIOUS
<1>3. \A t \in S : <<e, t>> \in A /\ f[<<e, t>>] = t
  BY <1>1, <1>2 DEF Slice
<1>4. \A x \in A : x = <<e, f[x]>> /\ f[x] \in S
  BY <1>1, <1>2 DEF Slice
<1>5. f \in [A -> S]
  BY <1>2, <1>4
<1>6. f \in Injection(A, S)
  BY <1>4, <1>5 DEF Injection, IsInjective
<1>7. f \in Surjection(A, S)
  BY <1>3, <1>5 DEF Surjection
<1>8. ExistsBijection(A, S)
  BY <1>6, <1>7 DEF ExistsBijection, Bijection
<1> QED
  BY <1>1, <1>8, FS_Bijection

(* The names that had failed for an event, as pairs.                       *)
LEMMA PreviouslyFailedFacts ==
    ASSUME NEW q \in Seq(DeadRecords), NEW e
    PROVE  /\ \A t : t \in PreviouslyFailed(q, e) <=> <<e, t>> \in Pairs(q)
           /\ IsFiniteSet(PreviouslyFailed(q, e))
<1>1. PICK S : S = PreviouslyFailed(q, e)
  OBVIOUS
<1>2. \A t : t \in S <=> \E r \in Range(q) : r.id = e /\ r.trigger = t
  BY <1>1, ToSetIsRange DEF PreviouslyFailed
<1>3. \A t : t \in S <=> <<e, t>> \in Pairs(q)
  BY <1>2, PairsFacts
<1>4. Slice(e, S) \in SUBSET Pairs(q)
  BY <1>3 DEF Slice
<1>5. IsFiniteSet(Slice(e, S))
  BY <1>4, PairsFinite, FS_Subset
<1> QED
  BY <1>1, <1>3, <1>5, SliceSize

(* Pass p is what the end of an event makes of pass o.                     *)
Moved(o, p, registrations) ==
    LET before == PreviouslyFailed(o.drained, Head(o.todo))
    IN  /\ p.kind = o.kind /\ p.todo = Tail(o.todo)
        /\ p.rest = TriggersOfFirst(registrations, Tail(o.todo))
        /\ p.nowFailed = {} /\ p.drained = o.drained
        /\ p.report.stillFailed
              = o.report.stillFailed + Cardinality(before \cap o.nowFailed)
        /\ p.report.recovered
              = o.report.recovered + Cardinality(before \ o.nowFailed)

(* What the end of an event does to its pass.                              *)
LEMMA NextEventPass ==
    ASSUME Base, NEW w \in Tasks, NextEvent(w)
    PROVE  \E p \in Passes :
              /\ task' = [task EXCEPT ![w] = p] /\ task'[w] = p
              /\ Moved(task[w], p, registry)
<1> USE BaseFacts
<1>1. PICK o, b : o = task[w] /\ b = PreviouslyFailed(o.drained, Head(o.todo))
  OBVIOUS
<1>2. PICK r : r = Tally(o.report, b, o.nowFailed)
  OBVIOUS
<1>3. PICK u, rest : u = Tail(o.todo) /\ rest = TriggersOfFirst(registry, u)
  OBVIOUS
<1>4. PICK p : p = [o EXCEPT !.todo = u, !.rest = rest, !.nowFailed = {},
                             !.report = r]
  OBVIOUS
<1>5. o \in Passes
  BY <1>1
<1>6. p = [kind |-> o.kind, todo |-> u, rest |-> rest, nowFailed |-> {},
           drained |-> o.drained, report |-> r]
  BY <1>4, <1>5 DEF Passes
<1>7. PICK m, n : m = Cardinality(b \cap o.nowFailed) /\ n = Cardinality(b \ o.nowFailed)
  OBVIOUS
<1>8. m \in Nat /\ n \in Nat
  <2>1. IsFiniteSet(b)
    BY <1>1, <1>5, PassFields, PreviouslyFailedFacts
  <2> QED
    BY <1>7, <2>1, FS_Intersection, FS_Difference, FS_CardinalityType
<1>9. o.report \in Reports
  BY <1>5, PassFields
<1>10. r = [drained |-> o.report.drained, events |-> o.report.events + 1,
            recovered |-> o.report.recovered + n,
            stillFailed |-> o.report.stillFailed + m]
  BY <1>2, <1>7, <1>9 DEF Tally, Reports
<1>11. r \in Reports
  <2>1. /\ o.report.drained \in Nat /\ o.report.events \in Nat
        /\ o.report.recovered \in Nat /\ o.report.stillFailed \in Nat
    BY <1>9 DEF Reports
  <2>2. /\ o.report.events + 1 \in Nat /\ o.report.recovered + n \in Nat
        /\ o.report.stillFailed + m \in Nat
    <3>1. \A i, j \in Nat : i + j \in Nat
      OBVIOUS
    <3>2. 1 \in Nat
      OBVIOUS
    <3> QED
      BY <1>8, <2>1, <3>1, <3>2
  <2> QED
    BY <1>10, <2>1, <2>2 DEF Reports
<1>12. u \in Seq(Events) /\ rest \in Seq(Registrations)
  <2>1. o.todo \in Seq(Events) /\ o.todo # <<>>
    BY <1>1, <1>5, PassFields DEF NextEvent, Account
  <2> QED
    BY <1>3, <2>1, HeadTailFacts, TriggersFacts
<1>13. p \in Passes
  <2>1. /\ o.kind \in {"idle", "recover", "handle", "range", "retry"}
        /\ o.drained \in Seq(DeadRecords)
    BY <1>5, PassFields
  <2> QED
    BY <1>6, <1>11, <1>12, <2>1 DEF Passes
<1>14. task' = [task EXCEPT ![w] = p]
  BY <1>1, <1>2, <1>3, <1>4 DEF NextEvent, Account
<1>15. task'[w] = p
  BY <1>13, <1>14, TaskUpdate
<1>16. /\ p.report.stillFailed = o.report.stillFailed + m
       /\ p.report.recovered = o.report.recovered + n
  BY <1>6, <1>10
<1>17. Moved(o, p, registry)
  BY <1>1, <1>3, <1>6, <1>7, <1>16 DEF Moved
<1> QED
  BY <1>1, <1>13, <1>14, <1>15, <1>17

(* The end of an event outside a retry.                                    *)
LEMMA NextEventStep ==
    ASSUME Base, Safe, NEW w \in Tasks, NextEvent(w)
    PROVE  Base' /\ (task[w].kind # "retry" => Safe')
<1> USE BaseFacts
<1>1. PICK p \in Passes :
         /\ task' = [task EXCEPT ![w] = p] /\ task'[w] = p
         /\ p.kind = task[w].kind /\ p.todo = Tail(task[w].todo)
         /\ p.rest = TriggersOfFirst(registry, Tail(task[w].todo))
         /\ p.drained = task[w].drained
  BY NextEventPass DEF Moved
<1>2. /\ task[w].todo # <<>> /\ owed' \subseteq owed
      /\ delivered' = delivered \cup (IF w = Ingester THEN {Head(task[w].todo)} ELSE {})
      /\ UNCHANGED <<log, queue, process, registry, starts, failures, appended,
                     damaged>>
  BY DEF NextEvent, Account
<1>3. task[w].kind # "idle"
  BY <1>2, BusyFacts
<1>4. Range(task[w].todo) = {Head(task[w].todo)} \cup Range(Tail(task[w].todo))
  <2>1. task[w].todo \in Seq(Events)
    BY PassFields
  <2> QED
    BY <1>2, <2>1, HeadTailFacts
<1>5. RecordsOK'
  <2>1. delivered' \subseteq appended'
    BY <1>2, <1>4 DEF Base, RecordsOK, TasksOK
  <2> QED
    BY <1>2, <2>1 DEF Base, RecordsOK
<1>6. ProcessOK'
  BY <1>2 DEF Base, ProcessOK
<1>7. p.rest # <<>> => p.todo # <<>>
  BY <1>1, TriggersFacts
<1>8. TasksOK'
  BY <1>1, <1>2, <1>3, <1>4, <1>7, WorkKeeps
<1>9. task[w].kind # "retry" => Safe'
  BY <1>1, <1>2, <1>3, WorkSafe
<1> QED
  BY <1>5, <1>6, <1>8, <1>9 DEF Base

-----------------------------------------------------------------------------
(* The retry.                                                              *)

(* Draining hands every record to the pass, and every event to its todo.   *)
LEMMA RetryDeadTriggersStep ==
    ASSUME Base, Safe, RetryDeadTriggers
    PROVE  Base' /\ Safe'
<1> USE BaseFacts
<1>1. PICK todo : todo = Order(queue)
  OBVIOUS
<1>2. /\ todo \in Seq(Events) /\ IsInjective(todo)
      /\ \A e : e \in Range(todo) <=> \E r \in Range(queue) : r.id = e
  BY <1>1, FirstSeenFacts DEF Order
<1>3. PICK p : p = Fresh("retry", registry, todo, queue)
  OBVIOUS
<1>4. Begin(Operator, "retry", registry, todo, queue)
  BY <1>1 DEF RetryDeadTriggers
<1>5. task' = [task EXCEPT ![Operator] = p] /\ p \in Passes
  BY <1>2, <1>3, <1>4, BeginFacts DEF Begin
<1>6. /\ p.kind = "retry" /\ p.todo = todo /\ p.drained = queue
      /\ p.rest = TriggersOfFirst(registry, todo) /\ p.nowFailed = {}
      /\ p.report.stillFailed = 0 /\ p.report.recovered = 0
  BY <1>3 DEF Fresh
<1>7. PassOK(Operator, p)
  <2>1. p.rest # <<>> => p.todo # <<>>
    BY <1>6, TriggersFacts
  <2> QED
    BY <1>5, <1>6, <2>1 DEF PassOK
<1>8. /\ MayBegin(Operator) /\ process' = process /\ process = "cli"
      /\ UNCHANGED <<log, registry, starts, failures, delivered, appended, owed,
                     damaged>>
      /\ queue' = <<>>
  BY DEF RetryDeadTriggers
<1>9. TasksOK'
  BY <1>5, <1>6, <1>7, <1>8, BeginKeeps
<1>10. RecordsOK'
  <2>1. <<>> \in Seq(DeadRecords) /\ Range(<<>>) = {}
    BY RangeFacts
  <2> QED
    BY <1>8, <2>1 DEF Base, RecordsOK
<1>11. ProcessOK'
  BY <1>8 DEF Base, ProcessOK
<1>12. task'[Operator] = p
  BY <1>5, TaskUpdate
<1>13. \A x \in Pairs(queue) : x[1] \in Range(todo)
  <2>1. ASSUME NEW x \in Pairs(queue) PROVE x[1] \in Range(todo)
    <3>1. PICK r \in Range(queue) : x = <<r.id, r.trigger>>
      BY ToSetIsRange DEF Pairs
    <3> QED
      BY <1>2, <3>1
  <2> QED
    BY <2>1
<1>14. Held(p) = Pairs(queue) /\ Done(p) = {}
  <2>1. Held(p) = {x \in Pairs(p.drained) : x[1] \in Range(p.todo)}
    BY <1>5, HeldFacts
  <2> QED
    BY <1>6, <1>13, <2>1 DEF Done
<1>15. Held(task[Operator])' = Held(p)
  BY <1>12 DEF Held, Pairs
<1>16. NoneForgotten'
  <2>1. Held(task[Operator]) = {}
    BY <1>8, IdleFacts DEF MayBegin
  <2> QED
    BY <1>8, <1>14, <1>15, <2>1 DEF Safe, NoneForgotten
<1>17. HandledOK'
  <2>1. todo # <<>> => p.rest = Matching(registry, Head(todo))
    BY <1>6, TriggersFacts
  <2> QED
    BY <1>6, <1>8, <1>12, <2>1 DEF HandledOK
<1>18. ASSUME DistinctNames PROVE RetryFine(p, <<>>)
  <2>1. IsInjective(<<>>) /\ Pairs(<<>>) = {}
    BY PairsFacts DEF IsInjective
  <2>2. Named(p.rest)
    BY <1>6, <1>18, TriggersFacts
  <2>3. Cardinality(Done(p) \cap Pairs(<<>>)) = 0 /\ Cardinality(Done(p) \ Pairs(<<>>)) = 0
    <3>1. Done(p) \cap Pairs(<<>>) = {} /\ Done(p) \ Pairs(<<>>) = {}
      BY <1>14
    <3> QED
      BY <3>1, FS_EmptySet
  <2> QED
    BY <1>2, <1>6, <2>1, <2>2, <2>3 DEF RetryFine
<1>19. RetryOK'
  BY <1>8, <1>12, <1>18 DEF RetryOK
<1> QED
  BY <1>9, <1>10, <1>11, <1>16, <1>17, <1>19 DEF Base, Safe

(* What is known of a retry that is under way, with the pass named.        *)
LEMMA RetryFacts ==
    ASSUME Base, Safe, task[Operator].kind = "retry",
           NEW p, p = task[Operator]
    PROVE  /\ p \in Passes /\ (DistinctNames => RetryFine(p, queue))
           /\ p.todo \in Seq(Events) /\ p.rest \in Seq(Registrations)
           /\ p.drained \in Seq(DeadRecords) /\ p.report \in Reports
           /\ Held(p) = {x \in Pairs(p.drained) : x[1] \in Range(p.todo)}
           /\ owed \ damaged \subseteq Pairs(queue) \cup Held(p)
           /\ p.todo # <<>> =>
                \A t \in NamesOf(Matching(registry, Head(p.todo))) :
                   (/\ <<Head(p.todo), t>> \in Held(p)
                    /\ <<Head(p.todo), t>> \in owed \ damaged)
                      => \/ <<Head(p.todo), t>> \in Pairs(queue)
                         \/ t \in NamesOf(p.rest)
<1>1. p \in Passes
  BY BaseFacts
<1>2. DistinctNames => RetryFine(p, queue)
  BY DEF Safe, RetryOK
<1>3. owed \ damaged \subseteq Pairs(queue) \cup Held(p)
  BY DEF Safe, NoneForgotten
<1>4. Held(p) = {x \in Pairs(p.drained) : x[1] \in Range(p.todo)}
  BY <1>1, HeldFacts
<1>5. p.todo # <<>> =>
        \A t \in NamesOf(Matching(registry, Head(p.todo))) :
           (/\ <<Head(p.todo), t>> \in Held(p)
            /\ <<Head(p.todo), t>> \in owed \ damaged)
              => \/ <<Head(p.todo), t>> \in Pairs(queue)
                 \/ t \in NamesOf(p.rest)
  BY DEF Safe, HandledOK
<1> QED
  BY <1>1, <1>2, <1>3, <1>4, <1>5, PassFields

(* A submission in a retry.                                                *)
LEMMA SubmitInRetry ==
    ASSUME Base, Safe, Submit(Operator), task[Operator].kind = "retry"
    PROVE  Safe'
<1> USE BaseFacts
<1>1. PICK o : o = task[Operator]
  OBVIOUS
<1>2. PICK p \in Passes :
         /\ task'[Operator] = p /\ p.kind = "retry" /\ p.todo = o.todo
         /\ p.rest = Tail(o.rest) /\ p.nowFailed = o.nowFailed
         /\ p.drained = o.drained /\ p.report = o.report
  BY <1>1, SubmitPass
<1>3. /\ o.rest # <<>> /\ queue' = queue /\ registry' = registry
      /\ owed' \ damaged' = (owed \ damaged) \ {InHand(Operator)}
  BY <1>1 DEF Submit
<1>4. InHand(Operator) = <<Head(o.todo), Head(o.rest).name>>
  BY <1>1, <1>3, InHandFacts
<1>5. /\ NamesOf(o.rest) = {Head(o.rest).name} \cup NamesOf(p.rest)
      /\ Named(o.rest) => Named(p.rest)
  BY <1>1, <1>2, <1>3, RetryFacts, HeadTailFacts
<1>6. Held(p) = Held(o) /\ Done(p) = Done(o)
  BY <1>2 DEF Held, Done
<1>7. Held(task[Operator])' = Held(p)
  BY <1>2 DEF Held, Pairs
<1>8. NoneForgotten'
  BY <1>1, <1>3, <1>6, <1>7, RetryFacts DEF NoneForgotten
<1>9. HandledOK'
  <2>1. SUFFICES ASSUME p.todo # <<>>,
                        NEW t \in NamesOf(Matching(registry, Head(p.todo))),
                        <<Head(p.todo), t>> \in Held(p),
                        <<Head(p.todo), t>> \in owed' \ damaged'
                 PROVE  <<Head(p.todo), t>> \in Pairs(queue)
                            \/ t \in NamesOf(p.rest)
    BY <1>2, <1>3 DEF HandledOK
  <2>2. \/ <<Head(o.todo), t>> \in Pairs(queue)
        \/ t \in NamesOf(o.rest)
    BY <1>1, <1>2, <1>3, <1>6, <2>1, RetryFacts
  <2>3. t # Head(o.rest).name
    BY <1>2, <1>3, <1>4, <2>1
  <2> QED
    BY <1>2, <1>5, <2>2, <2>3
<1>10. ASSUME DistinctNames PROVE RetryFine(p, queue)
  <2>1. RetryFine(o, queue)
    BY <1>1, <1>10, RetryFacts
  <2> QED
    BY <1>2, <1>5, <1>6, <2>1 DEF RetryFine
<1>11. RetryOK'
  BY <1>2, <1>3, <1>10 DEF RetryOK
<1> QED
  BY <1>8, <1>9, <1>11 DEF Safe

(* A failure in a retry: the pair was not in the queue.                    *)
LEMMA FailInRetry ==
    ASSUME Base, Safe, Fail(Operator), task[Operator].kind = "retry"
    PROVE  Safe'
<1> USE BaseFacts
<1>1. PICK o, e, t : o = task[Operator] /\ e = Head(o.todo) /\ t = Head(o.rest).name
  OBVIOUS
<1>2. PICK p \in Passes :
         /\ task'[Operator] = p /\ p.kind = "retry" /\ p.todo = o.todo
         /\ p.rest = Tail(o.rest) /\ p.nowFailed = o.nowFailed \cup {t}
         /\ p.drained = o.drained /\ p.report = o.report
  BY <1>1, FailPass
<1>3. /\ o.rest # <<>> /\ registry' = registry
      /\ owed' \ damaged' \subseteq (owed \ damaged) \cup {InHand(Operator)}
  BY <1>1 DEF Fail
<1>4. InHand(Operator) = <<e, t>> /\ e \in Range(o.todo) /\ o.todo # <<>>
  BY <1>1, <1>3, InHandFacts
<1>5. PICK r : r = Dead(e, t)
  OBVIOUS
<1>6. /\ r \in DeadRecords /\ r.id = e /\ r.trigger = t
      /\ queue' = Append(queue, r)
  <2>1. InHand(Operator)[1] = e /\ InHand(Operator)[2] = t
    BY <1>4
  <2>2. r \in DeadRecords /\ queue' = Append(queue, r)
    BY <1>5, <2>1, FailQueue DEF Fail
  <2> QED
    BY <1>5, <2>2 DEF Dead
<1>7. Pairs(queue') = Pairs(queue) \cup {<<e, t>>}
  BY <1>4, FailQueue
<1>8. /\ NamesOf(o.rest) = {t} \cup NamesOf(p.rest)
      /\ Named(o.rest) => Named(p.rest) /\ t \notin NamesOf(p.rest)
  BY <1>1, <1>2, <1>3, RetryFacts, HeadTailFacts
<1>10. Held(p) = Held(o) /\ Done(p) = Done(o)
  BY <1>2 DEF Held, Done
<1>11. Held(task[Operator])' = Held(p)
  BY <1>2 DEF Held, Pairs
<1>12. NoneForgotten'
  <2>1. owed \ damaged \subseteq Pairs(queue) \cup Held(o)
    BY <1>1, RetryFacts
  <2> QED
    BY <1>3, <1>4, <1>7, <1>10, <1>11, <2>1 DEF NoneForgotten
<1>13. HandledOK'
  <2>1. SUFFICES ASSUME NEW n \in NamesOf(Matching(registry, e)),
                        <<e, n>> \in Held(o),
                        <<e, n>> \in owed' \ damaged'
                 PROVE  <<e, n>> \in Pairs(queue') \/ n \in NamesOf(p.rest)
    BY <1>1, <1>2, <1>3, <1>10 DEF HandledOK
  <2>2. CASE n = t
    BY <1>7, <2>2
  <2>3. CASE n # t
    <3>1. <<e, n>> \in owed \ damaged
      BY <1>3, <1>4, <2>1, <2>3
    <3>2. <<e, n>> \in Pairs(queue) \/ n \in NamesOf(o.rest)
      BY <1>1, <1>4, <2>1, <3>1, RetryFacts
    <3> QED
      BY <1>7, <1>8, <2>3, <3>2
  <2> QED
    BY <2>2, <2>3
<1>14. ASSUME DistinctNames PROVE RetryFine(p, queue')
  <2>1. RetryFine(o, queue)
    BY <1>1, <1>14, RetryFacts
  <2>2. t \notin o.nowFailed
    BY <1>8, <2>1 DEF RetryFine
  <2>3. <<e, t>> \notin Pairs(queue)
    BY <1>4, <2>1, <2>2 DEF RetryFine
  <2>4. IsInjective(queue')
    <3>1. r \notin Range(queue)
      BY <1>6, <2>3, PairsFacts
    <3> QED
      BY <1>6, <2>1, <3>1, AppendInjective1 DEF RetryFine
  <2>5. <<e, t>> \notin Done(o)
    BY <1>4 DEF Done
  <2>6. /\ Done(p) \cap Pairs(queue') = Done(o) \cap Pairs(queue)
        /\ Done(p) \ Pairs(queue') = Done(o) \ Pairs(queue)
    BY <1>7, <1>10, <2>5
  <2>7. \A x \in Pairs(queue') : x[1] \in Range(p.todo) =>
          x[1] = Head(p.todo) /\ x[2] \in p.nowFailed
    BY <1>1, <1>2, <1>7, <2>1 DEF RetryFine
  <2>8. \A n \in p.nowFailed : <<Head(p.todo), n>> \in Pairs(queue')
    BY <1>1, <1>2, <1>4, <1>7, <2>1 DEF RetryFine
  <2>9. Named(p.rest) /\ NamesOf(p.rest) \cap p.nowFailed = {}
    BY <1>2, <1>8, <2>1 DEF RetryFine
  <2> QED
    BY <1>2, <2>1, <2>4, <2>6, <2>7, <2>8, <2>9 DEF RetryFine
<1>15. RetryOK'
  BY <1>2, <1>14 DEF RetryOK
<1> QED
  BY <1>12, <1>13, <1>15 DEF Safe

(* Splitting off the pairs of the event that is done now.                  *)
LEMMA DoneGrows ==
    ASSUME NEW o \in Passes, NEW p \in Passes, o.todo # <<>>,
           IsInjective(o.todo), p.todo = Tail(o.todo), p.drained = o.drained,
           NEW b, b = PreviouslyFailed(o.drained, Head(o.todo))
    PROVE  /\ Done(p) = Done(o) \cup Slice(Head(o.todo), b)
           /\ Done(o) \cap Slice(Head(o.todo), b) = {}
           /\ IsFiniteSet(Done(o)) /\ IsFiniteSet(Slice(Head(o.todo), b))
<1>1. PICK e, q : e = Head(o.todo) /\ q = o.drained
  OBVIOUS
<1>2. o.todo \in Seq(Events) /\ q \in Seq(DeadRecords)
  BY <1>1, PassFields
<1>3. Range(o.todo) = {e} \cup Range(p.todo) /\ e \notin Range(p.todo)
  BY <1>1, <1>2, HeadTailFacts
<1>4. \A t : t \in b <=> <<e, t>> \in Pairs(q)
  BY <1>1, <1>2, PreviouslyFailedFacts
<1>5. \A x \in Pairs(q) : x = <<x[1], x[2]>>
  <2>1. Pairs(q) \subseteq Events \X Names
    BY <1>2, PairsFacts
  <2> QED
    BY <2>1
<1>6. \A x : x \in Slice(e, b) <=> x \in Pairs(q) /\ x[1] = e
  BY <1>4, <1>5 DEF Slice
<1>7. \A x : x \in Done(p) <=> x \in Done(o) \/ x \in Slice(e, b)
  BY <1>1, <1>3, <1>6 DEF Done
<1>8. Done(o) \cap Slice(e, b) = {}
  BY <1>3, <1>6 DEF Done
<1>9. Done(o) \in SUBSET Pairs(q) /\ Slice(e, b) \in SUBSET Pairs(q)
  BY <1>1, <1>6 DEF Done
<1>10. IsFiniteSet(Done(o)) /\ IsFiniteSet(Slice(e, b))
  BY <1>2, <1>9, PairsFinite, FS_Subset
<1> QED
  BY <1>1, <1>7, <1>8, <1>10

(* Counting in two disjoint sets.                                          *)
LEMMA CountApart ==
    ASSUME NEW A, NEW B, IsFiniteSet(A), IsFiniteSet(B), A \cap B = {}
    PROVE  Cardinality(A \cup B) = Cardinality(A) + Cardinality(B)
<1>1. /\ Cardinality(A) \in Nat /\ Cardinality(B) \in Nat
      /\ Cardinality(A \cup B)
            = Cardinality(A) + Cardinality(B) - Cardinality(A \cap B)
  BY FS_CardinalityType, FS_Union
<1>2. Cardinality(A \cap B) = 0
  BY FS_EmptySet
<1> QED
  BY <1>1, <1>2

(* Of the pairs of event e with the triggers in b, Q has those with f.     *)
Among(Q, e, b, f) == \A t \in b : <<e, t>> \in Q <=> t \in f

(* D2 is D and, apart from it, the pairs of e with the triggers in b.      *)
Splits(D2, D, e, b) ==
    /\ D2 = D \cup Slice(e, b) /\ D \cap Slice(e, b) = {}
    /\ IsFiniteSet(D) /\ IsFiniteSet(Slice(e, b))

Kept(D, Q) == Cardinality(D \cap Q)
Gone(D, Q) == Cardinality(D \ Q)

(* The report of a retry keeps up with the queue: of the event's pairs the *)
(* queue holds those that fail now.                                        *)
LEMMA TallyCounts ==
    ASSUME NEW D, NEW D2, NEW Q, NEW e, NEW b, NEW f,
           Splits(D2, D, e, b), Among(Q, e, b, f)
    PROVE  /\ Kept(D2, Q) = Kept(D, Q) + Kept(b, f)
           /\ Gone(D2, Q) = Gone(D, Q) + Gone(b, f)
<1>0. /\ D2 = D \cup Slice(e, b) /\ D \cap Slice(e, b) = {}
      /\ IsFiniteSet(D) /\ IsFiniteSet(Slice(e, b))
  BY DEF Splits
<1>1. PICK S : S = Slice(e, b)
  OBVIOUS
<1>2. S \cap Q = Slice(e, b \cap f) /\ S \ Q = Slice(e, b \ f)
  BY <1>1 DEF Slice, Among
<1>3. IsFiniteSet(D \cap Q) /\ IsFiniteSet(D \ Q)
  BY <1>0, FS_Intersection, FS_Difference
<1>4. IsFiniteSet(S \cap Q) /\ IsFiniteSet(S \ Q)
  BY <1>0, <1>1, FS_Intersection, FS_Difference
<1>5. /\ Cardinality(b \cap f) = Cardinality(S \cap Q)
      /\ Cardinality(b \ f) = Cardinality(S \ Q)
  <2>1. PICK c, d : c = b \cap f /\ d = b \ f
    OBVIOUS
  <2>2. S \cap Q = Slice(e, c) /\ S \ Q = Slice(e, d)
    BY <1>2, <2>1
  <2>3. IsFiniteSet(Slice(e, c)) /\ IsFiniteSet(Slice(e, d))
    BY <1>4, <2>2
  <2> QED
    BY <2>1, <2>2, <2>3, SliceSize
<1>6. /\ (D \cup S) \cap Q = (D \cap Q) \cup (S \cap Q)
      /\ (D \cup S) \ Q = (D \ Q) \cup (S \ Q)
      /\ (D \cap Q) \cap (S \cap Q) = {}
      /\ (D \ Q) \cap (S \ Q) = {}
  BY <1>0, <1>1
<1>7. Cardinality((D \cap Q) \cup (S \cap Q))
         = Cardinality(D \cap Q) + Cardinality(S \cap Q)
  BY <1>3, <1>4, <1>6, CountApart
<1>8. Cardinality((D \ Q) \cup (S \ Q)) = Cardinality(D \ Q) + Cardinality(S \ Q)
  BY <1>3, <1>4, <1>6, CountApart
<1> QED
  BY <1>0, <1>1, <1>5, <1>6, <1>7, <1>8 DEF Kept, Gone

(* The end of an event in a retry.                                         *)
LEMMA NextEventInRetry ==
    ASSUME Base, Safe, NextEvent(Operator), task[Operator].kind = "retry"
    PROVE  Safe'
<1> USE BaseFacts
<1>1. PICK o, e, b : /\ o = task[Operator] /\ e = Head(o.todo)
                     /\ b = PreviouslyFailed(o.drained, e)
  OBVIOUS
<1>2. PICK p \in Passes :
         /\ task'[Operator] = p /\ p.kind = "retry" /\ p.todo = Tail(o.todo)
         /\ p.rest = TriggersOfFirst(registry, Tail(o.todo))
         /\ p.nowFailed = {} /\ p.drained = o.drained
         /\ p.report.stillFailed
               = o.report.stillFailed + Cardinality(b \cap o.nowFailed)
         /\ p.report.recovered
               = o.report.recovered + Cardinality(b \ o.nowFailed)
  <2>1. PICK p \in Passes : task'[Operator] = p /\ Moved(o, p, registry)
    BY <1>1, NextEventPass
  <2> QED
    BY <1>1, <2>1 DEF Moved
<1>3. PICK m : m = NamesOf(Matching(registry, e))
  OBVIOUS
<1>4. /\ o.todo # <<>> /\ o.rest = <<>> /\ owed' = owed \ Slice(e, b \ m)
      /\ UNCHANGED <<queue, registry, damaged>>
  BY <1>1, <1>3, ToSetIsRange DEF NextEvent, Account, Slice, NamesOf
<1>5. /\ o \in Passes /\ o.todo \in Seq(Events)
      /\ o.drained \in Seq(DeadRecords)
      /\ Held(o) = {x \in Pairs(o.drained) : x[1] \in Range(o.todo)}
      /\ owed \ damaged \subseteq Pairs(queue) \cup Held(o)
  BY <1>1, RetryFacts
<1>6. Range(o.todo) = {e} \cup Range(p.todo)
  BY <1>1, <1>2, <1>4, <1>5, HeadTailFacts
<1>8. Held(p) = {x \in Pairs(o.drained) : x[1] \in Range(p.todo)}
  BY <1>2, HeldFacts
<1>9. Held(task[Operator])' = Held(p)
  BY <1>2 DEF Held, Pairs
<1>10. \A t : t \in b <=> <<e, t>> \in Pairs(o.drained)
  BY <1>1, <1>5, PreviouslyFailedFacts
<1>11. NoneForgotten'
  <2>1. ASSUME NEW x \in owed' \ damaged PROVE x \in Pairs(queue) \cup Held(p)
    <3>1. x \in owed \ damaged
      BY <1>4, <2>1
    <3>2. CASE x \in Pairs(queue)
      BY <3>2
    <3>3. CASE x \in Held(o) /\ x[1] \in Range(p.todo)
      BY <1>5, <1>8, <3>3
    <3>4. CASE x \in Held(o) /\ x[1] = e
      <4>1. x \in Events \X Names
        BY <1>5, <3>4, PairsFacts
      <4>2. PICK t : x = <<e, t>>
        BY <3>4, <4>1
      <4>3. t \in b
        BY <1>5, <1>10, <3>4, <4>2
      <4>4. t \in m
        BY <1>4, <2>1, <4>2, <4>3 DEF Slice
      <4>5. NamesOf(o.rest) = {}
        BY <1>4, RangeFacts DEF NamesOf
      <4>6. <<e, t>> \in Pairs(queue) \/ t \in NamesOf(o.rest)
        BY <1>1, <1>3, <1>4, <3>1, <3>4, <4>2, <4>4, RetryFacts
      <4> QED
        BY <4>2, <4>5, <4>6
    <3> QED
      BY <1>5, <1>6, <3>1, <3>2, <3>3, <3>4
  <2> QED
    BY <1>4, <1>9, <2>1 DEF NoneForgotten
<1>12. HandledOK'
  <2>1. p.todo # <<>> => p.rest = Matching(registry, Head(p.todo))
    BY <1>2, TriggersFacts
  <2> QED
    BY <1>2, <1>4, <2>1 DEF HandledOK
<1>13. ASSUME DistinctNames PROVE RetryFine(p, queue)
  <2>1. RetryFine(o, queue)
    BY <1>1, <1>13, RetryFacts
  <2>2. IsInjective(p.todo) /\ e \notin Range(p.todo)
    BY <1>1, <1>2, <1>4, <1>5, <2>1, HeadTailFacts DEF RetryFine
  <2>3. \A x \in Pairs(queue) : x[1] \notin Range(p.todo)
    BY <1>1, <1>6, <2>1, <2>2 DEF RetryFine
  <2>4. Named(p.rest)
    BY <1>2, <1>13, TriggersFacts
  <2>5. Splits(Done(p), Done(o), e, b)
    BY <1>1, <1>2, <1>4, <1>5, <2>1, DoneGrows DEF RetryFine, Splits
  <2>6. Among(Pairs(queue), e, b, o.nowFailed)
    BY <1>1, <1>4, <1>6, <2>1 DEF RetryFine, Among
  <2>7. /\ Kept(Done(p), Pairs(queue))
              = Kept(Done(o), Pairs(queue)) + Kept(b, o.nowFailed)
        /\ Gone(Done(p), Pairs(queue))
              = Gone(Done(o), Pairs(queue)) + Gone(b, o.nowFailed)
    BY <2>5, <2>6, TallyCounts
  <2>8. /\ o.report.stillFailed = Cardinality(Done(o) \cap Pairs(queue))
        /\ o.report.recovered = Cardinality(Done(o) \ Pairs(queue))
        /\ IsInjective(queue)
    BY <2>1 DEF RetryFine
  <2> QED
    BY <1>2, <2>2, <2>3, <2>4, <2>7, <2>8 DEF RetryFine, Kept, Gone
<1>14. RetryOK'
  BY <1>2, <1>4, <1>13 DEF RetryOK
<1> QED
  BY <1>11, <1>12, <1>14 DEF Safe

-----------------------------------------------------------------------------
(* The specification.                                                      *)

(* Every step keeps the invariant.                                         *)
LEMMA NextKeeps == Base /\ Safe /\ [Next]_vars => Base' /\ Safe'
<1>1. SUFFICES ASSUME Base, Safe, [Next]_vars PROVE Base' /\ Safe'
  OBVIOUS
<1>2. CASE UNCHANGED vars
  BY <1>1, <1>2 DEF vars, Base, RecordsOK, ProcessOK, TasksOK, Safe,
                    NoneForgotten, HandledOK, RetryOK, Held
<1>3. ASSUME NEW kind \in {"serve", "cli"}, NEW config \in Configs,
             Start(kind, config)
      PROVE  Base' /\ Safe'
  BY <1>1, <1>3, StartStep
<1>4. ASSUME NEW w \in Tasks, Advance(w) PROVE Base' /\ Safe'
  <2>1. task[w].kind = "retry" => w = Operator
    BY <1>1, BaseFacts DEF PassOK
  <2>2. CASE Submit(w)
    BY <1>1, <2>1, <2>2, SubmitStep, SubmitInRetry
  <2>3. CASE Fail(w)
    BY <1>1, <2>1, <2>3, FailStep, FailInRetry
  <2>4. CASE HandlingFails(w)
    BY <1>1, <2>4, HandlingFailsStep
  <2>5. CASE NextEvent(w)
    BY <1>1, <2>1, <2>5, NextEventStep, NextEventInRetry
  <2>6. CASE Finish(w)
    BY <1>1, <2>6, FinishStep
  <2> QED
    BY <1>4, <2>2, <2>3, <2>4, <2>5, <2>6 DEF Advance
<1>5. ASSUME NEW w \in Tasks, Timeout(w) PROVE Base' /\ Safe'
  BY <1>1, <1>5, TimeoutStep
<1>6. ASSUME NEW e \in Events, Handle(e) PROVE Base' /\ Safe'
  BY <1>1, <1>6, HandleStep
<1>7. ASSUME NEW f \in Ranges, ReplayRange(f) PROVE Base' /\ Safe'
  BY <1>1, <1>7, ReplayRangeStep
<1>8. ASSUME NEW p \in Policies, NEW now \in Times, Maintain(p, now)
      PROVE  Base' /\ Safe'
  BY <1>1, <1>8, MaintainStep
<1>9. CASE Crash \/ RetryDeadTriggers \/ DrainFails \/ Prune
  BY <1>1, <1>9, CrashStep, RetryDeadTriggersStep, DrainFailsStep, PruneStep
<1> QED
  BY <1>1, <1>2, <1>3, <1>4, <1>5, <1>6, <1>7, <1>8, <1>9 DEF Next

(* The inductive invariant holds in every behaviour.                       *)
THEOREM Invariance == Spec => [](Base /\ Safe)
<1>1. Init => Base /\ Safe
  BY InitSafe
<1>2. Base /\ Safe /\ [Next]_vars => (Base /\ Safe)'
  BY NextKeeps
<1> QED
  BY <1>1, <1>2, PTL DEF Spec

(* Files, passes, counters and histories keep their types, for every set   *)
(* of events and every configuration.                                      *)
THEOREM TypeCorrect == Spec => []TypeOK
<1>1. Base => TypeOK
  <2>1. SUFFICES ASSUME Base PROVE TypeOK
    OBVIOUS
  <2>2. ASSUME NEW w \in Tasks
        PROVE  /\ task[w].kind \in {"idle", "recover", "handle", "range", "retry"}
               /\ ToSet(task[w].todo) \subseteq Events
               /\ task[w].nowFailed \subseteq Names
               /\ task[w].kind = "idle" => task[w] = Idle
    <3>1. task[w] \in Passes /\ PassOK(w, task[w])
      BY <2>1, BaseFacts
    <3>2. Range(task[w].todo) \subseteq Events
      BY <3>1, PassFields, RangeFacts
    <3> QED
      BY <3>1, <3>2, PassFields, ToSetIsRange DEF PassOK
  <2>3. process = "none" => task = [w \in Tasks |-> Idle]
    BY <2>1 DEF Base, TasksOK
  <2>4. process = "cli" \/ task[Ingester].kind = "recover"
          => Idle \in {task[Ingester], task[Operator]}
    BY <2>1 DEF Base, TasksOK
  <2> QED
    BY <2>1, <2>2, <2>3, <2>4
    DEF TypeOK, Base, RecordsOK, ProcessOK, LogRecords, DeadRecords
<1> QED
  BY <1>1, Invariance, PTL

(* No recorded failure is forgotten by any interleaving of handling,       *)
(* replay, retry, retention and exits, except what a retry pass that was   *)
(* broken off had drained, and what a drain lost that failed after its     *)
(* truncation.                                                             *)
THEOREM NothingForgotten == Spec => []NoneForgotten
<1>1. Base /\ Safe => NoneForgotten
  BY DEF Safe
<1> QED
  BY <1>1, Invariance, PTL

(* Where each trigger has a name of its own, a completed retry leaves one  *)
(* record per event and trigger, whatever duplicates it drained.           *)
THEOREM NoDuplicates ==
    ASSUME DistinctNames PROVE Spec => []RetryLeavesNoDuplicates
<1>1. Base /\ Safe => RetryLeavesNoDuplicates
  BY DEF Safe, RetryOK, RetryFine, RetryLeavesNoDuplicates, RetryDone
<1> QED
  BY <1>1, Invariance, PTL

(* A queue that holds no pair twice has as many pairs as records.          *)
LEMMA OnceEach ==
    ASSUME NEW q \in Seq(DeadRecords), ~Twice(q)
    PROVE  Cardinality(Pairs(q)) = Len(q)
<1> DEFINE T == {u \in Seq(DeadRecords) : ~Twice(u) => Cardinality(Pairs(u)) = Len(u)}
<1>1. <<>> \in T
  <2>1. <<>> \in Seq(DeadRecords) /\ Len(<<>>) = 0
    OBVIOUS
  <2> QED
    BY <2>1, PairsFacts, FS_EmptySet
<1>2. ASSUME NEW u \in Seq(DeadRecords), NEW r \in DeadRecords, u \in T
      PROVE  Append(u, r) \in T
  <2>1. PICK v, n : v = Append(u, r) /\ n = Len(u)
    OBVIOUS
  <2>2. /\ v \in Seq(DeadRecords) /\ n \in Nat /\ Len(v) = n + 1
        /\ \A i \in 1..n : v[i] = u[i]
        /\ v[n + 1] = r
    BY <2>1
  <2>3. SUFFICES ASSUME ~Twice(v) PROVE Cardinality(Pairs(v)) = n + 1
    BY <2>1, <2>2
  <2>4. ~Twice(u)
    BY <2>1, <2>2, <2>3 DEF Twice
  <2>5. Cardinality(Pairs(u)) = n
    BY <1>2, <2>1, <2>4
  <2>6. <<r.id, r.trigger>> \notin Pairs(u)
    <3>1. SUFFICES ASSUME <<r.id, r.trigger>> \in Pairs(u) PROVE FALSE
      OBVIOUS
    <3>2. PICK x \in Range(u) : x.id = r.id /\ x.trigger = r.trigger
      BY <3>1, PairsFacts
    <3>3. PICK i \in 1..n : x = u[i]
      BY <2>1, RangeEquality
    <3>4. /\ i \in 1..Len(v) /\ n + 1 \in 1..Len(v) /\ i < n + 1
      BY <2>2
    <3>5. v[i].id = v[n + 1].id /\ v[i].trigger = v[n + 1].trigger
      BY <2>2, <3>2, <3>3
    <3> QED
      BY <2>3, <3>4, <3>5 DEF Twice
  <2>7. Pairs(v) = Pairs(u) \cup {<<r.id, r.trigger>>}
    BY <2>1, PairsFacts
  <2>8. IsFiniteSet(Pairs(u))
    BY PairsFinite
  <2>9. Cardinality(Pairs(u) \cup {<<r.id, r.trigger>>}) = n + 1
    BY <2>5, <2>6, <2>8, FS_AddElement
  <2> QED
    BY <2>7, <2>9
<1> HIDE DEF T
<1>3. q \in T
  BY <1>1, <1>2, SeqInduction
<1> QED
  BY <1>3 DEF T

(* Where each trigger has a name of its own, a completed retry reports how *)
(* many of the pairs it drained are back in the queue and how many are     *)
(* not, and the two partition the drained records where no pair was        *)
(* drained twice.                                                          *)
THEOREM ReportIsTruthful ==
    ASSUME DistinctNames PROVE Spec => []RetryReportMatchesQueue
<1>1. Base /\ Safe => RetryReportMatchesQueue
  <2>1. SUFFICES ASSUME Base, Safe, RetryDone PROVE RetryReportMatchesQueue
    BY DEF RetryReportMatchesQueue
  <2>2. PICK p : p = task[Operator]
    OBVIOUS
  <2>3. p.kind = "retry" /\ p.todo = <<>>
    BY <2>1, <2>2 DEF RetryDone
  <2>4. Done(p) = Pairs(p.drained)
    BY <2>3, RangeFacts DEF Done
  <2>5. /\ p.report.stillFailed = Cardinality(Done(p) \cap Pairs(queue))
        /\ p.report.recovered = Cardinality(Done(p) \ Pairs(queue))
    BY <2>1, <2>2, <2>3 DEF Safe, RetryOK, RetryFine
  <2>6. PICK A, B : A = Pairs(p.drained) /\ B = Pairs(queue)
    OBVIOUS
  <2>7. p.drained \in Seq(DeadRecords)
    BY <2>1, <2>2, BaseFacts, PassFields
  <2>8. Cardinality(A \ B) + Cardinality(A \cap B) = Cardinality(A)
    <3>1. IsFiniteSet(A)
      BY <2>6, <2>7, PairsFinite
    <3>2. /\ Cardinality(A \ B) = Cardinality(A) - Cardinality(A \cap B)
      BY <3>1, FS_Difference
    <3>3. Cardinality(A) \in Nat /\ Cardinality(A \cap B) \in Nat
      BY <3>1, FS_Intersection, FS_CardinalityType
    <3> QED
      BY <3>2, <3>3
  <2>9. ~Twice(p.drained) => Cardinality(A) = Len(p.drained)
    BY <2>6, <2>7, OnceEach
  <2> QED
    BY <2>2, <2>4, <2>5, <2>6, <2>8, <2>9 DEF RetryReportMatchesQueue
<1> QED
  BY <1>1, Invariance, PTL
=============================================================================
