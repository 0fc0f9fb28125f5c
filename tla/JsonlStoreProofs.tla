-------------------------- MODULE JsonlStoreProofs --------------------------
(***************************************************************************)
(* Proofs about JsonlStore, for any records, failing calls, deaths of the  *)
(* process and power losses, and for a path with or without a directory:   *)
(* what was acknowledged is read back, what was removed is not, memory and *)
(* file agree, and the whole implements DurableLog.                        *)
(***************************************************************************)
EXTENDS JsonlStore, RetentionLemmas

Operations ==
    [at : {"idle", "created", "writing", "written", "truncated", "copied",
           "renamed", "named"},
     arg : Seq(Records)]

(* The records that a file holds, and their sequence as if its tail were   *)
(* readable.                                                               *)
Seen(f) == (Range(f.lines) \cup {f.tail}) \cap Records
Whole(f) == IF f.tail \in Records THEN Append(f.lines, f.tail) ELSE f.lines

(* s is in the order of u.                                                 *)
Ordered(u, s) == s = Filter(u, Range(s))

(* What f must be when u was appended, a acknowledged and l is leaving:    *)
(* readable up to its tail, in order, and with all of a, or with all of it *)
(* but l and with nothing of l.                                            *)
Kept(a, l, f) ==
    a \subseteq Seen(f) \/ (a \ l \subseteq Seen(f) /\ l \cap Seen(f) = {})
Good(u, a, l, f) ==
    Bad \notin Range(f.lines) /\ Ordered(u, Whole(f)) /\ Kept(a, l, f)

(* What the operation that holds the mutex has done so far.                *)
OperationOK ==
    /\ file \in inode
    /\ op.at = "idle" => op = Idle
    /\ op.at = "created" => file = Empty /\ inode = {Empty} /\ records = <<>>
    /\ (op.at = "truncated" /\ handle = "path") => file = Empty
    /\ op.at \in {"copied", "renamed", "named"} =>
          op.arg = Filter(records, Range(op.arg))
    /\ op.at \in {"renamed", "named"} =>
          file = Content(op.arg) /\ inode = {file} /\ handle = "orphan"

(* The record being appended is the last of all and new to everything.     *)
AppendOK ==
    op.at \in {"writing", "written"} =>
        \E r \in Records, o \in Seq(Records) :
           /\ op.arg = <<r>> /\ used = Append(o, r) /\ r \notin Range(o)
           /\ acked \cup gone \cup Range(records) \subseteq Range(o)
           /\ op.at = "writing" =>
                 \A f \in inode \cup stale : Seen(f) \subseteq Range(o)

(* Outside a creation and a compaction the name is durable, or the store   *)
(* is known to be at risk; a missing file is empty.                        *)
NameOK ==
    /\ (/\ up /\ op.at \notin {"created", "renamed"}
        /\ damage \cap {"unnamed", "orphaned"} = {}) => stale = {}
    /\ (~up /\ stale # {}) => ~HasParent \/ kills > 0 \/ faults > 0
    /\ \A f \in inode \cup stale : f.tail = NoFile => f = Missing

UsedOK ==
    /\ Range(records) \subseteq Range(used)
    /\ \A f \in inode \cup stale : Seen(f) \subseteq Range(used)

GoneOK ==
    damage \cap {"orphaned", "forgotten"} = {} =>
        /\ gone \cap Range(records) = {}
        /\ \A f \in Left : gone \cap Seen(f) = {}

(* In a store that was never damaged, every content that a stop may leave  *)
(* is good, and so is the memory.                                          *)
CleanOK ==
    damage \subseteq {"unnamed"} =>
        /\ \A f \in Left : Good(used, acked, Leaving, f)
        /\ Ordered(used, records)
        /\ IF up THEN acked \subseteq Range(records) ELSE file.tail # Cut
        /\ (up /\ op.at \in {"idle", "created", "writing", "written",
                             "copied"}) => Range(records) \subseteq Seen(file)
        /\ op.at = "written" =>
              file.tail = NoTail /\ op.arg[1] \in Range(file.lines)

Inductive ==
    TypeOK /\ OperationOK /\ AppendOK /\ NameOK /\ UsedOK /\ GoneOK /\ CleanOK
-----------------------------------------------------------------------------
(* Reading and extending a file.                                           *)

(* The special lines and tails are no records, and differ.                 *)
LEMMA Markers ==
    /\ Bad \notin Records /\ NoTail \notin Records
    /\ Torn \notin Records /\ Cut \notin Records /\ NoFile \notin Records
    /\ NoTail # Torn /\ NoTail # Cut /\ Torn # Cut
    /\ NoFile # NoTail /\ NoFile # Torn /\ NoFile # Cut
BY JsonlStoreAssumption DEF Bad, NoTail, Torn, Cut, NoFile

(* Filtering by all the elements, or by sets that agree on them.           *)
LEMMA FilterByRange ==
    ASSUME NEW X, NEW s \in Seq(X), NEW S
    PROVE  /\ Range(s) \subseteq S => Filter(s, S) = s
           /\ \A S2 : S \cap Range(s) = S2 \cap Range(s) =>
                 Filter(s, S) = Filter(s, S2)
<1>1. Range(s) = {s[i] : i \in 1..Len(s)}
  BY RangeEquality
<1>2. ASSUME Range(s) \subseteq S PROVE Filter(s, S) = s
  <2>1. \A i \in 1..Len(s) : s[i] \in S
    BY <1>1, <1>2
  <2> QED
    BY <2>1, FilterAll
<1>3. ASSUME NEW S2, S \cap Range(s) = S2 \cap Range(s)
      PROVE  Filter(s, S) = Filter(s, S2)
  <2>1. \A i \in 1..Len(s) : s[i] \in S <=> s[i] \in S2
    BY <1>1, <1>3
  <2> QED
    BY <2>1, FilterSame
<1> QED
  BY <1>2, <1>3

(* Nothing is left of a sequence of which no element is asked for.         *)
LEMMA FilterNone ==
    ASSUME NEW X, NEW s \in Seq(X), NEW S, S \cap Range(s) = {}
    PROVE  Filter(s, S) = <<>>
<1>1. PICK f : f = Filter(s, S)
  OBVIOUS
<1>2. f \in Seq(X) /\ Range(f) = {}
  BY <1>1, FilterRange
<1>3. f # <<>> => Len(f) \in Nat \ {0}
  BY <1>2, EmptySeq
<1>4. f # <<>> => 1 \in DOMAIN f
  BY <1>2, <1>3, LenProperties
<1> QED
  BY <1>1, <1>2, <1>4 DEF Range

(* The lines of a file without a bad one are records.                      *)
LEMMA GoodLines ==
    ASSUME NEW s \in Seq(Records \cup {Bad}), Bad \notin Range(s)
    PROVE  s \in Seq(Records)
<1>1. Range(s) \subseteq Records
  BY RangeOfSeq
<1> QED
  BY <1>1, SeqOfRange, SeqMonotonic

(* Filtering twice is filtering by both sets.                              *)
LEMMA FilterFilter ==
    ASSUME NEW X, NEW s \in Seq(X), NEW A, NEW B
    PROVE  Filter(Filter(s, A), B) = Filter(s, A \cap B)
<1> DEFINE T == {t \in Seq(X) : Filter(Filter(t, A), B) = Filter(t, A \cap B)}
<1>1. <<>> \in T
  BY FilterEmpty
<1>2. ASSUME NEW t \in Seq(X), NEW x \in X, t \in T
      PROVE  Append(t, x) \in T
  <2>1. Filter(Filter(t, A), B) = Filter(t, A \cap B)
    BY <1>2
  <2>2. /\ Filter(Append(t, x), A) =
              IF x \in A THEN Append(Filter(t, A), x) ELSE Filter(t, A)
        /\ Filter(Append(t, x), A \cap B) =
              IF x \in A \cap B THEN Append(Filter(t, A \cap B), x)
                              ELSE Filter(t, A \cap B)
    BY FilterAppend
  <2>3. Filter(t, A) \in Seq(X)
    BY FilterType
  <2>4. Filter(Append(Filter(t, A), x), B) =
           IF x \in B THEN Append(Filter(Filter(t, A), B), x)
                     ELSE Filter(Filter(t, A), B)
    BY <2>3, FilterAppend
  <2>5. Filter(Filter(Append(t, x), A), B) = Filter(Append(t, x), A \cap B)
    <3>1. CASE x \notin A
      <4>1. /\ Filter(Append(t, x), A) = Filter(t, A)
            /\ Filter(Append(t, x), A \cap B) = Filter(t, A \cap B)
        BY <2>2, <3>1
      <4> QED
        BY <2>1, <4>1
    <3>2. CASE x \in A
      <4>1. Filter(Append(t, x), A) = Append(Filter(t, A), x)
        BY <2>2, <3>2
      <4>2. x \in A \cap B <=> x \in B
        BY <3>2
      <4> QED
        BY <2>1, <2>2, <2>4, <4>1, <4>2
    <3> QED
      BY <3>1, <3>2
  <2>6. Append(t, x) \in Seq(X)
    OBVIOUS
  <2> QED
    BY <2>5, <2>6
<1>3. Seq(X) \subseteq T
  <2> HIDE DEF T
  <2> QED
    BY <1>1, <1>2, SeqInduction
<1> QED
  BY <1>3

(* Order: a part of what is in order is, what is in order stays so when u  *)
(* grows, a new record goes to the end of both, and two sequences in order *)
(* agree on what they share.                                               *)
LEMMA OrderedFacts ==
    ASSUME NEW u \in Seq(Records)
    PROVE  /\ Ordered(u, <<>>)
           /\ \A s \in Seq(Records) : \A S :
                 Ordered(u, s) => Ordered(u, Filter(s, S))
           /\ \A s \in Seq(Records), r \in Records :
                 Ordered(u, s) /\ r \notin Range(s) => Ordered(Append(u, r), s)
           /\ \A s, t \in Seq(Records) : Ordered(u, s) /\ Ordered(u, t) =>
                 Filter(s, Range(t)) = Filter(t, Range(s))
<1>1. Ordered(u, <<>>)
  <2>1. Range(<<>>) = {} /\ {} \cap Range(u) = {}
    BY RangeFacts
  <2>2. Filter(u, {}) = <<>>
    BY <2>1, FilterNone
  <2> QED
    BY <2>1, <2>2 DEF Ordered
<1>2. ASSUME NEW s \in Seq(Records), NEW S, Ordered(u, s)
      PROVE  Ordered(u, Filter(s, S))
  <2>1. Range(Filter(s, S)) = Range(s) \cap S
    BY FilterRange
  <2>2. Filter(Filter(u, Range(s)), S) = Filter(u, Range(s) \cap S)
    BY FilterFilter
  <2> QED
    BY <1>2, <2>1, <2>2 DEF Ordered
<1>3. ASSUME NEW s \in Seq(Records), NEW r \in Records, Ordered(u, s),
             r \notin Range(s)
      PROVE  Ordered(Append(u, r), s)
  <2>1. Filter(Append(u, r), Range(s)) = Filter(u, Range(s))
    BY <1>3, FilterAppend
  <2> QED
    BY <1>3, <2>1 DEF Ordered
<1>4. ASSUME NEW s \in Seq(Records), NEW t \in Seq(Records),
             Ordered(u, s), Ordered(u, t)
      PROVE  Filter(s, Range(t)) = Filter(t, Range(s))
  <2>1. /\ Filter(Filter(u, Range(s)), Range(t)) = Filter(u, Range(s) \cap Range(t))
        /\ Filter(Filter(u, Range(t)), Range(s)) = Filter(u, Range(t) \cap Range(s))
    BY FilterFilter
  <2>2. Range(s) \cap Range(t) = Range(t) \cap Range(s)
    OBVIOUS
  <2> QED
    BY <1>4, <2>1, <2>2 DEF Ordered
<1> QED
  BY <1>1, <1>2, <1>3, <1>4

(* A new record at the end of both.                                        *)
LEMMA OrderedAppend ==
    ASSUME NEW o \in Seq(Records), NEW s \in Seq(Records), NEW r \in Records,
           Ordered(Append(o, r), s), r \notin Range(o), Range(s) \subseteq Range(o)
    PROVE  Ordered(Append(o, r), Append(s, r))
<1>1. Range(Append(s, r)) = Range(s) \cup {r}
  BY RangeFacts
<1>2. Filter(Append(o, r), Range(s)) = Filter(o, Range(s))
  BY FilterAppend
<1>3. Filter(Append(o, r), Range(s) \cup {r}) =
         Append(Filter(o, Range(s) \cup {r}), r)
  <2>1. PICK S : S = Range(s) \cup {r}
    OBVIOUS
  <2>2. r \in S
    BY <2>1
  <2>3. Filter(Append(o, r), S) = Append(Filter(o, S), r)
    BY <2>2, FilterAppend
  <2> QED
    BY <2>1, <2>3
<1>4. (Range(s) \cup {r}) \cap Range(o) = Range(s) \cap Range(o)
  OBVIOUS
<1>5. Filter(o, Range(s) \cup {r}) = Filter(o, Range(s))
  BY <1>4, FilterByRange
<1> QED
  BY <1>1, <1>2, <1>3, <1>5 DEF Ordered

(* What reading a file returns: an error exactly for a bad line or a tail  *)
(* that is not UTF-8, and else the records the file holds.                 *)
LEMMA ReadBackFacts ==
    ASSUME NEW f \in Files
    PROVE  /\ ReadBack(f) # Error <=> f.tail # Cut /\ Bad \notin Range(f.lines)
           /\ ReadBack(f) # Error => /\ ReadBack(f) \in Seq(Records)
                                     /\ f.lines \in Seq(Records)
                                     /\ ReadBack(f) = Whole(f)
                                     /\ Range(ReadBack(f)) = Seen(f)
<1>1. /\ f.lines \in Seq(Records \cup {Bad})
      /\ f.tail \in Records \cup {NoTail, Torn, Cut, NoFile}
  BY DEF Files
<1>2. CASE f.tail = Cut \/ Bad \in Range(f.lines)
  BY <1>2 DEF ReadBack
<1>3. CASE ~(f.tail = Cut \/ Bad \in Range(f.lines))
  <2>1. f.lines \in Seq(Records)
    BY <1>1, <1>3, GoodLines
  <2>2. Error \notin Seq(Records)
    <3>1. Range(Error) = {Bad}
      BY RangeFacts DEF Error
    <3> QED
      BY <3>1, RangeOfSeq, Markers
  <2>3. Range(f.lines) \subseteq Records
    BY <2>1, RangeOfSeq
  <2>4. CASE f.tail \notin Records
    <3>1. ReadBack(f) = f.lines
      BY <1>3, <2>4 DEF ReadBack
    <3> QED
      BY <1>3, <2>1, <2>2, <2>3, <2>4, <3>1, Markers DEF Seen, Whole
  <2>5. CASE f.tail \in Records
    <3>1. ReadBack(f) = Append(f.lines, f.tail) /\ f.tail \in Records
      BY <1>1, <1>3, <2>5 DEF ReadBack
    <3>2. /\ Append(f.lines, f.tail) \in Seq(Records)
          /\ Range(Append(f.lines, f.tail)) = Range(f.lines) \cup {f.tail}
      BY <2>1, <3>1, AppendProperties, RangeFacts
    <3> QED
      BY <1>3, <2>1, <2>2, <2>3, <3>1, <3>2 DEF Seen, Whole
  <2> QED
    BY <2>4, <2>5
<1> QED
  BY <1>2, <1>3

(* A file without a tail.                                                  *)
LEMMA ContentFacts ==
    /\ \A s \in Seq(Records \cup {Bad}) : Content(s) \in Files
    /\ \A s : /\ Seen(Content(s)) = Range(s) \cap Records
              /\ Content(s).lines = s /\ Content(s).tail = NoTail
    /\ \A s \in Seq(Records) : /\ Content(s) \in Files
                               /\ Seen(Content(s)) = Range(s)
                               /\ Bad \notin Range(s)
                               /\ ReadBack(Content(s)) = s
    /\ Empty \in Files /\ Seen(Empty) = {}
<1>1. ASSUME NEW s \in Seq(Records \cup {Bad}) PROVE Content(s) \in Files
  BY DEF Content, Files
<1>2. ASSUME NEW s
      PROVE  /\ Seen(Content(s)) = Range(s) \cap Records
             /\ Content(s).lines = s /\ Content(s).tail = NoTail
  BY Markers DEF Content, Seen
<1>3. ASSUME NEW s \in Seq(Records)
      PROVE  /\ Content(s) \in Files
             /\ Seen(Content(s)) = Range(s)
             /\ Bad \notin Range(s)
             /\ ReadBack(Content(s)) = s
  <2>1. s \in Seq(Records \cup {Bad})
    BY SeqMonotonic
  <2>2. Range(s) \subseteq Records
    BY RangeOfSeq
  <2> QED
    <3>3. Range(s) \cap Records = Range(s)
      BY <2>2
    <3>1. /\ Content(s) \in Files /\ Seen(Content(s)) = Range(s)
          /\ Bad \notin Range(s)
      BY <1>1, <1>2, <2>1, <2>2, <3>3, Markers
    <3>2. ReadBack(Content(s)) = s
      BY <1>2, <3>1, Markers DEF ReadBack
    <3> QED
      BY <3>1, <3>2
<1>4. <<>> \in Seq(Records)
  OBVIOUS
<1> QED
  BY <1>1, <1>2, <1>3, <1>4, RangeFacts DEF Empty

(* What a write, whole or partial, makes of a file.                        *)
LEMMA WriteFacts ==
    ASSUME NEW f \in Files, f.tail # NoFile, NEW r \in Records,
           NEW g \in Partly(f, r) \cup {Extend(f, r)}
    PROVE  /\ g \in Files /\ g.tail # NoFile
           /\ Seen(g) \subseteq Seen(f) \cup {r}
           /\ f.tail = NoTail =>
                 /\ Whole(f) = f.lines
                 /\ Seen(f) \subseteq Seen(g)
                 /\ Bad \notin Range(f.lines) => Bad \notin Range(g.lines)
                 /\ Whole(g) = f.lines \/ Whole(g) = Append(f.lines, r)
           /\ (f.tail = NoTail /\ g = Extend(f, r)) =>
                 g.tail = NoTail /\ r \in Range(g.lines)
<1>1. f.lines \in Seq(Records \cup {Bad}) /\ f = [lines |-> f.lines, tail |-> f.tail]
  BY DEF Files
<1>2. CASE g = f
  BY <1>2, Markers, <1>1, AppendProperties DEF Whole, Extend, Content
<1>3. CASE g \in Broken(f)
  <2>1. PICK t \in {Torn, Cut} : g = [f EXCEPT !.tail = t]
    BY <1>3 DEF Broken
  <2>2. g = [lines |-> f.lines, tail |-> t]
    BY <1>1, <2>1
  <2>3. g.lines = f.lines /\ g.tail = t /\ g \in Files
    BY <1>1, <2>2 DEF Files
  <2>4. g # Extend(f, r)
    BY <2>1, <2>3, Markers DEF Extend, Content
  <2> QED
    BY <2>1, <2>3, <2>4, Markers DEF Seen, Whole
<1>4. CASE f.tail = NoTail /\ g = [f EXCEPT !.tail = r]
  <2>2. g = [lines |-> f.lines, tail |-> r]
    BY <1>1, <1>4
  <2>3. g.lines = f.lines /\ g.tail = r /\ g \in Files
    BY <1>1, <2>2 DEF Files
  <2>4. g # Extend(f, r)
    BY <2>3, Markers DEF Extend, Content
  <2> QED
    BY <1>4, <2>3, <2>4, Markers DEF Seen, Whole
<1>5. CASE g = Extend(f, r)
  <2>1. PICK x : x = IF f.tail = NoTail THEN r ELSE Bad
    OBVIOUS
  <2>2. /\ Append(f.lines, x) \in Seq(Records \cup {Bad})
        /\ Range(Append(f.lines, x)) = Range(f.lines) \cup {x}
    BY <1>1, <2>1, AppendProperties, RangeFacts
  <2>3. g = Content(Append(f.lines, x))
    BY <1>5, <2>1 DEF Extend
  <2>4. g \in Files /\ g.lines = Append(f.lines, x) /\ g.tail = NoTail
    BY <2>2, <2>3, ContentFacts
  <2>5. Seen(g) = (Range(f.lines) \cup {x}) \cap Records
    BY <2>2, <2>3, ContentFacts
  <2> QED
    BY <2>1, <2>2, <2>4, <2>5, Markers DEF Seen, Whole
<1> QED
  BY <1>2, <1>3, <1>4, <1>5 DEF Partly

-----------------------------------------------------------------------------
(* The inductive invariant.                                                *)

(* The types of the parts of the state.                                    *)
LEMMA Types ==
    ASSUME TypeOK
    PROVE  /\ file \in Files /\ file.lines \in Seq(Records \cup {Bad})
           /\ op \in Operations /\ op.arg \in Seq(Records)
           /\ Range(records) \subseteq Records /\ Range(op.arg) \subseteq Records
           /\ Idle \in Operations /\ Idle.at = "idle" /\ Idle.arg = <<>>
           /\ op = Idle => op.at = "idle"
           /\ op.at # "idle" => up
<1>1. op \in Operations /\ file \in Files
  BY DEF TypeOK, Operations
<1>2. op.arg \in Seq(Records)
  BY <1>1 DEF Operations
<1>3. Range(records) \subseteq Records /\ Range(op.arg) \subseteq Records
  BY <1>2, RangeOfSeq DEF TypeOK
<1>4. <<>> \in Seq(Records)
  OBVIOUS
<1>5. Idle \in Operations /\ Idle.at = "idle" /\ Idle.arg = <<>>
  BY <1>4 DEF Idle, Operations
<1>6. op.at # "idle" => up
  BY <1>5 DEF TypeOK
<1> QED
  BY <1>1, <1>2, <1>3, <1>5, <1>6 DEF Files

(* The files that there are before any record.                             *)
LEMMA EmptyFacts ==
    /\ Empty \in Files /\ Empty.lines = <<>> /\ Empty.tail = NoTail
    /\ Missing \in Files /\ Missing.lines = <<>> /\ Missing.tail = NoFile
    /\ Seen(Empty) = {} /\ Seen(Missing) = {}
    /\ Whole(Empty) = <<>> /\ Whole(Missing) = <<>>
    /\ \A u \in Seq(Records) : \A a, l : a \subseteq l =>
          Good(u, a, l, Empty) /\ Good(u, a, l, Missing)
<1>1. Range(<<>>) = {} /\ <<>> \in Seq(Records \cup {Bad})
  BY RangeFacts
<1>2. /\ Empty \in Files /\ Empty.lines = <<>> /\ Empty.tail = NoTail
      /\ Missing \in Files /\ Missing.lines = <<>> /\ Missing.tail = NoFile
  BY <1>1 DEF Empty, Content, Missing, Files
<1>3. /\ Seen(Empty) = {} /\ Seen(Missing) = {}
      /\ Whole(Empty) = <<>> /\ Whole(Missing) = <<>>
  BY <1>1, <1>2, Markers DEF Seen, Whole
<1>4. ASSUME NEW u \in Seq(Records), NEW a, NEW l, a \subseteq l
      PROVE  Good(u, a, l, Empty) /\ Good(u, a, l, Missing)
  <2>1. Ordered(u, <<>>)
    BY OrderedFacts
  <2> QED
    BY <1>1, <1>2, <1>3, <1>4, <2>1 DEF Good, Kept
<1> QED
  BY <1>2, <1>3, <1>4

(* The invariant holds before the first open.                              *)
LEMMA InitInductive == Init => Inductive
<1>1. SUFFICES ASSUME Init PROVE Inductive
  OBVIOUS
<1>2. Range(<<>>) = {} /\ <<>> \in Seq(Records)
  BY RangeFacts
<1>3. TypeOK
  <2>1. 0 \in 0..MaxFaults /\ 0 \in 0..MaxKills /\ 0 \in 0..MaxLosses
    BY JsonlStoreAssumption
  <2>2. Idle \in [at : {"idle", "created", "writing", "written", "truncated",
                        "copied", "renamed", "named"},
                  arg : Seq(Records)]
    BY <1>2 DEF Idle
  <2> QED
    BY <1>1, <1>2, <2>1, <2>2, EmptyFacts DEF Init, TypeOK
<1>4. op.at = "idle" /\ Leaving = {}
  BY <1>1 DEF Init, Idle, Leaving
<1>5. OperationOK /\ AppendOK /\ NameOK
  BY <1>1, <1>4 DEF Init, OperationOK, AppendOK, NameOK
<1>6. Left = {Missing}
  BY <1>1 DEF Init, Left
<1>7. UsedOK /\ GoneOK
  BY <1>1, <1>2, <1>6, EmptyFacts DEF Init, UsedOK, GoneOK
<1>8. CleanOK
  <2>1. Good(used, acked, Leaving, Missing)
    BY <1>1, <1>2, <1>4, EmptyFacts DEF Init
  <2>2. Ordered(used, records)
    BY <1>1, <1>2, OrderedFacts DEF Init
  <2> QED
    BY <1>1, <1>4, <1>6, <2>1, <2>2, EmptyFacts, Markers DEF Init, CleanOK
<1> QED
  BY <1>3, <1>5, <1>7, <1>8 DEF Inductive

(* A failing call is counted within its bound.                             *)
LEMMA FaultCounted ==
    ASSUME TypeOK, NEW kind, Fault(kind)
    PROVE  faults' \in 0..MaxFaults /\ faults' > 0
BY JsonlStoreAssumption DEF TypeOK, Fault

(* Opening the store reads back what the file holds and changes nothing on *)
(* disk; a name that is not durable is now relied upon.                    *)
LEMMA OpenStep ==
    ASSUME Inductive, Open
    PROVE  Inductive'
<1> USE DEF Inductive
<1>1. /\ ~up /\ op = Idle /\ op.at = "idle" /\ ReadBack(file) # Error
      /\ file.tail # NoFile /\ records' = ReadBack(file) /\ up' = TRUE
      /\ damage' = IF stale = {} THEN damage ELSE damage \cup {"unnamed"}
      /\ UNCHANGED <<file, inode, stale, handle, op, used, acked, gone, faults,
                     kills, losses>>
  BY Types DEF Open, TypeOK, disk, counters
<1>2. PICK s : s = ReadBack(file)
  OBVIOUS
<1>3. /\ s \in Seq(Records) /\ Range(s) = Seen(file) /\ s = Whole(file)
  BY <1>1, <1>2, ReadBackFacts, Types
<1>4. Left' \subseteq Left /\ file \in Left
  BY <1>1 DEF Left, OperationOK
<1>5. TypeOK'
  <2>1. stale # {} => ~HasParent \/ kills > 0 \/ faults > 0
    BY <1>1 DEF NameOK
  <2> QED
    BY <1>1, <1>2, <1>3, <2>1 DEF TypeOK
<1>6. OperationOK' /\ AppendOK' /\ NameOK'
  BY <1>1 DEF OperationOK, AppendOK, NameOK
<1>7. UsedOK'
  BY <1>1, <1>2, <1>3 DEF UsedOK, OperationOK
<1>8. GoneOK'
  BY <1>1, <1>2, <1>3, <1>4 DEF GoneOK
<1>9. CleanOK'
  <2>1. SUFFICES ASSUME damage' \subseteq {"unnamed"} PROVE CleanOK'
    BY DEF CleanOK
  <2>2. Leaving = {} /\ Leaving' = {}
    BY <1>1 DEF Leaving
  <2>3. damage \subseteq {"unnamed"}
    BY <1>1, <2>1
  <2>4. /\ \A f \in Left : Good(used, acked, {}, f)
        /\ Good(used, acked, {}, file)
    BY <1>4, <2>2, <2>3 DEF CleanOK
  <2>5. Ordered(used, s) /\ acked \subseteq Range(s)
    BY <1>3, <2>4 DEF Good, Kept
  <2> QED
    BY <1>1, <1>2, <1>3, <1>4, <2>2, <2>4, <2>5 DEF CleanOK
<1> QED
  BY <1>5, <1>6, <1>7, <1>8, <1>9

(* A new file is empty, and may be gone again after a power loss.          *)
LEMMA CreateStep ==
    ASSUME Inductive, Create
    PROVE  Inductive'
<1> USE DEF Inductive
<1>1. /\ ~up /\ op = Idle /\ op.at = "idle" /\ records = <<>>
      /\ file.tail = NoFile /\ up' = TRUE
      /\ file' = Empty /\ inode' = {Empty} /\ stale' = {Missing}
      /\ op' = [at |-> "created", arg |-> <<>>]
      /\ UNCHANGED <<records, handle, used, acked, gone, damage, faults, kills,
                     losses>>
  BY Types DEF Create, TypeOK, counters
<1>2. op'.at = "created" /\ op'.arg = <<>> /\ op' \in Operations
  BY <1>1 DEF Operations
<1>3. file = Missing /\ file \in Left
  BY <1>1 DEF NameOK, OperationOK, Left
<1>4. Left' \subseteq {Empty, Missing}
  BY <1>1 DEF Left
<1>5. TypeOK'
  BY <1>1, <1>2, EmptyFacts, Markers DEF TypeOK, Operations
<1>6. OperationOK' /\ AppendOK' /\ NameOK'
  <2>1. OperationOK' /\ AppendOK'
    BY <1>1, <1>2 DEF OperationOK, AppendOK
  <2>2. NameOK'
    BY <1>1, <1>2, EmptyFacts, Markers DEF NameOK
  <2> QED
    BY <2>1, <2>2
<1>7. UsedOK' /\ GoneOK'
  BY <1>1, <1>4, EmptyFacts DEF UsedOK, GoneOK
<1>8. CleanOK'
  <2>1. SUFFICES ASSUME damage \subseteq {"unnamed"} PROVE CleanOK'
    BY <1>1 DEF CleanOK
  <2>2. Leaving = {} /\ Leaving' = {}
    BY <1>1, <1>2 DEF Leaving
  <2>3. acked = {}
    BY <1>3, <2>1, <2>2, EmptyFacts DEF CleanOK, Good, Kept
  <2>4. Good(used, {}, {}, Empty) /\ Good(used, {}, {}, Missing)
    BY EmptyFacts DEF TypeOK
  <2> QED
    BY <1>1, <1>2, <1>4, <2>1, <2>2, <2>3, <2>4, RangeFacts DEF CleanOK
<1> QED
  BY <1>5, <1>6, <1>7, <1>8

(* The directory is synced, or the path has none and the name is relied    *)
(* upon without.                                                           *)
LEMMA CreateSyncDirStep ==
    ASSUME Inductive, CreateSyncDir
    PROVE  Inductive'
<1> USE DEF Inductive
<1>1. /\ op.at = "created" /\ up /\ op' = Idle /\ op'.at = "idle"
      /\ stale' = (IF HasParent THEN {} ELSE stale)
      /\ damage' = (IF HasParent THEN damage ELSE damage \cup {"unnamed"})
      /\ UNCHANGED <<up, records, file, inode, handle, used, acked, gone,
                     faults, kills, losses>>
  BY Types DEF CreateSyncDir, SyncParentDir, counters
<1>2. Left' \subseteq Left /\ stale' \subseteq stale
  BY <1>1 DEF Left
<1>3. TypeOK'
  BY <1>1, Types DEF TypeOK, Operations
<1>4. OperationOK' /\ AppendOK' /\ NameOK'
  BY <1>1, <1>2 DEF OperationOK, AppendOK, NameOK
<1>5. UsedOK' /\ GoneOK'
  BY <1>1, <1>2 DEF UsedOK, GoneOK
<1>6. CleanOK'
  <2>1. Leaving = {} /\ Leaving' = {}
    BY <1>1 DEF Leaving
  <2> QED
    BY <1>1, <1>2, <2>1 DEF CleanOK
<1> QED
  BY <1>3, <1>4, <1>5, <1>6

(* Opening fails when the directory cannot be synced; the file stays.      *)
LEMMA CreateFailsStep ==
    ASSUME Inductive, CreateFails
    PROVE  Inductive'
<1> USE DEF Inductive
<1>1. /\ op.at = "created" /\ up /\ op' = Idle /\ op'.at = "idle"
      /\ up' = FALSE /\ records = <<>>
      /\ UNCHANGED <<records, file, inode, stale, handle, used, acked, gone,
                     damage, kills, losses>>
      /\ faults' \in 0..MaxFaults /\ faults' > 0
  BY Types, FaultCounted DEF CreateFails, disk, Fault, OperationOK
<1>2. Left' = Left
  BY <1>1 DEF Left
<1>3. TypeOK'
  BY <1>1, Types DEF TypeOK, Operations
<1>4. OperationOK' /\ AppendOK' /\ NameOK'
  BY <1>1, <1>2 DEF OperationOK, AppendOK, NameOK
<1>5. UsedOK' /\ GoneOK'
  BY <1>1, <1>2 DEF UsedOK, GoneOK
<1>6. CleanOK'
  <2>1. Leaving = {} /\ Leaving' = {}
    BY <1>1 DEF Leaving
  <2>2. file.tail # Cut
    BY <1>1, EmptyFacts, Markers DEF OperationOK
  <2> QED
    BY <1>1, <1>2, <2>1, <2>2 DEF CleanOK
<1> QED
  BY <1>3, <1>4, <1>5, <1>6

(* Whatever removal was under way, what is acknowledged after a stop is in *)
(* every content that was good before it.                                  *)
LEMMA GoodAfterStop ==
    ASSUME NEW u, NEW a, NEW l, NEW f, Good(u, a, l, f)
    PROVE  Good(u, a \ l, {}, f)
BY DEF Good, Kept

(* A power loss leaves one of the contents that it may leave.              *)
LEMMA PowerLossStep ==
    ASSUME Inductive, PowerLoss
    PROVE  Inductive'
<1> USE DEF Inductive
<1>1. PICK f \in inode \cup stale : file' = f
  BY DEF PowerLoss
<1>2. /\ up' = FALSE /\ records' = <<>> /\ handle' = "path" /\ op' = Idle
      /\ acked' = acked \ Leaving /\ inode' = {f} /\ stale' = {}
      /\ damage' = (damage \ {"unnamed"})
                      \cup (IF f.tail = Cut THEN {"cut"} ELSE {})
                      \cup (IF "unnamed" \in damage /\ f \notin inode
                            THEN {"forgotten"} ELSE {})
      /\ losses < MaxLosses /\ losses' = losses + 1
      /\ UNCHANGED <<used, gone, faults, kills>>
  BY <1>1 DEF PowerLoss, Stop, Unreadable
<1>3. op'.at = "idle" /\ Leaving' = {}
  BY <1>2 DEF Idle, Leaving
<1>4. f \in Files
  BY <1>1 DEF TypeOK
<1>5. "forgotten" \notin damage' => f \in Left /\ "forgotten" \notin damage
  BY <1>1, <1>2 DEF Left
<1>6. Left' = {f}
  BY <1>2 DEF Left
<1>7. TypeOK'
  <2>1. losses' \in 0..MaxLosses
    BY <1>2, JsonlStoreAssumption DEF TypeOK
  <2>2. damage' \subseteq {"unnamed", "forgotten", "glued", "cut", "orphaned",
                           "halfdrained"} /\ "unnamed" \notin damage'
    BY <1>2 DEF TypeOK
  <2>3. Idle \in Operations /\ <<>> \in Seq(Records)
    BY Types
  <2>4. Idle' = Idle
    BY DEF Idle
  <2> QED
    BY <1>1, <1>2, <1>4, <2>1, <2>2, <2>3, <2>4 DEF TypeOK, Operations
<1>8. OperationOK' /\ AppendOK' /\ NameOK'
  <2>1. OperationOK' /\ AppendOK'
    BY <1>1, <1>2, <1>3 DEF OperationOK, AppendOK, Idle
  <2>2. NameOK'
    BY <1>1, <1>2 DEF NameOK
  <2> QED
    BY <2>1, <2>2
<1>9. UsedOK'
  BY <1>1, <1>2, RangeFacts DEF UsedOK
<1>10. GoneOK'
  <2>1. SUFFICES ASSUME damage' \cap {"orphaned", "forgotten"} = {} PROVE GoneOK'
    BY DEF GoneOK
  <2>2. damage \cap {"orphaned", "forgotten"} = {} /\ f \in Left
    BY <1>2, <1>5, <2>1
  <2> QED
    BY <1>2, <1>6, <2>2, RangeFacts DEF GoneOK
<1>11. CleanOK'
  <2>1. SUFFICES ASSUME damage' \subseteq {"unnamed"} PROVE CleanOK'
    BY DEF CleanOK
  <2>2. damage \subseteq {"unnamed"} /\ f \in Left
    BY <1>2, <1>5, <2>1
  <2>3. Good(used, acked \ Leaving, {}, f)
    BY <2>2, GoodAfterStop DEF CleanOK
  <2>4. Ordered(used, <<>>)
    BY OrderedFacts DEF TypeOK
  <2>5. file'.tail # Cut
    BY <1>1, <1>2, <2>1
  <2> QED
    BY <1>2, <1>3, <1>6, <2>3, <2>4, <2>5 DEF CleanOK
<1> QED
  BY <1>7, <1>8, <1>9, <1>10, <1>11

(* What an append in progress knows of its record.                         *)
LEMMA Appending ==
    ASSUME Inductive, op.at \in {"writing", "written"}
    PROVE  /\ op.arg[1] \in Records /\ op.arg = <<op.arg[1]>>
           /\ \E o \in Seq(Records) :
                 /\ used = Append(o, op.arg[1]) /\ op.arg[1] \notin Range(o)
                 /\ Range(used) = Range(o) \cup {op.arg[1]}
                 /\ acked \cup gone \cup Range(records) \subseteq Range(o)
                 /\ op.at = "writing" =>
                       \A f \in inode \cup stale : Seen(f) \subseteq Range(o)
<1>1. PICK r \in Records, o \in Seq(Records) :
           /\ op.arg = <<r>> /\ used = Append(o, r) /\ r \notin Range(o)
           /\ acked \cup gone \cup Range(records) \subseteq Range(o)
           /\ op.at = "writing" =>
                 \A f \in inode \cup stale : Seen(f) \subseteq Range(o)
  BY DEF Inductive, AppendOK
<1>2. op.arg[1] = r
  BY <1>1
<1>3. Range(Append(o, r)) = Range(o) \cup {r}
  BY RangeFacts
<1>4. Range(used) = Range(o) \cup {r}
  BY <1>1, <1>3
<1> QED
  BY <1>1, <1>2, <1>4

(* What a write makes of the file shows no more than the record besides,   *)
(* and is good, unless it goes after an unterminated line.                 *)
LEMMA NewContent ==
    ASSUME Inductive, op.at = "writing",
           NEW g \in Partly(file, op.arg[1]) \cup {Extend(file, op.arg[1])}
    PROVE  /\ g \in Files /\ g.tail # NoFile
           /\ Seen(g) \subseteq Range(used)
           /\ damage \cap {"orphaned", "forgotten"} = {} =>
                 gone \cap Seen(g) = {}
           /\ (damage \subseteq {"unnamed"} /\ (file.tail = NoTail \/ g = file)) =>
                 /\ Good(used, acked, {}, g)
                 /\ Range(records) \subseteq Seen(g)
<1> USE DEF Inductive
<1>1. PICK r : r = op.arg[1]
  OBVIOUS
<1>2. r \in Records /\ op.arg = <<r>>
  BY <1>1, Appending
<1>3. PICK o \in Seq(Records) :
         /\ used = Append(o, r) /\ r \notin Range(o)
         /\ Range(used) = Range(o) \cup {r}
         /\ acked \cup gone \cup Range(records) \subseteq Range(o)
         /\ \A f \in inode \cup stale : Seen(f) \subseteq Range(o)
  BY <1>1, Appending
<1>4. up /\ file \in Files /\ file.tail # NoFile /\ file \in inode /\ file \in Left
  BY Types DEF TypeOK, OperationOK, Left
<1>10. g \in Partly(file, r) \cup {Extend(file, r)}
  BY <1>1
<1>5. /\ g \in Files /\ g.tail # NoFile
      /\ Seen(g) \subseteq Seen(file) \cup {r}
      /\ file.tail = NoTail =>
            /\ Whole(file) = file.lines
            /\ Seen(file) \subseteq Seen(g)
            /\ Bad \notin Range(file.lines) => Bad \notin Range(g.lines)
            /\ Whole(g) = file.lines \/ Whole(g) = Append(file.lines, r)
  BY <1>2, <1>4, <1>10, WriteFacts
<1>6. Seen(file) \subseteq Range(o)
  BY <1>3, <1>4
<1>7. Seen(g) \subseteq Range(used)
  BY <1>3, <1>5, <1>6
<1>8. damage \cap {"orphaned", "forgotten"} = {} => gone \cap Seen(g) = {}
  BY <1>3, <1>4, <1>5 DEF GoneOK
<1>9. ASSUME damage \subseteq {"unnamed"}, file.tail = NoTail \/ g = file
      PROVE  Good(used, acked, {}, g) /\ Range(records) \subseteq Seen(g)
  <2>1. Leaving = {}
    BY DEF Leaving
  <2>2. Good(used, acked, {}, file) /\ Range(records) \subseteq Seen(file)
    BY <1>4, <1>9, <2>1 DEF CleanOK
  <2>3. CASE g = file
    BY <2>2, <2>3
  <2>4. CASE file.tail = NoTail
    <3>1. /\ Bad \notin Range(file.lines) /\ Ordered(used, file.lines)
          /\ acked \subseteq Seen(file)
      BY <1>5, <2>2, <2>4 DEF Good, Kept
    <3>2. file.lines \in Seq(Records) /\ Range(file.lines) \subseteq Range(o)
      <4>1. file.lines \in Seq(Records)
        BY <1>4, <3>1, GoodLines, Types
      <4>2. Range(file.lines) \subseteq Records
        BY <4>1, RangeOfSeq
      <4>3. Range(file.lines) \subseteq Seen(file)
        BY <4>2 DEF Seen
      <4> QED
        BY <1>6, <4>1, <4>3
    <3>3. Ordered(used, Append(file.lines, r))
      BY <1>2, <1>3, <3>1, <3>2, OrderedAppend
    <3>4. Ordered(used, Whole(g))
      BY <1>5, <2>4, <3>1, <3>3
    <3>5. Kept(acked, {}, g)
      BY <1>5, <2>4, <3>1 DEF Kept
    <3> QED
      BY <1>5, <2>2, <2>4, <3>1, <3>4, <3>5 DEF Good
  <2> QED
    BY <1>9, <2>3, <2>4
<1> QED
  BY <1>5, <1>7, <1>8, <1>9

(* The contents that a partial write adds.                                 *)
LEMMA WritesPartly ==
    ASSUME Inductive, op.at = "writing", WritePartly(op.arg[1])
    PROVE  /\ file' \in Partly(file, op.arg[1])
           /\ file' \in inode' /\ inode \subseteq inode'
           /\ \A g \in inode' : g \in inode \/ g \in Partly(file, op.arg[1])
           /\ file' = file => inode' = inode
<1>1. file \in Partly(file, op.arg[1]) /\ Broken(file) \subseteq Partly(file, op.arg[1])
  BY DEF Partly
<1>2. file' \in Partly(file, op.arg[1])
  BY <1>1 DEF WritePartly
<1>3. inode' = inode \cup {file'}
                  \cup (IF file' = file THEN {} ELSE Broken(file))
  BY DEF WritePartly
<1>4. file \in inode
  BY DEF Inductive, OperationOK
<1> QED
  BY <1>1, <1>2, <1>3, <1>4

(* The process dies; what it had written is there for the next one.        *)
LEMMA KillStep ==
    ASSUME Inductive, Kill
    PROVE  Inductive'
<1> USE DEF Inductive
<1>1. /\ up /\ up' = FALSE /\ records' = <<>> /\ handle' = "path" /\ op' = Idle
      /\ acked' = acked \ Leaving
      /\ damage' = damage \cup Glued \cup Unreadable
      /\ kills < MaxKills /\ kills' = kills + 1
      /\ UNCHANGED <<used, gone, faults, stale, losses>>
  BY DEF Kill, Stop
<1>2. op'.at = "idle" /\ Leaving' = {} /\ kills' > 0 /\ kills' \in 0..MaxKills
  BY <1>1, JsonlStoreAssumption DEF Idle, Leaving, TypeOK
<1>3. PICK f : f = file'
  OBVIOUS
<1>4. PICK I : I = inode'
  OBVIOUS
<1>5. /\ f \in I /\ inode \subseteq I
      /\ \A g \in I : g \in inode \/ (/\ op.at = "writing"
                                      /\ g \in Partly(file, op.arg[1]))
      /\ f = file => I = inode
      /\ f # file => op.at = "writing" /\ f \in Partly(file, op.arg[1])
  <2>1. CASE op.at = "writing"
    BY <1>3, <1>4, <2>1, WritesPartly DEF Kill
  <2>2. CASE op.at # "writing"
    BY <1>3, <1>4, <2>2 DEF Kill, OperationOK
  <2> QED
    BY <2>1, <2>2
<1>6. damage' = damage \cup (IF file.tail # NoTail /\ f # file
                              THEN {"glued"} ELSE {})
                       \cup (IF f.tail = Cut THEN {"cut"} ELSE {})
  BY <1>1, <1>3 DEF Glued, Unreadable
<1>7. Left' = I \cup (IF "unnamed" \in damage THEN {} ELSE stale)
  BY <1>1, <1>4, <1>6 DEF Left
<1>8. \A g \in I : g \in Files /\ (g \notin inode => g.tail # NoFile)
  BY <1>5, NewContent DEF TypeOK
<1>9. TypeOK'
  <2>1. damage' \subseteq {"unnamed", "forgotten", "glued", "cut", "orphaned",
                           "halfdrained"}
    BY <1>6 DEF TypeOK
  <2>2. Idle \in Operations /\ <<>> \in Seq(Records)
    BY Types
  <2>3. Idle' = Idle
    BY DEF Idle
  <2>4. acked' \subseteq Range(used) /\ acked' \cap gone = {}
    BY <1>1 DEF TypeOK
  <2>5. file' \in Files /\ inode' \subseteq Files
    BY <1>3, <1>4, <1>5, <1>8
  <2> QED
    BY <1>1, <1>2, <2>1, <2>2, <2>3, <2>4, <2>5 DEF TypeOK, Operations
<1>10. OperationOK' /\ AppendOK'
  BY <1>1, <1>2, <1>3, <1>4, <1>5 DEF OperationOK, AppendOK, Idle
<1>11. NameOK'
  BY <1>1, <1>2, <1>4, <1>5, <1>8 DEF NameOK
<1>12. UsedOK'
  <2>1. \A g \in I : Seen(g) \subseteq Range(used)
    BY <1>5, NewContent DEF UsedOK
  <2> QED
    BY <1>1, <1>4, <2>1, RangeFacts DEF UsedOK
<1>13. GoneOK'
  <2>1. SUFFICES ASSUME damage' \cap {"orphaned", "forgotten"} = {} PROVE GoneOK'
    BY DEF GoneOK
  <2>2. damage \cap {"orphaned", "forgotten"} = {}
    BY <1>6, <2>1
  <2>3. \A g \in Left : gone \cap Seen(g) = {}
    BY <2>2 DEF GoneOK
  <2>4. \A g \in I : gone \cap Seen(g) = {}
    BY <1>5, <2>2, <2>3, NewContent DEF Left
  <2>5. \A g \in Left' : gone \cap Seen(g) = {}
    BY <1>7, <2>3, <2>4 DEF Left
  <2> QED
    BY <1>1, <2>5, RangeFacts DEF GoneOK
<1>14. CleanOK'
  <2>1. SUFFICES ASSUME damage' \subseteq {"unnamed"} PROVE CleanOK'
    BY DEF CleanOK
  <2>2. damage \subseteq {"unnamed"} /\ (file.tail = NoTail \/ f = file)
    BY <1>6, <2>1
  <2>3. \A g \in Left : Good(used, acked \ Leaving, {}, g)
    BY <2>2, GoodAfterStop DEF CleanOK
  <2>4. \A g \in I : Good(used, acked \ Leaving, {}, g)
    <3>1. SUFFICES ASSUME NEW g \in I, g \notin inode
                   PROVE  Good(used, acked \ Leaving, {}, g)
      BY <2>3 DEF Left
    <3>2. op.at = "writing" /\ g \in Partly(file, op.arg[1]) /\ f # file
      BY <1>5, <3>1
    <3>3. Good(used, acked, {}, g) /\ Leaving = {}
      BY <2>2, <3>2, NewContent DEF Leaving
    <3> QED
      BY <3>3, GoodAfterStop
  <2>5. Ordered(used, <<>>)
    BY OrderedFacts DEF TypeOK
  <2>6. \A g \in Left' : Good(used, acked \ Leaving, {}, g)
    BY <1>7, <2>3, <2>4 DEF Left
  <2>7. file'.tail # Cut
    BY <1>3, <1>6, <2>1
  <2> QED
    BY <1>1, <1>2, <2>5, <2>6, <2>7 DEF CleanOK
<1> QED
  BY <1>9, <1>10, <1>11, <1>12, <1>13, <1>14

(* A new append: its record becomes the last one, and everything keeps its *)
(* place.                                                                  *)
LEMMA AppendBeginStep ==
    ASSUME Inductive, NEW r \in Records, AppendBegin(r)
    PROVE  Inductive'
<1> USE DEF Inductive
<1>1. /\ up /\ op = Idle /\ op.at = "idle" /\ r \notin Range(used)
      /\ used' = Append(used, r) /\ op' = [at |-> "writing", arg |-> <<r>>]
      /\ UNCHANGED <<up, records, file, inode, stale, handle, acked, gone,
                     damage, faults, kills, losses>>
  BY Types DEF AppendBegin, disk, counters
<1>2. op'.at = "writing" /\ op'.arg = <<r>> /\ op' \in Operations
  BY <1>1 DEF Operations
<1>3. /\ used \in Seq(Records) /\ used' \in Seq(Records)
      /\ Range(used') = Range(used) \cup {r}
  BY <1>1, RangeFacts, AppendProperties DEF TypeOK
<1>4. Left' = Left
  BY <1>1 DEF Left
<1>5. TypeOK'
  BY <1>1, <1>2, <1>3 DEF TypeOK, Operations
<1>6. OperationOK' /\ NameOK'
  BY <1>1, <1>2 DEF OperationOK, NameOK
<1>7. AppendOK'
  <2>1. /\ acked \cup gone \cup Range(records) \subseteq Range(used)
        /\ \A f \in inode \cup stale : Seen(f) \subseteq Range(used)
    BY DEF TypeOK, UsedOK
  <2> QED
    BY <1>1, <1>2, <1>3, <2>1 DEF AppendOK
<1>8. UsedOK' /\ GoneOK'
  BY <1>1, <1>3, <1>4 DEF UsedOK, GoneOK
<1>9. CleanOK'
  <2>1. SUFFICES ASSUME damage \subseteq {"unnamed"} PROVE CleanOK'
    BY <1>1 DEF CleanOK
  <2>2. Leaving = {} /\ Leaving' = {}
    BY <1>1, <1>2 DEF Leaving
  <2>3. ASSUME NEW f \in Left PROVE Good(used', acked, {}, f)
    <3>1. Good(used, acked, {}, f)
      BY <2>1, <2>2 DEF CleanOK
    <3>2. f \in Files /\ Seen(f) \subseteq Range(used)
      BY DEF Left, TypeOK, UsedOK
    <3>3. f.lines \in Seq(Records \cup {Bad})
      BY <3>2 DEF Files
    <3>4. f.lines \in Seq(Records)
      BY <3>1, <3>3, GoodLines DEF Good
    <3>5. Whole(f) \in Seq(Records) /\ Range(Whole(f)) = Seen(f)
      <4>1. Range(f.lines) \subseteq Records
        BY <3>4, RangeOfSeq
      <4> QED
        BY <3>4, <4>1, RangeFacts, AppendProperties DEF Whole, Seen
    <3>6. Ordered(used', Whole(f))
      BY <1>1, <1>3, <3>1, <3>2, <3>5, OrderedFacts DEF Good
    <3> QED
      BY <3>1, <3>6 DEF Good
  <2>4. Ordered(used', records)
    BY <1>1, <1>3, <2>1, OrderedFacts DEF CleanOK, TypeOK, UsedOK
  <2> QED
    BY <1>1, <1>2, <1>4, <2>1, <2>2, <2>3, <2>4 DEF CleanOK
<1> QED
  BY <1>5, <1>6, <1>7, <1>8, <1>9

(* write_all appends the record to the file the handle is on.              *)
LEMMA AppendWriteStep ==
    ASSUME Inductive, AppendWrite
    PROVE  Inductive'
<1> USE DEF Inductive
<1>1. /\ op.at = "writing" /\ up /\ op' = [op EXCEPT !.at = "written"]
      /\ damage' = damage \cup Glued
      /\ UNCHANGED <<up, records, stale, handle, used, acked, gone, faults,
                     kills, losses>>
  BY Types DEF AppendWrite, counters
<1>2. op'.at = "written" /\ op'.arg = op.arg /\ op' \in Operations
  BY <1>1, Types DEF Operations
<1>3. PICK f : f = file'
  OBVIOUS
<1>4. PICK I : I = inode'
  OBVIOUS
<1>5. PICK r : r = op.arg[1]
  OBVIOUS
<1>6. PICK N : N = Partly(file, r) \cup {Extend(file, r)}
  OBVIOUS
<1>7. /\ f \in I /\ inode \subseteq I /\ f \in N
      /\ \A g \in I : g \in inode \/ (handle = "path" /\ g \in N)
      /\ handle = "path" => f = Extend(file, r)
      /\ handle # "path" => f = file
  <2>1. file \in inode /\ file \in Partly(file, r)
    BY DEF OperationOK, Partly
  <2> QED
    BY <1>3, <1>4, <1>5, <1>6, <2>1 DEF AppendWrite
<1>8. damage' = damage \cup (IF file.tail # NoTail /\ f # file
                              THEN {"glued"} ELSE {})
  BY <1>1, <1>3 DEF Glued
<1>9. \A g \in N :
         /\ g \in Files /\ g.tail # NoFile
         /\ Seen(g) \subseteq Range(used)
         /\ damage \cap {"orphaned", "forgotten"} = {} =>
               gone \cap Seen(g) = {}
         /\ (damage \subseteq {"unnamed"} /\ (file.tail = NoTail \/ g = file)) =>
               /\ Good(used, acked, {}, g)
               /\ Range(records) \subseteq Seen(g)
  BY <1>1, <1>5, <1>6, NewContent
<1>10. Left' = I \cup (IF "unnamed" \in damage THEN {} ELSE stale)
  BY <1>1, <1>4, <1>8 DEF Left
<1>11. TypeOK'
  <2>1. damage' \subseteq {"unnamed", "forgotten", "glued", "cut", "orphaned",
                           "halfdrained"} /\ ("unnamed" \in damage' => "unnamed" \in damage)
        /\ damage \subseteq damage'
    BY <1>8 DEF TypeOK
  <2>2. file' \in Files /\ inode' \subseteq Files /\ file'.tail # NoFile
    BY <1>3, <1>4, <1>7, <1>9 DEF TypeOK
  <2> QED
    BY <1>1, <1>2, <2>1, <2>2 DEF TypeOK, Operations
<1>12. OperationOK' /\ NameOK'
  <2>1. file' \in inode'
    BY <1>3, <1>4, <1>7
  <2>2. NameOK'
    BY <1>1, <1>2, <1>4, <1>7, <1>8, <1>9 DEF NameOK
  <2> QED
    BY <1>1, <1>2, <2>1, <2>2 DEF OperationOK
<1>13. AppendOK'
  BY <1>1, <1>2 DEF AppendOK
<1>14. UsedOK'
  BY <1>1, <1>4, <1>7, <1>9 DEF UsedOK
<1>15. GoneOK'
  <2>1. SUFFICES ASSUME damage \cap {"orphaned", "forgotten"} = {}
                 PROVE  /\ gone \cap Range(records) = {}
                        /\ \A g \in Left' : gone \cap Seen(g) = {}
    BY <1>1, <1>8 DEF GoneOK
  <2> QED
    BY <1>7, <1>9, <1>10, <2>1 DEF GoneOK, Left
<1>16. CleanOK'
  <2>1. SUFFICES ASSUME damage' \subseteq {"unnamed"} PROVE CleanOK'
    BY DEF CleanOK
  <2>2. /\ damage \subseteq {"unnamed"} /\ (file.tail = NoTail \/ f = file)
        /\ handle = "path"
    <3>1. damage \subseteq {"unnamed"} /\ (file.tail = NoTail \/ f = file)
      BY <1>8, <2>1
    <3> QED
      BY <1>1, <3>1 DEF TypeOK
  <2>3. Leaving = {} /\ Leaving' = {}
    BY <1>1, <1>2 DEF Leaving
  <2>4. r \in Records /\ file \in Files /\ file.tail # NoFile
    BY <1>1, <1>5, Appending, Types DEF TypeOK
  <2>5. file.tail = NoTail
    <3>1. SUFFICES ASSUME f = file PROVE file.tail = NoTail
      BY <2>2
    <3>2. f.tail = NoTail
      BY <1>7, <2>2 DEF Extend, Content
    <3> QED
      BY <3>1, <3>2
  <2>6. f.tail = NoTail /\ r \in Range(f.lines)
    BY <1>6, <1>7, <2>2, <2>4, <2>5, WriteFacts
  <2>7. \A g \in I : Good(used, acked, {}, g)
    BY <1>7, <1>9, <2>2, <2>3, <2>5 DEF CleanOK, Left
  <2>8. \A g \in Left' : Good(used, acked, {}, g)
    BY <1>10, <2>2, <2>3, <2>7 DEF CleanOK, Left
  <2>9. Range(records) \subseteq Seen(f)
    BY <1>7, <1>9, <2>2
  <2> QED
    BY <1>1, <1>2, <1>3, <1>5, <2>2, <2>3, <2>6, <2>8, <2>9 DEF CleanOK
<1> QED
  BY <1>11, <1>12, <1>13, <1>14, <1>15, <1>16

(* A write fails after some part of the record, or none.                   *)
LEMMA AppendWriteFailsStep ==
    ASSUME Inductive, AppendWriteFails
    PROVE  Inductive'
<1> USE DEF Inductive
<1>1. /\ op.at = "writing" /\ up /\ op' = Idle /\ op'.at = "idle"
      /\ damage' = damage \cup Glued
      /\ faults' \in 0..MaxFaults /\ faults' > 0
      /\ UNCHANGED <<up, records, stale, handle, used, acked, gone, kills,
                     losses>>
  BY Types, FaultCounted DEF AppendWriteFails, Fault
<1>2. PICK f : f = file'
  OBVIOUS
<1>3. PICK I : I = inode'
  OBVIOUS
<1>4. /\ f \in I /\ inode \subseteq I /\ f \in Partly(file, op.arg[1])
      /\ \A g \in I : g \in inode \/ g \in Partly(file, op.arg[1])
      /\ f = file => I = inode
  BY <1>1, <1>2, <1>3, WritesPartly DEF AppendWriteFails
<1>5. damage' = damage \cup (IF file.tail # NoTail /\ f # file
                              THEN {"glued"} ELSE {})
  BY <1>1, <1>2 DEF Glued
<1>6. Left' = I \cup (IF "unnamed" \in damage THEN {} ELSE stale)
  BY <1>1, <1>3, <1>5 DEF Left
<1>7. TypeOK'
  <2>1. damage' \subseteq {"unnamed", "forgotten", "glued", "cut", "orphaned",
                           "halfdrained"} /\ damage \subseteq damage'
    BY <1>5 DEF TypeOK
  <2>2. file' \in Files /\ inode' \subseteq Files /\ file'.tail # NoFile
    BY <1>1, <1>2, <1>3, <1>4, NewContent DEF TypeOK
  <2> QED
    BY <1>1, <2>1, <2>2, Types DEF TypeOK, Operations
<1>8. OperationOK' /\ AppendOK' /\ NameOK'
  <2>1. NameOK'
    BY <1>1, <1>3, <1>4, <1>5, NewContent DEF NameOK
  <2> QED
    BY <1>1, <1>2, <1>3, <1>4, <2>1 DEF OperationOK, AppendOK
<1>9. UsedOK'
  BY <1>1, <1>3, <1>4, NewContent DEF UsedOK
<1>10. GoneOK'
  <2>1. SUFFICES ASSUME damage \cap {"orphaned", "forgotten"} = {}
                 PROVE  /\ gone \cap Range(records) = {}
                        /\ \A g \in Left' : gone \cap Seen(g) = {}
    BY <1>1, <1>5 DEF GoneOK
  <2> QED
    <3>1. \A g \in Left : gone \cap Seen(g) = {}
      BY <2>1 DEF GoneOK
    <3>2. \A g \in I : gone \cap Seen(g) = {}
      <4>1. SUFFICES ASSUME NEW g \in Partly(file, op.arg[1])
                     PROVE  gone \cap Seen(g) = {}
        BY <1>4, <3>1 DEF Left
      <4> QED
        BY <1>1, <2>1, NewContent
    <3>3. \A g \in Left' : gone \cap Seen(g) = {}
      BY <1>6, <3>1, <3>2 DEF Left
    <3> QED
      BY <2>1, <3>3 DEF GoneOK
<1>11. CleanOK'
  <2>1. SUFFICES ASSUME damage' \subseteq {"unnamed"} PROVE CleanOK'
    BY DEF CleanOK
  <2>2. damage \subseteq {"unnamed"} /\ (file.tail = NoTail \/ f = file)
    BY <1>5, <2>1
  <2>3. Leaving = {} /\ Leaving' = {}
    BY <1>1 DEF Leaving
  <2>4. \A g \in I : Good(used, acked, {}, g)
    BY <1>1, <1>4, <2>2, <2>3, NewContent DEF CleanOK, Left
  <2>5. \A g \in Left' : Good(used, acked, {}, g)
    BY <1>6, <2>2, <2>3, <2>4 DEF CleanOK, Left
  <2>6. Range(records) \subseteq Seen(f)
    BY <1>1, <1>4, <2>2, NewContent
  <2> QED
    BY <1>1, <1>2, <2>2, <2>3, <2>5, <2>6 DEF CleanOK
<1> QED
  BY <1>7, <1>8, <1>9, <1>10, <1>11

(* sync_data makes the file durable as it is, and the record is            *)
(* acknowledged.                                                           *)
LEMMA AppendSyncStep ==
    ASSUME Inductive, AppendSync
    PROVE  Inductive'
<1> USE DEF Inductive
<1>1. PICK r : r = op.arg[1]
  OBVIOUS
<1>2. /\ op.at = "written" /\ up /\ op' = Idle /\ op'.at = "idle"
      /\ inode' = (IF handle = "path" THEN {file} ELSE inode)
      /\ records' = Append(records, r) /\ acked' = acked \cup {r}
      /\ UNCHANGED <<up, file, stale, handle, used, gone, damage, faults, kills,
                     losses>>
  BY <1>1, Types DEF AppendSync, counters
<1>3. r \in Records
  BY <1>1, <1>2, Appending
<1>4. PICK o \in Seq(Records) :
         /\ used = Append(o, r) /\ r \notin Range(o)
         /\ Range(used) = Range(o) \cup {r}
         /\ acked \cup gone \cup Range(records) \subseteq Range(o)
  BY <1>1, <1>2, Appending
<1>5. /\ Append(records, r) \in Seq(Records)
      /\ Range(Append(records, r)) = Range(records) \cup {r}
  BY <1>3, RangeFacts, AppendProperties DEF TypeOK
<1>6. file \in inode /\ inode' \subseteq inode /\ file \in inode'
  BY <1>2 DEF OperationOK
<1>7. Left' \subseteq Left
  BY <1>2, <1>6 DEF Left
<1>8. TypeOK'
  <2>1. acked' \subseteq Range(used) /\ acked' \cap gone = {}
    BY <1>2, <1>4 DEF TypeOK
  <2> QED
    BY <1>2, <1>5, <1>6, <2>1, Types DEF TypeOK, Operations
<1>9. OperationOK' /\ AppendOK' /\ NameOK'
  BY <1>2, <1>6 DEF OperationOK, AppendOK, NameOK
<1>10. UsedOK'
  BY <1>2, <1>4, <1>5, <1>6 DEF UsedOK
<1>11. GoneOK'
  BY <1>2, <1>4, <1>5, <1>7 DEF GoneOK
<1>12. CleanOK'
  <2>1. SUFFICES ASSUME damage \subseteq {"unnamed"} PROVE CleanOK'
    BY <1>2 DEF CleanOK
  <2>2. handle = "path" /\ (stale = {} \/ "unnamed" \in damage)
    BY <1>2, <2>1 DEF TypeOK, NameOK
  <2>3. Left' = {file} /\ file \in Left
    BY <1>2, <1>6, <2>2 DEF Left
  <2>4. Leaving = {} /\ Leaving' = {}
    BY <1>2 DEF Leaving
  <2>5. /\ Good(used, acked, {}, file) /\ Ordered(used, records)
        /\ acked \subseteq Range(records) /\ Range(records) \subseteq Seen(file)
        /\ r \in Range(file.lines)
    BY <1>1, <1>2, <2>1, <2>3, <2>4 DEF CleanOK
  <2>6. r \in Seen(file)
    BY <1>3, <2>5 DEF Seen
  <2>7. Good(used, acked \cup {r}, {}, file)
    BY <2>5, <2>6 DEF Good, Kept
  <2>8. Ordered(used, Append(records, r))
    BY <1>3, <1>4, <2>5, OrderedAppend DEF TypeOK
  <2> QED
    BY <1>2, <1>5, <2>3, <2>4, <2>5, <2>6, <2>7, <2>8 DEF CleanOK
<1> QED
  BY <1>8, <1>9, <1>10, <1>11, <1>12

(* A failing sync leaves the written record in the file.                   *)
LEMMA AppendSyncFailsStep ==
    ASSUME Inductive, AppendSyncFails
    PROVE  Inductive'
<1> USE DEF Inductive
<1>1. /\ op.at = "written" /\ up /\ op' = Idle /\ op'.at = "idle"
      /\ faults' \in 0..MaxFaults /\ faults' > 0
      /\ UNCHANGED <<up, records, file, inode, stale, handle, used, acked, gone,
                     damage, kills, losses>>
  BY Types, FaultCounted DEF AppendSyncFails, Fault, disk
<1>2. Left' = Left
  BY <1>1 DEF Left
<1>3. TypeOK'
  BY <1>1, Types DEF TypeOK, Operations
<1>4. OperationOK' /\ AppendOK' /\ NameOK'
  BY <1>1 DEF OperationOK, AppendOK, NameOK
<1>5. UsedOK' /\ GoneOK'
  BY <1>1, <1>2 DEF UsedOK, GoneOK
<1>6. CleanOK'
  <2>1. Leaving = {} /\ Leaving' = {}
    BY <1>1 DEF Leaving
  <2> QED
    BY <1>1, <1>2, <2>1 DEF CleanOK
<1> QED
  BY <1>3, <1>4, <1>5, <1>6

(* The truncation may come back whole after a power loss.                  *)
LEMMA DrainTruncateStep ==
    ASSUME Inductive, DrainTruncate
    PROVE  Inductive'
<1> USE DEF Inductive
<1>1. PICK f : f = IF handle = "path" THEN Empty ELSE file
  OBVIOUS
<1>2. /\ up /\ op = Idle /\ op.at = "idle" /\ file' = f
      /\ inode' = inode \cup {f} /\ op' = [at |-> "truncated", arg |-> <<>>]
      /\ UNCHANGED <<up, records, stale, handle, used, acked, gone, damage,
                     faults, kills, losses>>
  BY <1>1, Types DEF DrainTruncate, counters
<1>3. op'.at = "truncated" /\ op'.arg = <<>> /\ op' \in Operations
  BY <1>2 DEF Operations
<1>4. f \in Files /\ f.tail # NoFile /\ (f \in inode \/ f = Empty)
  BY <1>1, <1>2, EmptyFacts, Markers, Types DEF TypeOK, OperationOK
<1>5. Left' = Left \cup {f}
  BY <1>2 DEF Left
<1>6. TypeOK'
  BY <1>2, <1>3, <1>4 DEF TypeOK, Operations
<1>7. OperationOK' /\ AppendOK' /\ NameOK'
  BY <1>1, <1>2, <1>3, <1>4 DEF OperationOK, AppendOK, NameOK
<1>8. UsedOK' /\ GoneOK'
  BY <1>2, <1>4, <1>5, EmptyFacts DEF UsedOK, GoneOK, Left
<1>9. CleanOK'
  <2>1. SUFFICES ASSUME damage \subseteq {"unnamed"} PROVE CleanOK'
    BY <1>2 DEF CleanOK
  <2>2. Leaving = {} /\ Leaving' = Range(records)
    BY <1>2, <1>3 DEF Leaving
  <2>3. \A g \in Left : Good(used, acked, Range(records), g)
    BY <2>1, <2>2 DEF CleanOK, Good, Kept
  <2>4. acked \subseteq Range(records) /\ Ordered(used, records)
    BY <1>2, <2>1 DEF CleanOK
  <2>5. Good(used, acked, Range(records), Empty)
    BY <2>4, EmptyFacts DEF TypeOK
  <2>6. Good(used, acked, Range(records), f)
    BY <1>4, <2>3, <2>5 DEF Left
  <2> QED
    BY <1>2, <1>3, <1>5, <2>2, <2>3, <2>4, <2>6 DEF CleanOK
<1> QED
  BY <1>6, <1>7, <1>8, <1>9

(* sync_all makes the truncation durable, and the records are taken.       *)
LEMMA DrainSyncStep ==
    ASSUME Inductive, DrainSync
    PROVE  Inductive'
<1> USE DEF Inductive
<1>1. Leaving = Range(records)
  BY DEF DrainSync, Leaving
<1>2. /\ op.at = "truncated" /\ up /\ op' = Idle /\ op'.at = "idle"
      /\ inode' = (IF handle = "path" THEN {file} ELSE inode)
      /\ records' = <<>> /\ acked' = acked \ Range(records)
      /\ gone' = gone \cup Range(records)
      /\ UNCHANGED <<up, file, stale, handle, used, damage, faults, kills,
                     losses>>
  BY <1>1, Types DEF DrainSync, Removed, counters
<1>3. file \in inode /\ inode' \subseteq inode /\ file \in inode'
  BY <1>2 DEF OperationOK
<1>4. Range(<<>>) = {} /\ <<>> \in Seq(Records)
  BY RangeFacts
<1>5. "orphaned" \notin damage => Left' = {Empty}
  <2>1. SUFFICES ASSUME "orphaned" \notin damage PROVE Left' = {Empty}
    OBVIOUS
  <2>2. handle = "path" /\ (stale = {} \/ "unnamed" \in damage) /\ file = Empty
    BY <1>2, <2>1 DEF TypeOK, NameOK, OperationOK
  <2> QED
    BY <1>2, <2>2 DEF Left
<1>6. TypeOK'
  <2>1. /\ acked' \subseteq Range(used) /\ gone' \subseteq Range(used)
        /\ acked' \cap gone' = {}
    BY <1>2 DEF TypeOK, UsedOK
  <2> QED
    BY <1>2, <1>3, <1>4, <2>1, Types DEF TypeOK, Operations
<1>7. OperationOK' /\ AppendOK' /\ NameOK'
  BY <1>2, <1>3 DEF OperationOK, AppendOK, NameOK
<1>8. UsedOK'
  BY <1>2, <1>3, <1>4 DEF UsedOK
<1>9. GoneOK'
  BY <1>2, <1>4, <1>5, EmptyFacts DEF GoneOK
<1>10. CleanOK'
  <2>1. SUFFICES ASSUME damage \subseteq {"unnamed"} PROVE CleanOK'
    BY <1>2 DEF CleanOK
  <2>2. Left' = {Empty} /\ Leaving' = {}
    BY <1>2, <1>5, <2>1 DEF Leaving
  <2>3. acked' = {}
    BY <1>2, <2>1 DEF CleanOK
  <2>4. Good(used, {}, {}, Empty) /\ Ordered(used, <<>>)
    BY EmptyFacts, OrderedFacts DEF TypeOK
  <2> QED
    BY <1>2, <1>4, <2>2, <2>3, <2>4 DEF CleanOK
<1> QED
  BY <1>6, <1>7, <1>8, <1>9, <1>10

(* A drain that fails after its truncation damages the store.              *)
LEMMA DrainSyncFailsStep ==
    ASSUME Inductive, DrainSyncFails
    PROVE  Inductive'
<1> USE DEF Inductive
<1>1. /\ op.at = "truncated" /\ up /\ op' = Idle /\ op'.at = "idle"
      /\ damage' = damage \cup {"halfdrained"}
      /\ faults' \in 0..MaxFaults /\ faults' > 0
      /\ UNCHANGED <<up, records, file, inode, stale, handle, used, acked, gone,
                     kills, losses>>
  BY Types, FaultCounted DEF DrainSyncFails, Fault, disk
<1>2. Left' = Left
  BY <1>1 DEF Left
<1>3. TypeOK'
  BY <1>1, Types DEF TypeOK, Operations
<1>4. OperationOK' /\ AppendOK' /\ NameOK'
  BY <1>1 DEF OperationOK, AppendOK, NameOK
<1>5. UsedOK' /\ GoneOK'
  BY <1>1, <1>2 DEF UsedOK, GoneOK
<1>6. CleanOK'
  BY <1>1 DEF CleanOK
<1> QED
  BY <1>3, <1>4, <1>5, <1>6

(* The survivors are copied to the sibling.                                *)
LEMMA CompactCopyStep ==
    ASSUME Inductive, NEW S \in SUBSET Range(records), CompactCopy(S)
    PROVE  Inductive'
<1> USE DEF Inductive
<1>1. PICK s : s = Filter(records, S)
  OBVIOUS
<1>2. /\ up /\ op = Idle /\ op.at = "idle"
      /\ op' = [at |-> "copied", arg |-> s]
      /\ UNCHANGED <<up, records, file, inode, stale, handle, used, acked, gone,
                     damage, faults, kills, losses>>
  BY <1>1, Types DEF CompactCopy, disk, counters
<1>3. s \in Seq(Records) /\ Range(s) = Range(records) \cap S
  BY <1>1, FilterRange DEF TypeOK
<1>4. s = Filter(records, Range(s))
  <2>1. Range(s) = S
    BY <1>3
  <2> QED
    BY <1>1, <2>1
<1>5. op'.at = "copied" /\ op'.arg = s /\ op' \in Operations
  BY <1>2, <1>3 DEF Operations
<1>6. Left' = Left
  BY <1>2 DEF Left
<1>7. TypeOK'
  BY <1>2, <1>5 DEF TypeOK, Operations
<1>8. OperationOK' /\ AppendOK' /\ NameOK'
  BY <1>2, <1>4, <1>5 DEF OperationOK, AppendOK, NameOK
<1>9. UsedOK' /\ GoneOK'
  BY <1>2, <1>6 DEF UsedOK, GoneOK
<1>10. CleanOK'
  <2>1. Leaving = {} /\ Leaving' = {}
    BY <1>2, <1>5 DEF Leaving
  <2> QED
    BY <1>2, <1>5, <1>6, <2>1 DEF CleanOK
<1> QED
  BY <1>7, <1>8, <1>9, <1>10

(* The survivors of a compaction, which are in the order of the records.   *)
LEMMA Survivors ==
    ASSUME Inductive, op.at \in {"copied", "renamed", "named"}
    PROVE  /\ op.arg \in Seq(Records) /\ Content(op.arg) \in Files
           /\ op.arg = Filter(records, Range(op.arg))
           /\ Range(op.arg) \subseteq Range(records)
           /\ Content(op.arg).tail = NoTail
           /\ Seen(Content(op.arg)) = Range(op.arg)
           /\ damage \subseteq {"unnamed"} =>
                 /\ Ordered(used, op.arg)
                 /\ Good(used, acked, Range(records) \ Range(op.arg),
                         Content(op.arg))
<1> USE DEF Inductive
<1>1. PICK s : s = op.arg
  OBVIOUS
<1>2. s \in Seq(Records) /\ s = Filter(records, Range(s)) /\ up
  BY <1>1, Types DEF OperationOK
<1>3. Range(s) \subseteq Range(records)
  BY <1>2, FilterRange DEF TypeOK
<1>4. /\ Content(s) \in Files /\ Seen(Content(s)) = Range(s)
      /\ Content(s).lines = s /\ Content(s).tail = NoTail
      /\ Bad \notin Range(s)
  BY <1>2, ContentFacts
<1>5. ASSUME damage \subseteq {"unnamed"}
      PROVE  /\ Ordered(used, s)
             /\ Good(used, acked, Range(records) \ Range(s), Content(s))
  <2>1. Ordered(used, records) /\ acked \subseteq Range(records)
    BY <1>2, <1>5 DEF CleanOK
  <2>2. Ordered(used, Filter(records, Range(s)))
    BY <2>1, OrderedFacts DEF TypeOK
  <2>3. Whole(Content(s)) = s
    BY <1>4, Markers DEF Whole
  <2>4. Kept(acked, Range(records) \ Range(s), Content(s))
    BY <1>4, <2>1 DEF Kept
  <2> QED
    BY <1>2, <1>4, <2>2, <2>3, <2>4 DEF Good
<1> QED
  BY <1>1, <1>2, <1>3, <1>4, <1>5

(* The sibling takes the path; the old content may come back.              *)
LEMMA CompactRenameStep ==
    ASSUME Inductive, CompactRename
    PROVE  Inductive'
<1> USE DEF Inductive
<1>1. PICK s : s = op.arg
  OBVIOUS
<1>2. PICK f : f = Content(s)
  OBVIOUS
<1>3. /\ op.at = "copied" /\ up /\ file' = f /\ inode' = {f}
      /\ stale' = stale \cup inode /\ handle' = "orphan"
      /\ op' = [op EXCEPT !.at = "renamed"]
      /\ UNCHANGED <<up, records, used, acked, gone, damage, faults, kills,
                     losses>>
  BY <1>1, <1>2, Types DEF CompactRename, counters
<1>4. op'.at = "renamed" /\ op'.arg = s /\ op' \in Operations
  BY <1>1, <1>3, Types DEF Operations
<1>5. /\ f \in Files /\ f.tail = NoTail /\ Seen(f) = Range(s)
      /\ s = Filter(records, Range(s)) /\ Range(s) \subseteq Range(records)
      /\ damage \subseteq {"unnamed"} =>
            Good(used, acked, Range(records) \ Range(s), f)
  BY <1>1, <1>2, <1>3, Survivors
<1>6. Left' \subseteq Left \cup {f}
  BY <1>3 DEF Left
<1>7. TypeOK'
  BY <1>3, <1>4, <1>5, Markers DEF TypeOK, Operations
<1>8. OperationOK' /\ AppendOK' /\ NameOK'
  <2>1. NameOK'
    BY <1>3, <1>4, <1>5, Markers DEF NameOK
  <2>2. Content(op.arg)' = Content(op'.arg)
    BY DEF Content
  <2>3. OperationOK'
    BY <1>2, <1>3, <1>4, <1>5, <2>2 DEF OperationOK
  <2> QED
    BY <1>4, <2>1, <2>3 DEF AppendOK
<1>9. UsedOK'
  BY <1>3, <1>5 DEF UsedOK
<1>10. GoneOK'
  BY <1>3, <1>5, <1>6 DEF GoneOK
<1>11. CleanOK'
  <2>1. SUFFICES ASSUME damage \subseteq {"unnamed"} PROVE CleanOK'
    BY <1>3 DEF CleanOK
  <2>2. Leaving = {} /\ Leaving' = Range(records) \ Range(s)
    BY <1>3, <1>4 DEF Leaving
  <2>3. PICK l : l = Range(records) \ Range(s)
    OBVIOUS
  <2>4. \A g \in Left : Good(used, acked, l, g)
    BY <2>1, <2>2 DEF CleanOK, Good, Kept
  <2>5. \A g \in Left' : Good(used, acked, l, g)
    BY <1>5, <1>6, <2>1, <2>3, <2>4
  <2> QED
    BY <1>3, <1>4, <2>1, <2>2, <2>3, <2>5 DEF CleanOK
<1> QED
  BY <1>7, <1>8, <1>9, <1>10, <1>11

(* The rename is made durable, or the path has no directory.               *)
LEMMA CompactSyncDirStep ==
    ASSUME Inductive, CompactSyncDir
    PROVE  Inductive'
<1> USE DEF Inductive
<1>1. /\ op.at = "renamed" /\ up /\ op' = [op EXCEPT !.at = "named"]
      /\ stale' = (IF HasParent THEN {} ELSE stale)
      /\ damage' = (IF HasParent THEN damage ELSE damage \cup {"unnamed"})
      /\ UNCHANGED <<up, records, file, inode, handle, used, acked, gone,
                     faults, kills, losses>>
  BY Types DEF CompactSyncDir, SyncParentDir, counters
<1>2. op'.at = "named" /\ op'.arg = op.arg /\ op' \in Operations
  BY <1>1, Types DEF Operations
<1>3. Left' \subseteq Left /\ stale' \subseteq stale
  BY <1>1 DEF Left
<1>4. TypeOK'
  BY <1>1, <1>2 DEF TypeOK, Operations
<1>5. OperationOK' /\ AppendOK' /\ NameOK'
  <2>1. Content(op.arg)' = Content(op'.arg)
    BY DEF Content
  <2> QED
    BY <1>1, <1>2, <1>3, <2>1 DEF OperationOK, AppendOK, NameOK
<1>6. UsedOK' /\ GoneOK'
  BY <1>1, <1>3 DEF UsedOK, GoneOK
<1>7. CleanOK'
  <2>1. Leaving' = Leaving
    BY <1>1, <1>2 DEF Leaving
  <2> QED
    BY <1>1, <1>2, <1>3, <2>1 DEF CleanOK
<1> QED
  BY <1>4, <1>5, <1>6, <1>7

(* A new handle, and the survivors are all there is.                       *)
LEMMA CompactReopenStep ==
    ASSUME Inductive, CompactReopen
    PROVE  Inductive'
<1> USE DEF Inductive
<1>1. PICK s : s = op.arg
  OBVIOUS
<1>2. PICK l : l = Range(records) \ Range(s)
  OBVIOUS
<1>3. Leaving = l
  BY <1>1, <1>2 DEF CompactReopen, Leaving
<1>4. /\ op.at = "named" /\ up /\ op' = Idle /\ op'.at = "idle"
      /\ handle' = "path" /\ records' = s
      /\ acked' = acked \ l /\ gone' = gone \cup l
      /\ UNCHANGED <<up, file, inode, stale, used, damage, faults, kills,
                     losses>>
  BY <1>1, <1>3, Types DEF CompactReopen, Removed, disk, counters
<1>5. /\ s \in Seq(Records) /\ Range(s) \subseteq Range(records)
      /\ file = Content(s) /\ inode = {file} /\ Seen(file) = Range(s)
      /\ damage \subseteq {"unnamed"} =>
            Ordered(used, s) /\ Good(used, acked, l, file)
  BY <1>1, <1>2, <1>4, Survivors DEF OperationOK
<1>6. "orphaned" \notin damage => Left' = {file} /\ file \in Left
  BY <1>4, <1>5 DEF Left, NameOK
<1>7. TypeOK'
  <2>1. /\ acked' \subseteq Range(used) /\ gone' \subseteq Range(used)
        /\ acked' \cap gone' = {}
    BY <1>2, <1>4 DEF TypeOK, UsedOK
  <2> QED
    BY <1>4, <1>5, <2>1, Types DEF TypeOK, Operations
<1>8. OperationOK' /\ AppendOK' /\ NameOK'
  BY <1>4, <1>5 DEF OperationOK, AppendOK, NameOK
<1>9. UsedOK'
  BY <1>4, <1>5 DEF UsedOK
<1>10. GoneOK'
  <2>1. SUFFICES ASSUME damage \cap {"orphaned", "forgotten"} = {} PROVE GoneOK'
    BY <1>4 DEF GoneOK
  <2>2. Left' = {file} /\ gone \cap Range(records) = {}
    BY <1>6, <2>1 DEF GoneOK
  <2>3. gone' \cap Range(s) = {}
    BY <1>2, <1>4, <1>5, <2>2
  <2> QED
    BY <1>4, <1>5, <2>2, <2>3 DEF GoneOK
<1>11. CleanOK'
  <2>1. SUFFICES ASSUME damage \subseteq {"unnamed"} PROVE CleanOK'
    BY <1>4 DEF CleanOK
  <2>2. Left' = {file} /\ Leaving' = {}
    BY <1>4, <1>6, <2>1 DEF Leaving
  <2>3. acked \subseteq Range(records)
    BY <1>4, <2>1 DEF CleanOK
  <2>4. acked' \subseteq Range(s)
    BY <1>2, <1>4, <2>3
  <2>5. Good(used, acked', {}, file)
    BY <1>4, <1>5, <2>1, GoodAfterStop
  <2> QED
    BY <1>4, <1>5, <2>1, <2>2, <2>4, <2>5 DEF CleanOK
<1> QED
  BY <1>7, <1>8, <1>9, <1>10, <1>11

(* A compaction that fails before its rename changes nothing, and one that *)
(* fails later damages the store.                                          *)
LEMMA CompactFailsStep ==
    ASSUME Inductive, CompactFails
    PROVE  Inductive'
<1> USE DEF Inductive
<1>1. /\ op.at \in {"copied", "renamed", "named"} /\ up
      /\ op' = Idle /\ op'.at = "idle"
      /\ damage' = (IF op.at = "copied" THEN damage
                    ELSE damage \cup {"orphaned"})
      /\ faults' \in 0..MaxFaults /\ faults' > 0
      /\ UNCHANGED <<up, records, file, inode, stale, handle, used, acked, gone,
                     kills, losses>>
  BY Types, FaultCounted DEF CompactFails, Fault, disk
<1>2. Left' = Left
  BY <1>1 DEF Left
<1>3. TypeOK'
  BY <1>1, Types DEF TypeOK, Operations
<1>4. OperationOK' /\ AppendOK' /\ NameOK'
  BY <1>1 DEF OperationOK, AppendOK, NameOK
<1>5. UsedOK' /\ GoneOK'
  BY <1>1, <1>2 DEF UsedOK, GoneOK
<1>6. CleanOK'
  <2>1. SUFFICES ASSUME op.at = "copied" PROVE CleanOK'
    BY <1>1 DEF CleanOK
  <2>2. Leaving = {} /\ Leaving' = {}
    BY <1>1, <2>1 DEF Leaving
  <2> QED
    BY <1>1, <1>2, <2>1, <2>2 DEF CleanOK
<1> QED
  BY <1>3, <1>4, <1>5, <1>6

(* Every action preserves the invariant.                                   *)
LEMMA NextInductive == ASSUME Inductive, Next PROVE Inductive'
BY OpenStep, CreateStep, CreateSyncDirStep, CreateFailsStep, KillStep,
   PowerLossStep, AppendBeginStep, AppendWriteStep, AppendWriteFailsStep,
   AppendSyncStep, AppendSyncFailsStep, DrainTruncateStep, DrainSyncStep,
   DrainSyncFailsStep, CompactCopyStep, CompactRenameStep, CompactSyncDirStep,
   CompactReopenStep, CompactFailsStep
DEF Next

(* The invariant holds throughout.                                         *)
THEOREM Invariance == Spec => []Inductive
<1>1. Inductive /\ [Next]_vars => Inductive'
  <2>1. SUFFICES ASSUME Inductive, [Next]_vars PROVE Inductive'
    OBVIOUS
  <2>2. CASE UNCHANGED vars
    <3>1. UNCHANGED <<up, records, file, inode, stale, handle, op, used, acked,
                      gone, damage, faults, kills, losses>>
      BY <2>2 DEF vars, disk, counters
    <3>2. Left' = Left /\ Leaving' = Leaving
      BY <3>1 DEF Left, Leaving
    <3>3. TypeOK' /\ OperationOK' /\ AppendOK' /\ NameOK'
      <4>1. TypeOK'
        BY <2>1, <3>1 DEF Inductive, TypeOK, Idle
      <4>2. OperationOK'
        BY <2>1, <3>1 DEF Inductive, OperationOK, Idle, Content, Empty
      <4>3. AppendOK' /\ NameOK'
        BY <2>1, <3>1 DEF Inductive, AppendOK, NameOK, Missing
      <4> QED
        BY <4>1, <4>2, <4>3
    <3>4. UsedOK' /\ GoneOK' /\ CleanOK'
      BY <2>1, <3>1, <3>2 DEF Inductive, UsedOK, GoneOK, CleanOK
    <3> QED
      BY <3>3, <3>4 DEF Inductive
  <2>3. CASE Next
    BY <2>1, <2>3, NextInductive
  <2> QED
    BY <2>1, <2>2, <2>3
<1> QED
  BY InitInductive, <1>1, PTL DEF Spec

-----------------------------------------------------------------------------
(* The properties.                                                         *)

(* Type correctness: among the rest, nothing is both acknowledged and      *)
(* removed, the append handle leaves the path only in a compaction that is *)
(* running or failed, and a path with a directory is used under a name     *)
(* that is not durable only after a stop or a failure in mid-operation.    *)
THEOREM TypeCorrect == Spec => []TypeOK
<1>1. Inductive => TypeOK
  BY DEF Inductive
<1> QED
  BY <1>1, Invariance, PTL

(* However many calls failed, processes died and power losses happened,    *)
(* as long as the store was not damaged, every content that a stop may     *)
(* leave at the path opens with every record whose append was acknowledged *)
(* and which was not being removed; under a name that is not durable this  *)
(* holds for the death of the process.                                     *)
THEOREM AcknowledgedAreDurable == Spec => []AcknowledgedSurvives
<1>1. ASSUME Inductive PROVE AcknowledgedSurvives
  <2>1. SUFFICES ASSUME damage \subseteq {"unnamed"}, NEW f \in Left, f.tail # Cut
                 PROVE  /\ ReadBack(f) # Error
                        /\ acked \ Leaving \subseteq Range(ReadBack(f))
    BY DEF AcknowledgedSurvives
  <2>2. f \in Files /\ Good(used, acked, Leaving, f)
    BY <1>1, <2>1 DEF Inductive, CleanOK, TypeOK, Left
  <2>3. Bad \notin Range(f.lines) /\ acked \ Leaving \subseteq Seen(f)
    BY <2>2 DEF Good, Kept
  <2>4. ReadBack(f) # Error
    BY <2>1, <2>2, <2>3, ReadBackFacts
  <2>5. Range(ReadBack(f)) = Seen(f)
    BY <2>2, <2>4, ReadBackFacts
  <2> QED
    BY <2>3, <2>4, <2>5
<1> QED
  BY <1>1, Invariance, PTL

(* A record that a drain returned or a compaction removed is in no content *)
(* that a stop may leave, unless a compaction failed after its rename or a *)
(* name that was not durable was lost with the power.                      *)
THEOREM NoResurrection == Spec => []RemovedStaysRemoved
<1>1. ASSUME Inductive PROVE RemovedStaysRemoved
  <2>1. SUFFICES ASSUME damage \cap {"orphaned", "forgotten"} = {},
                        NEW f \in Left, ReadBack(f) # Error
                 PROVE  gone \cap Range(ReadBack(f)) = {}
    BY DEF RemovedStaysRemoved
  <2>2. f \in Files /\ gone \cap Seen(f) = {}
    BY <1>1, <2>1 DEF Inductive, GoneOK, TypeOK, Left
  <2>3. Range(ReadBack(f)) = Seen(f)
    BY <2>1, <2>2, ReadBackFacts
  <2> QED
    BY <2>2, <2>3
<1> QED
  BY <1>1, Invariance, PTL

(* Memory and file agree: between two operations on an undamaged store,    *)
(* reopening would show the records of memory in the same order, and       *)
(* besides them only appends that reported an error.                       *)
THEOREM MemoryIsTheFile == Spec => []MemoryMatchesFile
<1>1. ASSUME Inductive PROVE MemoryMatchesFile
  <2>1. SUFFICES ASSUME up, op = Idle, damage \subseteq {"unnamed"},
                        file.tail # Cut
                 PROVE  records = Filter(ReadBack(file), Range(records))
    BY DEF MemoryMatchesFile
  <2>2. /\ file \in Files /\ file \in Left /\ op.at = "idle"
        /\ records \in Seq(Records) /\ used \in Seq(Records)
    BY <1>1, <2>1, Types DEF Inductive, OperationOK, Left, TypeOK
  <2>3. /\ Good(used, acked, Leaving, file) /\ Ordered(used, records)
        /\ Range(records) \subseteq Seen(file)
    BY <1>1, <2>1, <2>2 DEF Inductive, CleanOK
  <2>4. ReadBack(file) # Error
    BY <2>1, <2>2, <2>3, ReadBackFacts DEF Good
  <2>5. PICK w : w = ReadBack(file)
    OBVIOUS
  <2>6. w \in Seq(Records) /\ Ordered(used, w) /\ Range(w) = Seen(file)
    BY <2>2, <2>3, <2>4, <2>5, ReadBackFacts DEF Good
  <2>7. Filter(w, Range(records)) = Filter(records, Range(w))
    BY <2>2, <2>3, <2>6, OrderedFacts
  <2>8. Filter(records, Range(w)) = records
    BY <2>2, <2>3, <2>6, FilterByRange
  <2> QED
    BY <2>5, <2>7, <2>8
<1> QED
  BY <1>1, Invariance, PTL

-----------------------------------------------------------------------------
(* The store implements DurableLog.                                        *)

(* The abstract specification filters sequences as the store does.         *)
LEMMA SameFilter ==
    /\ \A s, S : Log!Filter(s, S) = Filter(s, S)
    /\ \A s : Log!Range(s) = Range(s)
<1>1. ASSUME NEW s, NEW S PROVE Log!Filter(s, S) = Filter(s, S)
  BY DEF Log!Filter, Filter
<1>2. ASSUME NEW s PROVE Log!Range(s) = Range(s)
  BY DEF Log!Range, Range
<1> QED
  BY <1>1, <1>2

(* The image of the store, from its parts.                                 *)
LEMMA ViewFacts ==
    /\ up => View = records
    /\ ~up => View = ReadBack(file)
    /\ \A r : r \in Limbo <=>
          /\ r \notin Range(View)
          /\ \/ \E f \in Left : r \in Seen(f)
             \/ op.at = "writing" /\ r \in Range(op.arg)
    /\ op.at \in {"truncated", "renamed", "named"} => Removing = {Leaving}
    /\ op.at \notin {"truncated", "renamed", "named"} =>
          Removing = {} /\ Leaving = {}
    /\ Exposed <=> "unnamed" \in damage
    /\ Damaged <=> ~(damage \subseteq {"unnamed"})
    /\ Loose <=> \E f \in Left : f.tail \notin {NoTail, NoFile}
<1>1. Shown = {r \in Records : \E f \in Left : r \in Range(f.lines) \cup {f.tail}}
  BY DEF Shown
<1>2. \A r : r \in Shown <=> \E f \in Left : r \in Seen(f)
  BY <1>1 DEF Seen
<1>3. \A r : r \in Limbo <=>
          /\ r \notin Range(View)
          /\ \/ \E f \in Left : r \in Seen(f)
             \/ op.at = "writing" /\ r \in Range(op.arg)
  BY <1>2 DEF Limbo
<1> QED
  BY <1>3 DEF View, Removing, Leaving, Exposed, Damaged, Loose

(* The same after a step.                                                  *)
LEMMA ViewFactsNext ==
    /\ up' => View' = records'
    /\ ~up' => View' = ReadBack(file')
    /\ \A r : r \in Limbo' <=>
          /\ r \notin Range(View')
          /\ \/ \E f \in Left' : r \in Seen(f)
             \/ op'.at = "writing" /\ r \in Range(op'.arg)
    /\ op'.at \in {"truncated", "renamed", "named"} => Removing' = {Leaving'}
    /\ op'.at \notin {"truncated", "renamed", "named"} =>
          Removing' = {} /\ Leaving' = {}
    /\ Exposed' <=> "unnamed" \in damage'
    /\ Damaged' <=> ~(damage' \subseteq {"unnamed"})
    /\ Loose' <=> \E f \in Left' : f.tail \notin {NoTail, NoFile}
<1>1. Shown' = {r \in Records : \E f \in Left' : r \in Range(f.lines) \cup {f.tail}}
  BY DEF Shown
<1>2. \A r : r \in Shown' <=> \E f \in Left' : r \in Seen(f)
  BY <1>1 DEF Seen
<1>3. \A r : r \in Limbo' <=>
          /\ r \notin Range(View')
          /\ \/ \E f \in Left' : r \in Seen(f)
             \/ op'.at = "writing" /\ r \in Range(op'.arg)
  BY <1>2 DEF Limbo
<1>4. /\ up' => View' = records'
      /\ ~up' => View' = ReadBack(file')
  BY DEF View, ReadBack
<1> QED
  BY <1>3, <1>4 DEF Removing, Leaving, Exposed, Damaged, Loose

(* The image of the store is Boolean where the log's state is.             *)
LEMMA ImageTypes ==
    /\ Loose \in BOOLEAN /\ Exposed \in BOOLEAN /\ Damaged \in BOOLEAN
    /\ Loose' \in BOOLEAN /\ Exposed' \in BOOLEAN /\ Damaged' \in BOOLEAN
BY DEF Loose, Exposed, Damaged

(* Once ended, the promise stays ended.                                    *)
LEMMA DamageStays ==
    ASSUME Damaged, Next
    PROVE  Damaged'
<1>1. damage \ {"unnamed"} \subseteq damage'
  BY DEF Next, Open, Create, CreateSyncDir, CreateFails, SyncParentDir, Kill,
      PowerLoss, AppendBegin, AppendWrite, AppendWriteFails, AppendSync,
      AppendSyncFails, DrainTruncate, DrainSync, DrainSyncFails, CompactCopy,
      CompactRename, CompactSyncDir, CompactReopen, CompactFails
<1> QED
  BY <1>1 DEF Damaged

(* The first state of the store is that of an empty log.                   *)
LEMMA LogInit == Init => Log!Init
<1>1. SUFFICES ASSUME Init PROVE Log!Init
  OBVIOUS
<1>2. /\ ~up /\ file = Missing /\ Left = {Missing} /\ op.at = "idle"
      /\ damage = {} /\ acked = {}
  BY <1>1 DEF Init, Left, Idle
<1>3. ReadBack(Missing) = <<>>
  BY EmptyFacts, RangeFacts, Markers DEF ReadBack
<1>4. View = <<>> /\ Limbo = {} /\ Removing = {}
  BY <1>2, <1>3, ViewFacts, EmptyFacts
<1>5. Loose = FALSE /\ Damaged = FALSE /\ Exposed = FALSE
  <2>1. ~Loose /\ ~Damaged /\ ~Exposed
    BY <1>2, ViewFacts, EmptyFacts
  <2> QED
    BY <2>1, ImageTypes
<1> QED
  BY <1>1, <1>2, <1>4, <1>5 DEF Log!Init, Init

(* A step that leaves the contents, the memory and the removal in progress *)
(* alone changes nothing that a user sees.                                 *)
LEMMA LogStutters ==
    ASSUME UNCHANGED <<up, records, file, acked, damage>>, Left' = Left,
           Removing' = Removing, op'.at = "writing" <=> op.at = "writing",
           op'.at = "writing" => op'.arg = op.arg
    PROVE  UNCHANGED Log!vars
<1>1. View' = View /\ Loose' = Loose /\ Damaged' = Damaged /\ Exposed' = Exposed
  BY DEF View, ReadBack, Loose, Damaged, Exposed
<1>2. Shown' = Shown
  BY DEF Shown
<1>3. Limbo' = Limbo
  BY <1>1, <1>2 DEF Limbo
<1> QED
  BY <1>1, <1>3 DEF Log!vars

-----------------------------------------------------------------------------
(* Each action of an undamaged store is an action of the log.              *)

(* What the steps use of a store that is not damaged.                      *)
LEMMA CleanFacts ==
    ASSUME Inductive, ~Damaged
    PROVE  /\ damage \subseteq {"unnamed"}
           /\ file \in Files /\ file \in Left
           /\ \A f \in Left : f \in Files /\ Good(used, acked, Leaving, f)
           /\ View \in Seq(Records) /\ Ordered(used, View)
           /\ ~up => Range(View) = Seen(file) /\ file.tail # Cut
           /\ op.at \notin {"renamed", "named"} => handle = "path"
           /\ (up /\ op.at \notin {"created", "renamed"}) => Left = inode
<1> USE DEF Inductive
<1>1. damage \subseteq {"unnamed"}
  BY ViewFacts
<1>2. file \in Files /\ file \in Left
  BY DEF TypeOK, OperationOK, Left
<1>3. \A f \in Left : f \in Files /\ Good(used, acked, Leaving, f)
  BY <1>1 DEF CleanOK, Left, TypeOK
<1>4. op.at \notin {"renamed", "named"} => handle = "path"
  BY <1>1 DEF TypeOK
<1>5. (up /\ op.at \notin {"created", "renamed"}) => Left = inode
  BY <1>1 DEF NameOK, Left
<1>6. /\ View \in Seq(Records) /\ Ordered(used, View)
      /\ ~up => Range(View) = Seen(file) /\ file.tail # Cut
  <2>1. CASE up
    BY <1>1, <2>1, ViewFacts DEF CleanOK, TypeOK
  <2>2. CASE ~up
    <3>1. file.tail # Cut /\ Good(used, acked, Leaving, file)
      BY <1>1, <1>2, <1>3, <2>2 DEF CleanOK
    <3>2. ReadBack(file) # Error
      BY <1>2, <3>1, ReadBackFacts DEF Good
    <3>3. /\ ReadBack(file) \in Seq(Records) /\ Range(ReadBack(file)) = Seen(file)
          /\ ReadBack(file) = Whole(file)
      BY <1>2, <3>2, ReadBackFacts
    <3> QED
      BY <2>2, <3>1, <3>3, ViewFacts DEF Good
  <2> QED
    BY <2>1, <2>2
<1> QED
  BY <1>1, <1>2, <1>3, <1>4, <1>5, <1>6

(* Opening shows what the file holds.                                      *)
LEMMA LogOpens ==
    ASSUME Inductive, ~Damaged, Open \/ Create
    PROVE  Log!Next
<1> USE DEF Inductive
<1>1. ~up /\ up' /\ op.at = "idle" /\ op'.at \in {"idle", "created"}
  BY Types DEF Open, Create, TypeOK
<1>2. View' = View /\ Left' \subseteq Left \cup {Empty, Missing} /\ acked' = acked
  <2>1. CASE Open
    BY <1>1, <2>1, ViewFacts, ViewFactsNext DEF Open, Left, disk
  <2>2. CASE Create
    <3>1. file = Missing /\ records = <<>>
      BY <2>2 DEF Create, NameOK, OperationOK, TypeOK
    <3>2. ReadBack(Missing) = <<>>
      BY EmptyFacts, RangeFacts, Markers DEF ReadBack
    <3> QED
      BY <1>1, <2>2, <3>1, <3>2, ViewFacts, ViewFactsNext DEF Create, Left
  <2> QED
    BY <2>1, <2>2
<1>3. Removing = {} /\ Removing' = {}
  BY <1>1, ViewFacts, ViewFactsNext
<1>4. Limbo' \subseteq Limbo
  BY <1>1, <1>2, ViewFacts, ViewFactsNext, EmptyFacts
<1>5. Loose' => Loose
  BY <1>1, <1>2, ViewFacts, ViewFactsNext, EmptyFacts
<1>6. Damaged' = Damaged
  <2>1. ~Damaged'
    BY ViewFacts, ViewFactsNext DEF Open, Create
  <2> QED
    BY <2>1, ImageTypes
<1>7. up' = TRUE
  BY DEF Open, Create
<1> QED
  BY <1>1, <1>2, <1>3, <1>4, <1>5, <1>6, <1>7 DEF Log!Next, Log!Open

(* The name of a new file is made durable, or not.                         *)
LEMMA LogNames ==
    ASSUME Inductive, ~Damaged, CreateSyncDir
    PROVE  Log!Next
<1> USE DEF Inductive
<1>1. up /\ up' = up /\ op.at = "created" /\ op'.at = "idle"
      /\ records' = records /\ acked' = acked
  BY Types DEF CreateSyncDir
<1>2. View' = View /\ Left' \subseteq Left
  BY <1>1, ViewFacts, ViewFactsNext DEF CreateSyncDir, SyncParentDir, Left
<1>3. Removing = {} /\ Removing' = {}
  BY <1>1, ViewFacts, ViewFactsNext
<1>4. Limbo' \subseteq Limbo /\ (Loose' => Loose)
  BY <1>1, <1>2, ViewFacts, ViewFactsNext
<1>5. Damaged' = Damaged /\ (Exposed => Exposed')
  <2>1. ~Damaged' /\ (Exposed => Exposed')
    BY ViewFacts, ViewFactsNext DEF CreateSyncDir, SyncParentDir
  <2> QED
    BY <2>1, ImageTypes
<1> QED
  BY <1>1, <1>2, <1>3, <1>4, <1>5 DEF Log!Next, Log!Named

(* A record that is about to be written may show after a stop.             *)
LEMMA LogAttempts ==
    ASSUME Inductive, ~Damaged, NEW r \in Records, AppendBegin(r)
    PROVE  Log!Next
<1> USE DEF Inductive
<1>1. /\ up /\ op.at = "idle" /\ r \notin Range(used)
      /\ op'.at = "writing" /\ op'.arg = <<r>>
      /\ UNCHANGED <<up, records, file, inode, stale, acked, damage>>
  BY Types DEF AppendBegin, disk
<1>2. Left' = Left /\ View' = View /\ View = records
  BY <1>1, ViewFacts, ViewFactsNext DEF Left
<1>3. r \notin Range(View)
  BY <1>1, <1>2 DEF UsedOK
<1>4. Limbo' = Limbo \cup {r}
  <2>1. Range(op'.arg) = {r}
    BY <1>1, RangeFacts
  <2>2. \A x : x \in Limbo' <=> x \in Limbo \/ x = r
    BY <1>1, <1>2, <1>3, <2>1, ViewFacts, ViewFactsNext
  <2> QED
    BY <2>2
<1>5. Removing = {} /\ Removing' = {}
  BY <1>1, ViewFacts, ViewFactsNext
<1>6. Loose' = Loose /\ Damaged' = Damaged /\ Exposed' = Exposed
  BY <1>1, <1>2 DEF Loose, Damaged, Exposed
<1>7. Log!Attempt(r)
  BY <1>1, <1>2, <1>3, <1>4, <1>5, <1>6, SameFilter DEF Log!Attempt
<1> QED
  BY <1>7 DEF Log!Next

(* A write adds nothing to what may show, and damages the log only if it   *)
(* goes after a line that is not terminated.                               *)
LEMMA LogWrites ==
    ASSUME Inductive, ~Damaged, AppendWrite \/ AppendWriteFails
    PROVE  Log!Next
<1> USE DEF Inductive
<1>1. /\ op.at = "writing" /\ op'.at \in {"written", "idle"} /\ up
      /\ UNCHANGED <<up, records, acked, stale>>
      /\ damage' = damage \cup Glued
  BY Types DEF AppendWrite, AppendWriteFails, Operations
<1>2. PICK r : r = op.arg[1]
  OBVIOUS
<1>3. PICK N : N = Partly(file, r) \cup {Extend(file, r)}
  OBVIOUS
<1>4. \A g \in inode' : g \in inode \/ g \in N
  <2>1. CASE AppendWriteFails
    BY <1>1, <1>2, <1>3, <2>1, WritesPartly DEF AppendWriteFails
  <2>2. CASE AppendWrite
    BY <1>2, <1>3, <2>2 DEF AppendWrite
  <2> QED
    BY <2>1, <2>2
<1>5. r \in Records /\ Range(op.arg) = {r}
  BY <1>1, <1>2, Appending, RangeFacts
<1>6. file \in Files /\ file \in Left /\ file.tail # NoFile
  BY <1>1, CleanFacts DEF TypeOK
<1>7. \A g \in N : Seen(g) \subseteq Seen(file) \cup {r}
  BY <1>3, <1>5, <1>6, WriteFacts
<1>8. "unnamed" \in damage' <=> "unnamed" \in damage
  BY <1>1 DEF Glued
<1>9. \A g \in Left' : g \in Left \/ g \in N
  BY <1>1, <1>4, <1>8 DEF Left
<1>10. View' = View
  BY <1>1, ViewFacts, ViewFactsNext
<1>11. Limbo' \subseteq Limbo
  BY <1>1, <1>5, <1>6, <1>7, <1>9, <1>10, ViewFacts, ViewFactsNext
<1>12. Removing = {} /\ Removing' = {}
  BY <1>1, ViewFacts, ViewFactsNext
<1>13. Exposed' = Exposed
  BY <1>8 DEF Exposed
<1>14. CASE Damaged'
  <2>1. "glued" \in damage' /\ "glued" \notin damage
    BY <1>1, <1>14, ViewFacts, ViewFactsNext DEF Glued
  <2>2. file.tail # NoTail
    BY <1>1, <2>1 DEF Glued
  <2>3. Loose
    BY <1>6, <2>2, ViewFacts
  <2> QED
    BY <1>1, <1>12, <1>14, <2>3 DEF Log!Next, Log!Write
<1>15. CASE ~Damaged'
  <2>1. Damaged' = Damaged
    BY <1>15, ImageTypes
  <2> QED
    BY <1>1, <1>10, <1>11, <1>12, <1>13, <2>1 DEF Log!Next, Log!Write
<1> QED
  BY <1>14, <1>15

(* The sync acknowledges the record, at the end of the log.                *)
LEMMA LogAcknowledges ==
    ASSUME Inductive, ~Damaged, AppendSync
    PROVE  Log!Next
<1> USE DEF Inductive
<1>1. PICK r : r = op.arg[1]
  OBVIOUS
<1>2. /\ op.at = "written" /\ op'.at = "idle" /\ up
      /\ records' = Append(records, r) /\ acked' = acked \cup {r}
      /\ inode' = (IF handle = "path" THEN {file} ELSE inode)
      /\ UNCHANGED <<up, file, stale, damage>>
  BY <1>1, Types DEF AppendSync
<1>3. r \in Records /\ r \notin Range(records)
  BY <1>1, <1>2, Appending
<1>4. View = records /\ View' = Append(records, r)
  BY <1>2, ViewFacts, ViewFactsNext
<1>5. Range(View') = Range(records) \cup {r}
  BY <1>3, <1>4, RangeFacts DEF TypeOK
<1>6. handle = "path" /\ file \in Left /\ Left = inode
  BY <1>2, CleanFacts
<1>7. Left' \subseteq Left
  BY <1>2, <1>6 DEF Left
<1>8. r \in Seen(file)
  <2>1. r \in Range(file.lines)
    BY <1>1, <1>2, ViewFacts DEF CleanOK
  <2> QED
    BY <1>3, <2>1 DEF Seen
<1>9. r \in Limbo
  BY <1>3, <1>4, <1>6, <1>8, ViewFacts
<1>10. Limbo' \subseteq Limbo \ {r} /\ (Loose' => Loose)
  BY <1>2, <1>4, <1>5, <1>7, ViewFacts, ViewFactsNext
<1>11. Removing = {} /\ Removing' = {}
  BY <1>2, ViewFacts, ViewFactsNext
<1>12. Damaged' = Damaged /\ Exposed' = Exposed
  BY <1>2 DEF Damaged, Exposed
<1>13. Log!Acknowledge(r)
  BY <1>2, <1>4, <1>9, <1>10, <1>11, <1>12 DEF Log!Acknowledge
<1> QED
  BY <1>3, <1>13 DEF Log!Next

(* The truncation and the rename begin a removal, which can be undone only *)
(* as a whole.                                                             *)
LEMMA LogBegins ==
    ASSUME Inductive, ~Damaged, DrainTruncate \/ CompactRename
    PROVE  Log!Next
<1> USE DEF Inductive
<1>1. /\ up /\ op.at \in {"idle", "copied"} /\ op'.at \in {"truncated", "renamed"}
      /\ UNCHANGED <<up, records, acked, damage>>
  BY Types DEF DrainTruncate, CompactRename, Operations
<1>2. View = records /\ View' = View
  BY <1>1, ViewFacts, ViewFactsNext
<1>3. Removing = {} /\ Removing' = {Leaving'}
  BY <1>1, ViewFacts, ViewFactsNext
<1>4. PICK f : f = file'
  OBVIOUS
<1>5. /\ \A g \in Left' : g \in Left \/ g = f
      /\ f.tail = NoTail /\ Seen(f) \subseteq Range(records)
      /\ Leaving' \subseteq Range(records)
  <2>1. CASE DrainTruncate
    <3>1. f = Empty /\ inode' = inode \cup {f} /\ stale' = stale
      BY <1>1, <1>4, <2>1, CleanFacts DEF DrainTruncate
    <3>2. Leaving' = Range(records)
      BY <1>1, <2>1 DEF DrainTruncate, Leaving
    <3> QED
      BY <1>1, <3>1, <3>2, EmptyFacts DEF Left
  <2>2. CASE CompactRename
    <3>1. /\ f = Content(op.arg) /\ inode' = {f} /\ stale' = stale \cup inode
          /\ op.at = "copied" /\ op' = [op EXCEPT !.at = "renamed"]
      BY <1>4, <2>2 DEF CompactRename
    <3>2. f.tail = NoTail /\ Seen(f) \subseteq Range(records)
      BY <3>1, Survivors
    <3>3. op'.at = "renamed"
      BY <3>1, Types DEF Operations
    <3>4. Leaving' \subseteq Range(records)
      BY <1>1, <3>3 DEF Leaving
    <3> QED
      BY <1>1, <3>1, <3>2, <3>4 DEF Left
  <2> QED
    BY <2>1, <2>2
<1>6. Limbo' \subseteq Limbo /\ (Loose' => Loose)
  BY <1>1, <1>2, <1>5, ViewFacts, ViewFactsNext
<1>7. Damaged' = Damaged /\ Exposed' = Exposed
  BY <1>1 DEF Damaged, Exposed
<1>8. Log!BeginRemove(Leaving')
  BY <1>1, <1>2, <1>3, <1>6, <1>7 DEF Log!BeginRemove
<1>9. Leaving' \in SUBSET Log!Range(View)
  BY <1>2, <1>5, SameFilter
<1> QED
  BY <1>8, <1>9 DEF Log!Next

(* After the directory's sync nothing of the old file is to come back.     *)
LEMMA LogSettles ==
    ASSUME Inductive, ~Damaged, CompactSyncDir
    PROVE  Log!Next
<1> USE DEF Inductive
<1>1. /\ up /\ op.at = "renamed" /\ op'.at = "named" /\ op'.arg = op.arg
      /\ stale' = (IF HasParent THEN {} ELSE stale)
      /\ damage' = (IF HasParent THEN damage ELSE damage \cup {"unnamed"})
      /\ UNCHANGED <<up, records, acked, file, inode>>
  BY Types DEF CompactSyncDir, SyncParentDir, Operations
<1>2. View = records /\ View' = View
  BY <1>1, ViewFacts, ViewFactsNext
<1>3. /\ inode = {file} /\ file.tail = NoTail /\ Seen(file) \subseteq Range(records)
  BY <1>1, Survivors DEF OperationOK
<1>4. Left' = {file}
  BY <1>1, <1>3 DEF Left
<1>5. Limbo' = {} /\ ~Loose'
  BY <1>1, <1>2, <1>3, <1>4, ViewFactsNext
<1>6. Leaving' = Leaving
  BY <1>1 DEF Leaving
<1>7. Removing = {Leaving} /\ Removing' = Removing
  BY <1>1, <1>6, ViewFacts, ViewFactsNext
<1>8. ~Damaged'
  BY <1>1, ViewFacts, ViewFactsNext
<1>9. Damaged' = Damaged /\ Loose' = FALSE
  BY <1>5, <1>8, ImageTypes
<1>10. Log!Settle
  BY <1>1, <1>2, <1>5, <1>7, <1>9 DEF Log!Settle
<1> QED
  BY <1>10 DEF Log!Next

(* The records leave memory, and nothing of them may show.                 *)
LEMMA LogRemoves ==
    ASSUME Inductive, ~Damaged, DrainSync \/ CompactReopen
    PROVE  Log!Next
<1> USE DEF Inductive
<1>1. /\ up /\ op.at \in {"truncated", "named"} /\ op'.at = "idle"
      /\ acked' = acked \ Leaving
      /\ UNCHANGED <<up, stale, file, damage>>
  BY Types DEF DrainSync, CompactReopen, Removed, disk
<1>2. View = records /\ View' = records' /\ records \in Seq(Records)
  BY <1>1, ViewFacts, ViewFactsNext DEF TypeOK
<1>3. Removing = {Leaving} /\ Removing' = {}
  BY <1>1, ViewFacts, ViewFactsNext
<1>4. PICK R : R = Range(records)
  OBVIOUS
<1>5. /\ records' = Filter(records, R \ Leaving)
      /\ Left' = {file} /\ file.tail = NoTail /\ Seen(file) \subseteq Range(records')
  <2>1. CASE DrainSync
    <3>1. op.at = "truncated" /\ records' = <<>> /\ Leaving = R /\ handle = "path"
      BY <1>4, <2>1, CleanFacts DEF DrainSync, Removed, Leaving
    <3>2. file = Empty /\ inode' = {file} /\ Left = inode
      BY <1>1, <2>1, <3>1, CleanFacts DEF DrainSync, OperationOK
    <3>3. Left' = {file}
      BY <1>1, <3>1, <3>2, ViewFacts DEF Left, NameOK
    <3>4. Filter(records, {}) = <<>>
      BY <1>2, FilterNone
    <3>5. R \ Leaving = {}
      BY <3>1
    <3> QED
      BY <3>1, <3>2, <3>3, <3>4, <3>5, EmptyFacts
  <2>2. CASE CompactReopen
    <3>1. op.at = "named" /\ records' = op.arg /\ inode' = inode
      BY <2>2 DEF CompactReopen, Removed, disk
    <3>2. Leaving = R \ Range(op.arg)
      BY <1>4, <3>1 DEF Leaving
    <3>3. /\ op.arg = Filter(records, Range(op.arg)) /\ Range(op.arg) \subseteq R
          /\ file = Content(op.arg) /\ inode = {file}
          /\ file.tail = NoTail /\ Seen(file) = Range(op.arg)
      BY <1>4, <3>1, Survivors DEF OperationOK
    <3>4. Left' = {file}
      BY <1>1, <3>1, <3>3, ViewFacts DEF Left, NameOK
    <3>5. R \ Leaving = Range(op.arg)
      BY <3>2, <3>3
    <3> QED
      BY <3>1, <3>3, <3>4, <3>5
  <2> QED
    BY <2>1, <2>2
<1>6. Limbo' = {} /\ ~Loose'
  BY <1>1, <1>2, <1>5, ViewFactsNext
<1>7. Damaged' = Damaged /\ Exposed' = Exposed /\ Loose' = FALSE
  BY <1>1, <1>6, ImageTypes DEF Damaged, Exposed
<1>8. Log!Range(View) = R /\ Log!Filter(View, R \ Leaving) = Filter(records, R \ Leaving)
  BY <1>2, <1>4, SameFilter
<1>9. View' = Log!Filter(View, Log!Range(View) \ Leaving)
  BY <1>2, <1>5, <1>8
<1>10. Log!FinishRemove
  BY <1>1, <1>3, <1>6, <1>7, <1>9 DEF Log!FinishRemove
<1> QED
  BY <1>10 DEF Log!Next

(* A removal that fails half-way ends the promise.                         *)
LEMMA LogRemovalFails ==
    ASSUME Inductive, ~Damaged,
           DrainSyncFails \/ (CompactFails /\ op.at \in {"renamed", "named"})
    PROVE  Log!Next
<1>1. Removing # {}
  BY ViewFacts DEF DrainSyncFails
<1>2. Damaged'
  BY ViewFactsNext DEF DrainSyncFails, CompactFails
<1>3. Damaged' = TRUE
  BY <1>2, ImageTypes
<1> QED
  BY <1>1, <1>3 DEF Log!Next, Log!RemovalFails

(* What a stop finds: the content it leaves is one that was to be expected *)
(* or, of an append that is cut short, one with a part of its record.      *)
LEMMA StopFacts ==
    ASSUME Inductive, ~Damaged, Kill \/ PowerLoss \/ CreateFails
    PROVE  /\ up' = FALSE /\ op'.at = "idle" /\ acked' = acked \ Leaving
           /\ Exposed' => Exposed
           /\ \A g \in Left' \cup {file'} :
                 \/ g \in Left
                 \/ op.at = "writing" /\ g \in Partly(file, op.arg[1])
                 \/ Damaged' /\ Exposed
           /\ Damaged' => \/ Exposed
                          \/ file.tail \notin {NoTail, NoFile}
                          \/ op.at = "writing"
                          \/ file' \in Left /\ file'.tail = Cut
<1> USE DEF Inductive
<1>1. damage \subseteq {"unnamed"} /\ file \in Left
  BY CleanFacts
<1>2. CASE Kill
  <2>1. /\ up /\ up' = FALSE /\ op' = Idle /\ acked' = acked \ Leaving
        /\ damage' = damage \cup Glued \cup Unreadable /\ stale' = stale
    BY <1>2 DEF Kill, Stop
  <2>2. "unnamed" \in damage' <=> "unnamed" \in damage
    BY <2>1 DEF Glued, Unreadable
  <2>3. \A g \in inode' \cup {file'} :
           g \in inode \/ (op.at = "writing" /\ g \in Partly(file, op.arg[1]))
    <3>1. CASE op.at = "writing"
      BY <1>2, <3>1, WritesPartly DEF Kill
    <3>2. CASE op.at # "writing"
      BY <1>2, <3>2 DEF Kill, OperationOK
    <3> QED
      BY <3>1, <3>2
  <2>4. \A g \in Left' \cup {file'} :
           g \in Left \/ (op.at = "writing" /\ g \in Partly(file, op.arg[1]))
    BY <2>1, <2>2, <2>3 DEF Left
  <2>5. file.tail # NoFile
    BY <2>1 DEF TypeOK
  <2>6. Damaged' => file.tail \notin {NoTail, NoFile} \/ file'.tail = Cut
    BY <1>1, <2>1, <2>5, ViewFactsNext DEF Glued, Unreadable
  <2> QED
    BY <2>1, <2>2, <2>4, <2>6, ViewFacts, ViewFactsNext DEF Idle
<1>3. CASE PowerLoss
  <2>1. PICK f \in inode \cup stale : file' = f
    BY <1>3 DEF PowerLoss
  <2>2. /\ up' = FALSE /\ op' = Idle /\ acked' = acked \ Leaving
        /\ inode' = {f} /\ stale' = {}
        /\ damage' = (damage \ {"unnamed"})
                        \cup (IF f.tail = Cut THEN {"cut"} ELSE {})
                        \cup (IF "unnamed" \in damage /\ f \notin inode
                              THEN {"forgotten"} ELSE {})
    BY <1>3, <2>1 DEF PowerLoss, Stop, Unreadable
  <2>3. Left' = {f} /\ "unnamed" \notin damage'
    BY <2>2 DEF Left
  <2>4. f \in Left \/ (Damaged' /\ Exposed)
    BY <2>1, <2>2, ViewFacts, ViewFactsNext DEF Left
  <2>5. Damaged' => Exposed \/ f.tail = Cut
    BY <1>1, <2>2, ViewFacts, ViewFactsNext
  <2> QED
    BY <2>1, <2>2, <2>3, <2>4, <2>5, ViewFacts, ViewFactsNext DEF Idle
<1>4. CASE CreateFails
  <2>1. /\ op.at = "created" /\ up' = FALSE /\ op' = Idle /\ acked' = acked
        /\ UNCHANGED <<file, inode, stale, damage>>
    BY <1>4 DEF CreateFails, disk
  <2>2. Leaving = {} /\ Left' = Left
    BY <2>1, ViewFacts DEF Left
  <2> QED
    BY <1>1, <2>1, <2>2, ViewFacts, ViewFactsNext DEF Idle
<1> QED
  BY <1>2, <1>3, <1>4

(* Every step keeps the invariant, a stop too.                             *)
LEMMA StopKeeps ==
    ASSUME Inductive, Kill \/ PowerLoss \/ CreateFails
    PROVE  Inductive'
BY KillStep, PowerLossStep, CreateFailsStep

(* A stop leaves what the log may leave, or ends the promise for a reason. *)
LEMMA LogStops ==
    ASSUME Inductive, ~Damaged, Kill \/ PowerLoss \/ CreateFails
    PROVE  Log!Next
<1> USE DEF Inductive
<1>1. /\ up' = FALSE /\ op'.at = "idle" /\ acked' = acked \ Leaving
      /\ Exposed' => Exposed
  BY StopFacts
<1>2. op.at = "writing" =>
         /\ up /\ Range(op.arg) = {op.arg[1]} /\ op.arg[1] \in Records
         /\ op.arg[1] \notin Range(records)
  <2>1. SUFFICES ASSUME op.at = "writing"
                 PROVE  /\ up /\ Range(op.arg) = {op.arg[1]} /\ op.arg[1] \in Records
                        /\ op.arg[1] \notin Range(records)
    OBVIOUS
  <2>2. op.arg = <<op.arg[1]>> /\ op.arg[1] \in Records
        /\ op.arg[1] \notin Range(records)
    BY <2>1, Appending
  <2>3. Range(<<op.arg[1]>>) = {op.arg[1]}
    BY RangeFacts
  <2>4. Range(op.arg) = {op.arg[1]}
    BY <2>2, <2>3
  <2> QED
    BY <2>1, <2>2, <2>4, Types
<1>3. op.at = "writing" => op.arg[1] \in Limbo
  BY <1>2, ViewFacts
<1>4. file \in Files /\ file \in Left
  BY CleanFacts
<1>5. CASE Damaged'
  <2>1. Loose \/ Limbo # {} \/ Exposed
    BY <1>3, <1>4, <1>5, StopFacts, ViewFacts, Markers
  <2> QED
    BY <1>1, <1>5, <2>1 DEF Log!Next, Log!Stop
<1>6. CASE ~Damaged'
  <2>1. \A g \in Left' \cup {file'} :
           g \in Left \/ (op.at = "writing" /\ g \in Partly(file, op.arg[1]))
    BY <1>6, StopFacts
  <2>2. \A g \in Left' \cup {file'} : Seen(g) \subseteq Range(View) \cup Limbo
    <3>1. SUFFICES ASSUME NEW g \in Left' \cup {file'}, NEW x \in Seen(g)
                   PROVE  x \in Range(View) \cup Limbo
      OBVIOUS
    <3>2. CASE g \in Left
      BY <3>1, <3>2, ViewFacts
    <3>3. CASE op.at = "writing" /\ g \in Partly(file, op.arg[1])
      <4>1. file.tail # NoFile
        BY <1>2, <3>3 DEF TypeOK
      <4>2. Seen(g) \subseteq Seen(file) \cup {op.arg[1]}
        BY <1>2, <1>4, <3>3, <4>1, WriteFacts
      <4> QED
        BY <1>3, <1>4, <3>1, <3>3, <4>2, ViewFacts
    <3> QED
      BY <2>1, <3>2, <3>3
  <2>3. Limbo' \subseteq Limbo \cup Range(View)
    BY <1>1, <2>2, ViewFactsNext
  <2>4. PICK f : f = file'
    OBVIOUS
  <2>5. /\ TypeOK' /\ CleanOK' /\ damage' \subseteq {"unnamed"} /\ f \in Left'
    <3>1. f \in inode'
      BY <2>4, StopKeeps DEF OperationOK
    <3> QED
      BY <1>6, <2>4, <3>1, StopKeeps, ViewFactsNext DEF Left
  <2>6. /\ f \in Files /\ f.tail # Cut
        /\ Bad \notin Range(f.lines) /\ Ordered(used', Whole(f))
    BY <1>1, <2>4, <2>5 DEF TypeOK, CleanOK, Good
  <2>7. used' = used
    BY DEF Kill, PowerLoss, CreateFails, Stop
  <2>8. PICK w : w = View'
    OBVIOUS
  <2>9. w = ReadBack(f)
    BY <1>1, <2>4, <2>8, ViewFactsNext
  <2>10. w \in Seq(Records) /\ Ordered(used, w) /\ Range(w) = Seen(f)
    BY <2>6, <2>7, <2>9, ReadBackFacts
  <2>11. Range(w) \subseteq Range(View) \cup Limbo
    BY <2>2, <2>4, <2>10
  <2>12. Filter(w, Range(View)) = Filter(View, Range(w))
    BY <2>10, CleanFacts, OrderedFacts DEF TypeOK
  <2>13. Kept(acked, Leaving, f)
    <3>1. CASE f \in Left
      BY <3>1, CleanFacts DEF Good
    <3>2. CASE f \notin Left
      <4>1. op.at = "writing" /\ f \in Partly(file, op.arg[1])
        BY <2>1, <2>4, <3>2
      <4>2. f # file
        BY <1>4, <3>2
      <4>3. "glued" \notin damage'
        BY <2>5
      <4>4. Kill
        <5>1. CASE PowerLoss
          <6>1. f \in stale /\ f \notin inode /\ "unnamed" \in damage
            BY <2>4, <3>2, <5>1 DEF PowerLoss, Left
          <6>2. "forgotten" \in damage'
            BY <2>4, <5>1, <6>1 DEF PowerLoss
          <6> QED
            BY <2>5, <6>2
        <5> QED
          BY <4>1, <5>1 DEF CreateFails
      <4>5. file.tail = NoTail
        BY <2>4, <4>2, <4>3, <4>4 DEF Kill, Glued
      <4>6. Good(used, acked, {}, f) /\ Leaving = {}
        BY <4>1, <4>5, CleanFacts, NewContent, ViewFacts
      <4> QED
        BY <4>6 DEF Good
    <3> QED
      BY <3>1, <3>2
  <2>14. \/ acked \subseteq Range(w)
         \/ \E S \in Removing : acked \ S \subseteq Range(w) /\ S \cap Range(w) = {}
    <3>1. CASE Removing = {Leaving}
      BY <2>10, <2>13, <3>1 DEF Kept
    <3>2. CASE Leaving = {}
      BY <2>10, <2>13, <3>2 DEF Kept
    <3> QED
      BY <3>1, <3>2, ViewFacts
  <2>15. UNION Removing = Leaving
    <3>1. CASE Removing = {Leaving}
      BY <3>1
    <3>2. CASE Removing = {} /\ Leaving = {}
      BY <3>2
    <3> QED
      BY <3>1, <3>2, ViewFacts
  <2>16. Damaged' = Damaged /\ Removing' = {}
    BY <1>1, <1>6, ImageTypes, ViewFactsNext
  <2>17. Log!MayLeave(w)
    BY <2>11, <2>12, <2>14, SameFilter DEF Log!MayLeave
  <2>18. Log!MayLeave(View')
    BY <2>8, <2>17
  <2> QED
    BY <1>1, <2>3, <2>15, <2>16, <2>18, SameFilter DEF Log!Next, Log!Stop
<1> QED
  BY <1>5, <1>6

(* Every step of the store is a step of the log, or changes nothing in it. *)
LEMMA LogStep ==
    ASSUME Inductive, [Next]_vars
    PROVE  [Log!Next]_(Log!vars)
<1>1. CASE UNCHANGED vars
  <2>1. UNCHANGED <<up, records, file, inode, stale, acked, damage, op>>
    BY <1>1 DEF vars, disk
  <2>2. Left' = Left /\ Removing' = Removing
    BY <2>1 DEF Left, Removing, Leaving
  <2> QED
    BY <2>1, <2>2, LogStutters
<1>2. CASE Next /\ Damaged
  BY <1>2, DamageStays DEF Log!Next
<1>3. CASE Next /\ ~Damaged
  <2>1. CASE AppendSyncFails
    <3>1. /\ op.at = "written" /\ op'.at = "idle"
          /\ UNCHANGED <<up, records, file, inode, stale, acked, damage>>
      BY <2>1 DEF AppendSyncFails, Idle, disk
    <3>2. Left' = Left /\ Removing' = Removing
      BY <3>1, ViewFacts, ViewFactsNext DEF Left
    <3> QED
      BY <3>1, <3>2, LogStutters
  <2>2. CASE \E S \in SUBSET Range(records) : CompactCopy(S)
    <3>1. /\ op.at = "idle" /\ op'.at = "copied"
          /\ UNCHANGED <<up, records, file, inode, stale, acked, damage>>
      BY <2>2 DEF CompactCopy, Idle, disk
    <3>2. Left' = Left /\ Removing' = Removing
      BY <3>1, ViewFacts, ViewFactsNext DEF Left
    <3> QED
      BY <3>1, <3>2, LogStutters
  <2>3. CASE CompactFails /\ op.at = "copied"
    <3>1. /\ op.at = "copied" /\ op'.at = "idle"
          /\ UNCHANGED <<up, records, file, inode, stale, acked, damage>>
      BY <2>3 DEF CompactFails, Idle, disk
    <3>2. Left' = Left /\ Removing' = Removing
      BY <3>1, ViewFacts, ViewFactsNext DEF Left
    <3> QED
      BY <3>1, <3>2, LogStutters
  <2>4. CASE CompactFails /\ op.at # "copied"
    BY <1>3, <2>4, LogRemovalFails DEF CompactFails
  <2>5. CASE \E r \in Records : AppendBegin(r)
    BY <1>3, <2>5, LogAttempts
  <2>6. CASE \/ Open \/ Create \/ CreateSyncDir \/ AppendWrite \/ AppendWriteFails
             \/ AppendSync \/ DrainTruncate \/ CompactRename \/ CompactSyncDir
             \/ DrainSync \/ CompactReopen \/ DrainSyncFails
    BY <1>3, <2>6, LogOpens, LogNames, LogWrites, LogAcknowledges, LogBegins,
       LogSettles, LogRemoves, LogRemovalFails
  <2>7. CASE Kill \/ PowerLoss \/ CreateFails
    BY <1>3, <2>7, LogStops
  <2> QED
    BY <1>3, <2>1, <2>2, <2>3, <2>4, <2>5, <2>6, <2>7 DEF Next
<1> QED
  BY <1>1, <1>2, <1>3

(* The store implements the atomic log: what its users see, open or after  *)
(* a stop at any point, holds what was acknowledged, in its order, and a   *)
(* removal is all or nothing, until one of the ways to damage it happens.  *)
THEOREM RefinesDurableLog == Spec => ImplementsDurableLog
<1>1. Inductive /\ [Next]_vars => [Log!Next]_(Log!vars)
  BY LogStep
<1> QED
  BY <1>1, LogInit, Invariance, PTL DEF Spec, ImplementsDurableLog, Log!Spec

=============================================================================
