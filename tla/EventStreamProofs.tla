-------------------------- MODULE EventStreamProofs --------------------------
(***************************************************************************)
(* What EventStream keeps true for logs of any length and any number of    *)
(* lost connections.                                                       *)
(*                                                                         *)
(* Numbering and InOrder say where the numbers of the page, of the host    *)
(* and of what is under way stand to each other; Told says that what a     *)
(* connection owes the page was received or is under way.                  *)
(***************************************************************************)
EXTENDS EventStream, TLAPS, SequenceTheorems, FiniteSetTheorems

Covered(frames) == UNION {frames[i].covers : i \in 1..Len(frames)}

EndsOnce == \A i \in 1..Len(log) : log[i] \in Ends => i = Len(log)

Numbering ==
  /\ conn # "open" => wire = <<>>
  /\ conn \in {"asking", "reading"} => asked = lastId
  /\ conn = "open" => asked <= lastId
  /\ page = "session" /\ conn = "open" =>
       /\ asked <= nextId /\ lastId <= nextId
       /\ \A i \in 1..Len(wire) : wire[i].id <= nextId

InOrder ==
  page = "task" =>
    /\ lastId <= Len(log) /\ conn # "reading"
    /\ conn = "open" =>
         /\ Len(wire) <= Len(log)
         /\ \A i \in 1..Len(wire) : wire[i].id = Len(log) - Len(wire) + i
         /\ lastId > 0 => lastId = Len(log) - Len(wire)

Told ==
  conn = "open" =>
    /\ (from + 1)..Len(log) \subseteq heard \cup Covered(wire)
    /\ page = "session" =>
         /\ detail <= told
         /\ TextIn(log, detail + 1, told) \subseteq heard \cup Covered(wire)
    /\ page = "session" /\ asked = 0 => 1..detail \subseteq heard \cup Covered(wire)

Inv == StreamTypeOK /\ EndsOnce /\ NumbersRise /\ Numbering /\ InOrder /\ Told

USE StreamAssumption

-----------------------------------------------------------------------------
(* Frames.                                                                 *)

FrameKind == Kind \cup {"started", "over", "completed"}

Unnumbered(n) == [kind : FrameKind, covers : SUBSET (1..n)]

FramesOf(n) == [id : Nat, kind : FrameKind, covers : SUBSET (1..n)]

(* What two sequences of frames cover is what their concatenation covers. *)
LEMMA CoveredByBoth ==
  ASSUME NEW S, NEW s \in Seq(S), NEW t \in Seq(S)
  PROVE  /\ s \o t \in Seq(S)
         /\ Covered(s \o t) = Covered(s) \cup Covered(t)
<1>1. /\ s \o t \in Seq(S)
      /\ Len(s \o t) = Len(s) + Len(t)
      /\ \A i \in 1..(Len(s) + Len(t)) :
           (s \o t)[i] = IF i <= Len(s) THEN s[i] ELSE t[i - Len(s)]
  BY ConcatProperties
<1>2. Len(s) \in Nat /\ Len(t) \in Nat
  OBVIOUS
<1>3. ASSUME NEW x \in Covered(s \o t) PROVE x \in Covered(s) \cup Covered(t)
  <2>1. PICK i \in 1..(Len(s) + Len(t)) : x \in (s \o t)[i].covers
    BY <1>1, <1>3 DEF Covered
  <2>2. CASE i <= Len(s)
    <3>1. i \in 1..Len(s) /\ x \in s[i].covers
      BY <1>1, <1>2, <2>1, <2>2
    <3> QED
      BY <3>1 DEF Covered
  <2>3. CASE i > Len(s)
    <3>1. i - Len(s) \in 1..Len(t) /\ x \in t[i - Len(s)].covers
      BY <1>1, <1>2, <2>1, <2>3
    <3> QED
      BY <3>1 DEF Covered
  <2> QED
    BY <1>2, <2>2, <2>3
<1>4. ASSUME NEW x \in Covered(s) PROVE x \in Covered(s \o t)
  <2>1. PICK i \in 1..Len(s) : x \in s[i].covers
    BY <1>4 DEF Covered
  <2>2. i \in 1..Len(s \o t) /\ x \in (s \o t)[i].covers
    BY <1>1, <1>2, <2>1
  <2> QED
    BY <2>2 DEF Covered
<1>5. ASSUME NEW x \in Covered(t) PROVE x \in Covered(s \o t)
  <2>1. PICK i \in 1..Len(t) : x \in t[i].covers
    BY <1>5 DEF Covered
  <2>2. Len(s) + i \in 1..Len(s \o t) /\ x \in (s \o t)[Len(s) + i].covers
    BY <1>1, <1>2, <2>1
  <2> QED
    BY <2>2 DEF Covered
<1> QED
  BY <1>1, <1>3, <1>4, <1>5

LEMMA CoveredByOne ==
  ASSUME NEW f
  PROVE  Covered(<<f>>) = f.covers
BY DEF Covered

LEMMA CoveredByNone == Covered(<<>>) = {}
BY DEF Covered

(* What was under way is received or still under way. *)
LEMMA CoveredByTail ==
  ASSUME NEW S, NEW s \in Seq(S), s # <<>>
  PROVE  Covered(s) \subseteq Head(s).covers \cup Covered(Tail(s))
<1>1. /\ Len(Tail(s)) = Len(s) - 1
      /\ \A i \in 1..Len(Tail(s)) : Tail(s)[i] = s[i + 1]
  BY HeadTailProperties
<1> SUFFICES ASSUME NEW x \in Covered(s), x \notin s[1].covers
             PROVE  x \in Covered(Tail(s))
  OBVIOUS
<1>2. PICK i \in 1..Len(s) : x \in s[i].covers
  BY DEF Covered
<1>3. i - 1 \in 1..Len(Tail(s)) /\ x \in Tail(s)[i - 1].covers
  BY <1>1, <1>2
<1> QED
  BY <1>3 DEF Covered

LEMMA FramesAre == Frames = FramesOf(Len(log))
BY DEF Frames, FramesOf, FrameKind, Entries

LEMMA FramesGrow ==
  ASSUME NEW m \in Nat, NEW n \in Nat, m <= n, NEW s \in Seq(FramesOf(m))
  PROVE  s \in Seq(FramesOf(n))
<1>1. 1..m \subseteq 1..n
  OBVIOUS
<1>2. FramesOf(m) \subseteq FramesOf(n)
  BY <1>1 DEF FramesOf
<1> QED
  BY <1>2, SeqMonotonic

LEMMA NumbersAreNat ==
  ASSUME NEW n \in Nat, NEW s \in Seq(FramesOf(n)), NEW i \in 1..Len(s)
  PROVE  s[i].id \in Nat
<1>1. s[i] \in FramesOf(n)
  BY ElementOfSeq
<1> QED
  BY <1>1 DEF FramesOf

(* Two sequences of frames whose numbers rise, one after the other.        *)
LEMMA RiseTogether ==
  ASSUME NEW n \in Nat, NEW s \in Seq(FramesOf(n)), NEW t \in Seq(FramesOf(n)), NEW low \in Nat,
         \A i \in 1..Len(s) : s[i].id > low,
         \A i \in 1..Len(t) : t[i].id > low,
         \A i, j \in 1..Len(s) : i < j => s[i].id < s[j].id,
         \A i, j \in 1..Len(t) : i < j => t[i].id < t[j].id,
         \A i \in 1..Len(s), j \in 1..Len(t) : s[i].id < t[j].id
  PROVE  /\ \A i \in 1..Len(s \o t) : (s \o t)[i].id > low
         /\ \A i, j \in 1..Len(s \o t) : i < j => (s \o t)[i].id < (s \o t)[j].id
<1>1. /\ Len(s \o t) = Len(s) + Len(t)
      /\ \A i \in 1..(Len(s) + Len(t)) :
           (s \o t)[i] = IF i <= Len(s) THEN s[i] ELSE t[i - Len(s)]
  BY ConcatProperties
<1>2. Len(s) \in Nat /\ Len(t) \in Nat
  OBVIOUS
<1>3. ASSUME NEW i \in 1..Len(s \o t)
      PROVE  \/ i \in 1..Len(s) /\ (s \o t)[i] = s[i]
             \/ i - Len(s) \in 1..Len(t) /\ i > Len(s) /\ (s \o t)[i] = t[i - Len(s)]
  BY <1>1, <1>2
<1>4. ASSUME NEW i \in 1..Len(s \o t) PROVE (s \o t)[i].id > low
  BY <1>3
<1>5. ASSUME NEW i \in 1..Len(s \o t), NEW j \in 1..Len(s \o t), i < j
      PROVE  (s \o t)[i].id < (s \o t)[j].id
  <2>1. CASE i \in 1..Len(s) /\ (s \o t)[i] = s[i] /\ j \in 1..Len(s) /\ (s \o t)[j] = s[j]
    BY <1>5, <2>1
  <2>2. CASE /\ i \in 1..Len(s) /\ (s \o t)[i] = s[i]
             /\ j - Len(s) \in 1..Len(t) /\ (s \o t)[j] = t[j - Len(s)]
    BY <2>2
  <2>3. CASE /\ i - Len(s) \in 1..Len(t) /\ (s \o t)[i] = t[i - Len(s)]
             /\ j - Len(s) \in 1..Len(t) /\ (s \o t)[j] = t[j - Len(s)]
    <3>1. i - Len(s) < j - Len(s)
      BY <1>2, <1>5
    <3> QED
      BY <2>3, <3>1
  <2>4. i > Len(s) => ~(j \in 1..Len(s))
    BY <1>2, <1>5
  <2> QED
    BY <1>3, <2>1, <2>2, <2>3, <2>4
<1> QED
  BY <1>4, <1>5

-----------------------------------------------------------------------------
(* What the host writes.                                                   *)

LEMMA DeltaCovers ==
  ASSUME NEW entries, NEW first \in Nat \ {0}, NEW last \in Nat
  PROVE  /\ Delta(entries, first, last) \in Seq(Unnumbered(last))
         /\ Covered(Delta(entries, first, last)) = TextIn(entries, first, last)
<1>1. TextIn(entries, first, last) \subseteq 1..last
  BY DEF TextIn
<1>2. Frame("text", TextIn(entries, first, last)) \in Unnumbered(last)
  BY <1>1 DEF Frame, Unnumbered, FrameKind, Kind, Ends
<1>3. CASE TextIn(entries, first, last) = {}
  BY <1>3, CoveredByNone DEF Delta
<1>4. CASE TextIn(entries, first, last) # {}
  <2>1. Delta(entries, first, last) = <<Frame("text", TextIn(entries, first, last))>>
    BY <1>4 DEF Delta
  <2> QED
    BY <2>1, <1>2, CoveredByOne DEF Frame
<1> QED
  BY <1>3, <1>4

LEMMA EndingCovers ==
  ASSUME NEW n \in Nat \ {0}, NEW kind
  PROVE  Ending(kind, n) \in Seq(Unnumbered(n)) /\ Covered(Ending(kind, n)) = {n}
<1> DEFINE f == Frame("completed", {})
           g == Frame("end", {n})
           first == IF kind = "end" THEN <<f>> ELSE <<>>
<1>1. f \in Unnumbered(n) /\ g \in Unnumbered(n)
  BY DEF Frame, Unnumbered, FrameKind, Kind, Ends
<1>2. f.covers = {} /\ g.covers = {n}
  BY DEF Frame
<1>3. Ending(kind, n) = first \o <<g>>
  BY DEF Ending
<1> HIDE DEF f, g
<1>4. first \in Seq(Unnumbered(n)) /\ <<g>> \in Seq(Unnumbered(n))
  BY <1>1
<1>5. Covered(first) = {}
  <2>1. Covered(<<f>>) = {} /\ Covered(<<>>) = {}
    BY <1>2, CoveredByOne, CoveredByNone
  <2> QED
    BY <2>1
<1>6. Covered(<<g>>) = {n}
  BY <1>2, CoveredByOne
<1> HIDE DEF first
<1>7. Covered(first \o <<g>>) = Covered(first) \cup Covered(<<g>>)
  BY <1>4, CoveredByBoth
<1>8. first \o <<g>> \in Seq(Unnumbered(n))
  BY <1>4, CoveredByBoth
<1> QED
  BY <1>3, <1>5, <1>6, <1>7, <1>8

LEMMA ApprovalsCover ==
  ASSUME NEW entries \in Seq(Kind)
  PROVE  /\ Approvals(entries) \in Seq(Unnumbered(Len(entries)))
         /\ Covered(Approvals(entries)) = {i \in 1..Len(entries) : entries[i] = "approval"}
<1> DEFINE at == {i \in 1..Len(entries) : entries[i] = "approval"}
           upTo(i) == {j \in at : j <= i}
           frame(k) == Frame("approval", {i \in at : Cardinality(upTo(i)) = k})
<1>1. IsFiniteSet(at) /\ Cardinality(at) \in Nat
  <2>1. Len(entries) \in Nat /\ IsFiniteSet(1..Len(entries))
    BY FS_Interval
  <2>2. at \in SUBSET (1..Len(entries))
    OBVIOUS
  <2>3. IsFiniteSet(at)
    BY <2>1, <2>2, FS_Subset
  <2> QED
    BY <2>3, FS_CardinalityType
<1>2. Approvals(entries) = [k \in 1..Cardinality(at) |-> frame(k)]
  BY DEF Approvals
<1>3. \A k \in 1..Cardinality(at) : frame(k) \in Unnumbered(Len(entries))
  BY DEF Frame, Unnumbered, FrameKind, Kind, Ends
<1>4. /\ Approvals(entries) \in Seq(Unnumbered(Len(entries)))
      /\ Len(Approvals(entries)) = Cardinality(at)
  <2> HIDE DEF at, frame
  <2> QED
    BY <1>1, <1>2, <1>3
<1>5. ASSUME NEW i \in at PROVE Cardinality(upTo(i)) \in 1..Cardinality(at)
  <2>1. upTo(i) \in SUBSET at /\ i \in upTo(i)
    BY <1>5
  <2>2. IsFiniteSet(upTo(i)) /\ Cardinality(upTo(i)) <= Cardinality(at)
    BY <1>1, <2>1, FS_Subset
  <2>3. Cardinality(upTo(i)) \in Nat /\ Cardinality(upTo(i)) # 0
    BY <2>1, <2>2, FS_CardinalityType, FS_EmptySet
  <2> QED
    BY <1>1, <2>2, <2>3
<1>6. ASSUME NEW i \in at PROVE i \in Covered(Approvals(entries))
  <2> DEFINE k == Cardinality(upTo(i))
  <2>1. k \in 1..Len(Approvals(entries))
    BY <1>4, <1>5
  <2>2. Approvals(entries)[k] = frame(k)
    BY <1>2, <1>4, <2>1
  <2>3. frame(k).covers = {m \in at : Cardinality(upTo(m)) = k}
    BY DEF Frame
  <2>4. i \in Approvals(entries)[k].covers
    BY <2>2, <2>3
  <2> QED
    BY <2>1, <2>4 DEF Covered
<1>7. ASSUME NEW x \in Covered(Approvals(entries)) PROVE x \in at
  <2>1. PICK k \in 1..Len(Approvals(entries)) : x \in Approvals(entries)[k].covers
    BY <1>7 DEF Covered
  <2>2. x \in frame(k).covers
    BY <1>2, <1>4, <2>1
  <2> QED
    BY <2>2 DEF Frame
<1> QED
  BY <1>4, <1>6, <1>7

(* The snapshot of a session shows all of it. *)
LEMMA SnapshotCovers ==
  ASSUME NEW entries \in Seq(Kind),
         \A i \in 1..Len(entries) : entries[i] \in Ends => i = Len(entries)
  PROVE  /\ Snapshot(entries) \in Seq(Unnumbered(Len(entries)))
         /\ 1..Len(entries) \subseteq Covered(Snapshot(entries))
<1> DEFINE n == Len(entries)
           over == Over(entries)
           s1 == <<Frame(IF over THEN "over" ELSE "started", {})>>
           s2 == Delta(entries, 1, n)
           s3 == Approvals(entries)
           s4 == IF over THEN Ending(entries[n], n) ELSE <<>>
           U == Unnumbered(n)
<1>1. n \in Nat
  OBVIOUS
<1>2. s1 \in Seq(U)
  BY DEF Frame, Unnumbered, FrameKind, Kind, Ends
<1>3. s2 \in Seq(U) /\ Covered(s2) = TextIn(entries, 1, n)
  BY <1>1, DeltaCovers
<1>4. s3 \in Seq(U) /\ Covered(s3) = {i \in 1..n : entries[i] = "approval"}
  BY ApprovalsCover
<1>5. s4 \in Seq(U) /\ (over => Covered(s4) = {n})
  BY <1>1, EndingCovers DEF Over
<1>6. Snapshot(entries) = s1 \o s2 \o s3 \o s4
  BY DEF Snapshot
<1> DEFINE s12 == s1 \o s2
           s123 == s12 \o s3
<1> HIDE DEF s1, s2, s3, s4, U
<1>7. s12 \in Seq(U) /\ Covered(s2) \subseteq Covered(s12)
  BY <1>2, <1>3, CoveredByBoth
<1> HIDE DEF s12
<1>8. s123 \in Seq(U) /\ Covered(s123) = Covered(s12) \cup Covered(s3)
  BY <1>4, <1>7, CoveredByBoth
<1> HIDE DEF s123
<1>9. s123 \o s4 \in Seq(U) /\ Covered(s123 \o s4) = Covered(s123) \cup Covered(s4)
  BY <1>5, <1>8, CoveredByBoth
<1>10. ASSUME NEW i \in 1..n PROVE i \in Covered(s2) \cup Covered(s3) \cup Covered(s4)
  <2>1. entries[i] \in Kind
    BY ElementOfSeq
  <2>2. CASE entries[i] = "text"
    BY <1>3, <2>2 DEF TextIn
  <2>3. CASE entries[i] = "approval"
    BY <1>4, <2>3
  <2>4. CASE entries[i] \in Ends
    BY <1>5, <2>4 DEF Over
  <2> QED
    BY <2>1, <2>2, <2>3, <2>4 DEF Kind
<1> QED
  BY <1>6, <1>7, <1>8, <1>9, <1>10 DEF U, s12, s123

(* What is written of a new entry shows it, and all text before it if it   *)
(* is text itself or a completion.                                         *)
LEMMA LiveCovers ==
  ASSUME NEW entries \in Seq(Kind), NEW n \in Nat \ {0}, n = Len(entries), told \in Nat
  PROVE  /\ Live(entries, n) \in Seq(Unnumbered(n))
         /\ told < n => n \in Covered(Live(entries, n))
         /\ CatchesUp(entries[n]) =>
              TextIn(entries, told + 1, n) \subseteq Covered(Live(entries, n))
<1> DEFINE delta == Delta(entries, told + 1, n)
<1>1. delta \in Seq(Unnumbered(n)) /\ Covered(delta) = TextIn(entries, told + 1, n)
  BY DeltaCovers
<1>2. \A kind : Ending(kind, n) \in Seq(Unnumbered(n)) /\ Covered(Ending(kind, n)) = {n}
  BY EndingCovers
<1>3. entries[n] \in Kind
  BY ElementOfSeq
<1> HIDE DEF delta
<1>4. CASE entries[n] = "text"
  <2>1. Live(entries, n) = delta
    BY <1>4 DEF Live, delta
  <2> QED
    BY <2>1, <1>1, <1>4 DEF TextIn
<1>5. CASE entries[n] = "approval"
  <2>1. Live(entries, n) = <<Frame("approval", {n})>>
    BY <1>5 DEF Live
  <2>2. Frame("approval", {n}) \in Unnumbered(n)
    BY DEF Frame, Unnumbered, FrameKind, Kind, Ends
  <2>3. Covered(<<Frame("approval", {n})>>) = {n}
    BY CoveredByOne DEF Frame
  <2> QED
    BY <2>1, <2>2, <2>3, <1>5 DEF CatchesUp
<1>6. CASE entries[n] = "end"
  <2>1. Live(entries, n) = delta \o Ending("end", n)
    BY <1>6 DEF Live, delta
  <2>2. /\ delta \o Ending("end", n) \in Seq(Unnumbered(n))
        /\ Covered(delta \o Ending("end", n)) = Covered(delta) \cup Covered(Ending("end", n))
    BY <1>1, <1>2, CoveredByBoth
  <2> QED
    BY <2>1, <2>2, <1>1, <1>2
<1>7. CASE entries[n] = "stop"
  <2>1. Live(entries, n) = Ending("stop", n)
    BY <1>7 DEF Live
  <2> QED
    BY <2>1, <1>2, <1>7 DEF CatchesUp
<1> QED
  BY <1>3, <1>4, <1>5, <1>6, <1>7 DEF Kind, Ends

(* The numbers of what is written rise, and those of a connection that is  *)
(* ahead of the page skip nothing.                                         *)
LEMMA NumberedCovers ==
  ASSUME NEW n \in Nat, NEW frames \in Seq(Unnumbered(n)), NEW after \in Nat, asked \in Nat
  PROVE  /\ Numbered(frames, after) \in Seq(FramesOf(n))
         /\ \A i \in 1..Len(Numbered(frames, after)) :
              /\ Numbered(frames, after)[i].id > asked
              /\ Numbered(frames, after)[i].id > after
              /\ Numbered(frames, after)[i].id <= after + Len(frames)
         /\ \A i, j \in 1..Len(Numbered(frames, after)) :
              i < j => Numbered(frames, after)[i].id < Numbered(frames, after)[j].id
         /\ asked <= after => Covered(Numbered(frames, after)) = Covered(frames)
<1> DEFINE seen == IF asked > after THEN asked - after ELSE 0
           size == IF seen <= Len(frames) THEN Len(frames) - seen ELSE 0
           frame(i) == [id |-> after + seen + i,
                        kind |-> frames[seen + i].kind, covers |-> frames[seen + i].covers]
           ns == [i \in 1..size |-> frame(i)]
<1>1. seen \in Nat /\ size \in Nat /\ Len(frames) \in Nat
  OBVIOUS
<1>2. Numbered(frames, after) = ns
  <2>1. 1..(Len(frames) - seen) = 1..size
    BY <1>1
  <2> QED
    BY <2>1 DEF Numbered
<1>3. \A i \in 1..size : frame(i) \in FramesOf(n)
  <2> SUFFICES ASSUME NEW i \in 1..size PROVE frame(i) \in FramesOf(n)
    OBVIOUS
  <2>1. seen + i \in 1..Len(frames)
    BY <1>1
  <2>2. frames[seen + i] \in Unnumbered(n)
    BY <2>1, ElementOfSeq
  <2>3. after + seen + i \in Nat
    BY <1>1
  <2> QED
    BY <2>2, <2>3 DEF Unnumbered, FramesOf
<1>4. ns \in Seq(FramesOf(n)) /\ Len(ns) = size
  <2> HIDE DEF frame, size
  <2> QED
    BY <1>1, <1>3
<1>5. \A i \in 1..size : ns[i].id = after + seen + i
  OBVIOUS
<1>6. asked <= after => Covered(ns) = Covered(frames)
  <2> SUFFICES ASSUME asked <= after PROVE Covered(ns) = Covered(frames)
    OBVIOUS
  <2>1. seen = 0 /\ size = Len(frames)
    BY <1>1
  <2>2. \A i \in 1..Len(frames) : ns[i].covers = frames[i].covers
    BY <2>1
  <2> HIDE DEF ns, size
  <2> QED
    BY <1>4, <2>1, <2>2 DEF Covered
<1> HIDE DEF ns
<1> QED
  BY <1>1, <1>2, <1>4, <1>5, <1>6

LEMMA TaskFramesCover ==
  ASSUME NEW entries \in Seq(Kind), NEW first \in Nat \ {0}, NEW last \in Nat,
         last = Len(entries), first <= last + 1
  PROVE  /\ TaskFrames(entries, first, last) \in Seq(FramesOf(last))
         /\ Len(TaskFrames(entries, first, last)) = last - first + 1
         /\ \A i \in 1..(last - first + 1) :
              /\ TaskFrames(entries, first, last)[i].id = first + i - 1
              /\ TaskFrames(entries, first, last)[i].covers = {first + i - 1}
<1> DEFINE frame(i) == [id |-> first + i - 1, kind |-> entries[first + i - 1],
                        covers |-> {first + i - 1}]
           size == last - first + 1
<1>1. size \in Nat
  OBVIOUS
<1>2. \A i \in 1..size : frame(i) \in FramesOf(last)
  <2> SUFFICES ASSUME NEW i \in 1..size PROVE frame(i) \in FramesOf(last)
    OBVIOUS
  <2>1. first + i - 1 \in 1..Len(entries)
    OBVIOUS
  <2>2. entries[first + i - 1] \in Kind
    BY <2>1, ElementOfSeq
  <2> QED
    BY <2>1, <2>2 DEF FramesOf, FrameKind
<1>3. TaskFrames(entries, first, last) = [i \in 1..size |-> frame(i)]
  BY DEF TaskFrames
<1>4. /\ TaskFrames(entries, first, last) \in Seq(FramesOf(last))
      /\ Len(TaskFrames(entries, first, last)) = size
  <2> HIDE DEF frame, size
  <2> QED
    BY <1>1, <1>2, <1>3
<1>5. \A i \in 1..size :
        /\ TaskFrames(entries, first, last)[i].id = first + i - 1
        /\ TaskFrames(entries, first, last)[i].covers = {first + i - 1}
  BY <1>3
<1> QED
  BY <1>4, <1>5

LEMMA TaskFrameCovers ==
  ASSUME NEW entries \in Seq(Kind), NEW n \in Nat \ {0}, n = Len(entries)
  PROVE  /\ TaskFrames(entries, n, n) \in Seq(FramesOf(n)) /\ Len(TaskFrames(entries, n, n)) = 1
         /\ TaskFrames(entries, n, n)[1].id = n /\ TaskFrames(entries, n, n)[1].covers = {n}
<1> DEFINE frame(i) == [id |-> n + i - 1, kind |-> entries[n + i - 1], covers |-> {n + i - 1}]
<1>1. n - n + 1 = 1
  OBVIOUS
<1>2. TaskFrames(entries, n, n) = [i \in 1..1 |-> frame(i)]
  BY <1>1 DEF TaskFrames
<1>4. entries[n] \in Kind /\ n \in 1..n
  BY ElementOfSeq
<1>5. frame(1) = [id |-> n, kind |-> entries[n], covers |-> {n}]
  <2>1. n + 1 - 1 = n
    OBVIOUS
  <2> QED
    BY <2>1
<1>6. frame(1) \in FramesOf(n)
  BY <1>4, <1>5 DEF FramesOf, FrameKind
<1>7. frame(1).id = n /\ frame(1).covers = {n}
  BY <1>5
<1> HIDE DEF frame
<1>8. \A i \in 1..1 : frame(i) \in FramesOf(n)
  BY <1>6
<1>9. /\ [i \in 1..1 |-> frame(i)] \in Seq(FramesOf(n))
      /\ Len([i \in 1..1 |-> frame(i)]) = 1
      /\ [i \in 1..1 |-> frame(i)][1] = frame(1)
  BY <1>8
<1> QED
  BY <1>2, <1>7, <1>9

-----------------------------------------------------------------------------
(* The invariant.                                                          *)

LEMMA LogIsFinite ==
  ASSUME StreamShape
  PROVE  log \in Seq(Kind) /\ Len(log) \in Nat
BY DEF StreamShape

LEMMA InitInv == Init => Inv
<1> SUFFICES ASSUME Init PROVE Inv
  OBVIOUS
<1>1. Len(log) = 0 /\ Len(wire) = 0 /\ log = <<>> /\ wire = <<>>
  BY DEF Init
<1>2. log \in Seq(Kind) /\ wire \in Seq(Frames)
  BY <1>1
<1>3. StreamShape
  BY <1>1, <1>2 DEF Init, StreamShape
<1>4. PageShape
  <2>1. load \in [Load -> {"unused", "asked", "answered"}]
    BY DEF Init
  <2>2. reply \in [Load -> 0..Len(log)] /\ pollReply \in 0..Len(log) /\ faults \in 0..MaxFaults
    BY <1>1 DEF Init
  <2>3. shown \subseteq Entries /\ running \in BOOLEAN /\ failed \in BOOLEAN
    BY DEF Init
  <2>4. poll \in {"idle", "listing", "over", "going on", "loading", "loaded"}
    BY DEF Init
  <2> QED
    BY <2>1, <2>2, <2>3, <2>4 DEF PageShape
<1> QED
  BY <1>1, <1>3, <1>4 DEF Init, Inv, StreamTypeOK, EndsOnce, NumbersRise, Numbering, InOrder, Told

(* Requests and polls touch neither the log nor the stream. *)
LEMMA StreamUntouched ==
  ASSUME Inv, PageShape', UNCHANGED <<page, log, conn, hostVars, wire, lastId, heard>>
  PROVE  Inv'
<1>1. StreamShape'
  BY DEF Inv, StreamTypeOK, StreamShape, Frames, Entries, hostVars
<1> QED
  BY <1>1 DEF Inv, StreamTypeOK, EndsOnce, NumbersRise, Numbering, InOrder, Told, hostVars,
              Covered, TextIn

LEMMA LoadStep ==
  ASSUME Inv, NEW l \in Load, LoadServed(l) \/ LoadArrives(l) \/ LoadFails(l)
  PROVE  Inv'
<1>1. /\ Len(log) \in Nat /\ PageShape
      /\ reply[l] \in 0..Len(log) /\ faults \in 0..MaxFaults
  BY LogIsFinite DEF Inv, StreamTypeOK, PageShape
<1>2. UNCHANGED <<page, log, conn, hostVars, wire, lastId, heard>>
  BY DEF LoadServed, LoadArrives, LoadFails
<1>3. load' \in [Load -> {"unused", "asked", "answered"}]
  BY <1>1 DEF PageShape, LoadServed, LoadArrives, LoadFails
<1>4. reply' \in [Load -> 0..Len(log)]
  <2>1. \E n \in {0, Len(log)} : reply' = [reply EXCEPT ![l] = n]
    BY DEF LoadServed, LoadArrives, LoadFails
  <2>2. reply \in [Load -> 0..Len(log)]
    BY <1>1 DEF PageShape
  <2>3. {0, Len(log)} \subseteq 0..Len(log)
    BY <1>1
  <2> QED
    BY <2>1, <2>2, <2>3
<1>5. shown' \subseteq Entries
  <2>1. 1..reply[l] \subseteq Entries
    BY <1>1 DEF Entries
  <2>2. shown \subseteq Entries
    BY <1>1 DEF PageShape
  <2> QED
    BY <2>1, <2>2 DEF LoadServed, LoadArrives, LoadFails
<1>6. faults' \in 0..MaxFaults
  <2>1. faults' = faults \/ (faults < MaxFaults /\ faults' = faults + 1)
    BY DEF LoadServed, LoadArrives, LoadFails, faultVars
  <2> QED
    BY <1>1, <2>1
<1>7. failed' \in BOOLEAN
  BY <1>1 DEF PageShape, LoadServed, LoadArrives, LoadFails, faultVars
<1>8. UNCHANGED <<running, pollVars>>
  BY DEF LoadServed, LoadArrives, LoadFails
<1>9. PageShape'
  BY <1>1, <1>2, <1>3, <1>4, <1>5, <1>6, <1>7, <1>8 DEF PageShape, Entries, pollVars
<1> QED
  BY <1>2, <1>9, StreamUntouched

LEMMA PollStep ==
  ASSUME Inv, Poll \/ PollFails
  PROVE  Inv'
<1>1. Len(log) \in Nat /\ PageShape
  BY LogIsFinite DEF Inv, StreamTypeOK
<1>2. /\ UNCHANGED <<page, log, conn, hostVars, wire, lastId, heard, loadVars, failed>>
      /\ shown' \in {shown, shown \cup 1..pollReply}
      /\ pollReply' \in {pollReply, 0, Len(log)}
      /\ faults' = faults \/ (faults < MaxFaults /\ faults' = faults + 1)
  BY DEF Poll, PollStarts, ListServed, ListArrives, PollLoadServed, PollLoadArrives,
         PollCancelled, PollFails, faultVars
<1>3. running' \in BOOLEAN
  BY <1>1 DEF PageShape, Poll, PollStarts, ListServed, ListArrives, PollLoadServed,
              PollLoadArrives, PollCancelled, PollFails
<1>4. poll' \in {"idle", "listing", "over", "going on", "loading", "loaded"}
  BY <1>1 DEF PageShape, Poll, PollStarts, ListServed, ListArrives, PollLoadServed,
              PollLoadArrives, PollCancelled, PollFails
<1>5. shown \subseteq Entries /\ pollReply \in 0..Len(log) /\ faults \in 0..MaxFaults
  BY <1>1 DEF PageShape
<1>6. 1..pollReply \subseteq Entries
  BY <1>1, <1>5 DEF Entries
<1>7. shown' \subseteq Entries /\ pollReply' \in 0..Len(log) /\ faults' \in 0..MaxFaults
  BY <1>1, <1>2, <1>5, <1>6
<1>8. PageShape'
  BY <1>1, <1>2, <1>3, <1>4, <1>7 DEF PageShape, Entries, loadVars
<1> QED
  BY <1>2, <1>8, StreamUntouched

-----------------------------------------------------------------------------
(* The steps of the stream.                                                *)

LEMMA StreamFacts ==
  ASSUME StreamShape
  PROVE  /\ page \in {"task", "session"}
         /\ log \in Seq(Kind) /\ Len(log) \in Nat
         /\ wire \in Seq(FramesOf(Len(log))) /\ Len(wire) \in Nat
         /\ asked \in Nat /\ lastId \in Nat /\ nextId \in Nat
         /\ detail \in 0..Len(log) /\ from \in 0..Len(log) /\ told \in 0..Len(log)
BY FramesAre DEF StreamShape

LEMMA EmitStep ==
  ASSUME Inv, NEW kind \in Kind, Emit(kind)
  PROVE  Inv'
<1> DEFINE n == Len(log) + 1
<1>1. StreamShape /\ PageShape
  BY DEF Inv, StreamTypeOK
<1>2. /\ log' \in Seq(Kind) /\ Len(log') = n /\ n \in Nat \ {0} /\ Len(log) \in Nat
      /\ \A i \in 1..Len(log) : log'[i] = log[i]
      /\ log'[n] = kind /\ n = Len(log) + 1
  <2>1. log' = Append(log, kind)
    BY DEF Emit
  <2> QED
    BY <1>1, <2>1, StreamFacts, AppendProperties
<1>3. n <= MaxEvents
  BY <1>2 DEF Emit
<1> HIDE DEF n
<1>4. UNCHANGED <<page, conn, asked, detail, from, lastId, shown, heard, running, loadVars,
                  pollVars, faultVars>>
  BY DEF Emit
<1>5. EndsOnce'
  <2>1. \A i \in 1..Len(log) : log[i] \notin Ends
    BY <1>2 DEF Inv, EndsOnce, Emit, Ended, Over
  <2> QED
    BY <1>2, <2>1 DEF EndsOnce
<1>6. Entries \subseteq Entries' /\ 0..Len(log) \subseteq 0..n
  BY <1>2 DEF Entries
<1>7. PageShape'
  <2>1. /\ shown' \subseteq Entries' /\ reply' \in [Load -> 0..Len(log')]
        /\ pollReply' \in 0..Len(log')
    BY <1>1, <1>2, <1>4, <1>6 DEF PageShape, loadVars, pollVars
  <2>2. /\ running' \in BOOLEAN /\ load' \in [Load -> {"unused", "asked", "answered"}]
        /\ poll' \in {"idle", "listing", "over", "going on", "loading", "loaded"}
        /\ faults' \in 0..MaxFaults /\ failed' \in BOOLEAN
    BY <1>1, <1>4 DEF PageShape, loadVars, pollVars, faultVars
  <2> QED
    BY <2>1, <2>2 DEF PageShape
<1>8. ASSUME wire' \in Seq(FramesOf(n)), told' \in 0..n, nextId' \in Nat PROVE StreamShape'
  <2>1. wire' \in Seq(Frames')
    BY <1>2, <1>8 DEF Frames, FramesOf, FrameKind, Entries
  <2>2. detail' \in 0..Len(log') /\ from' \in 0..Len(log') /\ heard' \subseteq Entries'
    BY <1>1, <1>2, <1>4, <1>6 DEF StreamShape
  <2> QED
    BY <1>1, <1>2, <1>3, <1>4, <1>8, <2>1, <2>2 DEF StreamShape
<1>9. wire \in Seq(FramesOf(n)) /\ Len(wire) \in Nat
  <2>1. Len(log) <= n /\ n \in Nat /\ Len(log) \in Nat
    BY <1>2
  <2>2. wire \in Seq(FramesOf(Len(log))) /\ Len(wire) \in Nat
    BY <1>1, StreamFacts
  <2> QED
    BY <2>1, <2>2, FramesGrow
<1>10. told \in 0..n /\ nextId \in Nat /\ asked \in Nat /\ lastId \in Nat /\ detail \in 0..Len(log)
       /\ from \in 0..Len(log)
  BY <1>1, <1>2, <1>6, StreamFacts
<1>11. CASE conn # "open"
  <2>1. UNCHANGED <<wire, told, nextId>> /\ wire = <<>>
    BY <1>11 DEF Emit, Inv, Numbering
  <2>2. StreamShape'
    BY <1>8, <1>9, <1>10, <2>1
  <2>3. NumbersRise' /\ Numbering' /\ InOrder' /\ Told'
    BY <1>2, <1>4, <1>10, <1>11, <2>1 DEF Inv, NumbersRise, Numbering, InOrder, Told
  <2> QED
    BY <1>5, <1>7, <2>2, <2>3 DEF Inv, StreamTypeOK
<1>12. CASE conn = "open" /\ page = "task"
  <2> DEFINE new == TaskFrames(log', n, n)
  <2>1. /\ new \in Seq(FramesOf(n)) /\ Len(new) = 1
        /\ new[1].id = n /\ new[1].covers = {n}
    BY <1>2, TaskFrameCovers
  <2>2. wire' = wire \o new /\ UNCHANGED <<told, nextId>>
    BY <1>12 DEF Emit, n
  <2> HIDE DEF new
  <2>3. /\ wire' \in Seq(FramesOf(n)) /\ Len(wire') = Len(wire) + 1
        /\ \A i \in 1..Len(wire) : wire'[i] = wire[i]
        /\ wire'[Len(wire) + 1] = new[1]
    <3>1. /\ wire \o new \in Seq(FramesOf(n)) /\ Len(wire \o new) = Len(wire) + Len(new)
          /\ \A i \in 1..(Len(wire) + Len(new)) :
               (wire \o new)[i] = IF i <= Len(wire) THEN wire[i] ELSE new[i - Len(wire)]
      <4>1. new \in Seq(FramesOf(n))
        BY <2>1
      <4> QED
        BY <1>9, <4>1, ConcatProperties
    <3>2. Len(wire) + 1 \in 1..(Len(wire) + Len(new)) /\ Len(wire) + 1 - Len(wire) = 1
      BY <1>9, <2>1
    <3>3. (wire \o new)[Len(wire) + 1] = new[1]
      BY <1>9, <3>1, <3>2
    <3>4. \A i \in 1..Len(wire) : (wire \o new)[i] = wire[i]
      BY <1>9, <2>1, <3>1
    <3> QED
      BY <2>1, <2>2, <3>1, <3>3, <3>4
  <2>4. Covered(wire') = Covered(wire) \cup {n}
    <3>1. Covered(new) = {n}
      BY <2>1 DEF Covered
    <3> QED
      BY <1>9, <2>1, <2>2, <3>1, CoveredByBoth
  <2>5. StreamShape'
    BY <1>8, <1>10, <2>2, <2>3
  <2>6. InOrder'
    <3>1. /\ lastId <= Len(log) /\ Len(wire) <= Len(log)
          /\ \A i \in 1..Len(wire) : wire[i].id = Len(log) - Len(wire) + i
          /\ lastId > 0 => lastId = Len(log) - Len(wire)
      BY <1>12 DEF Inv, InOrder
    <3>2. ASSUME NEW i \in 1..Len(wire') PROVE wire'[i].id = Len(log') - Len(wire') + i
      <4>1. CASE i \in 1..Len(wire)
        <5>1. wire'[i].id = Len(log) - Len(wire) + i
          BY <2>3, <3>1, <4>1
        <5> QED
          BY <1>2, <1>9, <2>3, <5>1
      <4>2. CASE i = Len(wire) + 1
        BY <1>2, <1>9, <2>1, <2>3, <4>2
      <4> QED
        BY <1>9, <2>3, <4>1, <4>2
    <3>3. Len(wire') <= Len(log') /\ lastId <= Len(log')
      BY <1>2, <1>9, <1>10, <2>3, <3>1
    <3>4. lastId > 0 => lastId = Len(log') - Len(wire')
      <4>1. Len(log') - Len(wire') = Len(log) - Len(wire)
        BY <1>2, <1>9, <2>3
      <4> QED
        BY <3>1, <4>1
    <3> QED
      BY <1>4, <1>12, <3>2, <3>3, <3>4 DEF InOrder
  <2>7. Numbering'
    BY <1>4, <1>12 DEF Inv, Numbering
  <2>8. NumbersRise'
    <3>1. /\ \A i \in 1..Len(wire') : wire'[i].id = n - Len(wire') + i
          /\ Len(wire') <= n
          /\ lastId > 0 => lastId = n - Len(wire')
      BY <1>2, <1>4, <1>12, <2>6 DEF InOrder
    <3>2. Len(wire') \in Nat
      BY <1>9, <2>3
    <3> QED
      BY <1>2, <1>4, <1>10, <3>1, <3>2 DEF NumbersRise
  <2>9. Told'
    <3>1. (from + 1)..Len(log) \subseteq heard \cup Covered(wire)
      BY <1>12 DEF Inv, Told
    <3>2. (from + 1)..n \subseteq heard \cup Covered(wire')
      BY <1>2, <1>10, <2>4, <3>1
    <3> QED
      BY <1>2, <1>4, <1>12, <3>2 DEF Told
  <2> QED
    BY <1>5, <1>7, <2>5, <2>6, <2>7, <2>8, <2>9 DEF Inv, StreamTypeOK
<1>13. CASE conn = "open" /\ page = "session"
  <2> DEFINE frames == Live(log', n)
             new == Numbered(frames, nextId)
  <2>1. /\ wire' = wire \o new /\ nextId' = nextId + Len(frames)
        /\ told' = IF CatchesUp(kind) THEN n ELSE told
    BY <1>13 DEF Emit, n
  <2>2. /\ asked <= lastId /\ asked <= nextId /\ lastId <= nextId
        /\ \A i \in 1..Len(wire) : wire[i].id <= nextId
        /\ detail <= told
        /\ (from + 1)..Len(log) \subseteq heard \cup Covered(wire)
        /\ TextIn(log, detail + 1, told) \subseteq heard \cup Covered(wire)
        /\ asked = 0 => 1..detail \subseteq heard \cup Covered(wire)
    BY <1>13 DEF Inv, Numbering, Told
  <2>3. /\ frames \in Seq(Unnumbered(n))
        /\ n \in Covered(frames)
        /\ CatchesUp(kind) => TextIn(log', told + 1, n) \subseteq Covered(frames)
    <3>1. told \in 0..Len(log)
      BY <1>1, StreamFacts
    <3>2. told \in Nat /\ told < n
      BY <1>2, <3>1
    <3> QED
      BY <1>2, <3>2, LiveCovers
  <2> HIDE DEF frames
  <2>4. /\ new \in Seq(FramesOf(n))
        /\ \A i \in 1..Len(new) : /\ new[i].id > asked /\ new[i].id > nextId
                                 /\ new[i].id <= nextId + Len(frames)
        /\ \A i, j \in 1..Len(new) : i < j => new[i].id < new[j].id
        /\ Covered(new) = Covered(frames)
    BY <1>2, <1>10, <2>2, <2>3, NumberedCovers
  <2>5. Len(frames) \in Nat /\ Len(new) \in Nat
    BY <2>3, <2>4
  <2> HIDE DEF new
  <2>6. wire' \in Seq(FramesOf(n)) /\ Covered(wire') = Covered(wire) \cup Covered(frames)
    BY <1>9, <2>1, <2>4, CoveredByBoth
  <2>7. StreamShape'
    <3>1. told' \in 0..n /\ nextId' \in Nat
      BY <1>2, <1>10, <2>1, <2>5
    <3> QED
      BY <1>8, <2>6, <3>1
  <2>8. \A i \in 1..Len(wire) : wire[i].id \in Nat
    BY <1>2, <1>9, NumbersAreNat
  <2>9. \A i \in 1..Len(new) : new[i].id \in Nat
    BY <1>2, <2>4, NumbersAreNat
  <2>10. NumbersRise'
    <3>1. /\ \A i \in 1..Len(wire) : wire[i].id > lastId
          /\ \A i, j \in 1..Len(wire) : i < j => wire[i].id < wire[j].id
      BY DEF Inv, NumbersRise
    <3>2. \A i \in 1..Len(new) : new[i].id > lastId
      BY <1>10, <2>2, <2>4, <2>9
    <3>3. \A i \in 1..Len(wire), j \in 1..Len(new) : wire[i].id < new[j].id
      BY <1>10, <2>2, <2>4, <2>8, <2>9
    <3>4. /\ \A i \in 1..Len(wire \o new) : (wire \o new)[i].id > lastId
          /\ \A i, j \in 1..Len(wire \o new) :
               i < j => (wire \o new)[i].id < (wire \o new)[j].id
      BY <1>2, <1>9, <1>10, <2>4, <3>1, <3>2, <3>3, RiseTogether
    <3> QED
      BY <1>4, <2>1, <3>4 DEF NumbersRise
  <2>11. Numbering'
    <3>1. \A i \in 1..Len(wire') : wire'[i].id <= nextId'
      <4>1. /\ Len(wire') = Len(wire) + Len(new)
            /\ \A i \in 1..(Len(wire) + Len(new)) :
                 wire'[i] = IF i <= Len(wire) THEN wire[i] ELSE new[i - Len(wire)]
        BY <1>9, <2>1, <2>4, ConcatProperties
      <4>2. ASSUME NEW i \in 1..Len(wire'), i <= Len(wire) PROVE wire'[i].id <= nextId'
        <5>1. i \in 1..Len(wire) /\ wire'[i] = wire[i]
          BY <1>9, <2>5, <4>1, <4>2
        <5>2. wire[i].id \in Nat /\ wire[i].id <= nextId
          BY <2>2, <2>8, <5>1
        <5>3. wire[i].id <= nextId + Len(frames)
          BY <1>10, <2>5, <5>2
        <5> QED
          BY <2>1, <5>1, <5>3
      <4>3. ASSUME NEW i \in 1..Len(wire'), i > Len(wire) PROVE wire'[i].id <= nextId'
        <5>1. i - Len(wire) \in 1..Len(new) /\ wire'[i] = new[i - Len(wire)]
          BY <1>9, <2>5, <4>1, <4>3
        <5> QED
          BY <2>1, <2>4, <5>1
      <4> QED
        BY <1>9, <2>5, <4>1, <4>2, <4>3
    <3>2. asked <= nextId' /\ lastId <= nextId'
      BY <1>10, <2>1, <2>2, <2>5
    <3> QED
      BY <1>4, <1>13, <2>2, <3>1, <3>2 DEF Numbering
  <2>12. Told'
    <3>1. (from + 1)..n \subseteq heard \cup Covered(wire')
      BY <1>2, <1>10, <2>2, <2>3, <2>6
    <3>2. detail <= told'
      BY <1>2, <1>10, <2>1, <2>2
    <3>3. TextIn(log', detail + 1, told') \subseteq heard \cup Covered(wire')
      <4> SUFFICES ASSUME NEW i \in (detail + 1)..told', log'[i] = "text"
                   PROVE  i \in heard \cup Covered(wire')
        BY DEF TextIn
      <4>1. CASE i <= told
        <5>1. i \in 1..Len(log) /\ i \in (detail + 1)..told
          BY <1>2, <1>10, <1>1, <4>1, StreamFacts
        <5>2. i \in TextIn(log, detail + 1, told)
          BY <1>2, <5>1 DEF TextIn
        <5> QED
          BY <2>2, <2>6, <5>2
      <4>2. CASE i > told
        <5>1. CatchesUp(kind) /\ i \in (told + 1)..n
          BY <1>2, <1>10, <2>1, <4>2
        <5>2. i \in TextIn(log', told + 1, n)
          BY <5>1 DEF TextIn
        <5> QED
          BY <2>3, <2>6, <5>1, <5>2
      <4> QED
        BY <1>2, <1>10, <2>1, <4>1, <4>2
    <3>4. asked = 0 => 1..detail \subseteq heard \cup Covered(wire')
      BY <2>2, <2>6
    <3> QED
      BY <1>2, <1>4, <3>1, <3>2, <3>3, <3>4 DEF Told
  <2>13. InOrder'
    BY <1>4, <1>13 DEF InOrder
  <2> QED
    BY <1>5, <1>7, <2>7, <2>10, <2>11, <2>12, <2>13 DEF Inv, StreamTypeOK
<1>14. page \in {"task", "session"}
  BY <1>1, StreamFacts
<1> QED
  BY <1>11, <1>12, <1>13, <1>14

LEMMA PageUntouched ==
  ASSUME PageShape, UNCHANGED <<log, shown, running, loadVars, pollVars, failed>>,
         faults' \in 0..MaxFaults
  PROVE  PageShape'
<1>1. Len(log') = Len(log) /\ Entries' = Entries
  BY DEF Entries
<1>2. /\ shown' \subseteq Entries' /\ reply' \in [Load -> 0..Len(log')]
      /\ pollReply' \in 0..Len(log')
  BY <1>1 DEF PageShape, loadVars, pollVars
<1>3. /\ running' \in BOOLEAN /\ load' \in [Load -> {"unused", "asked", "answered"}]
      /\ poll' \in {"idle", "listing", "over", "going on", "loading", "loaded"}
      /\ failed' \in BOOLEAN
  BY DEF PageShape, loadVars, pollVars
<1> QED
  BY <1>2, <1>3 DEF PageShape

(* Without an open connection nothing is under way and nothing is owed. *)
LEMMA NotOpenStep ==
  ASSUME Inv, UNCHANGED <<page, log, lastId, shown, heard, running, loadVars, pollVars, failed>>,
         faults' \in 0..MaxFaults,
         conn' \in {"closed", "asking", "reading"}, wire' = <<>>,
         asked' \in Nat, nextId' \in Nat,
         detail' \in 0..Len(log), from' \in 0..Len(log), told' \in 0..Len(log),
         conn' # "closed" => asked' = lastId,
         page = "task" => conn' # "reading"
  PROVE  Inv'
<1>1. PageShape'
  BY PageUntouched DEF Inv, StreamTypeOK
<1>2. StreamShape'
  <2>1. wire' \in Seq(Frames') /\ heard' \subseteq Entries'
    BY DEF Inv, StreamTypeOK, StreamShape, Entries
  <2> QED
    BY <2>1 DEF Inv, StreamTypeOK, StreamShape
<1>3. Len(wire') = 0
  OBVIOUS
<1> QED
  BY <1>1, <1>2, <1>3 DEF Inv, StreamTypeOK, EndsOnce, NumbersRise, Numbering, InOrder, Told

LEMMA QuietStep ==
  ASSUME Inv, Connect \/ ReadDetail \/ ConnectionLost
  PROVE  Inv'
<1>1. StreamShape /\ PageShape
  BY DEF Inv, StreamTypeOK
<1>2. faults \in 0..MaxFaults
  BY <1>1 DEF PageShape
<1>3. Len(log) \in 0..Len(log) /\ 0 \in 0..Len(log)
  BY <1>1, StreamFacts
<1>4. CASE Connect
  <2>1. wire = <<>>
    BY <1>4 DEF Connect, Inv, Numbering
  <2> QED
    BY <1>1, <1>2, <1>4, <2>1, NotOpenStep, StreamFacts DEF Connect, faultVars
<1>5. CASE ReadDetail
  <2>1. wire = <<>> /\ asked = lastId
    BY <1>5 DEF ReadDetail, Inv, Numbering
  <2> QED
    BY <1>1, <1>2, <1>3, <1>5, <2>1, NotOpenStep, StreamFacts DEF ReadDetail, faultVars
<1>6. CASE ConnectionLost
  <2>1. faults' \in 0..MaxFaults
    BY <1>2, <1>6 DEF ConnectionLost
  <2> QED
    BY <1>1, <1>3, <1>6, <2>1, NotOpenStep DEF ConnectionLost
<1> QED
  BY <1>4, <1>5, <1>6

LEMMA ServeTaskStep ==
  ASSUME Inv, ServeTask
  PROVE  Inv'
<1>1. StreamShape /\ PageShape
  BY DEF Inv, StreamTypeOK
<1> DEFINE n == Len(log)
<1>2. /\ page = "task" /\ asked = lastId /\ lastId <= n /\ n \in Nat /\ lastId \in Nat
      /\ log \in Seq(Kind)
  BY <1>1, StreamFacts DEF ServeTask, Inv, Numbering, InOrder
<1>3. /\ wire' \in Seq(FramesOf(n)) /\ Len(wire') \in Nat /\ Len(wire') <= n
      /\ \A i \in 1..Len(wire') : wire'[i].id = n - Len(wire') + i
      /\ lastId > 0 => lastId = n - Len(wire')
  <2>1. CASE asked = 0
    <3>1. wire' = <<>> /\ Len(wire') = 0
      BY <2>1 DEF ServeTask
    <3>2. <<>> \in Seq(FramesOf(n))
      OBVIOUS
    <3> QED
      BY <1>2, <2>1, <3>1, <3>2
  <2>2. CASE asked # 0
    <3> DEFINE first == asked + 1
               new == TaskFrames(log, first, n)
    <3>1. first \in Nat \ {0} /\ first <= n + 1
      BY <1>2
    <3>2. wire' = new
      BY <2>2 DEF ServeTask
    <3> HIDE DEF first, n
    <3>3. /\ new \in Seq(FramesOf(n)) /\ Len(new) = n - first + 1
          /\ \A i \in 1..(n - first + 1) : new[i].id = first + i - 1
      BY <1>2, <3>1, TaskFramesCover DEF n
    <3> HIDE DEF new
    <3> QED
      BY <1>2, <3>1, <3>2, <3>3 DEF first
  <2> QED
    BY <2>1, <2>2
<1>4. /\ conn' = "open" /\ detail' = n /\ from' = n
      /\ UNCHANGED <<page, log, asked, told, nextId, lastId, shown, heard, running, loadVars,
                     pollVars, faultVars>>
  BY DEF ServeTask
<1>5. PageShape'
  <2>1. faults' \in 0..MaxFaults
    BY <1>1, <1>4 DEF PageShape, faultVars
  <2> QED
    BY <1>1, <1>4, <2>1, PageUntouched DEF faultVars
<1>6. StreamShape'
  <2>1. wire' \in Seq(Frames') /\ heard' \subseteq Entries'
    BY <1>1, <1>3, <1>4 DEF StreamShape, Frames, FramesOf, FrameKind, Entries
  <2>2. detail' \in 0..Len(log') /\ from' \in 0..Len(log')
    BY <1>2, <1>4
  <2> QED
    BY <1>1, <1>4, <2>1, <2>2 DEF StreamShape
<1>7. NumbersRise'
  BY <1>2, <1>3, <1>4 DEF NumbersRise
<1>8. Numbering' /\ InOrder'
  BY <1>2, <1>3, <1>4 DEF Numbering, InOrder
<1>9. Told'
  <2>1. (from' + 1)..Len(log') = {}
    BY <1>2, <1>4
  <2> QED
    BY <1>2, <1>4, <2>1 DEF Told
<1>10. EndsOnce'
  BY <1>4 DEF Inv, EndsOnce
<1> QED
  BY <1>5, <1>6, <1>7, <1>8, <1>9, <1>10 DEF Inv, StreamTypeOK

LEMMA WriteSnapshotStep ==
  ASSUME Inv, WriteSnapshot
  PROVE  Inv'
<1>1. StreamShape /\ PageShape
  BY DEF Inv, StreamTypeOK
<1> DEFINE n == Len(log)
           part == SubSeq(log, 1, detail)
           frames == Snapshot(part)
<1>2. /\ page = "session" /\ asked = lastId /\ n \in Nat /\ asked \in Nat
      /\ log \in Seq(Kind) /\ detail \in 0..n
  BY <1>1, StreamFacts DEF WriteSnapshot, Inv, Numbering
<1>3. /\ conn' = "open" /\ told' = detail /\ from' = n
      /\ wire' = Numbered(frames, 0)
      /\ nextId' = IF Len(frames) > asked THEN Len(frames) ELSE asked
      /\ UNCHANGED <<page, log, asked, detail, lastId, shown, heard, running, loadVars, pollVars,
                     faultVars>>
  BY DEF WriteSnapshot
<1>4. /\ part \in Seq(Kind) /\ Len(part) = detail
      /\ \A i \in 1..Len(part) : part[i] = log[i]
  <2>1. part \in Seq(Kind)
    BY <1>2, SubSeqProperties
  <2>2. Len(part) = detail /\ \A i \in 1..detail : part[i] = log[i]
    BY <1>2, SubSeqProperties
  <2> QED
    BY <2>1, <2>2
<1>5. \A i \in 1..Len(part) : part[i] \in Ends => i = Len(part)
  <2> SUFFICES ASSUME NEW i \in 1..Len(part), part[i] \in Ends PROVE i = Len(part)
    OBVIOUS
  <2>1. i \in 1..n /\ log[i] \in Ends
    BY <1>2, <1>4
  <2>2. i = n
    BY <2>1 DEF Inv, EndsOnce
  <2> QED
    BY <1>2, <1>4, <2>2
<1> HIDE DEF part
<1>6. frames \in Seq(Unnumbered(detail)) /\ 1..detail \subseteq Covered(frames)
  BY <1>4, <1>5, SnapshotCovers
<1> HIDE DEF frames
<1>7. Len(frames) \in Nat /\ detail \in Nat
  BY <1>2, <1>6
<1>8. /\ wire' \in Seq(FramesOf(detail))
      /\ \A i \in 1..Len(wire') : /\ wire'[i].id > asked /\ wire'[i].id > 0
                                  /\ wire'[i].id <= 0 + Len(frames)
      /\ \A i, j \in 1..Len(wire') : i < j => wire'[i].id < wire'[j].id
      /\ asked <= 0 => Covered(wire') = Covered(frames)
  <2>1. 0 \in Nat
    OBVIOUS
  <2> QED
    BY <1>2, <1>3, <1>6, <1>7, <2>1, NumberedCovers
<1>9. PageShape'
  <2>1. faults' \in 0..MaxFaults
    BY <1>1, <1>3 DEF PageShape, faultVars
  <2> QED
    BY <1>1, <1>3, <2>1, PageUntouched DEF faultVars
<1>10. StreamShape'
  <2>1. detail <= n
    BY <1>2
  <2>2. wire' \in Seq(FramesOf(n))
    BY <1>2, <1>7, <1>8, <2>1, FramesGrow
  <2>3. wire' \in Seq(Frames') /\ heard' \subseteq Entries'
    BY <1>1, <1>3, <2>2 DEF StreamShape, Frames, FramesOf, FrameKind, Entries
  <2>4. nextId' \in Nat /\ told' \in 0..Len(log') /\ from' \in 0..Len(log')
    BY <1>2, <1>3, <1>7
  <2> QED
    BY <1>1, <1>3, <2>3, <2>4 DEF StreamShape
<1>11. NumbersRise'
  BY <1>2, <1>3, <1>8 DEF NumbersRise
<1>12. Numbering' /\ InOrder'
  <2>1. asked <= nextId' /\ Len(frames) <= nextId' /\ nextId' \in Nat
    BY <1>2, <1>3, <1>7
  <2>2. ASSUME NEW i \in 1..Len(wire') PROVE wire'[i].id <= nextId'
    <3>1. wire'[i].id \in Nat
      BY <1>7, <1>8, NumbersAreNat
    <3> QED
      BY <1>7, <1>8, <2>1, <3>1
  <2> QED
    BY <1>2, <1>3, <2>1, <2>2 DEF Numbering, InOrder
<1>13. Told'
  <2>1. (from' + 1)..Len(log') = {} /\ TextIn(log, detail + 1, told') = {}
    BY <1>2, <1>3, <1>7 DEF TextIn
  <2>2. asked = 0 => 1..detail \subseteq Covered(wire')
    BY <1>6, <1>8
  <2> QED
    BY <1>2, <1>3, <1>7, <2>1, <2>2 DEF Told
<1>14. EndsOnce'
  BY <1>3 DEF Inv, EndsOnce
<1> QED
  BY <1>9, <1>10, <1>11, <1>12, <1>13, <1>14 DEF Inv, StreamTypeOK

(* What the two pages have in common when they receive a frame. *)
LEMMA ReceiveStep ==
  ASSUME Inv, conn = "open", wire # <<>>,
         UNCHANGED <<page, log, conn, hostVars, pollVars, faultVars, reply>>,
         lastId' = Head(wire).id, wire' = Tail(wire),
         shown' = shown \cup Head(wire).covers, heard' = heard \cup Head(wire).covers,
         running' \in BOOLEAN, load' \in [Load -> {"unused", "asked", "answered"}]
  PROVE  Inv'
<1>1. StreamShape /\ PageShape
  BY DEF Inv, StreamTypeOK
<1> DEFINE n == Len(log)
           k == Len(wire)
           f == Head(wire)
<1>2. /\ n \in Nat /\ wire \in Seq(FramesOf(n)) /\ asked \in Nat /\ lastId \in Nat
      /\ nextId \in Nat /\ page \in {"task", "session"}
  BY <1>1, StreamFacts
<1>3. /\ k \in Nat \ {0} /\ f = wire[1] /\ f \in FramesOf(n)
      /\ Tail(wire) \in Seq(FramesOf(n)) /\ Len(Tail(wire)) = k - 1
      /\ \A i \in 1..(k - 1) : Tail(wire)[i] = wire[i + 1]
  BY <1>2, HeadTailProperties
<1>4. \A i \in 1..k : wire[i].id \in Nat
  BY <1>2, NumbersAreNat
<1>5. f.id \in Nat /\ f.covers \subseteq 1..n
  BY <1>3 DEF FramesOf
<1>6. /\ \A i \in 1..k : wire[i].id > lastId
      /\ \A i, j \in 1..k : i < j => wire[i].id < wire[j].id
  BY DEF Inv, NumbersRise
<1>7. Covered(wire) \subseteq f.covers \cup Covered(wire')
  BY <1>2, CoveredByTail
<1> HIDE DEF f, k, n
<1>8. 1 \in 1..k /\ \A i \in 1..(k - 1) : i + 1 \in 1..k /\ 1 < i + 1
  BY <1>3
<1>9. f.id > lastId
  BY <1>3, <1>6, <1>8
<1>10. NumbersRise'
  <2>1. ASSUME NEW i \in 1..(k - 1) PROVE wire'[i].id > f.id
    <3>1. wire'[i] = wire[i + 1] /\ i + 1 \in 1..k /\ 1 < i + 1
      BY <1>3, <1>8
    <3>2. wire[1].id < wire[i + 1].id
      BY <1>6, <1>8, <3>1
    <3>3. wire[1].id \in Nat /\ wire[i + 1].id \in Nat
      BY <1>4, <1>8, <3>1
    <3> QED
      BY <1>3, <3>1, <3>2, <3>3
  <2>2. ASSUME NEW i \in 1..(k - 1), NEW j \in 1..(k - 1), i < j
        PROVE  wire'[i].id < wire'[j].id
    <3>1. i + 1 < j + 1
      BY <2>2
    <3> QED
      BY <1>3, <1>6, <1>8, <3>1
  <2>3. Len(wire') = k - 1 /\ lastId' = f.id
    BY <1>3 DEF f
  <2> QED
    BY <2>1, <2>2, <2>3 DEF NumbersRise
<1>11. Numbering'
  <2>1. /\ asked <= lastId
        /\ page = "session" => asked <= nextId /\ \A i \in 1..k : wire[i].id <= nextId
    BY DEF Inv, Numbering, k
  <2>2. asked <= f.id
    BY <1>2, <1>5, <1>9, <2>1
  <2>3. page = "session" => f.id <= nextId /\ \A i \in 1..(k - 1) : wire'[i].id <= nextId
    BY <1>3, <1>8, <2>1
  <2>4. Len(wire') = k - 1 /\ lastId' = f.id
    BY <1>3 DEF f
  <2> QED
    BY <2>1, <2>2, <2>3, <2>4 DEF Numbering, hostVars
<1>12. InOrder'
  <2> SUFFICES ASSUME page = "task" PROVE InOrder'
    BY DEF InOrder
  <2>1. k <= n /\ \A i \in 1..k : wire[i].id = n - k + i
    BY DEF Inv, InOrder, k, n
  <2>2. f.id = n - k + 1
    BY <1>3, <1>8, <2>1
  <2>3. f.id = n - (k - 1) /\ f.id <= n
    BY <1>2, <1>3, <2>1, <2>2 DEF n
  <2>4. ASSUME NEW i \in 1..(k - 1) PROVE wire'[i].id = n - (k - 1) + i
    <3>1. wire'[i].id = n - k + (i + 1)
      BY <1>3, <1>8, <2>1
    <3> QED
      BY <1>2, <1>3, <3>1 DEF n
  <2>5. Len(wire') = k - 1 /\ lastId' = f.id /\ Len(log') = n
    BY <1>3 DEF f, n
  <2>6. k - 1 <= n
    BY <1>2, <1>3, <2>1 DEF n
  <2> QED
    BY <2>3, <2>4, <2>5, <2>6 DEF InOrder
<1>13. Told'
  <2>1. heard \cup Covered(wire) \subseteq heard' \cup Covered(wire')
    BY <1>7 DEF f
  <2> QED
    BY <2>1 DEF Inv, Told, hostVars, TextIn
<1>14. StreamShape'
  <2>1. lastId' \in Nat /\ wire' \in Seq(Frames') /\ heard' \subseteq Entries'
    BY <1>1, <1>3, <1>5 DEF StreamShape, Frames, FramesOf, FrameKind, Entries, f, n
  <2> QED
    BY <1>1, <2>1 DEF StreamShape, hostVars
<1>15. PageShape'
  <2>1. shown' \subseteq Entries'
    BY <1>1, <1>5 DEF PageShape, Entries, f, n
  <2>2. /\ reply' \in [Load -> 0..Len(log')] /\ pollReply' \in 0..Len(log')
        /\ poll' \in {"idle", "listing", "over", "going on", "loading", "loaded"}
        /\ faults' \in 0..MaxFaults /\ failed' \in BOOLEAN
    BY <1>1 DEF PageShape, pollVars, faultVars
  <2> QED
    BY <2>1, <2>2 DEF PageShape
<1>16. EndsOnce'
  BY DEF Inv, EndsOnce
<1> QED
  BY <1>10, <1>11, <1>12, <1>13, <1>14, <1>15, <1>16 DEF Inv, StreamTypeOK

LEMMA ReceiveTaskStep ==
  ASSUME Inv, ReceiveTask
  PROVE  Inv'
<1>1. load \in [Load -> {"unused", "asked", "answered"}] /\ running \in BOOLEAN
  BY DEF Inv, StreamTypeOK, PageShape
<1>2. load' \in [Load -> {"unused", "asked", "answered"}]
  <2>1. load' = load \/ \E l : load' = [load EXCEPT ![l] = "asked"]
    BY DEF ReceiveTask
  <2> QED
    BY <1>1, <2>1
<1>3. running' \in BOOLEAN
  BY <1>1 DEF ReceiveTask
<1>4. /\ conn = "open" /\ wire # <<>>
      /\ UNCHANGED <<page, log, conn, hostVars, pollVars, faultVars, reply>>
      /\ lastId' = Head(wire).id /\ wire' = Tail(wire)
      /\ shown' = shown \cup Head(wire).covers /\ heard' = heard \cup Head(wire).covers
  BY DEF ReceiveTask
<1> QED
  BY <1>2, <1>3, <1>4, ReceiveStep

LEMMA ReceiveSessionStep ==
  ASSUME Inv, ReceiveSession
  PROVE  Inv'
<1>1. load \in [Load -> {"unused", "asked", "answered"}] /\ running \in BOOLEAN
  BY DEF Inv, StreamTypeOK, PageShape
<1>2. load' \in [Load -> {"unused", "asked", "answered"}]
  BY <1>1 DEF ReceiveSession, loadVars
<1>3. running' \in BOOLEAN
  <2>1. Head(wire).kind \in FrameKind
    <3>1. wire \in Seq(FramesOf(Len(log))) /\ wire # <<>>
      BY StreamFacts DEF Inv, StreamTypeOK, ReceiveSession
    <3>2. Head(wire) \in FramesOf(Len(log))
      BY <3>1, HeadTailProperties
    <3> QED
      BY <3>2 DEF FramesOf
  <2> QED
    BY <1>1, <2>1 DEF ReceiveSession, FrameKind, Kind, Ends
<1>4. /\ conn = "open" /\ wire # <<>>
      /\ UNCHANGED <<page, log, conn, hostVars, pollVars, faultVars, reply>>
      /\ lastId' = Head(wire).id /\ wire' = Tail(wire)
      /\ shown' = shown \cup Head(wire).covers /\ heard' = heard \cup Head(wire).covers
  BY DEF ReceiveSession, loadVars
<1> QED
  BY <1>2, <1>3, <1>4, ReceiveStep

LEMMA StutterStep ==
  ASSUME Inv, UNCHANGED vars
  PROVE  Inv'
<1>1. UNCHANGED <<page, log, conn, hostVars, wire, lastId, heard>>
  BY DEF vars
<1>2. UNCHANGED <<log, shown, running, loadVars, pollVars, failed>> /\ faults' = faults
  BY DEF vars, faultVars
<1>3. PageShape'
  <2>1. PageShape /\ faults' \in 0..MaxFaults
    BY <1>2 DEF Inv, StreamTypeOK, PageShape
  <2> QED
    BY <1>2, <2>1, PageUntouched
<1> QED
  BY <1>1, <1>3, StreamUntouched

LEMMA NextInv == Inv /\ [Next]_vars => Inv'
<1> SUFFICES ASSUME Inv, [Next]_vars PROVE Inv'
  OBVIOUS
<1>1. ASSUME NEW kind \in Kind, Emit(kind) PROVE Inv'
  BY <1>1, EmitStep
<1>2. CASE Connect \/ ReadDetail \/ ConnectionLost
  BY <1>2, QuietStep
<1>3. CASE ServeTask
  BY <1>3, ServeTaskStep
<1>4. CASE WriteSnapshot
  BY <1>4, WriteSnapshotStep
<1>5. CASE ReceiveTask
  BY <1>5, ReceiveTaskStep
<1>6. CASE ReceiveSession
  BY <1>6, ReceiveSessionStep
<1>7. ASSUME NEW l \in Load, LoadServed(l) \/ LoadArrives(l) \/ LoadFails(l) PROVE Inv'
  BY <1>7, LoadStep
<1>8. CASE Poll \/ PollFails
  BY <1>8, PollStep
<1>9. CASE UNCHANGED vars
  BY <1>9, StutterStep
<1> QED
  BY <1>1, <1>2, <1>3, <1>4, <1>5, <1>6, <1>7, <1>8, <1>9 DEF Next, Stream

-----------------------------------------------------------------------------
(* The invariant holds throughout. *)
THEOREM Invariance == Spec => []Inv
BY InitInv, NextInv, PTL DEF Spec

(* Every variable keeps its type: a page is never sent and never shows what *)
(* did not happen.                                                          *)
THEOREM StreamTypes == Spec => []StreamTypeOK
<1>1. Inv => StreamTypeOK
  BY DEF Inv
<1> QED
  BY <1>1, Invariance, PTL

(* The numbers of what is under way rise from the last one received, by     *)
(* however many connections that number their events anew.                  *)
THEOREM NumbersAlwaysRise == Spec => []NumbersRise
<1>1. Inv => NumbersRise
  BY DEF Inv
<1> QED
  BY <1>1, Invariance, PTL

(* A page with nothing under way on an open connection was told of all that *)
(* happened since it subscribed, for logs of any length.                    *)
THEOREM StreamAlwaysTells == Spec => []StreamTellsAll
<1>1. Inv => StreamTellsAll
  <2> SUFFICES ASSUME Inv, conn = "open", wire = <<>> PROVE StreamTellsAll
    BY DEF StreamTellsAll
  <2>1. Covered(wire) = {}
    BY CoveredByNone
  <2> QED
    BY <2>1 DEF Inv, Told, StreamTellsAll
<1> QED
  BY <1>1, Invariance, PTL

-----------------------------------------------------------------------------
(* The refinement.                                                         *)

LEMMA FeedInit == Init => Feed!Init
<1> SUFFICES ASSUME Init PROVE Len(log) = 0 /\ (IF page = "task" THEN lastId ELSE 0) = 0
  BY DEF Feed!Init
<1> QED
  BY DEF Init

LEMMA FeedStep ==
  ASSUME Inv, [Next]_vars
  PROVE  [Feed!Next]_(Feed!vars)
<1>1. StreamShape
  BY DEF Inv, StreamTypeOK
<1>2. Len(log) \in Nat /\ wire \in Seq(FramesOf(Len(log))) /\ Len(wire) \in Nat
      /\ lastId \in Nat /\ log \in Seq(Kind)
  BY <1>1, StreamFacts
<1>3. ASSUME NEW kind \in Kind, Emit(kind) PROVE Feed!Append
  <2>1. log' = Append(log, kind) /\ UNCHANGED <<page, lastId>>
    BY <1>3 DEF Emit
  <2>2. Len(log') = Len(log) + 1
    BY <1>2, <2>1, AppendProperties
  <2> QED
    BY <2>1, <2>2 DEF Feed!Append
<1>4. CASE ReceiveTask
  <2>1. /\ page = "task" /\ page' = page /\ log' = log /\ lastId' = Head(wire).id
        /\ conn = "open" /\ wire # <<>>
    BY <1>4 DEF ReceiveTask
  <2>2. /\ Len(wire) <= Len(log) /\ \A i \in 1..Len(wire) : wire[i].id = Len(log) - Len(wire) + i
        /\ lastId > 0 => lastId = Len(log) - Len(wire)
    BY <2>1 DEF Inv, InOrder
  <2>3. Head(wire) = wire[1] /\ Len(wire) > 0 /\ 1 \in 1..Len(wire)
    BY <1>2, <2>1
  <2>4. lastId' = Len(log) - Len(wire) + 1
    BY <2>1, <2>2, <2>3
  <2>5. CASE lastId = 0
    <3>1. lastId' \in 1..Len(log)
      BY <1>2, <2>2, <2>3, <2>4
    <3>2. Feed!Start
      BY <2>1, <2>5, <3>1 DEF Feed!Start
    <3> QED
      BY <3>2 DEF Feed!Next
  <2>6. CASE lastId > 0
    <3>1. lastId \in 1..(Len(log) - 1) /\ lastId' = lastId + 1
      BY <1>2, <2>2, <2>3, <2>4, <2>6
    <3>2. Feed!Advance
      BY <2>1, <3>1 DEF Feed!Advance
    <3> QED
      BY <3>2 DEF Feed!Next
  <2> QED
    BY <1>2, <2>5, <2>6
<1>5. CASE ReceiveSession
  <2>1. page = "session" /\ page' = page /\ log' = log
    BY <1>5 DEF ReceiveSession
  <2> QED
    BY <2>1 DEF Feed!vars
<1>6. CASE UNCHANGED <<page, log, lastId>>
  BY <1>6 DEF Feed!vars
<1>7. Connect \/ ReadDetail \/ ConnectionLost => UNCHANGED <<page, log, lastId>>
  BY DEF Connect, ReadDetail, ConnectionLost
<1>8. ServeTask \/ WriteSnapshot => UNCHANGED <<page, log, lastId>>
  BY DEF ServeTask, WriteSnapshot
<1>9. ASSUME NEW l \in Load
      PROVE  LoadServed(l) \/ LoadArrives(l) \/ LoadFails(l) => UNCHANGED <<page, log, lastId>>
  BY DEF LoadServed, LoadArrives, LoadFails
<1>10. Poll \/ PollFails => UNCHANGED <<page, log, lastId>>
  BY DEF Poll, PollStarts, ListServed, ListArrives, PollLoadServed, PollLoadArrives,
         PollCancelled, PollFails
<1>11. UNCHANGED vars => UNCHANGED <<page, log, lastId>>
  BY DEF vars
<1>12. Feed!Append => Feed!Next
  BY DEF Feed!Next
<1> QED
  BY <1>3, <1>4, <1>5, <1>6, <1>7, <1>8, <1>9, <1>10, <1>11, <1>12 DEF Next, Stream

(* The page of a run is told of every event after its first one, once and   *)
(* in order, over any number of lost connections.                           *)
THEOREM PageFollowsFeed == Spec => FeedSafe
<1>1. Inv /\ [Next]_vars => [Feed!Next]_(Feed!vars)
  BY FeedStep
<1> QED
  BY <1>1, FeedInit, Invariance, PTL DEF Spec, FeedSafe, Feed!SafeSpec
=============================================================================
