-------------------------- MODULE LogStream_proofs --------------------------
(***************************************************************************)
(* The log of one run and a client that follows it, for any streams,       *)
(* sizes, replay budget and number of connections: what is found under a   *)
(* number is the line of that number, no line is left out without a word,  *)
(* the end of the run is not missed, and the types and bounds hold.  The   *)
(* invariant is built in layers: Inv (what the files and the sidecar say,  *)
(* and when a reader can rely on it) and, for a client that was not        *)
(* misled, Basic (where numbers may occur), Middle (the order in which     *)
(* lines wait) and Whole (where each line is that the client will be       *)
(* past).                                                                  *)
(***************************************************************************)
EXTENDS LogStream, TLAPS

\* Types, as far as the numbering depends on them.
Typed ==
    /\ log \in Seq(Nat) /\ prev \in Seq(Nat)
    /\ rotated \in Nat /\ prevStart \in Nat
    /\ meta \in Metas /\ index \in Metas
    /\ held \in [Streams -> Seq(Nat)]
    /\ pending \in Seq(Nat)
    /\ back \in Seq(Lines)
    /\ anchor \in Int /\ last \in Int /\ from \in Int

\* Segments hold consecutive numbers, the .prev one up to where the current begins.
Files ==
    /\ \A i \in 1 .. Len(log) : log[i] = rotated + i - 1
    /\ \A i \in 1 .. Len(prev) : prev[i] = prevStart + i - 1
    /\ prev # <<>> => prevStart + Len(prev) = rotated

\* A sidecar that is not stale says where both segments begin.
Index ==
    /\ missing \/ moving # None => stale
    /\ ~stale => /\ meta.rotated = rotated
                 /\ prev # <<>> => meta.start = prevStart

\* So does the index a connection has loaded, unless it is torn.
Fit ==
    /\ ~missing /\ index.rotated = rotated
    /\ prev # <<>> => index.start = prevStart
Fits == phase \in {"indexed", "reindexed"} /\ ~torn => Fit

True(lines) == \A i \in 1 .. Len(lines) : lines[i].n = lines[i].line
Faithful == misled \/ (True(back) /\ NumbersAreStable)

Inv == Typed /\ Files /\ Index /\ Fits /\ Faithful

-----------------------------------------------------------------------------
(***************************************************************************)
(* Collect returns lines of the segment, numbered in order.                *)
(***************************************************************************)
LEMMA CollectFacts ==
    ASSUME NEW segment \in Seq(Nat), NEW skip \in Nat, NEW n \in Int, NEW limit \in Nat
    PROVE  /\ Collect(segment, skip, n, limit) \in Seq(Lines)
           /\ Len(Collect(segment, skip, n, limit)) <= limit
           /\ limit > 0 /\ Len(segment) > skip => Collect(segment, skip, n, limit) # <<>>
           /\ Len(Collect(segment, skip, n, limit)) + skip <= Len(segment)
                \/ Len(Collect(segment, skip, n, limit)) = 0
           /\ \A i \in 1 .. Len(Collect(segment, skip, n, limit)) :
                Collect(segment, skip, n, limit)[i] = [n |-> n + i - 1, line |-> segment[skip + i]]
<1> DEFINE count == Lower(limit, Higher(Len(segment) - skip, 0))
<1>1. count \in Nat /\ count <= limit /\ (count = 0 \/ count + skip <= Len(segment))
  BY DEF Lower, Higher
<1>2. limit > 0 /\ Len(segment) > skip => count > 0
  BY DEF Lower, Higher
<1>3. \A i \in 1 .. count : [n |-> n + i - 1, line |-> segment[skip + i]] \in Lines
  <2> SUFFICES ASSUME NEW i \in 1 .. count
               PROVE  [n |-> n + i - 1, line |-> segment[skip + i]] \in Lines
    OBVIOUS
  <2>1. skip + i \in 1 .. Len(segment)
    BY <1>1
  <2>2. segment[skip + i] \in Nat
    BY <2>1
  <2> QED
    BY <1>1, <2>2 DEF Lines
<1>4. Collect(segment, skip, n, limit) =
        [i \in 1 .. count |-> [n |-> n + i - 1, line |-> segment[skip + i]]]
  BY DEF Collect
<1> HIDE DEF count
<1>5. Collect(segment, skip, n, limit) \in Seq(Lines)
  <2> SUFFICES ASSUME NEW k \in Nat,
                      \A i \in 1 .. k : [n |-> n + i - 1, line |-> segment[skip + i]] \in Lines
               PROVE  [i \in 1 .. k |-> [n |-> n + i - 1, line |-> segment[skip + i]]] \in Seq(Lines)
    BY <1>1, <1>3, <1>4
  <2> DEFINE e(i) == [n |-> n + i - 1, line |-> segment[skip + i]]
  <2>1. \A i \in 1 .. k : e(i) \in Lines
    OBVIOUS
  <2> HIDE DEF e
  <2>2. [i \in 1 .. k |-> e(i)] \in [1 .. k -> Lines]
    BY <2>1
  <2>3. [i \in 1 .. k |-> e(i)] \in Seq(Lines)
    BY <2>2
  <2> QED
    BY <2>3 DEF e
<1>6. Len(Collect(segment, skip, n, limit)) = count
  BY <1>1, <1>4
<1>7. limit > 0 /\ Len(segment) > skip => Collect(segment, skip, n, limit) # <<>>
  BY <1>1, <1>2, <1>6
<1>8. \A i \in 1 .. count :
        Collect(segment, skip, n, limit)[i] = [n |-> n + i - 1, line |-> segment[skip + i]]
  BY <1>4
<1> HIDE DEF Collect
<1> QED
  BY <1>1, <1>5, <1>6, <1>7, <1>8

\* The same, as one fact about the result and its arguments.
Collected(got, segment, skip, n, limit) ==
    /\ got \in Seq(Lines) /\ Len(got) <= limit
    /\ limit > 0 /\ Len(segment) > skip => got # <<>>
    /\ Len(got) + skip <= Len(segment) \/ Len(got) = 0
    /\ \A i \in 1 .. Len(got) : got[i] = [n |-> n + i - 1, line |-> segment[skip + i]]

LEMMA CollectNamed ==
    ASSUME NEW segment \in Seq(Nat), NEW skip \in Nat, NEW n \in Int, NEW limit \in Nat
    PROVE  Collected(Collect(segment, skip, n, limit), segment, skip, n, limit)
BY CollectFacts, Zenon DEF Collected

(***************************************************************************)
(* With an index that fits, every line a read returns carries its own       *)
(* number; with any other it still returns lines.                           *)
(***************************************************************************)
LEMMA ReadFacts ==
    ASSUME Typed, Files, Fit, NEW f \in Int, NEW limit \in Nat \ {0}
    PROVE  ReadLineRange(f, limit) \in Seq(Lines) /\ True(ReadLineRange(f, limit))
<1> DEFINE start == ResolveStartLine(f)
           older == IF prev # <<>> /\ start < index.rotated
                    THEN Collect(prev, start - index.start, start, limit) ELSE <<>>
           at == IF older # <<>> THEN index.rotated ELSE start
           newer == Collect(log, Higher(at - index.rotated, 0), at, limit - Len(older))
<1>1. index.rotated \in Nat /\ index.start \in Nat /\ index.rotated = rotated
      /\ (prev # <<>> => index.start = prevStart) /\ TotalLines \in Int
  BY DEF Typed, Fit, Metas, TotalLines, FirstAvailable
<1>2. start \in Int /\ start >= FirstAvailable
  BY <1>1 DEF ResolveStartLine, Higher, FirstAvailable
<1> HIDE DEF start
<1>3. ASSUME prev # <<>>, start < index.rotated
      PROVE  /\ older \in Seq(Lines) /\ Len(older) <= limit /\ older # <<>>
             /\ True(older)
  <2>1. start - index.start \in Nat /\ start - prevStart \in Nat
    BY <1>1, <1>2, <1>3 DEF FirstAvailable
  <2>2. Len(prev) > start - index.start
    BY <1>1, <1>2, <1>3 DEF Typed, Files
  <2>3. older = Collect(prev, start - index.start, start, limit)
    BY <1>3
  <2> HIDE DEF older
  <2>6. limit \in Nat /\ limit > 0 /\ prev \in Seq(Nat)
    BY DEF Typed
  <2>7. start - index.start \in Nat /\ start \in Int
    BY <1>2, <2>1
  <2>4. /\ older \in Seq(Lines) /\ Len(older) <= limit /\ older # <<>>
        /\ Len(older) + (start - index.start) <= Len(prev) \/ Len(older) = 0
        /\ \A i \in 1 .. Len(older) :
             older[i] = [n |-> start + i - 1, line |-> prev[start - index.start + i]]
    <3>1. Collected(Collect(prev, start - index.start, start, limit), prev, start - index.start,
                    start, limit)
      BY <2>6, <2>7, CollectNamed, Zenon
    <3> QED
      BY <2>2, <2>3, <2>6, <3>1 DEF Collected
  <2>5. ASSUME NEW i \in 1 .. Len(older)
        PROVE  older[i].n = older[i].line
    <3>1. Len(older) \in Nat
      BY <2>4
    <3>6. Len(older) + (start - index.start) <= Len(prev) \/ Len(older) = 0
      BY <2>4
    <3>7. start - index.start \in Nat /\ Len(prev) \in Nat
      BY <2>6, <2>7
    <3>2. start - index.start + i \in 1 .. Len(prev)
      BY <2>5, <3>1, <3>6, <3>7
    <3>3. prev[start - index.start + i] = prevStart + (start - index.start + i) - 1
      BY <3>2 DEF Files
    <3>4. prev[start - index.start + i] = start + i - 1
      <4>1. index.start = prevStart /\ start \in Int /\ index.start \in Nat
        BY <1>1, <1>2, <1>3
      <4> QED
        BY <3>3, <4>1
    <3>5. older[i] = [n |-> start + i - 1, line |-> prev[start - index.start + i]]
      BY <2>4, <2>5
    <3> QED
      BY <3>4, <3>5
  <2> QED
    BY <2>4, <2>5 DEF True
<1>4. older \in Seq(Lines) /\ Len(older) <= limit /\ True(older)
  BY <1>3 DEF True
<1>5. at \in Int /\ at >= index.rotated
  <2>1. CASE older # <<>>
    BY <1>1, <2>1
  <2>2. CASE older = <<>>
    <3>1. prev = <<>> \/ start >= index.rotated
      BY <1>1, <1>2, <1>3, <2>2
    <3>2. start >= index.rotated
      BY <1>1, <1>2, <3>1 DEF FirstAvailable
    <3> QED
      BY <1>2, <2>2, <3>2
  <2> QED
    BY <2>1, <2>2
<1> HIDE DEF older, at
<1>6. limit - Len(older) \in Nat
  BY <1>4
<1>7. Higher(at - index.rotated, 0) = at - index.rotated /\ at - index.rotated \in Nat
  BY <1>1, <1>5 DEF Higher
<1>8. newer \in Seq(Lines) /\ True(newer)
  <2>1. newer = Collect(log, at - index.rotated, at, limit - Len(older))
    BY <1>7
  <2> HIDE DEF newer
  <2>6. log \in Seq(Nat)
    BY DEF Typed
  <2>2. /\ newer \in Seq(Lines)
        /\ Len(newer) + (at - index.rotated) <= Len(log) \/ Len(newer) = 0
        /\ \A i \in 1 .. Len(newer) :
             newer[i] = [n |-> at + i - 1, line |-> log[at - index.rotated + i]]
    <3>1. Collected(Collect(log, at - index.rotated, at, limit - Len(older)), log,
                    at - index.rotated, at, limit - Len(older))
      BY <1>5, <1>6, <1>7, <2>6, CollectNamed, Zenon
    <3> QED
      BY <2>1, <3>1 DEF Collected
  <2>3. ASSUME NEW i \in 1 .. Len(newer)
        PROVE  newer[i].n = newer[i].line
    <3>1. Len(newer) \in Nat
      BY <2>2
    <3>2. at - index.rotated + i \in 1 .. Len(log)
      BY <1>1, <1>5, <1>7, <2>2, <2>3, <3>1
    <3>3. log[at - index.rotated + i] = rotated + (at - index.rotated + i) - 1
      BY <3>2 DEF Files
    <3>4. log[at - index.rotated + i] = at + i - 1
      BY <1>1, <1>5, <3>3
    <3>5. newer[i] = [n |-> at + i - 1, line |-> log[at - index.rotated + i]]
      BY <2>2, <2>3
    <3> QED
      BY <3>4, <3>5
  <2> QED
    BY <2>2, <2>3 DEF True
<1> HIDE DEF newer
<1>9. ReadLineRange(f, limit) = IF start >= TotalLines THEN <<>> ELSE older \o newer
  BY DEF ReadLineRange, start, older, at, newer
<1>10. older \o newer \in Seq(Lines) /\ True(older \o newer)
  BY <1>4, <1>8 DEF True
<1>11. <<>> \in Seq(Lines) /\ True(<<>>)
  BY DEF True
<1>12. CASE start >= TotalLines
  <2>1. ReadLineRange(f, limit) = <<>>
    BY <1>9, <1>12
  <2> QED
    BY <1>11, <2>1
<1>13. CASE ~(start >= TotalLines)
  <2>1. ReadLineRange(f, limit) = older \o newer
    BY <1>9, <1>13
  <2> HIDE DEF True
  <2> QED
    BY <1>10, <2>1
<1> QED
  BY <1>12, <1>13

LEMMA AvailableTyped ==
    ASSUME Typed
    PROVE  FirstAvailable \in Nat /\ TotalLines \in Nat /\ index.rotated \in Nat /\ index.start \in Nat
BY DEF Typed, Metas, FirstAvailable, TotalLines

LEMMA ReadTyped ==
    ASSUME Typed, NEW f \in Int, NEW limit \in Nat \ {0}
    PROVE  ReadLineRange(f, limit) \in Seq(Lines)
<1> DEFINE start == ResolveStartLine(f)
           older == IF prev # <<>> /\ start < index.rotated
                    THEN Collect(prev, start - index.start, start, limit) ELSE <<>>
           at == IF older # <<>> THEN index.rotated ELSE start
           newer == Collect(log, Higher(at - index.rotated, 0), at, limit - Len(older))
<1>1. start \in Int /\ start >= FirstAvailable
  BY AvailableTyped DEF ResolveStartLine, Higher
<1> HIDE DEF start
<1>2. older \in Seq(Lines) /\ Len(older) <= limit
  <2>1. CASE prev # <<>> /\ start < index.rotated
    <3>1. start - index.start \in Nat /\ prev \in Seq(Nat)
      BY <1>1, <2>1, AvailableTyped DEF FirstAvailable, Typed
    <3>2. Collected(Collect(prev, start - index.start, start, limit), prev, start - index.start,
                    start, limit)
      BY <1>1, <3>1, CollectNamed, Zenon
    <3>3. older = Collect(prev, start - index.start, start, limit)
      BY <2>1
    <3> QED
      BY <3>2, <3>3 DEF Collected
  <2>2. CASE ~(prev # <<>> /\ start < index.rotated)
    BY <2>2
  <2> QED
    BY <2>1, <2>2
<1>3. at \in Int
  BY <1>1, AvailableTyped
<1> HIDE DEF older, at
<1>4. limit - Len(older) \in Nat /\ Higher(at - index.rotated, 0) \in Nat /\ log \in Seq(Nat)
  BY <1>2, <1>3, AvailableTyped DEF Higher, Typed
<1>5. newer \in Seq(Lines)
  <2>1. Collected(Collect(log, Higher(at - index.rotated, 0), at, limit - Len(older)), log,
                  Higher(at - index.rotated, 0), at, limit - Len(older))
    BY <1>3, <1>4, CollectNamed, Zenon
  <2> QED
    BY <2>1 DEF Collected
<1> HIDE DEF newer
<1>6. ReadLineRange(f, limit) = IF start >= TotalLines THEN <<>> ELSE older \o newer
  BY DEF ReadLineRange, start, older, at, newer
<1> QED
  BY <1>2, <1>5, <1>6

-----------------------------------------------------------------------------
LEMMA InitInv == Init => Inv
BY LogStreamAssumption
   DEF Init, Inv, Typed, Files, Index, Fits, Faithful, True, NumbersAreStable, NoMeta, Metas, Lines

(***************************************************************************)
(* The writer keeps the segments consecutive and, once a rotation is over, *)
(* the sidecar in step with them.                                          *)
(***************************************************************************)
LEMMA MetaTyped ==
    ASSUME Typed
    PROVE  NoMeta \in Metas /\ \A n \in Nat : Meta(n, TRUE) \in Metas /\ Meta(n, FALSE) \in Metas
BY DEF Typed, NoMeta, Meta, Metas

LEMMA TakenHeld ==
    ASSUME held \in [Streams -> Seq(Nat)], NEW s \in Streams, NEW n \in Nat, Taken(s, n)
    PROVE  held' \in [Streams -> Seq(Nat)]
<1>1. held' = held \/ held' = [held EXCEPT ![s] = Append(@, n)]
  BY DEF Taken, Capture, Remarked
<1>2. held[s] \in Seq(Nat)
  OBVIOUS
<1>3. Append(held[s], n) \in Seq(Nat)
  BY <1>2
<1> QED
  BY <1>1, <1>3

LEMMA WriteInv == ASSUME Inv, NEW s \in Streams, Write(s) PROVE Inv'
<1>1. Typed'
  <2>1. NextNumber \in Nat
    BY DEF Inv, Typed, NextNumber
  <2>2. held' \in [Streams -> Seq(Nat)]
    BY <2>1, TakenHeld DEF Inv, Typed, Write
  <2> QED
    BY <2>1, <2>2 DEF Inv, Typed, Write, reading, sending, client
<1>2. Files'
  <2>1. Len(log') = Len(log) + 1 /\ Len(log) \in Nat
    BY DEF Inv, Typed, Write
  <2>2. ASSUME NEW i \in 1 .. Len(log') PROVE log'[i] = rotated + i - 1
    <3>1. log' = Append(log, rotated + Len(log)) /\ log \in Seq(Nat) /\ rotated \in Nat
      BY DEF Inv, Typed, Write, NextNumber
    <3>2. \A j \in 1 .. Len(log) : log[j] = rotated + j - 1
      BY DEF Inv, Files
    <3>3. CASE i = Len(log) + 1
      BY <2>1, <3>1, <3>3
    <3>4. CASE i \in 1 .. Len(log)
      BY <3>1, <3>2, <3>4
    <3> QED
      BY <2>1, <3>3, <3>4
  <2> QED
    BY <2>2 DEF Inv, Files, Write
<1>3. Index' /\ Fits' /\ Faithful'
  BY DEF Inv, Index, Fits, Fit, Faithful, True, NumbersAreStable, Write, reading, sending, client
<1> QED
  BY <1>1, <1>2, <1>3 DEF Inv

LEMMA StopCaptureInv == ASSUME Inv, NEW s \in Streams, StopCapture(s) PROVE Inv'
<1>1. NextNumber \in Nat
  BY DEF Inv, Typed, NextNumber
<1>5. log' = log \/ log' = Append(log, rotated + Len(log))
  BY DEF StopCapture, NextNumber
<1>6. log \in Seq(Nat) /\ Len(log) \in Nat /\ rotated \in Nat
  BY DEF Inv, Typed
<1>7. log' \in Seq(Nat)
  BY <1>5, <1>6
<1>2. Typed'
  BY <1>7 DEF Inv, Typed, StopCapture, Remarked, said, reading, sending, client
<1>3. Files'
  <2>1. ASSUME NEW i \in 1 .. Len(log') PROVE log'[i] = rotated + i - 1
    <3>1. \A j \in 1 .. Len(log) : log[j] = rotated + j - 1
      BY DEF Inv, Files
    <3>2. CASE log' = log
      BY <3>1, <3>2
    <3>3. CASE log' = Append(log, rotated + Len(log))
      <4>1. CASE i = Len(log) + 1
        BY <1>6, <3>3, <4>1
      <4>2. CASE i \in 1 .. Len(log)
        BY <1>6, <3>1, <3>3, <4>2
      <4> QED
        BY <1>6, <3>3, <4>1, <4>2
    <3> QED
      BY <1>5, <3>2, <3>3
  <2> QED
    BY <2>1 DEF Inv, Files, StopCapture
<1>4. Index' /\ Fits' /\ Faithful'
  BY DEF Inv, Index, Fits, Fit, Faithful, True, NumbersAreStable, StopCapture, reading, sending, client
<1> QED
  BY <1>2, <1>3, <1>4 DEF Inv

LEMMA RotateInv == ASSUME Inv, NEW s \in Streams, Rotate(s) PROVE Inv'
<1>1. Typed'
  BY DEF Inv, Typed, Rotate, said, sending, client
<1>2. Files'
  BY DEF Inv, Typed, Files, Rotate
<1>3. Index' /\ Fits'
  BY DEF Index, Fits, Rotate
<1>4. Faithful'
  BY DEF Inv, Faithful, True, NumbersAreStable, Rotate, sending, client
<1> QED
  BY <1>1, <1>2, <1>3, <1>4 DEF Inv

LEMMA SegmentInv == ASSUME Inv, NEW s \in Streams, CreateSegment(s) \/ SegmentFails(s) PROVE Inv'
<1>1. Typed' /\ Files' /\ Index' /\ Faithful'
  BY DEF Inv, Typed, Files, Index, Faithful, True, NumbersAreStable, CreateSegment, SegmentFails,
     said, reading, sending, client
<1>2. Fits'
  BY DEF Inv, Index, Fits, Fit, CreateSegment, SegmentFails, reading
<1> QED
  BY <1>1, <1>2 DEF Inv

\* A connection whose index fits has loaded it before the rotation or after.
LEMMA RewriteInv == ASSUME Inv, NEW s \in Streams, Rewrite(s) PROVE Inv'
<1>1. Typed'
  <2>1. rotated + 1 \in Nat /\ log' = <<rotated, rotated + 1>> /\ rotated \in Nat
    BY DEF Inv, Typed, Rewrite
  <2>2. held' \in [Streams -> Seq(Nat)]
    BY <2>1, TakenHeld DEF Inv, Typed, Rewrite
  <2>3. meta' \in Metas
    <3>1. NoMeta \in Metas /\ Meta(0, FALSE) \in Metas /\ meta \in Metas
      BY MetaTyped DEF Inv, Typed
    <3> QED
      BY <3>1 DEF Rewrite, Recorded, Unrecorded
  <2> QED
    BY <2>1, <2>2, <2>3 DEF Inv, Typed, Rewrite, reading, sending, client
<1>2. Files'
  BY DEF Inv, Typed, Files, Rewrite
<1>3. Index'
  BY LogStreamAssumption DEF Inv, Index, Rewrite, Recorded, Unrecorded, Meta
<1>4. Fits' /\ Faithful'
  BY DEF Inv, Fits, Fit, Faithful, True, NumbersAreStable, Rewrite, reading, sending, client
<1> QED
  BY <1>1, <1>2, <1>3, <1>4 DEF Inv

LEMMA CloseInv == ASSUME Inv, Close PROVE Inv'
<1>1. NextNumber \in Nat
  BY DEF Inv, Typed, NextNumber
<1>2. log' \in Seq(Nat)
  BY <1>1 DEF Inv, Typed, Close
<1>3. meta' = meta \/ \E n \in Nat : meta' = Meta(n, TRUE)
  <2>1. Len(IF missing THEN prev ELSE log') \in Nat
    BY <1>2 DEF Inv, Typed
  <2> QED
    BY <2>1 DEF Close
<1>4. Typed'
  <2>1. meta' \in Metas
    BY <1>3, MetaTyped DEF Inv, Typed
  <2> QED
    BY <1>2, <2>1 DEF Inv, Typed, Close, said, reading, sending, client
<1>5. Files'
  <2>1. ASSUME NEW i \in 1 .. Len(log') PROVE log'[i] = rotated + i - 1
    BY DEF Inv, Typed, Files, Close, NextNumber
  <2> QED
    BY <2>1 DEF Inv, Files, Close
<1>6. Index'
  BY <1>3 DEF Inv, Index, Close, Meta
<1>7. Fits' /\ Faithful'
  BY DEF Inv, Fits, Fit, Faithful, True, NumbersAreStable, Close, reading, sending, client
<1> QED
  BY <1>4, <1>5, <1>6, <1>7 DEF Inv

(***************************************************************************)
(* The bus carries a number, and a number is its own line.                 *)
(***************************************************************************)
LEMMA PublishInv == ASSUME Inv, NEW s \in Streams, Publish(s) PROVE Inv'
<1>1. held[s] \in Seq(Nat) /\ held[s] # <<>>
  BY DEF Inv, Typed, Publish
<1>2. Head(held[s]) \in Nat /\ Tail(held[s]) \in Seq(Nat)
  BY <1>1
<1>3. held' \in [Streams -> Seq(Nat)]
  BY <1>2 DEF Inv, Typed, Publish
<1>4. pending' \in Seq(Nat)
  <2>4. IF Subscribed THEN Buffer(Head(held[s])) ELSE pending' = pending
    BY DEF Publish
  <2>5. pending \in Seq(Nat)
    BY DEF Inv, Typed
  <2>1. CASE Subscribed /\ Len(pending) < PendingLimit
    <3>1. pending' = Append(pending, Head(held[s]))
      BY <2>1, <2>4 DEF Buffer
    <3> QED
      BY <1>2, <2>5, <3>1
  <2>2. CASE Subscribed /\ ~(Len(pending) < PendingLimit)
    <3>1. pending \in Seq(Nat) /\ pending # <<>>
      BY <2>2, LogStreamAssumption DEF Inv, Typed
    <3>2. Tail(pending) \in Seq(Nat)
      BY <3>1
    <3>3. pending' = Append(Tail(pending), Head(held[s]))
      BY <2>2, <2>4 DEF Buffer
    <3> QED
      BY <1>2, <3>2, <3>3
  <2>3. CASE ~Subscribed
    BY <2>3, <2>4, <2>5
  <2> QED
    BY <2>1, <2>2, <2>3
<1>5. Typed'
  BY <1>3, <1>4 DEF Inv, Typed, Publish, files, reading, client
<1>6. Files' /\ Index' /\ Fits' /\ Faithful'
  BY DEF Inv, Files, Index, Fits, Fit, Faithful, True, NumbersAreStable, Publish, files, reading, client
<1> QED
  BY <1>5, <1>6 DEF Inv

(***************************************************************************)
(* ReadFacts holds of a read whose index is not torn; a torn one misleads. *)
(***************************************************************************)
LEMMA LoadSidecarInv == ASSUME Inv, LoadSidecar PROVE Inv'
<1>1. Typed'
  <2>1. index' \in Metas
    BY MetaTyped DEF Inv, Typed, LoadSidecar
  <2> QED
    BY <2>1 DEF Inv, Typed, LoadSidecar, files, said, sending, client
<1>3. Files' /\ Index' /\ Faithful'
  BY DEF Inv, Files, Index, Faithful, True, NumbersAreStable, LoadSidecar, files, sending, client
<1>2. Fits'
  BY DEF Inv, Index, Fits, Fit, LoadSidecar, files
<1> QED
  BY <1>1, <1>2, <1>3 DEF Inv

LEMMA ReadBackfillInv == ASSUME Inv, ReadBackfill PROVE Inv'
<1>1. Replay \in Nat \ {0} /\ from \in Int
  BY LogStreamAssumption DEF Inv, Typed
<1>2. back' = <<>> \/ back' = ReadLineRange(from, Replay)
  BY DEF ReadBackfill
<1>3. back' \in Seq(Lines)
  <2>1. ReadLineRange(from, Replay) \in Seq(Lines)
    BY <1>1, ReadTyped DEF Inv
  <2>2. <<>> \in Seq(Lines)
    OBVIOUS
  <2> QED
    BY <1>2, <2>1, <2>2, Zenon
<1>4. misled' \/ (~misled /\ True(back)')
  <2>1. CASE torn \/ misled
    BY <2>1 DEF ReadBackfill, Misled
  <2>2. CASE ~torn /\ ~misled
    <3>1. True(ReadLineRange(from, Replay))
      BY <1>1, <2>2, ReadFacts DEF Inv, Fits, ReadBackfill
    <3> QED
      BY <1>2, <2>2, <3>1 DEF True
  <2> QED
    BY <2>1, <2>2
<1>5. anchor' \in Int
  <2>1. FirstAvailable \in Int /\ TotalLines \in Int
    BY AvailableTyped DEF Inv
  <2>2. ResolveStartLine(from) \in Int
    BY <1>1, <2>1 DEF ResolveStartLine, Higher
  <2> QED
    BY <1>1, <2>1, <2>2 DEF ReadBackfill, ResolveBackfillAnchor, Higher
<1>6. Typed' /\ Files' /\ Index' /\ Fits'
  BY <1>3, <1>5 DEF Inv, Typed, Files, Index, Fits, ReadBackfill, Misled, NoMeta, Metas, files,
     said, client
<1>7. Faithful'
  BY <1>4 DEF Inv, Faithful, NumbersAreStable, ReadBackfill, client
<1> QED
  BY <1>6, <1>7 DEF Inv

LEMMA ReadAgainInv == ASSUME Inv, ReadAgain PROVE Inv'
<1>1. Replay \in Nat \ {0} /\ anchor \in Int /\ back' = ReadLineRange(anchor, Replay)
  BY LogStreamAssumption DEF Inv, Typed, ReadAgain
<1>2. back' \in Seq(Lines)
  BY <1>1, ReadTyped DEF Inv
<1>3. misled' \/ (~misled /\ True(back)')
  <2>1. CASE torn \/ misled
    BY <2>1 DEF ReadAgain, Misled
  <2>2. CASE ~torn /\ ~misled
    <3>1. True(ReadLineRange(anchor, Replay))
      BY <1>1, <2>2, ReadFacts DEF Inv, Fits, ReadAgain
    <3> QED
      BY <1>1, <2>2, <3>1 DEF True
  <2> QED
    BY <2>1, <2>2
<1>4. Typed' /\ Files' /\ Index' /\ Fits'
  BY <1>2 DEF Inv, Typed, Files, Index, Fits, ReadAgain, Misled, NoMeta, Metas, files, said, client
<1>5. Faithful'
  BY <1>3 DEF Inv, Faithful, NumbersAreStable, ReadAgain, client
<1> QED
  BY <1>4, <1>5 DEF Inv

(***************************************************************************)
(* What is sent is a backfill line or a live one.                          *)
(***************************************************************************)
LEMMA SendBackfillInv == ASSUME Inv, SendBackfill PROVE Inv'
<1>1. back \in Seq(Lines) /\ back # <<>>
  BY DEF Inv, Typed, SendBackfill
<1>2. Head(back) \in Lines /\ Tail(back) \in Seq(Lines) /\ Head(back) = back[1]
  BY <1>1
<1>3. last' \in Int
  BY <1>2 DEF Inv, Typed, SendBackfill, Emit, Lines
<1>4. Faithful'
  <2>1. misled' = misled
    BY DEF SendBackfill, reading
  <2>2. ASSUME ~misled PROVE True(back)' /\ NumbersAreStable'
    <3>1. Head(back).n = Head(back).line
      BY <1>1, <1>2, <2>2 DEF Inv, Faithful, True
    <3>2. NumbersAreStable'
      BY <2>2, <3>1 DEF Inv, Faithful, NumbersAreStable, SendBackfill, Emit
    <3>3. True(back)'
      BY <1>1, <1>2, <2>2 DEF Inv, Faithful, True, SendBackfill
    <3> QED
      BY <3>2, <3>3
  <2> QED
    BY <2>1, <2>2 DEF Faithful
<1>5. Typed' /\ Files' /\ Index' /\ Fits'
  BY <1>2, <1>3 DEF Inv, Typed, Files, Index, Fits, Fit, SendBackfill, files, said, reading
<1> QED
  BY <1>4, <1>5 DEF Inv

LEMMA LiveInv == ASSUME Inv, LiveLine \/ Drain PROVE Inv'
<1>1. pending \in Seq(Nat) /\ pending # <<>>
  BY DEF Inv, Typed, LiveLine, Drain
<1>2. Head(pending) \in Nat /\ Tail(pending) \in Seq(Nat)
  BY <1>1
<1> DEFINE x == Live(Head(pending))
<1>5. x.n \in Nat /\ x.n = x.line
  BY <1>2 DEF Live
<1>6. Emit(x)
  BY DEF LiveLine, Drain
<1> HIDE DEF x
<1>7. (last' = last \/ last' = x.n) /\ (seen' = seen \/ seen' = seen \cup {x})
  BY <1>6 DEF Emit
<1>3. last' \in Int /\ Faithful'
  <2>1. last \in Int /\ Faithful /\ misled' = misled /\ back' = back
    BY DEF Inv, Typed, LiveLine, Drain, reading
  <2> QED
    BY <1>5, <1>7, <2>1 DEF Faithful, True, NumbersAreStable
<1>4. Typed' /\ Files' /\ Index' /\ Fits'
  <2>1. Typed'
    BY <1>2, <1>3 DEF Inv, Typed, LiveLine, Drain, files, said, reading
  <2> QED
    BY <2>1 DEF Inv, Files, Index, Fits, Fit, LiveLine, Drain, files, reading
<1> QED
  BY <1>3, <1>4 DEF Inv

(***************************************************************************)
(* A connection that ends leaves nothing buffered, and a cursor; a crash   *)
(* leaves the sidecar as a rotation had got with it.                       *)
(***************************************************************************)
LEMMA DisconnectInv == ASSUME Inv, Cut \/ Crash PROVE Inv'
<1>1. /\ from' \in Int /\ last' \in Int /\ anchor' \in Int /\ pending' \in Seq(Nat)
      /\ back' \in Seq(Lines) /\ index' \in Metas
      /\ back' = back \/ back' = <<>>
      /\ \/ phase' \notin {"indexed", "reindexed"}
         \/ phase' = phase /\ index' = index /\ torn' = torn /\ phase = "none"
  <2>1. CASE Disconnect
    BY <2>1 DEF Inv, Typed, Disconnect, ResumeFrom, NoMeta, Metas
  <2>2. CASE phase = "none" /\ UNCHANGED <<phase, index, torn, sending, from>>
    BY <2>2 DEF Inv, Typed, sending
  <2> QED
    BY <2>1, <2>2 DEF Cut, Crash
<1>2. held' \in [Streams -> Seq(Nat)]
  <2>1. held' = held \/ held' = [s \in Streams |-> <<>>]
    BY DEF Cut, Crash, said
  <2>2. held \in [Streams -> Seq(Nat)]
    BY DEF Inv, Typed
  <2>3. [s \in Streams |-> <<>>] \in [Streams -> Seq(Nat)]
    OBVIOUS
  <2> QED
    BY <2>1, <2>2, <2>3
<1>3. /\ UNCHANGED <<prev, rotated, prevStart, missing, misled, seen>>
      /\ log' \in {log, <<rotated>>}
      /\ \/ meta' \in {meta, NoMeta} /\ stale' = stale
            /\ (meta' = meta \/ (stale /\ moving # None))
         \/ meta' = Meta(0, FALSE) /\ stale' = FALSE /\ ~missing
      /\ moving' \in {moving, None}
      /\ stale' = FALSE /\ stale => moving' = None
  BY DEF Inv, Index, Cut, Crash, Recorded, Unrecorded, files
<1>4. meta' \in Metas /\ log' \in Seq(Nat)
  <2>1. meta \in Metas /\ NoMeta \in Metas /\ Meta(0, FALSE) \in Metas
    BY MetaTyped DEF Inv, Typed
  <2>2. log \in Seq(Nat) /\ <<rotated>> \in Seq(Nat)
    BY DEF Inv, Typed
  <2> QED
    BY <1>3, <2>1, <2>2
<1>5. Typed'
  BY <1>1, <1>2, <1>3, <1>4 DEF Inv, Typed
<1>6. Files'
  BY <1>3 DEF Inv, Typed, Files
<1>7. Index'
  BY <1>3 DEF Inv, Index, Meta
<1>8. Fits' /\ Faithful'
  BY <1>1, <1>3 DEF Inv, Fits, Faithful, True, NumbersAreStable
<1> QED
  BY <1>5, <1>6, <1>7, <1>8 DEF Inv

LEMMA Inductive == Inv /\ [Next]_vars => Inv'
<1> SUFFICES ASSUME Inv, [Next]_vars PROVE Inv'
  OBVIOUS
<1>1. ASSUME NEW s \in Streams, Write(s) \/ StopCapture(s) \/ Rotate(s) \/ Rewrite(s) \/ Publish(s)
      PROVE  Inv'
  BY <1>1, WriteInv, StopCaptureInv, RotateInv, RewriteInv, PublishInv
<1>9. ASSUME NEW s \in Streams, CreateSegment(s) \/ SegmentFails(s) PROVE Inv'
  BY <1>9, SegmentInv
<1>2. CASE Close \/ LoadSidecar
  BY <1>2, CloseInv, LoadSidecarInv
<1>3. CASE EndRow \/ Announce \/ Open \/ Subscribe \/ Recheck \/ Tell \/ CommitSent \/ LiveEnd
  <2>1. Typed'
    BY <1>3 DEF Inv, Typed, EndRow, Announce, Open, Subscribe, Recheck, Tell, CommitSent, LiveEnd,
       files, said, reading, sending, client
  <2>2. Files' /\ Index' /\ Fits'
    BY <1>3 DEF Inv, Files, Index, Fits, Fit, EndRow, Announce, Open, Subscribe, Recheck, Tell,
       CommitSent, LiveEnd, files, reading
  <2>3. Faithful'
    BY <1>3 DEF Inv, Faithful, True, NumbersAreStable, EndRow, Announce, Open, Subscribe, Recheck,
       Tell, CommitSent, LiveEnd, reading, sending, client
  <2> QED
    BY <2>1, <2>2, <2>3 DEF Inv
<1>4. CASE SendDone
  BY <1>4 DEF Inv, Typed, Files, Index, Fits, Fit, Faithful, True, NumbersAreStable, SendDone, files,
     said, reading
<1>5. CASE ReadBackfill \/ ReadAgain
  BY <1>5, ReadBackfillInv, ReadAgainInv
<1>6. CASE SendBackfill \/ LiveLine \/ Drain
  BY <1>6, SendBackfillInv, LiveInv
<1>7. CASE Cut \/ Crash
  BY <1>7, DisconnectInv
<1>8. CASE UNCHANGED vars
  BY <1>8 DEF Inv, Typed, Files, Index, Fits, Fit, Faithful, True, NumbersAreStable, vars, files, said,
     reading, sending, client
<1> QED
  BY <1>1, <1>9, <1>2, <1>3, <1>4, <1>5, <1>6, <1>7, <1>8 DEF Next, Streamer

(***************************************************************************)
(* A line a client prints under a number is the line the writer gave that  *)
(* number, across rotations, reconnections, crashes and the end of the     *)
(* run, unless a read of its used a sidecar that a rotation had outdated.  *)
(***************************************************************************)
THEOREM NumbersStable == Spec => []NumbersAreStable
<1>1. Init => Inv
  BY InitInv
<1>2. Inv /\ [Next]_vars => Inv'
  BY Inductive
<1>3. Inv => NumbersAreStable
  BY DEF Inv, Faithful, NumbersAreStable
<1> QED
  BY <1>1, <1>2, <1>3, PTL DEF Spec

-----------------------------------------------------------------------------
(***************************************************************************)
(* What a read returns, and how far it reaches: lines without a gap, from  *)
(* the start that was resolved, to the limit or to the end of the log.     *)
(***************************************************************************)
\* How the files, the streams, the row and the end of a connection hang together.
Final(m) == m.finalized => run # "running" /\ (~missing => m.final = Len(log))
Ends ==
    /\ Final(meta) /\ Final(index)
    /\ moving # None => run = "running" /\ log = <<>>
    /\ run # "running" => \A s \in Streams : held[s] = <<>>
    /\ ended \/ term \/ phase = "closing" \/ done => RowEnded
    /\ done => phase = "none"

LEMMA CollectLength ==
    ASSUME NEW segment \in Seq(Nat), NEW skip \in Nat, NEW n \in Int, NEW limit \in Nat
    PROVE  Len(Collect(segment, skip, n, limit)) = Lower(limit, Higher(Len(segment) - skip, 0))
<1> DEFINE count == Lower(limit, Higher(Len(segment) - skip, 0))
<1>1. count \in Nat
  BY DEF Lower, Higher
<1>2. Collect(segment, skip, n, limit) =
        [i \in 1 .. count |-> [n |-> n + i - 1, line |-> segment[skip + i]]]
  BY DEF Collect
<1> HIDE DEF count
<1>3. Len(Collect(segment, skip, n, limit)) = count
  BY <1>1, <1>2
<1> QED
  BY <1>3 DEF count

LEMMA Total ==
    ASSUME Typed, Fit, Ends
    PROVE  /\ TotalLines = NextNumber /\ NextNumber \in Nat /\ index.rotated = rotated
           /\ FirstAvailable \in Nat
<1>1. /\ log \in Seq(Nat) /\ rotated \in Nat /\ index \in Metas
      /\ ~missing /\ index.rotated = rotated /\ (index.finalized => index.final = Len(log))
  BY DEF Typed, Fit, Ends, Final
<1>2. TotalLines = rotated + Len(log)
  BY <1>1 DEF TotalLines
<1>3. FirstAvailable \in Nat
  BY <1>1 DEF Metas, FirstAvailable
<1> QED
  BY <1>1, <1>2, <1>3 DEF NextNumber

(***************************************************************************)
(* With an index that fits a read has no gap: limit lines from start on, or *)
(* all there are.                                                          *)
(***************************************************************************)
Covers(lines, start, limit) ==
    /\ start \in Nat /\ Len(lines) \in Nat
    /\ start >= NextNumber => lines = <<>>
    /\ start < NextNumber => Len(lines) = Lower(limit, NextNumber - start)
    /\ \A i \in 1 .. Len(lines) : lines[i].n = start + i - 1

LEMMA ReadCovers ==
    ASSUME Typed, Files, Fit, Ends, NEW f \in Int, NEW limit \in Nat \ {0}
    PROVE  Covers(ReadLineRange(f, limit), ResolveStartLine(f), limit)
<1> SUFFICES ASSUME NEW lines, lines = ReadLineRange(f, limit), NEW start, start = ResolveStartLine(f)
             PROVE  /\ start \in Nat /\ Len(lines) \in Nat
                    /\ start >= NextNumber => lines = <<>>
                    /\ start < NextNumber => Len(lines) = Lower(limit, NextNumber - start)
                    /\ \A i \in 1 .. Len(lines) : lines[i].n = start + i - 1
  BY DEF Covers
<1> DEFINE older == IF prev # <<>> /\ start < index.rotated
                    THEN Collect(prev, start - index.start, start, limit) ELSE <<>>
           at == IF older # <<>> THEN index.rotated ELSE start
           newer == Collect(log, Higher(at - index.rotated, 0), at, limit - Len(older))
<1>1. /\ index.rotated = rotated /\ rotated \in Nat /\ index.start \in Nat
      /\ log \in Seq(Nat) /\ prev \in Seq(Nat) /\ Len(log) \in Nat /\ Len(prev) \in Nat
      /\ prev # <<>> => index.start + Len(prev) = rotated
      /\ limit \in Nat /\ limit > 0
  BY DEF Typed, Metas, Files, Fit
<1>2. FirstAvailable \in Nat /\ TotalLines = NextNumber /\ NextNumber \in Nat
      /\ NextNumber = rotated + Len(log)
  BY Total DEF NextNumber
<1>3. start \in Nat /\ start >= FirstAvailable
  BY <1>2 DEF ResolveStartLine, Higher
<1>4. /\ older \in Seq(Lines)
      /\ start < rotated => Len(older) = Lower(limit, rotated - start)
      /\ start >= rotated => older = <<>>
      /\ \A i \in 1 .. Len(older) : older[i].n = start + i - 1
  <2>1. CASE prev # <<>> /\ start < rotated
    <3>8. start >= index.start
      BY <1>3, <2>1 DEF FirstAvailable
    <3>9. /\ start \in Nat /\ index.start \in Nat /\ Len(prev) \in Nat
          /\ index.start + Len(prev) = rotated
      BY <1>1, <1>3, <2>1
    <3> DEFINE base == index.start
               length == Len(prev)
    <3> HIDE DEF base, length
    <3>10. start - base \in Nat /\ length - (start - base) = rotated - start
      BY <3>8, <3>9 DEF base, length
    <3>1. start - index.start \in Nat /\ Len(prev) - (start - index.start) = rotated - start
      BY <3>10 DEF base, length
    <3>2. older = Collect(prev, start - index.start, start, limit)
      BY <1>1, <2>1
    <3> HIDE DEF older
    <3>7. prev \in Seq(Nat) /\ start - index.start \in Nat /\ start \in Int /\ limit \in Nat
      BY <1>1, <1>3, <3>1
    <3>3. /\ older \in Seq(Lines)
          /\ \A i \in 1 .. Len(older) :
               older[i] = [n |-> start + i - 1, line |-> prev[start - index.start + i]]
      <4>1. Collected(Collect(prev, start - index.start, start, limit), prev, start - index.start,
                      start, limit)
        BY <3>7, CollectNamed, Zenon
      <4> QED
        BY <3>2, <4>1 DEF Collected
    <3>5. Len(older) = Lower(limit, Higher(Len(prev) - (start - index.start), 0))
      BY <1>1, <1>3, <3>1, <3>2, CollectLength
    <3>6. ASSUME NEW i \in 1 .. Len(older) PROVE older[i].n = start + i - 1
      <4>1. older[i] = [n |-> start + i - 1, line |-> prev[start - index.start + i]]
        BY <3>3
      <4> QED
        BY <4>1
    <3>4. Higher(Len(prev) - (start - index.start), 0) = rotated - start
      BY <1>1, <1>3, <2>1, <3>1 DEF Higher
    <3> QED
      BY <1>1, <1>3, <2>1, <3>3, <3>4, <3>5, <3>6
  <2>2. CASE ~(prev # <<>> /\ start < rotated)
    <3>1. start >= rotated
      BY <1>1, <1>3, <2>2 DEF FirstAvailable
    <3>2. older = <<>>
      BY <1>1, <2>2
    <3> HIDE DEF older
    <3> QED
      BY <1>1, <1>3, <3>1, <3>2
  <2> QED
    BY <2>1, <2>2
<1> HIDE DEF older
<1>5. Len(older) \in Nat /\ Len(older) <= limit /\ limit - Len(older) \in Nat
  BY <1>1, <1>3, <1>4 DEF Lower
<1>6. /\ start < rotated => older # <<>> /\ at = rotated
      /\ start >= rotated => at = start /\ Len(older) = 0
  BY <1>1, <1>3, <1>4 DEF Lower
<1> HIDE DEF at
<1>7. /\ at \in Nat /\ at >= rotated
      /\ Higher(at - index.rotated, 0) = at - rotated /\ at - rotated \in Nat
  BY <1>1, <1>3, <1>6 DEF Higher
<1>8. /\ newer \in Seq(Lines)
      /\ Len(newer) = Lower(limit - Len(older), Higher(Len(log) - (at - rotated), 0))
      /\ \A i \in 1 .. Len(newer) : newer[i].n = at + i - 1
  <2>1. newer = Collect(log, at - rotated, at, limit - Len(older))
    BY <1>7
  <2> HIDE DEF newer
  <2>3. Len(newer) = Lower(limit - Len(older), Higher(Len(log) - (at - rotated), 0))
    BY <1>1, <1>5, <1>7, <2>1, CollectLength
  <2>2. /\ newer \in Seq(Lines)
        /\ \A i \in 1 .. Len(newer) :
             newer[i] = [n |-> at + i - 1, line |-> log[at - rotated + i]]
    <3>1. log \in Seq(Nat) /\ at - rotated \in Nat /\ at \in Int /\ limit - Len(older) \in Nat
      BY <1>1, <1>5, <1>7
    <3> QED
      <4>1. Collected(Collect(log, at - rotated, at, limit - Len(older)), log, at - rotated, at,
                      limit - Len(older))
        BY <3>1, CollectNamed, Zenon
      <4> QED
        BY <2>1, <4>1 DEF Collected
  <2>4. ASSUME NEW i \in 1 .. Len(newer) PROVE newer[i].n = at + i - 1
    <3>1. newer[i] = [n |-> at + i - 1, line |-> log[at - rotated + i]]
      BY <2>2
    <3> QED
      BY <3>1
  <2> QED
    BY <2>2, <2>3, <2>4
<1> HIDE DEF newer
<1>9. Len(newer) \in Nat
  BY <1>8
<1>14. ASSUME start < rotated
       PROVE  /\ Len(newer) = Lower(limit - Len(older), Len(log))
              /\ Len(older) = Lower(limit, rotated - start)
  <2>1. at = rotated /\ Len(older) = Lower(limit, rotated - start)
    BY <1>4, <1>6, <1>14
  <2>2. Higher(Len(log) - (rotated - rotated), 0) = Len(log)
    BY <1>1 DEF Higher
  <2>3. Len(newer) = Lower(limit - Len(older), Higher(Len(log) - (at - rotated), 0))
    BY <1>8
  <2> QED
    BY <2>1, <2>2, <2>3
<1>10. ReadLineRange(f, limit) = IF start >= TotalLines THEN <<>> ELSE older \o newer
  BY DEF ReadLineRange, older, at, newer
<1>11. CASE start >= NextNumber
  <2>1. lines = <<>>
    BY <1>2, <1>10, <1>11
  <2> QED
    BY <1>2, <1>3, <1>11, <2>1
<1>12. CASE start < NextNumber
  <2>1. lines = older \o newer
    BY <1>2, <1>3, <1>10, <1>12
  <2>2. \A a, b \in Seq(Lines) : /\ Len(a \o b) = Len(a) + Len(b)
          /\ \A i \in 1 .. Len(a \o b) :
               (a \o b)[i] = IF i <= Len(a) THEN a[i] ELSE b[i - Len(a)]
    OBVIOUS
  <2>3. Len(lines) = Len(older) + Len(newer)
    BY <1>4, <1>8, <2>1, <2>2
  <2>4. Len(lines) = Lower(limit, NextNumber - start)
    <3>1. CASE start < rotated
      <4>1. Len(newer) = Lower(limit - Len(older), Len(log)) /\ Len(older) = Lower(limit, rotated - start)
        BY <1>14, <3>1
      <4>5. limit \in Nat /\ start \in Nat /\ rotated \in Nat /\ Len(log) \in Nat
            /\ rotated + Len(log) - start = NextNumber - start
        BY <1>1, <1>2, <1>3
      <4>3. Lower(limit, rotated - start)
              + Lower(limit - Lower(limit, rotated - start), Len(log))
                = Lower(limit, rotated + Len(log) - start)
        BY <3>1, <4>5 DEF Lower
      <4>4. Len(lines) = Lower(limit, rotated - start)
              + Lower(limit - Lower(limit, rotated - start), Len(log))
        BY <2>3, <4>1
      <4> QED
        BY <4>3, <4>4, <4>5
    <3>2. CASE start >= rotated
      <4>1. at = start /\ Len(older) = 0
        BY <1>6, <3>2
      <4>2. Len(newer) = Lower(limit - 0, Higher(Len(log) - (start - rotated), 0))
        BY <1>8, <4>1
      <4>3. limit \in Nat /\ start \in Nat /\ rotated \in Nat /\ Len(log) \in Nat
            /\ NextNumber = rotated + Len(log)
        BY <1>1, <1>2, <1>3
      <4>4. start < NextNumber
        BY <1>2, <1>12
      <4>5. Higher(Len(log) - (start - rotated), 0) = NextNumber - start
        BY <3>2, <4>3, <4>4 DEF Higher
      <4>6. Len(lines) = Len(newer)
        BY <1>9, <2>3, <4>1
      <4> QED
        BY <4>2, <4>3, <4>5, <4>6
    <3> QED
      BY <1>1, <1>3, <3>1, <3>2
  <2>5. ASSUME NEW i \in 1 .. Len(lines) PROVE lines[i].n = start + i - 1
    <3>1. lines[i] = IF i <= Len(older) THEN older[i] ELSE newer[i - Len(older)]
      BY <1>4, <1>8, <2>1, <2>2, <2>5
    <3>2. CASE i <= Len(older)
      <4>1. i \in 1 .. Len(older)
        BY <1>5, <3>2
      <4> QED
        BY <1>4, <3>1, <3>2, <4>1
    <3>3. CASE ~(i <= Len(older))
      <4>1. i - Len(older) \in 1 .. Len(newer)
        BY <1>5, <1>9, <2>3, <3>3
      <4>2. lines[i].n = at + (i - Len(older)) - 1
        BY <1>8, <3>1, <3>3, <4>1
      <4>3. at = start + Len(older)
        <5>1. CASE start >= rotated
          BY <1>3, <1>6, <5>1
        <5>2. CASE start < rotated
          <6>1. Len(newer) = Lower(limit - Len(older), Len(log)) /\ Len(older) = Lower(limit, rotated - start)
            BY <1>14, <5>2
          <6>2. Len(newer) > 0
            BY <1>5, <1>9, <3>3, <4>1
          <6> QED
            BY <1>1, <1>3, <1>5, <1>6, <5>2, <6>1, <6>2 DEF Lower
        <5> QED
          BY <1>1, <1>3, <5>1, <5>2
      <4> QED
        BY <1>3, <1>5, <4>2, <4>3
    <3> QED
      BY <3>2, <3>3
  <2>6. Len(lines) \in Nat /\ ~(start >= NextNumber)
    BY <1>2, <1>3, <1>5, <1>9, <1>12, <2>3
  <2> QED
    BY <1>3, <2>4, <2>5, <2>6
<1> QED
  BY <1>2, <1>3, <1>11, <1>12

-----------------------------------------------------------------------------
(***************************************************************************)
(* The second layer, for a client that was not misled: where numbers may    *)
(* occur, and how far they reach.                                          *)
(***************************************************************************)
Kinds ==
    /\ moving \in Streams \cup {None}
    /\ floor \in Nat /\ anchor \in Nat /\ last >= -1 /\ prevStart <= rotated

\* Only numbers of output are counted, and only numbers given are printed.
Numbered ==
    /\ \A n \in outputs : n \in Nat /\ n < NextNumber
    /\ dropped \subseteq outputs /\ reported \subseteq outputs /\ told \subseteq outputs
    /\ unsaid \subseteq outputs /\ overtaken \subseteq outputs
    /\ \A x \in seen : x \in Lines /\ x.line >= 0 /\ x.line < NextNumber

\* A stream's lines wait in their order, and only output is published.
Queued ==
    /\ \A s \in Streams : \A i \in 1 .. Len(held[s]) : held[s][i] \in outputs
    /\ \A s \in Streams : \A i, j \in 1 .. Len(held[s]) : i < j => held[s][i] < held[s][j]
    /\ \A i \in 1 .. Len(pending) : pending[i] \in outputs

\* Nothing reaches past the end of the log, but for a client that asked beyond it.
Bounded ==
    /\ \A i \in 1 .. Len(back) : back[i].n >= 0 /\ back[i].n < NextNumber
    /\ last < NextNumber
    /\ from <= floor \/ from <= NextNumber

Basic == Kinds /\ Numbered /\ Queued /\ Bounded /\ Ends

LEMMA InitBasic == Init => Basic
<1> SUFFICES ASSUME Init PROVE Basic
  OBVIOUS
<1>1. Kinds
  BY LogStreamAssumption DEF Init, Kinds, Higher
<1>2. Numbered /\ Queued
  BY DEF Init, Numbered, Queued
<1>3. Bounded
  BY LogStreamAssumption DEF Init, Bounded, NextNumber, Higher
<1>4. Ends
  BY DEF Init, Ends, Final, NoMeta, RowEnded
<1> QED
  BY <1>1, <1>2, <1>3, <1>4 DEF Basic

LEMMA NextIsNumber == ASSUME NEW r \in Nat, NEW q \in Seq(Nat) PROVE r + Len(q) \in Nat
OBVIOUS

\* Typed states have a next number.
LEMMA NextTyped == ASSUME Typed PROVE NextNumber \in Nat
<1>1. rotated \in Nat /\ log \in Seq(Nat)
  BY Zenon DEF Typed
<1> QED
  BY <1>1, NextIsNumber, Zenon DEF NextNumber

LEMMA NextTypedThen == ASSUME Typed' PROVE NextNumber' \in Nat
<1>1. rotated' \in Nat /\ log' \in Seq(Nat)
  BY Zenon DEF Typed
<1> QED
  BY <1>1, NextIsNumber, Zenon DEF NextNumber

(***************************************************************************)
(* A line gets the next number, which no line before it has.               *)
(***************************************************************************)
LEMMA CaptureBasic ==
    ASSUME Inv, Inv', Basic, NEW s \in Streams, NEW n \in Nat, Capture(s, n),
           NextNumber <= n, n < NextNumber',
           UNCHANGED <<pending, back, last, from, seen, dropped, reported, told, unsaid, overtaken,
                       floor>>
    PROVE  Numbered' /\ Queued' /\ Bounded'
<1>0. NextNumber \in Nat /\ NextNumber' \in Nat
  BY NextTyped, NextTypedThen, Zenon DEF Inv
<1>1. NextNumber \in Nat /\ NextNumber' \in Nat /\ NextNumber < NextNumber'
  BY <1>0
<1>2. outputs' = outputs \cup {n}
  BY DEF Capture
<1>3. Numbered'
  <2>1. \A x \in seen : x \in Lines /\ x.line >= 0 /\ x.line < NextNumber'
    BY <1>1 DEF Basic, Numbered, Lines
  <2>2. \A m \in outputs' : m \in Nat /\ m < NextNumber'
    BY <1>1, <1>2 DEF Basic, Numbered
  <2> QED
    BY <1>2, <2>1, <2>2 DEF Basic, Numbered
<1>4. held \in [Streams -> Seq(Nat)] /\ held' = [held EXCEPT ![s] = Append(@, n)]
  BY DEF Inv, Typed, Capture
<1>5. ASSUME NEW t \in Streams
      PROVE  /\ \A i \in 1 .. Len(held'[t]) : held'[t][i] \in outputs'
             /\ \A i, j \in 1 .. Len(held'[t]) : i < j => held'[t][i] < held'[t][j]
  <2>1. /\ \A i \in 1 .. Len(held[t]) : held[t][i] \in outputs
        /\ \A i, j \in 1 .. Len(held[t]) : i < j => held[t][i] < held[t][j]
    BY DEF Basic, Queued
  <2>2. CASE t # s
    BY <1>2, <1>4, <2>1, <2>2
  <2>3. CASE t = s
    <3>1. held[s] \in Seq(Nat) /\ held'[s] = Append(held[s], n) /\ Len(held[s]) \in Nat
      BY <1>4
    <3>2. Len(held'[s]) = Len(held[s]) + 1 /\ held'[s][Len(held[s]) + 1] = n
      BY <3>1
    <3>3. \A i \in 1 .. Len(held[s]) : held'[s][i] = held[s][i] /\ held[s][i] \in Nat
      BY <3>1
    <3>4. \A i \in 1 .. Len(held[s]) : held[s][i] < n
      BY <1>1, <2>1, <2>3, <3>3 DEF Basic, Numbered
    <3>5. \A i \in 1 .. Len(held'[s]) : i \in 1 .. Len(held[s]) \/ i = Len(held[s]) + 1
      BY <3>1, <3>2
    <3>6. ASSUME NEW i \in 1 .. Len(held'[s]) PROVE held'[s][i] \in outputs'
      BY <1>2, <2>1, <2>3, <3>2, <3>3, <3>5
    <3>7. ASSUME NEW i \in 1 .. Len(held'[s]), NEW j \in 1 .. Len(held'[s]), i < j
          PROVE  held'[s][i] < held'[s][j]
      <4>1. i \in 1 .. Len(held[s])
        BY <3>1, <3>2, <3>7
      <4>2. CASE j \in 1 .. Len(held[s])
        BY <2>1, <2>3, <3>3, <3>7, <4>1, <4>2
      <4>3. CASE j = Len(held[s]) + 1
        BY <3>2, <3>3, <3>4, <4>1, <4>3
      <4> QED
        BY <3>5, <4>2, <4>3
    <3> QED
      BY <2>3, <3>6, <3>7
  <2> QED
    BY <2>2, <2>3
<1>6. Queued'
  BY <1>2, <1>5 DEF Basic, Queued
<1>7. Bounded'
  <2>2. back \in Seq(Lines) /\ last \in Int /\ from \in Int /\ floor \in Nat
    BY DEF Inv, Typed, Basic, Kinds
  <2>1. /\ \A i \in 1 .. Len(back) : back[i] \in Lines
        /\ last \in Int /\ from \in Int /\ floor \in Nat
    BY <2>2
  <2> QED
    BY <1>1, <2>1 DEF Basic, Bounded, Lines
<1> QED
  BY <1>3, <1>6, <1>7

LEMMA AppendLonger ==
    ASSUME NEW q \in Seq(Nat), NEW r, NEW n, r = q \/ r = Append(q, n)
    PROVE  Len(q) <= Len(r) /\ Len(q) \in Nat /\ Len(r) \in Nat
OBVIOUS

(***************************************************************************)
(* The other steps of the writer only move the end of the log.             *)
(***************************************************************************)
LEMMA KeepBasic ==
    ASSUME Inv, Inv', Basic, NextNumber <= NextNumber',
           UNCHANGED <<outputs, held, pending, back, last, from, seen, dropped, reported, told,
                       unsaid, overtaken, floor>>
    PROVE  Numbered' /\ Queued' /\ Bounded'
<1>1. NextNumber \in Nat /\ NextNumber' \in Nat
  BY NextTyped, NextTypedThen, Zenon DEF Inv
<1>2. Numbered'
  <2>1. \A x \in seen : x \in Lines /\ x.line >= 0 /\ x.line < NextNumber'
    BY <1>1 DEF Basic, Numbered, Lines
  <2>2. \A m \in outputs : m \in Nat /\ m < NextNumber'
    BY <1>1 DEF Basic, Numbered
  <2> QED
    BY <2>1, <2>2 DEF Basic, Numbered
<1>3. Queued'
  BY DEF Basic, Queued
<1>4. Bounded'
  <2>2. back \in Seq(Lines) /\ last \in Int /\ from \in Int /\ floor \in Nat
    BY DEF Inv, Typed, Basic, Kinds
  <2>1. /\ \A i \in 1 .. Len(back) : back[i] \in Lines
        /\ last \in Int /\ from \in Int /\ floor \in Nat
    BY <2>2
  <2> QED
    BY <1>1, <2>1 DEF Basic, Bounded, Lines
<1> QED
  BY <1>2, <1>3, <1>4

(***************************************************************************)
(* A writer's step leaves the row, what ends a connection and what is      *)
(* final alone.                                                            *)
(***************************************************************************)
LEMMA TakenBasic ==
    ASSUME Inv, Inv', Basic, NEW s \in Streams, NEW n \in Nat, Taken(s, n),
           NextNumber <= n, n < NextNumber',
           UNCHANGED <<pending, back, last, from, seen, dropped, reported, told, unsaid, overtaken,
                       floor>>
    PROVE  Numbered' /\ Queued' /\ Bounded'
<1>1. CASE Capture(s, n)
  BY <1>1, CaptureBasic
<1>2. CASE Remarked(s)
  <2>1. NextNumber \in Nat /\ NextNumber' \in Nat
    BY NextTyped, NextTypedThen, Zenon DEF Inv
  <2>2. NextNumber <= NextNumber'
    BY <2>1
  <2> QED
    BY <1>2, <2>2, KeepBasic DEF Remarked
<1> QED
  BY <1>1, <1>2 DEF Taken

LEMMA EndsKept ==
    ASSUME Ends, run = "running", run' = run, UNCHANGED <<index, ended, term, phase, done>>,
           meta' = meta \/ meta'.finalized = FALSE, moving' # None => log' = <<>>
    PROVE  Ends'
BY DEF Ends, Final, RowEnded

LEMMA WriteBasic == ASSUME Inv, Inv', Basic, NEW s \in Streams, Write(s) PROVE Basic'
<1>1. Kinds'
  BY DEF Basic, Kinds, Write, reading, sending, client, marks
<1>2. Ends'
  <2>1. moving' = None /\ run = "running" /\ meta' = meta /\ run' = run
        /\ UNCHANGED <<index, ended, term, phase, done>>
    BY DEF Write, MayWrite, reading, sending, client
  <2> QED
    BY <2>1, EndsKept DEF Basic
<1>3. NextNumber \in Nat /\ NextNumber' = NextNumber + 1
  BY DEF Inv, Typed, NextNumber, Write
<1>4. Numbered' /\ Queued' /\ Bounded'
  <2>1. Taken(s, NextNumber)
        /\ UNCHANGED <<pending, back, last, from, seen, dropped, reported, told, unsaid, overtaken,
                       floor>>
    BY DEF Write, reading, sending, client, marks
  <2> QED
    BY <1>3, <2>1, TakenBasic
<1> QED
  BY <1>1, <1>2, <1>4 DEF Basic

LEMMA RewriteBasic == ASSUME Inv, Inv', Basic, NEW s \in Streams, Rewrite(s) PROVE Basic'
<1>1. Kinds'
  BY DEF Basic, Kinds, Rewrite, reading, sending, client, marks
<1>2. Ends'
  <2>1. /\ moving = s /\ run' = run /\ moving' = None /\ (meta' = meta \/ meta'.finalized = FALSE)
        /\ UNCHANGED <<index, ended, term, phase, done>>
    BY DEF Rewrite, Recorded, Unrecorded, NoMeta, Meta, reading, sending, client
  <2>2. run = "running"
    BY <2>1, LogStreamAssumption DEF Basic, Ends
  <2> QED
    BY <2>1, <2>2, EndsKept DEF Basic
<1>3. NextNumber \in Nat /\ NextNumber' = rotated + 2 /\ rotated \in Nat
  BY DEF Inv, Typed, NextNumber, Rewrite
<1>4. NextNumber <= rotated + 1
  <2>1. log = <<>> /\ rotated \in Nat
    BY LogStreamAssumption DEF Inv, Typed, Basic, Ends, Rewrite
  <2> QED
    BY <2>1 DEF NextNumber
<1>5. Numbered' /\ Queued' /\ Bounded'
  <2> DEFINE n == rotated + 1
  <2>2. n \in Nat /\ NextNumber <= n /\ n < NextNumber'
    BY <1>3, <1>4
  <2>1. Taken(s, n)
        /\ UNCHANGED <<pending, back, last, from, seen, dropped, reported, told, unsaid, overtaken,
                       floor>>
    BY DEF Rewrite, reading, sending, client, marks
  <2> HIDE DEF n
  <2> QED
    BY <2>1, <2>2, TakenBasic
<1> QED
  BY <1>1, <1>2, <1>5 DEF Basic

LEMMA StopCaptureBasic ==
    ASSUME Inv, Inv', Basic, NEW s \in Streams, StopCapture(s) PROVE Basic'
<1>1. Kinds'
  BY DEF Basic, Kinds, StopCapture, reading, sending, client, marks
<1>2. Ends'
  <2>1. moving' = None /\ run = "running" /\ meta' = meta /\ run' = run
        /\ UNCHANGED <<index, ended, term, phase, done>>
    BY DEF StopCapture, MayWrite, reading, sending, client
  <2> QED
    BY <2>1, EndsKept DEF Basic
<1>3. NextNumber <= NextNumber'
  <2>1. log \in Seq(Nat) /\ rotated \in Nat /\ rotated' = rotated
        /\ (log' = log \/ log' = Append(log, NextNumber))
    BY DEF Inv, Typed, StopCapture
  <2>2. Len(log) <= Len(log') /\ Len(log) \in Nat /\ Len(log') \in Nat
    BY <2>1, AppendLonger
  <2> QED
    BY <2>1, <2>2 DEF NextNumber
<1>4. Numbered' /\ Queued' /\ Bounded'
  <2>1. UNCHANGED <<outputs, held, pending, back, last, from, seen, dropped, reported, told,
                    unsaid, overtaken, floor>>
    BY DEF StopCapture, Remarked, said, reading, sending, client, marks
  <2> QED
    BY <1>3, <2>1, KeepBasic
<1> QED
  BY <1>1, <1>2, <1>4 DEF Basic

LEMMA RotateBasic == ASSUME Inv, Inv', Basic, NEW s \in Streams, Rotate(s) PROVE Basic'
<1>1. Kinds'
  <2>1. prevStart' <= rotated'
    BY DEF Inv, Typed, Rotate
  <2> QED
    BY <2>1 DEF Basic, Kinds, Rotate, reading, sending, client, marks
<1>2. Ends'
  <2>1. run = "running" /\ meta' = meta /\ run' = run /\ log' = <<>>
        /\ UNCHANGED <<index, ended, term, phase, done>>
    BY DEF Rotate, MayWrite, reading, sending, client
  <2> QED
    BY <2>1, EndsKept DEF Basic
<1>3. NextNumber <= NextNumber'
  BY DEF Inv, Typed, NextNumber, Rotate
<1>4. Numbered' /\ Queued' /\ Bounded'
  BY <1>3, KeepBasic DEF Rotate, said, reading, sending, client, marks
<1> QED
  BY <1>1, <1>2, <1>4 DEF Basic

LEMMA SegmentBasic ==
    ASSUME Inv, Inv', Basic, NEW s \in Streams, CreateSegment(s) \/ SegmentFails(s) PROVE Basic'
<1>1. Kinds'
  BY DEF Basic, Kinds, CreateSegment, SegmentFails, reading, sending, client, marks
<1>2. Ends'
  <2>1. moving = s /\ run' = run /\ meta' = meta /\ log' = log
        /\ UNCHANGED <<index, ended, term, phase, done>>
    BY DEF CreateSegment, SegmentFails, reading, sending, client
  <2>2. run = "running" /\ log = <<>>
    BY <2>1, LogStreamAssumption DEF Basic, Ends
  <2> QED
    BY <2>1, <2>2, EndsKept DEF Basic
<1>3. NextNumber <= NextNumber'
  BY DEF Inv, Typed, NextNumber, CreateSegment, SegmentFails
<1>4. Numbered' /\ Queued' /\ Bounded'
  <2>1. UNCHANGED <<outputs, held, pending, back, last, from, seen, dropped, reported, told,
                    unsaid, overtaken, floor>>
    BY DEF CreateSegment, SegmentFails, said, reading, sending, client, marks
  <2> QED
    BY <1>3, <2>1, KeepBasic
<1> QED
  BY <1>1, <1>2, <1>4 DEF Basic

LEMMA CloseBasic == ASSUME Inv, Inv', Basic, Close PROVE Basic'
<1>1. Kinds'
  BY DEF Basic, Kinds, Close, reading, sending, client, marks
<1>2. Ends'
  <2>1. /\ moving' = None /\ run' = "closed" /\ run = "running" /\ missing' = missing
        /\ meta' = meta \/ (~missing => meta'.final = Len(log'))
        /\ held' = held /\ (\A s \in Streams : held[s] = <<>>)
        /\ UNCHANGED <<index, ended, term, phase, done>>
    BY DEF Close, Meta, said, reading, sending, client
  <2>2. ~meta.finalized /\ ~index.finalized /\ RowEnded = FALSE
    BY <2>1 DEF Basic, Ends, Final, RowEnded
  <2> QED
    BY <2>1, <2>2 DEF Basic, Ends, Final, RowEnded
<1>3. NextNumber <= NextNumber'
  <2>1. log \in Seq(Nat) /\ rotated \in Nat /\ rotated' = rotated
        /\ (log' = log \/ log' = Append(log, NextNumber))
    BY DEF Inv, Typed, Close
  <2>2. Len(log) <= Len(log') /\ Len(log) \in Nat /\ Len(log') \in Nat
    BY <2>1, AppendLonger
  <2> QED
    BY <2>1, <2>2 DEF NextNumber
<1>4. Numbered' /\ Queued' /\ Bounded'
  BY <1>3, KeepBasic DEF Close, said, reading, sending, client, marks
<1> QED
  BY <1>1, <1>2, <1>4 DEF Basic

(***************************************************************************)
(* Publishing moves a line along, or drops the oldest one that waits.      *)
(***************************************************************************)
\* What is held after a stream publishes.
LEMMA PublishHeld ==
    ASSUME Inv, NEW s \in Streams, Publish(s)
    PROVE  /\ held[s] \in Seq(Nat) /\ Len(held[s]) \in Nat \ {0} /\ Head(held[s]) = held[s][1]
           /\ held'[s] = Tail(held[s])
           /\ Len(held'[s]) = Len(held[s]) - 1
           /\ \A i \in 1 .. Len(held'[s]) : held'[s][i] = held[s][i + 1]
           /\ \A t \in Streams : t # s => held'[t] = held[t]
<1>1. held \in [Streams -> Seq(Nat)] /\ held[s] # <<>>
      /\ held' = [held EXCEPT ![s] = Tail(held[s])]
  BY DEF Inv, Typed, Publish
<1>2. held[s] \in Seq(Nat) /\ held'[s] = Tail(held[s])
      /\ \A t \in Streams : t # s => held'[t] = held[t]
  BY <1>1
<1>3. \A q \in Seq(Nat) : q # <<>> =>
        /\ Len(q) \in Nat \ {0} /\ Head(q) = q[1] /\ Len(Tail(q)) = Len(q) - 1
        /\ \A i \in 1 .. Len(Tail(q)) : Tail(q)[i] = q[i + 1]
  OBVIOUS
<1> QED
  BY <1>1, <1>2, <1>3

\* What waits for a connection after a publication.
LEMMA PublishPending ==
    ASSUME Inv, NEW s \in Streams, Publish(s), NEW h, h = held[s][1]
    PROVE  /\ ~Subscribed => pending' = pending /\ dropped' = dropped
           /\ Subscribed =>
                \/ /\ dropped' = dropped /\ Len(pending') = Len(pending) + 1
                   /\ pending'[Len(pending')] = h
                   /\ \A i \in 1 .. Len(pending) : pending'[i] = pending[i]
                \/ /\ Len(pending) > 0 /\ Len(pending') = Len(pending)
                   /\ dropped' = dropped \cup {pending[1]}
                   /\ pending'[Len(pending')] = h
                   /\ \A i \in 1 .. Len(pending) - 1 : pending'[i] = pending[i + 1]
<1>1. pending \in Seq(Nat) /\ h \in Nat /\ Head(held[s]) = h /\ PendingLimit \in Nat \ {0}
  BY PublishHeld, LogStreamAssumption DEF Inv, Typed
<1>2. IF Subscribed THEN Buffer(h) ELSE UNCHANGED <<pending, dropped>>
  BY <1>1 DEF Publish
<1>3. \A q \in Seq(Nat) : \A n \in Nat :
        /\ Len(q) \in Nat /\ Len(Append(q, n)) = Len(q) + 1 /\ Append(q, n)[Len(q) + 1] = n
        /\ \A i \in 1 .. Len(q) : Append(q, n)[i] = q[i]
  OBVIOUS
<1>4. CASE Subscribed /\ Len(pending) < PendingLimit
  <2>1. pending' = Append(pending, h) /\ dropped' = dropped
    BY <1>2, <1>4 DEF Buffer
  <2> QED
    BY <1>1, <1>3, <1>4, <2>1
<1>5. CASE Subscribed /\ ~(Len(pending) < PendingLimit)
  <2>1. pending' = Append(Tail(pending), h) /\ dropped' = dropped \cup {Head(pending)}
    BY <1>2, <1>5 DEF Buffer
  <2>2. Len(pending) \in Nat /\ Len(pending) > 0
    BY <1>1, <1>5
  <2>3. Head(pending) = pending[1] /\ Tail(pending) \in Seq(Nat)
        /\ Len(Tail(pending)) = Len(pending) - 1
        /\ \A i \in 1 .. Len(pending) - 1 : Tail(pending)[i] = pending[i + 1]
    BY <1>1, <2>2
  <2>4. Len(pending') = Len(pending) /\ pending'[Len(pending')] = h
        /\ \A i \in 1 .. Len(pending) - 1 : pending'[i] = Tail(pending)[i]
    BY <1>1, <1>3, <2>1, <2>2, <2>3
  <2> QED
    BY <1>5, <2>1, <2>2, <2>3, <2>4
<1>6. CASE ~Subscribed
  BY <1>2, <1>6
<1> QED
  BY <1>4, <1>5, <1>6

LEMMA PublishBasic == ASSUME Inv, Inv', Basic, NEW s \in Streams, Publish(s) PROVE Basic'
<1>1. Kinds'
  BY DEF Basic, Kinds, Publish, files, reading, client
<1>2. Ends'
  <2>1. \A t \in Streams : held[t] = <<>> => held'[t] = <<>>
    BY PublishHeld DEF Publish
  <2>2. UNCHANGED <<meta, index, run, log, moving, missing, ended, term, phase, done>>
    BY DEF Publish, files, reading, client
  <2> QED
    BY <2>1, <2>2 DEF Basic, Ends, Final, RowEnded
<1>3. NextNumber' = NextNumber /\ outputs' = outputs
      /\ UNCHANGED <<back, last, from, floor, reported, told, unsaid, seen>>
  BY DEF NextNumber, Publish, files, reading, client
<1>4. held[s][1] \in outputs /\ Len(held[s]) \in Nat \ {0}
  <2>1. 1 \in 1 .. Len(held[s]) /\ Len(held[s]) \in Nat \ {0}
    BY PublishHeld
  <2> QED
    BY <2>1 DEF Basic, Queued
<1>5. Len(pending) \in Nat /\ \A i \in 1 .. Len(pending) : pending[i] \in outputs
  BY DEF Inv, Typed, Basic, Queued
<1>6. Numbered'
  <2>1. dropped' \subseteq outputs
    BY <1>5, PublishPending DEF Basic, Numbered
  <2>2. overtaken' \subseteq outputs
    BY DEF Basic, Numbered, Publish
  <2> QED
    BY <1>3, <2>1, <2>2 DEF Basic, Numbered
<1>7. Queued'
  <2>1. ASSUME NEW t \in Streams
        PROVE  /\ \A i \in 1 .. Len(held'[t]) : held'[t][i] \in outputs
               /\ \A i, j \in 1 .. Len(held'[t]) : i < j => held'[t][i] < held'[t][j]
    <3>1. /\ \A i \in 1 .. Len(held[t]) : held[t][i] \in outputs
          /\ \A i, j \in 1 .. Len(held[t]) : i < j => held[t][i] < held[t][j]
      BY DEF Basic, Queued
    <3>2. CASE t # s
      BY <3>1, <3>2, PublishHeld
    <3>3. CASE t = s
      <4>1. Len(held'[s]) = Len(held[s]) - 1
            /\ \A i \in 1 .. Len(held'[s]) : held'[s][i] = held[s][i + 1]
        BY PublishHeld
      <4>2. \A i \in 1 .. Len(held'[s]) : i + 1 \in 1 .. Len(held[s])
        BY <1>4, <4>1
      <4>3. \A i, j \in 1 .. Len(held'[s]) : i < j => i + 1 < j + 1
        BY <1>4, <4>1
      <4> QED
        BY <3>1, <3>3, <4>1, <4>2, <4>3
    <3> QED
      BY <3>2, <3>3
  <2>2. ASSUME NEW i \in 1 .. Len(pending') PROVE pending'[i] \in outputs
    <3>1. CASE Len(pending') = Len(pending) + 1 /\ pending'[Len(pending')] = held[s][1]
               /\ \A j \in 1 .. Len(pending) : pending'[j] = pending[j]
      BY <1>4, <1>5, <3>1
    <3>2. CASE Len(pending') = Len(pending) /\ pending'[Len(pending')] = held[s][1]
               /\ \A j \in 1 .. Len(pending) - 1 : pending'[j] = pending[j + 1]
      <4>1. CASE i = Len(pending')
        BY <1>4, <3>2, <4>1
      <4>2. CASE i # Len(pending')
        <5>1. i \in 1 .. Len(pending) - 1 /\ i + 1 \in 1 .. Len(pending)
          BY <1>5, <3>2, <4>2
        <5> QED
          BY <1>5, <3>2, <5>1
      <4> QED
        BY <4>1, <4>2
    <3>3. CASE pending' = pending
      BY <1>5, <3>3
    <3> QED
      BY <3>1, <3>2, <3>3, PublishPending
  <2> QED
    BY <1>3, <2>1, <2>2 DEF Queued
<1>8. Bounded'
  BY <1>3 DEF Basic, Bounded
<1> QED
  BY <1>1, <1>2, <1>6, <1>7, <1>8 DEF Basic

(***************************************************************************)
(* A read finds numbers that were given.                                   *)
(***************************************************************************)
LEMMA ReadBounded ==
    ASSUME Typed, Files, Fit, Ends, NEW f \in Int, NEW limit \in Nat \ {0}
    PROVE  \A i \in 1 .. Len(ReadLineRange(f, limit)) :
             ReadLineRange(f, limit)[i].n >= 0 /\ ReadLineRange(f, limit)[i].n < NextNumber
<1> DEFINE lines == ReadLineRange(f, limit)
           start == ResolveStartLine(f)
<1> HIDE DEF lines, start
<1>1. lines = ReadLineRange(f, limit) /\ start = ResolveStartLine(f)
  BY DEF lines, start
<1>2. /\ start \in Nat /\ Len(lines) \in Nat
      /\ start >= NextNumber => lines = <<>>
      /\ start < NextNumber => Len(lines) = Lower(limit, NextNumber - start)
      /\ \A i \in 1 .. Len(lines) : lines[i].n = start + i - 1
  <2>1. Covers(ReadLineRange(f, limit), ResolveStartLine(f), limit)
    BY ReadCovers
  <2> QED
    BY <1>1, <2>1 DEF Covers
<1>3. NextNumber \in Nat
  BY NextTyped
<1>4. ASSUME NEW i \in 1 .. Len(lines) PROVE lines[i].n >= 0 /\ lines[i].n < NextNumber
  <2>1. start < NextNumber
    BY <1>2, <1>3, <1>4
  <2>2. i <= NextNumber - start /\ i >= 1 /\ i \in Nat
    BY <1>2, <1>3, <1>4, <2>1 DEF Lower
  <2>3. lines[i].n = start + i - 1
    BY <1>2, <1>4
  <2> QED
    BY <1>2, <1>3, <2>2, <2>3
<1> QED
  BY <1>1, <1>4

LEMMA LoadSidecarBasic == ASSUME Inv, Inv', Basic, LoadSidecar PROVE Basic'
<1>1. UNCHANGED <<run, files, said, sending, client, marks, NextNumber>>
      /\ phase \in {"subscribed", "again"} /\ phase' \in {"indexed", "reindexed"}
      /\ index' \in {meta, NoMeta}
  BY DEF LoadSidecar, NextNumber, files
<1>2. Kinds' /\ Numbered' /\ Queued' /\ Bounded'
  BY <1>1 DEF Basic, Kinds, Numbered, Queued, Bounded, files, said, sending, client, marks
<1>3. Ends'
  <2>1. ~done
    BY <1>1 DEF Basic, Ends
  <2> QED
    BY <1>1, <2>1 DEF Basic, Ends, Final, NoMeta, RowEnded, files, said, sending, client
<1> QED
  BY <1>2, <1>3 DEF Basic

\* The index of a read that does not mislead fits.
LEMMA ReadFits ==
    ASSUME Inv, ~misled', ReadBackfill \/ ReadAgain
    PROVE  Fit /\ ~misled /\ ~torn
BY DEF Inv, Fits, ReadBackfill, ReadAgain, Misled

LEMMA ReadBackfillBasic == ASSUME Inv, Inv', ~misled', Basic, ReadBackfill PROVE Basic'
<1>1. Fit /\ from \in Int /\ Replay \in Nat \ {0} /\ floor \in Nat
  BY LogStreamAssumption, ReadFits DEF Inv, Typed, Basic, Kinds
<1>2. FirstAvailable \in Nat /\ TotalLines \in Nat
  BY AvailableTyped DEF Inv
<1>3. floor' \in Nat /\ floor' >= floor
  BY <1>1, <1>2 DEF ReadBackfill, Entitled, Higher
<1>4. anchor' \in Nat
  BY <1>1, <1>2 DEF ReadBackfill, ResolveBackfillAnchor, ResolveStartLine, Higher
<1>5. back' = <<>> \/ back' = ReadLineRange(from, Replay)
  BY DEF ReadBackfill
<1>6. UNCHANGED <<run, files, said, ended, pending, dropped, reported, term, last,
                  client, overtaken, unsaid, NextNumber>>
      /\ phase' \in {"again", "sending"} /\ index' = NoMeta
  BY DEF ReadBackfill, Misled, files, NextNumber
<1>7. Kinds'
  BY <1>3, <1>4, <1>6 DEF Basic, Kinds, files
<1>8. Numbered' /\ Queued'
  BY <1>6 DEF Basic, Numbered, Queued, said, client
<1>9. Bounded'
  <2>1. \A i \in 1 .. Len(back') : back'[i].n >= 0 /\ back'[i].n < NextNumber
    <3>1. CASE back' = <<>>
      BY <3>1
    <3>2. CASE back' = ReadLineRange(from, Replay)
      BY <1>1, <3>2, ReadBounded DEF Inv, Basic
    <3> QED
      BY <1>5, <3>1, <3>2
  <2> QED
    BY <1>1, <1>3, <1>6, <2>1 DEF Basic, Bounded, client
<1>10. Ends'
  <2>1. ~done
    BY DEF Basic, Ends, ReadBackfill
  <2> QED
    BY <1>6, <2>1 DEF Basic, Ends, Final, NoMeta, RowEnded, files, said, client
<1> QED
  BY <1>7, <1>8, <1>9, <1>10 DEF Basic

LEMMA ReadAgainBasic == ASSUME Inv, Inv', ~misled', Basic, ReadAgain PROVE Basic'
<1>1. Fit /\ anchor \in Int /\ Replay \in Nat \ {0} /\ floor \in Nat /\ from \in Int
  BY LogStreamAssumption, ReadFits DEF Inv, Typed, Basic, Kinds
<1>2. FirstAvailable \in Nat
  BY AvailableTyped DEF Inv
<1>3. floor' \in Nat /\ floor' >= floor
  BY <1>1, <1>2 DEF ReadAgain, Higher
<1>4. back' = ReadLineRange(anchor, Replay)
  BY DEF ReadAgain
<1>5. UNCHANGED <<run, files, said, ended, pending, dropped, reported, term, last,
                  anchor, client, overtaken, unsaid, NextNumber>>
      /\ phase' = "sending" /\ index' = NoMeta
  BY DEF ReadAgain, Misled, files, NextNumber
<1>6. Kinds'
  BY <1>3, <1>5 DEF Basic, Kinds, files
<1>7. Numbered' /\ Queued'
  BY <1>5 DEF Basic, Numbered, Queued, said, client
<1>8. Bounded'
  <2>1. \A i \in 1 .. Len(back') : back'[i].n >= 0 /\ back'[i].n < NextNumber
    BY <1>1, <1>4, ReadBounded DEF Inv, Basic
  <2> QED
    BY <1>1, <1>3, <1>5, <2>1 DEF Basic, Bounded, client
<1>9. Ends'
  <2>1. ~done
    BY DEF Basic, Ends, ReadAgain
  <2> QED
    BY <1>5, <2>1 DEF Basic, Ends, Final, NoMeta, RowEnded, files, said, client
<1> QED
  BY <1>6, <1>7, <1>8, <1>9 DEF Basic

(***************************************************************************)
(* Sending a line moves the connection's last number up to it.             *)
(***************************************************************************)
LEMMA EmitBasic ==
    ASSUME Inv, Basic, NEW x \in Lines, x.line >= 0, x.line < NextNumber, x.n = x.line,
           Emit(x) \/ UNCHANGED <<last, seen>>
    PROVE  /\ last' >= -1 /\ last' < NextNumber /\ last' \in Int
           /\ \A y \in seen' : y \in Lines /\ y.line >= 0 /\ y.line < NextNumber
<1>1. last \in Int /\ last >= -1 /\ last < NextNumber /\ x.n \in Int
      /\ (\A y \in seen : y \in Lines /\ y.line >= 0 /\ y.line < NextNumber)
  BY DEF Inv, Typed, Basic, Kinds, Bounded, Numbered, Lines
<1>2. CASE UNCHANGED <<last, seen>>
  BY <1>1, <1>2
<1>3. CASE Emit(x) /\ x.n > last
  <2>1. last' = x.n /\ (seen' = seen \/ seen' = seen \cup {x})
    BY <1>1, <1>3 DEF Emit
  <2> QED
    BY <1>1, <1>3, <2>1
<1>4. CASE Emit(x) /\ x.n <= last
  BY <1>1, <1>4 DEF Emit
<1> QED
  BY <1>1, <1>2, <1>3, <1>4

LEMMA SendBackfillBasic == ASSUME Inv, Inv', ~misled, Basic, SendBackfill PROVE Basic'
<1>0. back \in Seq(Lines) /\ back # <<>> /\ back' = Tail(back)
  BY Zenon DEF Inv, Typed, SendBackfill
<1>1. back \in Seq(Lines) /\ Len(back) \in Nat \ {0} /\ Head(back) = back[1]
      /\ back' = Tail(back) /\ 1 \in 1 .. Len(back)
  BY <1>0
<1>2. Len(back') = Len(back) - 1 /\ \A i \in 1 .. Len(back') : back'[i] = back[i + 1]
  BY <1>1
<1>3. Emit(Head(back)) \/ UNCHANGED <<last, seen>>
  BY DEF SendBackfill
<1>4. Head(back) \in Lines /\ Head(back).n = Head(back).line
      /\ Head(back).n >= 0 /\ Head(back).n < NextNumber
  BY <1>1 DEF Inv, Faithful, True, Basic, Bounded
<1>5. /\ last' >= -1 /\ last' < NextNumber
      /\ \A y \in seen' : y \in Lines /\ y.line >= 0 /\ y.line < NextNumber
  BY <1>3, <1>4, EmitBasic
<1>6. UNCHANGED <<run, files, said, phase, reading, ended, pending, dropped, reported, term,
                  anchor, from, conns, told, done, marks, NextNumber>>
  BY DEF SendBackfill, files, NextNumber
<1>7. Kinds' /\ Queued' /\ Ends'
  BY <1>5, <1>6 DEF Basic, Kinds, Queued, Ends, Final, RowEnded, files, said, reading, marks
<1>8. Numbered'
  BY <1>5, <1>6 DEF Basic, Numbered, said, marks
<1>9. Bounded'
  <2>1. \A i \in 1 .. Len(back') : i + 1 \in 1 .. Len(back)
    BY <1>1, <1>2
  <2> QED
    BY <1>2, <1>5, <1>6, <2>1 DEF Basic, Bounded, marks
<1> QED
  BY <1>7, <1>8, <1>9 DEF Basic

LEMMA LiveBasic == ASSUME Inv, Inv', Basic, LiveLine \/ Drain PROVE Basic'
<1>1. pending \in Seq(Nat) /\ Len(pending) \in Nat \ {0} /\ Head(pending) = pending[1]
      /\ pending' = Tail(pending) /\ 1 \in 1 .. Len(pending)
  <2>1. pending \in Seq(Nat) /\ pending # <<>> /\ pending' = Tail(pending)
    BY DEF Inv, Typed, LiveLine, Drain
  <2> QED
    BY <2>1
<1>2. Len(pending') = Len(pending) - 1 /\ \A i \in 1 .. Len(pending') : pending'[i] = pending[i + 1]
  BY <1>1
<1>3. Emit(Live(Head(pending)))
  BY DEF LiveLine, Drain
<1>4. Head(pending) \in Nat /\ Head(pending) < NextNumber
  BY <1>1 DEF Basic, Queued, Numbered
<1>5. Live(Head(pending)) \in Lines /\ Live(Head(pending)).line = Head(pending)
      /\ Live(Head(pending)).n = Head(pending)
  BY <1>4 DEF Live, Lines
<1>6. /\ last' >= -1 /\ last' < NextNumber
      /\ \A y \in seen' : y \in Lines /\ y.line >= 0 /\ y.line < NextNumber
  <2> DEFINE x == Live(Head(pending))
  <2>1. x \in Lines /\ x.line >= 0 /\ x.line < NextNumber /\ x.n = x.line /\ Emit(x)
    BY <1>3, <1>4, <1>5
  <2> HIDE DEF x
  <2> QED
    BY <2>1, EmitBasic
<1>7. UNCHANGED <<run, files, said, reading, ended, back, dropped, reported, term,
                  anchor, from, conns, told, done, marks, NextNumber>>
      /\ phase \in {"live", "closing"}
      /\ (phase' = "emitted" \/ phase' = phase)
  BY DEF LiveLine, Drain, files, NextNumber
<1>8. Kinds'
  BY <1>6, <1>7 DEF Basic, Kinds, files, marks
<1>12. Ends'
  <2>1. ~done
    BY <1>7 DEF Basic, Ends
  <2> QED
    BY <1>7, <2>1 DEF Basic, Ends, Final, RowEnded, files, said, reading
<1>9. Numbered'
  BY <1>6, <1>7 DEF Basic, Numbered, said, marks
<1>10. Queued'
  <2>1. \A i \in 1 .. Len(pending') : i + 1 \in 1 .. Len(pending)
    BY <1>1, <1>2
  <2> QED
    BY <1>2, <1>7, <2>1 DEF Basic, Queued, said, marks
<1>11. Bounded'
  BY <1>6, <1>7 DEF Basic, Bounded, marks
<1> QED
  BY <1>8, <1>9, <1>10, <1>11, <1>12 DEF Basic

(***************************************************************************)
(* What ends a connection leaves a cursor that is not past the log.        *)
(***************************************************************************)
LEMMA DisconnectBasic == ASSUME Inv, Inv', Basic, Cut \/ Crash PROVE Basic'
<1>1. UNCHANGED <<rotated, prevStart, missing, seen, told, done, outputs, floor, overtaken>>
      /\ moving' \in {moving, None}
  BY DEF Cut, Crash, files, said
<1>2. UNCHANGED <<phase, index, sending, from, unsaid>> \/ Disconnect
  BY DEF Cut, Crash
<1>3. UNCHANGED <<run, held, log, meta, moving>>
      \/ (/\ run' = "announced" /\ moving' = None /\ held' = [s \in Streams |-> <<>>]
          /\ \/ UNCHANGED <<log, meta>>
             \/ moving # None /\ meta' \in {meta, NoMeta, Meta(0, FALSE)} /\ log' \in {log, <<rotated>>})
  BY DEF Cut, Crash, Recorded, Unrecorded, files, said
<1>4. NextNumber \in Nat /\ NextNumber' \in Nat /\ from \in Int /\ last \in Int /\ floor \in Nat
      /\ rotated \in Nat
  BY NextTyped, NextTypedThen DEF Inv, Typed, Basic, Kinds
<1>10. NextNumber <= NextNumber'
  <2>1. CASE log' = log
    BY <1>1, <1>4, <2>1 DEF NextNumber
  <2>2. CASE moving # None /\ log' = <<rotated>>
    BY <1>1, <1>4, <2>2 DEF NextNumber, Basic, Ends
  <2> QED
    BY <1>3, <2>1, <2>2
<1>5. Kinds'
  <2>1. moving' \in Streams \cup {None}
    BY <1>1 DEF Basic, Kinds
  <2> QED
    BY <1>1, <1>2, <2>1 DEF Basic, Kinds, sending, Disconnect
<1>6. Numbered'
  <2>1. \A n \in outputs : n \in Nat /\ n < NextNumber'
    BY <1>4, <1>10 DEF Basic, Numbered
  <2>2. \A x \in seen : x \in Lines /\ x.line >= 0 /\ x.line < NextNumber'
    BY <1>4, <1>10 DEF Basic, Numbered, Lines
  <2>3. dropped' \subseteq outputs /\ reported' \subseteq outputs /\ unsaid' \subseteq outputs
    BY <1>2 DEF Basic, Numbered, sending, Disconnect
  <2> QED
    BY <1>1, <2>1, <2>2, <2>3 DEF Basic, Numbered
<1>7. Queued'
  <2>1. ASSUME NEW s \in Streams
        PROVE  /\ \A i \in 1 .. Len(held'[s]) : held'[s][i] \in outputs
               /\ \A i, j \in 1 .. Len(held'[s]) : i < j => held'[s][i] < held'[s][j]
    <3>1. CASE held' = held
      BY <3>1 DEF Basic, Queued
    <3>2. CASE held' = [t \in Streams |-> <<>>]
      BY <3>2
    <3> QED
      BY <1>3, <3>1, <3>2
  <2>2. \A i \in 1 .. Len(pending') : pending'[i] \in outputs
    <3>1. pending' = pending \/ pending' = <<>>
      BY <1>2 DEF Disconnect, sending
    <3> QED
      BY <3>1 DEF Basic, Queued
  <2> QED
    BY <1>1, <2>1, <2>2 DEF Queued
<1>8. Bounded'
  <2>1. CASE UNCHANGED <<phase, index, sending, from, unsaid>>
    <3>2. back \in Seq(Lines)
      BY DEF Inv, Typed
    <3>3. \A i \in 1 .. Len(back) : back[i] \in Lines
      BY <3>2
    <3>1. \A i \in 1 .. Len(back) : back[i].n \in Int
      BY <3>3 DEF Lines
    <3> QED
      BY <1>1, <1>4, <1>10, <2>1, <3>1 DEF Basic, Bounded, sending
  <2>2. CASE Disconnect
    <3>1. from' <= floor \/ from' <= NextNumber'
      BY <1>4, <1>10, <2>2 DEF Basic, Bounded, Disconnect, ResumeFrom
    <3> QED
      BY <1>1, <1>4, <2>2, <3>1 DEF Bounded, Disconnect
  <2> QED
    BY <1>2, <2>1, <2>2
<1>9. Ends'
  <2>1. run' # "running" => \A s \in Streams : held'[s] = <<>>
    <3>1. CASE UNCHANGED <<run, held>>
      BY <3>1 DEF Basic, Ends
    <3>2. CASE held' = [t \in Streams |-> <<>>]
      BY <3>2
    <3> QED
      BY <1>3, <3>1, <3>2
  <2>2. RowEnded => RowEnded'
    BY <1>3 DEF RowEnded
  <2>3. Final(meta)'
    <3>1. moving # None => ~meta.finalized
      BY DEF Basic, Ends, Final
    <3> QED
      BY <1>1, <1>3, <3>1 DEF Basic, Ends, Final, NoMeta, Meta
  <2>4. Final(index)'
    <3>1. moving # None => ~index.finalized
      BY DEF Basic, Ends, Final
    <3>2. index' = index \/ index' = NoMeta
      BY <1>2 DEF Disconnect
    <3>3. CASE index' = NoMeta
      BY <3>3 DEF Final, NoMeta
    <3>4. CASE index' = index /\ moving # None
      BY <3>1, <3>4 DEF Final
    <3>5. CASE index' = index /\ moving = None
      <4>1. log' = log /\ missing' = missing /\ (run' = run \/ run' = "announced")
        BY <1>1, <1>3, <3>5
      <4> QED
        BY <3>5, <4>1 DEF Basic, Ends, Final
    <3> QED
      BY <3>2, <3>3, <3>4, <3>5
  <2>5. (moving # None => run = "running" /\ log = <<>>)'
    BY <1>3 DEF Basic, Ends
  <2>6. (ended \/ term \/ phase = "closing" \/ done => RowEnded)' /\ (done => phase = "none")'
    <3>1. CASE UNCHANGED <<phase, index, sending, from, unsaid>>
      BY <1>1, <2>2, <3>1 DEF Basic, Ends, sending
    <3>2. CASE Disconnect
      BY <1>1, <2>2, <3>2 DEF Basic, Ends, Disconnect
    <3> QED
      BY <1>2, <3>1, <3>2
  <2> QED
    BY <2>1, <2>3, <2>4, <2>5, <2>6 DEF Ends
<1> QED
  BY <1>5, <1>6, <1>7, <1>8, <1>9 DEF Basic

(***************************************************************************)
(* The steps that move the row, the phase or the account of drops.         *)
(***************************************************************************)
Quiet ==
    EndRow \/ Announce \/ Open \/ Subscribe \/ Recheck \/ Tell \/ CommitSent \/ LiveEnd
      \/ SendDone \/ UNCHANGED vars

LEMMA QuietBasic == ASSUME Inv, Inv', Basic, Quiet PROVE Basic'
<1>1. UNCHANGED <<files, said, reading, back, last, anchor, from, seen, unsaid, floor,
                  overtaken, pending, NextNumber>>
  BY DEF Quiet, EndRow, Announce, Open, Subscribe, Recheck, Tell, CommitSent, LiveEnd, SendDone,
     vars, files, sending, client, marks, NextNumber
<1>2. Kinds'
  BY <1>1 DEF Basic, Kinds, files
<1>3. Numbered'
  <2>1. dropped' \subseteq dropped /\ reported' \subseteq dropped \cup reported
        /\ told' \subseteq told \cup dropped
    BY DEF Quiet, EndRow, Announce, Open, Subscribe, Recheck, Tell, CommitSent,
       LiveEnd, SendDone, vars, sending, client
  <2> QED
    BY <1>1, <2>1 DEF Basic, Numbered, said
<1>4. Queued' /\ Bounded'
  BY <1>1 DEF Basic, Queued, Bounded, said
<1>5. Ends'
  <2>1. (run = "running" => run' = "running") /\ (run # "running" => run' # "running")
    BY DEF Quiet, EndRow, Announce, Open, Subscribe, Recheck, Tell, CommitSent,
       LiveEnd, SendDone, vars
  <2>2. Final(meta)' /\ Final(index)' /\ (moving # None => run = "running" /\ log = <<>>)'
    BY <1>1, <2>1 DEF Basic, Ends, Final, files, reading
  <2>3. run' # "running" => \A s \in Streams : held'[s] = <<>>
    BY <1>1, <2>1 DEF Basic, Ends, said
  <2>4. (ended \/ term \/ phase = "closing" \/ done => RowEnded)' /\ (done => phase = "none")'
    <3>1. CASE EndRow \/ UNCHANGED vars
      BY <3>1 DEF Basic, Ends, EndRow, RowEnded, vars, sending, client
    <3>2. CASE Announce
      BY <3>2 DEF Basic, Ends, Announce, RowEnded, client
    <3>3. CASE Subscribe
      BY <3>3 DEF Basic, Ends, Subscribe, RowEnded, sending, client
    <3>7. CASE Open
      <4>1. ended' = RowEnded /\ RowEnded' = RowEnded /\ term' = term /\ done' = done /\ ~done
            /\ phase' = "opened"
        BY <3>7 DEF Open, RowEnded
      <4> QED
        BY <4>1 DEF Basic, Ends
    <3>4. CASE Recheck \/ LiveEnd
      BY <3>4 DEF Basic, Ends, Recheck, LiveEnd, RowEnded, Terminal, sending, client
    <3>5. CASE Tell \/ CommitSent
      BY <3>5 DEF Basic, Ends, Tell, CommitSent, RowEnded, client
    <3>6. CASE SendDone
      BY <3>6 DEF Basic, Ends, SendDone, RowEnded
    <3> QED
      BY <3>1, <3>2, <3>3, <3>4, <3>5, <3>6, <3>7 DEF Quiet
  <2> QED
    BY <2>2, <2>3, <2>4 DEF Ends
<1> QED
  BY <1>2, <1>3, <1>4, <1>5 DEF Basic

\* The steps, in the groups the layers are proved for.
Writer(s) == Write(s) \/ StopCapture(s) \/ Rotate(s) \/ CreateSegment(s) \/ SegmentFails(s) \/ Rewrite(s)

LEMMA Steps ==
    ASSUME [Next]_vars
    PROVE  \/ \E s \in Streams : Writer(s) \/ Publish(s)
           \/ Close \/ LoadSidecar \/ ReadBackfill \/ ReadAgain \/ SendBackfill
           \/ (LiveLine \/ Drain) \/ (Cut \/ Crash) \/ Quiet
BY DEF Next, Streamer, Quiet, Writer

\* A client that was misled stays so.
LEMMA MisledStays == ASSUME [Next]_vars, misled PROVE misled'
<1>1. ASSUME NEW s \in Streams, Writer(s) \/ Publish(s) PROVE misled'
  BY <1>1 DEF Writer, Write, StopCapture, Rotate, CreateSegment, SegmentFails, Rewrite, Publish, reading
<1>2. CASE Close \/ LoadSidecar \/ ReadBackfill \/ ReadAgain \/ SendBackfill \/ LiveLine \/ Drain
  BY <1>2 DEF Close, LoadSidecar, ReadBackfill, ReadAgain, Misled, SendBackfill, LiveLine, Drain, reading
<1>3. CASE Cut \/ Crash \/ Quiet
  BY <1>3 DEF Cut, Crash, Quiet, EndRow, Announce, Open, Subscribe, Recheck, Tell, CommitSent,
     LiveEnd, SendDone, vars, reading
<1> QED
  BY <1>1, <1>2, <1>3, Steps

LEMMA WriterBasic == ASSUME Inv, Inv', Basic, NEW s \in Streams, Writer(s) PROVE Basic'
BY WriteBasic, StopCaptureBasic, RotateBasic, SegmentBasic, RewriteBasic DEF Writer

LEMMA BasicInductive == Inv /\ Inv' /\ ~misled' /\ Basic /\ [Next]_vars => Basic'
BY Steps, MisledStays, WriterBasic, PublishBasic, CloseBasic, LoadSidecarBasic, ReadBackfillBasic,
   ReadAgainBasic, SendBackfillBasic, LiveBasic, DisconnectBasic, QuietBasic

-----------------------------------------------------------------------------
(***************************************************************************)
(* The third layer: the order in which published lines wait, and what the  *)
(* phase of a connection says of its backfill.                             *)
(***************************************************************************)
\* A line that a higher one got past was overtaken.
InOrder ==
    /\ \A i \in 1 .. Len(pending) : \A s \in Streams : \A j \in 1 .. Len(held[s]) :
         held[s][j] < pending[i] => held[s][j] \in overtaken
    /\ \A i, j \in 1 .. Len(pending) : i < j /\ pending[j] < pending[i] => pending[j] \in overtaken

Unsent == phase \in {"none", "opened", "subscribed", "indexed", "again", "reindexed"}
Stages ==
    /\ phase # "sending" => back = <<>>
    /\ Unsent /\ ~done => last = -1
    /\ reported \subseteq told
    /\ phase \in {"again", "reindexed"} => anchor <= floor
    /\ phase = "sending" => anchor <= floor \/ anchor <= from
    /\ \A i \in 1 .. Len(back) : back[i].n = back[1].n + i - 1
    /\ back # <<>> => last < back[1].n

(***************************************************************************)
(* A read of the backfill has every line the request is entitled to, or,   *)
(* when the budget moved the anchor, nothing that will be asked for is     *)
(* beyond the reach of the second read.                                    *)
(***************************************************************************)
LEMMA BackfillReach ==
    ASSUME Inv, ~misled', Basic, ReadBackfill
    PROVE  \/ /\ phase' = "again" /\ back' = <<>> /\ anchor' <= floor'
              /\ NextNumber <= anchor' + Replay
           \/ /\ phase' = "sending"
              /\ anchor' <= floor' \/ anchor' <= from
              /\ \A i \in 1 .. Len(back') : back'[i].n = back'[1].n + i - 1
              /\ \A n \in outputs : n >= floor' /\ n >= from =>
                   /\ \E i \in 1 .. Len(back') : back'[i].n = n
                   /\ n >= back'[1].n
<1> DEFINE start == ResolveStartLine(from)
           lines == ReadLineRange(from, Replay)
<1> HIDE DEF start, lines
<1>1. Fit /\ from \in Int /\ Replay \in Nat \ {0} /\ floor \in Nat
  BY LogStreamAssumption, ReadFits DEF Inv, Typed, Basic, Kinds
<1>2. FirstAvailable \in Nat /\ TotalLines = NextNumber /\ NextNumber \in Nat
  BY <1>1, Total DEF Inv, Basic
<1>3. start = Higher(IF from < 0 THEN NextNumber + from ELSE from, FirstAvailable)
  BY <1>2 DEF start, ResolveStartLine
<1>4. /\ start \in Nat /\ Len(lines) \in Nat
      /\ start >= NextNumber => lines = <<>>
      /\ start < NextNumber => Len(lines) = Lower(Replay, NextNumber - start)
      /\ \A i \in 1 .. Len(lines) : lines[i].n = start + i - 1
  <2>1. Covers(lines, start, Replay)
    BY <1>1, ReadCovers DEF Inv, Basic, start, lines
  <2> QED
    BY <2>1 DEF Covers
<1>5. lines \in Seq(Lines)
  BY <1>1, ReadTyped DEF Inv, lines
<1>6. floor' = Higher(floor, Higher(Higher(FirstAvailable, NextNumber - Replay),
                                    IF from < 0 THEN NextNumber + from ELSE 0))
  BY <1>2 DEF ReadBackfill, Entitled
<1>7. anchor' = IF NextNumber - start > Replay
                THEN Higher(NextNumber - Replay, FirstAvailable) ELSE start
  BY <1>2 DEF ReadBackfill, ResolveBackfillAnchor, start
<1>8. IF lines # <<>> /\ anchor' > Head(lines).n
      THEN phase' = "again" /\ back' = <<>>
      ELSE phase' = "sending" /\ back' = lines
  BY DEF ReadBackfill, lines
<1>9. lines # <<>> => Len(lines) >= 1 /\ Head(lines) = lines[1] /\ lines[1].n = start
  <2>1. lines # <<>> => Len(lines) >= 1 /\ Head(lines) = lines[1]
    BY <1>5
  <2> QED
    BY <1>4, <2>1
<1>10. CASE NextNumber - start > Replay
  <2>1. lines # <<>>
    <3>1. Len(lines) = Replay
      BY <1>1, <1>2, <1>4, <1>10 DEF Lower
    <3> QED
      BY <1>1, <3>1
  <2>2. anchor' = Higher(NextNumber - Replay, FirstAvailable)
    BY <1>7, <1>10
  <2>3. anchor' > start /\ NextNumber <= anchor' + Replay /\ anchor' <= floor'
    BY <1>1, <1>2, <1>3, <1>4, <1>6, <1>10, <2>2 DEF Higher
  <2>4. phase' = "again" /\ back' = <<>>
    BY <1>8, <1>9, <2>1, <2>3
  <2> QED
    BY <2>3, <2>4
<1>11. CASE ~(NextNumber - start > Replay)
  <2>1. anchor' = start
    BY <1>7, <1>11
  <2>2. phase' = "sending" /\ back' = lines
    BY <1>4, <1>8, <1>9, <2>1
  <2>3. anchor' <= floor' \/ anchor' <= from
    BY <1>1, <1>2, <1>3, <1>6, <2>1 DEF Higher
  <2>4. \A i \in 1 .. Len(lines) : lines[i].n = lines[1].n + i - 1
    BY <1>4
  <2>5. ASSUME NEW n \in outputs, n >= floor', n >= from
        PROVE  (\E i \in 1 .. Len(lines) : lines[i].n = n) /\ n >= lines[1].n
    <3>1. n \in Nat /\ n < NextNumber
      BY DEF Basic, Numbered
    <3>2. n >= start
      BY <1>1, <1>2, <1>3, <1>6, <2>5, <3>1 DEF Higher
    <3>3. Len(lines) = NextNumber - start
      BY <1>1, <1>2, <1>4, <1>11, <3>1, <3>2 DEF Lower
    <3>4. n - start + 1 \in 1 .. Len(lines) /\ 1 \in 1 .. Len(lines)
      BY <1>2, <1>4, <3>1, <3>2, <3>3
    <3>5. lines[n - start + 1].n = n
      BY <1>4, <3>1, <3>4
    <3>6. lines[1].n = start
      BY <1>4, <3>4
    <3> QED
      BY <3>2, <3>4, <3>5, <3>6
  <2> QED
    BY <2>2, <2>3, <2>4, <2>5
<1> QED
  BY <1>10, <1>11

(***************************************************************************)
(* The second read has every line that is still wanted, up to its limit.   *)
(***************************************************************************)
LEMMA AgainReach ==
    ASSUME Inv, ~misled', Basic, Stages, ReadAgain
    PROVE  /\ \A i \in 1 .. Len(back') : back'[i].n = back'[1].n + i - 1
           /\ \A n \in outputs : n >= floor' =>
                /\ n >= anchor + Replay \/ \E i \in 1 .. Len(back') : back'[i].n = n
                /\ back' # <<>> => n >= back'[1].n
<1> DEFINE start == ResolveStartLine(anchor)
           lines == ReadLineRange(anchor, Replay)
<1> HIDE DEF start, lines
<1>1. Fit /\ anchor \in Nat /\ Replay \in Nat \ {0} /\ floor \in Nat
      /\ anchor <= floor
  BY LogStreamAssumption, ReadFits DEF ReadAgain, Basic, Kinds, Stages
<1>2. FirstAvailable \in Nat /\ NextNumber \in Nat
  BY <1>1, Total DEF Inv, Basic
<1>3. start = Higher(anchor, FirstAvailable)
  BY <1>1, <1>2 DEF start, ResolveStartLine
<1>4. back' = lines
  BY DEF ReadAgain, lines
<1>5. /\ start \in Nat /\ Len(back') \in Nat
      /\ start >= NextNumber => back' = <<>>
      /\ start < NextNumber => Len(back') = Lower(Replay, NextNumber - start)
      /\ \A i \in 1 .. Len(back') : back'[i].n = start + i - 1
  <2>1. anchor \in Int
    BY <1>1
  <2>2. /\ start \in Nat /\ Len(lines) \in Nat
        /\ start >= NextNumber => lines = <<>>
        /\ start < NextNumber => Len(lines) = Lower(Replay, NextNumber - start)
        /\ \A i \in 1 .. Len(lines) : lines[i].n = start + i - 1
    <3>1. Covers(lines, start, Replay)
      BY <1>1, <2>1, ReadCovers DEF Inv, Basic, start, lines
    <3> QED
      BY <3>1 DEF Covers
  <2> QED
    BY <1>4, <2>2
<1>6. floor' = Higher(floor, FirstAvailable)
  BY DEF ReadAgain
<1>7. \A i \in 1 .. Len(back') : back'[i].n = back'[1].n + i - 1
  BY <1>5
<1>8. ASSUME NEW n \in outputs, n >= floor'
      PROVE  /\ n >= anchor + Replay \/ \E i \in 1 .. Len(back') : back'[i].n = n
             /\ n >= back'[1].n
  <2>1. n \in Nat /\ n < NextNumber
    BY DEF Basic, Numbered
  <2>2. n >= start /\ start >= anchor
    BY <1>1, <1>2, <1>3, <1>6, <1>8, <2>1 DEF Higher
  <2>3. Len(back') = Lower(Replay, NextNumber - start)
    BY <1>2, <1>5, <2>1, <2>2
  <2>4. 1 \in 1 .. Len(back')
    BY <1>1, <1>2, <1>5, <2>1, <2>2, <2>3 DEF Lower
  <2>5. back'[1].n = start
    BY <1>5, <2>4
  <2>6. CASE n < start + Replay
    <3>1. n - start + 1 \in 1 .. Len(back')
      BY <1>1, <1>2, <1>5, <2>1, <2>2, <2>3, <2>6 DEF Lower
    <3>2. back'[n - start + 1].n = n
      BY <1>5, <2>1, <3>1
    <3> QED
      BY <2>2, <2>5, <3>1, <3>2
  <2>7. CASE ~(n < start + Replay)
    <3>1. n >= anchor + Replay
      BY <1>1, <1>5, <2>1, <2>2, <2>7
    <3> QED
      BY <2>2, <2>5, <3>1
  <2> QED
    BY <2>6, <2>7
<1> QED
  BY <1>7, <1>8

Middle == InOrder /\ Stages

LEMMA InitMiddle == Init => Middle
BY DEF Init, Middle, InOrder, Stages

LEMMA StagesKept ==
    ASSUME Stages, UNCHANGED <<phase, back, last, done, reported, told, anchor, floor, from>>
    PROVE  Stages'
BY DEF Stages, Unsent

(***************************************************************************)
(* A new line is higher than every line that waits.                        *)
(***************************************************************************)
LEMMA CaptureOrder ==
    ASSUME Inv, Basic, Middle, NEW s \in Streams, NEW n \in Nat, Capture(s, n), NextNumber <= n,
           UNCHANGED <<pending, overtaken>>
    PROVE  InOrder'
<1>1. held \in [Streams -> Seq(Nat)] /\ held' = [held EXCEPT ![s] = Append(@, n)]
  BY DEF Inv, Typed, Capture
<1>2. ASSUME NEW i \in 1 .. Len(pending), NEW t \in Streams, NEW j \in 1 .. Len(held'[t]),
             held'[t][j] < pending[i]
      PROVE  held'[t][j] \in overtaken
  <2>1. pending[i] \in Nat /\ pending[i] < n
    <3>1. pending[i] \in outputs
      BY DEF Basic, Queued
    <3>2. NextNumber \in Nat
      BY DEF Inv, Typed, NextNumber
    <3> QED
      BY <3>1, <3>2 DEF Basic, Numbered
  <2>2. CASE t # s
    BY <1>1, <1>2, <2>2 DEF Middle, InOrder
  <2>3. CASE t = s
    <3>1. held[s] \in Seq(Nat) /\ held'[s] = Append(held[s], n) /\ Len(held[s]) \in Nat
      BY <1>1
    <3>2. Len(held'[s]) = Len(held[s]) + 1 /\ held'[s][Len(held[s]) + 1] = n
      BY <3>1
    <3>3. j # Len(held[s]) + 1
      BY <1>2, <2>1, <2>3, <3>2
    <3>4. j \in 1 .. Len(held[s])
      BY <2>3, <3>1, <3>2, <3>3
    <3>5. held'[s][j] = held[s][j]
      BY <3>1, <3>4
    <3> QED
      BY <1>2, <2>3, <3>4, <3>5 DEF Middle, InOrder
  <2> QED
    BY <2>2, <2>3
<1> QED
  BY <1>2 DEF Middle, InOrder

LEMMA TakenOrder ==
    ASSUME Inv, Basic, Middle, NEW s \in Streams, NEW n \in Nat, Taken(s, n), NextNumber <= n,
           UNCHANGED <<pending, overtaken>>
    PROVE  InOrder'
<1>1. CASE Capture(s, n)
  BY <1>1, CaptureOrder
<1>2. CASE Remarked(s)
  BY <1>2 DEF Remarked, Middle, InOrder
<1> QED
  BY <1>1, <1>2 DEF Taken

LEMMA WriterMiddle == ASSUME Inv, Basic, Middle, NEW s \in Streams, Writer(s) PROVE Middle'
<1>1. UNCHANGED <<back, last, done, reported, told, anchor, floor, from, pending, overtaken, phase>>
  BY DEF Writer, Write, StopCapture, Rotate, CreateSegment, SegmentFails, Rewrite, reading, sending,
     client, marks
<1>2. Stages'
  BY <1>1, StagesKept DEF Middle
<1>3. CASE Write(s)
  <2>1. NextNumber \in Nat /\ Taken(s, NextNumber) /\ NextNumber <= NextNumber
    BY <1>3 DEF Inv, Typed, NextNumber, Write
  <2> QED
    BY <1>1, <1>2, <2>1, TakenOrder DEF Middle
<1>4. CASE Rewrite(s)
  <2> DEFINE n == rotated + 1
  <2>1. log = <<>> /\ rotated \in Nat
    BY <1>4, LogStreamAssumption DEF Inv, Typed, Basic, Ends, Rewrite
  <2>2. n \in Nat /\ NextNumber <= n
    BY <2>1 DEF NextNumber
  <2>3. Taken(s, n)
    BY <1>4 DEF Rewrite
  <2> HIDE DEF n
  <2> QED
    BY <1>1, <1>2, <2>2, <2>3, TakenOrder DEF Middle
<1>5. CASE StopCapture(s) \/ Rotate(s) \/ CreateSegment(s) \/ SegmentFails(s)
  <2>1. held' = held
    BY <1>5 DEF StopCapture, Remarked, Rotate, CreateSegment, SegmentFails, said
  <2> QED
    BY <1>1, <1>2, <2>1 DEF Middle, InOrder
<1> QED
  BY <1>3, <1>4, <1>5 DEF Writer

(***************************************************************************)
(* Publishing keeps the order of what waits and puts its line at the end.  *)
(***************************************************************************)
LEMMA PublishShift ==
    ASSUME Inv, Inv', NEW s \in Streams, Publish(s)
    PROVE  /\ \A i \in 1 .. Len(pending') :
                pending'[i] = held[s][1] \/ \E k \in 1 .. Len(pending) : pending'[i] = pending[k]
           /\ \A i, j \in 1 .. Len(pending') : i < j =>
                \E k \in 1 .. Len(pending) :
                  /\ pending'[i] = pending[k]
                  /\ pending'[j] = held[s][1]
                     \/ \E l \in 1 .. Len(pending) : k < l /\ pending'[j] = pending[l]
<1> DEFINE h == held[s][1]
<1> HIDE DEF h
<1>1. Len(pending) \in Nat /\ Len(pending') \in Nat
  <2>1. pending \in Seq(Nat) /\ pending' \in Seq(Nat)
    BY DEF Inv, Typed
  <2> QED
    BY <2>1
<1>2. CASE Len(pending') = Len(pending) + 1 /\ pending'[Len(pending')] = h
           /\ \A j \in 1 .. Len(pending) : pending'[j] = pending[j]
  <2>1. \A i \in 1 .. Len(pending') : i \in 1 .. Len(pending) \/ i = Len(pending')
    BY <1>1, <1>2
  <2>2. \A i, j \in 1 .. Len(pending') : i < j => i \in 1 .. Len(pending)
    BY <1>1, <1>2
  <2> QED
    BY <1>2, <2>1, <2>2 DEF h
<1>3. CASE Len(pending') = Len(pending) /\ pending'[Len(pending')] = h
           /\ \A j \in 1 .. Len(pending) - 1 : pending'[j] = pending[j + 1]
  <2>1. \A i \in 1 .. Len(pending') : i # Len(pending') =>
          i + 1 \in 1 .. Len(pending) /\ pending'[i] = pending[i + 1]
    BY <1>1, <1>3
  <2>2. \A i, j \in 1 .. Len(pending') : i < j => i # Len(pending') /\ i + 1 < j + 1
    BY <1>1, <1>3
  <2> QED
    BY <1>3, <2>1, <2>2 DEF h
<1>4. CASE pending' = pending
  BY <1>4
<1> QED
  BY <1>2, <1>3, <1>4, PublishPending DEF h

(***************************************************************************)
(* What another stream holds below a line that is published is overtaken;  *)
(* what its own stream holds is above it.                                  *)
(***************************************************************************)
LEMMA PublishMiddle == ASSUME Inv, Inv', Basic, Middle, NEW s \in Streams, Publish(s) PROVE Middle'
<1>1. Stages'
  <2>1. UNCHANGED <<phase, back, last, done, reported, told, anchor, floor, from>>
    BY DEF Publish, client
  <2> QED
    BY <2>1, StagesKept DEF Middle
<1> DEFINE h == held[s][1]
<1>2. /\ h \in outputs /\ h \in Nat /\ Len(held[s]) \in Nat \ {0} /\ 1 \in 1 .. Len(held[s])
      /\ Head(held[s]) = h
  <2>1. 1 \in 1 .. Len(held[s]) /\ Len(held[s]) \in Nat \ {0} /\ Head(held[s]) = h
    BY PublishHeld
  <2> QED
    BY <2>1 DEF Basic, Queued, Numbered
<1>3. overtaken \subseteq overtaken'
  BY DEF Publish
<1>4. ASSUME NEW t \in Streams, NEW j \in 1 .. Len(held'[t])
      PROVE  /\ \E k \in 1 .. Len(held[t]) : held[t][k] = held'[t][j]
             /\ held'[t][j] < h => held'[t][j] \in overtaken'
  <2>1. CASE t = s
    <3>1. Len(held'[s]) = Len(held[s]) - 1 /\ held'[s][j] = held[s][j + 1]
      BY <1>4, <2>1, PublishHeld
    <3>2. j + 1 \in 1 .. Len(held[s]) /\ 1 < j + 1
      BY <1>2, <1>4, <2>1, <3>1
    <3>3. h < held[s][j + 1] /\ held[s][j + 1] \in Nat
      BY <1>2, <3>2 DEF Basic, Queued, Numbered
    <3> QED
      BY <1>2, <2>1, <3>1, <3>2, <3>3
  <2>2. CASE t # s
    <3>1. held'[t] = held[t]
      BY <2>2, PublishHeld
    <3>2. held[t][j] \in outputs
      BY <1>4, <3>1 DEF Basic, Queued
    <3>3. overtaken' = overtaken \cup
            {k \in outputs : k < h /\ \E u \in Streams \ {s} : \E i \in 1 .. Len(held[u]) : held[u][i] = k}
      BY <1>2 DEF Publish
    <3> QED
      BY <1>4, <2>2, <3>1, <3>2, <3>3
  <2> QED
    BY <2>1, <2>2
<1>5. Len(pending) \in Nat /\ Len(pending') \in Nat
  <2>1. pending \in Seq(Nat) /\ pending' \in Seq(Nat)
    BY DEF Inv, Typed
  <2> QED
    BY <2>1
<1>6. ASSUME NEW i \in 1 .. Len(pending')
      PROVE  pending'[i] = h \/ \E k \in 1 .. Len(pending) : pending'[i] = pending[k]
  BY PublishShift
<1>7. ASSUME NEW i \in 1 .. Len(pending'), NEW j \in 1 .. Len(pending'), i < j
      PROVE  \E k \in 1 .. Len(pending) :
               /\ pending'[i] = pending[k]
               /\ pending'[j] = h \/ \E l \in 1 .. Len(pending) : k < l /\ pending'[j] = pending[l]
  BY <1>7, PublishShift
<1> HIDE DEF h
<1>8. ASSUME NEW i \in 1 .. Len(pending'), NEW t \in Streams, NEW j \in 1 .. Len(held'[t]),
             held'[t][j] < pending'[i]
      PROVE  held'[t][j] \in overtaken'
  <2>1. CASE pending'[i] = h
    BY <1>4, <1>8, <2>1
  <2>2. CASE \E k \in 1 .. Len(pending) : pending'[i] = pending[k]
    <3>1. PICK k \in 1 .. Len(pending) : pending'[i] = pending[k]
      BY <2>2
    <3>2. PICK m \in 1 .. Len(held[t]) : held[t][m] = held'[t][j]
      BY <1>4
    <3> QED
      BY <1>3, <1>8, <3>1, <3>2 DEF Middle, InOrder
  <2> QED
    BY <1>6, <2>1, <2>2
<1>9. ASSUME NEW i \in 1 .. Len(pending'), NEW j \in 1 .. Len(pending'), i < j,
             pending'[j] < pending'[i]
      PROVE  pending'[j] \in overtaken'
  <2>1. PICK k \in 1 .. Len(pending) :
               /\ pending'[i] = pending[k]
               /\ pending'[j] = h \/ \E l \in 1 .. Len(pending) : k < l /\ pending'[j] = pending[l]
    BY <1>7, <1>9
  <2>2. CASE pending'[j] = h
    BY <1>2, <1>3, <1>9, <2>1, <2>2 DEF Middle, InOrder, h
  <2>3. CASE \E l \in 1 .. Len(pending) : k < l /\ pending'[j] = pending[l]
    BY <1>3, <1>9, <2>1, <2>3 DEF Middle, InOrder
  <2> QED
    BY <2>1, <2>2, <2>3
<1> QED
  BY <1>1, <1>8, <1>9 DEF Middle, InOrder

LEMMA ReadMiddle ==
    ASSUME Inv, Inv', ~misled', Basic, Basic', Middle, ReadBackfill \/ ReadAgain
    PROVE  Middle'
<1>1. UNCHANGED <<pending, held, overtaken, last, reported, told, done, from>>
  BY DEF ReadBackfill, ReadAgain, said, client
<1>2. last = -1
  BY DEF Basic, Ends, Middle, Stages, Unsent, ReadBackfill, ReadAgain
<1>3. InOrder'
  BY <1>1 DEF Middle, InOrder
<1>4. back' # <<>> => last' < back'[1].n
  <2>1. back' # <<>> => 1 \in 1 .. Len(back')
    BY DEF Inv, Typed
  <2>3. back' \in Seq(Lines)
    BY DEF Inv, Typed
  <2>4. \A i \in 1 .. Len(back') : back'[i] \in Lines
    BY <2>3
  <2>2. \A i \in 1 .. Len(back') : back'[i].n >= 0 /\ back'[i] \in Lines
    BY <2>4 DEF Basic, Bounded
  <2> QED
    BY <1>1, <1>2, <2>1, <2>2 DEF Lines
<1>5. CASE ReadBackfill
  <2>1. \/ phase' = "again" /\ back' = <<>> /\ anchor' <= floor'
        \/ /\ phase' = "sending"
           /\ anchor' <= floor' \/ anchor' <= from
           /\ \A i \in 1 .. Len(back') : back'[i].n = back'[1].n + i - 1
    BY <1>5, BackfillReach
  <2> QED
    BY <1>1, <1>2, <1>3, <1>4, <2>1 DEF Middle, Stages, Unsent
<1>6. CASE ReadAgain
  <2>1. /\ phase' = "sending"
        /\ \A i \in 1 .. Len(back') : back'[i].n = back'[1].n + i - 1
    BY <1>6, AgainReach DEF Middle, ReadAgain
  <2>2. anchor' <= floor'
    <3>1. anchor \in Nat /\ floor \in Nat /\ anchor <= floor
      BY <1>6 DEF ReadAgain, Basic, Kinds, Middle, Stages
    <3>2. FirstAvailable \in Nat
      BY AvailableTyped DEF Inv
    <3> QED
      BY <1>6, <3>1, <3>2 DEF ReadAgain, Higher
  <2> QED
    BY <1>1, <1>2, <1>3, <1>4, <2>1, <2>2 DEF Middle, Stages, Unsent
<1> QED
  BY <1>5, <1>6

\* The backfill after its first line is sent, and how far that brought the client.
LEMMA SendShift ==
    ASSUME Inv, Middle, SendBackfill, NEW h, h = back[1].n
    PROVE  /\ Len(back) \in Nat \ {0} /\ h \in Int /\ back[1] \in Lines
           /\ Len(back') = Len(back) - 1
           /\ \A i \in 1 .. Len(back') : back'[i] = back[i + 1] /\ back'[i].n = h + i
           /\ back # <<>> /\ last < h /\ (last' = last \/ last' = h)
           /\ h >= anchor =>
                /\ last' = h
                /\ seen' = IF h < from THEN seen ELSE seen \cup {back[1]}
           /\ h < anchor => last' = last /\ seen' = seen
<1>1. back \in Seq(Lines) /\ Len(back) \in Nat \ {0} /\ Head(back) = back[1]
      /\ back' = Tail(back) /\ 1 \in 1 .. Len(back) /\ back # <<>>
  BY DEF Inv, Typed, SendBackfill
<1>2. back[1] \in Lines /\ h \in Int /\ anchor \in Int /\ last \in Int
  <2>1. back[1] \in Lines
    BY <1>1
  <2> QED
    BY <2>1 DEF Lines, Inv, Typed
<1>3. Len(back') = Len(back) - 1 /\ \A i \in 1 .. Len(back') : back'[i] = back[i + 1]
  BY <1>1
<1>4. ASSUME NEW i \in 1 .. Len(back') PROVE back'[i].n = h + i
  <2>1. i + 1 \in 1 .. Len(back) /\ back'[i] = back[i + 1] /\ i \in Nat
    BY <1>1, <1>3, <1>4
  <2>2. back[i + 1].n = h + (i + 1) - 1
    BY <2>1 DEF Middle, Stages
  <2> QED
    BY <1>2, <2>1, <2>2
<1>5. last < h
  BY <1>1 DEF Middle, Stages
<1>6. CASE h < anchor
  <2>1. last' = last /\ seen' = seen
    BY <1>1, <1>6 DEF SendBackfill
  <2> QED
    BY <1>1, <1>2, <1>3, <1>4, <1>5, <1>6, <2>1
<1>7. CASE ~(h < anchor)
  <2>1. Emit(back[1])
    BY <1>1, <1>7 DEF SendBackfill
  <2>2. last' = h /\ seen' = IF h < from THEN seen ELSE seen \cup {back[1]}
    BY <1>2, <1>5, <2>1 DEF Emit
  <2> QED
    BY <1>1, <1>2, <1>3, <1>4, <1>5, <1>7, <2>2
<1> QED
  BY <1>6, <1>7

LEMMA SendMiddle == ASSUME Inv, Basic, Middle, SendBackfill PROVE Middle'
<1> DEFINE h == back[1].n
<1> HIDE DEF h
<1>1. UNCHANGED <<pending, held, overtaken, reported, told, done, from, phase, anchor, floor>>
      /\ phase = "sending"
  BY DEF SendBackfill, said, marks
<1>2. /\ Len(back) \in Nat \ {0} /\ h \in Int /\ Len(back') = Len(back) - 1
      /\ \A i \in 1 .. Len(back') : back'[i].n = h + i
      /\ last < h /\ (last' = last \/ last' = h)
  BY SendShift DEF h
<1>3. last \in Int
  BY DEF Inv, Typed
<1>4. back' # <<>> => 1 \in 1 .. Len(back')
  <2>1. back' \in Seq(Lines)
    BY DEF Inv, Typed, SendBackfill
  <2> QED
    BY <2>1
<1>5. back' # <<>> => last' < back'[1].n
  <2>1. back' # <<>> => back'[1].n = h + 1
    BY <1>2, <1>4
  <2> QED
    BY <1>2, <1>3, <2>1
<1>6. ASSUME NEW i \in 1 .. Len(back') PROVE back'[i].n = back'[1].n + i - 1
  <2>1. 1 \in 1 .. Len(back') /\ i \in Nat
    BY <1>2, <1>6
  <2>2. back'[i].n = h + i /\ back'[1].n = h + 1
    BY <1>2, <2>1
  <2> QED
    BY <1>2, <2>1, <2>2
<1>7. InOrder'
  BY <1>1 DEF Middle, InOrder
<1> QED
  BY <1>1, <1>5, <1>6, <1>7 DEF Middle, Stages, Unsent

\* What waits after a live line is sent.
LEMMA LiveShift ==
    ASSUME Inv, LiveLine \/ Drain
    PROVE  /\ Len(pending) \in Nat \ {0} /\ 1 \in 1 .. Len(pending) /\ Head(pending) = pending[1]
           /\ pending[1] \in Nat /\ Len(pending') = Len(pending) - 1
           /\ \A i \in 1 .. Len(pending') :
                i + 1 \in 1 .. Len(pending) /\ pending'[i] = pending[i + 1]
<1>1. pending \in Seq(Nat) /\ pending # <<>> /\ pending' = Tail(pending)
  BY DEF Inv, Typed, LiveLine, Drain
<1>2. Len(pending) \in Nat \ {0} /\ 1 \in 1 .. Len(pending) /\ Head(pending) = pending[1]
      /\ Len(pending') = Len(pending) - 1
      /\ (\A i \in 1 .. Len(pending') : pending'[i] = pending[i + 1])
      /\ pending[1] \in Nat
  BY <1>1
<1>3. \A i \in 1 .. Len(pending') : i + 1 \in 1 .. Len(pending)
  BY <1>2
<1> QED
  BY <1>2, <1>3

LEMMA LiveMiddle == ASSUME Inv, Basic, Middle, LiveLine \/ Drain PROVE Middle'
<1>1. UNCHANGED <<held, overtaken, reported, told, done, from, anchor, floor, back>>
      /\ phase \in {"live", "closing"} /\ phase' \in {"emitted", "closing"}
  BY DEF LiveLine, Drain, said, marks
<1>2. back = <<>> /\ Len(back) = 0
  BY <1>1 DEF Middle, Stages
<1>3. Stages'
  BY <1>1, <1>2 DEF Middle, Stages, Unsent
<1>4. InOrder'
  <2>1. ASSUME NEW i \in 1 .. Len(pending'), NEW t \in Streams, NEW j \in 1 .. Len(held[t]),
               held[t][j] < pending'[i]
        PROVE  held[t][j] \in overtaken
    BY <2>1, LiveShift DEF Middle, InOrder
  <2>2. ASSUME NEW i \in 1 .. Len(pending'), NEW j \in 1 .. Len(pending'), i < j,
               pending'[j] < pending'[i]
        PROVE  pending'[j] \in overtaken
    <3>1. i + 1 < j + 1
      BY <2>2, LiveShift
    <3> QED
      BY <2>2, <3>1, LiveShift DEF Middle, InOrder
  <2> QED
    BY <1>1, <2>1, <2>2 DEF InOrder
<1> QED
  BY <1>3, <1>4 DEF Middle

LEMMA DisconnectMiddle == ASSUME Inv, Basic, Middle, Cut \/ Crash PROVE Middle'
<1>1. UNCHANGED <<overtaken, told, done, floor>>
  BY DEF Cut, Crash
<1>2. held' = held \/ held' = [s \in Streams |-> <<>>]
  BY DEF Cut, Crash, said
<1>3. CASE Disconnect
  <2>1. InOrder'
    BY <1>3 DEF InOrder, Disconnect
  <2>2. Stages'
    BY <1>1, <1>3 DEF Stages, Unsent, Disconnect
  <2> QED
    BY <2>1, <2>2 DEF Middle
<1>4. CASE UNCHANGED <<phase, sending, from>>
  <2>1. Stages'
    BY <1>1, <1>4, StagesKept DEF Middle, sending
  <2>2. InOrder'
    <3>1. pending' = pending
      BY <1>4 DEF sending
    <3>2. CASE held' = held
      BY <1>1, <3>1, <3>2 DEF Middle, InOrder
    <3>3. CASE held' = [s \in Streams |-> <<>>]
      <4>1. \A s \in Streams : \A j \in 1 .. Len(held'[s]) : FALSE
        BY <3>3
      <4> QED
        BY <1>1, <3>1, <4>1 DEF Middle, InOrder
    <3> QED
      BY <1>2, <3>2, <3>3
  <2> QED
    BY <2>1, <2>2 DEF Middle
<1> QED
  BY <1>3, <1>4 DEF Cut, Crash

LEMMA QuietMiddle == ASSUME Inv, Basic, Middle, Quiet PROVE Middle'
<1>1. UNCHANGED <<pending, held, overtaken, back, last, anchor, floor, from>>
  BY DEF Quiet, EndRow, Announce, Open, Subscribe, Recheck, Tell, CommitSent, LiveEnd, SendDone,
     vars, files, said, reading, sending, client, marks
<1>2. InOrder'
  BY <1>1 DEF Middle, InOrder
<1>3. reported' \subseteq told'
  BY DEF Middle, Stages, Quiet, EndRow, Announce, Open, Subscribe, Recheck, Tell, CommitSent,
     LiveEnd, SendDone, vars, reading, sending, client
<1>4. (phase # "sending" => back = <<>>)'
  BY DEF Middle, Stages, Quiet, EndRow, Announce, Open, Subscribe, Recheck, Tell, CommitSent,
     LiveEnd, SendDone, vars, reading, sending, client
<1>5. phase' \in {"again", "reindexed", "sending"} => phase' = phase
  BY DEF Quiet, EndRow, Announce, Open, Subscribe, Recheck, Tell, CommitSent,
     LiveEnd, SendDone, vars, reading, sending, client
<1>6. (Unsent /\ ~done => last = -1)'
  BY DEF Middle, Stages, Unsent, Quiet, EndRow, Announce, Open, Subscribe, Recheck, Tell, CommitSent,
     LiveEnd, SendDone, vars, reading, sending, client
<1> QED
  BY <1>1, <1>2, <1>3, <1>4, <1>5, <1>6 DEF Middle, Stages

LEMMA LoadMiddle == ASSUME Basic, Middle, Close \/ LoadSidecar PROVE Middle'
<1>1. UNCHANGED <<back, last, done, reported, told, anchor, floor, from, pending, overtaken, held>>
  BY DEF Close, LoadSidecar, said, sending, client, marks
<1>2. phase' = phase \/ (phase = "subscribed" /\ phase' = "indexed")
        \/ (phase = "again" /\ phase' = "reindexed")
  BY DEF Close, LoadSidecar
<1>3. Stages'
  BY <1>1, <1>2 DEF Middle, Stages, Unsent
<1> QED
  BY <1>1, <1>3 DEF Middle, InOrder

LEMMA MiddleInductive ==
    ASSUME Inv, Inv', ~misled', Basic, Basic', Middle, [Next]_vars PROVE Middle'
BY Steps, WriterMiddle, PublishMiddle, LoadMiddle, ReadMiddle, SendMiddle, LiveMiddle,
   DisconnectMiddle, QuietMiddle

-----------------------------------------------------------------------------
(***************************************************************************)
(* The last layer: where each line of output is that the client will be    *)
(* past one day.                                                           *)
(***************************************************************************)
Accounted == Shown \cup Excused \cup overtaken

Waiting ==
    {n \in outputs : \/ \E i \in 1 .. Len(pending) : pending[i] = n
                     \/ \E s \in Streams : \E i \in 1 .. Len(held[s]) : held[s][i] = n}

InBack == {n \in outputs : \E i \in 1 .. Len(back) : back[i].n = n}

Streaming == phase \in {"sending", "live", "emitted", "told", "closing"}
Again == phase \in {"again", "reindexed"}

Ways ==
    /\ Streaming => \A n \in outputs : n >= floor /\ n >= from =>
                      n \in Accounted \cup Waiting \cup InBack
    /\ back # <<>> => \A n \in outputs : n >= floor /\ n >= from /\ n < back[1].n => n \in Accounted
    /\ Again => \A n \in outputs : n >= anchor + Replay => n \in Accounted \cup Waiting

NoGap == \A n \in outputs : n >= floor /\ Passed(n) => n \in Accounted

Whole == Ways /\ NoGap

LEMMA InitWhole == Init => Whole
BY DEF Init, Whole, Ways, NoGap, Streaming, Again

(***************************************************************************)
(* A new line waits, and the client is past no number that is not given.   *)
(***************************************************************************)
LEMMA CaptureWhole ==
    ASSUME Inv, Basic, Whole, NEW s \in Streams, NEW m \in Nat, Capture(s, m), NextNumber <= m,
           run = "running", UNCHANGED <<phase, sending, client, floor, overtaken, unsaid>>
    PROVE  Whole'
<1>1. outputs' = outputs \cup {m}
  BY DEF Capture
<1>2. NextNumber \in Nat /\ last \in Int /\ from \in Int /\ floor \in Nat
  BY DEF Inv, Typed, NextNumber, Basic, Kinds
<1>3. held \in [Streams -> Seq(Nat)] /\ held' = [held EXCEPT ![s] = Append(@, m)]
  BY DEF Inv, Typed, Capture
<1>4. m \in Waiting'
  <2>1. held'[s] = Append(held[s], m) /\ held[s] \in Seq(Nat)
    BY <1>3
  <2>2. Len(held'[s]) \in 1 .. Len(held'[s]) /\ held'[s][Len(held'[s])] = m
    BY <2>1
  <2> QED
    BY <1>1, <2>2 DEF Waiting
<1>5. Waiting \subseteq Waiting'
  <2>1. ASSUME NEW t \in Streams, NEW i \in 1 .. Len(held[t])
        PROVE  i \in 1 .. Len(held'[t]) /\ held'[t][i] = held[t][i]
    <3>1. CASE t = s
      <4>1. held[s] \in Seq(Nat) /\ held'[s] = Append(held[s], m)
        BY <1>3
      <4> QED
        BY <2>1, <3>1, <4>1
    <3>2. CASE t # s
      BY <1>3, <2>1, <3>2
    <3> QED
      BY <3>1, <3>2
  <2>2. pending' = pending
    BY DEF sending
  <2> QED
    BY <1>1, <2>1, <2>2 DEF Waiting
<1>6. Accounted' = Accounted /\ InBack \subseteq InBack'
  BY <1>1 DEF Accounted, Shown, Excused, InBack, sending, client
<1>7. UNCHANGED <<phase, back, anchor, last, floor, from, done>>
  BY DEF sending, client
<1>8. back # <<>> => back[1].n < m /\ back[1].n \in Int
  <2>1. back # <<>> => 1 \in 1 .. Len(back) /\ back[1] \in Lines
    <3>1. back \in Seq(Lines)
      BY DEF Inv, Typed
    <3> QED
      BY <3>1
  <2> QED
    BY <1>2, <2>1 DEF Basic, Bounded, Lines
<1>9. Ways'
  <2>1. Streaming' = Streaming /\ Again' = Again
    BY <1>7 DEF Streaming, Again
  <2>2. ASSUME Streaming', NEW n \in outputs', n >= floor', n >= from'
        PROVE  (n \in Accounted \cup Waiting \cup InBack)'
    <3>1. CASE n \in outputs
      BY <1>5, <1>6, <1>7, <2>1, <2>2, <3>1 DEF Whole, Ways
    <3>2. CASE n = m
      BY <1>4, <3>2
    <3> QED
      BY <1>1, <3>1, <3>2
  <2>3. ASSUME back' # <<>>, NEW n \in outputs', n >= floor', n >= from', n < back'[1].n
        PROVE  n \in Accounted'
    <3>1. n # m
      BY <1>7, <1>8, <2>3
    <3> QED
      BY <1>1, <1>6, <1>7, <2>3, <3>1 DEF Whole, Ways
  <2>4. ASSUME Again', NEW n \in outputs', n >= anchor' + Replay
        PROVE  (n \in Accounted \cup Waiting)'
    <3>1. CASE n \in outputs
      BY <1>5, <1>6, <1>7, <2>1, <2>4, <3>1 DEF Whole, Ways
    <3>2. CASE n = m
      BY <1>4, <3>2
    <3> QED
      BY <1>1, <3>1, <3>2
  <2> QED
    BY <2>2, <2>3, <2>4 DEF Ways
<1>10. NoGap'
  <2>1. ~done
    BY DEF Basic, Ends, RowEnded
  <2>2. m >= floor => ~(m < from) /\ ~(m <= last)
    BY <1>2 DEF Basic, Bounded
  <2>3. ASSUME NEW n \in outputs', n >= floor', Passed(n)' PROVE n \in Accounted'
    <3>1. Passed(n)
      BY <1>7, <2>3 DEF Passed
    <3>2. n # m
      BY <1>7, <2>1, <2>2, <2>3, <3>1 DEF Passed
    <3> QED
      BY <1>1, <1>6, <1>7, <2>3, <3>1, <3>2 DEF Whole, NoGap, Accounted
  <2> QED
    BY <2>3 DEF NoGap, Accounted
<1> QED
  BY <1>9, <1>10 DEF Whole

\* What a client is past, and what is accounted for, rests on these.
LEMMA WholeKept ==
    ASSUME Whole, UNCHANGED <<phase, pending, back, anchor, last, dropped, client, held, outputs,
                              marks>>
    PROVE  Whole'
BY DEF Whole, Ways, Streaming, Again, Accounted, Waiting, InBack, Shown, Excused, NoGap, Passed,
   client, marks

LEMMA TakenWhole ==
    ASSUME Inv, Basic, Whole, NEW s \in Streams, NEW m \in Nat, Taken(s, m), NextNumber <= m,
           run = "running", UNCHANGED <<phase, sending, client, marks>>
    PROVE  Whole'
<1>1. CASE Capture(s, m)
  BY <1>1, CaptureWhole DEF marks
<1>2. CASE Remarked(s)
  BY <1>2, WholeKept DEF Remarked, sending
<1> QED
  BY <1>1, <1>2 DEF Taken

LEMMA WriterWhole == ASSUME Inv, Basic, Whole, NEW s \in Streams, Writer(s) PROVE Whole'
<1>1. UNCHANGED <<phase, sending, client, marks>>
  BY DEF Writer, Write, StopCapture, Rotate, CreateSegment, SegmentFails, Rewrite
<1>2. CASE Write(s)
  <2>1. NextNumber \in Nat /\ Taken(s, NextNumber) /\ NextNumber <= NextNumber
        /\ run = "running"
    BY <1>2 DEF Inv, Typed, NextNumber, Write, MayWrite
  <2> QED
    BY <1>1, <2>1, TakenWhole
<1>3. CASE Rewrite(s)
  <2> DEFINE n == rotated + 1
  <2>1. log = <<>> /\ rotated \in Nat /\ run = "running"
    BY <1>3, LogStreamAssumption DEF Inv, Typed, Basic, Ends, Rewrite
  <2>2. n \in Nat /\ NextNumber <= n
    BY <2>1 DEF NextNumber
  <2>3. Taken(s, n)
    BY <1>3 DEF Rewrite
  <2> HIDE DEF n
  <2> QED
    BY <1>1, <2>1, <2>2, <2>3, TakenWhole
<1>4. CASE StopCapture(s) \/ Rotate(s) \/ CreateSegment(s) \/ SegmentFails(s)
  <2>1. UNCHANGED <<held, outputs>>
    BY <1>4 DEF StopCapture, Remarked, Rotate, CreateSegment, SegmentFails, said
  <2> QED
    BY <1>1, <2>1, WholeKept DEF sending
<1> QED
  BY <1>2, <1>3, <1>4 DEF Writer

(***************************************************************************)
(* A line that is published to a connection waits there, or takes the      *)
(* place of one that is counted as dropped.                                *)
(***************************************************************************)
LEMMA PublishWaiting ==
    ASSUME Inv, Inv', Basic, NEW s \in Streams, Publish(s), Subscribed
    PROVE  Waiting \subseteq Waiting' \cup dropped'
<1> DEFINE h == held[s][1]
<1>1. outputs' = outputs /\ Len(pending) \in Nat
  BY DEF Publish, Inv, Typed
<1>2. /\ Len(held[s]) \in Nat \ {0} /\ Len(held'[s]) = Len(held[s]) - 1
      /\ \A i \in 1 .. Len(held'[s]) : held'[s][i] = held[s][i + 1]
      /\ \A t \in Streams : t # s => held'[t] = held[t]
  BY PublishHeld
<1> HIDE DEF h
<1>3. Len(pending') >= 1 /\ Len(pending') \in Nat /\ pending'[Len(pending')] = h
      /\ \A i \in 1 .. Len(pending) :
           pending[i] \in dropped' \/ \E k \in 1 .. Len(pending') : pending'[k] = pending[i]
  <2>1. CASE Len(pending') = Len(pending) + 1 /\ pending'[Len(pending')] = h
             /\ \A j \in 1 .. Len(pending) : pending'[j] = pending[j]
    <3>1. \A i \in 1 .. Len(pending) : i \in 1 .. Len(pending')
      BY <1>1, <2>1
    <3> QED
      BY <1>1, <2>1, <3>1
  <2>2. CASE Len(pending) > 0 /\ Len(pending') = Len(pending) /\ pending'[Len(pending')] = h
             /\ dropped' = dropped \cup {pending[1]}
             /\ \A j \in 1 .. Len(pending) - 1 : pending'[j] = pending[j + 1]
    <3>1. ASSUME NEW i \in 1 .. Len(pending), i # 1
          PROVE  \E k \in 1 .. Len(pending') : pending'[k] = pending[i]
      <4>1. i - 1 \in 1 .. Len(pending) - 1 /\ i - 1 \in 1 .. Len(pending') /\ (i - 1) + 1 = i
        BY <1>1, <2>2, <3>1
      <4>2. pending'[i - 1] = pending[i]
        BY <2>2, <4>1
      <4> QED
        BY <4>1, <4>2
    <3> QED
      BY <1>1, <2>2, <3>1
  <2> QED
    BY <2>1, <2>2, PublishPending DEF h
<1>4. ASSUME NEW n \in outputs, NEW i \in 1 .. Len(pending), pending[i] = n
      PROVE  n \in Waiting' \cup dropped'
  BY <1>1, <1>3, <1>4 DEF Waiting
<1>5. ASSUME NEW n \in outputs, NEW t \in Streams, NEW i \in 1 .. Len(held[t]), held[t][i] = n
      PROVE  n \in Waiting'
  <2>1. CASE t # s
    BY <1>1, <1>2, <1>5, <2>1 DEF Waiting
  <2>2. CASE t = s /\ i = 1
    <3>1. n = h /\ Len(pending') \in 1 .. Len(pending')
      BY <1>3, <1>5, <2>2 DEF h
    <3> QED
      BY <1>1, <1>3, <3>1 DEF Waiting
  <2>3. CASE t = s /\ i # 1
    <3>1. i - 1 \in 1 .. Len(held'[s]) /\ (i - 1) + 1 = i
      BY <1>2, <2>3
    <3>2. held'[s][i - 1] = n
      BY <1>2, <1>5, <2>3, <3>1
    <3> QED
      BY <1>1, <3>1, <3>2 DEF Waiting
  <2> QED
    BY <2>1, <2>2, <2>3
<1> QED
  BY <1>4, <1>5 DEF Waiting

LEMMA PublishWhole == ASSUME Inv, Inv', Basic, Whole, NEW s \in Streams, Publish(s) PROVE Whole'
<1>1. UNCHANGED <<phase, back, anchor, last, floor, from, done, outputs, seen, told, unsaid>>
  BY DEF Publish, client
<1>2. dropped \subseteq dropped' /\ overtaken \subseteq overtaken'
  <2>1. dropped \subseteq dropped'
    BY PublishPending
  <2> QED
    BY <2>1 DEF Publish
<1>3. Accounted \subseteq Accounted' /\ InBack' = InBack /\ dropped' \subseteq Accounted'
  BY <1>1, <1>2 DEF Accounted, Shown, Excused, InBack
<1>4. Streaming \/ Again => Waiting \subseteq Waiting' \cup Accounted'
  <2>1. Streaming \/ Again => Subscribed
    BY DEF Streaming, Again, Subscribed
  <2> QED
    BY <1>3, <2>1, PublishWaiting
<1>5. Ways'
  <2>1. Streaming' = Streaming /\ Again' = Again
    BY <1>1 DEF Streaming, Again
  <2>2. ASSUME Streaming', NEW n \in outputs', n >= floor', n >= from'
        PROVE  (n \in Accounted \cup Waiting \cup InBack)'
    BY <1>1, <1>3, <1>4, <2>1, <2>2 DEF Whole, Ways
  <2>3. ASSUME back' # <<>>, NEW n \in outputs', n >= floor', n >= from', n < back'[1].n
        PROVE  n \in Accounted'
    BY <1>1, <1>3, <2>3 DEF Whole, Ways
  <2>4. ASSUME Again', NEW n \in outputs', n >= anchor' + Replay
        PROVE  (n \in Accounted \cup Waiting)'
    BY <1>1, <1>3, <1>4, <2>1, <2>4 DEF Whole, Ways
  <2> QED
    BY <2>2, <2>3, <2>4 DEF Ways
<1>6. NoGap'
  BY <1>1, <1>3 DEF Whole, NoGap, Passed, Accounted
<1> QED
  BY <1>5, <1>6 DEF Whole

LEMMA ReadWhole ==
    ASSUME Inv, Inv', ~misled', Basic, Basic', Middle, Whole, ReadBackfill \/ ReadAgain
    PROVE  Whole'
<1>1. UNCHANGED <<pending, held, last, from, done, outputs, seen, told, unsaid, dropped, overtaken>>
  BY DEF ReadBackfill, ReadAgain, said, client
<1>2. Accounted' = Accounted /\ Waiting' = Waiting
  BY <1>1 DEF Accounted, Shown, Excused, Waiting
<1>3. floor \in Nat /\ floor' \in Nat /\ Replay \in Nat /\ FirstAvailable \in Nat
      /\ from \in Int /\ anchor' \in Nat
  <2>1. floor \in Nat /\ floor' \in Nat /\ Replay \in Nat /\ from \in Int
        /\ anchor' \in Nat
    BY LogStreamAssumption DEF Inv, Typed, Basic, Kinds, ReadBackfill, ReadAgain
  <2> QED
    BY <2>1, AvailableTyped DEF Inv
<1>4. floor' >= floor
  <2>1. \A e \in Int : Higher(floor, e) >= floor
    BY <1>3 DEF Higher
  <2>2. Entitled(from) \in Int
    <3>1. TotalLines \in Int
      BY AvailableTyped DEF Inv
    <3> QED
      BY <1>3, <3>1 DEF Entitled, Higher
  <2> QED
    BY <1>3, <2>1, <2>2 DEF ReadBackfill, ReadAgain
<1>5. NoGap'
  <2>1. ASSUME NEW n \in outputs, n >= floor', Passed(n) PROVE n \in Accounted
    <3>1. n >= floor
      BY <1>3, <1>4, <2>1 DEF Basic, Numbered
    <3> QED
      BY <2>1, <3>1 DEF Whole, NoGap, Accounted
  <2> QED
    BY <1>1, <1>2, <2>1 DEF NoGap, Passed, Accounted
\* Every line asked for is in the backfill, or already waits for its turn.
<1>6. \/ /\ phase' = "again" /\ back' = <<>>
         /\ \A n \in outputs : ~(n >= anchor' + Replay)
      \/ /\ phase' = "sending"
         /\ \A n \in outputs : n >= floor' /\ n >= from =>
              /\ n \in Accounted \cup Waiting \/ \E i \in 1 .. Len(back') : back'[i].n = n
              /\ back' # <<>> => n >= back'[1].n
  <2>1. CASE ReadBackfill
    <3>1. CASE phase' = "again" /\ back' = <<>> /\ NextNumber <= anchor' + Replay
      <4>1. \A n \in outputs : n \in Nat /\ n < NextNumber
        BY DEF Basic, Numbered
      <4>2. NextNumber \in Nat
        BY DEF Inv, Typed, NextNumber
      <4> DEFINE a == anchor'
      <4>3. a \in Nat /\ Replay \in Nat /\ NextNumber <= a + Replay
        BY <1>3, <3>1
      <4> HIDE DEF a
      <4>4. ASSUME NEW n \in outputs PROVE ~(n >= a + Replay)
        <5>1. n \in Nat /\ n < NextNumber
          BY <4>1
        <5> QED
          BY <4>2, <4>3, <5>1
      <4> QED
        BY <3>1, <4>4 DEF a
    <3>2. CASE /\ phase' = "sending"
               /\ \A n \in outputs : n >= floor' /\ n >= from =>
                    (\E i \in 1 .. Len(back') : back'[i].n = n) /\ n >= back'[1].n
      BY <3>2
    <3> QED
      BY <2>1, <3>1, <3>2, BackfillReach
  <2>2. CASE ReadAgain
    <3>1. Again /\ phase' = "sending"
      BY <2>2 DEF ReadAgain, Again
    <3>2. \A n \in outputs : n >= floor' =>
            /\ n >= anchor + Replay \/ \E i \in 1 .. Len(back') : back'[i].n = n
            /\ back' # <<>> => n >= back'[1].n
      BY <2>2, AgainReach DEF Middle
    <3>3. \A n \in outputs : n >= anchor + Replay => n \in Accounted \cup Waiting
      BY <3>1 DEF Whole, Ways
    <3> QED
      BY <3>1, <3>2, <3>3
  <2> QED
    BY <2>1, <2>2
<1>7. Ways'
  <2>1. ASSUME Streaming', NEW n \in outputs', n >= floor', n >= from'
        PROVE  (n \in Accounted \cup Waiting \cup InBack)'
    <3>1. phase' # "again"
      BY <2>1 DEF Streaming
    <3> QED
      BY <1>1, <1>2, <1>6, <2>1, <3>1 DEF InBack
  <2>2. ASSUME back' # <<>>, NEW n \in outputs', n >= floor', n >= from', n < back'[1].n
        PROVE  n \in Accounted'
    <3>1. n >= back'[1].n
      BY <1>1, <1>6, <2>2
    <3>2. n \in Int /\ back'[1].n \in Int
      <4>1. back' \in Seq(Lines)
        BY DEF Inv, Typed
      <4>2. back'[1] \in Lines
        BY <2>2, <4>1
      <4> QED
        BY <1>1, <2>2, <4>2 DEF Lines, Basic, Numbered
    <3> QED
      BY <2>2, <3>1, <3>2
  <2>3. ASSUME Again', NEW n \in outputs', n >= anchor' + Replay
        PROVE  (n \in Accounted \cup Waiting)'
    BY <1>1, <1>6, <2>3 DEF Again
  <2> QED
    BY <2>1, <2>2, <2>3 DEF Ways
<1> QED
  BY <1>5, <1>7 DEF Whole

(***************************************************************************)
(* The first line of the backfill is printed; all below it is accounted    *)
(* for already.                                                            *)
(***************************************************************************)
LEMMA SendWhole == ASSUME Inv, ~misled, Basic, Middle, Whole, SendBackfill PROVE Whole'
<1> DEFINE h == back[1].n
<1> HIDE DEF h
<1>1. UNCHANGED <<phase, anchor, floor, from, done, told, dropped, pending, held, outputs, overtaken,
                  unsaid>> /\ phase = "sending"
  BY DEF SendBackfill, said, marks
<1>2. /\ Len(back) \in Nat \ {0} /\ h \in Int /\ back[1] \in Lines
      /\ Len(back') = Len(back) - 1
      /\ \A i \in 1 .. Len(back') : back'[i] = back[i + 1] /\ back'[i].n = h + i
      /\ back # <<>> /\ last < h /\ (last' = last \/ last' = h)
      /\ h >= anchor =>
           /\ last' = h
           /\ seen' = IF h < from THEN seen ELSE seen \cup {back[1]}
      /\ h < anchor => last' = last /\ seen' = seen
  BY SendShift DEF h
<1>3. back[1].line = h /\ back[1].n = h
  <2>1. 1 \in 1 .. Len(back)
    BY <1>2
  <2> QED
    BY <2>1 DEF Inv, Faithful, True, h
<1>4. last \in Int /\ from \in Int /\ floor \in Nat /\ anchor \in Nat
      /\ \A n \in outputs : n \in Nat
  BY DEF Inv, Typed, Basic, Kinds, Numbered
<1>5. Accounted \subseteq Accounted' /\ Waiting' = Waiting
  <2>1. seen \subseteq seen'
    BY <1>2, <1>4
  <2> QED
    BY <1>1, <2>1 DEF Accounted, Shown, Excused, Waiting
\* A line that is asked for and not above the first one is accounted for now.
<1>6. ASSUME NEW n \in outputs, n >= floor, n >= from, n <= h PROVE n \in Accounted'
  <2>1. CASE n < h
    BY <1>2, <1>5, <1>6, <2>1 DEF Whole, Ways, h
  <2>2. CASE n = h
    <3>1. anchor <= h
      BY <1>1, <1>4, <1>6, <2>2 DEF Middle, Stages
    <3>2. seen' = seen \cup {back[1]}
      BY <1>2, <1>4, <1>6, <2>2, <3>1
    <3>3. h \in Shown'
      BY <1>3, <3>2 DEF Shown
    <3> QED
      BY <2>2, <3>3 DEF Accounted
  <2> QED
    BY <1>2, <1>4, <1>6, <2>1, <2>2
<1>7. ASSUME NEW n \in InBack, n # h PROVE n \in InBack'
  <2>1. PICK i \in 1 .. Len(back) : back[i].n = n
    BY <1>7 DEF InBack
  <2>2. i # 1
    BY <1>3, <1>7, <2>1
  <2>3. i - 1 \in 1 .. Len(back') /\ (i - 1) + 1 = i
    BY <1>2, <2>1, <2>2
  <2>4. back'[i - 1].n = n
    BY <1>2, <2>1, <2>3
  <2> QED
    BY <1>1, <1>7, <2>3, <2>4 DEF InBack
<1>8. back' # <<>> => back'[1].n = h + 1
  <2>1. back' # <<>> => 1 \in 1 .. Len(back')
    <3>1. back \in Seq(Lines) /\ back' = Tail(back)
      BY DEF Inv, Typed, SendBackfill
    <3> QED
      BY <3>1, <1>2
  <2> QED
    BY <1>2, <2>1
<1>9. Ways'
  <2>1. Streaming' /\ Streaming
    BY <1>1 DEF Streaming
  <2>2. ASSUME NEW n \in outputs', n >= floor', n >= from'
        PROVE  (n \in Accounted \cup Waiting \cup InBack)'
    <3>1. n \in Accounted \cup Waiting \cup InBack
      BY <1>1, <2>1, <2>2 DEF Whole, Ways
    <3>2. CASE n = h
      BY <1>1, <1>2, <1>6, <2>2, <3>2
    <3>3. CASE n # h
      BY <1>5, <1>7, <3>1, <3>3
    <3> QED
      BY <3>2, <3>3
  <2>3. ASSUME back' # <<>>, NEW n \in outputs', n >= floor', n >= from', n < back'[1].n
        PROVE  n \in Accounted'
    BY <1>1, <1>2, <1>4, <1>6, <1>8, <2>3
  <2>4. ~Again'
    BY <1>1 DEF Again
  <2> QED
    BY <2>2, <2>3, <2>4 DEF Ways
<1>10. NoGap'
  <2>1. ASSUME NEW n \in outputs, n >= floor, Passed(n)' PROVE n \in Accounted'
    <3>1. CASE Passed(n)
      BY <1>5, <2>1, <3>1 DEF Whole, NoGap, Accounted
    <3>2. CASE ~Passed(n)
      <4>1. n <= last' /\ ~(n < from) /\ ~(n <= last)
        BY <1>1, <2>1, <3>2 DEF Passed
      <4>2. n <= h /\ n >= from
        BY <1>2, <1>4, <4>1
      <4> QED
        BY <1>6, <2>1, <4>2
    <3> QED
      BY <3>1, <3>2
  <2> QED
    BY <1>1, <2>1 DEF NoGap, Accounted
<1> QED
  BY <1>9, <1>10 DEF Whole

(***************************************************************************)
(* A live line is printed; what the client skips over to get there was     *)
(* overtaken, because it waits behind it or is held by another stream.     *)
(***************************************************************************)
LEMMA LiveWhole == ASSUME Inv, Basic, Middle, Whole, LiveLine \/ Drain PROVE Whole'
<1> DEFINE h == pending[1]
<1>1. UNCHANGED <<anchor, floor, from, done, told, dropped, back, held, outputs, overtaken, unsaid>>
      /\ phase \in {"live", "closing"} /\ phase' \in {"emitted", "closing"}
  BY DEF LiveLine, Drain, said, marks
<1>2. /\ Len(pending) \in Nat \ {0} /\ 1 \in 1 .. Len(pending) /\ Head(pending) = h /\ h \in Nat
      /\ Len(pending') = Len(pending) - 1
      /\ \A i \in 1 .. Len(pending') :
           i + 1 \in 1 .. Len(pending) /\ pending'[i] = pending[i + 1]
  BY LiveShift
<1>3. back = <<>> /\ InBack = {}
  <2>1. back = <<>>
    BY <1>1 DEF Middle, Stages
  <2> QED
    BY <2>1 DEF InBack
<1>4. last \in Int /\ from \in Int /\ floor \in Nat /\ \A n \in outputs : n \in Nat
  BY DEF Inv, Typed, Basic, Kinds, Numbered
<1>5. /\ h <= last => last' = last /\ seen' = seen
      /\ h > last => last' = h /\ seen' = IF h < from THEN seen ELSE seen \cup {Live(h)}
  <2>1. Emit(Live(h))
    BY <1>2 DEF LiveLine, Drain
  <2>2. Live(h).n = h
    BY DEF Live
  <2> QED
    BY <1>2, <1>4, <2>1, <2>2 DEF Emit
<1> HIDE DEF h
<1>6. Accounted \subseteq Accounted'
  <2>1. seen \subseteq seen'
    BY <1>2, <1>4, <1>5
  <2> QED
    BY <1>1, <2>1 DEF Accounted, Shown, Excused
<1>7. ASSUME NEW n \in Waiting, n # h PROVE n \in Waiting'
  <2>1. CASE \E s \in Streams : \E i \in 1 .. Len(held[s]) : held[s][i] = n
    BY <1>1, <1>7, <2>1 DEF Waiting
  <2>2. CASE \E i \in 1 .. Len(pending) : pending[i] = n
    <3>1. PICK i \in 1 .. Len(pending) : pending[i] = n
      BY <2>2
    <3>2. i # 1
      BY <1>7, <3>1 DEF h
    <3>3. i - 1 \in 1 .. Len(pending') /\ (i - 1) + 1 = i
      BY <1>2, <3>1, <3>2
    <3>4. pending'[i - 1] = n
      BY <1>2, <3>1, <3>3
    <3> QED
      BY <1>1, <1>7, <3>3, <3>4 DEF Waiting
  <2> QED
    BY <1>7, <2>1, <2>2 DEF Waiting
<1>8. ASSUME NEW n \in Waiting, n < h PROVE n \in overtaken
  <2>1. CASE \E s \in Streams : \E i \in 1 .. Len(held[s]) : held[s][i] = n
    BY <1>2, <1>8, <2>1 DEF Middle, InOrder, h
  <2>2. CASE \E i \in 1 .. Len(pending) : pending[i] = n
    <3>1. PICK i \in 1 .. Len(pending) : pending[i] = n
      BY <2>2
    <3>2. i # 1
      BY <1>2, <1>8, <3>1 DEF h
    <3>3. 1 < i
      BY <1>2, <3>1, <3>2
    <3> QED
      BY <1>2, <1>8, <3>1, <3>3 DEF Middle, InOrder, h
  <2> QED
    BY <1>8, <2>1, <2>2 DEF Waiting
<1>9. ASSUME h > last, h >= from PROVE h \in Accounted'
  <2>1. seen' = seen \cup {Live(h)}
    BY <1>2, <1>4, <1>5, <1>9
  <2>2. h \in Shown'
    <3>1. Live(h).line = h /\ Live(h) \in seen'
      BY <2>1 DEF Live
    <3> QED
      BY <3>1 DEF Shown
  <2> QED
    BY <2>2 DEF Accounted
<1>10. ASSUME NEW n \in outputs, n >= floor, n >= from PROVE n \in Accounted \cup Waiting
  BY <1>1, <1>3, <1>10 DEF Whole, Ways, Streaming
<1>11. Ways'
  <2>1. ASSUME NEW n \in outputs', n >= floor', n >= from'
        PROVE  (n \in Accounted \cup Waiting \cup InBack)'
    <3>1. n \in Accounted \cup Waiting
      BY <1>1, <1>10, <2>1
    <3>2. CASE n # h
      BY <1>6, <1>7, <3>1, <3>2
    <3>3. CASE n = h /\ h > last
      BY <1>1, <1>9, <2>1, <3>3
    <3>4. CASE n = h /\ ~(h > last)
      <4>1. Passed(n)
        BY <1>2, <1>4, <3>4 DEF Passed
      <4> QED
        BY <1>1, <1>6, <2>1, <4>1 DEF Whole, NoGap, Accounted
    <3> QED
      BY <3>2, <3>3, <3>4
  <2>2. back' = <<>> /\ ~Again'
    BY <1>1, <1>3 DEF Again
  <2> QED
    BY <2>1, <2>2 DEF Ways
<1>12. NoGap'
  <2>1. ASSUME NEW n \in outputs, n >= floor, Passed(n)' PROVE n \in Accounted'
    <3>1. CASE Passed(n)
      BY <1>6, <2>1, <3>1 DEF Whole, NoGap, Accounted
    <3>2. CASE ~Passed(n)
      <4>1. n <= last' /\ ~(n < from) /\ ~(n <= last)
        BY <1>1, <2>1, <3>2 DEF Passed
      <4>2. n <= h /\ n >= from /\ h > last
        BY <1>2, <1>4, <1>5, <4>1
      <4>3. CASE n = h
        BY <1>9, <4>2, <4>3
      <4>4. CASE n < h
        BY <1>6, <1>8, <1>10, <2>1, <4>2, <4>4 DEF Accounted
      <4> QED
        BY <1>2, <1>4, <4>2, <4>3, <4>4
    <3> QED
      BY <3>1, <3>2
  <2> QED
    BY <1>1, <2>1 DEF NoGap, Accounted
<1> QED
  BY <1>11, <1>12 DEF Whole

(***************************************************************************)
(* A connection that ends is past no line that it was not past before, and *)
(* hands the notices it owes over.                                         *)
(***************************************************************************)
LEMMA DisconnectWhole == ASSUME Inv, Basic, Middle, Whole, Cut \/ Crash PROVE Whole'
<1>1. UNCHANGED <<seen, told, done, outputs, floor, overtaken>>
  BY DEF Cut, Crash, said
<1>2. last \in Int /\ from \in Int /\ \A n \in outputs : n \in Nat
  BY DEF Inv, Typed, Basic, Numbered
<1>3. CASE Disconnect /\ phase # "none"
  <2>1. ~Streaming' /\ ~Again' /\ back' = <<>>
    BY <1>3 DEF Streaming, Again, Disconnect
  <2>2. Ways'
    BY <2>1 DEF Ways
  <2>3. ~done
    BY <1>3 DEF Basic, Ends
  <2>4. ASSUME NEW n \in outputs, n >= floor, Passed(n)' PROVE n \in Accounted'
    <3>1. n < from'
      <4>1. n \in Nat /\ last' = -1 /\ done' = done
        BY <1>1, <1>2, <1>3 DEF Disconnect
      <4> QED
        BY <2>3, <2>4, <4>1 DEF Passed
    <3>2. from' = from \/ from' = last + 1
      BY <1>3 DEF Disconnect, ResumeFrom
    <3>3. Passed(n)
      BY <1>2, <3>1, <3>2 DEF Passed
    <3>4. n \in Accounted
      BY <2>4, <3>3 DEF Whole, NoGap, Accounted
    <3>5. n \in dropped => n \in unsaid'
      BY <1>3, <3>1 DEF Disconnect
    <3>6. unsaid \subseteq unsaid'
      BY <1>3 DEF Disconnect
    <3> QED
      BY <1>1, <3>4, <3>5, <3>6 DEF Accounted, Shown, Excused
  <2> QED
    BY <1>1, <2>2, <2>4 DEF Whole, NoGap, Accounted
<1>4. CASE phase = "none" /\ UNCHANGED <<phase, sending, from, unsaid>>
  <2>1. back' = <<>> /\ phase' = "none"
    BY <1>4 DEF Middle, Stages, sending
  <2>2. Ways'
    BY <2>1 DEF Ways, Streaming, Again
  <2>3. NoGap'
    BY <1>1, <1>4 DEF Whole, NoGap, Accounted, Passed, Shown, Excused, sending
  <2> QED
    BY <2>2, <2>3 DEF Whole
<1> QED
  BY <1>3, <1>4 DEF Cut, Crash

(***************************************************************************)
(* When the end of the run is sent, nothing waits any more: the streams    *)
(* were empty before the log was closed, and the connection has drained.   *)
(***************************************************************************)
LEMMA SendDoneWhole == ASSUME Inv, Basic, Middle, Whole, SendDone PROVE Whole'
<1>1. UNCHANGED <<seen, unsaid, outputs, floor, from, overtaken, last, back>>
      /\ told' = told \cup dropped /\ phase = "closing" /\ pending = <<>> /\ phase' = "none"
  BY DEF SendDone, said, marks
<1>2. back = <<>>
  BY <1>1 DEF Middle, Stages
<1>3. Ways'
  BY <1>1, <1>2 DEF Ways, Streaming, Again
<1>4. Waiting = {} /\ InBack = {}
  <2>1. \A s \in Streams : held[s] = <<>>
    BY <1>1 DEF Basic, Ends, RowEnded
  <2> QED
    BY <1>1, <1>2, <2>1 DEF Waiting, InBack
<1>5. Accounted \subseteq Accounted'
  BY <1>1 DEF Accounted, Shown, Excused
<1>6. ASSUME NEW n \in outputs, n >= floor PROVE n \in Accounted
  <2>1. n \in Nat /\ from \in Int
    BY DEF Inv, Typed, Basic, Numbered
  <2>2. CASE n >= from
    BY <1>1, <1>4, <1>6, <2>2 DEF Whole, Ways, Streaming
  <2>3. CASE ~(n >= from)
    BY <1>6, <2>1, <2>3 DEF Whole, NoGap, Passed, Accounted
  <2> QED
    BY <2>2, <2>3
<1>7. NoGap'
  BY <1>1, <1>5, <1>6 DEF NoGap, Accounted
<1> QED
  BY <1>3, <1>7 DEF Whole

LEMMA QuietWhole == ASSUME Inv, Basic, Middle, Whole, Quiet PROVE Whole'
<1>1. CASE SendDone
  BY <1>1, SendDoneWhole
<1>2. CASE Quiet /\ ~SendDone
  <2>1. UNCHANGED <<pending, held, back, last, anchor, floor, from, done, outputs, seen, unsaid,
                    overtaken>>
    BY <1>2 DEF Quiet, EndRow, Announce, Open, Subscribe, Recheck, Tell, CommitSent, LiveEnd,
       vars, files, said, reading, sending, client, marks
  <2>2. told \subseteq told' /\ dropped \subseteq dropped' \cup told'
    BY <1>2 DEF Middle, Stages, Quiet, EndRow, Announce, Open, Subscribe, Recheck, Tell, CommitSent,
       LiveEnd, vars, reading, sending, client
  <2>3. Accounted \subseteq Accounted'
    BY <2>1, <2>2 DEF Accounted, Shown, Excused
  <2>4. (Streaming' => Streaming) /\ (Again' => Again)
    BY <1>2 DEF Streaming, Again, Quiet, EndRow, Announce, Open, Subscribe, Recheck, Tell, CommitSent,
       LiveEnd, vars, reading, sending, client
  <2>5. Waiting' = Waiting /\ InBack' = InBack
    BY <2>1 DEF Waiting, InBack
  <2>6. Ways'
    BY <2>1, <2>3, <2>4, <2>5 DEF Whole, Ways
  <2>7. NoGap'
    BY <2>1, <2>3 DEF Whole, NoGap, Passed, Accounted
  <2> QED
    BY <2>6, <2>7 DEF Whole
<1> QED
  BY <1>1, <1>2

LEMMA LoadWhole == ASSUME Middle, Whole, Close \/ LoadSidecar PROVE Whole'
<1>1. UNCHANGED <<pending, back, anchor, last, dropped, client, held, outputs, marks>>
  BY DEF Close, LoadSidecar, said, sending
<1>2. (Streaming' <=> Streaming) /\ (Again' <=> Again)
  BY DEF Close, LoadSidecar, Streaming, Again
<1> QED
  BY <1>1, <1>2 DEF Whole, Ways, Accounted, Waiting, InBack, Shown, Excused, NoGap, Passed, client, marks

LEMMA WholeInductive ==
    ASSUME Inv, Inv', ~misled', Basic, Basic', Middle, Whole, [Next]_vars PROVE Whole'
BY Steps, MisledStays, WriterWhole, PublishWhole, LoadWhole, ReadWhole, SendWhole, LiveWhole,
   DisconnectWhole, QuietWhole

(***************************************************************************)
(* All layers together are an invariant, the upper ones for a client that  *)
(* was not misled.                                                         *)
(***************************************************************************)
Layers == misled \/ (Basic /\ Middle /\ Whole)

THEOREM LayersHold == Spec => [](Inv /\ Layers)
<1>1. Init => Inv /\ Layers
  BY InitInv, InitBasic, InitMiddle, InitWhole DEF Layers
<1>2. Inv /\ Layers /\ [Next]_vars => (Inv /\ Layers)'
  <2> SUFFICES ASSUME Inv, Layers, [Next]_vars PROVE Inv' /\ Layers'
    OBVIOUS
  <2>1. Inv'
    BY Inductive
  <2>2. ASSUME ~misled' PROVE Basic' /\ Middle' /\ Whole'
    <3>1. Basic /\ Middle /\ Whole
      BY <2>2, MisledStays DEF Layers
    <3> QED
      BY <2>1, <2>2, <3>1, BasicInductive, MiddleInductive, WholeInductive
  <2> QED
    BY <2>1, <2>2 DEF Layers
<1> QED
  BY <1>1, <1>2, PTL DEF Spec

(***************************************************************************)
(* Backfill, bounded live buffers, the notice of what was dropped, and the *)
(* resumption of a cut connection leave out no line the client goes past   *)
(* but one that was printed, that a notice tells of or would have if it    *)
(* had not been cut off, or that was overtaken by the other stream; for a  *)
(* client that was not misled.                                             *)
(***************************************************************************)
THEOREM GapsAreTold == Spec => []NoSilentGap
<1>1. Layers => NoSilentGap
  BY DEF Layers, Whole, NoGap, NoSilentGap, Lost, Accounted
<1> QED
  BY <1>1, LayersHold, PTL

-----------------------------------------------------------------------------
(***************************************************************************)
(* The types, also of a client that was misled, and the bounds: a segment  *)
(* may hold the notice of a rotation beside its line, a capture that stops *)
(* adds one more, and so does a log that is closed.                        *)
(***************************************************************************)
Extra == (IF stopped THEN 1 ELSE 0) + (IF run # "running" THEN 1 ELSE 0)

Sized ==
    /\ Len(log) <= SegmentLines + 1 + Extra
    /\ moving # None => run = "running" /\ log = <<>>
    /\ Len(pending) <= PendingLimit

Flags ==
    /\ run \in {"running", "closed", "ended", "announced"}
    /\ overflow \in Overflows
    /\ stopped \in BOOLEAN /\ moving \in Streams \cup {None}
    /\ missing \in BOOLEAN /\ stale \in BOOLEAN /\ matched \in BOOLEAN
    /\ talking \in [Streams -> BOOLEAN]
    /\ phase \in {"none", "opened", "subscribed", "indexed", "again", "reindexed", "sending",
                  "live", "emitted", "told", "closing"}
    /\ ended \in BOOLEAN /\ term \in BOOLEAN /\ done \in BOOLEAN
    /\ torn \in BOOLEAN /\ misled \in BOOLEAN
    /\ conns \in 0 .. MaxConns

Sets ==
    /\ prevStart <= rotated
    /\ dropped \subseteq Nat /\ reported \subseteq Nat /\ told \subseteq Nat
    /\ seen \subseteq Lines
    /\ outputs \subseteq Nat /\ floor \in Int
    /\ overtaken \subseteq outputs /\ unsaid \subseteq Nat

LEMMA InitTypes == Init => Sized /\ Flags /\ Sets
<1> SUFFICES ASSUME Init PROVE Sized /\ Flags /\ Sets
  OBVIOUS
<1>1. Sized
  BY LogStreamAssumption DEF Init, Sized, Extra
<1>2. Flags
  <2>1. talking \in [Streams -> BOOLEAN] /\ conns \in 0 .. MaxConns
    BY LogStreamAssumption DEF Init
  <2> QED
    BY <2>1 DEF Init, Flags
<1>3. Sets
  BY LogStreamAssumption DEF Init, Sets, Higher
<1> QED
  BY <1>1, <1>2, <1>3

LEMMA WriterSized == ASSUME Inv, Inv', Sized, NEW s \in Streams, Writer(s) PROVE Sized'
<1>1. pending' = pending /\ run' = run /\ SegmentLines \in Nat \ {0} /\ log \in Seq(Nat)
      /\ Len(log) \in Nat
  BY LogStreamAssumption
     DEF Writer, Write, StopCapture, Rotate, CreateSegment, SegmentFails, Rewrite, sending, Inv, Typed
<1>2. CASE Write(s)
  <2>1. Len(log') = Len(log) + 1 /\ Len(log) < SegmentLines /\ moving' = moving /\ stopped' = stopped
        /\ moving = None
    BY <1>1, <1>2 DEF Write, MayWrite, Full
  <2> QED
    BY <1>1, <2>1 DEF Sized, Extra
<1>3. CASE StopCapture(s)
  <2>1. Len(log') <= Len(log) + 1 /\ Len(log') \in Nat
    BY <1>1, <1>3 DEF StopCapture
  <2>2. moving' = None /\ stopped = FALSE /\ stopped' = TRUE
    BY <1>3 DEF StopCapture, MayWrite
  <2> QED
    BY <1>1, <2>1, <2>2 DEF Sized, Extra
<1>4. CASE Rotate(s)
  BY <1>1, <1>4 DEF Sized, Extra, Rotate, MayWrite
<1>5. CASE CreateSegment(s) \/ SegmentFails(s)
  <2>1. log = <<>>
    BY <1>5, LogStreamAssumption DEF Sized, CreateSegment, SegmentFails
  <2>2. log' = log /\ moving' \in {moving, None} /\ Len(log) = 0
    BY <1>5, <2>1 DEF CreateSegment, SegmentFails
  <2> QED
    BY <1>1, <2>2 DEF Sized, Extra
<1>6. CASE Rewrite(s)
  BY <1>1, <1>6 DEF Sized, Extra, Rewrite
<1> QED
  BY <1>2, <1>3, <1>4, <1>5, <1>6 DEF Writer

LEMMA PublishSized == ASSUME Inv, Inv', Sized, NEW s \in Streams, Publish(s) PROVE Sized'
<1>1. UNCHANGED <<log, moving, run, stopped>>
  BY DEF Publish, files
<1>2. Len(pending') <= PendingLimit
  <2>1. pending \in Seq(Nat) /\ PendingLimit \in Nat \ {0} /\ Head(held[s]) \in Nat
    <3>1. held[s] \in Seq(Nat) /\ 1 \in 1 .. Len(held[s]) /\ Head(held[s]) = held[s][1]
      BY PublishHeld
    <3>2. Head(held[s]) \in Nat
      BY <3>1
    <3> QED
      BY <3>2, LogStreamAssumption DEF Inv, Typed
  <2>2. pending' = pending \/ Buffer(Head(held[s]))
    BY DEF Publish
  <2>3. CASE pending' = pending
    BY <2>3 DEF Sized
  <2>4. CASE Buffer(Head(held[s])) /\ Len(pending) < PendingLimit
    <3>1. pending' = Append(pending, Head(held[s]))
      BY <2>4 DEF Buffer
    <3> QED
      BY <2>1, <2>4, <3>1
  <2>5. CASE Buffer(Head(held[s])) /\ ~(Len(pending) < PendingLimit)
    <3>1. pending' = Append(Tail(pending), Head(held[s]))
      BY <2>5 DEF Buffer
    <3>2. pending # <<>> /\ Tail(pending) \in Seq(Nat) /\ Len(Tail(pending)) = Len(pending) - 1
      BY <2>1, <2>5
    <3>3. Len(pending') = Len(pending)
      BY <2>1, <3>1, <3>2
    <3> QED
      BY <3>3 DEF Sized
  <2> QED
    BY <2>2, <2>3, <2>4, <2>5
<1> QED
  BY <1>1, <1>2 DEF Sized, Extra

LEMMA SizedInductive == ASSUME Inv, Inv', Sized, [Next]_vars PROVE Sized'
<1>0. SegmentLines \in Nat \ {0} /\ PendingLimit \in Nat \ {0} /\ log \in Seq(Nat) /\ Len(log) \in Nat
  BY LogStreamAssumption DEF Inv, Typed
<1>1. CASE Close
  <2>1. UNCHANGED <<pending, stopped, moving>> /\ moving = None /\ run = "running" /\ run' = "closed"
        /\ (log' = log \/ log' = Append(log, NextNumber))
    BY <1>1 DEF Close, sending
  <2>2. Len(log') <= Len(log) + 1 /\ Len(log') \in Nat
    BY <1>0, <2>1
  <2> QED
    BY <1>0, <2>1, <2>2 DEF Sized, Extra
<1>2. CASE Cut \/ Crash
  <2>1. /\ stopped' = stopped /\ (pending' = pending \/ pending' = <<>>)
        /\ \/ UNCHANGED <<run, moving, log>>
           \/ run' = "announced" /\ moving' = None /\ log' = log
           \/ run' = "announced" /\ moving' = None /\ log' = <<rotated>>
    BY <1>2 DEF Cut, Crash, Recorded, Unrecorded, Disconnect, files, sending
  <2>2. Len(pending') <= PendingLimit
    BY <1>0, <2>1 DEF Sized
  <2>3. Len(log') <= SegmentLines + 1 + Extra'
    <3>1. Extra \in Nat /\ Extra' \in Nat /\ Extra <= Extra'
      BY <2>1 DEF Extra
    <3>2. CASE log' = log
      BY <1>0, <3>1, <3>2 DEF Sized
    <3>3. CASE log' = <<rotated>>
      <4>1. Len(log') = 1
        BY <3>3
      <4>2. ASSUME NEW e \in Nat PROVE 1 <= SegmentLines + 1 + e
        BY <1>0
      <4> QED
        BY <3>1, <4>1, <4>2
    <3> QED
      BY <2>1, <3>2, <3>3
  <2>4. (moving # None => run = "running" /\ log = <<>>)'
    BY <2>1 DEF Sized
  <2> QED
    BY <2>2, <2>3, <2>4 DEF Sized
<1>3. CASE LiveLine \/ Drain
  <2>1. UNCHANGED <<log, moving, run, stopped>>
    BY <1>3 DEF LiveLine, Drain, files
  <2>2. Len(pending') <= PendingLimit
    BY <1>0, <1>3, LiveShift DEF Sized
  <2> QED
    BY <2>1, <2>2 DEF Sized, Extra
<1>4. CASE Quiet \/ LoadSidecar \/ ReadBackfill \/ ReadAgain \/ SendBackfill
  <2>1. UNCHANGED <<stopped, moving, log, pending>>
    BY <1>4 DEF Quiet, EndRow, Announce, Open, Subscribe, Recheck, Tell, CommitSent, LiveEnd, SendDone,
       LoadSidecar, ReadBackfill, ReadAgain, SendBackfill, vars, files, sending
  <2>2. run = "running" <=> run' = "running"
    BY <1>4 DEF Quiet, EndRow, Announce, Open, Subscribe, Recheck, Tell, CommitSent, LiveEnd, SendDone,
       LoadSidecar, ReadBackfill, ReadAgain, SendBackfill, vars
  <2> QED
    BY <2>1, <2>2 DEF Sized, Extra
<1> QED
  BY <1>1, <1>2, <1>3, <1>4, Steps, WriterSized, PublishSized

LEMMA FlagsInductive == ASSUME Flags, [Next]_vars PROVE Flags'
<1>1. ASSUME NEW s \in Streams, Writer(s) PROVE Flags'
  <2>1. UNCHANGED <<run, overflow, phase, misled, ended, term, done, conns>>
    BY <1>1 DEF Writer, Write, StopCapture, Rotate, CreateSegment, SegmentFails, Rewrite, reading,
       sending, client
  <2>2. stopped' \in BOOLEAN /\ missing' \in BOOLEAN /\ stale' \in BOOLEAN /\ torn' \in BOOLEAN
        /\ moving' \in Streams \cup {None}
    BY <1>1 DEF Flags, Writer, Write, StopCapture, Rotate, CreateSegment, SegmentFails, Rewrite,
       Recorded, Unrecorded, reading
  <2>3. matched' \in BOOLEAN /\ talking' \in [Streams -> BOOLEAN]
    BY <1>1 DEF Flags, Writer, Write, StopCapture, Rotate, CreateSegment, SegmentFails, Rewrite,
       Taken, Capture, Remarked, said
  <2> QED
    BY <2>1, <2>2, <2>3 DEF Flags
<1>2. ASSUME NEW s \in Streams, Publish(s) PROVE Flags'
  BY <1>2 DEF Flags, Publish, files, reading, client
<1>3. CASE Close \/ LoadSidecar
  <2>1. UNCHANGED <<overflow, stopped, moving, missing, stale, matched, talking, ended, term, done,
                    misled, conns>>
    BY <1>3 DEF Close, LoadSidecar, files, said, reading, sending, client
  <2>2. (run' = run \/ run' = "closed") /\ (torn' = torn \/ torn' = stale)
        /\ (phase' = phase \/ phase' = "indexed" \/ phase' = "reindexed")
    BY <1>3 DEF Close, LoadSidecar, reading
  <2>3. torn' \in BOOLEAN
    BY <2>2 DEF Flags
  <2> QED
    BY <2>1, <2>2, <2>3 DEF Flags
<1>4. CASE ReadBackfill \/ ReadAgain
  <2>1. UNCHANGED <<run, overflow, stopped, moving, missing, stale, matched, talking, ended, term,
                    done, conns>>
    BY <1>4 DEF ReadBackfill, ReadAgain, files, said, client
  <2>2. phase' = "again" \/ phase' = "sending"
    BY <1>4 DEF ReadBackfill, ReadAgain
  <2>3. torn' \in BOOLEAN /\ misled' \in BOOLEAN
    <3>1. torn' = FALSE /\ misled' = (misled \/ torn)
      BY <1>4 DEF ReadBackfill, ReadAgain, Misled
    <3> QED
      BY <3>1
  <2>4. /\ run' \in {"running", "closed", "ended", "announced"} /\ overflow' \in Overflows
        /\ stopped' \in BOOLEAN /\ moving' \in Streams \cup {None}
        /\ missing' \in BOOLEAN /\ stale' \in BOOLEAN /\ matched' \in BOOLEAN
        /\ talking' \in [Streams -> BOOLEAN]
    BY <2>1 DEF Flags
  <2>5. ended' \in BOOLEAN /\ term' \in BOOLEAN /\ done' \in BOOLEAN /\ conns' \in 0 .. MaxConns
    BY <2>1 DEF Flags
  <2> QED
    BY <2>2, <2>3, <2>4, <2>5 DEF Flags
<1>5. CASE SendBackfill \/ LiveLine \/ Drain
  BY <1>5 DEF Flags, SendBackfill, LiveLine, Drain, files, said, reading
<1>6. CASE Cut \/ Crash
  <2>1. UNCHANGED <<overflow, stopped, missing, matched, misled, done, conns>>
    BY <1>6 DEF Cut, Crash, files, said
  <2>2. stale' \in BOOLEAN /\ talking' \in [Streams -> BOOLEAN] /\ moving' \in Streams \cup {None}
        /\ run' \in {"running", "closed", "ended", "announced"}
    BY <1>6 DEF Flags, Cut, Crash, Recorded, Unrecorded, files, said
  <2>3. UNCHANGED <<phase, ended, term, torn>>
        \/ (phase' = "none" /\ ended' = FALSE /\ term' = FALSE /\ torn' = FALSE)
    BY <1>6 DEF Cut, Crash, Disconnect, sending
  <2>4. ended' \in BOOLEAN /\ term' \in BOOLEAN /\ torn' \in BOOLEAN
    BY <2>3 DEF Flags
  <2>5. phase' = phase \/ phase' = "none"
    BY <2>3
  <2> QED
    BY <2>1, <2>2, <2>4, <2>5 DEF Flags
<1>7. CASE Quiet
  <2>1. UNCHANGED <<files, said, reading>>
    BY <1>7 DEF Quiet, EndRow, Announce, Open, Subscribe, Recheck, Tell, CommitSent, LiveEnd, SendDone,
       vars
  <2>2. run' \in {"running", "closed", "ended", "announced"}
        /\ phase' \in {"none", "opened", "subscribed", "indexed", "again", "reindexed", "sending",
                       "live", "emitted", "told", "closing"}
    BY <1>7 DEF Flags, Quiet, EndRow, Announce, Open, Subscribe, Recheck, Tell, CommitSent, LiveEnd,
       SendDone, vars
  <2>3. ended' \in BOOLEAN /\ term' \in BOOLEAN /\ done' \in BOOLEAN
    <3>1. (ended' = ended \/ ended' = RowEnded) /\ (term' = term \/ term' = (term \/ Subscribed))
          /\ (done' = done \/ done' = TRUE)
      BY <1>7 DEF Quiet, EndRow, Announce, Open, Subscribe, Recheck, Tell, CommitSent, LiveEnd,
         SendDone, vars, sending, client
    <3>2. RowEnded \in BOOLEAN /\ (term \/ Subscribed) \in BOOLEAN
      BY DEF RowEnded
    <3> QED
      BY <3>1, <3>2 DEF Flags
  <2>4. conns' \in 0 .. MaxConns
    <3>1. conns' = conns \/ (conns < MaxConns /\ conns' = conns + 1)
      BY <1>7 DEF Quiet, EndRow, Announce, Open, Subscribe, Recheck, Tell, CommitSent, LiveEnd,
         SendDone, vars, client
    <3> QED
      BY <3>1, LogStreamAssumption DEF Flags
  <2> QED
    BY <2>1, <2>2, <2>3, <2>4 DEF Flags, files, said, reading
<1> QED
  BY <1>1, <1>2, <1>3, <1>4, <1>5, <1>6, <1>7, Steps

LEMMA SetsInductive == ASSUME Inv, Inv', Sets, [Next]_vars PROVE Sets'
<1>1. ASSUME NEW s \in Streams, Writer(s) PROVE Sets'
  <2>1. UNCHANGED <<dropped, reported, told, seen, floor, overtaken, unsaid>>
    BY <1>1 DEF Writer, Write, StopCapture, Rotate, CreateSegment, SegmentFails, Rewrite, sending,
       client, marks
  <2>2. prevStart' <= rotated'
    BY <1>1 DEF Writer, Write, StopCapture, Rotate, CreateSegment, SegmentFails, Rewrite, Sets, Inv, Typed
  <2>3. NextNumber \in Nat /\ rotated + 1 \in Nat
    BY NextTyped DEF Inv, Typed
  <2>4. outputs' = outputs \/ \E n \in {NextNumber, rotated + 1} : outputs' = outputs \cup {n}
    BY <1>1 DEF Writer, Write, StopCapture, Rotate, CreateSegment, SegmentFails, Rewrite, Taken,
       Capture, Remarked, said
  <2> QED
    BY <2>1, <2>2, <2>3, <2>4 DEF Sets
<1>2. ASSUME NEW s \in Streams, Publish(s) PROVE Sets'
  <2>1. UNCHANGED <<prevStart, rotated, reported, told, seen, outputs, floor, unsaid>>
    BY <1>2 DEF Publish, files, client
  <2>2. dropped' \subseteq Nat
    <3>1. dropped' = dropped \/ (Len(pending) > 0 /\ dropped' = dropped \cup {pending[1]})
      BY <1>2, PublishPending
    <3>2. pending \in Seq(Nat)
      BY DEF Inv, Typed
    <3>3. Len(pending) > 0 => pending[1] \in Nat
      BY <3>2
    <3> QED
      BY <3>1, <3>3 DEF Sets
  <2>3. overtaken' \subseteq outputs
    BY <1>2 DEF Publish, Sets
  <2> QED
    BY <2>1, <2>2, <2>3 DEF Sets
<1>3. CASE Close \/ LoadSidecar
  BY <1>3 DEF Sets, Close, LoadSidecar, files, said, sending, client, marks
<1>4. CASE ReadBackfill \/ ReadAgain
  <2>1. UNCHANGED <<prevStart, rotated, dropped, reported, told, seen, outputs, overtaken, unsaid>>
    BY <1>4 DEF ReadBackfill, ReadAgain, files, said, client
  <2>2. floor' \in Int
    <3>1. FirstAvailable \in Nat /\ TotalLines \in Nat /\ from \in Int /\ Replay \in Nat
      BY AvailableTyped, LogStreamAssumption DEF Inv, Typed
    <3> QED
      BY <1>4, <3>1 DEF ReadBackfill, ReadAgain, Entitled, Higher, Sets
  <2> QED
    BY <2>1, <2>2 DEF Sets
<1>5. CASE SendBackfill \/ LiveLine \/ Drain
  <2>1. UNCHANGED <<prevStart, rotated, dropped, reported, told, outputs, floor, overtaken, unsaid>>
    BY <1>5 DEF SendBackfill, LiveLine, Drain, files, said, marks
  <2>2. seen' \subseteq Lines
    <3>1. CASE SendBackfill
      <4>1. back \in Seq(Lines) /\ back # <<>>
        BY <3>1 DEF Inv, Typed, SendBackfill
      <4>2. Head(back) \in Lines
        BY <4>1
      <4> QED
        BY <3>1, <4>2 DEF SendBackfill, Emit, Sets
    <3>2. CASE LiveLine \/ Drain
      <4>1. Live(Head(pending)) \in Lines
        BY <3>2, LiveShift DEF Live, Lines
      <4> QED
        BY <3>2, <4>1 DEF LiveLine, Drain, Emit, Sets
    <3> QED
      BY <1>5, <3>1, <3>2
  <2> QED
    BY <2>1, <2>2 DEF Sets
<1>6. CASE Cut \/ Crash
  BY <1>6 DEF Sets, Cut, Crash, Disconnect, files, said, sending
<1>7. CASE Quiet
  <2>1. UNCHANGED <<files, said, seen, unsaid, floor, overtaken>>
        /\ dropped' \subseteq dropped /\ reported' \subseteq dropped \cup reported
        /\ told' \subseteq told \cup dropped
    BY <1>7 DEF Quiet, EndRow, Announce, Open, Subscribe, Recheck, Tell, CommitSent, LiveEnd, SendDone,
       vars, sending, client, marks
  <2> QED
    BY <2>1 DEF Sets, files, said
<1> QED
  BY <1>1, <1>2, <1>3, <1>4, <1>5, <1>6, <1>7, Steps

(***************************************************************************)
(* The variables keep their types and bounds, in the middle of a rotation  *)
(* and of a crash too: a connection's buffer its limit, and a segment its  *)
(* size and the notices on top of it.                                      *)
(***************************************************************************)
THEOREM TypeCorrect == Spec => []TypeOK
<1>1. Init => Inv /\ Sized /\ Flags /\ Sets
  BY InitInv, InitTypes
<1>2. Inv /\ Sized /\ Flags /\ Sets /\ [Next]_vars => (Inv /\ Sized /\ Flags /\ Sets)'
  BY Inductive, SizedInductive, FlagsInductive, SetsInductive
<1>3. Inv /\ Sized /\ Flags /\ Sets => TypeOK
  <2> SUFFICES ASSUME Inv, Sized, Flags, Sets PROVE TypeOK
    OBVIOUS
  <2>1. Len(log) <= SegmentLines + 3
    <3>1. log \in Seq(Nat) /\ SegmentLines \in Nat /\ Extra \in 0 .. 2
      BY LogStreamAssumption DEF Inv, Typed, Extra
    <3> QED
      BY <3>1 DEF Sized
  <2> QED
    BY <2>1 DEF TypeOK, Inv, Typed, Sized, Flags, Sets
<1> QED
  BY <1>1, <1>2, <1>3, PTL DEF Spec

-----------------------------------------------------------------------------
(***************************************************************************)
(* No wakeup is lost between the handler's look at the run, the            *)
(* subscription and the event: the safety half of EventuallyDone.          *)
(***************************************************************************)
\* Whoever gets as far as the live loop is signalled the end.
Told == phase \in {"live", "emitted", "told"} /\ run = "announced" => term
Alerted == Flags /\ Told

\* Where the client or the handler of its connection is not held up by anybody.
ClientMay == phase = "none" /\ ~done /\ conns < MaxConns
StreamerMay == phase \notin {"none", "live"} \/ (phase = "live" /\ (pending # <<>> \/ term))

\* After the terminal event a client has its Done, has given up, or can go on.
EndIsSeen == run = "announced" => done \/ (phase = "none" /\ conns = MaxConns) \/ ClientMay \/ StreamerMay

LEMMA ToldStep == ASSUME Alerted, [Next]_vars PROVE Told'
<1>1. ASSUME NEW s \in Streams, Writer(s) \/ Publish(s) PROVE Told'
  BY <1>1 DEF Alerted, Told, Writer, Write, StopCapture, Rotate, CreateSegment, SegmentFails, Rewrite,
     Publish, sending
<1>2. CASE Close
  BY <1>2 DEF Told, Close
<1>3. CASE LoadSidecar \/ ReadBackfill \/ ReadAgain \/ SendBackfill
  BY <1>3 DEF Alerted, Told, LoadSidecar, ReadBackfill, ReadAgain, SendBackfill
<1>4. CASE LiveLine \/ Drain
  BY <1>4 DEF Alerted, Told, LiveLine, Drain
<1>5. CASE Cut \/ Crash
  BY <1>5 DEF Alerted, Told, Cut, Crash, Disconnect
<1>6. CASE EndRow \/ Announce \/ Open \/ Subscribe \/ Tell \/ CommitSent
  BY <1>6 DEF Alerted, Told, Subscribed, EndRow, Announce, Open, Subscribe, Tell, CommitSent, sending
<1>7. CASE Recheck \/ LiveEnd \/ SendDone \/ UNCHANGED vars
  BY <1>7 DEF Alerted, Told, Recheck, Terminal, RowEnded, LiveEnd, SendDone, vars, sending
<1> QED
  BY <1>1, <1>2, <1>3, <1>4, <1>5, <1>6, <1>7, Steps DEF Quiet

(***************************************************************************)
(* Once the end of a run is announced, a client that follows it is never   *)
(* left waiting: Recheck sees a row that ended before the subscription,    *)
(* terminalCh an event after it, in whatever order row, event, connection  *)
(* and backfill come.                                                      *)
(***************************************************************************)
THEOREM EndNeverMissed == Spec => []EndIsSeen
<1>1. Init => Alerted
  BY InitTypes DEF Init, Alerted, Told
<1>2. Alerted => EndIsSeen
  BY LogStreamAssumption DEF Alerted, Told, Flags, EndIsSeen, ClientMay, StreamerMay
<1>3. Alerted /\ [Next]_vars => Alerted'
  BY ToldStep, FlagsInductive DEF Alerted
<1> QED
  BY <1>1, <1>2, <1>3, PTL DEF Spec

=============================================================================
