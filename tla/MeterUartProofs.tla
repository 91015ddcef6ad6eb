---------------------------- MODULE MeterUartProofs ----------------------------
(***************************************************************************)
(* What MeterUart keeps, for any sizes of the ring and the line buffer,    *)
(* any lengths of frames and any number of them.                           *)
(*                                                                         *)
(* The bytes in flight are a chain: the last byte of the line, the ring    *)
(* buffer, the byte the meter sends next.  Each link that is broken will   *)
(* mangle at most the line it ends up in, and nothing breaks a link but a  *)
(* dropped byte, a line buffer that was full, and a late start.            *)
(***************************************************************************)
EXTENDS MeterUart, FiniteSetTheorems, SequenceTheorems, TLAPS

Bytes   == Nat \X Nat \X Nat
Parsing == work \in {"line", "first", "second"}

\* The byte the meter sends after byte a, or may send after an end of line.
Follows(a, b) ==
    IF a = EndOfLine THEN b[2] = 1 /\ b[3] >= 1
    ELSE IF a[2] < a[3] THEN b = <<a[1], a[2] + 1, a[3]>>
    ELSE b = EndOfLine

\* Link i of the chain leads to byte i of the ring, the last one to the byte
\* that is still to come.
From(i) == IF i # 1 THEN ring[i - 1]
           ELSE IF line = <<>> \/ Parsing THEN EndOfLine ELSE line[Len(line)]
To(i)   == IF i = Len(ring) + 1 THEN NextByte ELSE ring[i]
Breaks  == {i \in 1..(Len(ring) + 1) : ~Follows(From(i), To(i))}

\* A line that is how a frame begins.
Begins(s) == \E k, n \in Nat : Len(s) <= n /\ s = [i \in 1..Len(s) |-> <<k, i, n>>]
Bad       == IF Parsing THEN ~IsFrame(line) ELSE ~Begins(line)

Broken == Cardinality(Breaks) + (IF Bad THEN 1 ELSE 0)

Accounted == mangled + Broken <= dropped + oversized + Late

\* Frames the meter has sent to their end that are not parsed yet: their ends
\* of line are in the ring, or their line is with the parser.
Ends     == {i \in 1..Len(ring) : ring[i] = EndOfLine}
InFlight == Cardinality(Ends) + (IF Parsing THEN 1 ELSE 0)

\* Frames the parser was done with.
Seen == frames + refused

\* Every frame sent is parsed, refused or in flight, but for what broken links, lost
\* bytes and its length cost.
Arriving ==
    (sent - 1) + Broken <= Seen + InFlight + (dropped + dropped) + oversized + Late

\* Whatever is in the ring has a work item to take it out.
Woken == ring # <<>> /\ work \in {"idle", "return"} => submitted

\* The safe part of FramesArrive: with nothing left to run, nothing is missing.
Drained ==
    work = "idle" /\ ~submitted =>
        sent - 1 <= frames + refused + 2 * dropped + oversized + Late

\* The mutex, and the line that is parsed under it.
Locked ==
    /\ lock = "main" <=> reader # "idle"
    /\ lock = "work" <=> work \in {"first", "second"}
    /\ Parsing => line # <<>>

\* What the mutex protects: outside of a parse the readings are as the last
\* one left them, and so is the half of a copy that was made.
Whole ==
    /\ lock # "work" => latest = whole
    /\ reader = "second" => out = whole["va"]

Shape == TypeOK /\ Locked
IInv  == Shape /\ Whole /\ SnapshotIsWhole /\ Accounted
-----------------------------------------------------------------------------
(***************************************************************************)
(* Types and the mutex.                                                    *)
(***************************************************************************)
LEMMA NextByteIsTyped == TypeOK => NextByte \in Bytes
  BY MeterAssumption DEF TypeOK, NextByte, Bytes, EndOfLine

LEMMA ShapeInit == Init => Shape
  <1> SUFFICES ASSUME Init PROVE Shape OBVIOUS
  <1>1. TypeOK
    <2>1. size \in Nat \ {0} BY MeterAssumption DEF Init
    <2>2. pos \in 1..(size + 1) /\ 1 \in 1..(MaxFrames + 1)
      BY <2>1, MeterAssumption DEF Init
    <2>3. latest \in [{"va", "ia"} -> Nat] /\ whole \in [{"va", "ia"} -> Nat] BY DEF Init
    <2>4. late \in BOOLEAN /\ size \in Lengths BY DEF Init
    <2>5. ring = <<>> /\ line = <<>> /\ 0 <= RingSize /\ 0 <= LineSize
      BY MeterAssumption DEF Init
    <2>6. sent \in 1..(MaxFrames + 1) BY <2>2 DEF Init
    <2>7. ring \in Seq(Nat \X Nat \X Nat) /\ Len(ring) = 0 BY <2>5
    <2>8. line \in Seq(Nat \X Nat \X Nat) /\ Len(line) = 0 BY <2>5
    <2>9. /\ submitted \in BOOLEAN /\ mixed \in BOOLEAN
          /\ work = "idle" /\ frames = 0 /\ lock = "free" /\ reader = "idle" /\ out = 0
          /\ dropped = 0 /\ oversized = 0 /\ mangled = 0 /\ refused = 0
      BY DEF Init
    <2> QED BY <2>2, <2>3, <2>4, <2>5, <2>6, <2>7, <2>8, <2>9 DEF TypeOK
  <1>2. Locked BY DEF Init, Locked, Parsing
  <1> QED BY <1>1, <1>2 DEF Shape

LEMMA TypeReceive == TypeOK /\ UartIsr => TypeOK'
  <1> SUFFICES ASSUME TypeOK, UartIsr PROVE TypeOK' OBVIOUS
  <1> USE DEF UartIsr, Receive
  <1>1. size \in Nat \ {0} /\ sent \in Nat /\ pos \in Nat BY MeterAssumption DEF TypeOK
  <1>2. sent' \in 1..(MaxFrames + 1) /\ size' \in Lengths /\ pos' \in 1..(size' + 1)
    <2>1. CASE pos > size
      <3>1. size' \in Nat \ {0} BY <2>1, MeterAssumption
      <3>2. sent' \in 1..(MaxFrames + 1) BY <1>1, <2>1, MeterAssumption
      <3>3. pos' = 1 /\ size' \in Lengths BY <2>1
      <3>4. \A n \in Nat \ {0} : 1 \in 1..(n + 1) OBVIOUS
      <3>5. pos' \in 1..(size' + 1) BY <3>1, <3>3, <3>4
      <3> QED BY <3>2, <3>3, <3>5
    <2>2. CASE ~(pos > size)
      <3>1. pos' = pos + 1 /\ sent' = sent /\ size' = size BY <2>2
      <3>2. pos <= size BY <1>1, <2>2
      <3>3. pos \in 1..(size + 1) /\ sent \in 1..(MaxFrames + 1) /\ size \in Lengths BY DEF TypeOK
      <3>4. pos + 1 \in 1..(size + 1) BY <1>1, <3>2, <3>3
      <3> QED BY <3>1, <3>3, <3>4
    <2> QED BY <2>1, <2>2
  <1>3. ring' \in Seq(Bytes) /\ Len(ring') <= RingSize /\ dropped' \in Nat
    <2>1. ring \in Seq(Bytes) BY DEF TypeOK, Bytes
    <2>2. CASE Len(ring) < RingSize
      <3>1. ring' = Append(ring, NextByte) /\ dropped' = dropped BY <2>2
      <3>2. ring' \in Seq(Bytes) /\ Len(ring') = Len(ring) + 1
        BY <2>1, <3>1, NextByteIsTyped
      <3> QED BY <2>1, <2>2, <3>1, <3>2, MeterAssumption DEF TypeOK
    <2>3. CASE ~(Len(ring) < RingSize) BY <2>1, <2>3 DEF TypeOK
    <2> QED BY <2>2, <2>3
  <1> QED BY <1>2, <1>3 DEF TypeOK, Bytes, workVars, readVars

LEMMA TypeWork ==
    ASSUME Shape, WorkStart \/ WorkByte \/ WorkEnd \/ ParseRejects \/ ParseLock
    PROVE  TypeOK'
  <1> USE DEF Shape
  <1>1. CASE WorkStart BY <1>1 DEF WorkStart, TypeOK, meterVars, readVars
  <1>2. CASE WorkByte
    <2>1. ring \in Seq(Bytes) /\ line \in Seq(Bytes) /\ ring # <<>> BY <1>2 DEF WorkByte, TypeOK, Bytes
    <2>2. ring' \in Seq(Bytes) /\ Len(ring') <= RingSize
      <3>1. ring' = Tail(ring) BY <1>2 DEF WorkByte
      <3>2. Tail(ring) \in Seq(Bytes) /\ Len(Tail(ring)) = Len(ring) - 1 /\ Len(ring) \in Nat
        BY <2>1, HeadTailProperties
      <3> QED BY <3>1, <3>2, MeterAssumption DEF TypeOK
    <2>3. Head(ring) \in Bytes BY <2>1
    <2>4. line' \in Seq(Bytes) /\ Len(line') <= LineSize /\ oversized' \in Nat
      <3>1. CASE line' = Append(line, Head(ring)) /\ Len(line) < LineSize /\ oversized' = oversized
        <4>1. line' \in Seq(Bytes) /\ Len(line') = Len(line) + 1 /\ Len(line) \in Nat
          BY <2>1, <2>3, <3>1
        <4> QED BY <3>1, <4>1, MeterAssumption DEF TypeOK
      <3>2. CASE line' = <<>> /\ oversized' = oversized + 1
        BY <3>2, MeterAssumption DEF TypeOK
      <3>3. CASE line' = line /\ oversized' = oversized BY <2>1, <3>3 DEF TypeOK
      <3> QED BY <1>2, <3>1, <3>2, <3>3 DEF WorkByte
    <2>5. work' \in {"idle", "bytes", "return", "line", "first", "second"}
      BY <1>2 DEF WorkByte, TypeOK
    <2> QED BY <1>2, <2>2, <2>4, <2>5 DEF WorkByte, TypeOK, Bytes, meterVars, readVars
  <1>3. CASE WorkEnd BY <1>3 DEF WorkEnd, TypeOK, meterVars, readVars
  <1>4. CASE ParseRejects
    <2>1. mangled' \in Nat /\ line' \in Seq(Bytes) /\ Len(line') <= LineSize
      BY <1>4, MeterAssumption DEF ParseRejects, LineDone, TypeOK
    <2> QED BY <1>4, <2>1 DEF ParseRejects, LineDone, TypeOK, Bytes, meterVars, readVars
  <1>5. CASE ParseLock BY <1>5 DEF ParseLock, TypeOK, meterVars, readVars
  <1> QED BY <1>1, <1>2, <1>3, <1>4, <1>5

LEMMA ReadingIsTyped ==
    ASSUME TypeOK, NEW f \in {"va", "ia"}, Reading(f)
    PROVE  latest' \in [{"va", "ia"} -> Nat]
  <1>1. \A i \in DOMAIN line : line[i][1] \in Nat
    <2>1. line \in Seq(Bytes) BY DEF TypeOK, Bytes
    <2>2. \A i \in DOMAIN line : line[i] \in Bytes BY <2>1
    <2> QED BY <2>2 DEF Bytes
  <1> QED BY <1>1 DEF Reading, TypeOK

LEMMA TypeParse == Shape /\ (ParseFirst \/ ParseSecond) => TypeOK'
  <1> SUFFICES ASSUME TypeOK, ParseFirst \/ ParseSecond PROVE TypeOK' BY DEF Shape
  <1>1. latest' \in [{"va", "ia"} -> Nat] BY ReadingIsTyped DEF ParseFirst, ParseSecond
  <1>2. CASE ParseFirst BY <1>1, <1>2 DEF ParseFirst, TypeOK, meterVars, readVars
  <1>3. CASE ParseSecond
    <2>1. mangled' \in Nat /\ line' \in Seq(Bytes) /\ Len(line') <= LineSize /\ frames' \in Nat
      BY <1>3, MeterAssumption DEF ParseSecond, LineDone, TypeOK
    <2> QED BY <1>1, <1>3, <2>1 DEF ParseSecond, LineDone, TypeOK, Bytes, meterVars, readVars
  <1> QED BY <1>2, <1>3

LEMMA TypeGet == TypeOK /\ (GetLock \/ Get) => TypeOK'
  <1> SUFFICES ASSUME TypeOK, GetLock \/ Get PROVE TypeOK' OBVIOUS
  <1>1. CASE GetLock BY <1>1 DEF GetLock, TypeOK, meterVars, workVars
  <1>2. CASE GetFirst BY <1>2 DEF GetFirst, TypeOK, meterVars, workVars
  <1>3. CASE GetSecond BY <1>3 DEF GetSecond, TypeOK, meterVars, workVars
  <1> QED BY <1>1, <1>2, <1>3 DEF Get

\* The mutex has one owner, and what is parsed is a line.
LEMMA LockedStep == Shape /\ [Next]_vars => Locked'
  <1> SUFFICES ASSUME TypeOK, Locked, [Next]_vars PROVE Locked' BY DEF Shape
  <1> USE DEF Locked, Parsing
  <1>1. CASE UartIsr BY <1>1 DEF UartIsr, Receive, workVars, readVars
  <1>2. CASE WorkStart BY <1>2 DEF WorkStart, readVars
  <1>3. CASE WorkByte BY <1>3 DEF WorkByte, readVars
  <1>4. CASE WorkEnd BY <1>4 DEF WorkEnd, readVars
  <1>5. CASE ParseRejects BY <1>5 DEF ParseRejects, LineDone, readVars
  <1>6. CASE ParseLock BY <1>6 DEF ParseLock, readVars
  <1>7. CASE ParseFirst BY <1>7 DEF ParseFirst, readVars
  <1>8. CASE ParseSecond BY <1>8 DEF ParseSecond, LineDone, readVars
  <1>9. CASE GetLock BY <1>9 DEF GetLock, workVars
  <1>10. CASE Get BY <1>10 DEF Get, GetFirst, GetSecond, workVars, TypeOK
  <1>11. CASE UNCHANGED vars BY <1>11 DEF vars, workVars, readVars
  <1> QED BY <1>1, <1>2, <1>3, <1>4, <1>5, <1>6, <1>7, <1>8, <1>9, <1>10, <1>11 DEF Next, Work

LEMMA ShapeNext == Shape /\ [Next]_vars => Shape'
  <1> SUFFICES ASSUME Shape, [Next]_vars PROVE TypeOK' BY LockedStep DEF Shape
  <1>1. CASE UNCHANGED vars BY <1>1 DEF Shape, TypeOK, vars, meterVars, workVars, readVars
  <1> QED BY <1>1, TypeReceive, TypeWork, TypeParse, TypeGet DEF Next, Work, Shape
-----------------------------------------------------------------------------
(***************************************************************************)
(* The snapshot.                                                           *)
(***************************************************************************)

LEMMA WholeStep ==
    ASSUME Shape, Whole, SnapshotIsWhole, [Next]_vars
    PROVE  Whole' /\ SnapshotIsWhole'
  <1> USE DEF Shape, Locked, Whole, SnapshotIsWhole
  <1>1. CASE UartIsr BY <1>1 DEF UartIsr, Receive, workVars, readVars
  <1>2. CASE WorkStart \/ WorkByte \/ WorkEnd \/ ParseRejects \/ ParseLock
    BY <1>2 DEF WorkStart, WorkByte, WorkEnd, ParseRejects, LineDone, ParseLock, readVars
  <1>3. CASE ParseFirst BY <1>3 DEF ParseFirst, readVars
  <1>4. CASE ParseSecond
    <2>1. lock = "work" /\ reader = "idle" BY <1>4 DEF ParseSecond
    <2> QED BY <1>4, <2>1 DEF ParseSecond, readVars
  <1>5. CASE GetLock BY <1>5 DEF GetLock, workVars
  <1>6. CASE GetFirst
    <2>1. latest = whole BY <1>6 DEF GetFirst
    <2> QED BY <1>6, <2>1 DEF GetFirst, workVars
  <1>7. CASE GetSecond
    <2>1. latest = whole /\ out = whole["va"] BY <1>7 DEF GetSecond
    <2>2. ~mixed'
      <3>1. mixed' = (mixed \/ FALSE \/ FALSE) BY <1>7, <2>1 DEF GetSecond
      <3> QED BY <3>1
    <2> QED BY <1>7, <2>1, <2>2 DEF GetSecond, workVars
  <1>8. CASE UNCHANGED vars BY <1>8 DEF vars, workVars, readVars
  <1> QED BY <1>1, <1>2, <1>3, <1>4, <1>5, <1>6, <1>7, <1>8 DEF Next, Work, Get
-----------------------------------------------------------------------------
(***************************************************************************)
(* Counting broken links.                                                  *)
(***************************************************************************)
LEMMA AtMostOneMore ==
    ASSUME NEW S, IsFiniteSet(S), NEW x, NEW T, T \subseteq S \cup {x}
    PROVE  IsFiniteSet(T) /\ Cardinality(T) <= Cardinality(S) + 1
  <1>1. /\ IsFiniteSet(S \cup {x}) /\ Cardinality(S) \in Nat
        /\ Cardinality(S \cup {x}) = IF x \in S THEN Cardinality(S) ELSE Cardinality(S) + 1
    BY FS_AddElement, FS_CardinalityType
  <1>2. IsFiniteSet(T) /\ Cardinality(T) <= Cardinality(S \cup {x}) BY <1>1, FS_Subset
  <1>3. Cardinality(S) \in Nat /\ Cardinality(T) \in Nat /\ Cardinality(S \cup {x}) \in Nat
    BY <1>1, <1>2, FS_CardinalityType
  <1> QED BY <1>1, <1>2, <1>3

\* The links move one place forward, and the first of them is gone.
LEMMA Shifted ==
    ASSUME NEW S, IsFiniteSet(S), NEW T \in SUBSET (Nat \ {0}), \A i \in T : i + 1 \in S
    PROVE  /\ IsFiniteSet(T)
           /\ Cardinality(T) <= Cardinality(S \ {1})
           /\ Cardinality(T) + (IF 1 \in S THEN 1 ELSE 0) <= Cardinality(S)
  <1> DEFINE f == [i \in T |-> i + 1]
  <1>1. IsFiniteSet(S \ {1}) /\ Cardinality(S \ {1}) = IF 1 \in S THEN Cardinality(S) - 1 ELSE Cardinality(S)
    BY FS_RemoveElement
  <1>2. f \in Injection(T, S \ {1})
    <2>1. \A i \in T : i + 1 \in S \ {1} OBVIOUS
    <2>2. f \in [T -> S \ {1}] BY <2>1
    <2>3. \A a, b \in T : f[a] = f[b] => a = b OBVIOUS
    <2> QED BY <2>2, <2>3 DEF Injection, IsInjective
  <1>3. IsFiniteSet(T) /\ Cardinality(T) <= Cardinality(S \ {1}) BY <1>1, <1>2, FS_Injection
  <1>4. Cardinality(S) \in Nat /\ Cardinality(T) \in Nat BY <1>3, FS_CardinalityType
  <1> QED BY <1>1, <1>3, <1>4

LEMMA PlacesAreFinite ==
    ASSUME NEW n \in Nat, NEW S \in SUBSET (1..n)
    PROVE  IsFiniteSet(S) /\ Cardinality(S) \in Nat
  <1>1. IsFiniteSet(1..n) BY FS_Interval
  <1> QED BY <1>1, FS_Subset, FS_CardinalityType

LEMMA BreaksAreFinite ==
    ASSUME TypeOK
    PROVE  Breaks \subseteq Nat \ {0} /\ IsFiniteSet(Breaks) /\ Cardinality(Breaks) \in Nat
  <1>1. Len(ring) + 1 \in Nat
    <2>1. ring \in Seq(Bytes) BY DEF TypeOK, Bytes
    <2> QED BY <2>1
  <1>2. IsFiniteSet(1..(Len(ring) + 1)) BY <1>1, FS_Interval
  <1>3. Breaks \subseteq 1..(Len(ring) + 1) BY DEF Breaks
  <1>4. IsFiniteSet(Breaks) BY <1>2, <1>3, FS_Subset
  <1> QED BY <1>1, <1>3, <1>4, FS_CardinalityType

\* The meter sends whole frames: a byte it sends follows the one before.
LEMMA MeterFollows ==
    ASSUME TypeOK, Receive
    PROVE  Follows(NextByte, NextByte')
  <1>1. size \in Nat \ {0} /\ pos \in Nat \ {0} /\ sent \in Nat \ {0}
    BY MeterAssumption DEF TypeOK
  <1>2. CASE pos > size
    <2>1. pos' = 1 /\ size' \in Nat \ {0} BY <1>2, MeterAssumption DEF Receive
    <2>2. NextByte' = <<sent', 1, size'>> BY <2>1 DEF NextByte
    <2>3. NextByte = EndOfLine BY <1>2 DEF NextByte
    <2>4. NextByte'[2] = 1 /\ NextByte'[3] >= 1 BY <2>1, <2>2
    <2> QED BY <2>3, <2>4 DEF Follows
  <1>3. CASE ~(pos > size)
    <2>1. pos' = pos + 1 /\ sent' = sent /\ size' = size BY <1>3 DEF Receive
    <2>2. NextByte = <<sent, pos, size>> /\ NextByte # EndOfLine
      BY <1>1, <1>3 DEF NextByte, EndOfLine
    <2>3. pos < size => NextByte' = <<sent, pos + 1, size>> BY <1>1, <2>1 DEF NextByte
    <2>4. ~(pos < size) => NextByte' = EndOfLine BY <1>1, <2>1 DEF NextByte
    <2> QED BY <1>1, <2>2, <2>3, <2>4 DEF Follows
  <1> QED BY <1>2, <1>3

LEMMA RingIsTyped ==
    ASSUME TypeOK
    PROVE  /\ ring \in Seq(Bytes) /\ line \in Seq(Bytes)
           /\ Len(ring) \in Nat /\ Len(line) \in Nat
           /\ Broken \in Nat /\ dropped \in Nat /\ oversized \in Nat /\ mangled \in Nat
           /\ Late \in {0, 1}
  <1>1. ring \in Seq(Bytes) /\ line \in Seq(Bytes) BY DEF TypeOK, Bytes
  <1>2. Len(ring) \in Nat /\ Len(line) \in Nat BY <1>1
  <1>3. Broken \in Nat BY BreaksAreFinite DEF Broken
  <1> QED BY <1>1, <1>2, <1>3 DEF TypeOK, Late

\* A byte that is received breaks no link; one that is dropped breaks the last.
LEMMA ReceiveBreaks ==
    ASSUME Shape, UartIsr
    PROVE  Broken' + dropped <= Broken + dropped'
  <1>1. TypeOK /\ TypeOK' BY TypeReceive DEF Shape
  <1> DEFINE end == Len(ring) + 1
  <1>2. end \in Nat /\ ring \in Seq(Bytes) BY <1>1, RingIsTyped
  <1>3. line' = line /\ work' = work BY DEF UartIsr, Receive, workVars
  <1>4. Bad' = Bad BY <1>3 DEF Bad, Parsing, Begins
  <1>5. IsFiniteSet(Breaks) /\ Cardinality(Breaks) \in Nat BY <1>1, BreaksAreFinite
  <1>6. CASE ring' = Append(ring, NextByte) /\ dropped' = dropped
    <2>1. Len(ring') = end /\ \A i \in 1..Len(ring) : ring'[i] = ring[i]
      BY <1>2, <1>6
    <2>2. ring'[end] = NextByte BY <1>2, <1>6
    <2>3. ASSUME NEW i \in Breaks' PROVE i \in Breaks
      <3>1. i \in 1..(end + 1) /\ ~Follows(From(i)', To(i)') BY <2>1, <2>3 DEF Breaks
      <3>2. ASSUME i = end + 1 PROVE FALSE
        <4>1. i # 1 /\ i - 1 = end /\ i = Len(ring') + 1 BY <1>2, <2>1, <3>2
        <4>2. From(i)' = NextByte /\ To(i)' = NextByte' BY <2>2, <4>1 DEF From, To
        <4> QED BY <1>1, <3>1, <4>2, MeterFollows DEF UartIsr
      <3>3. i \in 1..(end + 1) /\ i # end + 1 BY <3>1, <3>2
      <3>4. i \in 1..end BY <1>2, <3>3
      <3>5. From(i)' = From(i) BY <1>2, <1>3, <2>1, <3>4 DEF From, Parsing
      <3>6. To(i)' = To(i) BY <1>2, <2>1, <2>2, <3>4 DEF To
      <3> QED BY <3>1, <3>4, <3>5, <3>6 DEF Breaks
    <2>4. Cardinality(Breaks') <= Cardinality(Breaks) /\ Cardinality(Breaks') \in Nat
      BY <1>5, <2>3, FS_Subset, FS_CardinalityType
    <2> QED BY <1>1, <1>4, <1>5, <1>6, <2>4, RingIsTyped DEF Broken
  <1>7. CASE dropped' = dropped + 1 /\ ring' = ring
    <2>1. ASSUME NEW i \in Breaks', i # end PROVE i \in Breaks
      <3>1. i \in 1..end /\ ~Follows(From(i)', To(i)') BY <1>7, <2>1 DEF Breaks
      <3>2. From(i)' = From(i) BY <1>3, <1>7 DEF From, Parsing
      <3>3. To(i)' = To(i) BY <1>7, <2>1 DEF To
      <3> QED BY <3>1, <3>2, <3>3 DEF Breaks
    <2>2. Cardinality(Breaks') <= Cardinality(Breaks) + 1 /\ Cardinality(Breaks') \in Nat
      BY <1>5, <2>1, AtMostOneMore, FS_CardinalityType
    <2> QED BY <1>1, <1>4, <1>5, <1>7, <2>2, RingIsTyped DEF Broken
  <1> QED BY <1>6, <1>7 DEF UartIsr, Receive

\* Taking a byte out of the ring moves the links on, but for the first one.
LEMMA LinksMove ==
    ASSUME TypeOK, ring # <<>>, ring' = Tail(ring), UNCHANGED meterVars, NEW i \in Breaks',
           i # 1 \/ From(1)' = Head(ring)
    PROVE  i + 1 \in Breaks
  <1>1. ring \in Seq(Bytes) /\ Len(ring) \in Nat \ {0} BY RingIsTyped
  <1>2. Len(ring') = Len(ring) - 1 /\ \A j \in 1..Len(ring') : ring'[j] = ring[j + 1]
    BY <1>1, HeadTailProperties
  <1>3. i \in 1..Len(ring) /\ ~Follows(From(i)', To(i)') BY <1>1, <1>2 DEF Breaks
  <1>4. From(i + 1) = ring[i] BY <1>1, <1>3 DEF From
  <1>5. From(i)' = ring[i]
    <2>1. CASE i = 1 BY <1>1, <2>1
    <2>2. CASE i # 1
      <3>1. From(i)' = ring'[i - 1] BY <2>2 DEF From
      <3>2. i - 1 \in 1..Len(ring') /\ (i - 1) + 1 = i BY <1>1, <1>2, <1>3, <2>2
      <3> QED BY <1>2, <3>1, <3>2
    <2> QED BY <2>1, <2>2
  <1>6. To(i)' = To(i + 1)
    <2>1. NextByte' = NextByte BY DEF meterVars, NextByte
    <2>2. CASE i = Len(ring) BY <1>1, <1>2, <2>1, <2>2 DEF To
    <2>3. CASE i # Len(ring)
      <3> DEFINE n == Len(ring)
      <3>1. n \in Nat \ {0} /\ Len(ring') = n - 1 /\ i \in 1..n /\ i # n
        BY <1>1, <1>2, <1>3, <2>3
      <3> HIDE DEF n
      <3>2. i \in 1..Len(ring') /\ i # Len(ring') + 1 BY <3>1
      <3>3. To(i)' = ring'[i] BY <3>2 DEF To
      <3>4. To(i + 1) = ring[i + 1] BY <1>1, <1>3, <2>3 DEF To
      <3> QED BY <1>2, <3>2, <3>3, <3>4
    <2> QED BY <2>2, <2>3
  <1> QED BY <1>1, <1>3, <1>4, <1>5, <1>6 DEF Breaks

LEMMA EmptyBegins == Begins(<<>>)
  <1>1. <<>> = [i \in 1..Len(<<>>) |-> <<0, i, 0>>] /\ Len(<<>>) <= 0 OBVIOUS
  <1> QED BY <1>1 DEF Begins

LEMMA FirstByteBegins ==
    ASSUME NEW b \in Bytes, Follows(EndOfLine, b)
    PROVE  Begins(<<b>>)
  <1>1. b[2] = 1 /\ b[3] >= 1 BY DEF Follows
  <1>2. b = <<b[1], 1, b[3]>> /\ b[1] \in Nat /\ b[3] \in Nat BY <1>1 DEF Bytes
  <1> DEFINE k == b[1]
             n == b[3]
  <1> HIDE DEF k, n
  <1>3. b = <<k, 1, n>> /\ k \in Nat /\ n \in Nat /\ 1 <= n BY <1>1, <1>2 DEF k, n
  <1>4. <<b>> = [i \in 1..1 |-> <<k, i, n>>] BY <1>3
  <1>5. Len(<<b>>) = 1 OBVIOUS
  <1> QED BY <1>3, <1>4, <1>5 DEF Begins

LEMMA NextByteBegins ==
    ASSUME NEW s \in Seq(Bytes), s # <<>>, Begins(s), NEW b \in Bytes, b # EndOfLine,
           Follows(s[Len(s)], b)
    PROVE  Begins(Append(s, b))
  <1>1. PICK k, n \in Nat : Len(s) <= n /\ s = [i \in 1..Len(s) |-> <<k, i, n>>] BY DEF Begins
  <1>2. Len(s) \in Nat \ {0} OBVIOUS
  <1> DEFINE m == Len(s)
  <1> HIDE DEF m
  <1>3. m \in Nat \ {0} /\ m <= n /\ s = [i \in 1..m |-> <<k, i, n>>] BY <1>1, <1>2 DEF m
  <1>4. s[m] = <<k, m, n>> /\ s[m] # EndOfLine
    <2>1. s[m] = <<k, m, n>> BY <1>3
    <2>2. s[m][2] # EndOfLine[2] BY <1>3, <2>1 DEF EndOfLine
    <2> QED BY <2>1, <2>2
  <1>5. m < n /\ b = <<k, m + 1, n>> BY <1>4 DEF Follows, m
  <1>6. Append(s, b) = [i \in 1..(m + 1) |-> <<k, i, n>>] /\ Len(Append(s, b)) = m + 1
    <2> DEFINE t == [i \in 1..(m + 1) |-> <<k, i, n>>]
    <2>1. Append(s, b) \in Seq(Bytes) /\ Len(Append(s, b)) = m + 1 BY DEF m
    <2>2. t \in Seq(Bytes) /\ Len(t) = m + 1
      <3>1. m + 1 \in Nat /\ \A i \in 1..(m + 1) : <<k, i, n>> \in Bytes BY <1>3 DEF Bytes
      <3> QED BY <3>1
    <2>3. \A i \in 1..m : Append(s, b)[i] = s[i] BY DEF m
    <2>4. Append(s, b)[m + 1] = b BY DEF m
    <2>5. ASSUME NEW i \in 1..(m + 1) PROVE Append(s, b)[i] = t[i]
      <3>1. CASE i = m + 1 BY <1>3, <1>5, <2>4, <3>1
      <3>2. CASE i \in 1..m BY <1>3, <2>3, <3>2
      <3> QED BY <1>3, <3>1, <3>2
    <2> QED BY <2>1, <2>2, <2>5, SeqEqual
  <1> DEFINE t == Append(s, b)
  <1> HIDE DEF t
  <1>7. Len(t) = m + 1 /\ t = [i \in 1..Len(t) |-> <<k, i, n>>] BY <1>6 DEF t
  <1>8. Len(t) <= n BY <1>3, <1>5, <1>7
  <1> QED BY <1>7, <1>8 DEF Begins, t

LEMMA FrameEnds ==
    ASSUME NEW s \in Seq(Bytes), s # <<>>, Begins(s), Follows(s[Len(s)], EndOfLine)
    PROVE  IsFrame(s)
  <1>1. PICK k, n \in Nat : Len(s) <= n /\ s = [i \in 1..Len(s) |-> <<k, i, n>>] BY DEF Begins
  <1>2. Len(s) \in Nat \ {0} OBVIOUS
  <1> DEFINE m == Len(s)
  <1> HIDE DEF m
  <1>3. m \in Nat \ {0} /\ m <= n /\ s = [i \in 1..m |-> <<k, i, n>>] BY <1>1, <1>2 DEF m
  <1>4. s[m] = <<k, m, n>> /\ s[1] = <<k, 1, n>> BY <1>3
  <1>5. s[m] # EndOfLine
    <2>1. s[m][2] # EndOfLine[2] BY <1>3, <1>4 DEF EndOfLine
    <2> QED BY <2>1
  <1>6. EndOfLine # <<k, m + 1, n>>
    <2>1. EndOfLine[2] # <<k, m + 1, n>>[2] BY <1>3 DEF EndOfLine
    <2> QED BY <2>1
  <1>7. m = n
    <2>1. s[m][1] = k /\ s[m][2] = m /\ s[m][3] = n BY <1>4
    <2>2. ~(m < n) BY <1>5, <1>6, <2>1 DEF Follows, m
    <2> QED BY <1>3, <2>2
  <1>8. s[1][1] = k /\ s[1][3] = n BY <1>4
  <1> QED BY <1>3, <1>7, <1>8 DEF IsFrame

\* A byte that is taken out of the ring: a broken link to it is spent on the
\* line, unless that is mangled already; a full line buffer costs one link.
LEMMA WorkByteBreaks ==
    ASSUME Shape, WorkByte
    PROVE  /\ Broken' + oversized <= Broken + oversized'
           /\ Head(ring) = EndOfLine /\ line = <<>> => Broken' + 1 <= Broken
  <1> DEFINE b == Head(ring)
  <1>1. /\ work = "bytes" /\ ring # <<>> /\ ring' = Tail(ring)
        /\ UNCHANGED meterVars /\ TypeOK /\ ~Parsing
    BY DEF WorkByte, Shape, Parsing
  <1>2. b \in Bytes /\ ring[1] = b /\ Len(ring) \in Nat \ {0} /\ line \in Seq(Bytes)
    BY <1>1, RingIsTyped
  <1>3. oversized \in Nat /\ Broken \in Nat BY <1>1, RingIsTyped
  <1>4. IsFiniteSet(Breaks) /\ Cardinality(Breaks) \in Nat BY <1>1, BreaksAreFinite
  <1>5. 1 \in Breaks <=> ~Follows(From(1), b)
    <2>1. 1 \in 1..(Len(ring) + 1) /\ 1 # Len(ring) + 1 BY <1>2
    <2>2. To(1) = b BY <1>2, <2>1 DEF To
    <2> QED BY <2>1, <2>2 DEF Breaks
  <1>6. From(1) = IF line = <<>> THEN EndOfLine ELSE line[Len(line)] BY <1>1 DEF From
  <1>7. Breaks' \in SUBSET (Nat \ {0})
    <2>1. TypeOK' BY TypeWork
    <2>2. ring' \in Seq(Bytes) BY <2>1 DEF TypeOK, Bytes
    <2>3. Len(ring') + 1 \in Nat BY <2>2
    <2> QED BY <2>3 DEF Breaks
  <1>8. ASSUME From(1)' = b, oversized' = oversized, Bad' => Bad \/ 1 \in Breaks
        PROVE  /\ Broken' + oversized <= Broken + oversized'
               /\ 1 \in Breaks /\ Bad' = Bad => Broken' + 1 <= Broken
    <2>1. \A i \in Breaks' : i + 1 \in Breaks BY <1>1, <1>8, LinksMove
    <2>2. IsFiniteSet(Breaks')
          /\ Cardinality(Breaks') + (IF 1 \in Breaks THEN 1 ELSE 0) <= Cardinality(Breaks)
      BY <1>4, <1>7, <2>1, Shifted
    <2>3. Cardinality(Breaks') \in Nat BY <2>2, FS_CardinalityType
    <2>4. Broken' <= Broken BY <1>4, <1>8, <2>2, <2>3 DEF Broken
    <2>5. 1 \in Breaks /\ Bad' = Bad => Broken' + 1 <= Broken
      BY <1>4, <2>2, <2>3 DEF Broken
    <2>6. Broken' \in Int BY <2>3 DEF Broken
    <2>7. \A n \in Int : n <= Broken => n + oversized <= Broken + oversized BY <1>3
    <2> QED BY <1>8, <2>4, <2>5, <2>6, <2>7
  <1>9. CASE b = EndOfLine /\ line = <<>>
    <2>1. work' = "bytes" /\ line' = line /\ oversized' = oversized BY <1>9 DEF WorkByte
    <2>2. From(1)' = b BY <1>9, <2>1 DEF From, Parsing
    <2>3. 1 \in Breaks BY <1>5, <1>6, <1>9 DEF Follows, EndOfLine
    <2>4. Bad' = Bad BY <1>1, <2>1 DEF Bad, Parsing
    <2> QED BY <1>8, <2>1, <2>2, <2>3, <2>4
  <1>10. CASE b = EndOfLine /\ line # <<>>
    <2>1. work' = "line" /\ line' = line /\ oversized' = oversized BY <1>10 DEF WorkByte
    <2>2. From(1)' = b BY <1>10, <2>1 DEF From, Parsing
    <2>3. Bad' => ~IsFrame(line) BY <2>1 DEF Bad, Parsing
    <2>4. Begins(line) /\ ~IsFrame(line) => 1 \in Breaks
      BY <1>2, <1>5, <1>6, <1>10, FrameEnds
    <2>5. ~Begins(line) => Bad BY <1>1 DEF Bad
    <2> QED BY <1>8, <1>10, <2>1, <2>2, <2>3, <2>4, <2>5
  <1>11. CASE b # EndOfLine /\ Len(line) < LineSize
    <2>1. work' = "bytes" /\ line' = Append(line, b) /\ oversized' = oversized
      BY <1>1, <1>11 DEF WorkByte
    <2>2. line' # <<>> /\ line'[Len(line')] = b BY <1>2, <2>1, AppendProperties
    <2>3. From(1)' = b BY <2>1, <2>2 DEF From, Parsing
    <2>4. Bad' => ~Begins(line') BY <2>1 DEF Bad, Parsing
    <2>5. Begins(line) /\ 1 \notin Breaks => Begins(line')
      <3>1. CASE line = <<>>
        <4>1. Append(line, b) = <<b>> BY <3>1
        <4> QED BY <1>2, <1>5, <1>6, <2>1, <3>1, <4>1, FirstByteBegins
      <3>2. CASE line # <<>> BY <1>2, <1>5, <1>6, <1>11, <2>1, <3>2, NextByteBegins
      <3> QED BY <3>1, <3>2
    <2>6. ~Begins(line) => Bad BY <1>1 DEF Bad
    <2> QED BY <1>8, <1>11, <2>1, <2>3, <2>4, <2>5, <2>6
  <1>12. CASE b # EndOfLine /\ ~(Len(line) < LineSize)
    <2>1. work' = "bytes" /\ line' = <<>> /\ oversized' = oversized + 1
      BY <1>1, <1>12 DEF WorkByte
    <2>2. ~Bad' BY <2>1, EmptyBegins DEF Bad, Parsing
    <2> DEFINE T == {i \in Nat \ {0} : i + 1 \in Breaks}
    <2>3. T \in SUBSET (Nat \ {0}) /\ \A i \in T : i + 1 \in Breaks OBVIOUS
    <2>4. \A i \in Breaks' : i # 1 => i + 1 \in Breaks BY <1>1, LinksMove
    <2>5. Breaks' \subseteq T \cup {1} BY <1>7, <2>4
    <2> HIDE DEF T
    <2>6. IsFiniteSet(T)
          /\ Cardinality(T) + (IF 1 \in Breaks THEN 1 ELSE 0) <= Cardinality(Breaks)
      BY <1>4, <2>3, Shifted
    <2>7. IsFiniteSet(Breaks') /\ Cardinality(Breaks') <= Cardinality(T) + 1
      BY <2>5, <2>6, AtMostOneMore
    <2>8. Cardinality(T) \in Nat /\ Cardinality(Breaks') \in Nat
      BY <2>6, <2>7, FS_CardinalityType
    <2>9. Broken' + oversized <= Broken + oversized'
      BY <1>3, <1>4, <2>1, <2>2, <2>6, <2>7, <2>8 DEF Broken
    <2> QED BY <1>12, <2>9
  <1> QED BY <1>9, <1>10, <1>11, <1>12

\* A line that was parsed has spent what was broken in it.
LEMMA LineDoneBreaks ==
    ASSUME Shape, Parsing, LineDone, UNCHANGED <<ring, meterVars>>
    PROVE  mangled' + Broken' = mangled + Broken
  <1>1. Breaks' = Breaks BY DEF LineDone, Breaks, From, To, NextByte, Parsing, meterVars
  <1>2. ~Bad' BY EmptyBegins DEF LineDone, Bad, Parsing
  <1>3. Bad <=> ~IsFrame(line) BY DEF Bad
  <1>4. mangled \in Nat /\ Cardinality(Breaks) \in Nat
    BY RingIsTyped, BreaksAreFinite DEF Shape
  <1> QED BY <1>1, <1>2, <1>3, <1>4 DEF LineDone, Broken

LEMMA BrokenStays ==
    ASSUME UNCHANGED <<ring, line, meterVars>>, Parsing' = Parsing
    PROVE  Broken' = Broken
  <1>1. Breaks' = Breaks BY DEF Breaks, From, To, NextByte, meterVars
  <1>2. Bad' = Bad BY DEF Bad
  <1> QED BY <1>1, <1>2 DEF Broken

LEMMA AccountedInit == Init => Accounted
  <1> SUFFICES ASSUME Init PROVE Accounted OBVIOUS
  <1>1. TypeOK BY ShapeInit DEF Shape
  <1>2. ring = <<>> /\ line = <<>> /\ ~Parsing /\ mangled = 0 /\ dropped = 0 /\ oversized = 0
    BY DEF Init, Parsing
  <1>3. ~Bad BY <1>2, EmptyBegins DEF Bad
  <1>4. Breaks \subseteq {1}
    <2>1. Len(ring) + 1 = 1 BY <1>2
    <2> QED BY <2>1 DEF Breaks
  <1>5. Cardinality(Breaks) <= 1 /\ Cardinality(Breaks) \in Nat
    <2>1. IsFiniteSet({1}) /\ Cardinality({1}) = 1 BY FS_Singleton
    <2> QED BY <1>1, <1>4, <2>1, FS_Subset, BreaksAreFinite
  <1>6. ~late => Breaks = {}
    <2> SUFFICES ASSUME ~late PROVE 1 \notin Breaks BY <1>4
    <2>1. pos = 1 /\ sent = 1 /\ size \in Nat \ {0} BY MeterAssumption DEF Init
    <2>2. NextByte = <<1, 1, size>> BY <2>1 DEF NextByte
    <2>3. From(1) = EndOfLine /\ To(1) = NextByte BY <1>2 DEF From, To
    <2>4. size >= 1 BY <2>1
    <2>5. Follows(From(1), To(1)) BY <2>2, <2>3, <2>4 DEF Follows
    <2> QED BY <2>5 DEF Breaks
  <1>7. ~late => Cardinality(Breaks) = 0 BY <1>6, FS_EmptySet
  <1> QED BY <1>2, <1>3, <1>5, <1>7 DEF Accounted, Broken, Late

\* The counts after a step are numbers, and late was said at the start.
LEMMA Counted ==
    ASSUME Shape, [Next]_vars
    PROVE  Broken' \in Int /\ InFlight' \in Int /\ Late' = Late
  <1>1. ring' \in Seq(Bytes) BY ShapeNext DEF Shape, TypeOK, Bytes
  <1>2. Len(ring') \in Nat /\ Len(ring') + 1 \in Nat BY <1>1
  <1>3. Breaks' \in SUBSET (1..(Len(ring') + 1)) /\ Ends' \in SUBSET (1..Len(ring'))
    BY DEF Breaks, Ends
  <1>4. Cardinality(Breaks') \in Nat /\ Cardinality(Ends') \in Nat BY <1>2, <1>3, PlacesAreFinite
  <1>5. Late' = Late
    BY DEF Late, Next, UartIsr, Receive, Work, WorkStart, WorkByte, WorkEnd, ParseRejects,
           ParseLock, ParseFirst, ParseSecond, GetLock, Get, GetFirst, GetSecond, vars, meterVars
  <1> QED BY <1>4, <1>5 DEF Broken, InFlight

LEMMA AccountedStep ==
    ASSUME Shape, Accounted, [Next]_vars
    PROVE  Accounted'
  <1>1. /\ Broken \in Nat /\ dropped \in Nat /\ oversized \in Nat /\ mangled \in Nat
        /\ Late \in {0, 1}
    BY RingIsTyped DEF Shape
  <1>2. Shape' BY ShapeNext
  <1>3. dropped' \in Nat /\ oversized' \in Nat /\ mangled' \in Nat BY <1>2 DEF Shape, TypeOK
  <1>4. Broken' \in Int /\ Late' = Late BY Counted
  <1>6. PICK m, b, d, o \in Int : m = mangled' /\ b = Broken' /\ d = dropped' /\ o = oversized'
    BY <1>3, <1>4
  <1>7. ASSUME (m + b) + (dropped + oversized) <= (mangled + Broken) + (d + o)
        PROVE  Accounted'
    <2>1. mangled + Broken <= dropped + oversized + Late BY DEF Accounted
    <2>2. m + b <= d + o + Late BY <1>1, <1>7, <2>1
    <2> QED BY <1>4, <1>6, <2>2 DEF Accounted
  <1>8. CASE UartIsr
    <2>1. mangled' = mangled /\ oversized' = oversized BY <1>8 DEF UartIsr, Receive, workVars
    <2>2. Broken' + dropped <= Broken + dropped' BY <1>8, ReceiveBreaks
    <2>3. m = mangled /\ o = oversized /\ b + dropped <= Broken + d BY <1>6, <2>1, <2>2
    <2>4. (m + b) + (dropped + oversized) <= (mangled + Broken) + (d + o) BY <1>1, <2>3
    <2> QED BY <1>7, <2>4
  <1>9. CASE WorkByte
    <2>1. mangled' = mangled /\ dropped' = dropped BY <1>9 DEF WorkByte
    <2>2. Broken' + oversized <= Broken + oversized' BY <1>9, WorkByteBreaks
    <2>3. m = mangled /\ d = dropped /\ b + oversized <= Broken + o BY <1>6, <2>1, <2>2
    <2>4. (m + b) + (dropped + oversized) <= (mangled + Broken) + (d + o) BY <1>1, <2>3
    <2> QED BY <1>7, <2>4
  <1>10. CASE ParseRejects \/ ParseSecond
    <2>1. Parsing /\ LineDone /\ UNCHANGED <<ring, meterVars, dropped, oversized>>
      BY <1>10 DEF ParseRejects, ParseSecond, Parsing
    <2>2. mangled' + Broken' = mangled + Broken BY <2>1, LineDoneBreaks
    <2>3. m + b = mangled + Broken /\ d = dropped /\ o = oversized BY <1>6, <2>1, <2>2
    <2>4. (m + b) + (dropped + oversized) <= (mangled + Broken) + (d + o) BY <1>1, <2>3
    <2> QED BY <1>7, <2>4
  <1>11. CASE WorkStart \/ WorkEnd \/ ParseLock \/ ParseFirst \/ GetLock \/ Get \/ UNCHANGED vars
    <2>1. UNCHANGED <<ring, line, meterVars, dropped, oversized, mangled>>
      BY <1>11 DEF WorkStart, WorkEnd, ParseLock, ParseFirst, GetLock, Get, GetFirst, GetSecond,
                  vars, workVars
    <2>2. Parsing' = Parsing
      BY <1>11 DEF WorkStart, WorkEnd, ParseLock, ParseFirst, GetLock, Get, GetFirst, GetSecond,
                  vars, workVars, Parsing
    <2>3. Broken' = Broken BY <2>1, <2>2, BrokenStays
    <2> QED BY <1>1, <1>6, <1>7, <2>1, <2>3
  <1> QED BY <1>8, <1>9, <1>10, <1>11 DEF Next, Work
-----------------------------------------------------------------------------
(***************************************************************************)
(* Frames in flight.                                                       *)
(***************************************************************************)

\* The other way round: what moves one place down loses no more than place 1.
LEMMA ShiftedBack ==
    ASSUME NEW S \in SUBSET (Nat \ {0}), NEW T, IsFiniteSet(S), IsFiniteSet(T),
           \A i \in S \ {1} : i - 1 \in T
    PROVE  Cardinality(S) <= Cardinality(T) + (IF 1 \in S THEN 1 ELSE 0)
  <1> DEFINE f == [i \in S \ {1} |-> i - 1]
  <1>1. /\ IsFiniteSet(S \ {1})
        /\ Cardinality(S \ {1}) = IF 1 \in S THEN Cardinality(S) - 1 ELSE Cardinality(S)
    BY FS_RemoveElement
  <1>2. f \in Injection(S \ {1}, T)
    <2>1. f \in [S \ {1} -> T] OBVIOUS
    <2>2. \A a, b \in S \ {1} : f[a] = f[b] => a = b OBVIOUS
    <2> QED BY <2>1, <2>2 DEF Injection, IsInjective
  <1>3. Cardinality(S \ {1}) <= Cardinality(T) BY <1>2, FS_Injection
  <1>4. Cardinality(S) \in Nat /\ Cardinality(T) \in Nat BY FS_CardinalityType
  <1> QED BY <1>1, <1>3, <1>4

LEMMA EndsAre ==
    ASSUME TypeOK
    PROVE  IsFiniteSet(Ends) /\ Cardinality(Ends) \in Nat /\ InFlight \in Nat
  <1>1. Len(ring) \in Nat /\ Ends \in SUBSET (1..Len(ring)) BY RingIsTyped DEF Ends
  <1>2. IsFiniteSet(Ends) /\ Cardinality(Ends) \in Nat BY <1>1, PlacesAreFinite
  <1> QED BY <1>2 DEF InFlight

\* A frame that was sent to its end is in flight if its end of line is kept.
LEMMA ReceiveArrives ==
    ASSUME Shape, UartIsr
    PROVE  /\ InFlight' \in Nat
           /\ \/ dropped' = dropped + 1 /\ InFlight' = InFlight /\ sent' <= sent + 1
              \/ dropped' = dropped /\ sent' + InFlight <= sent + InFlight'
  <1>1. TypeOK BY DEF Shape
  <1>2. ring \in Seq(Bytes) /\ Len(ring) \in Nat /\ sent \in Nat BY <1>1, RingIsTyped DEF TypeOK
  <1>3. IsFiniteSet(Ends) /\ Cardinality(Ends) \in Nat /\ InFlight \in Nat BY <1>1, EndsAre
  <1>4. line' = line /\ Parsing' = Parsing BY DEF UartIsr, Receive, workVars, Parsing
  <1>5. sent' = IF pos > size THEN sent + 1 ELSE sent BY DEF UartIsr, Receive
  <1>6. CASE ring' = ring /\ dropped' = dropped + 1
    <2>1. InFlight' = InFlight BY <1>4, <1>6 DEF InFlight, Ends
    <2> QED BY <1>2, <1>3, <1>5, <1>6, <2>1
  <1>7. CASE ring' = Append(ring, NextByte) /\ dropped' = dropped
    <2> DEFINE n == Len(ring)
    <2>1. Len(ring') = n + 1 /\ ring'[n + 1] = NextByte /\ \A i \in 1..n : ring'[i] = ring[i]
      BY <1>2, <1>7
    <2>2. Ends' \in SUBSET (1..(n + 1)) /\ Ends \subseteq Ends' BY <1>2, <2>1 DEF Ends
    <2>3. IsFiniteSet(Ends') /\ Cardinality(Ends') \in Nat
      <3>1. n + 1 \in Nat BY <1>2
      <3> HIDE DEF n
      <3> QED BY <2>2, <3>1, PlacesAreFinite
    <2>4. Cardinality(Ends) <= Cardinality(Ends') BY <2>2, <2>3, FS_Subset
    <2>5. CASE pos > size
      <3>1. n + 1 \in Ends'
        <4>1. ring'[n + 1] = EndOfLine BY <2>1, <2>5 DEF NextByte
        <4>2. n + 1 \in 1..Len(ring') BY <1>2, <2>1
        <4> QED BY <4>1, <4>2 DEF Ends
      <3>2. n + 1 \notin Ends BY <1>2 DEF Ends
      <3>3. Ends \cup {n + 1} \subseteq Ends' BY <2>2, <3>1
      <3>4. Cardinality(Ends \cup {n + 1}) = Cardinality(Ends) + 1 BY <1>3, <3>2, FS_AddElement
      <3>5. Cardinality(Ends) + 1 <= Cardinality(Ends') BY <2>3, <3>3, <3>4, FS_Subset
      <3> QED BY <1>2, <1>3, <1>4, <1>5, <1>7, <2>3, <2>5, <3>5 DEF InFlight
    <2>6. CASE ~(pos > size) BY <1>2, <1>3, <1>4, <1>5, <1>7, <2>3, <2>4, <2>6 DEF InFlight
    <2> QED BY <2>5, <2>6
  <1> QED BY <1>6, <1>7 DEF UartIsr, Receive

\* An end of line that is taken out of the ring makes a line, unless it was of
\* one that is empty.
LEMMA TakeArrives ==
    ASSUME Shape, WorkByte
    PROVE  /\ InFlight' \in Nat
           /\ InFlight <= InFlight' + (IF Head(ring) = EndOfLine /\ line = <<>> THEN 1 ELSE 0)
  <1>1. /\ TypeOK /\ ring # <<>> /\ ring' = Tail(ring) /\ ~Parsing
    BY DEF Shape, WorkByte, Parsing
  <1>2. ring \in Seq(Bytes) /\ Len(ring) \in Nat \ {0} /\ ring[1] = Head(ring)
    BY <1>1, RingIsTyped
  <1>3. Len(ring') = Len(ring) - 1 /\ \A i \in 1..Len(ring') : ring'[i] = ring[i + 1]
    BY <1>1, <1>2, HeadTailProperties
  <1>4. IsFiniteSet(Ends) /\ Cardinality(Ends) \in Nat BY <1>1, EndsAre
  <1>5. IsFiniteSet(Ends') /\ Cardinality(Ends') \in Nat
    <2>1. Len(ring') \in Nat /\ Ends' \in SUBSET (1..Len(ring')) BY <1>2, <1>3 DEF Ends
    <2> QED BY <2>1, PlacesAreFinite
  <1>6. ASSUME NEW i \in Ends \ {1} PROVE i - 1 \in Ends'
    <2>1. i \in 1..Len(ring) /\ i # 1 /\ ring[i] = EndOfLine BY <1>6 DEF Ends
    <2>2. i - 1 \in 1..Len(ring') /\ (i - 1) + 1 = i BY <1>2, <1>3, <2>1
    <2>3. ring'[i - 1] = EndOfLine BY <1>3, <2>1, <2>2
    <2> QED BY <2>2, <2>3 DEF Ends
  <1>7. 1 \in Ends <=> Head(ring) = EndOfLine BY <1>2 DEF Ends
  <1>8. Cardinality(Ends) <= Cardinality(Ends') + (IF Head(ring) = EndOfLine THEN 1 ELSE 0)
    <2>1. Ends \in SUBSET (Nat \ {0}) BY DEF Ends
    <2> QED BY <1>4, <1>5, <1>6, <1>7, <2>1, ShiftedBack
  <1>9. Head(ring) = EndOfLine /\ line # <<>> => Parsing' BY DEF WorkByte, Parsing
  <1> QED BY <1>1, <1>4, <1>5, <1>8, <1>9 DEF InFlight

LEMMA ArrivingStep ==
    ASSUME Shape, Arriving, [Next]_vars
    PROVE  Arriving'
  <1>1. /\ Broken \in Nat /\ dropped \in Nat /\ oversized \in Nat /\ mangled \in Nat
        /\ InFlight \in Nat /\ sent \in Nat /\ Late \in {0, 1}
        /\ frames \in Nat /\ refused \in Nat /\ Seen \in Nat
    BY RingIsTyped, EndsAre DEF Shape, TypeOK, Seen
  <1>2. Shape' BY ShapeNext
  <1>3. dropped' \in Int /\ oversized' \in Int /\ sent' \in Int /\ Seen' \in Int
    <2>1. PICK f, r \in Nat : f = frames' /\ r = refused' BY <1>2 DEF Shape, TypeOK
    <2>2. Seen' = f + r BY <2>1 DEF Seen
    <2>3. f + r \in Int BY <2>1
    <2>4. Seen' \in Int BY <2>2, <2>3
    <2>5. dropped' \in Int /\ oversized' \in Int /\ sent' \in Int BY <1>2 DEF Shape, TypeOK
    <2> QED BY <2>4, <2>5
  <1>4. Broken' \in Int /\ InFlight' \in Int /\ Late' = Late BY Counted
  <1>5. PICK t, b, g, i, d, o \in Int :
           /\ t = sent' /\ b = Broken' /\ g = Seen'
           /\ i = InFlight' /\ d = dropped' /\ o = oversized'
    BY <1>3, <1>4
  <1>6. ASSUME (t + b) + (Seen + InFlight + (dropped + dropped) + oversized)
                 <= (sent + Broken) + (g + i + (d + d) + o)
        PROVE  Arriving'
    <2>1. (sent - 1) + Broken <= Seen + InFlight + (dropped + dropped) + oversized + Late
      BY DEF Arriving
    <2>2. (t - 1) + b <= g + i + (d + d) + o + Late BY <1>1, <1>6, <2>1
    <2> QED BY <1>4, <1>5, <2>2 DEF Arriving
  <1>7. CASE UartIsr
    <2>1. g = Seen /\ o = oversized BY <1>5, <1>7 DEF UartIsr, Receive, workVars, Seen
    <2>2. b + dropped <= Broken + d BY <1>5, <1>7, ReceiveBreaks
    <2>3. \/ d = dropped + 1 /\ i = InFlight /\ t <= sent + 1
          \/ d = dropped /\ t + InFlight <= sent + i
      BY <1>5, <1>7, ReceiveArrives
    <2>4. (t + b) + (Seen + InFlight + (dropped + dropped) + oversized)
            <= (sent + Broken) + (g + i + (d + d) + o)
      BY <1>1, <2>1, <2>2, <2>3
    <2> QED BY <1>6, <2>4
  <1>8. CASE WorkByte
    <2>1. g = Seen /\ d = dropped /\ t = sent BY <1>5, <1>8 DEF WorkByte, meterVars, Seen
    <2>2. CASE Head(ring) = EndOfLine /\ line = <<>>
      <3>1. b + 1 <= Broken /\ InFlight <= i + 1 BY <1>5, <1>8, <2>2, WorkByteBreaks, TakeArrives
      <3>2. o = oversized BY <1>5, <1>8, <2>2 DEF WorkByte
      <3>3. (t + b) + (Seen + InFlight + (dropped + dropped) + oversized)
              <= (sent + Broken) + (g + i + (d + d) + o)
        BY <1>1, <2>1, <3>1, <3>2
      <3> QED BY <1>6, <3>3
    <2>3. CASE ~(Head(ring) = EndOfLine /\ line = <<>>)
      <3>1. b + oversized <= Broken + o BY <1>5, <1>8, WorkByteBreaks
      <3>2. InFlight <= i + 0 BY <1>5, <1>8, <2>3, TakeArrives
      <3>3. (t + b) + (Seen + InFlight + (dropped + dropped) + oversized)
              <= (sent + Broken) + (g + i + (d + d) + o)
        BY <1>1, <2>1, <3>1, <3>2
      <3> QED BY <1>6, <3>3
    <2> QED BY <2>2, <2>3
  <1>9. CASE ParseRejects \/ ParseSecond
    <2>1. Parsing /\ LineDone /\ UNCHANGED <<ring, meterVars, dropped, oversized>>
      BY <1>9 DEF ParseRejects, ParseSecond, Parsing
    <2>2. d = dropped /\ o = oversized /\ t = sent BY <1>5, <2>1 DEF meterVars
    <2>3. i + 1 = InFlight
      <3>1. Ends' = Ends /\ ~Parsing' BY <2>1 DEF Ends, LineDone, Parsing
      <3>2. Cardinality(Ends) \in Nat BY EndsAre DEF Shape
      <3>3. i = Cardinality(Ends) BY <1>5, <3>1, <3>2 DEF InFlight
      <3> QED BY <2>1, <3>2, <3>3 DEF InFlight
    <2>4. PICK n \in Int : n = mangled' BY <1>2 DEF Shape, TypeOK
    <2>5. n + b = mangled + Broken BY <1>5, <2>1, <2>4, LineDoneBreaks
    <2>6. b + Seen + 1 <= Broken + g
      <3>1. PICK r, f \in Int : r = refused' /\ f = frames' BY <1>2 DEF Shape, TypeOK
      <3>2. g = f + r BY <1>5, <3>1 DEF Seen
      <3>3. CASE ParseRejects
        <4>1. f = frames BY <3>1, <3>3 DEF ParseRejects
        <4>2. \/ r = refused + 1 /\ n = mangled
              \/ r = refused /\ n = mangled + 1
          <5> DEFINE proper == IsFrame(line)
          <5>1. /\ r = IF proper THEN refused + 1 ELSE refused
                /\ n = IF proper THEN mangled ELSE mangled + 1
            BY <2>4, <3>1, <3>3 DEF ParseRejects, LineDone
          <5> HIDE DEF proper
          <5> QED BY <5>1
        <4> QED BY <1>1, <2>5, <3>2, <4>1, <4>2 DEF Seen
      <3>4. CASE ParseSecond
        <4>1. f = frames + 1 /\ r = refused /\ (n = mangled \/ n = mangled + 1)
          BY <2>4, <3>1, <3>4 DEF ParseSecond, LineDone
        <4> QED BY <1>1, <2>5, <3>2, <4>1 DEF Seen
      <3> QED BY <1>9, <3>3, <3>4
    <2>7. (t + b) + (Seen + InFlight + (dropped + dropped) + oversized)
            <= (sent + Broken) + (g + i + (d + d) + o)
      BY <1>1, <2>2, <2>3, <2>6
    <2> QED BY <1>6, <2>7
  <1>10. CASE WorkStart \/ WorkEnd \/ ParseLock \/ ParseFirst \/ GetLock \/ Get \/ UNCHANGED vars
    <2>1. UNCHANGED <<ring, line, meterVars, dropped, oversized, frames, refused>>
      BY <1>10 DEF WorkStart, WorkEnd, ParseLock, ParseFirst, GetLock, Get, GetFirst, GetSecond,
                   vars, workVars
    <2>2. Parsing' = Parsing
      BY <1>10 DEF WorkStart, WorkEnd, ParseLock, ParseFirst, GetLock, Get, GetFirst, GetSecond,
                   vars, workVars, Parsing
    <2>3. Broken' = Broken BY <2>1, <2>2, BrokenStays
    <2>4. InFlight' = InFlight BY <2>1, <2>2 DEF InFlight, Ends
    <2> QED BY <1>4, <2>1, <2>3, <2>4 DEF Arriving, meterVars, Seen
  <1> QED BY <1>7, <1>8, <1>9, <1>10 DEF Next, Work

\* k_work_submit() queues the item also while it runs, so nothing that was put
\* into the ring after the item's last look is left there.
LEMMA WokenStep == Woken /\ [Next]_vars => Woken'
  <1> SUFFICES ASSUME Woken, [Next]_vars PROVE Woken' OBVIOUS
  <1> USE DEF Woken
  <1>1. CASE UartIsr BY <1>1 DEF UartIsr
  <1>2. CASE WorkStart \/ WorkByte \/ ParseRejects \/ ParseLock \/ ParseFirst \/ ParseSecond
    BY <1>2 DEF WorkStart, WorkByte, ParseRejects, ParseLock, ParseFirst, ParseSecond, LineDone
  <1>3. CASE WorkEnd BY <1>3 DEF WorkEnd
  <1>4. CASE GetLock \/ Get \/ UNCHANGED vars
    BY <1>4 DEF GetLock, Get, GetFirst, GetSecond, vars, workVars
  <1> QED BY <1>1, <1>2, <1>3, <1>4 DEF Next, Work

LEMMA ArrivingInit == Init => Arriving /\ Woken
  <1> SUFFICES ASSUME Init PROVE Arriving /\ Woken OBVIOUS
  <1>1. TypeOK BY ShapeInit DEF Shape
  <1>2. Accounted BY AccountedInit
  <1>3. /\ sent = 1 /\ frames = 0 /\ refused = 0 /\ dropped = 0 /\ oversized = 0 /\ mangled = 0 /\ ring = <<>>
    BY DEF Init
  <1>4. /\ Broken \in Nat /\ InFlight \in Nat /\ Late \in {0, 1}
    BY <1>1, RingIsTyped, EndsAre
  <1>5. Broken <= Late BY <1>2, <1>3, <1>4 DEF Accounted
  <1> QED BY <1>3, <1>4, <1>5 DEF Arriving, Woken, Seen
-----------------------------------------------------------------------------
(***************************************************************************)
(* The theorems.                                                           *)
(***************************************************************************)

\* The interrupt, the work item and the main loop keep the chain of bytes
\* accounted for and the readings whole.
THEOREM Invariance == Spec => []IInv
  <1>1. Init => IInv
    <2>1. Init => Whole /\ SnapshotIsWhole
      BY DEF Init, Whole, SnapshotIsWhole
    <2> QED BY <2>1, ShapeInit, AccountedInit DEF IInv
  <1>2. IInv /\ [Next]_vars => IInv' BY ShapeNext, WholeStep, AccountedStep DEF IInv
  <1> QED BY <1>1, <1>2, PTL DEF Spec

\* Every variable of the meter ingest keeps its type; neither the ring nor
\* the line buffer holds more than it has room for.
THEOREM TypeCorrect == Spec => []TypeOK
  <1>1. IInv => TypeOK BY DEF IInv, Shape
  <1> QED BY <1>1, Invariance, PTL

\* However long the meter runs, each line that is no frame has a dropped byte,
\* a full line buffer or the late start of its own to blame.
THEOREM DamageStaysLocal == Spec => []DamageIsLocal
  <1>1. IInv => DamageIsLocal
    <2> SUFFICES ASSUME IInv PROVE DamageIsLocal OBVIOUS
    <2>1. /\ Broken \in Nat /\ dropped \in Nat /\ oversized \in Nat /\ mangled \in Nat
          /\ Late \in {0, 1}
      BY RingIsTyped DEF IInv, Shape
    <2> QED BY <2>1 DEF IInv, Accounted, DamageIsLocal
  <1> QED BY <1>1, Invariance, PTL

\* meter_uart_get() returns the readings as a whole number of lines left them,
\* although rx_work_fn() writes them one after the other and any of them may be
\* missing from a line.
THEOREM SnapshotsAreWhole == Spec => []SnapshotIsWhole
  <1>1. IInv => SnapshotIsWhole BY DEF IInv
  <1> QED BY <1>1, Invariance, PTL

\* No frame is forgotten: once the work item has nothing left to do, every frame
\* the meter has sent to its end was parsed or refused, but for two for each byte dropped,
\* one for each full line buffer and one for a late start.  That the item does
\* get that far is FramesArrive, which needs its fairness.
THEOREM NothingIsForgotten == Spec => []Drained
  <1>1. Init => Shape /\ Arriving /\ Woken BY ShapeInit, ArrivingInit
  <1>2. Shape /\ Arriving /\ Woken /\ [Next]_vars => (Shape /\ Arriving /\ Woken)'
    BY ShapeNext, ArrivingStep, WokenStep
  <1>3. Shape /\ Arriving /\ Woken => Drained
    <2> SUFFICES ASSUME Shape, Arriving, Woken, work = "idle", ~submitted
                 PROVE  sent - 1 <= frames + refused + 2 * dropped + oversized + Late
      BY DEF Drained
    <2>1. ring = <<>> /\ ~Parsing BY DEF Woken, Parsing
    <2>2. InFlight = 0
      <3>1. Ends = {} BY <2>1 DEF Ends
      <3> QED BY <2>1, <3>1, FS_EmptySet DEF InFlight
    <2>3. /\ Broken \in Nat /\ dropped \in Nat /\ oversized \in Nat
          /\ sent \in Nat /\ frames \in Nat /\ refused \in Nat /\ Late \in {0, 1}
      BY RingIsTyped DEF Shape, TypeOK
    <2> QED BY <2>2, <2>3 DEF Arriving, Seen
  <1> QED BY <1>1, <1>2, <1>3, PTL DEF Spec
=============================================================================
