------------------------- MODULE ConditioningProofs -------------------------
(***************************************************************************)
(* Whatever the widths of the fields, the rules and the sections are: every*)
(* answer is a signal, or the request panicked; it panics, and drops the   *)
(* cue of its event, for nothing but what CanPanic names; the two decoders *)
(* say the same of every sound cue; and the bytes of each answer are those *)
(* of the cue that CueContract asks for.                                   *)
(***************************************************************************)
EXTENDS Conditioning, CueProofs

-----------------------------------------------------------------------------
(* Sections stay sections.                                                  *)

LEMMA SealedSection ==
  ASSUME NEW s \in Sections, NEW body \in Seq(Nat), NEW secLen \in Nat
  PROVE  /\ Sealed([s EXCEPT !.body = body]) \in Sections
         /\ Sealed([s EXCEPT !.body = body, !.secLen = secLen]) \in Sections
BY DEF Sealed, Covered, Sections

LEMMA NoSectionIsNone ==
    NoSection \notin Sections /\ Panicked \notin Sections /\ Panicked # NoSection
<1>1. ASSUME NEW s \in Sections PROVE DOMAIN s # {"table"}
  <2>1. "enc" \in DOMAIN s
    BY DEF Sections
  <2>2. QED BY <2>1
<1>2. DOMAIN NoSection = {"table"} /\ DOMAIN Panicked = {"table"}
  BY DEF NoSection, Panicked
<1>3. NoSection.table = 0 /\ Panicked.table = 1
  BY DEF NoSection, Panicked
<1>4. QED BY <1>1, <1>2, <1>3

LEMMA UpidCells ==
  ASSUME NEW type, NEW v \in UpidValues
  PROVE  UpidBytes(type, v) \in Seq(Nat)
<1>1. v.text \in Seq(Nat) /\ v.hex \in Maybe(Seq(Nat)) /\ v.uuid \in Maybe(Seq(Nat))
  BY DEF UpidValues
<1>2. Some(v.hex, v.text) \in Seq(Nat) /\ Some(v.uuid, v.text) \in Seq(Nat)
  <2> DEFINE C == Seq(Nat)
  <2>1. v.text \in C /\ v.hex \in Maybe(C) /\ v.uuid \in Maybe(C)
    BY <1>1
  <2> HIDE DEF C
  <2>2. Some(v.hex, v.text) \in C /\ Some(v.uuid, v.text) \in C
    BY <2>1, Given
  <2>3. QED BY <2>2 DEF C
<1>3. QED BY <1>1, <1>2 DEF UpidBytes

\* What a descriptor becomes is made of cells of the body and of the UPID.
LEMMA DescriptorCellsKept ==
  ASSUME NEW b \in Seq(Nat), NEW L, IsLoop(b, L), NEW i \in Room(L.lo, L.hi),
         After(b, i) <= L.hi, NEW type \in Maybe(Nat), NEW v \in UpidValues
  PROVE  RewriteDescriptor(b, i, type, v) \in Seq(Nat)
<1> DEFINE end == After(b, i)
           j == UpidCell(b, i)
           kind == Some(type, b[j])
           bytes == NewUpid(b, i, type, v)
           rest == SubSeq(b, j + 2 + b[j + 1], end - 1)
<1>1. Len(b) \in Nat /\ \A k \in 1..Len(b) : b[k] \in Nat
  OBVIOUS
<1>2. i \in Nat /\ i >= 1 /\ end \in Nat /\ end >= i + 2 /\ end <= Len(b) + 1
  <2>1. At(b, i + 1) \in Nat
    BY AtIsCell
  <2>2. L.lo \in Nat /\ L.lo >= 1 /\ L.hi \in Nat /\ L.hi <= Len(b) + 1
    BY <1>1 DEF IsLoop
  <2>3. i \in Nat /\ i >= 1
    BY <2>2 DEF Room
  <2>4. end \in Nat /\ end >= i + 2
    BY <2>1, <2>3 DEF After
  <2> HIDE DEF end
  <2>5. end <= L.hi
    BY DEF end
  <2>6. QED BY <1>1, <2>2, <2>3, <2>4, <2>5
<1>3. CASE ~TakesUpid(b, i, type, v)
  <2>1. RewriteDescriptor(b, i, type, v) = SubSeq(b, i, end - 1)
    BY <1>3 DEF RewriteDescriptor
  <2>2. \A k \in i..(end - 1) : b[k] \in Nat
    BY <1>1, <1>2
  <2> HIDE DEF end
  <2>3. QED BY <1>2, <2>1, <2>2, SubSeqProperties
<1>4. CASE TakesUpid(b, i, type, v)
  <2>1. j \in Nat /\ j >= i + 5 /\ j + 1 < end /\ j + 2 + At(b, j + 1) <= end
    <3> DEFINE c == AfterComponents(b, i) + (IF Bit(b[i + 4], 64) THEN 1 ELSE 0)
    <3>1. c \in Nat /\ c >= i + 5
      <4>1. At(b, i + 5) \in Nat
        BY AtIsCell
      <4>2. AfterComponents(b, i) \in Nat /\ AfterComponents(b, i) >= i + 5
        BY <1>2, <4>1 DEF AfterComponents
      <4>3. QED BY <1>2, <4>2
    <3>2. j # 0
      BY <1>4 DEF TakesUpid
    <3>3. j = c /\ c + 1 < end /\ c + 2 + At(b, c + 1) <= end
      <4> HIDE DEF c
      <4>1. j = IF /\ LiveSegmentation(b, i) /\ c + 1 < end /\ c + 2 + At(b, c + 1) <= end
                THEN c ELSE 0
        BY DEF UpidCell, c
      <4> HIDE DEF j
      <4>2. QED BY <3>2, <4>1
    <3> HIDE DEF c, j
    <3>4. QED BY <3>1, <3>3
  <2>2. b[j] \in Nat /\ b[j + 1] \in Nat /\ At(b, j + 1) = b[j + 1]
    <3> HIDE DEF j, end
    <3>1. j \in 1..Len(b) /\ j + 1 \in 1..Len(b)
      BY <1>1, <1>2, <2>1
    <3>2. j + 1 \in DOMAIN b
      BY <3>1
    <3>3. QED BY <1>1, <3>1, <3>2 DEF At
  <2>3. kind \in Nat
    <3> DEFINE C == Nat
    <3>1. b[j] \in C /\ type \in Maybe(C)
      BY <2>2
    <3> HIDE DEF C, j
    <3>2. kind \in C
      BY <3>1, Given
    <3>3. QED BY <3>2 DEF C
  <2>4. bytes \in Seq(Nat)
    BY UpidCells DEF NewUpid
  <2>5. rest \in Seq(Nat)
    <3> HIDE DEF j, end
    <3>1. \A k \in (j + 2 + b[j + 1])..(end - 1) : b[k] \in Nat
      BY <1>1, <1>2, <2>1, <2>2
    <3>2. j + 2 + b[j + 1] \in Int /\ end - 1 \in Int
      BY <1>2, <2>1, <2>2
    <3>3. QED BY <3>1, <3>2, SubSeqProperties
  <2>6. SubSeq(b, i + 2, j - 1) \in Seq(Nat)
    <3> HIDE DEF j, end
    <3>1. \A k \in (i + 2)..(j - 1) : b[k] \in Nat
      BY <1>1, <1>2, <2>1
    <3>2. i + 2 \in Int /\ j - 1 \in Int
      BY <1>2, <2>1
    <3>3. QED BY <3>1, <3>2, SubSeqProperties
  <2>7. RewriteDescriptor(b, i, type, v) = WithBytes(b, i, j, kind, bytes)
    BY <1>4 DEF RewriteDescriptor
  <2>8. WithBytes(b, i, j, kind, bytes) =
          <<SegTag, j - i + Len(bytes) + Len(rest)>> \o SubSeq(b, i + 2, j - 1)
            \o <<kind, Len(bytes)>> \o bytes \o rest
    BY DEF WithBytes
  <2> HIDE DEF j, kind, bytes, rest, end
  <2>9. Len(bytes) \in Nat /\ Len(rest) \in Nat
    BY <2>4, <2>5
  <2>10. <<SegTag, j - i + Len(bytes) + Len(rest)>> \in Seq(Nat)
           /\ <<kind, Len(bytes)>> \in Seq(Nat)
    <3>1. j - i + Len(bytes) + Len(rest) \in Nat
      BY <1>2, <2>1, <2>9
    <3>2. QED BY <2>3, <2>9, <3>1 DEF SegTag
  <2>11. QED
    BY <2>4, <2>5, <2>6, <2>7, <2>8, <2>10, ConcatProperties
<1>5. QED BY <1>3, <1>4

\* An edit of a section gives a section, unless it gives none or panics.
LEMMA UpidRewritten ==
  ASSUME NEW s \in Sections, NEW type \in Maybe(Nat), NEW v \in UpidValues
  PROVE  /\ RewriteUpid(s, type, v) \in Sections \cup {NoSection, Panicked}
         /\ v.splits = {} => RewriteUpid(s, type, v) # Panicked
<1> DEFINE b == s.body
           L == LocateLoop(s)
           at == Starts(b, L)
           changed == {k \in DOMAIN at : TakesUpid(b, at[k], type, v)}
           new == [k \in DOMAIN at |-> RewriteDescriptor(b, at[k], type, v)]
           loop == FlattenSeq(new)
<1>1. RewriteUpid(s, type, v) =
        IF RewritePanics(b, L, at, type, v) THEN Panicked ELSE ReplaceLoop(s, L, at, changed, new)
  BY DEF RewriteUpid, RewriteUpidIn
<1>1a. v.splits = {} => ~RewritePanics(b, L, at, type, v)
  <2>1. v.splits = {} => \A k : ~UpidPanics(k, v)
    BY DEF UpidPanics
  <2> HIDE DEF L, at
  <2>2. QED BY <2>1, Zenon DEF RewritePanics
<1>1b. Panicked \notin Sections \cup {NoSection}
  BY NoSectionIsNone
<1>2. CASE \/ L = NoLoop \/ Overruns(b, L, at) \/ changed = {}
           \/ \E k \in changed : new[k][2] >= LenMod
           \/ Len(loop) >= LoopMod
  <2> HIDE DEF L, at, changed, new
  <2>1. ReplaceLoop(s, L, at, changed, new) = NoSection
    BY <1>2 DEF ReplaceLoop
  <2>2. QED BY <1>1, <1>1a, <1>1b, <2>1
<1>3. CASE ~(\/ L = NoLoop \/ Overruns(b, L, at) \/ changed = {}
             \/ \E k \in changed : new[k][2] >= LenMod
             \/ Len(loop) >= LoopMod)
  <2>1. b \in Seq(Nat) /\ Len(b) \in Nat
    BY DEF Sections
  <2>2. IsLoop(b, L)
    BY <1>3, LoopFound
  <2>3. at \in Seq(Room(L.lo, L.hi))
    BY <2>1, <2>2, StartsInLoop DEF Cells
  <2>4. \A k \in DOMAIN at : at[k] \in Room(L.lo, L.hi) /\ After(b, at[k]) <= L.hi
    <3>1. \A k \in DOMAIN at : at[k] \in Room(L.lo, L.hi)
      <4> HIDE DEF at, L
      <4>1. QED BY <2>3
    <3>2. \A k \in DOMAIN at : ~(After(b, at[k]) > L.hi)
      BY <1>3 DEF Overruns
    <3>3. L.hi \in Nat /\ Room(L.lo, L.hi) \subseteq Nat
      BY <2>1, <2>2 DEF IsLoop, Room
    <3>4. \A k \in DOMAIN at : After(b, at[k]) \in Nat
      <4> HIDE DEF at, L
      <4>1. \A i \in Nat : After(b, i) \in Nat
        BY <2>1, AtIsCell DEF After
      <4>2. QED BY <3>1, <3>3, <4>1
    <3> HIDE DEF at, L
    <3>5. QED BY <3>1, <3>2, <3>3, <3>4
  <2>5. \A k \in DOMAIN at : RewriteDescriptor(b, at[k], type, v) \in Seq(Nat)
    <3> HIDE DEF at, L
    <3>1. QED BY <2>1, <2>2, <2>4, DescriptorCellsKept
  <2>6. new \in Seq(Seq(Nat))
    <3>1. DOMAIN at = 1..Len(at) /\ Len(at) \in Nat
      <4> HIDE DEF at
      <4>1. QED BY <2>3, LenProperties
    <3> DEFINE C == Seq(Nat)
    <3>2. \A k \in 1..Len(at) : RewriteDescriptor(b, at[k], type, v) \in C
      BY <2>5, <3>1
    <3>3. new = [k \in 1..Len(at) |-> RewriteDescriptor(b, at[k], type, v)]
      BY <3>1
    <3>4. new \in Seq(C)
      <4> HIDE DEF at, new, C
      <4>1. QED BY <3>1, <3>2, <3>3
    <3>5. QED BY <3>4
  <2>7. loop \in Seq(Nat)
    <3> HIDE DEF new
    <3>1. QED BY <2>6, Flattened
  <2>8. ReplaceLoop(s, L, at, changed, new) = WithLoop(s, L, loop)
    <3> HIDE DEF L, at, changed, new
    <3>1. QED BY <1>3 DEF ReplaceLoop
  <2>9. WithLoop(s, L, loop) \in Sections
    <3> HIDE DEF L, at, new, loop
    <3> DEFINE word == (b[L.word] \div LoopMod) * LoopMod + Len(loop)
               body == SubSeq(b, 1, L.word - 1) \o <<word>> \o loop \o SubSeq(b, L.hi, Len(b))
               secLen == (Fixed + Len(body)) % SectionMod
    <3>1. LoopMod \in Nat \ {0} /\ SectionMod \in Nat \ {0}
      BY WidthAssumption
    <3>2. L.word \in 1..Len(b) /\ L.hi \in Nat /\ L.hi >= 1 /\ L.hi <= Len(b) + 1
      BY <2>1, <2>2 DEF IsLoop
    <3>3. word \in Nat
      <4>1. b[L.word] \in Nat
        BY <2>1, <3>2
      <4>2. b[L.word] \div LoopMod \in Nat
        BY <3>1, <4>1
      <4>3. (b[L.word] \div LoopMod) * LoopMod \in Nat
        BY <3>1, <4>2
      <4>4. Len(loop) \in Nat
        BY <2>7
      <4>5. QED BY <4>3, <4>4
    <3>4. SubSeq(b, 1, L.word - 1) \in Seq(Nat) /\ SubSeq(b, L.hi, Len(b)) \in Seq(Nat)
      <4>1. \A k \in 1..(L.word - 1) : b[k] \in Nat
        BY <2>1, <3>2, SMTT(30)
      <4>2. \A k \in L.hi..Len(b) : b[k] \in Nat
        BY <2>1, <3>2
      <4>3. L.word - 1 \in Int /\ L.hi \in Int /\ Len(b) \in Int /\ 1 \in Int
        BY <2>1, <3>2
      <4>4. QED BY <4>1, <4>2, <4>3, SubSeqProperties
    <3>5. body \in Seq(Nat)
      <4>1. <<word>> \in Seq(Nat)
        BY <3>3
      <4> HIDE DEF word
      <4>2. QED BY <2>7, <3>4, <4>1, ConcatProperties
    <3>6. secLen \in Nat
      <4> HIDE DEF body
      <4>1. Fixed + Len(body) \in Nat
        BY <3>5 DEF Fixed
      <4>2. QED BY <3>1, <4>1
    <3>7. WithLoop(s, L, loop) = Sealed([s EXCEPT !.body = body, !.secLen = secLen])
      BY DEF WithLoop
    <3> HIDE DEF body, secLen
    <3>8. QED BY <3>5, <3>6, <3>7, SealedSection
  <2> HIDE DEF L, at, changed, new, loop
  <2>10. QED BY <1>1, <1>1a, <1>1b, <2>8, <2>9
<1>4. QED BY <1>2, <1>3, Zenon

LEMMA CellsChanged ==
  ASSUME NEW b \in Seq(Nat), NEW c, DOMAIN c = DOMAIN b, c = [i \in DOMAIN b |-> c[i]],
         \A i \in DOMAIN b : c[i] \in Nat
  PROVE  c \in Seq(Nat)
<1>1. DOMAIN b = 1..Len(b) /\ Len(b) \in Nat
  BY LenProperties
<1>2. QED BY <1>1

LEMMA DeliveryRewritten ==
  ASSUME NEW s \in Sections, NEW limits \in Nat
  PROVE  RewriteDelivery(s, limits) \in Sections \cup {NoSection}
<1> DEFINE b == s.body
           L == LocateLoop(s)
           at == Starts(b, L)
           flags == {at[k] + 4 : k \in {n \in DOMAIN at : LiveSegmentation(b, at[n])}}
           body == [i \in DOMAIN b |->
                      IF i \in flags THEN (b[i] \div 64) * 64 + limits ELSE b[i]]
<1>1. RewriteDelivery(s, limits) =
        IF L = NoLoop \/ Overruns(b, L, at) \/ flags = {} THEN NoSection
        ELSE Sealed([s EXCEPT !.body = body])
  BY DEF RewriteDelivery, RewriteDeliveryIn
<1>2. b \in Seq(Nat)
  BY DEF Sections
<1>3. body \in Seq(Nat)
  <2>1. \A i \in DOMAIN b : body[i] \in Nat
    <3> HIDE DEF flags
    <3>1. \A i \in DOMAIN b : b[i] \in Nat
      BY <1>2
    <3>2. QED BY <3>1
  <2> HIDE DEF flags
  <2>2. QED BY <1>2, <2>1, CellsChanged
<1>4. Sealed([s EXCEPT !.body = body]) \in Sections
  <2> HIDE DEF body
  <2>1. QED BY <1>3, SealedSection
<1> HIDE DEF body, L, at, flags
<1>5. QED BY <1>1, <1>4

LEMMA BreakRewritten ==
  ASSUME NEW s \in Sections, NEW brk \in LocateBreakDuration(s), NEW ticks \in Nat
  PROVE  /\ RewriteBreak(s, brk, ticks) \in Sections \cup {NoSection, Panicked}
         /\ s.type # 5 => RewriteBreak(s, brk, ticks) # Panicked
<1> DEFINE b == s.body
           L == LocateLoop(s)
           at == IF L = NoLoop THEN <<>> ELSE Starts(b, L)
           segs == {SegDurationCell(b, at[k]) :
                      k \in {n \in DOMAIN at : After(b, at[n]) <= L.hi}}
           body == [i \in DOMAIN b |->
                      IF i = brk THEN ticks % T33 ELSE IF i \in segs THEN ticks % T40 ELSE b[i]]
<1>1. RewriteBreak(s, brk, ticks) =
        IF brk = 0 /\ segs \subseteq {0} THEN NoSection
        ELSE IF brk > Len(b) + 1 THEN Panicked ELSE Sealed([s EXCEPT !.body = body])
  BY DEF RewriteBreak, MapDurations
<1>2. b \in Seq(Nat)
  BY DEF Sections
<1>3. body \in Seq(Nat)
  <2>1. \A i \in DOMAIN b : body[i] \in Nat
    <3> HIDE DEF segs
    <3>1. \A i \in DOMAIN b : b[i] \in Nat
      BY <1>2
    <3>2. ticks % T33 \in Nat /\ ticks % T40 \in Nat
      BY WidthAssumption
    <3>3. QED BY <3>1, <3>2
  <2> HIDE DEF segs
  <2>2. QED BY <1>2, <2>1, CellsChanged
<1>4. Sealed([s EXCEPT !.body = body]) \in Sections
  <2> HIDE DEF body
  <2>1. QED BY <1>3, SealedSection
<1>5. s.type # 5 => ~(brk > Len(b) + 1)
  <2>1. s.type # 5 => brk = 0
    BY DEF LocateBreakDuration
  <2>2. Len(b) \in Nat
    BY <1>2
  <2>3. QED BY <2>1, <2>2
<1> HIDE DEF body, segs, b
<1>6. QED BY <1>1, <1>4, <1>5, NoSectionIsNone

LEMMA BreakAdjusted ==
  ASSUME NEW s \in Sections, NEW brk \in LocateBreakDuration(s), NEW delta \in Int
  PROVE  /\ AdjustBreak(s, brk, delta) \in Sections \cup {NoSection, Panicked}
         /\ s.type # 5 => AdjustBreak(s, brk, delta) # Panicked
<1> DEFINE b == s.body
           L == LocateLoop(s)
           at == IF L = NoLoop THEN <<>> ELSE Starts(b, L)
           segs == {SegDurationCell(b, at[k]) :
                      k \in {n \in DOMAIN at : After(b, at[n]) <= L.hi}}
           body == [i \in DOMAIN b |->
                      IF i = brk THEN AtLeast0(b[i] + delta) % T33
                      ELSE IF i \in segs THEN AtLeast0(b[i] + delta) % T40 ELSE b[i]]
<1>1. AdjustBreak(s, brk, delta) =
        IF brk = 0 /\ segs \subseteq {0} THEN NoSection
        ELSE IF brk > Len(b) + 1 THEN Panicked ELSE Sealed([s EXCEPT !.body = body])
  BY DEF AdjustBreak, MapDurations
<1>2. b \in Seq(Nat)
  BY DEF Sections
<1>3. body \in Seq(Nat)
  <2>1. \A i \in DOMAIN b : body[i] \in Nat
    <3> HIDE DEF segs
    <3>1. \A i \in DOMAIN b : b[i] \in Nat
      BY <1>2
    <3>2. \A t \in Nat : AtLeast0(t + delta) \in Nat
      BY DEF AtLeast0
    <3>3. \A t \in Nat : t % T33 \in Nat /\ t % T40 \in Nat
      BY WidthAssumption
    <3>4. QED BY <3>1, <3>2, <3>3
  <2> HIDE DEF segs
  <2>2. QED BY <1>2, <2>1, CellsChanged
<1>4. Sealed([s EXCEPT !.body = body]) \in Sections
  <2> HIDE DEF body
  <2>1. QED BY <1>3, SealedSection
<1>5. s.type # 5 => ~(brk > Len(b) + 1)
  <2>1. s.type # 5 => brk = 0
    BY DEF LocateBreakDuration
  <2>2. Len(b) \in Nat
    BY <1>2
  <2>3. QED BY <2>1, <2>2
<1> HIDE DEF body, segs, b
<1>6. QED BY <1>1, <1>4, <1>5, NoSectionIsNone

\* There is nothing to edit in what is no plain SCTE-35 section.
LEMMA UnplainKept ==
  ASSUME NEW s, ~IsPlain(s), NEW type, NEW v, NEW limits, NEW ticks,
         NEW brk \in LocateBreakDuration(s)
  PROVE  /\ RewriteUpid(s, type, v) = NoSection
         /\ RewriteDelivery(s, limits) = NoSection
         /\ RewriteBreak(s, brk, ticks) = NoSection
         /\ AdjustBreak(s, brk, ticks) = NoSection
<1>2. LocateLoop(s) = NoLoop /\ LocateBreakDuration(s) = {0} /\ brk = 0
  BY DEF LocateLoop, LocateBreakDuration
<1>3. RewriteUpid(s, type, v) = NoSection
  BY <1>2 DEF RewriteUpid, RewriteUpidIn, ReplaceLoop, RewritePanics
<1>4. RewriteDelivery(s, limits) = NoSection
  BY <1>2 DEF RewriteDelivery, RewriteDeliveryIn
<1> DEFINE at == IF LocateLoop(s) = NoLoop THEN <<>> ELSE Starts(s.body, LocateLoop(s))
           segs == {SegDurationCell(s.body, at[k]) :
                      k \in {n \in DOMAIN at : After(s.body, at[n]) <= LocateLoop(s).hi}}
<1>5. segs \subseteq {0}
  <2>1. DOMAIN at = {}
    BY <1>2
  <2> HIDE DEF at
  <2>2. QED BY <2>1
<1>6. RewriteBreak(s, brk, ticks) = NoSection
  BY <1>2, <1>5, Zenon DEF RewriteBreak, MapDurations
<1>7. AdjustBreak(s, brk, ticks) = NoSection
  BY <1>2, <1>5, Zenon DEF AdjustBreak, MapDurations
<1>8. QED BY <1>3, <1>4, <1>6, <1>7

LEMMA UpidUnplain ==
  ASSUME NEW s, ~IsPlain(s), NEW type, NEW v PROVE RewriteUpid(s, type, v) = NoSection
<1>1. 0 \in LocateBreakDuration(s)
  BY DEF LocateBreakDuration
<1>2. QED BY <1>1, UnplainKept

LEMMA DeliveryUnplain ==
  ASSUME NEW s, ~IsPlain(s), NEW limits PROVE RewriteDelivery(s, limits) = NoSection
<1>1. 0 \in LocateBreakDuration(s)
  BY DEF LocateBreakDuration
<1>2. QED BY <1>1, UnplainKept

LEMMA OnlySectionsPlain ==
  ASSUME NEW s \in Sections \cup {NoSection, Panicked}, s \notin Sections PROVE ~IsPlain(s)
BY DEF IsPlain, NoSection, Panicked

\* What the encoder builds is a section.
LEMMA SectionBuilt ==
  ASSUME NEW type \in Nat, NEW enc \in BOOLEAN, NEW command \in Seq(Nat), NEW more \in Seq(Nat)
  PROVE  Section(type, enc, command, more) \in Sections
<1> DEFINE body == command \o more
           secLen == (Fixed + Len(body)) % SectionMod
<1>1. body \in Seq(Nat) /\ Len(body) \in Nat /\ Len(command) \in Nat
  BY ConcatProperties
<1>2. secLen \in Nat
  <2> HIDE DEF body
  <2>1. Fixed + Len(body) \in Nat
    BY <1>1 DEF Fixed
  <2>2. QED BY <2>1, WidthAssumption
<1> DEFINE open == [table |-> 252, enc |-> enc, type |-> type, body |-> body,
                     secLen |-> secLen, cmdLen |-> Len(command), crc |-> <<>>]
           crc == <<enc, secLen, Len(command), type, body>>
<1>3. Section(type, enc, command, more) = Sealed(open)
  BY DEF Section
<1>4. Covered(open) = crc
  BY DEF Covered
<1>5. crc \in BOOLEAN \X Nat \X Nat \X Nat \X Seq(Nat)
  <2> HIDE DEF body, secLen
  <2>1. QED BY <1>1, <1>2
<1>6. open \in [table : Nat, enc : BOOLEAN, type : Nat, body : Seq(Nat), secLen : Nat,
               cmdLen : Nat, crc : {<<>>}]
  <2> HIDE DEF body, secLen
  <2>1. QED BY <1>1, <1>2
<1> HIDE DEF crc, open
<1>7. [open EXCEPT !.crc = crc] \in Sections
  BY <1>5, <1>6 DEF Sections
<1>8. QED BY <1>3, <1>4, <1>7 DEF Sealed

LEMMA SegmentationBuilt ==
  ASSUME NEW dur \in Maybe(Int), NEW segType \in Maybe(Nat), NEW upidType \in Maybe(Nat),
         NEW upid \in Maybe(UpidValues)
  PROVE  AddSegmentation(dur, segType, upidType, upid) \in Seq(Nat)
<1> DEFINE kind == Some(upidType, 12)
           bytes == IF upid = NoneNamed THEN PoisOut ELSE UpidBytes(kind, upid[1])
           type == Some(segType, 16)
           ticks == [k \in DOMAIN dur |-> dur[k] % T40]
           extra == IF type \in {52, 54, 56, 58} THEN <<0, 0>> ELSE <<>>
           body == <<1, 0, 128 + Flag(dur # NoneNamed, 64) + 32>> \o ticks
                     \o <<kind, Len(bytes) % LenMod>> \o bytes \o <<type, 0, 0>> \o extra
<1>1. kind \in Nat /\ type \in Nat
  <2> DEFINE C == Nat
  <2>1. upidType \in Maybe(C) /\ segType \in Maybe(C) /\ 12 \in C /\ 16 \in C
    OBVIOUS
  <2> HIDE DEF C
  <2>2. kind \in C /\ type \in C
    BY <2>1, Given
  <2>3. QED BY <2>2 DEF C
<1>2. bytes \in Seq(Nat)
  <2>1. upid # NoneNamed => upid[1] \in UpidValues
    BY Given
  <2>2. PoisOut \in Seq(Nat)
    BY WidthAssumption
  <2> HIDE DEF kind
  <2>3. QED BY <2>1, <2>2, UpidCells
<1>3. ticks \in Seq(Nat)
  <2>1. dur \in Seq(Int)
    BY DEF Maybe
  <2>2. Len(dur) \in Nat /\ DOMAIN dur = 1..Len(dur) /\ \A k \in 1..Len(dur) : dur[k] \in Int
    BY <2>1
  <2>3. \A k \in 1..Len(dur) : dur[k] % T40 \in Nat
    <3>1. T40 \in Nat /\ T40 > 0
      BY WidthAssumption
    <3>2. \A n \in Int : n % T40 \in Nat
      BY <3>1
    <3>3. QED BY <2>2, <3>2
  <2>4. ticks = [k \in 1..Len(dur) |-> dur[k] % T40]
    BY <2>2
  <2> HIDE DEF ticks
  <2>5. QED BY <2>2, <2>3, <2>4
<1>4. Len(bytes) \in Nat /\ Len(bytes) % LenMod \in Nat
  <2> HIDE DEF bytes
  <2>1. Len(bytes) \in Nat
    BY <1>2
  <2>2. QED BY <2>1, WidthAssumption
<1>5. body \in Seq(Nat)
  <2>1. <<1, 0, 128 + Flag(dur # NoneNamed, 64) + 32>> \in Seq(Nat)
    BY DEF Flag
  <2>2. <<kind, Len(bytes) % LenMod>> \in Seq(Nat)
    <3> HIDE DEF kind, bytes
    <3>1. QED BY <1>1, <1>4
  <2>3. <<type, 0, 0>> \in Seq(Nat)
    <3> HIDE DEF type
    <3>1. QED BY <1>1
  <2>4. extra \in Seq(Nat)
    <3> HIDE DEF type
    <3>1. QED OBVIOUS
  <2> DEFINE head == <<1, 0, 128 + Flag(dur # NoneNamed, 64) + 32>>
             named == <<kind, Len(bytes) % LenMod>>
             typed == <<type, 0, 0>>
  <2>5. body = head \o ticks \o named \o bytes \o typed \o extra
    OBVIOUS
  <2>6. head \in Seq(Nat) /\ named \in Seq(Nat) /\ typed \in Seq(Nat)
    BY <2>1, <2>2, <2>3
  <2> HIDE DEF head, ticks, named, bytes, typed, extra, body
  <2>7. QED BY <1>2, <1>3, <2>4, <2>5, <2>6, ConcatProperties
<1>6. AddSegmentation(dur, segType, upidType, upid) =
        <<Len(body) + 2, SegTag, Len(body) % LenMod>> \o body
  BY DEF AddSegmentation
<1>7. Len(body) \in Nat /\ Len(body) % LenMod \in Nat
  <2> HIDE DEF body
  <2>1. Len(body) \in Nat
    BY <1>5
  <2>2. QED BY <2>1, WidthAssumption
<1> HIDE DEF body
<1>8. <<Len(body) + 2, SegTag, Len(body) % LenMod>> \in Seq(Nat)
  BY <1>7 DEF SegTag
<1>9. QED BY <1>5, <1>6, <1>8, ConcatProperties

LEMMA Built ==
  ASSUME NEW b \in Builds PROVE BuildSection(b) \in Sections \cup {NoSection}
<1>1. /\ b.segType \in Maybe(Nat) /\ b.upidType \in Maybe(Nat)
      /\ b.upid \in Maybe(UpidValues) /\ b.dur \in Int
  BY DEF Builds
<1>2. NoneNamed \in Maybe(Int) /\ <<b.dur>> \in Maybe(Int)
  BY <1>1 DEF Maybe, NoneNamed
<1>3. CASE b.command = "time_signal"
  <2> DEFINE more == IF b.segType # NoneNamed \/ b.upidType # NoneNamed
                       THEN AddSegmentation(NoneNamed, b.segType, b.upidType, b.upid)
                       ELSE <<0>>
  <2>1. more \in Seq(Nat)
    <3>1. AddSegmentation(NoneNamed, b.segType, b.upidType, b.upid) \in Seq(Nat)
      BY <1>1, <1>2, SegmentationBuilt
    <3>2. <<0>> \in Seq(Nat)
      OBVIOUS
    <3>3. QED BY <3>1, <3>2
  <2>2. BuildSection(b) = Section(6, FALSE, <<0>>, more)
    BY <1>3 DEF BuildSection, TimeSignalSection
  <2>3. <<0>> \in Seq(Nat)
    OBVIOUS
  <2> HIDE DEF more
  <2>4. QED BY <2>1, <2>2, <2>3, SectionBuilt
<1>4. CASE b.command = "splice_insert_out"
  <2> DEFINE command == <<1, 0, 128 + 64 + 32 + 16, 1, b.dur % T33, 1>>
             more == AddSegmentation(<<b.dur>>, b.segType, b.upidType, b.upid)
  <2>1. more \in Seq(Nat)
    BY <1>1, <1>2, SegmentationBuilt
  <2>2. command \in Seq(Nat)
    <3>1. T33 \in Nat /\ T33 > 0
      BY WidthAssumption
    <3>2. b.dur % T33 \in Nat
      BY <1>1, <3>1
    <3>3. QED BY <3>2
  <2>3. BuildSection(b) = Section(5, FALSE, command, more)
    BY <1>4 DEF BuildSection, SpliceOutSection
  <2> HIDE DEF command, more
  <2>4. QED BY <2>1, <2>2, <2>3, SectionBuilt
<1>5. CASE b.command \notin {"time_signal", "splice_insert_out"}
  BY <1>5 DEF BuildSection
<1>6. QED BY <1>3, <1>4, <1>5

-----------------------------------------------------------------------------
(* Answers are signals.                                                     *)

LEMMA NoSignalIsSignal ==
    NoSignal \in Signals /\ NoAnswer \notin Signals /\ NoAnswer # NoSignal
<1>1. \A sig \in Signals : sig.text # "lost"
  BY DEF Signals
<1>2. NoAnswer.text = "lost"
  BY DEF NoAnswer
<1>3. NoSignal \in Signals
  BY DEF NoSignal, Signals
<1>4. QED BY <1>1, <1>2, <1>3

Answerable == Signals \cup {NoAnswer}

Edits == Sections \cup {NoSection, Panicked}

\* What the tools make of a signal.
LEMMA BytesTyped ==
  ASSUME NEW sig \in Signals PROVE ToBytes(sig) \in Edits
BY DEF Signals, ToBytes, Edits

LEMMA TriedTyped == ASSUME NEW raw \in Edits PROVE Tried(raw) \in Edits
BY DEF Tried, Edits

LEMMA OwnPayloadTyped ==
  ASSUME NEW o \in RuleOrders PROVE OwnPayload(o) \in Signals
<1>1. o.literal \in Signals /\ o.build \in Maybe(Builds)
  BY DEF RuleOrders
<1>2. o.build # NoneNamed => BuildSection(o.build[1]) \in Sections \cup {NoSection}
  BY <1>1, Given, Built
<1>3. QED BY <1>1, <1>2 DEF OwnPayload, Text, Signals

LEMMA PayloadTyped ==
  ASSUME signal \in Signals, NEW o \in RuleOrders, NEW edited \in Edits
  PROVE  SetPayload(o, edited) \in Answerable /\ Passed(o) \in Answerable
<1>1. Passed(o) \in Answerable
  BY OwnPayloadTyped DEF Passed, Put, Answerable
<1>2. edited \notin {NoSection, Panicked} => Text(edited) \in Signals
  BY DEF Text, Signals, Edits
<1>3. QED BY <1>1, <1>2 DEF SetPayload, Put, Answerable

LEMMA NamedTyped ==
  ASSUME NEW o \in RuleOrders
  PROVE  NamedUpid(o).type \in Maybe(Nat) /\ NamedUpid(o).value \in UpidValues
<1>1. CASE o.upid = NoneNamed
  <2>1. /\ NoneNamed \in Maybe(Nat) /\ <<>> \in Seq(Nat)
        /\ <<<<>>>> \in Maybe(Seq(Nat)) /\ NoneNamed \in Maybe(Seq(Nat))
    BY DEF NoneNamed, Maybe
  <2>2. QED BY <1>1, <2>1 DEF NamedUpid, UpidValues
<1>2. CASE o.upid # NoneNamed
  <2> DEFINE C == [type : Maybe(Nat), value : UpidValues]
  <2>1. o.upid \in Maybe(C)
    BY DEF RuleOrders
  <2>2. o.upid[1] \in C
    <3> HIDE DEF C
    <3>1. QED BY <1>2, <2>1, Given
  <2>3. QED BY <1>2, <2>2 DEF NamedUpid
<1>3. QED BY <1>1, <1>2

LEMMA UpidEditTyped ==
  ASSUME signal \in Signals, NEW o \in RuleOrders PROVE UpidEdited(o) \in Edits
<1> DEFINE s == ToBytes(signal)
           raw == RewriteUpid(s, NamedUpid(o).type, NamedUpid(o).value)
<1>1. s \in Edits
  BY BytesTyped
<1>2. CASE s \in Sections
  <2>1. raw \in Edits
    BY <1>2, NamedTyped, UpidRewritten DEF Edits
  <2>2. QED BY <2>1, TriedTyped DEF UpidEdited
<1>3. CASE s \notin Sections
  <2>1. ~IsPlain(s)
    BY <1>1, <1>3, OnlySectionsPlain DEF Edits
  <2>2. raw = NoSection
    BY <2>1, UpidUnplain
  <2> HIDE DEF raw
  <2>3. raw \in Edits
    BY <2>2 DEF Edits
  <2>4. QED BY <2>3, TriedTyped DEF UpidEdited, raw
<1>4. QED BY <1>2, <1>3

LEMMA InitTyped == Init => TypeOK
BY ConditioningAssumption DEF Init, TypeOK

LEMMA AnswerTyped ==
  ASSUME TypeOK, NEW o \in Orders \cup {Unmatched}, NEW payload, Answer(o, payload),
         signal \in Signals => payload \in Answerable
  PROVE  TypeOK'
<1>1. hops' \in 0..MaxHops
  BY ConditioningAssumption DEF TypeOK, Answer
<1>2. order' \in ContractOrders
  BY DEF Answer, ContractOrders
<1>3. signal \in Signals
  BY DEF TypeOK, Answer
<1>4. signal' \in Answerable
  BY <1>3 DEF Answer, Answerable
<1>5. QED BY <1>1, <1>2, <1>4 DEF TypeOK, Answerable

LEMMA NextTyped == TypeOK /\ [Next]_vars => TypeOK'
<1> SUFFICES ASSUME TypeOK, [Next]_vars PROVE TypeOK'
  OBVIOUS
<1>1. CASE UNCHANGED vars
  BY <1>1 DEF vars, TypeOK, ContractOrders
<1>2. CASE Fallback
  BY <1>2, AnswerTyped DEF Fallback, Answerable
<1>3. ASSUME NEW o \in Orders,
             \/ PassThrough(o) \/ Replace(o) \/ Regionalize(o) \/ Blackout(o)
             \/ SetBreak(o) \/ Extend(o) \/ Delete(o)
      PROVE  TypeOK'
  <2>1. o \in RuleOrders /\ o \in Orders \cup {Unmatched}
    BY ConditioningAssumption
  <2> DEFINE s == ToBytes(signal)
  <2>2. signal \in Signals => s \in Edits
    BY BytesTyped
  <2>3. o.limits \in Nat /\ (o.ticks # NoneNamed => o.ticks[1] \in Int)
    <3>1. o.limits \in Nat /\ o.ticks \in Maybe(Int)
      BY <2>1 DEF RuleOrders
    <3> DEFINE C == Int
    <3>2. o.ticks \in Maybe(C)
      BY <3>1
    <3>3. o.ticks # NoneNamed => o.ticks[1] \in C
      <4> HIDE DEF C
      <4>1. QED BY <3>2, Given
    <3>4. QED BY <3>1, <3>3
  <2> HIDE DEF s
  <2>4. CASE PassThrough(o)
    <3>1. signal \in Signals => Passed(o) \in Answerable
      BY <2>1, PayloadTyped DEF Edits
    <3>2. QED BY <2>1, <2>4, <3>1, AnswerTyped DEF PassThrough
  <2>5. CASE Replace(o)
    <3>1. signal \in Signals => OwnPayload(o) \in Answerable /\ SetPayload(o, UpidEdited(o)) \in Answerable
      BY <2>1, OwnPayloadTyped, UpidEditTyped, PayloadTyped DEF Answerable
    <3>2. QED BY <2>1, <2>5, <3>1, AnswerTyped DEF Replace
  <2>6. CASE Regionalize(o)
    <3>1. signal \in Signals => SetPayload(o, UpidEdited(o)) \in Answerable
      BY <2>1, UpidEditTyped, PayloadTyped
    <3>2. QED BY <2>1, <2>6, <3>1, AnswerTyped DEF Regionalize
  <2>7. CASE Blackout(o)
    <3> DEFINE raw == RewriteDelivery(s, o.limits)
    <3>1. s \in Edits => raw \in Edits
      <4>1. s \in Sections => raw \in Edits
        BY <2>3, DeliveryRewritten DEF Edits
      <4>2. s \in Edits /\ s \notin Sections => raw = NoSection
        BY OnlySectionsPlain, DeliveryUnplain DEF Edits
      <4> HIDE DEF raw
      <4>3. QED BY <4>1, <4>2 DEF Edits
    <3>2. Answer(o, SetPayload(o, Tried(raw)))
      BY <2>7 DEF Blackout, s
    <3> HIDE DEF raw
    <3>3. signal \in Signals => SetPayload(o, Tried(raw)) \in Answerable
      BY <2>1, <2>2, <3>1, TriedTyped, PayloadTyped
    <3>4. QED BY <2>1, <3>2, <3>3, AnswerTyped
  <2>8. CASE SetBreak(o)
    <3>1. o.ticks # NoneNamed => AtLeast0(o.ticks[1]) \in Nat
      BY <2>3 DEF AtLeast0
    <3>2. PICK brk \in LocateBreakDuration(s) :
            Answer(o, SetPayload(o, IF o.ticks = NoneNamed THEN NoSection
                                    ELSE Tried(RewriteBreak(s, brk, AtLeast0(o.ticks[1])))))
      BY <2>8 DEF SetBreak, s
    <3> DEFINE raw == RewriteBreak(s, brk, AtLeast0(o.ticks[1]))
               edited == IF o.ticks = NoneNamed THEN NoSection ELSE Tried(raw)
    <3>3. s \in Edits /\ o.ticks # NoneNamed => raw \in Edits
      <4>1. s \in Sections /\ o.ticks # NoneNamed => raw \in Edits
        BY <3>1, BreakRewritten DEF Edits
      <4>2. s \in Edits /\ s \notin Sections => raw = NoSection
        BY OnlySectionsPlain, UnplainKept DEF Edits
      <4> HIDE DEF raw
      <4>3. QED BY <4>1, <4>2 DEF Edits
    <3> HIDE DEF raw
    <3>4. signal \in Signals => edited \in Edits
      <4>1. NoSection \in Edits
        BY DEF Edits
      <4>2. QED BY <2>2, <3>3, <4>1, TriedTyped
    <3>5. Answer(o, SetPayload(o, edited))
      BY <3>2 DEF raw
    <3> HIDE DEF edited
    <3>6. QED BY <2>1, <3>4, <3>5, PayloadTyped, AnswerTyped
  <2>9. CASE Extend(o)
    <3>1. PICK brk \in LocateBreakDuration(s) :
            Answer(o, SetPayload(o, IF o.ticks = NoneNamed THEN NoSection
                                    ELSE Tried(AdjustBreak(s, brk, o.ticks[1]))))
      BY <2>9 DEF Extend, s
    <3> DEFINE raw == AdjustBreak(s, brk, o.ticks[1])
               edited == IF o.ticks = NoneNamed THEN NoSection ELSE Tried(raw)
    <3>2. s \in Edits /\ o.ticks # NoneNamed => raw \in Edits
      <4>1. s \in Sections /\ o.ticks # NoneNamed => raw \in Edits
        BY <2>3, BreakAdjusted DEF Edits
      <4>2. s \in Edits /\ s \notin Sections => raw = NoSection
        BY OnlySectionsPlain, UnplainKept DEF Edits
      <4> HIDE DEF raw
      <4>3. QED BY <4>1, <4>2 DEF Edits
    <3> HIDE DEF raw
    <3>3. signal \in Signals => edited \in Edits
      <4>1. NoSection \in Edits
        BY DEF Edits
      <4>2. QED BY <2>2, <3>2, <4>1, TriedTyped
    <3>4. Answer(o, SetPayload(o, edited))
      BY <3>1 DEF raw
    <3> HIDE DEF edited
    <3>5. QED BY <2>1, <3>3, <3>4, PayloadTyped, AnswerTyped
  <2>10. CASE Delete(o)
    BY <2>1, <2>10, NoSignalIsSignal, AnswerTyped DEF Delete, Answerable
  <2>11. QED BY <1>3, <2>4, <2>5, <2>6, <2>7, <2>8, <2>9, <2>10
<1>4. QED BY <1>1, <1>2, <1>3 DEF Next

\* Any sequence of servers, with any rules, any signals and whatever the widths
\* of lengths and durations: what main.rs answers, if it answers, is a section
\* with all of its fields, or text that is none.  Also of a section cut short,
\* where the duration edits index behind the bytes, no half-made one is answered.
THEOREM TypeCorrect == Spec => []TypeOK
BY InitTyped, NextTyped, PTL DEF Spec

(* A cue that is text is a signal, and an answer.                           *)
LEMMA TextIsSignal ==
  ASSUME NEW sec PROVE Text(sec) # NoSignal /\ Text(sec) # NoAnswer
<1>1. Text(sec).text = "base64" BY DEF Text
<1>2. NoSignal.text = "none" /\ NoAnswer.text = "lost" BY DEF NoSignal, NoAnswer
<1>3. QED BY <1>1, <1>2

-----------------------------------------------------------------------------
(* Both decoders say the same.                                              *)

\* What was heard of the descriptors names one of them, the last.
LEMMA LastNumber ==
  ASSUME NEW S \in SUBSET Int, NEW j \in S, \A n \in S : n <= j
  PROVE  (CHOOSE k \in S : \A n \in S : n <= k) = j
<1> DEFINE k == CHOOSE x \in S : \A n \in S : n <= x
<1>1. k \in S /\ \A n \in S : n <= k
  OBVIOUS
<1> HIDE DEF k
<1>2. k <= j /\ j <= k /\ k \in Int /\ j \in Int
  BY <1>1
<1>3. k = j
  BY <1>2
<1>4. QED BY <1>3 DEF k

LEMMA FirstNumber ==
  ASSUME NEW S \in SUBSET Int, NEW j \in S, \A n \in S : j <= n
  PROVE  (CHOOSE k \in S : \A n \in S : k <= n) = j
<1> DEFINE k == CHOOSE x \in S : \A n \in S : x <= n
<1>1. k \in S /\ \A n \in S : k <= n
  OBVIOUS
<1> HIDE DEF k
<1>2. k <= j /\ j <= k /\ k \in Int /\ j \in Int
  BY <1>1
<1>3. k = j
  BY <1>2
<1>4. QED BY <1>3 DEF k

LEMMA FactsAreShown ==
  ASSUME NEW c \in Cues PROVE FactsOf(Encode(c)) = FactsShown(TypeOf(c.cmd), c)
<1> DEFINE ds == c.descs
           n == Len(ds)
           times == c.cmd.times
           facts == FactsOf(Encode(c))
           live == {k \in DOMAIN ds : ds[k].tag = SegTag /\ ~ds[k].cancel}
           named == {k \in live : ds[k].upid # <<>>}
           last(S) == ds[CHOOSE k \in S : \A i \in S : i <= k]
           timed == IF c.cmd.type # "insert" \/ c.cmd.cancel THEN {}
                    ELSE {k \in DOMAIN times : times[k] # NoneNamed}
           typeId == IF live = {} THEN NoneNamed ELSE <<last(live).typeId>>
           upid == IF named = {} THEN NoneNamed
                   ELSE <<[type |-> last(named).upidType, bytes |-> last(named).upid]>>
           pts == IF c.cmd.type = "signal" THEN c.cmd.time
                  ELSE IF timed = {} THEN NoneNamed
                  ELSE times[CHOOSE k \in timed : \A i \in timed : k <= i]
<1>1. /\ facts \in Facts(CommandName(TypeOf(c.cmd)), facts.pts)
      /\ Shows(c.cmd, facts.pts) /\ TypeHeard(ds, n, facts) /\ UpidHeard(ds, n, facts)
  BY FactsRead DEF Heard
<1>2. DOMAIN ds = 1..n /\ n \in Nat /\ c.cmd \in Commands
  <2>1. ds \in Seq(Descriptors) /\ c.cmd \in Commands
    BY CueTyped
  <2> HIDE DEF ds
  <2>2. QED BY <2>1
<1>3. FactsShown(TypeOf(c.cmd), c) =
        [command |-> CommandName(TypeOf(c.cmd)), typeId |-> typeId, upid |-> upid, pts |-> pts]
  BY DEF FactsShown
<1>4. live = {k \in 1..n : IsLive(ds[k])} /\ named = {k \in 1..n : IsNamed(ds[k])}
  BY <1>2 DEF IsLive, IsNamed
<1> HIDE DEF facts, n, ds
<1>5. facts.typeId = typeId
  <2>1. CASE \A j \in 1..n : ~IsLive(ds[j])
    <3>1. live = {} /\ facts.typeId = NoneNamed
      BY <1>1, <1>4, <2>1 DEF TypeHeard
    <3> HIDE DEF live
    <3>2. QED BY <3>1
  <2>2. CASE \E j \in 1..n : IsLive(ds[j])
    <3>1. PICK j \in 1..n : /\ IsLive(ds[j]) /\ facts.typeId = <<ds[j].typeId>>
                            /\ \A i \in (j + 1)..n : ~IsLive(ds[i])
      BY <1>1, <2>2 DEF TypeHeard
    <3>2. j \in live /\ live \in SUBSET Int /\ \A i \in live : i <= j
      <4>1. \A i \in 1..n : i <= j \/ i \in (j + 1)..n
        BY <1>2
      <4>2. QED BY <1>4, <3>1, <4>1
    <3> HIDE DEF live
    <3>3. (CHOOSE k \in live : \A i \in live : i <= k) = j
      BY <3>2, LastNumber
    <3>4. live # {}
      BY <3>2
    <3>5. QED BY <3>1, <3>3, <3>4
  <2>3. QED BY <2>1, <2>2
<1>6. facts.upid = upid
  <2>1. CASE \A j \in 1..n : ~IsNamed(ds[j])
    <3>1. named = {} /\ facts.upid = NoneNamed
      BY <1>1, <1>4, <2>1 DEF UpidHeard
    <3> HIDE DEF named
    <3>2. QED BY <3>1
  <2>2. CASE \E j \in 1..n : IsNamed(ds[j])
    <3>1. PICK j \in 1..n : /\ IsNamed(ds[j])
                            /\ facts.upid = <<[type |-> ds[j].upidType, bytes |-> ds[j].upid]>>
                            /\ \A i \in (j + 1)..n : ~IsNamed(ds[i])
      BY <1>1, <2>2 DEF UpidHeard
    <3>2. j \in named /\ named \in SUBSET Int /\ \A i \in named : i <= j
      <4>1. \A i \in 1..n : i <= j \/ i \in (j + 1)..n
        BY <1>2
      <4>2. QED BY <1>4, <3>1, <4>1
    <3> HIDE DEF named
    <3>3. (CHOOSE k \in named : \A i \in named : i <= k) = j
      BY <3>2, LastNumber
    <3>4. named # {}
      BY <3>2
    <3>5. QED BY <3>1, <3>3, <3>4
  <2>3. QED BY <2>1, <2>2
<1>7. facts.pts = pts
  <2>1. CASE c.cmd.type = "signal"
    BY <1>1, <2>1 DEF Shows
  <2>2. CASE c.cmd.type = "insert" /\ ~c.cmd.cancel
    <3> DEFINE m == Len(times)
    <3>1. Earliest(c.cmd, m, facts.pts)
      BY <1>1, <2>2 DEF Shows
    <3>2. DOMAIN times = 1..m /\ m \in Nat
      <4>1. times \in Seq(Maybe(Nat))
        BY <1>2, <2>2, CommandTyped, InsertTyped
      <4> HIDE DEF times
      <4>2. QED BY <4>1
    <3>3. timed = {k \in 1..m : times[k] # NoneNamed}
      BY <2>2, <3>2
    <3> HIDE DEF m, timed
    <3>4. CASE \A j \in 1..m : times[j] = NoneNamed
      <4>1. timed = {} /\ facts.pts = NoneNamed
        BY <3>1, <3>3, <3>4 DEF Earliest
      <4>2. QED BY <2>2, <4>1
    <3>5. CASE \E j \in 1..m : times[j] # NoneNamed
      <4>1. PICK j \in 1..m : /\ times[j] # NoneNamed /\ facts.pts = times[j]
                              /\ \A i \in 1..(j - 1) : times[i] = NoneNamed
        BY <3>1, <3>5 DEF Earliest
      <4>2. j \in timed /\ timed \in SUBSET Int /\ \A i \in timed : j <= i
        <5>1. \A i \in 1..m : j <= i \/ i \in 1..(j - 1)
          BY <3>2
        <5>2. QED BY <3>3, <4>1, <5>1
      <4>3. (CHOOSE k \in timed : \A i \in timed : k <= i) = j
        BY <4>2, FirstNumber
      <4>4. timed # {}
        BY <4>2
      <4>5. QED BY <2>2, <4>1, <4>3, <4>4
    <3>6. QED BY <3>4, <3>5
  <2>3. CASE c.cmd.type # "signal" /\ ~(c.cmd.type = "insert" /\ ~c.cmd.cancel)
    BY <1>1, <2>3 DEF Shows
  <2>4. QED BY <2>1, <2>2, <2>3
<1>8. facts = [command |-> CommandName(TypeOf(c.cmd)), typeId |-> facts.typeId,
               upid |-> facts.upid, pts |-> facts.pts]
  BY <1>1 DEF Facts
<1> HIDE DEF typeId, upid, pts
<1>9. QED BY <1>3, <1>5, <1>6, <1>7, <1>8 DEF facts

LEMMA CueIsRead == Spec => [](cue = CueOf(signal))
<1>1. Init => cue = CueOf(signal)
  BY DEF Init
<1>2. ASSUME cue = CueOf(signal), [Next]_vars PROVE (cue = CueOf(signal))'
  <2>1. CASE UNCHANGED vars
    <3>1. cue' = cue /\ signal' = signal
      BY <2>1 DEF vars
    <3>2. QED BY <1>2, <3>1 DEF CueOf, ToBytes, Sound
  <2>2. ASSUME NEW o, NEW payload, Answer(o, payload) PROVE (cue = CueOf(signal))'
    BY <2>2 DEF Answer, CueOf, ToBytes, Sound
  <2>3. QED BY <1>2, <2>1, <2>2 DEF Next, PassThrough, Replace, Regionalize, Blackout,
               SetBreak, Extend, Delete, Fallback
<1>3. QED BY <1>1, <1>2, PTL DEF Spec

\* decode_scte35_details, which the rules and the event log go by, and
\* decode_scte35_internal, which the tools show, walk the same bytes on their
\* own.  Of every section that the tools read back they say the same: command,
\* PTS, and type and UPID of the segmentation that counts.  That leaves out the
\* sections whose lengths do not add up, and those with a DTMF descriptor whose
\* characters run out of it or a segmentation descriptor without an event id,
\* where the two part; of cues not in base64 the rules see nothing.
THEOREM DecodersSayTheSame == Spec => []DecodersAgree
<1>1. ASSUME cue = CueOf(signal) PROVE DecodersAgree
  <2> SUFFICES ASSUME cue \notin {NoCue, Opaque, Garbled, Unanswered},
                      signal.text = "base64", IsKnown(signal.sec.type)
               PROVE  FactsOf(signal.sec) = FactsShown(signal.sec.type, Decode(signal.sec))
    BY DEF DecodersAgree, FactsIn
  <2> DEFINE c == Decode(signal.sec)
  <2>1. signal # NoSignal /\ signal # NoAnswer /\ ToBytes(signal) = signal.sec
    BY DEF NoSignal, NoAnswer, ToBytes
  <2>2. cue = Sound(signal.sec, c)
    BY <1>1, <2>1 DEF CueOf
  <2>3. c \in Cues /\ signal.sec = Encode(c)
    BY <2>2 DEF Sound
  <2> HIDE DEF c
  <2>4. signal.sec.type = TypeOf(c.cmd)
    BY <2>3, EncodeForm
  <2>5. FactsOf(Encode(c)) = FactsShown(TypeOf(c.cmd), c)
    BY <2>3, FactsAreShown
  <2>6. QED BY <2>3, <2>4, <2>5 DEF c
<1>2. QED BY <1>1, CueIsRead, PTL

-----------------------------------------------------------------------------
(* What an edit writes is what the contract promises.                       *)

\* The lengths of the contract are those of the format.
LEMMA SizeOf ==
  ASSUME NEW d \in Descriptors PROVE Contract!DescriptorSize(d) = DescriptorCells(d)[2]
<1> DEFINE r == Len(d.rest)
<1>1. d.rest \in Cells /\ r \in Nat
  BY Kinds DEF Cells
<1>2. CASE d.tag # SegTag
  <2>1. DescriptorCells(d) = <<d.tag, r>> \o d.rest
    BY <1>2, PlainForm
  <2>2. DescriptorCells(d)[2] = r
    BY <1>1, <2>1, Headed, Kinds
  <2>3. Contract!DescriptorSize(d) = r
    BY <1>2 DEF Contract!DescriptorSize, Contract!SegTag, SegTag
  <2>4. QED BY <2>2, <2>3
<1>3. CASE d.tag = SegTag /\ d.cancel
  <2> DEFINE body == CancelledBody(d)
  <2>1. DescriptorCells(d) = <<SegTag, Len(body)>> \o body /\ body \in Cells /\ Len(body) = 2 + r
    BY <1>3, CancelledForm
  <2> HIDE DEF body
  <2>2. SegTag \in Nat
    BY DEF SegTag
  <2>3. DescriptorCells(d)[2] = 2 + r
    BY <2>1, <2>2, Headed
  <2>4. Contract!DescriptorSize(d) = 2 + r
    BY <1>3 DEF Contract!DescriptorSize, Contract!SegTag, SegTag
  <2>5. QED BY <2>3, <2>4
<1>4. CASE d.tag = SegTag /\ ~d.cancel
  <2> DEFINE t == TypeAt(d)
             u == UpidAt(d)
             l == Len(Components(d))
             q == Len(d.dur)
             z == Len(d.upid)
             y == IF d.components = NoneNamed THEN 0 ELSE 1 + Len(d.components[1])
  <2>1. d \in Segmentations
    BY <1>4, Kinds
  <2>2. DescriptorCells(d)[2] = t - 1 + r
    BY <2>1, SegmentationForm
  <2>3. t = u + 2 + z /\ u = 5 + l + q
    BY DEF TypeAt, UpidAt
  <2>4. l \in Nat /\ z \in Nat /\ q \in Nat
    BY <2>1, SegmentationTyped
  <2>5. l = y
    <3>1. CASE d.components = NoneNamed
      <4>1. Components(d) = <<>>
        BY <3>1 DEF Components
      <4>2. QED BY <3>1, <4>1
    <3>2. CASE d.components # NoneNamed
      <4> DEFINE one == <<Len(d.components[1])>>
                 x == d.components[1]
                 g == Len(x)
      <4>1. x \in Cells
        BY <2>1, <3>2, SegmentationTyped, Given
      <4>2. g \in Nat
        BY <4>1 DEF Cells
      <4>3. one \in Cells /\ Len(one) = 1
        <5> HIDE DEF g
        <5>1. <<g>> \in Cells /\ Len(<<g>>) = 1
          BY <4>2 DEF Cells
        <5>2. QED BY <5>1 DEF g
      <4>4. Components(d) = one \o x
        BY <3>2 DEF Components
      <4> HIDE DEF one, x
      <4>5. Len(Components(d)) = Len(one) + Len(x)
        BY <4>1, <4>3, <4>4, Joined
      <4>6. QED BY <3>2, <4>3, <4>5 DEF x
    <3>3. QED BY <3>1, <3>2
  <2>6. Contract!DescriptorSize(d) = 6 + y + q + z + r
    BY <1>4 DEF Contract!DescriptorSize, Contract!SegTag, SegTag, Contract!NoneNamed, NoneNamed
  <2> HIDE DEF t, u, l, q, z, y, r
  <2>7. t - 1 + r = 6 + y + q + z + r
    BY <1>1, <2>3, <2>4, <2>5
  <2>8. QED BY <2>2, <2>6, <2>7
<1>5. QED BY <1>2, <1>3, <1>4

LEMMA LoopSizeOf ==
  ASSUME NEW c, c.descs \in Seq(Descriptors)
  PROVE  Contract!LoopSize(c) = Len(FlattenSeq(Parts(c.descs)))
<1> DEFINE ds == c.descs
           n == Len(ds)
           z(k) == Contract!DescriptorSize(ds[k])
           size[k \in 0..Len(ds)] == IF k = 0 THEN 0 ELSE size[k - 1] + 2 + z(k)
<1>1. /\ n \in Nat /\ Parts(ds) \in Seq(Cells) /\ Len(Parts(ds)) = n
      /\ \A k \in 1..n : ds[k] \in Descriptors /\ Parts(ds)[k] = DescriptorCells(ds[k])
  BY PartsTyped
<1>2. Contract!LoopSize(c) = size[n]
  BY DEF Contract!LoopSize
<1> HIDE DEF n
<1>3. \A k \in 1..n : z(k) \in Nat /\ Len(Parts(ds)[k]) = z(k) + 2
  <2> SUFFICES ASSUME NEW k \in 1..n PROVE z(k) \in Nat /\ Len(Parts(ds)[k]) = z(k) + 2
    OBVIOUS
  <2>1. ds[k] \in Descriptors /\ Parts(ds)[k] = DescriptorCells(ds[k])
    BY <1>1
  <2>2. QED BY <2>1, SizeOf, DescriptorForm
<1> HIDE DEF ds, z, size
<1>4. PICK at : Layout(at, 1, Parts(ds))
  <2>1. 1 \in Places
    BY DEF Places
  <2>2. QED BY <1>1, <2>1, LayoutExists
<1>5. /\ at[1] = 1 /\ \A k \in 1..(n + 1) : at[k] \in Nat
      /\ \A k \in 1..n : at[k + 1] = at[k] + Len(Parts(ds)[k])
      /\ at[n + 1] = 1 + Len(FlattenSeq(Parts(ds))) /\ Len(FlattenSeq(Parts(ds))) \in Nat
  <2>1. 1 \in Places
    BY DEF Places
  <2>2. at[n + 1] = 1 + Len(FlattenSeq(Parts(ds))) /\ FlattenSeq(Parts(ds)) \in Cells
    BY <1>1, <1>4, <2>1, LayoutHas
  <2>3. Len(FlattenSeq(Parts(ds))) \in Nat
    BY <2>2, LenProperties DEF Cells
  <2>4. /\ at[1] = 1 /\ \A k \in 1..(n + 1) : at[k] \in Nat
        /\ \A k \in 1..n : at[k + 1] = at[k] + Len(Parts(ds)[k])
    BY <1>1, <1>4 DEF Layout, Places
  <2>5. QED BY <2>2, <2>3, <2>4
<1> DEFINE f == [k \in 0..n |-> at[k + 1] - 1]
<1>6. /\ f[0] = 0 /\ 0 \in 0..n
      /\ \A k \in 1..n : k # 0 /\ k \in 0..n /\ f[k] = f[k - 1] + 2 + z(k)
  <2>1. f[0] = 0 /\ 0 \in 0..n
    BY <1>1, <1>5
  <2>2. ASSUME NEW k \in 1..n PROVE k # 0 /\ k \in 0..n /\ f[k] = f[k - 1] + 2 + z(k)
    <3> DEFINE x == at[k]
               y == at[k + 1]
               v == z(k)
               w == Len(Parts(ds)[k])
    <3>1. k - 1 \in 0..n /\ k \in 0..n /\ k # 0 /\ (k - 1) + 1 = k /\ k \in 1..(n + 1)
          /\ k + 1 \in 1..(n + 1)
      BY <1>1
    <3>2. f[k] = y - 1 /\ f[k - 1] = x - 1
      BY <3>1
    <3>3. x \in Nat /\ y \in Nat /\ y = x + w /\ w = v + 2 /\ v \in Nat
      BY <1>3, <1>5, <3>1
    <3> HIDE DEF x, y, v, w, f
    <3>4. y - 1 = (x - 1) + 2 + v
      BY <3>3
    <3>5. QED BY <3>1, <3>2, <3>4 DEF v
  <2>3. QED BY <2>1, <2>2
<1>7. f = [k \in 0..n |-> IF k = 0 THEN 0 ELSE f[k - 1] + 2 + z(k)]
  <2>1. \A k \in 0..n : f[k] = IF k = 0 THEN 0 ELSE f[k - 1] + 2 + z(k)
    <3>1. \A k \in 0..n : k = 0 \/ k \in 1..n
      BY <1>1
    <3> HIDE DEF f
    <3>2. QED BY <1>6, <3>1
  <2>2. f = [k \in 0..n |-> f[k]]
    OBVIOUS
  <2> HIDE DEF f
  <2>3. QED BY <2>1, <2>2
<1> HIDE DEF f
<1>8. size = [k \in 0..n |-> IF k = 0 THEN 0 ELSE size[k - 1] + 2 + z(k)]
  BY <1>7, Zenon DEF size, n
<1>9. size[0] = 0 /\ \A k \in 1..n : size[k] = size[k - 1] + 2 + z(k)
  <2>1. 0 \in 0..n /\ \A k \in 1..n : k # 0 /\ k \in 0..n
    BY <1>6
  <2>2. QED BY <1>8, <2>1
<1>10. \A k \in Nat : k <= n => size[k] = f[k]
  <2> DEFINE S == {k \in Nat : k <= n => size[k] = f[k]}
  <2>1. 0 \in S
    BY <1>6, <1>9
  <2>2. ASSUME NEW k \in S PROVE k + 1 \in S
    <3> SUFFICES ASSUME k + 1 <= n PROVE size[k + 1] = f[k + 1]
      OBVIOUS
    <3>1. k + 1 \in 1..n /\ (k + 1) - 1 = k /\ k <= n
      BY <1>1
    <3>2. size[k] = f[k]
      BY <3>1
    <3>3. size[k + 1] = size[k] + 2 + z(k + 1) /\ f[k + 1] = f[k] + 2 + z(k + 1)
      <4>1. size[k + 1] = size[(k + 1) - 1] + 2 + z(k + 1)
              /\ f[k + 1] = f[(k + 1) - 1] + 2 + z(k + 1)
        BY <1>6, <1>9, <3>1
      <4>2. QED BY <3>1, <4>1
    <3>4. QED BY <3>2, <3>3
  <2>3. S \in SUBSET Nat
    OBVIOUS
  <2>4. S = Nat
    <3> HIDE DEF S
    <3>1. QED BY <2>1, <2>2, <2>3, Induction
  <2>5. QED BY <2>4
<1>11. f[n] = Len(FlattenSeq(Parts(ds)))
  <2>1. n \in 0..n
    BY <1>1
  <2>2. f[n] = at[n + 1] - 1
    BY <2>1 DEF f
  <2>3. QED BY <1>5, <2>2
<1>12. n <= n
  BY <1>1
<1>13. QED BY <1>1, <1>2, <1>10, <1>11, <1>12 DEF n, ds

LEMMA FitsIs ==
  ASSUME NEW c, c.descs \in Seq(Descriptors)
  PROVE  Contract!Fits(c) <=> /\ \A k \in 1..Len(c.descs) : DescriptorCells(c.descs[k])[2] < LenMod
                              /\ Len(FlattenSeq(Parts(c.descs))) < LoopMod
<1> DEFINE ds == c.descs
<1>1. DOMAIN ds = 1..Len(ds) /\ \A k \in 1..Len(ds) : ds[k] \in Descriptors
  OBVIOUS
<1>2. \A k \in 1..Len(ds) : Contract!DescriptorSize(ds[k]) = DescriptorCells(ds[k])[2]
  BY <1>1, SizeOf
<1>3. \A k \in 1..Len(ds) : Contract!IsSegmentation(ds[k]) /\ DescriptorCells(ds[k])[2] < LenMod
                             => Len(ds[k].upid) < LenMod
  <2> SUFFICES ASSUME NEW k \in 1..Len(ds), Contract!IsSegmentation(ds[k]),
                      DescriptorCells(ds[k])[2] < LenMod
               PROVE  Len(ds[k].upid) < LenMod
    OBVIOUS
  <2> DEFINE d == ds[k]
             t == TypeAt(d)
             u == UpidAt(d)
             z == Len(d.upid)
             r == Len(d.rest)
             s == DescriptorCells(d)[2]
  <2>1. d \in Descriptors /\ d.tag = SegTag /\ ~d.cancel
    BY <1>1 DEF Contract!IsSegmentation, Contract!SegTag, SegTag
  <2> HIDE DEF d
  <2>2. d \in Segmentations
    BY <2>1, Kinds
  <2>3. s = t - 1 + r /\ t = u + 2 + z
    BY <2>2, SegmentationForm DEF TypeAt
  <2>4. t \in Nat /\ u \in Nat /\ z \in Nat /\ r \in Nat /\ u >= 5
    BY <2>2, SegmentationTyped
  <2>5. s < LenMod /\ LenMod \in Nat
    BY WidthAssumption DEF d
  <2> HIDE DEF t, u, z, r, s
  <2>6. z < LenMod
    BY <2>3, <2>4, <2>5
  <2>7. QED BY <2>6 DEF z, d
<1>4. Contract!LoopSize(c) = Len(FlattenSeq(Parts(ds)))
  BY LoopSizeOf
<1> HIDE DEF ds
<1>5. Contract!Fits(c) <=>
        /\ \A k \in DOMAIN ds : /\ Contract!DescriptorSize(ds[k]) < LenMod
                                /\ Contract!IsSegmentation(ds[k]) => Len(ds[k].upid) < LenMod
        /\ Contract!LoopSize(c) < LoopMod
  BY DEF Contract!Fits, ds
<1>6. QED BY <1>1, <1>2, <1>3, <1>4, <1>5, Zenon DEF ds

LEMMA BytesAre ==
  ASSUME NEW v \in UpidValues, NEW kind
  PROVE  Contract!UpidBytes(kind, v) = UpidBytes(kind, v)
<1>1. v.hex # NoneNamed => Some(v.hex, v.text) = v.hex[1]
  BY DEF Some
<1>2. \A x, y : Contract!Some(x, y) = Some(x, y)
  BY DEF Contract!Some, Some, Contract!NoneNamed, NoneNamed
<1>3. CASE kind \in {8, 9}
  BY <1>2, <1>3 DEF Contract!UpidBytes, UpidBytes
<1>4. CASE kind = 11
  BY <1>1, <1>2, <1>4 DEF Contract!UpidBytes, UpidBytes, Contract!NoneNamed, NoneNamed
<1>5. CASE kind \notin {8, 9} /\ kind # 11
  BY <1>5 DEF Contract!UpidBytes, UpidBytes, Contract!Some, Contract!NoneNamed
<1>6. QED BY <1>3, <1>4, <1>5

LEMMA UpidPromised ==
  ASSUME NEW c \in Cues, NEW type \in Maybe(Nat), NEW v \in UpidValues,
         NEW e, e = [c EXCEPT !.descs = AllGiven(c.descs, type, v)]
  PROVE  Contract!WithUpid(c, type, v) = IF Contract!Fits(e) THEN e ELSE c
<1> DEFINE ds == c.descs
           kind(d) == Contract!Some(type, d.upidType)
           bytes(d) == Contract!UpidBytes(kind(d), v)
           told == [i \in DOMAIN ds |->
                      IF Contract!IsSegmentation(ds[i])
                        THEN IF Len(bytes(ds[i])) >= LenMod THEN ds[i]
                             ELSE [ds[i] EXCEPT !.upidType = kind(ds[i]), !.upid = bytes(ds[i])]
                        ELSE ds[i]]
<1>1. Contract!WithUpid(c, type, v) =
        IF Contract!Fits([c EXCEPT !.descs = told]) THEN [c EXCEPT !.descs = told] ELSE c
  BY DEF Contract!WithUpid, Contract!OnSegmentation
<1>2. \A d : kind(d) = Some(type, d.upidType)
  BY DEF Contract!Some, Some, Contract!NoneNamed, NoneNamed
<1>3. \A d : bytes(d) = UpidGiven(d, type, v)
  <2>1. \A k : Contract!UpidBytes(k, v) = UpidBytes(k, v)
    BY BytesAre
  <2> HIDE DEF kind
  <2>2. QED BY <1>2, <2>1 DEF UpidGiven
<1> HIDE DEF kind, bytes
<1>4. \A i \in DOMAIN ds : Contract!IsSegmentation(ds[i]) <=> IsLive(ds[i])
  BY DEF Contract!IsSegmentation, IsLive, Contract!SegTag, SegTag
<1>5. \A i \in DOMAIN ds : IsLive(ds[i]) => (Len(UpidGiven(ds[i], type, v)) >= LenMod
                                              <=> ~(Len(UpidGiven(ds[i], type, v)) < LenMod))
  <2> SUFFICES ASSUME NEW i \in DOMAIN ds, IsLive(ds[i])
               PROVE  Len(UpidGiven(ds[i], type, v)) >= LenMod
                        <=> ~(Len(UpidGiven(ds[i], type, v)) < LenMod)
    OBVIOUS
  <2> DEFINE d == ds[i]
             z == Len(UpidGiven(d, type, v))
  <2>1. d.upidType \in Nat
    <3>1. ds \in Seq(Descriptors)
      BY CueTyped
    <3> HIDE DEF ds
    <3>2. d \in Descriptors /\ d.tag = SegTag /\ ~d.cancel
      BY <3>1 DEF IsLive
    <3> HIDE DEF d
    <3>3. QED BY <3>2, Kinds, SegmentationTyped
  <2>2. Some(type, d.upidType) \in Nat
    <3> DEFINE C == Nat
               x == d.upidType
    <3>1. type \in Maybe(C) /\ x \in C
      BY <2>1
    <3> HIDE DEF C, x
    <3>2. Some(type, x) \in C
      BY <3>1, Given
    <3>3. QED BY <3>2 DEF C, x
  <2> HIDE DEF d
  <2>3. UpidGiven(d, type, v) \in Seq(Nat)
    BY <2>2, UpidCells DEF UpidGiven
  <2>4. z \in Nat /\ LenMod \in Nat
    BY <2>3, WidthAssumption
  <2> HIDE DEF z
  <2>5. z >= LenMod <=> ~(z < LenMod)
    BY <2>4
  <2>6. QED BY <2>5 DEF z, d
<1>6. told = AllGiven(ds, type, v)
  <2>1. \A i \in DOMAIN ds : told[i] = WithGiven(ds[i], type, v)
    <3> HIDE DEF ds
    <3>1. QED BY <1>2, <1>3, <1>4, <1>5 DEF WithGiven, IsRenamed, Renamed
  <2>2. told = [i \in DOMAIN ds |-> told[i]]
    OBVIOUS
  <2> HIDE DEF told, ds
  <2>3. QED BY <2>1, <2>2 DEF AllGiven
<1> HIDE DEF told
<1>7. QED BY <1>1, <1>6, Zenon

LEMMA LimitsPromised ==
  ASSUME NEW c \in Cues, NEW limits
  PROVE  Contract!WithLimits(c, limits) = Remade(c, c.cmd, AllLimited(c.descs, limits))
<1> DEFINE ds == c.descs
           told == [i \in DOMAIN ds |-> IF Contract!IsSegmentation(ds[i])
                                          THEN [ds[i] EXCEPT !.limits = <<limits>>] ELSE ds[i]]
<1>1. Contract!WithLimits(c, limits) = [c EXCEPT !.descs = told]
  BY DEF Contract!WithLimits, Contract!OnSegmentation
<1>2. \A i \in DOMAIN ds : Contract!IsSegmentation(ds[i]) <=> IsLive(ds[i])
  BY DEF Contract!IsSegmentation, IsLive, Contract!SegTag, SegTag
<1>3. told = AllLimited(ds, limits)
  BY <1>2 DEF AllLimited, Limited
<1> HIDE DEF told
<1>4. [c EXCEPT !.descs = told] = Remade(c, c.cmd, told)
  <2>1. c = [enc |-> c.enc, cmd |-> c.cmd, descs |-> c.descs, pad |-> c.pad]
    BY CueTyped
  <2>2. QED BY <2>1 DEF Remade
<1>5. QED BY <1>1, <1>3, <1>4

MappedCue(c, f) == Remade(c, BreakMapped(c.cmd, f), AllTimed(c.descs, f))

\* The two changes of a rule that maps durations, with the map as a function.
BreakTimed(c, f) ==
    IF Contract!HasBreak(c) THEN [c EXCEPT !.cmd.dur = <<f[c.cmd.dur[1]] % T33>>] ELSE c

SegmentationsTimed(c, f) ==
    [c EXCEPT !.descs = [i \in DOMAIN c.descs |->
       IF Contract!IsSegmentation(c.descs[i])
         THEN IF c.descs[i].dur = Contract!NoneNamed THEN c.descs[i]
              ELSE [c.descs[i] EXCEPT !.dur = <<f[c.descs[i].dur[1]] % T40>>]
         ELSE c.descs[i]]]

LEMMA DurationsPromised ==
  ASSUME NEW c \in Cues, NEW f
  PROVE  SegmentationsTimed(BreakTimed(c, f), f) = MappedCue(c, f)
<1> DEFINE m == BreakMapped(c.cmd, f)
           ds == c.descs
           told == [i \in DOMAIN ds |->
                      IF Contract!IsSegmentation(ds[i])
                        THEN IF ds[i].dur = Contract!NoneNamed THEN ds[i]
                             ELSE [ds[i] EXCEPT !.dur = <<f[ds[i].dur[1]] % T40>>]
                        ELSE ds[i]]
<1> DEFINE insert == BreakTimed(c, f)
           new == SegmentationsTimed(insert, f)
<1>0. insert = IF Contract!HasBreak(c) THEN [c EXCEPT !.cmd.dur = <<f[c.cmd.dur[1]] % T33>>] ELSE c
  BY DEF BreakTimed
<1> HIDE DEF insert
<1>1. c = [enc |-> c.enc, cmd |-> c.cmd, descs |-> c.descs, pad |-> c.pad]
  BY CueTyped
<1>2. insert = Remade(c, m, c.descs)
  <2>1. Contract!HasBreak(c) <=> HasBreakDuration(c.cmd)
    BY DEF Contract!HasBreak, HasBreakDuration, Contract!NoneNamed, NoneNamed
  <2>2. CASE HasBreakDuration(c.cmd)
    <3>1. m = [c.cmd EXCEPT !.dur = <<f[c.cmd.dur[1]] % T33>>]
      BY <2>2 DEF BreakMapped, Breaking
    <3>2. insert = [c EXCEPT !.cmd = [c.cmd EXCEPT !.dur = <<f[c.cmd.dur[1]] % T33>>]]
      BY <1>0, <2>1, <2>2
    <3> HIDE DEF m
    <3>3. insert = [c EXCEPT !.cmd = m]
      BY <3>1, <3>2
    <3>4. QED BY <1>1, <3>3 DEF Remade
  <2>3. CASE ~HasBreakDuration(c.cmd)
    BY <1>0, <1>1, <2>1, <2>3 DEF Remade, BreakMapped
  <2>4. QED BY <2>2, <2>3
<1>3. \A i \in DOMAIN ds : Contract!IsSegmentation(ds[i]) <=> IsLive(ds[i])
  BY DEF Contract!IsSegmentation, IsLive, Contract!SegTag, SegTag
<1>4. told = AllTimed(ds, f)
  <2>1. \A i \in DOMAIN ds : told[i] = IF IsTimed(ds[i]) THEN Lasting(ds[i], f[ds[i].dur[1]] % T40)
                                       ELSE ds[i]
    BY <1>3 DEF IsTimed, Lasting, Contract!NoneNamed, NoneNamed
  <2>2. told = [i \in DOMAIN ds |-> told[i]]
    OBVIOUS
  <2> HIDE DEF told, ds
  <2>3. QED BY <2>1, <2>2 DEF AllTimed
<1> HIDE DEF m
<1>5. insert.descs = ds
  BY <1>2 DEF Remade
<1>6. new = [insert EXCEPT !.descs = told]
  BY <1>5 DEF SegmentationsTimed
<1> HIDE DEF told, ds, new
<1>7. new = Remade(c, m, told)
  BY <1>2, <1>6 DEF Remade
<1>8. QED BY <1>4, <1>7 DEF MappedCue, m, ds, insert, new

LEMMA DurationsTyped ==
  ASSUME NEW c \in Cues
  PROVE  /\ Contract!HasBreak(c) => c.cmd.dur[1] \in Nat
         /\ \A i \in DOMAIN c.descs :
              Contract!IsSegmentation(c.descs[i]) /\ c.descs[i].dur # Contract!NoneNamed
                => c.descs[i].dur[1] \in Nat
<1>1. c.cmd \in Commands /\ c.descs \in Seq(Descriptors)
  BY CueTyped
<1> DEFINE C == Nat
<1>2. ASSUME Contract!HasBreak(c) PROVE c.cmd.dur[1] \in C
  <2> DEFINE x == c.cmd.dur
  <2>1. c.cmd.type = "insert" /\ x # NoneNamed
    BY <1>2 DEF Contract!HasBreak, Contract!NoneNamed, NoneNamed
  <2>2. c.cmd \in Inserts
    BY <1>1, <2>1, CommandTyped
  <2>3. x \in Maybe(C)
    BY <2>2, InsertTyped
  <2> HIDE DEF C, x
  <2>4. x[1] \in C
    BY <2>1, <2>3, Given
  <2>5. QED BY <2>4 DEF x
<1>3. ASSUME NEW i \in DOMAIN c.descs, Contract!IsSegmentation(c.descs[i]),
             c.descs[i].dur # Contract!NoneNamed
      PROVE  c.descs[i].dur[1] \in C
  <2> DEFINE d == c.descs[i]
             x == d.dur
  <2>1. d \in Descriptors
    BY <1>1
  <2>2. d.tag = SegTag /\ ~d.cancel /\ x # NoneNamed
    BY <1>3 DEF Contract!IsSegmentation, Contract!SegTag, SegTag, Contract!NoneNamed, NoneNamed
  <2> HIDE DEF d
  <2>3. d \in Segmentations
    BY <2>1, <2>2, Kinds
  <2>4. x \in Maybe(C)
    BY <2>3, SegmentationTyped
  <2> HIDE DEF C, x
  <2>5. x[1] \in C
    BY <2>2, <2>4, Given
  <2>6. QED BY <2>5 DEF x, d
<1>4. QED BY <1>2, <1>3

\* shorten and fill.
LEMMA TicksPromised ==
  ASSUME NEW c \in Cues, NEW ticks
  PROVE  Contract!WithDurations(c, LAMBDA t : Contract!AtLeast0(ticks))
           = MappedCue(c, [t \in Nat |-> AtLeast0(ticks)])
<1> DEFINE f == [t \in Nat |-> AtLeast0(ticks)]
           g(t) == Contract!AtLeast0(ticks)
           insert == IF Contract!HasBreak(c)
                       THEN [c EXCEPT !.cmd.dur = <<g(c.cmd.dur[1]) % T33>>] ELSE c
           new == [insert EXCEPT !.descs = [i \in DOMAIN insert.descs |->
                     IF Contract!IsSegmentation(insert.descs[i])
                       THEN IF insert.descs[i].dur = Contract!NoneNamed THEN insert.descs[i]
                            ELSE [insert.descs[i] EXCEPT
                                    !.dur = <<g(insert.descs[i].dur[1]) % T40>>]
                       ELSE insert.descs[i]]]
           insert1 == BreakTimed(c, f)
           new1 == SegmentationsTimed(insert1, f)
<1>1. Contract!WithDurations(c, LAMBDA t : Contract!AtLeast0(ticks)) = new
  BY DEF Contract!WithDurations, Contract!OnSegmentation
<1>2. \A t \in Nat : f[t] = g(t)
  BY DEF AtLeast0, Contract!AtLeast0
<1> HIDE DEF f, g
<1>3. insert1 = insert
  BY <1>2, DurationsTyped DEF BreakTimed
<1>4. insert.descs = c.descs
  BY CueTyped
<1> HIDE DEF insert, insert1
<1>5. new1 = new
  BY <1>2, <1>3, <1>4, DurationsTyped DEF SegmentationsTimed
<1>6. new1 = MappedCue(c, f)
  BY DurationsPromised DEF insert1
<1> HIDE DEF new, new1
<1>7. QED BY <1>1, <1>5, <1>6 DEF f

\* extend.
LEMMA DeltaPromised ==
  ASSUME NEW c \in Cues, NEW delta
  PROVE  Contract!WithDurations(c, LAMBDA t : Contract!AtLeast0(t + delta))
           = MappedCue(c, [t \in Nat |-> AtLeast0(t + delta)])
<1> DEFINE f == [t \in Nat |-> AtLeast0(t + delta)]
           g(t) == Contract!AtLeast0(t + delta)
           insert == IF Contract!HasBreak(c)
                       THEN [c EXCEPT !.cmd.dur = <<g(c.cmd.dur[1]) % T33>>] ELSE c
           new == [insert EXCEPT !.descs = [i \in DOMAIN insert.descs |->
                     IF Contract!IsSegmentation(insert.descs[i])
                       THEN IF insert.descs[i].dur = Contract!NoneNamed THEN insert.descs[i]
                            ELSE [insert.descs[i] EXCEPT
                                    !.dur = <<g(insert.descs[i].dur[1]) % T40>>]
                       ELSE insert.descs[i]]]
           insert1 == BreakTimed(c, f)
           new1 == SegmentationsTimed(insert1, f)
<1>1. Contract!WithDurations(c, LAMBDA t : Contract!AtLeast0(t + delta)) = new
  BY DEF Contract!WithDurations, Contract!OnSegmentation
<1>2. \A t \in Nat : f[t] = g(t)
  BY DEF AtLeast0, Contract!AtLeast0
<1> HIDE DEF f, g
<1>3. insert1 = insert
  BY <1>2, DurationsTyped DEF BreakTimed
<1>4. insert.descs = c.descs
  BY CueTyped
<1> HIDE DEF insert, insert1
<1>5. new1 = new
  BY <1>2, <1>3, <1>4, DurationsTyped DEF SegmentationsTimed
<1>6. new1 = MappedCue(c, f)
  BY DurationsPromised DEF insert1
<1> HIDE DEF new, new1
<1>7. QED BY <1>1, <1>5, <1>6 DEF f

\* An edit leaves the header as it is, but for the lengths.
IsEdit(s, r) ==
    r \in {NoSection, Panicked} \/ (r.table = s.table /\ r.enc = s.enc /\ r.type = s.type)

LEMMA HeaderKept ==
  ASSUME NEW s \in Sections, NEW type, NEW v, NEW limits, NEW brk, NEW ticks \in Nat,
         NEW delta \in Int
  PROVE  /\ IsEdit(s, RewriteUpid(s, type, v)) /\ IsEdit(s, RewriteDelivery(s, limits))
         /\ IsEdit(s, RewriteBreak(s, brk, ticks)) /\ IsEdit(s, AdjustBreak(s, brk, delta))
<1>1. \A body, secLen : IsEdit(s, Sealed([s EXCEPT !.body = body, !.secLen = secLen]))
  <2> SUFFICES ASSUME NEW body, NEW secLen
               PROVE  IsEdit(s, Sealed([s EXCEPT !.body = body, !.secLen = secLen]))
    OBVIOUS
  <2> DEFINE r == [s EXCEPT !.body = body, !.secLen = secLen]
  <2>1. DOMAIN r = {"table", "enc", "type", "body", "secLen", "cmdLen", "crc"}
          /\ r.table = s.table /\ r.enc = s.enc /\ r.type = s.type
    BY DEF Sections
  <2> HIDE DEF r
  <2>2. QED BY <2>1 DEF Sealed, IsEdit, r
<1>2. \A body : IsEdit(s, Sealed([s EXCEPT !.body = body]))
  <2> SUFFICES ASSUME NEW body PROVE IsEdit(s, Sealed([s EXCEPT !.body = body]))
    OBVIOUS
  <2> DEFINE r == [s EXCEPT !.body = body]
  <2>1. DOMAIN r = {"table", "enc", "type", "body", "secLen", "cmdLen", "crc"}
          /\ r.table = s.table /\ r.enc = s.enc /\ r.type = s.type
    BY DEF Sections
  <2> HIDE DEF r
  <2>2. QED BY <2>1 DEF Sealed, IsEdit, r
<1>3. IsEdit(s, NoSection) /\ IsEdit(s, Panicked)
  BY DEF IsEdit
<1>4. IsEdit(s, RewriteUpid(s, type, v))
  BY <1>1, <1>3, Zenon DEF RewriteUpid, RewriteUpidIn, ReplaceLoop, WithLoop
<1>5. IsEdit(s, RewriteDelivery(s, limits))
  BY <1>2, <1>3, Zenon DEF RewriteDelivery, RewriteDeliveryIn
<1>6. \A f : IsEdit(s, MappedSection(s, brk, f))
  BY <1>2, <1>3, MappedForm, Zenon DEF MappedIf, Resealed
<1>7. IsEdit(s, RewriteBreak(s, brk, ticks)) /\ IsEdit(s, AdjustBreak(s, brk, delta))
  BY <1>6, BreakMaps, Zenon
<1>8. QED BY <1>4, <1>5, <1>7

\* What a cue can be: none, no section, one of an unknown command, one of which
\* the signal is the section, or garbled.
LEMMA CueKinds ==
  ASSUME signal \in Signals, NEW c, c = CueOf(signal), NEW s, s = ToBytes(signal)
  PROVE  \/ c = NoCue /\ signal = NoSignal /\ s = NoSection /\ ~IsPlain(s)
         \/ c = Opaque /\ signal # NoSignal /\ ~IsPlain(s)
         \/ /\ c = [enc |-> s.enc, cmd |-> [type |-> "private"], pad |-> s.body]
            /\ c \in PrivateCues /\ signal # NoSignal /\ s \in Sections
            /\ s.table = 252 /\ ~IsKnown(s.type)
         \/ c \in Cues /\ signal # NoSignal /\ s \in Sections /\ s = Encode(c)
         \/ /\ c = Garbled /\ signal # NoSignal /\ s \in Sections
            /\ s.table = 252 /\ IsKnown(s.type)
<1>1. signal # NoAnswer
  BY NoSignalIsSignal
<1>2. CASE signal = NoSignal
  BY <1>2 DEF CueOf, ToBytes, NoSignal, NoSection, IsPlain
<1>3. CASE signal # NoSignal /\ s.table # 252
  BY <1>1, <1>3 DEF CueOf, IsPlain
<1>4. CASE signal # NoSignal /\ s.table = 252
  <2>1. s \in Sections /\ s = signal.sec
    BY <1>4 DEF ToBytes, NoSection, Panicked, Signals
  <2>2. CASE ~IsKnown(s.type)
    <3>1. c = [enc |-> s.enc, cmd |-> [type |-> "private"], pad |-> s.body]
      BY <1>1, <1>4, <2>1, <2>2 DEF CueOf
    <3>2. s.enc \in BOOLEAN /\ s.body \in Seq(Nat)
      BY <2>1 DEF Sections
    <3>3. QED BY <1>4, <2>1, <2>2, <3>1, <3>2 DEF PrivateCues
  <2>3. CASE IsKnown(s.type)
    <3>1. c = Sound(s, Decode(s))
      BY <1>1, <1>4, <2>1, <2>3 DEF CueOf
    <3>2. QED BY <1>4, <2>1, <2>3, <3>1 DEF Sound
  <2>4. QED BY <2>2, <2>3
<1>5. QED BY <1>2, <1>3, <1>4

LEMMA CueOfSection ==
  ASSUME NEW e \in Cues PROVE CueOf(Text(Encode(e))) = e
<1>1. Text(Encode(e)) # NoSignal /\ Text(Encode(e)) # NoAnswer
  BY TextIsSignal
<1>2. ToBytes(Text(Encode(e))) = Encode(e) /\ Text(Encode(e)).sec = Encode(e)
  BY DEF ToBytes, Text
<1>3. Encode(e).table = 252 /\ IsKnown(Encode(e).type)
  BY EncodeForm
<1>4. CueOf(Text(Encode(e))) = Sound(Encode(e), Decode(Encode(e)))
  BY <1>1, <1>2, <1>3 DEF CueOf
<1>5. QED BY <1>4, RoundTrip DEF Sound

LEMMA CueOfPrivate ==
  ASSUME NEW r, r.table = 252, ~IsKnown(r.type)
  PROVE  CueOf(Text(r)) = [enc |-> r.enc, cmd |-> [type |-> "private"], pad |-> r.body]
<1>1. Text(r) # NoSignal /\ Text(r) # NoAnswer
  BY TextIsSignal
<1>2. ToBytes(Text(r)) = r /\ Text(r).sec = r
  BY DEF ToBytes, Text
<1>3. QED BY <1>1, <1>2 DEF CueOf

Ticks40(dur) == [k \in DOMAIN dur |-> dur[k] % T40]

LEMMA TicksCut ==
  ASSUME NEW dur \in Maybe(Int)
  PROVE  Ticks40(dur) \in Maybe(Nat) /\ (Ticks40(dur) = NoneNamed <=> dur = NoneNamed)
<1> DEFINE ticks == [k \in DOMAIN dur |-> dur[k] % T40]
           z == Len(dur)
<1>1. dur \in Seq(Int) /\ z <= 1
  BY DEF Maybe
<1>2. z \in Nat /\ DOMAIN dur = 1..z /\ \A k \in 1..z : dur[k] \in Int
  BY <1>1
<1>3. \A n \in Int : n % T40 \in Nat
  BY WidthAssumption
<1>4. ticks = [k \in 1..z |-> dur[k] % T40]
  BY <1>2
<1> HIDE DEF z, ticks
<1>5. ticks \in Seq(Nat) /\ Len(ticks) = z
  BY <1>2, <1>3, <1>4
<1>6. dur = <<>> <=> z = 0
  BY <1>1, EmptySeq DEF z
<1>7. ticks = <<>> <=> z = 0
  BY <1>5, EmptySeq
<1>8. QED BY <1>1, <1>5, <1>6, <1>7 DEF Maybe, ticks, NoneNamed, Ticks40

\* The cells of a new descriptor, with the length of the loop before them.
Added(d, extra) ==
    LET body == <<1, 0, 128 + Flag(d.dur # NoneNamed, 64) + 32>> \o d.dur
                  \o <<d.upidType, Len(d.upid) % LenMod>> \o d.upid
                  \o <<d.typeId, 0, 0>> \o extra
    IN <<Len(body) + 2, SegTag, Len(body) % LenMod>> \o body

LEMMA ModSmall == \A n \in Nat, m \in Nat \ {0} : n < m => n % m = n
OBVIOUS

SegmentationBody(d) ==
    <<d.id, 0, SegFlags(d)>> \o Components(d) \o d.dur \o <<d.upidType, Len(d.upid)>>
      \o d.upid \o <<d.typeId>> \o d.rest

LEMMA SegmentationIs ==
  ASSUME NEW d \in Segmentations
  PROVE  DescriptorCells(d) = <<SegTag, Len(SegmentationBody(d))>> \o SegmentationBody(d)
<1> DEFINE body == <<d.id, 0, SegFlags(d)>> \o Components(d) \o d.dur
                     \o <<d.upidType, Len(d.upid)>> \o d.upid \o <<d.typeId>> \o d.rest
<1>1. DescriptorCells(d) = <<SegTag, Len(body)>> \o body
  BY SegmentationTyped DEF DescriptorCells, Components, SegFlags
<1>2. body = SegmentationBody(d)
  BY DEF SegmentationBody
<1> HIDE DEF body
<1>3. QED BY <1>1, <1>2

LEMMA AddedForm ==
  ASSUME NEW d \in Segmentations, d.id = 1, d.components = NoneNamed, d.limits = NoneNamed,
         NEW extra \in Cells, <<d.typeId, 0, 0>> \o extra = <<d.typeId>> \o d.rest,
         Len(d.upid) < LenMod, DescriptorCells(d)[2] < LenMod
  PROVE  Added(d, extra) = <<Len(DescriptorCells(d))>> \o DescriptorCells(d)
<1> DEFINE flags == SegFlags(d)
           z == Len(d.upid)
           s1 == <<1, 0, flags>>
           s2 == d.dur
           s3 == <<d.upidType, z>>
           s4 == d.upid
           s5 == <<d.typeId, 0, 0>>
           s6 == <<d.typeId>>
           s7 == d.rest
           x == s1 \o s2 \o s3 \o s4
           body == x \o s5 \o extra
           form == x \o s6 \o s7
           y == Len(form)
<1>1. /\ s2 \in Cells /\ s4 \in Cells /\ s7 \in Cells /\ z \in Nat /\ flags \in Nat
      /\ d.upidType \in Nat /\ d.typeId \in Nat
  BY SegmentationTyped
<1>2. flags = 128 + Flag(d.dur # NoneNamed, 64) + 32 /\ Components(d) = <<>>
  BY DEF SegFlags, Components, Flag
<1>3. s1 \in Cells /\ s3 \in Cells /\ s5 \in Cells /\ s6 \in Cells
  <2> HIDE DEF flags, z
  <2>1. QED BY <1>1 DEF Cells
<1>4. z % LenMod = z
  <2> HIDE DEF z
  <2>1. z < LenMod
    BY DEF z
  <2>2. LenMod \in Nat \ {0}
    BY WidthAssumption
  <2>3. QED BY <1>1, <2>1, <2>2, ModSmall
<1>5. Added(d, extra) = <<Len(body) + 2, SegTag, Len(body) % LenMod>> \o body
  <2> HIDE DEF flags
  <2>1. Added(d, extra) =
          LET more == <<1, 0, flags>> \o d.dur \o <<d.upidType, z % LenMod>> \o d.upid
                        \o <<d.typeId, 0, 0>> \o extra
          IN <<Len(more) + 2, SegTag, Len(more) % LenMod>> \o more
    BY <1>2 DEF Added
  <2> HIDE DEF z
  <2>2. QED BY <1>4, <2>1
<1>6. DescriptorCells(d) = <<SegTag, y>> \o form
  <2> DEFINE new == SegmentationBody(d)
  <2>1. DescriptorCells(d) = <<SegTag, Len(new)>> \o new
    BY SegmentationIs
  <2>2. s1 \o <<>> = s1
    BY <1>3 DEF Cells
  <2>3. new = s1 \o <<>> \o s2 \o s3 \o s4 \o s6 \o s7
    BY <1>2 DEF SegmentationBody
  <2> HIDE DEF new, s1, s2, s3, s4, s5, s6, s7
  <2>4. QED BY <2>1, <2>2, <2>3
<1> HIDE DEF s1, s2, s3, s4
<1>7. x \in Cells
  <2>1. s1 \o s2 \in Cells
    BY <1>1, <1>3, Joined
  <2>2. s1 \o s2 \o s3 \in Cells
    BY <1>3, <2>1, Joined
  <2>3. QED BY <1>1, <2>2, Joined
<1> HIDE DEF x
<1>8. body = form
  <2>1. (x \o s5) \o extra = x \o (s5 \o extra)
    BY <1>3, <1>7, Regrouped
  <2>2. (x \o s6) \o s7 = x \o (s6 \o s7)
    BY <1>1, <1>3, <1>7, Regrouped, ZenonT(30)
  <2>3. s5 \o extra = s6 \o s7
    OBVIOUS
  <2> HIDE DEF s5, s6, s7
  <2>4. QED BY <2>1, <2>2, <2>3
<1> HIDE DEF s5, s6, s7
<1>9. form \in Cells
  <2>1. x \o s6 \in Cells
    BY <1>3, <1>7, Joined
  <2>2. QED BY <1>1, <2>1, Joined
<1> HIDE DEF form, body
<1>10. y \in Nat /\ SegTag \in Nat
  BY <1>9 DEF Cells, SegTag
<1>11. DescriptorCells(d)[2] = y /\ Len(DescriptorCells(d)) = y + 2
  BY <1>6, <1>9, <1>10, Headed
<1>12. y < LenMod
  BY <1>11
<1> HIDE DEF y
<1>13. y % LenMod = y
  <2>1. LenMod \in Nat \ {0}
    BY WidthAssumption
  <2>2. QED BY <1>10, <1>12, <2>1, ModSmall
<1>14. <<y + 2, SegTag, y>> = <<y + 2>> \o <<SegTag, y>>
  BY <1>10
<1>15. <<y + 2>> \in Cells /\ <<SegTag, y>> \in Cells
  BY <1>10 DEF Cells
<1>16. (<<y + 2>> \o <<SegTag, y>>) \o form = <<y + 2>> \o (<<SegTag, y>> \o form)
  BY <1>9, <1>15, Regrouped
<1>17. Len(body) = y
  BY <1>8 DEF y
<1>18. QED BY <1>5, <1>6, <1>8, <1>11, <1>13, <1>14, <1>16, <1>17, Zenon

\* add_segmentation_descriptor writes the descriptor that the contract names.
LEMMA BuiltDescribed ==
  ASSUME NEW b \in Builds, NEW dur \in Maybe(Int),
         NEW d, d = Contract!BuiltDescriptor(b, Ticks40(dur))
  PROVE  /\ d \in Segmentations
         /\ AddSegmentation(dur, b.segType, b.upidType, b.upid) \in Cells
         /\ Len(d.upid) < LenMod /\ DescriptorCells(d)[2] < LenMod =>
              AddSegmentation(dur, b.segType, b.upidType, b.upid)
                = <<Len(DescriptorCells(d))>> \o DescriptorCells(d)
<1> DEFINE ticks == Ticks40(dur)
           kind == Some(b.upidType, 12)
           type == Some(b.segType, 16)
           bytes == IF b.upid = NoneNamed THEN PoisOut ELSE UpidBytes(kind, b.upid[1])
           rest == IF type \in {52, 54, 56, 58} THEN <<0, 0, 0, 0>> ELSE <<0, 0>>
           extra == IF type \in {52, 54, 56, 58} THEN <<0, 0>> ELSE <<>>
<1>1. /\ b.segType \in Maybe(Nat) /\ b.upidType \in Maybe(Nat) /\ b.upid \in Maybe(UpidValues)
  BY DEF Builds
<1>2. kind \in Nat /\ type \in Nat
  <2> DEFINE C == Nat
  <2>1. b.upidType \in Maybe(C) /\ b.segType \in Maybe(C) /\ 12 \in C /\ 16 \in C
    BY <1>1
  <2> HIDE DEF C
  <2>2. kind \in C /\ type \in C
    BY <2>1, Given
  <2>3. QED BY <2>2 DEF C
<1>3. bytes \in Cells
  <2>1. b.upid # NoneNamed => b.upid[1] \in UpidValues
    BY <1>1, Given
  <2>2. PoisOut \in Seq(Nat)
    BY WidthAssumption
  <2> HIDE DEF kind
  <2>3. bytes \in Seq(Nat)
    BY <1>2, <2>1, <2>2, UpidCells
  <2> HIDE DEF bytes
  <2>4. QED BY <2>3 DEF Cells
<1>4. ticks \in Maybe(Nat) /\ (ticks = NoneNamed <=> dur = NoneNamed)
  BY TicksCut
<1>5. d = [tag |-> SegTag, id |-> 1, cancel |-> FALSE, components |-> NoneNamed, dur |-> ticks,
           limits |-> NoneNamed, upidType |-> kind, upid |-> bytes, typeId |-> type, rest |-> rest]
  <2>1. \A x, y : Contract!Some(x, y) = Some(x, y)
    BY DEF Contract!Some, Some, Contract!NoneNamed, NoneNamed
  <2>2. b.upid # NoneNamed => Contract!UpidBytes(kind, b.upid[1]) = UpidBytes(kind, b.upid[1])
    <3>1. b.upid # NoneNamed => b.upid[1] \in UpidValues
      BY <1>1, Given
    <3> HIDE DEF kind
    <3>2. QED BY <3>1, BytesAre
  <2>3. Contract!SegTag = SegTag /\ Contract!NoneNamed = NoneNamed
    BY DEF Contract!SegTag, SegTag, Contract!NoneNamed, NoneNamed
  <2>4. QED BY <2>1, <2>2, <2>3, Zenon DEF Contract!BuiltDescriptor
<1>6. rest \in Cells /\ extra \in Cells /\ Len(rest) >= 2
  <2> HIDE DEF type
  <2>1. QED BY DEF Cells
<1>7. <<type, 0, 0>> \o extra = <<type>> \o rest
  <2> HIDE DEF type
  <2>1. QED BY <1>2
<1>8. NoneNamed \in Maybe(Seq(Nat)) /\ NoneNamed \in Maybe(0..31)
  BY DEF Maybe, NoneNamed
<1> HIDE DEF kind, type, bytes, rest, extra, ticks
<1>9. d \in Segmentations
  <2>1. bytes \in Seq(Nat) /\ rest \in Seq(Nat)
    BY <1>3, <1>6 DEF Cells
  <2>2. d \in [tag : {SegTag}, id : Nat, cancel : {FALSE}, components : Maybe(Seq(Nat)),
               dur : Maybe(Nat), limits : Maybe(0..31), upidType : Nat, upid : Seq(Nat),
               typeId : Nat, rest : Seq(Nat)]
    BY <1>2, <1>4, <1>5, <1>8, <2>1
  <2>3. d.rest = rest
    BY <1>5
  <2>4. QED BY <1>6, <2>2, <2>3 DEF Segmentations
<1>9a. /\ d.id = 1 /\ d.components = NoneNamed /\ d.dur = ticks /\ d.limits = NoneNamed
       /\ d.upidType = kind /\ d.upid = bytes /\ d.typeId = type /\ d.rest = rest
  BY <1>5
<1>10. AddSegmentation(dur, b.segType, b.upidType, b.upid) = Added(d, extra)
  <2> DEFINE more == <<1, 0, 128 + Flag(dur # NoneNamed, 64) + 32>> \o ticks
                       \o <<kind, Len(bytes) % LenMod>> \o bytes \o <<type, 0, 0>> \o extra
  <2>1. AddSegmentation(dur, b.segType, b.upidType, b.upid)
          = <<Len(more) + 2, SegTag, Len(more) % LenMod>> \o more
    BY DEF AddSegmentation, kind, type, bytes, extra, ticks, Ticks40
  <2> HIDE DEF ticks
  <2>2. (dur # NoneNamed) = (d.dur # NoneNamed)
    BY <1>4, <1>9a
  <2>3. more = <<1, 0, 128 + Flag(d.dur # NoneNamed, 64) + 32>> \o d.dur
                 \o <<d.upidType, Len(d.upid) % LenMod>> \o d.upid \o <<d.typeId, 0, 0>> \o extra
    BY <1>9a, <2>2
  <2> HIDE DEF more
  <2>4. QED BY <2>1, <2>3, ZenonT(30) DEF Added
<1>11. <<d.typeId, 0, 0>> \o extra = <<d.typeId>> \o d.rest
  BY <1>7, <1>9a
<1>12. AddSegmentation(dur, b.segType, b.upidType, b.upid) \in Cells
  BY <1>1, SegmentationBuilt DEF Cells
<1>13. QED BY <1>6, <1>9, <1>9a, <1>10, <1>11, <1>12, AddedForm

LEMMA FlatOne ==
  /\ FlattenSeq(<<>>) = <<>>
  /\ \A q \in Cells : FlattenSeq(<<q>>) = q
<1>1. FlattenSeq(<<>>) = <<>>
  <2>1. <<>> \in Seq(Seq(Nat)) /\ Len(<<>>) = 0
    OBVIOUS
  <2>2. PICK F \in [0..Len(<<>>) -> Seq(Nat)] : F[0] = <<>> /\ F[Len(<<>>)] = FlattenSeq(<<>>)
    BY <2>1, Flat
  <2>3. QED BY <2>1, <2>2
<1>2. ASSUME NEW q \in Cells PROVE FlattenSeq(<<q>>) = q
  <2> DEFINE s == <<q>>
  <2>1. q \in Seq(Nat)
    BY DEF Cells
  <2>2. s \in Seq(Seq(Nat)) /\ Len(s) = 1 /\ s[1] = q
    BY <2>1
  <2> HIDE DEF s
  <2>3. PICK F \in [0..Len(s) -> Seq(Nat)] :
           /\ F[0] = <<>> /\ F[Len(s)] = FlattenSeq(s)
           /\ \A k \in 1..Len(s) : F[k] = F[k - 1] \o s[k]
    BY <2>2, Flat
  <2>4. 1 \in 1..Len(s) /\ 1 - 1 = 0
    BY <2>2
  <2>5. F[1] = F[0] \o s[1]
    BY <2>3, <2>4
  <2>6. <<>> \o q = q
    BY <2>1
  <2>7. QED BY <2>2, <2>3, <2>5, <2>6 DEF s
<1>3. QED BY <1>1, <1>2

\* A cue without alignment stuffing.
Fresh(m, ds) == [enc |-> FALSE, pad |-> <<0, <<>>>>, cmd |-> m, descs |-> ds]

LEMMA FreshEncoded ==
  ASSUME NEW m \in Commands, NEW ds \in Seq(Descriptors), NEW loop, loop = FlattenSeq(Parts(ds))
  PROVE  /\ loop \in Cells
         /\ Encode(Fresh(m, ds)) = Section(TypeOf(m), FALSE, CommandCells(m), <<Len(loop)>> \o loop)
         /\ Contract!Fits(Fresh(m, ds)) => Fresh(m, ds) \in Cues
<1> DEFINE c == Fresh(m, ds)
           z == Len(loop)
<1>1. c.enc = FALSE /\ c.cmd = m /\ c.descs = ds /\ c.pad[1] = 0 /\ c.pad[2] = <<>>
  BY DEF Fresh
<1>2. c \in [enc : BOOLEAN, cmd : Commands, descs : Seq(Descriptors), pad : Nat \X Seq(Nat)]
  <2>1. <<0, <<>>>> \in Nat \X Seq(Nat)
    <3> DEFINE C == Seq(Nat)
               none == <<>>
    <3>1. none \in C
      OBVIOUS
    <3> HIDE DEF C, none
    <3>2. <<0, none>> \in Nat \X C
      BY <3>1
    <3>3. QED BY <3>2 DEF C, none
  <2>2. QED BY <2>1 DEF Fresh
<1>3. loop \in Cells /\ z \in Nat
  <2>1. Parts(ds) \in Seq(Cells)
    BY PartsTyped
  <2>2. loop \in Seq(Nat)
    BY <2>1, Flattened DEF Cells
  <2>3. QED BY <2>2 DEF Cells
<1> HIDE DEF c
<1>4. LoopCells(c) = loop
  BY <1>1 DEF LoopCells, Parts
<1>5. Encode(c) = Section(TypeOf(m), FALSE, CommandCells(m), <<0 * LoopMod + z>> \o loop \o <<>>)
  BY <1>1, <1>4 DEF Encode
<1>6. <<0 * LoopMod + z>> \o loop \o <<>> = <<z>> \o loop
  <2> HIDE DEF z
  <2>1. 0 * LoopMod + z = z
    <3>1. LoopMod \in Nat
      BY WidthAssumption
    <3>2. QED BY <1>3, <3>1
  <2>2. <<z>> \in Cells
    BY <1>3 DEF Cells
  <2>3. <<z>> \o loop \in Cells
    BY <1>3, <2>2, Joined
  <2>4. (<<z>> \o loop) \o <<>> = <<z>> \o loop
    BY <2>3 DEF Cells
  <2>5. QED BY <2>1, <2>4
<1>7. Contract!Fits(c) => c \in Cues
  <2>1. DOMAIN ds = 1..Len(ds)
    OBVIOUS
  <2>2. Contract!Fits(c) => /\ \A k \in 1..Len(c.descs) : DescriptorCells(c.descs[k])[2] < LenMod
                            /\ Len(FlattenSeq(Parts(c.descs))) < LoopMod
    BY <1>1, FitsIs
  <2>3. QED BY <1>1, <1>2, <1>4, <2>1, <2>2 DEF Cues
<1>8. QED BY <1>3, <1>5, <1>6, <1>7, Zenon DEF c

\* The command of a splice_insert that is built.
OutCommand(t) ==
    [type |-> "insert", event |-> 1, cancel |-> FALSE, out |-> TRUE, program |-> TRUE,
     imm |-> TRUE, tags |-> <<>>, times |-> <<>>, auto |-> 1, dur |-> <<t>>, ids |-> 1]

LEMMA OutJoined ==
  ASSUME NEW f \in Nat, NEW t \in Nat
  PROVE  <<1, 0, f>> \o <<1, t>> \o <<1>> = <<1, 0, f, 1, t, 1>>
<1> DEFINE r == <<1, 0, f>> \o <<1, t>>
           q == <<1, 0, f, 1, t>> \o <<1>>
<1>1. r \in Seq(Nat) /\ Len(r) = 5 /\ r[1] = 1 /\ r[2] = 0 /\ r[3] = f /\ r[4] = 1 /\ r[5] = t
  OBVIOUS
<1> HIDE DEF r
<1>2. r = <<1, 0, f, 1, t>>
  BY <1>1
<1>3. q \in Seq(Nat) /\ Len(q) = 6 /\ q[1] = 1 /\ q[2] = 0 /\ q[3] = f /\ q[4] = 1 /\ q[5] = t
        /\ q[6] = 1
  OBVIOUS
<1> HIDE DEF q
<1>4. q = <<1, 0, f, 1, t, 1>>
  BY <1>3
<1>5. QED BY <1>2, <1>4 DEF q, r

LEMMA OutCells ==
  ASSUME NEW t \in Nat
  PROVE  /\ OutCommand(t) \in Commands /\ TypeOf(OutCommand(t)) = 5
         /\ CommandCells(OutCommand(t)) = <<1, 0, 128 + 64 + 32 + 16, 1, t, 1>>
<1> DEFINE m == OutCommand(t)
<1>1. m \in Inserts
  <2>1. <<>> \in Seq(Nat) /\ <<>> \in Seq(Maybe(Nat)) /\ <<t>> \in Maybe(Nat) /\ Len(<<>>) = 0
    BY DEF Maybe
  <2>2. 0 < LenMod
    BY WidthAssumption
  <2>3. m \in [type : {"insert"}, event : Nat, cancel : {FALSE}, out : BOOLEAN,
               program : BOOLEAN, imm : BOOLEAN, tags : Seq(Nat), times : Seq(Maybe(Nat)),
               auto : Nat, dur : Maybe(Nat), ids : Nat]
    BY <2>1 DEF OutCommand
  <2>4. /\ m.tags = <<>> /\ m.times = <<>> /\ m.program = TRUE /\ m.imm = TRUE
        /\ m.dur = <<t>> /\ DOMAIN m.times = {}
    BY DEF OutCommand
  <2>5. m.dur # NoneNamed
    BY <2>4 DEF NoneNamed
  <2> HIDE DEF m
  <2>6. Len(m.tags) = 0 /\ Len(m.times) = 0
    BY <2>1, <2>4
  <2>7. QED BY <2>2, <2>3, <2>4, <2>5, <2>6 DEF Inserts
<1>2. InsertParts(m) = <<>>
  BY DEF InsertParts, OutCommand
<1>3. InsertFlags(m) = 128 + 64 + 32 + 16
  BY DEF InsertFlags, OutCommand, Flag, NoneNamed
<1>4. BreakCells(m) = <<1, t>>
  BY DEF BreakCells, OutCommand, NoneNamed
<1>5. /\ m.type = "insert" /\ m.cancel = FALSE /\ m.event = 1 /\ m.program = TRUE /\ m.ids = 1
  BY DEF OutCommand
<1> HIDE DEF m
<1>6. InsertCells(m) = <<1, 0, 128 + 64 + 32 + 16>> \o <<>> \o <<>> \o <<1, t>> \o <<1>>
  BY <1>2, <1>3, <1>4, <1>5, FlatOne DEF InsertCells
<1>7. InsertCells(m) = <<1, 0, 128 + 64 + 32 + 16, 1, t, 1>>
  <2> DEFINE f == 128 + 64 + 32 + 16
             s1 == <<1, 0, f>>
  <2>1. f \in Nat
    OBVIOUS
  <2> HIDE DEF f
  <2>2. s1 \in Seq(Nat) /\ s1 \o <<>> = s1
    BY <2>1
  <2>3. s1 \o <<1, t>> \o <<1>> = <<1, 0, f, 1, t, 1>>
    BY <2>1, OutJoined
  <2>5. InsertCells(m) = s1 \o <<>> \o <<>> \o <<1, t>> \o <<1>>
    BY <1>6 DEF f
  <2> HIDE DEF s1
  <2>6. QED BY <2>2, <2>3, <2>5 DEF f
<1>8. CommandCells(m) = InsertCells(m) /\ TypeOf(m) = 5
  BY <1>5 DEF CommandCells, TypeOf
<1>9. m \in Commands
  BY <1>1 DEF Commands
<1>10. QED BY <1>7, <1>8, <1>9 DEF m

SignalCommand == [type |-> "signal", time |-> NoneNamed]

LEMMA SignalCells ==
  SignalCommand \in Commands /\ TypeOf(SignalCommand) = 6 /\ CommandCells(SignalCommand) = <<0>>
<1>1. NoneNamed \in Maybe(Nat)
  BY DEF Maybe, NoneNamed
<1>2. SignalCommand \in Commands
  BY <1>1 DEF SignalCommand, Commands
<1>3. QED BY <1>2 DEF SignalCommand, TypeOf, CommandCells, TimeCells

LEMMA AddedOne ==
  ASSUME NEW b \in Builds, NEW dur \in Maybe(Int), NEW m \in Commands,
         NEW d, d = Contract!BuiltDescriptor(b, Ticks40(dur)),
         NEW more, more = AddSegmentation(dur, b.segType, b.upidType, b.upid)
  PROVE  /\ <<d>> \in Seq(Descriptors) /\ more \in Cells
         /\ Contract!Fits(Fresh(m, <<d>>)) =>
              more = <<Len(FlattenSeq(Parts(<<d>>)))>> \o FlattenSeq(Parts(<<d>>))
<1> DEFINE ds == <<d>>
           c == Fresh(m, ds)
           z == DescriptorCells(d)
<1>1. /\ d \in Segmentations /\ more \in Cells
      /\ Len(d.upid) < LenMod /\ z[2] < LenMod => more = <<Len(z)>> \o z
  BY BuiltDescribed
<1>2. d \in Descriptors /\ d.tag = SegTag /\ d.cancel = FALSE
  BY <1>1 DEF Descriptors, Segmentations
<1>3. ds \in Seq(Descriptors) /\ Len(ds) = 1 /\ ds[1] = d /\ DOMAIN ds = {1}
  BY <1>2
<1> HIDE DEF z
<1>4. z \in Cells
  BY <1>2, DescriptorForm DEF z
<1>5. Parts(ds) = <<z>>
  <2>1. Parts(ds) = [k \in {1} |-> z]
    BY <1>3 DEF Parts, z
  <2>2. QED BY <2>1
<1>6. FlattenSeq(Parts(ds)) = z
  BY <1>4, <1>5, FlatOne
<1>7. ASSUME Contract!Fits(c) PROVE Len(d.upid) < LenMod /\ z[2] < LenMod
  <2>1. c.descs = ds
    BY DEF Fresh
  <2>2. Contract!IsSegmentation(d)
    BY <1>2 DEF Contract!IsSegmentation, Contract!SegTag, SegTag
  <2> HIDE DEF ds, c
  <2>3. Len(d.upid) < LenMod
    BY <1>3, <1>7, <2>1, <2>2 DEF Contract!Fits
  <2>4. Contract!DescriptorSize(d) < LenMod
    BY <1>3, <1>7, <2>1 DEF Contract!Fits
  <2>5. Contract!DescriptorSize(d) = z[2]
    BY <1>2, SizeOf DEF z
  <2>6. QED BY <2>3, <2>4, <2>5
<1>8. QED BY <1>1, <1>3, <1>6, <1>7

LEMMA BuiltIs ==
  ASSUME NEW b \in Builds, b.command \in Contract!Buildable
  PROVE  \E m \in Commands, ds \in Seq(Descriptors), more \in Cells :
            /\ Contract!BuiltCue(b) = Fresh(m, ds)
            /\ BuildSection(b) = Section(TypeOf(m), FALSE, CommandCells(m), more)
            /\ Contract!Fits(Fresh(m, ds)) =>
                 more = <<Len(FlattenSeq(Parts(ds)))>> \o FlattenSeq(Parts(ds))
<1>1. CASE b.command = "splice_insert_out"
  <2> DEFINE t == b.dur % T33
             dur == <<b.dur>>
             m == OutCommand(t)
             d == Contract!BuiltDescriptor(b, Ticks40(dur))
             more == AddSegmentation(dur, b.segType, b.upidType, b.upid)
  <2>1. b.dur \in Int /\ dur \in Maybe(Int) /\ t \in Nat
    <3>1. b.dur \in Int
      BY DEF Builds
    <3>2. T33 \in Nat \ {0}
      BY WidthAssumption
    <3>3. QED BY <3>1, <3>2 DEF Maybe
  <2>2. Ticks40(dur) = <<b.dur % T40>>
    BY <2>1 DEF Ticks40
  <2>3. Contract!BuiltCue(b) = Fresh(m, <<Contract!BuiltDescriptor(b, <<b.dur % T40>>)>>)
    BY <1>1 DEF Contract!BuiltCue, Fresh, OutCommand
  <2>4. BuildSection(b) = Section(5, FALSE, <<1, 0, 128 + 64 + 32 + 16, 1, t, 1>>, more)
    BY <1>1 DEF BuildSection, SpliceOutSection
  <2>5. m \in Commands /\ TypeOf(m) = 5
        /\ CommandCells(m) = <<1, 0, 128 + 64 + 32 + 16, 1, t, 1>>
    BY <2>1, OutCells
  <2> HIDE DEF m, t, more, dur
  <2> HIDE DEF d
  <2>6. d = Contract!BuiltDescriptor(b, Ticks40(dur))
    BY DEF d
  <2>7. more = AddSegmentation(dur, b.segType, b.upidType, b.upid)
    BY DEF more
  <2>8. /\ <<d>> \in Seq(Descriptors) /\ more \in Cells
        /\ Contract!Fits(Fresh(m, <<d>>)) =>
              more = <<Len(FlattenSeq(Parts(<<d>>)))>> \o FlattenSeq(Parts(<<d>>))
    BY <2>1, <2>5, <2>6, <2>7, AddedOne
  <2>9. Contract!BuiltCue(b) = Fresh(m, <<d>>)
    BY <2>2, <2>3, <2>6
  <2>10. QED BY <2>4, <2>5, <2>8, <2>9
<1>2. CASE b.command = "time_signal" /\ (b.segType # NoneNamed \/ b.upidType # NoneNamed)
  <2> DEFINE m == SignalCommand
             d == Contract!BuiltDescriptor(b, Ticks40(NoneNamed))
             more == AddSegmentation(NoneNamed, b.segType, b.upidType, b.upid)
  <2>1. NoneNamed \in Maybe(Int) /\ Ticks40(NoneNamed) = NoneNamed
    BY DEF Maybe, NoneNamed, Ticks40
  <2>2. Contract!BuiltCue(b) = Fresh(m, <<Contract!BuiltDescriptor(b, NoneNamed)>>)
    BY <1>2 DEF Contract!BuiltCue, Fresh, SignalCommand, Contract!NoneNamed, NoneNamed
  <2>3. BuildSection(b) = Section(6, FALSE, <<0>>, more)
    BY <1>2 DEF BuildSection, TimeSignalSection
  <2>4. m \in Commands /\ TypeOf(m) = 6 /\ CommandCells(m) = <<0>>
    BY SignalCells
  <2> HIDE DEF m, more, d
  <2>6. d = Contract!BuiltDescriptor(b, Ticks40(NoneNamed))
    BY DEF d
  <2>7. more = AddSegmentation(NoneNamed, b.segType, b.upidType, b.upid)
    BY DEF more
  <2>8. /\ <<d>> \in Seq(Descriptors) /\ more \in Cells
        /\ Contract!Fits(Fresh(m, <<d>>)) =>
              more = <<Len(FlattenSeq(Parts(<<d>>)))>> \o FlattenSeq(Parts(<<d>>))
    BY <2>1, <2>4, <2>6, <2>7, AddedOne
  <2>9. Contract!BuiltCue(b) = Fresh(m, <<d>>)
    BY <2>1, <2>2, <2>6
  <2>10. QED BY <2>3, <2>4, <2>8, <2>9
<1>3. CASE b.command = "time_signal" /\ ~(b.segType # NoneNamed \/ b.upidType # NoneNamed)
  <2> DEFINE m == SignalCommand
             none == <<>>
  <2>1. Contract!BuiltCue(b) = Fresh(m, none)
    BY <1>3 DEF Contract!BuiltCue, Fresh, SignalCommand, Contract!NoneNamed, NoneNamed
  <2>2. BuildSection(b) = Section(6, FALSE, <<0>>, <<0>>)
    BY <1>3 DEF BuildSection, TimeSignalSection
  <2>3. m \in Commands /\ TypeOf(m) = 6 /\ CommandCells(m) = <<0>>
    BY SignalCells
  <2>4. none \in Seq(Descriptors) /\ Parts(none) = <<>> /\ <<0>> \in Cells
    BY DEF Parts, Cells
  <2>5. FlattenSeq(Parts(none)) = <<>>
    BY <2>4, FlatOne
  <2>6. <<Len(FlattenSeq(Parts(none)))>> \o FlattenSeq(Parts(none)) = <<0>>
    <3>1. Len(<<>>) = 0 /\ <<0>> \o <<>> = <<0>>
      OBVIOUS
    <3>2. QED BY <2>5, <3>1
  <2> HIDE DEF m, none
  <2>7. QED BY <2>1, <2>2, <2>3, <2>4, <2>6
<1>4. b.command = "splice_insert_out" \/ b.command = "time_signal"
  BY DEF Contract!Buildable
<1>5. QED BY <1>1, <1>2, <1>3, <1>4

LEMMA Beginning ==
  ASSUME NEW z \in Cells, NEW more \in Cells
  PROVE  z \o more \in Cells /\ Has(z \o more, 1, z)
<1>1. z \o more \in Cells
  BY Joined
<1>2. 1 \in Places
  BY DEF Places
<1>3. Has(z \o more, 1, z \o more)
  BY <1>1, HasWhole
<1>4. QED BY <1>1, <1>2, <1>3, HasConcat

LEMMA SectionRead ==
  ASSUME NEW s, NEW m \in Commands, s.body \in Cells, s.type = TypeOf(m),
         Has(s.body, 1, CommandCells(m))
  PROVE  IsKnown(s.type) /\ Decode(s).cmd = m
<1>1. ParseCommand(s).cmd = m
  BY CommandRead
<1>2. Decode(s).cmd = ParseCommand(s).cmd
  BY DEF Decode, DecodeFrom
<1>3. TypeOf(m) \in {0, 5, 6, 7}
  BY CommandTyped
<1>4. QED BY <1>1, <1>2, <1>3 DEF IsKnown

(* A cue that a rule builds is read as the rule describes it, as long as    *)
(* its lengths hold it; beyond that its command is still read.              *)
LEMMA BuiltRead ==
  ASSUME NEW b \in Builds, b.command \in Contract!Buildable,
         NEW new, new = CueOf(Text(BuildSection(b)))
  PROVE  /\ BuildSection(b) # NoSection
         /\ Contract!Fits(Contract!BuiltCue(b)) => new = Contract!BuiltCue(b)
         /\ new = Garbled \/ new.cmd = Contract!BuiltCue(b).cmd
<1> DEFINE s == BuildSection(b)
<1>1. PICK m \in Commands, ds \in Seq(Descriptors), more \in Cells :
            /\ Contract!BuiltCue(b) = Fresh(m, ds)
            /\ s = Section(TypeOf(m), FALSE, CommandCells(m), more)
            /\ Contract!Fits(Fresh(m, ds)) =>
                 more = <<Len(FlattenSeq(Parts(ds)))>> \o FlattenSeq(Parts(ds))
  BY BuiltIs
<1> HIDE DEF s
<1>2. /\ s.table = 252 /\ IsKnown(s.type) /\ s # NoSection /\ Decode(s).cmd = m
  <2>1. s = Section(TypeOf(m), FALSE, CommandCells(m), more)
    BY <1>1
  <2>2. s.table = 252 /\ s.type = TypeOf(m) /\ s.body = CommandCells(m) \o more
    BY <2>1, SectionFrame DEF Frame
  <2>3. CommandCells(m) \in Cells
    BY CommandTyped
  <2>4. s.body \in Cells /\ Has(s.body, 1, CommandCells(m))
    BY <2>2, <2>3, Beginning
  <2>5. IsKnown(s.type) /\ Decode(s).cmd = m
    <3>1. s.type = TypeOf(m)
      BY <2>2
    <3>2. s.body \in Cells
      BY <2>4
    <3>3. Has(s.body, 1, CommandCells(m))
      BY <2>4
    <3>4. QED BY <3>1, <3>2, <3>3, SectionRead
  <2>6. s # NoSection
    <3>1. NoSection.table = 0
      BY DEF NoSection
    <3>2. 252 # 0
      OBVIOUS
    <3>3. s.table = 252
      BY <2>2
    <3>4. QED BY <3>1, <3>2, <3>3, Zenon
  <2>7. QED BY <2>2, <2>5, <2>6
<1>3. new = Sound(s, Decode(s))
  <2>1. Text(s) # NoSignal /\ Text(s) # NoAnswer
    BY TextIsSignal
  <2>2. ToBytes(Text(s)) = s /\ Text(s).sec = s
    BY DEF ToBytes, Text
  <2>3. QED BY <1>2, <2>1, <2>2 DEF CueOf, s
<1>4. new = Garbled \/ new.cmd = m
  BY <1>2, <1>3 DEF Sound
<1>5. Fresh(m, ds).cmd = m
  BY DEF Fresh
<1>6. ASSUME Contract!Fits(Fresh(m, ds)) PROVE new = Fresh(m, ds)
  <2> DEFINE loop == FlattenSeq(Parts(ds))
  <2>1. /\ Encode(Fresh(m, ds)) = Section(TypeOf(m), FALSE, CommandCells(m), <<Len(loop)>> \o loop)
        /\ Fresh(m, ds) \in Cues
    BY <1>6, FreshEncoded
  <2>2. s = Encode(Fresh(m, ds))
    BY <1>1, <1>6, <2>1
  <2>3. QED BY <2>1, <2>2, CueOfSection DEF s
<1>7. QED BY <1>1, <1>2, <1>4, <1>5, <1>6 DEF s

\* The payload that a rule carries by itself is what its order says.
LEMMA OwnKept ==
  ASSUME NEW o \in RuleOrders
  PROVE  Contract!Carries(OrderOf(o), CueOf(OwnPayload(o)))
<1> DEFINE r == OrderOf(o)
           b == o.build[1]
           new == CueOf(OwnPayload(o))
<1>1. /\ r.build = o.build /\ r.literal = CueOf(o.literal) /\ o.build \in Maybe(Builds)
  BY DEF OrderOf, RuleOrders
<1>2. CASE o.build = NoneNamed
  <2>1. OwnPayload(o) = o.literal
    BY <1>2 DEF OwnPayload
  <2>2. DOMAIN o.build = {}
    BY <1>2 DEF NoneNamed
  <2>3. QED BY <1>1, <2>1, <2>2 DEF Contract!Carries
<1>3. CASE o.build # NoneNamed
  <2>1. /\ Len(o.build) = 1 /\ b \in Builds /\ DOMAIN o.build = {1}
    <3>1. o.build \in Seq(Builds) /\ Len(o.build) <= 1 /\ o.build # <<>>
      BY <1>1, <1>3 DEF Maybe, NoneNamed
    <3>2. Len(o.build) \in Nat /\ (Len(o.build) = 0 => o.build = <<>>)
      BY <3>1
    <3>3. Len(o.build) = 1
      <4> DEFINE n == Len(o.build)
      <4>1. n \in Nat /\ n <= 1 /\ n # 0
        BY <3>1, <3>2
      <4> HIDE DEF n
      <4>2. n = 1
        BY <4>1
      <4>3. QED BY <4>2 DEF n
    <3>4. QED BY <3>1, <3>3
  <2> HIDE DEF b, new, r
  <2>2. CASE b.command \notin Contract!Buildable
    <3>1. BuildSection(b) = NoSection
      BY <2>2 DEF BuildSection, Contract!Buildable
    <3>2. OwnPayload(o) = o.literal
      BY <3>1 DEF OwnPayload, b
    <3>3. \A k \in DOMAIN r.build : r.build[k].command \notin Contract!Buildable
      BY <1>1, <2>1, <2>2 DEF b
    <3>4. new = r.literal
      BY <1>1, <3>2 DEF new
    <3>5. QED BY <3>3, <3>4 DEF Contract!Carries, new, r
  <2>3. CASE b.command \in Contract!Buildable
    <3> DEFINE n == CueOf(Text(BuildSection(b)))
    <3>1. /\ BuildSection(b) # NoSection
          /\ Contract!Fits(Contract!BuiltCue(b)) => n = Contract!BuiltCue(b)
          /\ n = Garbled \/ n.cmd = Contract!BuiltCue(b).cmd
      BY <2>1, <2>3, BuiltRead
    <3>2. OwnPayload(o) = Text(BuildSection(b))
      BY <1>3, <3>1 DEF OwnPayload, b
    <3> HIDE DEF n
    <3>3. new = n
      BY <3>2 DEF new, n
    <3>4. ~ \A k \in DOMAIN r.build : r.build[k].command \notin Contract!Buildable
      BY <1>1, <2>1, <2>3 DEF b
    <3>5. r.build[1] = b
      BY <1>1 DEF b
    <3>6. Contract!Carries(r, new)
      BY <3>1, <3>3, <3>4, <3>5 DEF Contract!Carries
    <3>7. QED BY <3>6 DEF new, r
  <2>4. QED BY <2>2, <2>3
<1>4. QED BY <1>2, <1>3

-----------------------------------------------------------------------------
(* Every answer is a step of the contract.                                  *)

\* What the contract promises of a cue that can be edited.
Promised(o, c) == Contract!Edited(OrderOf(o), c)

Keeps(c, edited, e) ==
    /\ edited # NoSection => edited = Encode(e) /\ e \in Cues
    /\ edited = NoSection => e = c

\* The payload is the answer, unless the rule's cue panics before.
Replied(o, payload) ==
    \/ Contract!BuildPanics(OrderOf(o))
    \/ Contract!Answers(OrderOf(o), CueOf(signal), CueOf(payload))

LEMMA KindsApart ==
  /\ NoCue # Opaque /\ NoCue # Garbled /\ Opaque # Garbled
  /\ Unanswered \notin {NoCue, Opaque, Garbled}
  /\ \A c \in Cues \cup PrivateCues : c \notin {NoCue, Opaque, Garbled, Unanswered}
  /\ \A c \in Cues : c.cmd.type # "private" /\ c.enc \in BOOLEAN
  /\ \A c \in PrivateCues : c.cmd.type = "private" /\ c.enc \in BOOLEAN
<1>1. ASSUME NEW c \in Cues PROVE c.cmd.type # "private" /\ c.enc \in BOOLEAN
  <2>1. c.cmd \in Commands /\ c.enc \in BOOLEAN
    BY CueTyped
  <2>2. QED BY <2>1, CommandTyped
<1>2. ASSUME NEW c \in PrivateCues PROVE c.cmd.type = "private" /\ c.enc \in BOOLEAN
  BY DEF PrivateCues
<1>3. ASSUME NEW c \in Cues \cup PrivateCues PROVE c \notin {NoCue, Opaque, Garbled, Unanswered}
  <2>1. \A none \in {NoCue, Garbled, Opaque, Unanswered} : none \notin Cues \cup PrivateCues
    BY CueAssumption
  <2> HIDE DEF Cues, PrivateCues
  <2>2. QED BY <2>1
<1>4. /\ NoCue # Opaque /\ NoCue # Garbled /\ Opaque # Garbled
      /\ Unanswered \notin {NoCue, Opaque, Garbled}
  BY CueAssumption
<1>5. QED BY <1>1, <1>2, <1>3, <1>4

LEMMA OrderFields ==
  ASSUME NEW o \in RuleOrders \cup {Unmatched}, NEW r, r = OrderOf(o)
  PROVE  /\ r.action = o.action /\ r.object = o.object /\ r.build = o.build
         /\ r.upid = o.upid /\ r.limits = o.limits /\ r.ticks = o.ticks
         /\ r.literal = CueOf(o.literal) /\ o.object \in BOOLEAN
<1>1. CASE o \in RuleOrders
  BY <1>1 DEF OrderOf, RuleOrders
<1>2. CASE o = Unmatched
  BY <1>2 DEF OrderOf, Unmatched
<1>3. QED BY <1>1, <1>2

\* The contract's terms for what panics, and for the UPID, are those of the code.
LEMMA UpidIs ==
  ASSUME NEW o \in RuleOrders PROVE Contract!UpidOf(OrderOf(o)) = NamedUpid(o)
<1>1. OrderOf(o).upid = o.upid
  BY OrderFields
<1>2. QED BY <1>1 DEF Contract!UpidOf, NamedUpid, Contract!EmptyUpid, Contract!NoneNamed, NoneNamed

LEMMA BuildPanicsSame ==
  ASSUME NEW o \in RuleOrders \cup {Unmatched}
  PROVE  Contract!BuildPanics(OrderOf(o)) <=> \E k \in DOMAIN o.build : BuildPanics(o.build[k])
<1>1. OrderOf(o).build = o.build
  BY OrderFields
<1>2. QED
  BY <1>1 DEF Contract!BuildPanics, BuildPanics, UpidPanics, Contract!Buildable,
              Contract!NoneNamed, NoneNamed, Contract!Some, Some

LEMMA UpidPanicsSame ==
  ASSUME NEW o \in RuleOrders, o.action \in {"replace", "regionalize"}, NEW c
  PROVE  Contract!UpidPanics(OrderOf(o), c)
           <=> \E k \in DOMAIN c.descs :
                 GivenPanics(c.descs[k], NamedUpid(o).type, NamedUpid(o).value)
<1> DEFINE u == NamedUpid(o)
           r == OrderOf(o)
<1>1. Contract!UpidOf(r) = u /\ r.action = o.action
  BY UpidIs, OrderFields
<1>2. Contract!EditsUpid(r)
  BY <1>1 DEF Contract!EditsUpid
<1> HIDE DEF u, r
<1>3. \A k : Contract!Some(u.type, c.descs[k].upidType) = Some(u.type, c.descs[k].upidType)
  BY DEF Contract!Some, Some, Contract!NoneNamed, NoneNamed
<1>4. \A k : Contract!IsSegmentation(c.descs[k]) <=> IsLive(c.descs[k])
  BY DEF Contract!IsSegmentation, IsLive, Contract!SegTag, SegTag
<1>5. Contract!UpidPanics(r, c)
        <=> \E k \in DOMAIN c.descs : GivenPanics(c.descs[k], u.type, u.value)
  BY <1>1, <1>2, <1>3, <1>4 DEF Contract!UpidPanics, GivenPanics, UpidPanics
<1>6. QED BY <1>5 DEF u, r

\* What the contract asks of each kind of cue that an edit meets.
LEMMA AnswersOf ==
  ASSUME NEW r, NEW c, NEW new, Contract!Edits(r), ~(r.action = "replace" /\ r.upid = NoneNamed),
         ~Contract!BuildPanics(r)
  PROVE  /\ c = NoCue /\ Contract!Carries(r, new) => Contract!Answers(r, c, new)
         /\ c # NoCue /\ ~r.object /\ new = Unanswered => Contract!Answers(r, c, new)
         /\ r.object => (c = Opaque /\ new \in {c, Unanswered} => Contract!Answers(r, c, new))
         /\ r.object => (c \in PrivateCues \cup Cues /\ c.enc /\ new = c
                           => Contract!Answers(r, c, new))
         /\ r.object =>
              (/\ c \in PrivateCues /\ ~c.enc
               /\ IF new = Unanswered
                    THEN Contract!EditsUpid(r) /\ Contract!UpidOf(r).value.splits # {}
                    ELSE new = [c EXCEPT !.pad = new.pad]
               => Contract!Answers(r, c, new))
         /\ r.object =>
              (/\ c \in Cues /\ ~c.enc
               /\ IF Contract!UpidPanics(r, c) THEN new \in {c, Unanswered}
                  ELSE new = Contract!Edited(r, c)
               => Contract!Answers(r, c, new))
         /\ r.object =>
              (/\ c = Garbled
               /\ new = Unanswered => \/ /\ Contract!EditsUpid(r)
                                         /\ Contract!UpidOf(r).value.splits # {}
                                      \/ Contract!EditsTicks(r)
               => Contract!Answers(r, c, new))
<1> DEFINE ed == Contract!Editable(c)
           db == Contract!Doubtful(c)
           cy == Contract!Carries(r, new)
           up == Contract!UpidPanics(r, c)
           e == Contract!Edited(r, c)
           p == [c EXCEPT !.pad = new.pad]
           split == Contract!EditsUpid(r) /\ Contract!UpidOf(r).value.splits # {}
           ticks == Contract!EditsTicks(r)
<1>1. r.action # "delete" /\ ~(r.action = "replace" /\ r.upid = Contract!NoneNamed)
  BY DEF Contract!Edits, Contract!EditsUpid, Contract!EditsTicks, Contract!NoneNamed, NoneNamed
<1>2. Contract!Answers(r, c, new)
        <=> IF c = NoCue THEN cy
            ELSE IF ~r.object THEN new = Unanswered
            ELSE IF ed THEN (IF up THEN new \in {c, Unanswered} ELSE new = e)
            ELSE IF db THEN (IF new = Unanswered THEN split \/ (ticks /\ c = Garbled)
                             ELSE c # Garbled => new = p)
            ELSE IF c = Opaque THEN new \in {c, Unanswered}
            ELSE new = c
  BY <1>1, Zenon DEF Contract!Answers
<1>3. c \in {NoCue, Opaque} \/ c.enc => ~ed
  BY Zenon DEF Contract!Editable, Contract!IsReadable
<1>4. c = Garbled => c # NoCue /\ ~ed /\ db
  BY KindsApart, Zenon DEF Contract!Editable, Contract!IsReadable, Contract!Doubtful
<1>5. c = Opaque => c # NoCue /\ ~db
  BY KindsApart, Zenon DEF Contract!IsReadable, Contract!Doubtful
<1>6. c \in PrivateCues \cup Cues => c \notin {NoCue, Opaque, Garbled, Unanswered}
  BY KindsApart, Zenon
<1>7. c \in PrivateCues \cup Cues /\ c.enc => ~db
  BY <1>6, Zenon DEF Contract!Doubtful
<1>8. c \in PrivateCues /\ ~c.enc => ~ed /\ db
  BY <1>6, KindsApart, Zenon DEF Contract!Doubtful, Contract!Editable, Contract!IsReadable, Contract!IsPrivate
<1>9. c \in Cues /\ ~c.enc => ed
  BY <1>6, KindsApart, Zenon DEF Contract!Editable, Contract!IsReadable, Contract!IsPrivate
<1> HIDE DEF ed, db, cy, e, p, up, split, ticks
<1>10. c = NoCue /\ cy => Contract!Answers(r, c, new)
  BY <1>2
<1>10a. c # NoCue /\ ~r.object /\ new = Unanswered => Contract!Answers(r, c, new)
  BY <1>2
<1>11. r.object => (c = Opaque /\ new \in {c, Unanswered} => Contract!Answers(r, c, new))
  BY <1>2, <1>3, <1>5
<1>12. r.object => (c \in PrivateCues \cup Cues /\ c.enc /\ new = c => Contract!Answers(r, c, new))
  BY <1>2, <1>3, <1>6, <1>7
<1>13. r.object => (c \in PrivateCues /\ ~c.enc /\ (IF new = Unanswered THEN split ELSE new = p)
                      => Contract!Answers(r, c, new))
  BY <1>2, <1>6, <1>8
<1>14. r.object => (c \in Cues /\ ~c.enc /\ (IF up THEN new \in {c, Unanswered} ELSE new = e)
                      => Contract!Answers(r, c, new))
  BY <1>2, <1>6, <1>9
<1>15. r.object => (c = Garbled /\ (new = Unanswered => split \/ ticks)
                      => Contract!Answers(r, c, new))
  BY <1>2, <1>4
<1>16. QED
  BY <1>10, <1>10a, <1>11, <1>12, <1>13, <1>14, <1>15, Zenon DEF cy, e, p, up, split, ticks

\* A section of a known command is read, or is garbled.
LEMMA CueOfKnown ==
  ASSUME NEW r, r.table = 252, IsKnown(r.type) PROVE CueOf(Text(r)) # Unanswered
<1>1. Text(r) # NoSignal /\ Text(r) # NoAnswer
  BY TextIsSignal DEF Text, NoAnswer
<1>2. ToBytes(Text(r)) = r /\ Text(r).sec = r
  BY DEF Text, ToBytes
<1>3. CueOf(Text(r)) = Sound(r, Decode(r))
  BY <1>1, <1>2 DEF CueOf
<1>4. CueOf(Text(r)) \in Cues \cup {Garbled}
  BY <1>3 DEF Sound
<1>5. QED BY <1>4, KindsApart

\* What the answer carries after an edit.
LEMMA PayloadCue ==
  ASSUME NEW o, o.object \in BOOLEAN, NEW edited, signal # NoSignal
  PROVE  /\ ~o.object => CueOf(SetPayload(o, edited)) = Unanswered
         /\ ~o.object => CueOf(Passed(o)) = Unanswered
         /\ edited = Panicked => CueOf(SetPayload(o, edited)) = Unanswered
         /\ edited = NoSection /\ o.object => CueOf(SetPayload(o, edited)) = CueOf(signal)
         /\ o.object => CueOf(Passed(o)) = CueOf(signal)
         /\ edited \notin {NoSection, Panicked} /\ o.object =>
              CueOf(SetPayload(o, edited)) = CueOf(Text(edited))
<1>1. CueOf(NoAnswer) = Unanswered
  BY NoSignalIsSignal DEF CueOf
<1>2. /\ ~o.object => SetPayload(o, edited) = NoAnswer /\ Passed(o) = NoAnswer
      /\ edited = Panicked => SetPayload(o, edited) = NoAnswer
  BY DEF SetPayload, Passed, Put
<1>3. /\ edited = NoSection /\ o.object => SetPayload(o, edited) = signal
      /\ o.object => Passed(o) = signal
      /\ edited \notin {NoSection, Panicked} /\ o.object => SetPayload(o, edited) = Text(edited)
  BY NoSectionIsNone DEF SetPayload, Passed, Put
<1>4. QED BY <1>1, <1>2, <1>3

\* An edit that gives the section of the promised cue, or cannot be made where
\* nothing is to be changed, answers as the contract says; so does one that
\* panics where the contract says that it may.
LEMMA EditAnswers ==
  ASSUME signal \in Signals, NEW o \in RuleOrders, NEW raw,
         Contract!Edits(o), ~(o.action = "replace" /\ o.upid = NoneNamed),
         ~IsPlain(ToBytes(signal)) => raw = NoSection,
         ToBytes(signal) \in Sections => raw \in Edits /\ IsEdit(ToBytes(signal), raw),
         raw = Panicked => \/ Contract!EditsUpid(o) /\ NamedUpid(o).value.splits # {}
                           \/ Contract!EditsTicks(o) /\ ToBytes(signal).type = 5,
         \A c \in Cues : ToBytes(signal) = Encode(c) /\ ~c.enc =>
            IF Contract!UpidPanics(OrderOf(o), c) THEN raw \in {Panicked, NoSection}
            ELSE Keeps(c, raw, Promised(o, c))
  PROVE  Replied(o, SetPayload(o, Tried(raw)))
<1> SUFFICES ASSUME ~Contract!BuildPanics(OrderOf(o))
             PROVE  Contract!Answers(OrderOf(o), CueOf(signal), CueOf(SetPayload(o, Tried(raw))))
  BY DEF Replied
<1> DEFINE c == CueOf(signal)
           s == ToBytes(signal)
           r == OrderOf(o)
           edited == Tried(raw)
           new == CueOf(SetPayload(o, edited))
           split == Contract!EditsUpid(r) /\ Contract!UpidOf(r).value.splits # {}
           ticks == Contract!EditsTicks(r)
<1>1. r.action = o.action /\ r.upid = o.upid /\ r.ticks = o.ticks /\ r.object = o.object
        /\ o.object \in BOOLEAN
  BY OrderFields
<1>2. /\ Contract!Edits(r) /\ ~(r.action = "replace" /\ r.upid = NoneNamed)
      /\ ~Contract!BuildPanics(r)
  BY <1>1 DEF Contract!Edits, Contract!EditsUpid, Contract!EditsTicks
<1>3. /\ c = NoCue /\ Contract!Carries(r, new) => Contract!Answers(r, c, new)
      /\ c # NoCue /\ ~r.object /\ new = Unanswered => Contract!Answers(r, c, new)
      /\ r.object => (c = Opaque /\ new \in {c, Unanswered} => Contract!Answers(r, c, new))
      /\ r.object => (c \in PrivateCues \cup Cues /\ c.enc /\ new = c
                        => Contract!Answers(r, c, new))
      /\ r.object => (/\ c \in PrivateCues /\ ~c.enc
                      /\ IF new = Unanswered THEN split ELSE new = [c EXCEPT !.pad = new.pad]
                      => Contract!Answers(r, c, new))
      /\ r.object => (/\ c \in Cues /\ ~c.enc
                      /\ IF Contract!UpidPanics(r, c) THEN new \in {c, Unanswered}
                         ELSE new = Contract!Edited(r, c)
                      => Contract!Answers(r, c, new))
      /\ r.object => (c = Garbled /\ (new = Unanswered => split \/ ticks)
                        => Contract!Answers(r, c, new))
  BY <1>2, AnswersOf
<1>4. s # Panicked => edited = raw
  BY DEF Tried
<1>5. ASSUME signal # NoSignal
      PROVE  /\ ~o.object => new = Unanswered
             /\ edited = Panicked => new = Unanswered
             /\ edited = NoSection /\ o.object => new = c
             /\ edited \notin {NoSection, Panicked} /\ o.object => new = CueOf(Text(edited))
  BY <1>1, <1>5, PayloadCue
<1>6. raw = Panicked => split \/ (ticks /\ s.type = 5)
  <2>1. Contract!UpidOf(r) = NamedUpid(o)
    BY UpidIs
  <2>2. (Contract!EditsUpid(o) <=> Contract!EditsUpid(r)) /\ (Contract!EditsTicks(o) <=> ticks)
    BY <1>1 DEF Contract!EditsUpid, Contract!EditsTicks
  <2>3. QED BY <2>1, <2>2
<1>7. \/ c = NoCue /\ signal = NoSignal /\ s = NoSection /\ ~IsPlain(s)
      \/ c = Opaque /\ signal # NoSignal /\ ~IsPlain(s)
      \/ /\ c = [enc |-> s.enc, cmd |-> [type |-> "private"], pad |-> s.body]
         /\ c \in PrivateCues /\ signal # NoSignal /\ s \in Sections
         /\ s.table = 252 /\ ~IsKnown(s.type)
      \/ c \in Cues /\ signal # NoSignal /\ s \in Sections /\ s = Encode(c)
      \/ /\ c = Garbled /\ signal # NoSignal /\ s \in Sections
         /\ s.table = 252 /\ IsKnown(s.type)
  BY CueKinds
<1>8. s \in Sections => edited = raw /\ raw \in Edits /\ IsEdit(s, raw)
  BY <1>4, NoSectionIsNone
<1>9. ~IsPlain(s) => edited \in {NoSection, Panicked} /\ (s # Panicked => edited = NoSection)
  BY <1>4 DEF Tried
<1>9a. ASSUME NEW d \in Cues, s = Encode(d), ~d.enc
       PROVE  IF Contract!UpidPanics(r, d) THEN raw \in {Panicked, NoSection}
              ELSE Keeps(d, raw, Contract!Edited(r, d))
  BY <1>9a DEF Promised
<1>9b. c = NoCue => signal = NoSignal
  BY <1>7, KindsApart
<1>9c. NoSection # Panicked
  BY NoSectionIsNone
<1>9d. signal = NoSignal /\ edited = NoSection => new = CueOf(OwnPayload(o))
  BY <1>9c DEF SetPayload, Passed
<1>9e. Contract!Carries(r, CueOf(OwnPayload(o)))
  BY OwnKept
<1> HIDE DEF c, s, new, edited, r, split, ticks
<1>10. CASE c = NoCue /\ signal = NoSignal /\ s = NoSection /\ ~IsPlain(s)
  <2>1. new = CueOf(OwnPayload(o))
    BY <1>9, <1>9c, <1>9d, <1>10
  <2>2. Contract!Carries(r, new)
    BY <2>1, <1>9e
  <2>3. Contract!Answers(r, c, new)
    BY <1>3, <1>10, <2>2
  <2>4. QED BY <2>3 DEF c, new, r, edited
<1>11. CASE signal # NoSignal /\ ~o.object
  <2>1. Contract!Answers(r, c, new)
    BY <1>1, <1>3, <1>5, <1>9b, <1>11
  <2>2. QED BY <2>1 DEF c, new, r, edited
<1>12. CASE c = Opaque /\ signal # NoSignal /\ ~IsPlain(s) /\ o.object
  <2>1. new \in {c, Unanswered}
    BY <1>5, <1>9, <1>12
  <2>2. Contract!Answers(r, c, new)
    BY <1>1, <1>3, <1>12, <2>1
  <2>3. QED BY <2>2 DEF c, new, r, edited
<1>13. CASE /\ c = [enc |-> s.enc, cmd |-> [type |-> "private"], pad |-> s.body]
            /\ c \in PrivateCues /\ signal # NoSignal /\ s \in Sections
            /\ s.table = 252 /\ ~IsKnown(s.type) /\ o.object
  <2>1. c.enc = s.enc /\ s # Panicked
    BY <1>13, NoSectionIsNone
  <2>2. CASE c.enc
    <3>1. ~IsPlain(s)
      BY <2>1, <2>2 DEF IsPlain
    <3>2. new = c
      BY <1>5, <1>9, <1>13, <2>1, <3>1
    <3>3. Contract!Answers(r, c, new)
      BY <1>1, <1>3, <1>13, <2>2, <3>2
    <3>4. QED BY <3>3 DEF c, new, r, edited
  <2>3. CASE ~c.enc
    <3>1. IF new = Unanswered THEN split ELSE new = [c EXCEPT !.pad = new.pad]
      <4>1. CASE raw = NoSection
        <5>1. new = c
          BY <1>5, <1>8, <1>13, <4>1
        <5>2. c = [c EXCEPT !.pad = c.pad] /\ c # Unanswered
          BY <1>13, KindsApart DEF PrivateCues
        <5>3. QED BY <5>1, <5>2
      <4>2. CASE raw = Panicked
        <5>1. new = Unanswered
          BY <1>5, <1>8, <1>13, <4>2
        <5>2. s.type # 5
          BY <1>13 DEF IsKnown
        <5>3. QED BY <1>6, <4>2, <5>1, <5>2
      <4>3. CASE raw \notin {NoSection, Panicked}
        <5>1. raw \in Sections /\ raw.table = 252 /\ raw.enc = s.enc /\ raw.type = s.type
          BY <1>8, <1>13, <4>3 DEF IsEdit, Edits
        <5>2. new = [enc |-> s.enc, cmd |-> [type |-> "private"], pad |-> raw.body]
          BY <1>5, <1>8, <1>13, <4>3, <5>1, CueOfPrivate
        <5>3. new = [c EXCEPT !.pad = new.pad]
          BY <1>13, <5>2
        <5>4. new \in PrivateCues
          <6>1. s.enc \in BOOLEAN /\ raw.body \in Seq(Nat)
            BY <1>13, <5>1 DEF Sections
          <6>2. QED BY <5>2, <6>1 DEF PrivateCues
        <5>5. new # Unanswered
          BY <5>4, KindsApart
        <5>6. QED BY <5>3, <5>5
      <4>4. QED BY <4>1, <4>2, <4>3
    <3>2. Contract!Answers(r, c, new)
      BY <1>1, <1>3, <1>13, <2>3, <3>1, Zenon
    <3>3. QED BY <3>2 DEF c, new, r, edited
  <2>4. QED BY <2>2, <2>3
<1>14. CASE c \in Cues /\ signal # NoSignal /\ s \in Sections /\ s = Encode(c) /\ o.object
  <2>1. s.enc = c.enc /\ s # Panicked
    BY <1>14, EncodeForm, NoSectionIsNone
  <2>2. CASE c.enc
    <3>1. ~IsPlain(s)
      BY <2>1, <2>2 DEF IsPlain
    <3>2. new = c
      BY <1>5, <1>9, <1>14, <2>1, <3>1
    <3>3. Contract!Answers(r, c, new)
      BY <1>1, <1>3, <1>14, <2>2, <3>2
    <3>4. QED BY <3>3 DEF c, new, r, edited
  <2>3. CASE ~c.enc
    <3> DEFINE e == Contract!Edited(r, c)
               panics == Contract!UpidPanics(r, c)
    <3>1. IF panics THEN raw \in {Panicked, NoSection} ELSE Keeps(c, raw, e)
      BY <1>9a, <1>14, <2>3
    <3> HIDE DEF e, panics
    <3>2. CASE panics
      <4>1. new \in {c, Unanswered}
        BY <1>5, <1>8, <1>14, <3>1, <3>2
      <4>2. Contract!Answers(r, c, new)
        BY <1>1, <1>3, <1>14, <2>3, <3>2, <4>1 DEF panics
      <4>3. QED BY <4>2 DEF c, new, r, edited
    <3>3. CASE ~panics
      <4>2. ASSUME raw # NoSection PROVE new = e
        <5>1. raw = Encode(e) /\ e \in Cues
          BY <3>1, <3>3, <4>2 DEF Keeps
        <5>2. raw # Panicked
          BY <5>1, EncodeForm, NoSectionIsNone
        <5>3. new = CueOf(Text(raw))
          BY <1>5, <1>8, <1>14, <4>2, <5>2
        <5>4. QED BY <5>1, <5>3, CueOfSection
      <4>3. new = e
        <5>1. raw = NoSection => e = c /\ new = c
          BY <1>5, <1>8, <1>14, <3>1, <3>3 DEF Keeps
        <5>2. QED BY <4>2, <5>1
      <4>4. Contract!Answers(r, c, new)
        BY <1>1, <1>3, <1>14, <2>3, <3>3, <4>3 DEF panics, e
      <4>5. QED BY <4>4 DEF c, new, r, edited
    <3>4. QED BY <3>2, <3>3
  <2>4. QED BY <2>2, <2>3
<1>15. CASE /\ c = Garbled /\ signal # NoSignal /\ s \in Sections
            /\ s.table = 252 /\ IsKnown(s.type) /\ o.object
  <2>1. new = Unanswered => split \/ ticks
    <3>1. CASE raw = NoSection
      BY <1>5, <1>8, <1>15, <3>1, KindsApart
    <3>2. CASE raw = Panicked
      BY <1>6, <3>2
    <3>3. CASE raw \notin {NoSection, Panicked}
      <4>1. raw.table = 252 /\ raw.type = s.type
        BY <1>8, <1>15, <3>3 DEF IsEdit
      <4>2. new = CueOf(Text(raw))
        BY <1>5, <1>8, <1>15, <3>3
      <4>3. QED BY <1>15, <4>1, <4>2, CueOfKnown
    <3>4. QED BY <3>1, <3>2, <3>3
  <2>2. Contract!Answers(r, c, new)
    BY <1>1, <1>3, <1>15, <2>1
  <2>3. QED BY <2>2 DEF c, new, r, edited
<1>16. QED BY <1>1, <1>7, <1>10, <1>11, <1>12, <1>13, <1>14, <1>15, Zenon

LEMMA UpidFits ==
  ASSUME NEW c \in Cues, ~c.enc, NEW type \in Maybe(Nat), NEW v,
         \A kind \in Nat : UpidBytes(kind, v) \in Cells,
         \A k \in DOMAIN c.descs : ~GivenPanics(c.descs[k], type, v),
         NEW e, e = [c EXCEPT !.descs = AllGiven(c.descs, type, v)]
  PROVE  Keeps(c, RewriteUpid(Encode(c), type, v), IF Contract!Fits(e) THEN e ELSE c)
<1>1. /\ AllGiven(c.descs, type, v) \in Seq(Descriptors)
      /\ RewriteUpid(Encode(c), type, v) \in {Encode(e), NoSection}
      /\ RewriteUpid(Encode(c), type, v) = NoSection => e = c \/ e \notin Cues
      /\ RewriteUpid(Encode(c), type, v) # NoSection => e \in Cues
  <2>1. AllGiven(c.descs, type, v) \in Seq(Descriptors)
    BY UpidSection
  <2>2. RewriteUpid(Encode(c), type, v) \in {Encode(e), NoSection}
    BY UpidSection
  <2>3. RewriteUpid(Encode(c), type, v) = NoSection => e = c \/ e \notin Cues
    BY UpidSection
  <2>4. RewriteUpid(Encode(c), type, v) # NoSection => e \in Cues
    BY UpidSection
  <2>5. QED BY <2>1, <2>2, <2>3, <2>4
<1> DEFINE ds == AllGiven(c.descs, type, v)
           edited == RewriteUpid(Encode(c), type, v)
<1>2. ds \in Seq(Descriptors)
  BY <1>1
<1>3. e = [c EXCEPT !.descs = ds]
  OBVIOUS
<1>4. /\ edited \in {Encode(e), NoSection}
      /\ edited = NoSection => e = c \/ e \notin Cues
      /\ edited # NoSection => e \in Cues
  BY <1>1
<1> HIDE DEF ds, edited
<1>5. /\ e.descs = ds
      /\ e \in Cues <=> /\ \A k \in 1..Len(ds) : DescriptorCells(ds[k])[2] < LenMod
                        /\ Len(FlattenSeq(Parts(ds))) < LoopMod
  BY <1>2, <1>3, Redescribed
<1>6. Contract!Fits(e) <=> /\ \A k \in 1..Len(e.descs) : DescriptorCells(e.descs[k])[2] < LenMod
                           /\ Len(FlattenSeq(Parts(e.descs))) < LoopMod
  <2>1. e.descs \in Seq(Descriptors)
    BY <1>2, <1>5
  <2>2. QED BY <2>1, FitsIs
<1>7. Contract!Fits(e) <=> e \in Cues
  BY <1>5, <1>6, Zenon
<1>8. Keeps(c, edited, IF Contract!Fits(e) THEN e ELSE c)
  BY <1>4, <1>7 DEF Keeps
<1>9. QED BY <1>8 DEF edited

LEMMA UpidKeeps ==
  ASSUME NEW c \in Cues, ~c.enc, NEW type \in Maybe(Nat), NEW v \in UpidValues,
         \A k \in DOMAIN c.descs : ~GivenPanics(c.descs[k], type, v)
  PROVE  Keeps(c, RewriteUpid(Encode(c), type, v), Contract!WithUpid(c, type, v))
<1>1. PICK e : e = [c EXCEPT !.descs = AllGiven(c.descs, type, v)]
  OBVIOUS
<1>2. \A kind \in Nat : UpidBytes(kind, v) \in Cells
  BY UpidCells DEF Cells
<1>3. Contract!WithUpid(c, type, v) = IF Contract!Fits(e) THEN e ELSE c
  BY <1>1, UpidPromised
<1>4. Keeps(c, RewriteUpid(Encode(c), type, v), IF Contract!Fits(e) THEN e ELSE c)
  BY <1>1, <1>2, UpidFits
<1>5. QED BY <1>3, <1>4

LEMMA LimitsKeep ==
  ASSUME NEW c \in Cues, ~c.enc, NEW limits \in 0..31
  PROVE  Keeps(c, RewriteDelivery(Encode(c), limits), Contract!WithLimits(c, limits))
<1> DEFINE e == Remade(c, c.cmd, AllLimited(c.descs, limits))
           edited == RewriteDelivery(Encode(c), limits)
<1>1. e \in Cues /\ edited \in {Encode(e), NoSection} /\ (edited = NoSection => e = c)
  BY DeliverySection
<1>2. Contract!WithLimits(c, limits) = e
  BY LimitsPromised
<1> HIDE DEF e, edited
<1>3. Keeps(c, edited, e)
  BY <1>1 DEF Keeps
<1>4. QED BY <1>2, <1>3 DEF edited

LEMMA MapKeeps ==
  ASSUME NEW c \in Cues, ~c.enc, NEW f, IsMap(f), NEW brk, brk = BreakCell(c.cmd)
  PROVE  Keeps(c, MappedSection(Encode(c), brk, f), MappedCue(c, f))
<1> DEFINE e == Remade(c, BreakMapped(c.cmd, f), AllTimed(c.descs, f))
           edited == MappedSection(Encode(c), brk, f)
<1>1. e \in Cues /\ edited \in {Encode(e), NoSection} /\ (edited = NoSection => e = c)
  BY DurationSection
<1>2. MappedCue(c, f) = e
  BY DEF MappedCue
<1> HIDE DEF e, edited
<1>3. Keeps(c, edited, e)
  BY <1>1 DEF Keeps
<1>4. QED BY <1>2, <1>3 DEF edited

LEMMA BreakKeeps ==
  ASSUME NEW c \in Cues, ~c.enc, NEW ticks \in Int, NEW brk, brk = BreakCell(c.cmd)
  PROVE  Keeps(c, RewriteBreak(Encode(c), brk, AtLeast0(ticks)),
               MappedCue(c, [t \in Nat |-> AtLeast0(ticks)]))
<1> DEFINE n == AtLeast0(ticks)
           f == [t \in Nat |-> n]
           g == [t \in Nat |-> AtLeast0(ticks)]
<1>1. n \in Nat
  BY DEF AtLeast0
<1> HIDE DEF n
<1>2. IsMap(f)
  BY <1>1 DEF IsMap
<1>3. RewriteBreak(Encode(c), brk, n) = MappedSection(Encode(c), brk, f)
  <2>1. Encode(c) \in Sections /\ 0 \in Int
    BY EncodeForm
  <2>2. QED BY <1>1, <2>1, BreakMaps
<1>4. f = g
  BY DEF n
<1> HIDE DEF f
<1>5. Keeps(c, MappedSection(Encode(c), brk, f), MappedCue(c, f))
  BY <1>2, MapKeeps
<1>6. QED BY <1>3, <1>4, <1>5 DEF n

LEMMA AdjustKeeps ==
  ASSUME NEW c \in Cues, ~c.enc, NEW delta \in Int, NEW brk, brk = BreakCell(c.cmd)
  PROVE  Keeps(c, AdjustBreak(Encode(c), brk, delta),
               MappedCue(c, [t \in Nat |-> AtLeast0(t + delta)]))
<1> DEFINE f == [t \in Nat |-> AtLeast0(t + delta)]
<1>1. IsMap(f)
  BY DEF IsMap, AtLeast0
<1>2. AdjustBreak(Encode(c), brk, delta) = MappedSection(Encode(c), brk, f)
  <2>1. Encode(c) \in Sections /\ 0 \in Nat
    BY EncodeForm
  <2>2. QED BY <2>1, BreakMaps
<1> HIDE DEF f
<1>3. Keeps(c, MappedSection(Encode(c), brk, f), MappedCue(c, f))
  BY <1>1, MapKeeps
<1>4. QED BY <1>2, <1>3 DEF f

LEMMA PromisedUpid ==
  ASSUME NEW o \in RuleOrders, NEW c, o.action \in {"replace", "regionalize"}
  PROVE  Promised(o, c) = Contract!WithUpid(c, NamedUpid(o).type, NamedUpid(o).value)
<1> DEFINE r == OrderOf(o)
<1>1. r.action = o.action /\ Contract!UpidOf(r) = NamedUpid(o)
  BY UpidIs, OrderFields
<1>2. Contract!Edited(r, c) = Contract!WithUpid(c, Contract!UpidOf(r).type, Contract!UpidOf(r).value)
  BY <1>1 DEF Contract!Edited, Contract!EditsUpid
<1>3. QED BY <1>1, <1>2 DEF Promised

LEMMA PromisedLimits ==
  ASSUME NEW o \in RuleOrders, NEW c, o.action = "blackout"
  PROVE  Promised(o, c) = Contract!WithLimits(c, o.limits)
<1> DEFINE r == OrderOf(o)
<1>1. r.action = o.action /\ r.limits = o.limits
  BY OrderFields
<1>2. Contract!Edited(r, c) = Contract!WithLimits(c, r.limits)
  BY <1>1 DEF Contract!Edited, Contract!EditsUpid
<1>3. QED BY <1>1, <1>2 DEF Promised

LEMMA PromisedNothing ==
  ASSUME NEW o \in RuleOrders \cup {Unmatched}, NEW c, ~Contract!Edits(OrderOf(o))
  PROVE  Promised(o, c) = c
<1> DEFINE r == OrderOf(o)
<1>1. /\ ~Contract!EditsUpid(r) /\ r.action # "blackout"
      /\ ~(r.action \in {"shorten", "fill"} /\ r.ticks # Contract!NoneNamed)
      /\ ~(r.action = "extend" /\ r.ticks # Contract!NoneNamed)
  BY DEF Contract!Edits, Contract!EditsTicks
<1> HIDE DEF r
<1>2. Contract!Edited(r, c) = c
  BY <1>1 DEF Contract!Edited
<1>3. QED BY <1>2 DEF Promised, r

LEMMA PromisedTicks ==
  ASSUME NEW o \in RuleOrders, NEW c \in Cues, o.action \in {"shorten", "fill"}, o.ticks # NoneNamed
  PROVE  Promised(o, c) = MappedCue(c, [t \in Nat |-> AtLeast0(o.ticks[1])])
<1> DEFINE r == OrderOf(o)
<1>1. r.action = o.action /\ r.ticks = o.ticks
  BY OrderFields
<1>2. Contract!Edited(r, c) = Contract!WithDurations(c, LAMBDA t : Contract!AtLeast0(r.ticks[1]))
  BY <1>1 DEF Contract!Edited, Contract!EditsUpid, Contract!NoneNamed, NoneNamed
<1>3. Contract!WithDurations(c, LAMBDA t : Contract!AtLeast0(r.ticks[1]))
        = MappedCue(c, [t \in Nat |-> AtLeast0(r.ticks[1])])
  BY TicksPromised
<1>4. QED BY <1>1, <1>2, <1>3 DEF Promised

LEMMA PromisedDelta ==
  ASSUME NEW o \in RuleOrders, NEW c \in Cues, o.action = "extend", o.ticks # NoneNamed
  PROVE  Promised(o, c) = MappedCue(c, [t \in Nat |-> AtLeast0(t + o.ticks[1])])
<1> DEFINE r == OrderOf(o)
<1>1. r.action = o.action /\ r.ticks = o.ticks
  BY OrderFields
<1>2. Contract!Edited(r, c) = Contract!WithDurations(c, LAMBDA t : Contract!AtLeast0(t + r.ticks[1]))
  BY <1>1 DEF Contract!Edited, Contract!EditsUpid, Contract!NoneNamed, NoneNamed
<1>3. Contract!WithDurations(c, LAMBDA t : Contract!AtLeast0(t + r.ticks[1]))
        = MappedCue(c, [t \in Nat |-> AtLeast0(t + r.ticks[1])])
  BY DeltaPromised
<1>4. QED BY <1>1, <1>2, <1>3 DEF Promised

\* What an edit can be applied to and read as plain bytes is a section.
LEMMA PlainBytes ==
  ASSUME signal \in Signals PROVE IsPlain(ToBytes(signal)) => ToBytes(signal) \in Sections
BY BytesTyped, OnlySectionsPlain DEF Edits

\* A rule that edits no UPID has none that panics.
LEMMA UpidUntouched ==
  ASSUME NEW o \in RuleOrders, o.action \notin {"replace", "regionalize"}, NEW c
  PROVE  ~Contract!UpidPanics(OrderOf(o), c)
<1>1. OrderOf(o).action = o.action
  BY OrderFields
<1>2. QED BY <1>1 DEF Contract!UpidPanics, Contract!EditsUpid

LEMMA UpidAnswers ==
  ASSUME signal \in Signals, NEW o \in RuleOrders, o.action \in {"replace", "regionalize"},
         ~(o.action = "replace" /\ o.upid = NoneNamed)
  PROVE  Replied(o, SetPayload(o, UpidEdited(o)))
<1> DEFINE s == ToBytes(signal)
           type == NamedUpid(o).type
           v == NamedUpid(o).value
           raw == RewriteUpid(s, type, v)
<1>1. UpidEdited(o) = Tried(raw)
  BY DEF UpidEdited
<1>2. type \in Maybe(Nat) /\ v \in UpidValues
  BY NamedTyped
<1>2a. \A c : Contract!UpidPanics(OrderOf(o), c)
                <=> \E k \in DOMAIN c.descs : GivenPanics(c.descs[k], type, v)
  BY UpidPanicsSame
<1>2b. \A c : Promised(o, c) = Contract!WithUpid(c, type, v)
  BY PromisedUpid
<1> HIDE DEF type, v
<1>3. Contract!Edits(o) /\ Contract!EditsUpid(o)
  BY DEF Contract!Edits, Contract!EditsUpid
<1>4. ~IsPlain(s) => raw = NoSection
  BY UpidUnplain
<1>5. s \in Sections => raw \in Edits /\ IsEdit(s, raw) /\ (v.splits = {} => raw # Panicked)
  <2>1. ASSUME s \in Sections PROVE raw \in Edits /\ (v.splits = {} => raw # Panicked)
    BY <1>2, <2>1, UpidRewritten DEF Edits
  <2>2. ASSUME s \in Sections PROVE IsEdit(s, raw)
    <3>1. 0 \in Nat /\ 0 \in Int
      OBVIOUS
    <3>2. QED BY <2>2, <3>1, HeaderKept
  <2>3. QED BY <2>1, <2>2
<1>6. ASSUME NEW c \in Cues, s = Encode(c), ~c.enc
      PROVE  IF Contract!UpidPanics(OrderOf(o), c) THEN raw \in {Panicked, NoSection}
             ELSE Keeps(c, raw, Promised(o, c))
  <2>1. CASE Contract!UpidPanics(OrderOf(o), c)
    <3>1. PICK x \in DOMAIN c.descs : GivenPanics(c.descs[x], type, v)
      BY <1>2a, <2>1
    <3>2. \A kind \in Nat : UpidBytes(kind, v) \in Cells
      BY <1>2, UpidCells DEF Cells
    <3>3. RewriteUpid(Encode(c), type, v) \in {Panicked, NoSection}
      BY <1>2, <1>6, <3>1, <3>2, UpidPanicked
    <3>4. QED BY <1>6, <2>1, <3>3
  <2>2. CASE ~Contract!UpidPanics(OrderOf(o), c)
    <3>1. \A k \in DOMAIN c.descs : ~GivenPanics(c.descs[k], type, v)
      BY <1>2a, <2>2
    <3>2. Keeps(c, RewriteUpid(Encode(c), type, v), Contract!WithUpid(c, type, v))
      BY <1>2, <1>6, <3>1, UpidKeeps
    <3>3. QED BY <1>2b, <1>6, <2>2, <3>2
  <2>3. QED BY <2>1, <2>2
<1>7. raw = Panicked => v.splits # {}
  BY <1>4, <1>5, PlainBytes, NoSectionIsNone
<1> HIDE DEF raw
<1>8. Replied(o, SetPayload(o, Tried(raw)))
  BY <1>3, <1>4, <1>5, <1>6, <1>7, EditAnswers DEF v
<1>9. QED BY <1>1, <1>8

LEMMA LimitsAnswers ==
  ASSUME signal \in Signals, NEW o \in RuleOrders, o.action = "blackout"
  PROVE  Replied(o, SetPayload(o, Tried(RewriteDelivery(ToBytes(signal), o.limits))))
<1> DEFINE s == ToBytes(signal)
           raw == RewriteDelivery(s, o.limits)
<1>1. o.limits \in 0..31
  BY DEF RuleOrders
<1>2. Contract!Edits(o) /\ o.action # "replace"
  BY DEF Contract!Edits
<1>3. ~IsPlain(s) => raw = NoSection
  BY DeliveryUnplain
<1>4. s \in Sections => raw \in Edits /\ IsEdit(s, raw) /\ raw # Panicked
  <2>1. ASSUME s \in Sections PROVE raw \in Sections \cup {NoSection}
    BY <1>1, <2>1, DeliveryRewritten
  <2>2. ASSUME s \in Sections PROVE IsEdit(s, raw)
    <3>1. 0 \in Nat /\ 0 \in Int
      OBVIOUS
    <3>2. QED BY <2>2, <3>1, HeaderKept
  <2>3. QED BY <2>1, <2>2, NoSectionIsNone DEF Edits
<1>5. ASSUME NEW c \in Cues, s = Encode(c), ~c.enc PROVE Keeps(c, raw, Promised(o, c))
  <2>1. Keeps(c, RewriteDelivery(Encode(c), o.limits), Contract!WithLimits(c, o.limits))
    BY <1>1, <1>5, LimitsKeep
  <2>2. Promised(o, c) = Contract!WithLimits(c, o.limits)
    BY PromisedLimits
  <2>3. QED BY <1>5, <2>1, <2>2
<1>6. \A c : ~Contract!UpidPanics(OrderOf(o), c)
  BY UpidUntouched
<1>7. raw # Panicked
  BY <1>3, <1>4, PlainBytes, NoSectionIsNone
<1> HIDE DEF raw
<1>8. Replied(o, SetPayload(o, Tried(raw)))
  BY <1>2, <1>3, <1>4, <1>5, <1>6, <1>7, EditAnswers
<1>9. QED BY <1>8 DEF raw

\* The duration edits: what they write on is the break duration, if any.
LEMMA DurationAnswers ==
  ASSUME signal \in Signals, NEW o \in RuleOrders, o.action \in {"shorten", "fill", "extend"},
         o.ticks # NoneNamed, NEW brk \in LocateBreakDuration(ToBytes(signal)), NEW raw,
         raw = IF o.action = "extend" THEN AdjustBreak(ToBytes(signal), brk, o.ticks[1])
               ELSE RewriteBreak(ToBytes(signal), brk, AtLeast0(o.ticks[1]))
  PROVE  Replied(o, SetPayload(o, Tried(raw)))
<1> DEFINE s == ToBytes(signal)
           n == o.ticks[1]
<1>1. Contract!Edits(o) /\ Contract!EditsTicks(o) /\ o.action # "replace"
  BY DEF Contract!Edits, Contract!EditsTicks, Contract!NoneNamed, NoneNamed
<1>2. n \in Int /\ AtLeast0(n) \in Nat
  <2>1. o.ticks \in Maybe(Int)
    BY DEF RuleOrders
  <2>2. n \in Int
    BY <2>1, Given
  <2>3. QED BY <2>2 DEF AtLeast0
<1>3. \A c : ~Contract!UpidPanics(OrderOf(o), c)
  BY UpidUntouched
<1>4. ASSUME NEW c \in Cues, s = Encode(c), ~c.enc PROVE brk = BreakCell(c.cmd)
  <2>1. LocateBreakDuration(Encode(c)) = {BreakCell(c.cmd)}
    BY <1>4, BreakFound
  <2>2. QED BY <1>4, <2>1
<1>5. /\ ~IsPlain(s) => raw = NoSection
      /\ s \in Sections => raw \in Edits /\ IsEdit(s, raw) /\ (s.type # 5 => raw # Panicked)
      /\ \A c \in Cues : s = Encode(c) /\ ~c.enc => Keeps(c, raw, Promised(o, c))
  <2>1. CASE o.action = "extend"
    <3>1. raw = AdjustBreak(s, brk, n)
      BY <2>1
    <3>2. \A c \in Cues : Promised(o, c) = MappedCue(c, [t \in Nat |-> AtLeast0(t + n)])
      BY <2>1, PromisedDelta
    <3> HIDE DEF n
    <3>3. ~IsPlain(s) => raw = NoSection
      BY <3>1, UnplainKept
    <3>4. ASSUME s \in Sections
          PROVE  raw \in Edits /\ (s.type # 5 => raw # Panicked)
      BY <1>2, <3>1, <3>4, BreakAdjusted DEF Edits
    <3>5. ASSUME s \in Sections PROVE IsEdit(s, raw)
      BY <1>2, <3>1, <3>5, HeaderKept
    <3>6. ASSUME NEW c \in Cues, s = Encode(c), ~c.enc PROVE Keeps(c, raw, Promised(o, c))
      <4>1. Keeps(c, AdjustBreak(Encode(c), brk, n), MappedCue(c, [t \in Nat |-> AtLeast0(t + n)]))
        BY <1>2, <1>4, <3>6, AdjustKeeps
      <4>2. QED BY <3>1, <3>2, <3>6, <4>1
    <3>7. QED BY <3>3, <3>4, <3>5, <3>6
  <2>2. CASE o.action \in {"shorten", "fill"}
    <3>1. raw = RewriteBreak(s, brk, AtLeast0(n))
      BY <2>2
    <3>2. \A c \in Cues : Promised(o, c) = MappedCue(c, [t \in Nat |-> AtLeast0(n)])
      BY <2>2, PromisedTicks
    <3> HIDE DEF n
    <3>3. ~IsPlain(s) => raw = NoSection
      BY <3>1, UnplainKept
    <3>4. ASSUME s \in Sections
          PROVE  raw \in Edits /\ (s.type # 5 => raw # Panicked)
      BY <1>2, <3>1, <3>4, BreakRewritten DEF Edits
    <3>5. ASSUME s \in Sections PROVE IsEdit(s, raw)
      BY <1>2, <3>1, <3>5, HeaderKept
    <3>6. ASSUME NEW c \in Cues, s = Encode(c), ~c.enc PROVE Keeps(c, raw, Promised(o, c))
      <4>1. Keeps(c, RewriteBreak(Encode(c), brk, AtLeast0(n)), MappedCue(c, [t \in Nat |-> AtLeast0(n)]))
        BY <1>2, <1>4, <3>6, BreakKeeps
      <4>2. QED BY <3>1, <3>2, <3>6, <4>1
    <3>7. QED BY <3>3, <3>4, <3>5, <3>6
  <2>3. QED BY <2>1, <2>2
<1>6. raw = Panicked => s.type = 5
  BY <1>5, PlainBytes, NoSectionIsNone
<1>7. QED BY <1>1, <1>3, <1>5, <1>6, EditAnswers

\* What is not edited is passed on.
LEMMA PassAnswers ==
  ASSUME signal \in Signals, NEW o \in RuleOrders,
         ~Contract!Edits(o), o.action \notin {"delete", "replace"}
  PROVE  Replied(o, Passed(o))
<1> SUFFICES ASSUME ~Contract!BuildPanics(OrderOf(o))
             PROVE  Contract!Answers(OrderOf(o), CueOf(signal), CueOf(Passed(o)))
  BY DEF Replied
<1> DEFINE c == CueOf(signal)
           r == OrderOf(o)
           new == CueOf(Passed(o))
<1>1. /\ r.action = o.action /\ r.object = o.object /\ o.object \in BOOLEAN
      /\ ~Contract!Edits(r) /\ r.action \notin {"delete", "replace"}
  <2>1. r.action = o.action /\ r.ticks = o.ticks /\ r.object = o.object /\ o.object \in BOOLEAN
    BY OrderFields
  <2>2. QED BY <2>1 DEF Contract!Edits, Contract!EditsUpid, Contract!EditsTicks
<1>2. Contract!Edited(r, c) = c
  BY <1>1, PromisedNothing DEF Promised
<1>3. ~Contract!UpidPanics(r, c) /\ ~Contract!BuildPanics(r)
  BY <1>1 DEF Contract!UpidPanics, Contract!Edits
<1>4. CASE signal = NoSignal
  <2>1. c = NoCue /\ Passed(o) = OwnPayload(o)
    BY <1>4 DEF CueOf, Passed
  <2>2. Contract!Carries(r, new)
    BY <2>1, OwnKept
  <2> HIDE DEF c, new, r
  <2>3. Contract!Answers(r, c, new)
    BY <1>1, <1>3, <2>1, <2>2, Zenon DEF Contract!Answers
  <2>4. QED BY <2>3 DEF c, new, r
<1>5. CASE signal # NoSignal
  <2>1. (o.object => new = c) /\ (~o.object => new = Unanswered)
    BY <1>1, <1>5, PayloadCue
  <2>2. c # NoCue
    BY <1>5, CueKinds, KindsApart
  <2> HIDE DEF c, new, r
  <2>3. Contract!Answers(r, c, new)
    BY <1>1, <1>2, <1>3, <2>1, <2>2 DEF Contract!Answers
  <2>4. QED BY <2>3 DEF c, new, r
<1>6. QED BY <1>4, <1>5

\* Without a rule the cue is answered as it came.
LEMMA UnmatchedAnswers ==
  ASSUME signal \in Signals PROVE Replied(Unmatched, signal)
<1> DEFINE c == CueOf(signal)
           r == OrderOf(Unmatched)
<1>1. /\ r.action = "noop" /\ r.object = TRUE /\ r.build = NoneNamed
      /\ r.literal = CueOf(NoSignal)
  BY DEF OrderOf, Unmatched
<1>2. CueOf(NoSignal) = NoCue
  BY DEF CueOf
<1>3. DOMAIN r.build = {}
  BY <1>1 DEF NoneNamed
<1>4. ~Contract!Edits(r) /\ ~Contract!UpidPanics(r, c) /\ ~Contract!BuildPanics(r)
  BY <1>1, <1>3 DEF Contract!Edits, Contract!EditsUpid, Contract!EditsTicks,
                    Contract!UpidPanics, Contract!BuildPanics
<1>5. Contract!Edited(r, c) = c
  BY <1>4, PromisedNothing DEF Promised
<1> HIDE DEF c, r
<1>6. CASE c = NoCue
  <2>1. Contract!Carries(r, c)
    BY <1>1, <1>2, <1>3, <1>6 DEF Contract!Carries
  <2>2. Contract!Answers(r, c, c)
    BY <1>1, <1>4, <1>6, <2>1 DEF Contract!Answers
  <2>3. QED BY <2>2 DEF c, r, Replied
<1>7. CASE c # NoCue
  <2>1. Contract!Answers(r, c, c)
    BY <1>1, <1>4, <1>5, <1>7 DEF Contract!Answers
  <2>2. QED BY <2>1 DEF c, r, Replied
<1>8. QED BY <1>6, <1>7

LEMMA SignalRead ==
  ASSUME TypeOK, signal # NoAnswer PROVE signal \in Signals /\ CueOf(signal) # Unanswered
<1>1. signal \in Signals
  BY DEF TypeOK
<1>2. QED BY <1>1, CueKinds, KindsApart

LEMMA AnswerKeeps ==
  ASSUME TypeOK, cue = CueOf(signal), NEW o \in RuleOrders \cup {Unmatched},
         o \in Orders \cup {Unmatched}, NEW payload, Answer(o, payload), Replied(o, payload)
  PROVE  Contract!Condition
<1>1. /\ hops < MaxHops /\ hops' = hops + 1 /\ signal # NoAnswer
      /\ order' = OrderOf(o) /\ cue' = CueOf(signal')
  BY DEF Answer
<1>2. order' \in ContractOrders
  BY <1>1 DEF ContractOrders
<1>3. cue # Unanswered
  BY <1>1, SignalRead
<1>4. Contract!Answers(order', cue, cue')
  <2> DEFINE r == OrderOf(o)
  <2>1. CASE Contract!BuildPanics(r)
    <3>1. signal' = NoAnswer
      BY <2>1, BuildPanicsSame DEF Answer
    <3>2. cue' = Unanswered
      BY <1>1, <3>1, NoSignalIsSignal DEF CueOf
    <3>3. QED BY <1>1, <2>1, <3>2 DEF Contract!Answers
  <2>2. CASE ~Contract!BuildPanics(r)
    <3>1. signal' = payload
      BY <2>2, BuildPanicsSame DEF Answer
    <3>2. QED BY <1>1, <2>2, <3>1 DEF Replied
  <2>3. QED BY <2>1, <2>2
<1>5. QED BY <1>1, <1>2, <1>3, <1>4 DEF Contract!Condition

\* Every whole answer is a step of the contract.
LEMMA StepKeeps == TypeOK /\ cue = CueOf(signal) /\ Next => Contract!Condition
<1> SUFFICES ASSUME TypeOK, cue = CueOf(signal), Next PROVE Contract!Condition
  OBVIOUS
<1>0. signal \in Signals
  <2>1. signal # NoAnswer
    BY DEF Next, Fallback, PassThrough, Replace, Regionalize, Blackout, SetBreak, Extend, Delete,
           Answer
  <2>2. QED BY <2>1, SignalRead
<1>1. CASE Fallback
  <2>1. Answer(Unmatched, signal)
    BY <1>1 DEF Fallback
  <2>2. QED BY <1>0, <2>1, UnmatchedAnswers, AnswerKeeps
<1>2. ASSUME NEW o \in Orders,
             \/ PassThrough(o) \/ Replace(o) \/ Regionalize(o) \/ Blackout(o)
             \/ SetBreak(o) \/ Extend(o) \/ Delete(o)
      PROVE  Contract!Condition
  <2>1. o \in RuleOrders /\ o \in Orders \cup {Unmatched}
    BY ConditioningAssumption
  <2>2. ASSUME NEW payload, Answer(o, payload), Replied(o, payload)
        PROVE  Contract!Condition
    BY <2>1, <2>2, AnswerKeeps
  <2>2a. SetPayload(o, NoSection) = Passed(o)
    BY NoSectionIsNone DEF SetPayload
  <2>3. CASE PassThrough(o)
    <3>1. PassesThrough(o) /\ Answer(o, Passed(o))
      BY <2>3 DEF PassThrough
    <3>2. ~Contract!Edits(o) /\ o.action \notin {"delete", "replace"}
      BY <3>1 DEF PassesThrough, Contract!Edits, Contract!EditsUpid, Contract!EditsTicks
    <3>3. QED BY <1>0, <2>1, <2>2, <3>1, <3>2, PassAnswers
  <2>4. CASE Replace(o) /\ o.upid = NoneNamed
    <3>1. o.action = "replace" /\ Answer(o, OwnPayload(o))
      BY <2>4 DEF Replace
    <3>2. Contract!Carries(OrderOf(o), CueOf(OwnPayload(o)))
      BY <2>1, OwnKept
    <3>3. OrderOf(o).action = o.action /\ OrderOf(o).upid = o.upid
      BY <2>1, OrderFields
    <3>4. Contract!Answers(OrderOf(o), CueOf(signal), CueOf(OwnPayload(o)))
            \/ Contract!BuildPanics(OrderOf(o))
      BY <2>4, <3>1, <3>2, <3>3, Zenon DEF Contract!Answers, Contract!NoneNamed, NoneNamed
    <3>5. QED BY <2>2, <3>1, <3>4 DEF Replied
  <2>5. CASE Replace(o) /\ o.upid # NoneNamed
    <3>1. o.action = "replace" /\ Answer(o, SetPayload(o, UpidEdited(o)))
      BY <2>5 DEF Replace
    <3>2. QED BY <1>0, <2>1, <2>2, <2>5, <3>1, UpidAnswers
  <2>6. CASE Regionalize(o)
    <3>1. o.action = "regionalize" /\ Answer(o, SetPayload(o, UpidEdited(o)))
      BY <2>6 DEF Regionalize
    <3>2. QED BY <1>0, <2>1, <2>2, <3>1, UpidAnswers
  <2>7. CASE Blackout(o)
    <3>1. /\ o.action = "blackout"
          /\ Answer(o, SetPayload(o, Tried(RewriteDelivery(ToBytes(signal), o.limits))))
      BY <2>7 DEF Blackout
    <3>2. QED BY <1>0, <2>1, <2>2, <3>1, LimitsAnswers
  <2>8. CASE SetBreak(o)
    <3>1. o.action \in {"shorten", "fill"}
      BY <2>8 DEF SetBreak
    <3>2. PICK brk \in LocateBreakDuration(ToBytes(signal)) :
            Answer(o, SetPayload(o, IF o.ticks = NoneNamed THEN NoSection
                        ELSE Tried(RewriteBreak(ToBytes(signal), brk, AtLeast0(o.ticks[1])))))
      BY <2>8 DEF SetBreak
    <3>3. CASE o.ticks = NoneNamed
      <4>1. ~Contract!Edits(o)
        BY <3>1, <3>3 DEF Contract!Edits, Contract!EditsUpid, Contract!EditsTicks,
                          Contract!NoneNamed, NoneNamed
      <4>2. Answer(o, Passed(o))
        BY <2>2a, <3>2, <3>3
      <4>3. QED BY <1>0, <2>1, <2>2, <3>1, <4>1, <4>2, PassAnswers
    <3>4. CASE o.ticks # NoneNamed
      <4>1. PICK raw : raw = RewriteBreak(ToBytes(signal), brk, AtLeast0(o.ticks[1]))
        OBVIOUS
      <4>2. raw = IF o.action = "extend" THEN AdjustBreak(ToBytes(signal), brk, o.ticks[1])
                  ELSE RewriteBreak(ToBytes(signal), brk, AtLeast0(o.ticks[1]))
        BY <3>1, <4>1
      <4>3. Answer(o, SetPayload(o, Tried(raw)))
        BY <3>2, <3>4, <4>1
      <4>4. o.action \in {"shorten", "fill", "extend"}
        BY <3>1
      <4>5. Replied(o, SetPayload(o, Tried(raw)))
        BY <1>0, <2>1, <3>2, <3>4, <4>2, <4>4, DurationAnswers
      <4>6. QED BY <2>2, <4>3, <4>5
    <3>5. QED BY <3>3, <3>4
  <2>9. CASE Extend(o)
    <3>1. o.action = "extend"
      BY <2>9 DEF Extend
    <3>2. PICK brk \in LocateBreakDuration(ToBytes(signal)) :
            Answer(o, SetPayload(o, IF o.ticks = NoneNamed THEN NoSection
                        ELSE Tried(AdjustBreak(ToBytes(signal), brk, o.ticks[1]))))
      BY <2>9 DEF Extend
    <3>3. CASE o.ticks = NoneNamed
      <4>1. ~Contract!Edits(o)
        BY <3>1, <3>3 DEF Contract!Edits, Contract!EditsUpid, Contract!EditsTicks,
                          Contract!NoneNamed, NoneNamed
      <4>2. Answer(o, Passed(o))
        BY <2>2a, <3>2, <3>3
      <4>3. QED BY <1>0, <2>1, <2>2, <3>1, <4>1, <4>2, PassAnswers
    <3>4. CASE o.ticks # NoneNamed
      <4>1. PICK raw : raw = AdjustBreak(ToBytes(signal), brk, o.ticks[1])
        OBVIOUS
      <4>2. raw = IF o.action = "extend" THEN AdjustBreak(ToBytes(signal), brk, o.ticks[1])
                  ELSE RewriteBreak(ToBytes(signal), brk, AtLeast0(o.ticks[1]))
        BY <3>1, <4>1
      <4>3. Answer(o, SetPayload(o, Tried(raw)))
        BY <3>2, <3>4, <4>1
      <4>4. o.action \in {"shorten", "fill", "extend"}
        BY <3>1
      <4>5. Replied(o, SetPayload(o, Tried(raw)))
        BY <1>0, <2>1, <3>2, <3>4, <4>2, <4>4, DurationAnswers
      <4>6. QED BY <2>2, <4>3, <4>5
    <3>5. QED BY <3>3, <3>4
  <2>10. CASE Delete(o)
    <3>1. o.action = "delete" /\ Answer(o, NoSignal)
      BY <2>10 DEF Delete
    <3>2. OrderOf(o).action = "delete"
      BY <2>1, <3>1, OrderFields
    <3>3. CueOf(NoSignal) = NoCue
      BY DEF CueOf
    <3>4. Replied(o, NoSignal)
      BY <3>2, <3>3 DEF Contract!Answers, Replied
    <3>5. QED BY <2>2, <3>1, <3>4
  <2>11. QED BY <1>2, <2>3, <2>4, <2>5, <2>6, <2>7, <2>8, <2>9, <2>10
<1>3. QED BY <1>1, <1>2 DEF Next

(* Bytes implement the contract: whatever cues encoders send, rules ask for *)
(* and servers a signal passes, the cue that is read from an answer is the  *)
(* one that the rule promises for the cue of the event; the edits in place  *)
(* of tools_api.rs change nothing else in it and leave its lengths and CRC  *)
(* right, the cues that scte35.rs builds are the ones described, and there  *)
(* is no answer only where the contract says that there may be none.        *)
THEOREM BytesKeepTheContract == Spec => KeepsContract
<1>1. Init => Contract!Init
  BY CueAssumption DEF Init, Contract!Init
<1>2. TypeOK /\ cue = CueOf(signal) /\ [Next]_vars => [Contract!Condition]_(Contract!contractVars)
  <2>1. TypeOK /\ cue = CueOf(signal) /\ Next => Contract!Condition
    BY StepKeeps
  <2>2. UNCHANGED vars => UNCHANGED Contract!contractVars
    BY DEF vars, Contract!contractVars
  <2>3. QED BY <2>1, <2>2
<1>3. QED BY <1>1, <1>2, TypeCorrect, CueIsRead, PTL DEF Spec, KeepsContract, Contract!Spec

-----------------------------------------------------------------------------
(* No answer drops the cue, but where the code panics.                      *)

\* An edit that does not panic gives a cue.
LEMMA EditedTyped ==
  ASSUME NEW o \in RuleOrders, NEW c \in Cues, ~c.enc, ~Contract!UpidPanics(OrderOf(o), c)
  PROVE  Promised(o, c) \in Cues
<1>1. CASE o.action \in {"replace", "regionalize"}
  <2> DEFINE type == NamedUpid(o).type
             v == NamedUpid(o).value
  <2>1. type \in Maybe(Nat) /\ v \in UpidValues
    BY NamedTyped
  <2>2. \A k \in DOMAIN c.descs : ~GivenPanics(c.descs[k], type, v)
    BY <1>1, UpidPanicsSame
  <2>3. Promised(o, c) = Contract!WithUpid(c, type, v)
    BY <1>1, PromisedUpid
  <2> HIDE DEF type, v
  <2>4. Keeps(c, RewriteUpid(Encode(c), type, v), Contract!WithUpid(c, type, v))
    BY <2>1, <2>2, UpidKeeps
  <2>5. QED BY <2>3, <2>4 DEF Keeps
<1>2. CASE o.action = "blackout"
  <2>1. o.limits \in 0..31
    BY DEF RuleOrders
  <2>2. Keeps(c, RewriteDelivery(Encode(c), o.limits), Contract!WithLimits(c, o.limits))
    BY <2>1, LimitsKeep
  <2>3. QED BY <1>2, <2>2, PromisedLimits DEF Keeps
<1>3. CASE o.action \in {"shorten", "fill", "extend"} /\ o.ticks # NoneNamed
  <2> DEFINE n == o.ticks[1]
             f == IF o.action = "extend" THEN [t \in Nat |-> AtLeast0(t + n)]
                  ELSE [t \in Nat |-> AtLeast0(n)]
  <2>1. n \in Int
    <3>1. o.ticks \in Maybe(Int)
      BY DEF RuleOrders
    <3>2. QED BY <1>3, <3>1, Given
  <2>2. Promised(o, c) = MappedCue(c, f)
    BY <1>3, PromisedTicks, PromisedDelta
  <2>3. IsMap(f)
    <3> HIDE DEF n
    <3>1. \A t \in Nat : AtLeast0(t + n) \in Nat /\ AtLeast0(n) \in Nat
      BY <2>1 DEF AtLeast0
    <3>2. QED BY <3>1 DEF IsMap
  <2> HIDE DEF f
  <2>4. MappedCue(c, f) \in Cues
    BY <2>3, DurationSection DEF MappedCue
  <2>5. QED BY <2>2, <2>4
<1>4. CASE ~Contract!Edits(OrderOf(o))
  BY <1>4, PromisedNothing
<1>5. Contract!Edits(OrderOf(o)) =>
        \/ o.action \in {"replace", "regionalize", "blackout"}
        \/ o.action \in {"shorten", "fill", "extend"} /\ o.ticks # NoneNamed
  <2>1. OrderOf(o).action = o.action /\ OrderOf(o).ticks = o.ticks
    BY OrderFields
  <2>2. QED BY <2>1 DEF Contract!Edits, Contract!EditsUpid, Contract!EditsTicks,
                        Contract!NoneNamed, NoneNamed
<1>6. QED BY <1>1, <1>2, <1>3, <1>4, <1>5

\* A UPID with characters that may be cut in two.
LEMMA SplitNamed ==
  ASSUME NEW o \in RuleOrders, Contract!UpidOf(OrderOf(o)).value.splits # {}
  PROVE  \E k \in DOMAIN OrderOf(o).upid : OrderOf(o).upid[k].value.splits # {}
<1> DEFINE C == [type : Maybe(Nat), value : UpidValues]
           u == OrderOf(o).upid
<1>1. u = o.upid /\ u \in Maybe(C)
  BY OrderFields DEF RuleOrders
<1>2. u # NoneNamed
  BY DEF Contract!UpidOf, Contract!EmptyUpid, Contract!NoneNamed, NoneNamed
<1>3. Contract!UpidOf(OrderOf(o)) = u[1]
  BY <1>2 DEF Contract!UpidOf, Contract!NoneNamed, NoneNamed
<1> HIDE DEF C
<1>4. Len(u) = 1 /\ u \in Seq(C)
  BY <1>1, <1>2, Given
<1> HIDE DEF u
<1>5. 1 \in DOMAIN u
  BY <1>4
<1>6. \E k \in DOMAIN u : u[k].value.splits # {}
  BY <1>3, <1>5
<1>7. QED BY <1>6 DEF u

LEMMA SplitBuilt ==
  ASSUME NEW o \in RuleOrders \cup {Unmatched}, Contract!BuildPanics(OrderOf(o))
  PROVE  \E k \in DOMAIN OrderOf(o).build : \E n \in DOMAIN OrderOf(o).build[k].upid :
            OrderOf(o).build[k].upid[n].splits # {}
<1> DEFINE b == OrderOf(o).build
<1>1. b = o.build
  BY OrderFields
<1>2. PICK k \in DOMAIN b : b[k].upid # NoneNamed /\ b[k].upid[1].splits # {}
  BY DEF Contract!BuildPanics, Contract!NoneNamed, NoneNamed
<1>3. o \in RuleOrders
  BY <1>1, <1>2 DEF Unmatched, NoneNamed
<1>4. b \in Seq(Builds)
  <2>1. o.build \in Maybe(Builds)
    BY <1>3 DEF RuleOrders
  <2> HIDE DEF Builds
  <2>2. QED BY <1>1, <2>1, Given
<1> HIDE DEF b
<1>5. b[k] \in Builds
  <2> HIDE DEF Builds
  <2>1. QED BY <1>2, <1>4
<1>6. b[k].upid \in Maybe(UpidValues)
  BY <1>5 DEF Builds
<1>7. 1 \in DOMAIN b[k].upid
  <2> HIDE DEF UpidValues
  <2>1. Len(b[k].upid) = 1 /\ b[k].upid \in Seq(UpidValues)
    BY <1>2, <1>6, Given
  <2>2. QED BY <2>1
<1>8. \E x \in DOMAIN b : \E n \in DOMAIN b[x].upid : b[x].upid[n].splits # {}
  BY <1>2, <1>7
<1>9. QED BY <1>8 DEF b

\* There is no answer to a cue only where CanPanic says so.
LEMMA OnlyPanics ==
  ASSUME signal \in Signals, signal # NoSignal, NEW o \in RuleOrders \cup {Unmatched},
         Contract!Answers(OrderOf(o), CueOf(signal), Unanswered), ~Drops(OrderOf(o))
  PROVE  CanPanic(OrderOf(o), CueOf(signal))
<1> DEFINE c == CueOf(signal)
           r == OrderOf(o)
<1>1. /\ r.action # "delete" /\ ~(r.action = "replace" /\ r.upid = Contract!NoneNamed)
  BY DEF Drops, Contract!NoneNamed, NoneNamed
<1>2. \/ c \in {Opaque, Garbled} \/ c \in Cues \cup PrivateCues
  BY CueKinds
<1>3. c # NoCue /\ c # Unanswered
  BY <1>2, KindsApart
<1>4. r.upid = o.upid /\ (r.object \in BOOLEAN)
  BY OrderFields
<1>5. CASE Contract!BuildPanics(r)
  BY <1>5, SplitBuilt DEF CanPanic
<1>6. CASE ~r.object
  BY <1>6 DEF CanPanic
<1>7. CASE c = Opaque
  BY <1>7 DEF CanPanic
<1>8. CASE ~Contract!BuildPanics(r) /\ r.object /\ c # Opaque
  <2>1. CASE o = Unmatched
    <3>1. r.action = "noop"
      BY <2>1 DEF OrderOf, Unmatched
    <3>2. ~Contract!Edits(r) /\ ~Contract!UpidPanics(r, c)
      BY <3>1 DEF Contract!Edits, Contract!EditsUpid, Contract!EditsTicks, Contract!UpidPanics
    <3>3. Contract!Edited(r, c) = c
      BY <3>2, PromisedNothing DEF Promised
    <3> HIDE DEF c, r
    <3>4. ~Contract!Answers(r, c, Unanswered)
      BY <1>1, <1>3, <1>8, <3>2, <3>3 DEF Contract!Answers
    <3>5. QED BY <3>4 DEF c, r
  <2>2. CASE o \in RuleOrders
    <3>1. ASSUME Contract!UpidOf(r).value.splits # {} PROVE CanPanic(r, c)
      BY <2>2, <3>1, SplitNamed DEF CanPanic
    <3>2. ASSUME Contract!Editable(c), ~Contract!UpidPanics(r, c)
          PROVE  Contract!Edited(r, c) # Unanswered
      <4>1. c \in Cues /\ ~c.enc
        BY <1>2, <3>2, KindsApart DEF Contract!Editable, Contract!IsReadable, Contract!IsPrivate
      <4>2. Contract!Edited(r, c) \in Cues
        BY <2>2, <3>2, <4>1, EditedTyped DEF Promised
      <4>3. QED BY <4>2, KindsApart
    <3>3. Contract!UpidPanics(r, c) => Contract!UpidOf(r).value.splits # {}
      BY DEF Contract!UpidPanics
    <3>4. Contract!EditsTicks(r) /\ c = Garbled => CanPanic(r, c)
      BY DEF Contract!EditsTicks, CanPanic
    <3> HIDE DEF c, r
    <3>5. Contract!Answers(r, c, Unanswered)
      BY DEF c, r
    <3>6. \/ Contract!UpidPanics(r, c)
          \/ Contract!UpidOf(r).value.splits # {}
          \/ Contract!EditsTicks(r) /\ c = Garbled
      BY <1>1, <1>3, <1>8, <3>2, <3>5 DEF Contract!Answers
    <3>7. CanPanic(r, c)
      BY <3>1, <3>3, <3>4, <3>6
    <3>8. QED BY <3>7 DEF c, r
  <2>3. QED BY <2>1, <2>2
<1>9. QED BY <1>4, <1>5, <1>6, <1>7, <1>8

(* An answer that falls back on the event's cue carries one, or is none.    *)
LEMMA FallsBack ==
    ASSUME signal # NoSignal, NEW o, NEW edited
    PROVE  Passed(o) # NoSignal /\ SetPayload(o, edited) # NoSignal
BY TextIsSignal, NoSignalIsSignal DEF Passed, SetPayload, Put

(* main.rs:1093 (set_payload): "so a conditioning action never drops the    *)
(* signal".  It does not: the answer to an event with a cue carries one,    *)
(* unless the rule deletes it or replaces it with what the rule carries, or *)
(* the code panics; and it panics only for what CanPanic names.             *)
THEOREM CuesAreKept == Spec => DroppedOnlyByPanic
<1>1. ASSUME TypeOK, cue = CueOf(signal), [Next]_vars
      PROVE  [signal # NoSignal /\ ~Drops(order') =>
                signal' # NoSignal /\ (signal' = NoAnswer => CanPanic(order', cue))]_vars
  <2>1. CASE UNCHANGED vars BY <2>1
  <2>2. SUFFICES ASSUME Next, signal # NoSignal, ~Drops(order')
                 PROVE  signal' # NoSignal /\ (signal' = NoAnswer => CanPanic(order', cue))
    BY <1>1, <2>1
  <2>3. signal' # NoSignal
    <3>1. CASE Fallback
      BY <2>2, <3>1, NoSignalIsSignal DEF Fallback, Answer
    <3>2. ASSUME NEW o \in Orders, NEW payload, Answer(o, payload), payload # NoSignal
          PROVE  signal' # NoSignal
      BY <3>2, NoSignalIsSignal DEF Answer
    <3>3. ASSUME NEW o \in Orders,
                 \/ PassThrough(o) \/ Replace(o) \/ Regionalize(o) \/ Blackout(o)
                 \/ SetBreak(o) \/ Extend(o) \/ Delete(o)
          PROVE  signal' # NoSignal
      <4>0. OrderOf(o).action = o.action /\ OrderOf(o).upid = o.upid
        BY ConditioningAssumption, OrderFields
      <4>1. CASE PassThrough(o)
        BY <2>2, <3>2, <4>1, FallsBack DEF PassThrough
      <4>2. CASE Replace(o)
        <5>1. order' = OrderOf(o) /\ o.action = "replace"
          BY <4>2 DEF Replace, Answer
        <5>2. o.upid # NoneNamed
          BY <2>2, <4>0, <5>1 DEF Drops
        <5>3. QED BY <2>2, <3>2, <4>2, <5>2, FallsBack DEF Replace
      <4>3. CASE Regionalize(o)
        BY <2>2, <3>2, <4>3, FallsBack DEF Regionalize
      <4>4. CASE Blackout(o)
        BY <2>2, <3>2, <4>4, FallsBack DEF Blackout
      <4>5. CASE SetBreak(o)
        BY <2>2, <3>2, <4>5, FallsBack DEF SetBreak
      <4>6. CASE Extend(o)
        BY <2>2, <3>2, <4>6, FallsBack DEF Extend
      <4>7. CASE Delete(o)
        BY <2>2, <4>0, <4>7 DEF Delete, Answer, Drops
      <4>8. QED BY <3>3, <4>1, <4>2, <4>3, <4>4, <4>5, <4>6, <4>7
    <3>4. QED BY <2>2, <3>1, <3>3 DEF Next
  <2>4. ASSUME signal' = NoAnswer PROVE CanPanic(order', cue)
    <3>1. Contract!Condition
      BY <1>1, <2>2, StepKeeps
    <3>2. Contract!Answers(order', cue, cue') /\ order' \in ContractOrders /\ cue # Unanswered
      BY <3>1 DEF Contract!Condition
    <3>3. PICK o \in Orders \cup {Unmatched} : order' = OrderOf(o)
      BY <3>2 DEF ContractOrders
    <3>4. o \in RuleOrders \cup {Unmatched}
      BY ConditioningAssumption
    <3>5. signal \in Signals
      <4>1. CueOf(NoAnswer) = Unanswered
        BY NoSignalIsSignal DEF CueOf
      <4>2. signal # NoAnswer
        BY <1>1, <3>2, <4>1
      <4>3. QED BY <1>1, <4>2, SignalRead
    <3>6. cue' = Unanswered
      <4>1. cue' = CueOf(signal')
        BY <2>2 DEF Next, Fallback, PassThrough, Replace, Regionalize, Blackout, SetBreak, Extend,
                    Delete, Answer
      <4>2. QED BY <2>4, <4>1, NoSignalIsSignal DEF CueOf
    <3>7. QED BY <1>1, <2>2, <3>2, <3>3, <3>4, <3>5, <3>6, OnlyPanics
  <2>5. QED BY <2>3, <2>4
<1>2. QED BY <1>1, TypeCorrect, CueIsRead, PTL DEF Spec, DroppedOnlyByPanic
=============================================================================
