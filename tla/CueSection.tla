----------------------------- MODULE CueSection -----------------------------
(***************************************************************************)
(* SCTE-35 sections: the encoder, the two decoders and the edits in place. *)
(*                                                                         *)
(* A section is a fixed header, a body and a CRC.  The body is a sequence  *)
(* of cells, each a natural number: the command, the length of the         *)
(* descriptor loop, the descriptors, alignment stuffing.  A cell is a byte *)
(* where the code can read it as a length, a flag or a byte of a UPID, and *)
(* a whole field where it never does: an identifier with its event id, a   *)
(* PTS or a duration, a component, the program ids.  Lengths count cells.  *)
(* Their widths, and those of the two durations, are constants.  The CRC   *)
(* is the content it was computed over.  A section may be cut short, but   *)
(* between cells.  A read past the body fails; in the code it fails four   *)
(* bytes later, behind the CRC.  Where the code indexes without a test it  *)
(* panics instead, and there is no section: the value is Panicked.         *)
(***************************************************************************)
EXTENDS Integers, SequencesExt

CONSTANTS LenMod, LoopMod, SectionMod, T33, T40, PoisOut

NoneNamed == <<>>

ASSUME WidthAssumption ==
    /\ {LenMod, LoopMod, SectionMod, T33, T40} \subseteq Nat \ {0}
    /\ T33 <= T40
    /\ PoisOut \in Seq(Nat)

Some(x, default) == IF x = NoneNamed THEN default ELSE x[1]

AtLeast0(n) == IF n < 0 THEN 0 ELSE n

Later(i, j) == IF i < j THEN j ELSE i

\* Flags in a cell.
Bit(n, w) == (n \div w) % 2 = 1

Flag(b, w) == IF b THEN w ELSE 0

\* Reading a cell: a read out of bounds is noticed at the end of the walk.
At(b, i) == IF i \in DOMAIN b THEN b[i] ELSE 0

Cut(b, i, j) == SubSeq(b, i, IF j > Len(b) THEN Len(b) ELSE j)

\* What an edit gives that cannot be made, and one that panics.
NoSection == [table |-> 0]
Panicked == [table |-> 1]

\* A value that may be absent.
Maybe(S) == {x \in Seq(S) : Len(x) <= 1}

Sections ==
    [table : Nat, enc : BOOLEAN, type : Nat, body : Seq(Nat), secLen : Nat, cmdLen : Nat,
     crc : BOOLEAN \X Nat \X Nat \X Nat \X Seq(Nat)]

Fixed == 15     \* bytes after section_length that are not in the body

(* The content a CRC covers.                                                *)
Covered(s) == <<s.enc, s.secLen, s.cmdLen, s.type, s.body>>

Sealed(s) == [s EXCEPT !.crc = Covered(s)]

Section(type, enc, command, rest) ==
    LET body == command \o rest
    IN Sealed([table |-> 252, enc |-> enc, type |-> type, body |-> body,
               secLen |-> (Fixed + Len(body)) % SectionMod,
               cmdLen |-> Len(command), crc |-> <<>>])

-----------------------------------------------------------------------------
(* The encoder.                                                             *)

SegTag == 2

(* encode_upid.  A text has the bytes it spells in hex, or as a UUID, if it *)
(* does.  hex_decode slices it every two bytes: for the types in v.splits   *)
(* that cuts a character in two, and panics.                                *)
UpidBytes(type, v) ==
    CASE type \in {8, 9} -> Some(v.hex, v.text)
      [] type = 11 -> Some(v.uuid, v.text)
      [] OTHER -> v.text

UpidPanics(type, v) == type \in v.splits

AddSegmentation(dur, segType, upidType, upid) ==
    LET kind == Some(upidType, 12)
        bytes == IF upid = NoneNamed THEN PoisOut ELSE UpidBytes(kind, upid[1])
        type == Some(segType, 16)
        body == <<1, 0, 128 + Flag(dur # NoneNamed, 64) + 32>>
                  \o [k \in DOMAIN dur |-> dur[k] % T40]
                  \o <<kind, Len(bytes) % LenMod>> \o bytes
                  \o <<type, 0, 0>>
                  \o IF type \in {52, 54, 56, 58} THEN <<0, 0>> ELSE <<>>
    IN <<Len(body) + 2, SegTag, Len(body) % LenMod>> \o body

TimeSignalSection(segType, upidType, upid) ==
    Section(6, FALSE, <<0>>,
            IF segType # NoneNamed \/ upidType # NoneNamed
              THEN AddSegmentation(NoneNamed, segType, upidType, upid)
              ELSE <<0>>)

SpliceOutSection(dur, segType, upidType, upid) ==
    Section(5, FALSE, <<1, 0, 128 + 64 + 32 + 16, 1, dur % T33, 1>>,
            AddSegmentation(<<dur>>, segType, upidType, upid))

SpliceInSection == Section(5, FALSE, <<2, 0, 64 + 16, 1>>, <<0>>)

SpliceInAtSection(pts) == Section(5, FALSE, <<2, 0, 64, 128, pts % T33, 1>>, <<0>>)

(* maybe_build_scte35 and the tools' builders: NoSection for a command that *)
(* is none of theirs.                                                       *)
BuildSection(b) ==
    CASE b.command = "time_signal" -> TimeSignalSection(b.segType, b.upidType, b.upid)
      [] b.command = "splice_insert_out" ->
           SpliceOutSection(b.dur, b.segType, b.upidType, b.upid)
      [] OTHER -> NoSection

\* There is none either if the UPID panics.
BuildPanics(b) ==
    /\ b.command \in {"time_signal", "splice_insert_out"}
    /\ b.upid # NoneNamed /\ UpidPanics(Some(b.upidType, 12), b.upid[1])

-----------------------------------------------------------------------------
(* Walking the command.  A splice_time is one cell, or two with a PTS.      *)

TimeAt(b, i) == IF Bit(At(b, i), 128) THEN <<At(b, i + 1)>> ELSE NoneNamed

AfterTime(b, i) == IF Bit(At(b, i), 128) THEN i + 2 ELSE i + 1

(* The fields of a splice_insert, next the cell after it, and ticks the     *)
(* cell of the break duration.  A component is a tag and, unless the splice *)
(* is immediate, a splice_time.                                             *)
SpliceInsert(b) ==
    LET cancel == Bit(At(b, 2), 128)
        flags == At(b, 3)
        program == Bit(flags, 64)
        timed == ~Bit(flags, 16)
        n == IF program THEN (IF timed THEN 1 ELSE 0) ELSE At(b, 4)
        tag == IF program THEN 0 ELSE 1
        from[k \in 1..(n + 1)] ==
            IF k = 1 THEN IF program THEN 4 ELSE 5
            ELSE IF timed THEN AfterTime(b, from[k - 1] + tag)
            ELSE from[k - 1] + tag
        end == from[n + 1]
        breaks == Bit(flags, 32)
    IN IF cancel
         THEN [next |-> 3, ticks |-> 0,
               cmd |-> [type |-> "insert", event |-> At(b, 1), cancel |-> TRUE,
                        dur |-> NoneNamed]]
         ELSE [next |-> end + (IF breaks THEN 2 ELSE 0) + 1,
               ticks |-> IF breaks THEN end + 1 ELSE 0,
               cmd |-> [type |-> "insert", event |-> At(b, 1), cancel |-> FALSE,
                        out |-> Bit(flags, 128), program |-> program,
                        imm |-> ~timed,
                        tags |-> IF program THEN <<>>
                                 ELSE [k \in 1..n |-> At(b, from[k])],
                        times |-> [k \in 1..n |->
                                     IF timed THEN TimeAt(b, from[k] + tag) ELSE NoneNamed],
                        auto |-> IF breaks THEN At(b, end) ELSE 0,
                        dur |-> IF breaks THEN <<At(b, end + 1)>> ELSE NoneNamed,
                        ids |-> At(b, end + (IF breaks THEN 2 ELSE 0))]]

(* parse_command_info.  The body of a command it does not know is left      *)
(* unread, so that the loop is looked for inside it.                        *)
ParseCommand(s) ==
    CASE s.type = 5 -> SpliceInsert(s.body)
      [] s.type = 6 -> [next |-> AfterTime(s.body, 1),
                        cmd |-> [type |-> "signal", time |-> TimeAt(s.body, 1)]]
      [] s.type = 0 -> [next |-> 1, cmd |-> [type |-> "null"]]
      [] s.type = 7 -> [next |-> 1, cmd |-> [type |-> "bandwidth"]]
      [] OTHER -> [next |-> 1, cmd |-> [type |-> "private"]]

-----------------------------------------------------------------------------
(* Editing in place.                                                        *)

IsPlain(s) == s.table = 252 /\ ~s.enc

NoLoop == [word |-> 0, lo |-> 1, hi |-> 1]

(* The loop whose length is in cell word: that cell, the first cell of the  *)
(* loop and the first one behind it.                                        *)
LoopAtUnmasked(b, word) ==
    LET hi == word + 1 + At(b, word)
    IN IF word <= Len(b) /\ hi <= Len(b) + 1
         THEN [word |-> word, lo |-> word + 1, hi |-> hi] ELSE NoLoop

LoopAt(b, word) ==
    LET hi == word + 1 + (At(b, word) % LoopMod)
    IN IF word <= Len(b) /\ hi <= Len(b) + 1
         THEN [word |-> word, lo |-> word + 1, hi |-> hi] ELSE NoLoop

LocateLoop(s) == IF IsPlain(s) THEN LoopAt(s.body, ParseCommand(s).next) ELSE NoLoop

(* The cells that may be taken for the break duration, 0 for none.  That it *)
(* lies inside the body is not tested.  Of a section cut short the bytes of *)
(* the CRC are read as flags, components and times: the walk fails, or ends *)
(* behind the body.                                                         *)
LocateBreakDuration(s) ==
    LET b == s.body
        m == SpliceInsert(b)
        unread == Len(b) = 1 \/ (Len(b) = 2 /\ ~m.cmd.cancel)     \* its flags
    IN IF ~IsPlain(s) \/ s.type # 5 \/ b = <<>> THEN {0}
       ELSE IF unread THEN {0, Len(b) + 3}
       ELSE IF m.ticks <= Len(b) + 2 THEN {m.ticks}
       ELSE {0, m.ticks}

After(b, i) == i + 2 + At(b, i + 1)

(* Where the descriptors of the loop begin.                                 *)
Starts(b, L) ==
    LET from[i \in Nat] == IF i + 2 > L.hi THEN <<>> ELSE <<i>> \o from[After(b, i)]
    IN from[L.lo]

(* A segmentation descriptor at i, not cancelled, and long enough for its   *)
(* flags.                                                                   *)
LiveSegmentation(b, i) ==
    b[i] = SegTag /\ b[i + 1] >= 3 /\ ~Bit(b[i + 3], 128)

Overruns(b, L, at) == \E k \in DOMAIN at : After(b, at[k]) > L.hi

AfterComponents(b, i) ==
    IF Bit(b[i + 4], 128) THEN i + 5 ELSE i + 6 + At(b, i + 5)

SegDurationCell(b, i) ==
    LET j == AfterComponents(b, i)
    IN IF LiveSegmentation(b, i) /\ Bit(b[i + 4], 64) /\ j < After(b, i) THEN j ELSE 0

(* The cell of a descriptor's UPID type, 0 if the layout cannot be walked.  *)
UpidCell(b, i) ==
    LET j == AfterComponents(b, i) + (IF Bit(b[i + 4], 64) THEN 1 ELSE 0)
    IN IF /\ LiveSegmentation(b, i)
          /\ j + 1 < After(b, i)
          /\ j + 2 + At(b, j + 1) <= After(b, i)
         THEN j ELSE 0

\* The descriptor at i with new UPID bytes; j is its UPID type's cell.
WithBytes(b, i, j, kind, bytes) ==
    LET rest == SubSeq(b, j + 2 + b[j + 1], After(b, i) - 1)
    IN <<SegTag, j - i + Len(bytes) + Len(rest)>> \o SubSeq(b, i + 2, j - 1)
         \o <<kind, Len(bytes)>> \o bytes \o rest

NewUpid(b, i, type, v) == UpidBytes(Some(type, b[UpidCell(b, i)]), v)

(* A UPID too long for its length is not written: the descriptor stays.     *)
TakesUpid(b, i, type, v) ==
    UpidCell(b, i) # 0 /\ Len(NewUpid(b, i, type, v)) < LenMod

RewriteDescriptor(b, i, type, v) ==
    IF TakesUpid(b, i, type, v)
      THEN WithBytes(b, i, UpidCell(b, i), Some(type, b[UpidCell(b, i)]),
                     NewUpid(b, i, type, v))
      ELSE SubSeq(b, i, After(b, i) - 1)

\* The section with other cells in the place of loop L.
WithLoop(s, L, loop) ==
    LET b == s.body
        word == (b[L.word] \div LoopMod) * LoopMod + Len(loop)
        body == SubSeq(b, 1, L.word - 1) \o <<word>> \o loop \o SubSeq(b, L.hi, Len(b))
    IN Sealed([s EXCEPT !.body = body, !.secLen = (Fixed + Len(body)) % SectionMod])

\* at: where the descriptors of loop L begin, changed: which of them change,
\* new: what becomes of each.
ReplaceLoop(s, L, at, changed, new) ==
    IF \/ L = NoLoop \/ Overruns(s.body, L, at) \/ changed = {}
       \/ \E k \in changed : new[k][2] >= LenMod
       \/ Len(FlattenSeq(new)) >= LoopMod
      THEN NoSection
      ELSE WithLoop(s, L, FlattenSeq(new))

RewriteUpidIn(s, L, at, type, v) ==
    ReplaceLoop(s, L, at, {k \in DOMAIN at : TakesUpid(s.body, at[k], type, v)},
                [k \in DOMAIN at |-> RewriteDescriptor(s.body, at[k], type, v)])

\* A UPID panics if the walk comes to it: no descriptor before it has become
\* too long.
RewritePanics(b, L, at, type, v) ==
    /\ L # NoLoop
    /\ \E k \in DOMAIN at :
         /\ After(b, at[k]) <= L.hi
         /\ UpidCell(b, at[k]) # 0 /\ UpidPanics(Some(type, b[UpidCell(b, at[k])]), v)
         /\ \A n \in 1..(k - 1) :
              TakesUpid(b, at[n], type, v) => RewriteDescriptor(b, at[n], type, v)[2] < LenMod

(* rewrite_upid_b64.                                                        *)
RewriteUpid(s, type, v) ==
    LET L == LocateLoop(s)
        at == Starts(s.body, L)
    IN IF RewritePanics(s.body, L, at, type, v) THEN Panicked
       ELSE RewriteUpidIn(s, L, at, type, v)

RewriteDeliveryIn(s, L, at, limits) ==
    LET b == s.body
        flags == {at[k] + 4 : k \in {n \in DOMAIN at : LiveSegmentation(b, at[n])}}
    IN IF L = NoLoop \/ Overruns(b, L, at) \/ flags = {} THEN NoSection
       ELSE Sealed([s EXCEPT !.body = [i \in DOMAIN b |->
              IF i \in flags THEN (b[i] \div 64) * 64 + limits ELSE b[i]]])

(* rewrite_delivery_flags_b64: the flags cell keeps its two upper bits.     *)
RewriteDelivery(s, limits) ==
    RewriteDeliveryIn(s, LocateLoop(s), Starts(s.body, LocateLoop(s)), limits)

(* Both duration edits, brk the cell of the break duration.  A loop that is *)
(* cut short keeps the edits before.  Where the section ends before the     *)
(* duration, this is written over the CRC, which is computed anew; where it *)
(* ends before the byte in front of it too, there is nothing to write on.   *)
MapDurations(s, brk, Map(_)) ==
    LET L == LocateLoop(s)
        b == s.body
        at == IF L = NoLoop THEN <<>> ELSE Starts(b, L)
        segs == {SegDurationCell(b, at[k]) :
                   k \in {n \in DOMAIN at : After(b, at[n]) <= L.hi}}
    IN IF brk = 0 /\ segs \subseteq {0} THEN NoSection
       ELSE IF brk > Len(b) + 1 THEN Panicked
       ELSE Sealed([s EXCEPT !.body = [i \in DOMAIN b |->
              IF i = brk THEN Map(b[i]) % T33
              ELSE IF i \in segs THEN Map(b[i]) % T40
              ELSE b[i]]])

RewriteBreak(s, brk, ticks) == MapDurations(s, brk, LAMBDA t : ticks)

AdjustBreak(s, brk, delta) == MapDurations(s, brk, LAMBDA t : AtLeast0(t + delta))

-----------------------------------------------------------------------------
(* decode_scte35_internal: what the decoder page shows.                     *)

\* A DTMF descriptor is read as a preroll, a count of three bits and as many
\* characters, whatever its length says.
DtmfTag == 1

DtmfEnd(b, i) == i + 4 + ((At(b, i + 3) \div 32) % 8)

(* The descriptor at i and the cell after it.  One of segmentation that is  *)
(* too short for its event id is skipped, as are the ones not read.         *)
ParseDescriptor(b, i) ==
    LET end == After(b, i)
        empty == At(b, i + 1) = 0
        j == IF Bit(At(b, i + 4), 128) THEN i + 5 ELSE i + 6 + At(b, i + 5)
        u == IF Bit(At(b, i + 4), 64) THEN j + 1 ELSE j
        t == u + 2 + At(b, u + 1)
    IN IF At(b, i) # SegTag \/ empty THEN
         [next |-> IF At(b, i) = DtmfTag /\ ~empty THEN Later(end, DtmfEnd(b, i)) ELSE end,
          desc |-> [tag |-> At(b, i), rest |-> Cut(b, i + 2, end - 1)]]
       ELSE IF Bit(At(b, i + 3), 128) THEN
         [next |-> Later(end, i + 4),
          desc |-> [tag |-> SegTag, id |-> At(b, i + 2), cancel |-> TRUE,
                    rest |-> Cut(b, i + 4, end - 1)]]
       ELSE
         [next |-> Later(end, t + 3),
          desc |-> [tag |-> SegTag, id |-> At(b, i + 2), cancel |-> FALSE,
                    components |-> IF Bit(At(b, i + 4), 128) THEN NoneNamed
                                   ELSE <<Cut(b, i + 6, j - 1)>>,
                    dur |-> IF Bit(At(b, i + 4), 64) THEN <<At(b, j)>> ELSE NoneNamed,
                    limits |-> IF Bit(At(b, i + 4), 32) THEN NoneNamed
                               ELSE <<At(b, i + 4) % 32>>,
                    upidType |-> At(b, u), upid |-> Cut(b, u + 2, t - 1),
                    typeId |-> At(b, t), rest |-> Cut(b, t + 1, end - 1)]]

ParseDescriptors(b, lo, hi) ==
    LET from[i \in Nat] ==
          LET p == ParseDescriptor(b, i)
          IN IF i >= hi \/ p.next > Len(b) + 1 THEN <<>> ELSE <<p.desc>> \o from[p.next]
    IN from[lo]

\* m: the command, and the cell of the length of the loop.
DecodeFrom(s, m) ==
    LET word == At(s.body, m.next)
        hi == m.next + 1 + (word % LoopMod)
    IN [enc |-> s.enc, cmd |-> m.cmd,
        descs |-> ParseDescriptors(s.body, m.next + 1, hi),
        pad |-> <<word \div LoopMod, Cut(s.body, hi, Len(s.body))>>]

Decode(s) == DecodeFrom(s, ParseCommand(s))

-----------------------------------------------------------------------------
(* The format itself, as encoders write it: the section of a decoded cue.   *)

TypeOf(m) ==
    CASE m.type = "null" -> 0
      [] m.type = "insert" -> 5
      [] m.type = "signal" -> 6
      [] m.type = "bandwidth" -> 7

TimeCells(t) == IF t = NoneNamed THEN <<0>> ELSE <<128, t[1]>>

InsertFlags(m) ==
    Flag(m.out, 128) + Flag(m.program, 64) + Flag(m.dur # NoneNamed, 32) + Flag(m.imm, 16)

\* The components, or the time of the whole program.
InsertParts(m) ==
    LET tag(k) == IF m.program THEN <<>> ELSE <<m.tags[k]>>
        time(k) == IF m.imm THEN <<>> ELSE TimeCells(m.times[k])
    IN [k \in DOMAIN m.times |-> tag(k) \o time(k)]

BreakCells(m) == IF m.dur = NoneNamed THEN <<>> ELSE <<m.auto, m.dur[1]>>

InsertCells(m) ==
    IF m.cancel THEN <<m.event, 128>>
    ELSE <<m.event, 0, InsertFlags(m)>> \o (IF m.program THEN <<>> ELSE <<Len(m.tags)>>)
           \o FlattenSeq(InsertParts(m)) \o BreakCells(m) \o <<m.ids>>

CommandCells(m) ==
    CASE m.type = "insert" -> InsertCells(m)
      [] m.type = "signal" -> TimeCells(m.time)
      [] OTHER -> <<>>

DescriptorCells(d) ==
    LET flags == Flag(d.components = NoneNamed, 128) + Flag(d.dur # NoneNamed, 64)
                   + IF d.limits = NoneNamed THEN 32 ELSE d.limits[1]
        body == IF d.tag # SegTag THEN d.rest
                ELSE IF d.cancel THEN <<d.id, 128>> \o d.rest
                ELSE <<d.id, 0, flags>>
                       \o (IF d.components = NoneNamed THEN <<>>
                           ELSE <<Len(d.components[1])>> \o d.components[1])
                       \o d.dur \o <<d.upidType, Len(d.upid)>> \o d.upid
                       \o <<d.typeId>> \o d.rest
    IN <<d.tag, Len(body)>> \o body

LoopCells(c) == FlattenSeq([k \in DOMAIN c.descs |-> DescriptorCells(c.descs[k])])

Encode(c) ==
    Section(TypeOf(c.cmd), c.enc, CommandCells(c.cmd),
            <<c.pad[1] * LoopMod + Len(LoopCells(c))>> \o LoopCells(c) \o c.pad[2])

(* A splice_insert lists its components, or is for the whole program and    *)
(* then has no component and one splice_time.  An immediate one names no    *)
(* time.                                                                    *)
Inserts ==
    {m \in [type : {"insert"}, event : Nat, cancel : {FALSE}, out : BOOLEAN,
            program : BOOLEAN, imm : BOOLEAN, tags : Seq(Nat), times : Seq(Maybe(Nat)),
            auto : Nat, dur : Maybe(Nat), ids : Nat] :
        /\ m.program => m.tags = <<>>
        /\ Len(m.tags) < LenMod
        /\ Len(m.times) = IF ~m.program THEN Len(m.tags) ELSE IF m.imm THEN 0 ELSE 1
        /\ m.imm => \A k \in DOMAIN m.times : m.times[k] = NoneNamed
        /\ m.dur = NoneNamed => m.auto = 0}

Commands ==
    [type : {"null", "bandwidth"}] \cup [type : {"signal"}, time : Maybe(Nat)]
      \cup [type : {"insert"}, event : Nat, cancel : {TRUE}, dur : {NoneNamed}]
      \cup Inserts

(* The rest of a segmentation descriptor has at least the two segment       *)
(* numbers; restrictions are five bits.                                     *)
Segmentations ==
    {d \in [tag : {SegTag}, id : Nat, cancel : {FALSE}, components : Maybe(Seq(Nat)),
            dur : Maybe(Nat), limits : Maybe(0..31), upidType : Nat, upid : Seq(Nat),
            typeId : Nat, rest : Seq(Nat)] : Len(d.rest) >= 2}

(* Of the others only DTMF descriptors are read: their characters lie       *)
(* within them.                                                             *)
Others ==
    {d \in [tag : Nat \ {SegTag}, rest : Seq(Nat)] :
        d.tag = DtmfTag /\ d.rest # <<>> =>
            Len(d.rest) >= 2 /\ 2 + ((d.rest[2] \div 32) % 8) <= Len(d.rest)}

Descriptors ==
    Others
      \cup [tag : {SegTag}, id : Nat, cancel : {TRUE}, rest : Seq(Nat)]
      \cup Segmentations

\* The cues that have a section.
Cues ==
    {c \in [enc : BOOLEAN, cmd : Commands, descs : Seq(Descriptors), pad : Nat \X Seq(Nat)] :
        /\ \A k \in DOMAIN c.descs : DescriptorCells(c.descs[k])[2] < LenMod
        /\ Len(LoopCells(c)) < LoopMod}

IsKnown(type) == type \in {0, 5, 6, 7}

-----------------------------------------------------------------------------
(* decode_scte35_details: what the rules and the event log see.             *)

CommandName(type) ==
    CASE type = 0 -> "splice_null"
      [] type = 4 -> "splice_schedule"
      [] type = 5 -> "splice_insert"
      [] type = 6 -> "time_signal"
      [] type = 7 -> "bandwidth_reservation"
      [] type = 255 -> "private_command"
      [] OTHER -> "unknown"

UnknownFacts == [command |-> "unknown", typeId |-> NoneNamed, upid |-> NoneNamed,
                 pts |-> NoneNamed]

(* parse_splice_time and parse_splice_insert_pts: the PTS and the cell      *)
(* after the command.                                                       *)
SplicePts(b) ==
    LET flags == At(b, 3)
        timed == ~Bit(flags, 16)
        tail == (IF Bit(flags, 32) THEN 2 ELSE 0) + 1
        \* the PTS found so far and the cell after component k
        seen[k \in 0..At(b, 4)] ==
            IF k = 0 THEN [pts |-> NoneNamed, at |-> 5]
            ELSE LET p == seen[k - 1]
                     t == p.at + 1
                 IN IF ~timed THEN [p EXCEPT !.at = t]
                    ELSE [pts |-> IF p.pts = NoneNamed THEN TimeAt(b, t) ELSE p.pts,
                          at |-> AfterTime(b, t)]
    IN IF Bit(At(b, 2), 128) THEN [pts |-> NoneNamed, next |-> 3]
       ELSE IF ~Bit(flags, 64) THEN
         [pts |-> seen[At(b, 4)].pts, next |-> seen[At(b, 4)].at + tail]
       ELSE IF timed THEN [pts |-> TimeAt(b, 4), next |-> AfterTime(b, 4) + tail]
       ELSE [pts |-> NoneNamed, next |-> 4 + tail]

PtsOfUnfinished(s) ==
    CASE s.type = 5 -> [SplicePts(s.body) EXCEPT !.next = @ - 1]
      [] s.type = 6 -> [pts |-> TimeAt(s.body, 1), next |-> AfterTime(s.body, 1)]
      [] OTHER -> [pts |-> NoneNamed, next |-> 1]

PtsOf(s) ==
    CASE s.type = 5 -> SplicePts(s.body)
      [] s.type = 6 -> [pts |-> TimeAt(s.body, 1), next |-> AfterTime(s.body, 1)]
      [] OTHER -> [pts |-> NoneNamed, next |-> 1]

(* One descriptor: a later one overrides what an earlier one said.  An      *)
(* empty UPID says nothing, nor does a descriptor that ends with its UPID.  *)
ReadFacts(b, i, facts) ==
    LET end == After(b, i)
        j == IF Bit(At(b, i + 4), 128) THEN i + 5 ELSE i + 6 + At(b, i + 5)
        u == IF Bit(At(b, i + 4), 64) THEN j + 1 ELSE j
        t == u + 2 + At(b, u + 1)
        named == IF t = u + 2 THEN facts
                 ELSE [facts EXCEPT !.upid = <<[type |-> At(b, u),
                                               bytes |-> Cut(b, u + 2, t - 1)]>>]
        typed == t + 3 <= end
    IN IF At(b, i) # SegTag THEN [next |-> end, facts |-> facts]
       ELSE IF Bit(At(b, i + 3), 128) THEN [next |-> Later(end, i + 4), facts |-> facts]
       ELSE IF typed THEN [next |-> end, facts |-> [named EXCEPT !.typeId = <<At(b, t)>>]]
       ELSE [next |-> Later(end, t), facts |-> named]

Step(b, hi, r) == IF r.next + 2 > hi THEN r ELSE ReadFacts(b, r.next, r.facts)

(* The walk over the loop, from cell lo to hi.                              *)
Walk(b, lo, hi, facts) ==
    LET read[n \in 0..Len(b)] ==
          IF n = 0 THEN [next |-> lo, facts |-> facts] ELSE Step(b, hi, read[n - 1])
    IN read[Len(b)]

\* A failing read fails the whole decode.
Read(b, last) == IF last.next > Len(b) + 1 THEN UnknownFacts ELSE last.facts

FactsFrom(s, p) ==
    Read(s.body, Walk(s.body, p.next + 1, p.next + 1 + (At(s.body, p.next) % LoopMod),
                      [command |-> CommandName(s.type), typeId |-> NoneNamed,
                       upid |-> NoneNamed, pts |-> p.pts]))

FactsOf(s) == IF s.table # 252 THEN UnknownFacts ELSE FactsFrom(s, PtsOf(s))
=============================================================================
