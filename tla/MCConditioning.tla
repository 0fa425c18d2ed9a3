--------------------------- MODULE MCConditioning ---------------------------
(***************************************************************************)
(* Cues and rules for Conditioning.  The fields are a few cells wide, so   *)
(* that a UPID of a few bytes meets every limit.                           *)
(***************************************************************************)
EXTENDS Conditioning

DefaultUpid == <<80, 79>>

Ticks == {-5, 4, 300}

\* Around each limit: what a descriptor holds, and what a UPID's length says.
Lengths == {0, 1, 5, 6, 7, 8, 9, 15, 16, 17}

\* PPP..., which is no hex.
Upid(bytes) == [text |-> bytes, hex |-> NoneNamed, uuid |-> NoneNamed, splits |-> {}]

\* AABB; a UUID has two bytes here.
HexUpid == [text |-> <<65, 65, 66, 66>>, hex |-> <<<<170, 187>>>>, uuid |-> <<<<170, 187>>>>,
            splits |-> {}]

\* With separators, hex fits where the text does not.
LongHexUpid == [text |-> [k \in 1..17 |-> IF k % 3 = 0 THEN 58 ELSE 65],
                hex |-> <<[k \in 1..6 |-> 170]>>, uuid |-> NoneNamed, splits |-> {}]

\* Cafe with an accent and an s: the second slice cuts the accented e in two.
SplitUpid == [text |-> <<67, 97, 102, 195, 169, 115>>, hex |-> NoneNamed, uuid |-> NoneNamed,
              splits |-> {8, 9}]

-----------------------------------------------------------------------------
(* Incoming cues: every command with every list of up to two descriptors.   *)

Segmentation(components, dur, limits, upidType, upid) ==
    [tag |-> SegTag, id |-> 7, cancel |-> FALSE, components |-> components,
     dur |-> dur, limits |-> limits, upidType |-> upidType, upid |-> upid, typeId |-> 52,
     rest |-> <<1, 2>>]

SomeDescriptors ==
    {Segmentation(NoneNamed, <<3>>, NoneNamed, 8, <<65>>),
     Segmentation(<<<<5, 6>>>>, NoneNamed, <<9>>, 12, <<>>),
     [tag |-> SegTag, id |-> 8, cancel |-> TRUE, rest |-> <<>>],
     [tag |-> 0, rest |-> <<2, 1>>],
     [tag |-> DtmfTag, rest |-> <<67, 85, 69, 73, 9, 32, 49>>]}

Insert(program, imm, times, dur) ==
    [type |-> "insert", event |-> 4, cancel |-> FALSE, out |-> TRUE, program |-> program,
     imm |-> imm, tags |-> IF program THEN <<>> ELSE [k \in DOMAIN times |-> k],
     times |-> times, auto |-> IF dur = NoneNamed THEN 0 ELSE 1, dur |-> dur, ids |-> 6]

SomeCommands ==
    {[type |-> "null"], [type |-> "bandwidth"],
     [type |-> "signal", time |-> NoneNamed], [type |-> "signal", time |-> <<150>>],
     [type |-> "insert", event |-> 4, cancel |-> TRUE, dur |-> NoneNamed],
     Insert(TRUE, TRUE, <<>>, <<T33 - 2>>), Insert(TRUE, FALSE, <<<<200>>>>, <<3>>),
     Insert(TRUE, FALSE, <<NoneNamed>>, NoneNamed),
     Insert(FALSE, FALSE, <<NoneNamed, <<130>>>>, <<3>>),
     Insert(FALSE, TRUE, <<NoneNamed, NoneNamed>>, <<3>>)}

Lists == {<<>>} \cup {<<d>> : d \in SomeDescriptors}
          \cup {<<d, e>> : d \in SomeDescriptors, e \in SomeDescriptors}

EditableCues == {[enc |-> FALSE, cmd |-> m, descs |-> ds, pad |-> <<3, <<>>>>] :
                   m \in SomeCommands, ds \in Lists}

OtherCues == {[enc |-> e, cmd |-> [type |-> "signal", time |-> NoneNamed],
               descs |-> <<Segmentation(NoneNamed, <<3>>, NoneNamed, 8, <<65>>)>>,
               pad |-> <<0, <<255, 255>>>>] : e \in BOOLEAN}

\* A private command starts with a four-letter identifier.
Private == Sealed([table |-> 252, enc |-> FALSE, type |-> 255, cmdLen |-> 3,
                   body |-> <<67 * 256 + 85, 2, 2, 0>>, secLen |-> Fixed + 4, crc |-> <<>>])

\* A splice_schedule, whose events read like a loop with a descriptor.
Schedule == Sealed([table |-> 252, enc |-> FALSE, type |-> 4, cmdLen |-> 13,
                    body |-> <<12>> \o DescriptorCells(Segmentation(NoneNamed, <<3>>, NoneNamed,
                                                                    8, <<65>>)) \o <<0>>,
                    secLen |-> Fixed + 14, crc |-> <<>>])

\* A time_signal with these descriptors, and a splice_insert that is cut short.
Looping(cells) == Section(6, FALSE, <<0>>, <<Len(cells)>> \o cells)

CutShort(body) == Sealed([table |-> 252, enc |-> FALSE, type |-> 5, cmdLen |-> 5, body |-> body,
                          secLen |-> Fixed + Len(body), crc |-> <<>>])

(* A DTMF descriptor whose characters run into the next descriptor, and one *)
(* of segmentation without an event id; splice_inserts that end before, in  *)
(* and behind their flags, with a splice_time, components or the break      *)
(* duration still to come.                                                  *)
Misread ==
    {Looping(<<DtmfTag, 2, 9, 64>> \o DescriptorCells(Segmentation(NoneNamed, <<3>>, NoneNamed, 8, <<65>>))),
     Looping(<<SegTag, 0>> \o DescriptorCells(Segmentation(NoneNamed, <<3>>, NoneNamed, 8, <<65>>)))}
      \cup {CutShort(b) : b \in {<<>>, <<4>>, <<4, 0>>, <<4, 0, 112>>, <<4, 0, 112, 1>>, <<4, 0, 96, 128>>,
                                 <<4, 0, 48>>, <<4, 0, 48, 2, 1>>}}

OtherSignals ==
    {[text |-> "hex", sec |-> Encode(c)] : c \in OtherCues}
      \cup {Text(sec) : sec \in Misread \cup {SpliceInSection, SpliceInAtSection(5), Private, Schedule}}
      \cup {[text |-> t, sec |-> NoSection] : t \in {"junk", "split", "none"}}

SomeSignals == {Text(Encode(c)) : c \in EditableCues \cup OtherCues} \cup OtherSignals

SomeCues == EditableCues \cup OtherCues \cup {CueOf(s) : s \in OtherSignals}

-----------------------------------------------------------------------------
(* Rules.                                                                   *)

Order(action) == [Unmatched EXCEPT !.action = action]

WithUpid(action, type, v) ==
    [Order(action) EXCEPT !.upid = <<[type |-> type, value |-> v]>>]

Build(command, segType, upidType, upid) ==
    [Order("replace") EXCEPT
       !.build = <<[command |-> command, segType |-> segType, upidType |-> upidType,
                    upid |-> upid, dur |-> T33 + 1]>>]

SomeUpids == {Upid([k \in 1..n |-> 80]) : n \in Lengths}

SomeOrders ==
    {Order(a) : a \in {"noop", "delete", "replace", "regionalize", "shorten"}}
      \cup {[Order(a) EXCEPT !.limits = 4] : a \in {"blackout"}}
      \cup {[Order("extend") EXCEPT !.ticks = <<t>>] : t \in Ticks}
      \cup {[Order("fill") EXCEPT !.ticks = <<t>>] : t \in Ticks}
      \cup {[Order("tracking-only") EXCEPT
               !.literal = Text(TimeSignalSection(NoneNamed, NoneNamed, NoneNamed))]}
      \cup {WithUpid("regionalize", NoneNamed, v) : v \in SomeUpids \cup {HexUpid, LongHexUpid, SplitUpid}}
      \cup {WithUpid("replace", <<11>>, HexUpid), WithUpid("replace", <<9>>, SplitUpid)}
      \cup {[Order(a) EXCEPT !.object = FALSE] : a \in {"noop", "delete", "replace", "blackout"}}
      \cup {Build(c, t, NoneNamed, <<v>>) : c \in {"time_signal", "splice_insert_out"},
                                            t \in {NoneNamed, <<52>>}, v \in SomeUpids}
      \cup {Build("splice_insert_out", NoneNamed, <<9>>, u) : u \in {NoneNamed, <<HexUpid>>, <<SplitUpid>>}}
      \cup {Build("other", NoneNamed, NoneNamed, NoneNamed)}
=============================================================================
