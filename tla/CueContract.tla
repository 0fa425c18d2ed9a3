---------------------------- MODULE CueContract ----------------------------
(***************************************************************************)
(* What conditioning a cue promises, with no word about bytes.             *)
(*                                                                         *)
(* A SCTE-35 cue is a command and a list of descriptors.  The rule that a  *)
(* signal matched names an action; the cue of the answer is the cue of the *)
(* event with one thing changed in it, or the same cue where the change    *)
(* cannot be made, or a cue that the rule describes, or none.  The comments*)
(* of the functions that module Conditioning models promise this; here it  *)
(* is said once, for cues that pass through several servers in a row.      *)
(*                                                                         *)
(* An optional value is a sequence of at most one element.                 *)
(***************************************************************************)
EXTENDS Integers, SequencesExt

CONSTANTS
    NoCue,          \* an event, or an answer, that carries no cue
    Garbled,        \* a section that does not read back
    Opaque,         \* a payload that is no SCTE-35 section
    Unanswered,     \* no answer: the request panicked
    Incoming,       \* the cues that encoders send
    Orders,         \* what rules ask for
    MaxHops,        \* bound on the servers a signal passes
    LenMod,         \* 2^8, the width of a descriptor's and a UPID's length
    LoopMod,        \* 2^10, the width of the length of the descriptor loop
    T33,            \* 2^33, the width of break_duration
    T40,            \* 2^40, the width of segmentation_duration
    NoOrder,
    PoisOut         \* the UPID given to a cue when the rule names none

VARIABLES
    cue,            \* the cue as it leaves the last server
    hops,           \* servers passed
    order           \* what the rule of the last server asked for

contractVars == <<cue, hops, order>>

NoneNamed == <<>>

Some(x, default) == IF x = NoneNamed THEN default ELSE x[1]

AtLeast0(n) == IF n < 0 THEN 0 ELSE n

-----------------------------------------------------------------------------
(* Cues.  A segmentation descriptor is cancelled, and then the rest is not  *)
(* read, or has components, a duration, delivery limits (unless delivery is *)
(* not restricted), a UPID and a type.  A splice_insert may have a break    *)
(* duration.  A private command is one whose layout the code does not know. *)

SegTag == 2

IsSegmentation(d) == d.tag = SegTag /\ ~d.cancel

DescriptorSize(d) ==
    IF d.tag # SegTag THEN Len(d.rest)
    ELSE IF d.cancel THEN 2 + Len(d.rest)
    ELSE 6 + (IF d.components = NoneNamed THEN 0 ELSE 1 + Len(d.components[1]))
           + Len(d.dur) + Len(d.upid) + Len(d.rest)

LoopSize(c) ==
    LET size[k \in 0..Len(c.descs)] ==
          IF k = 0 THEN 0 ELSE size[k - 1] + 2 + DescriptorSize(c.descs[k])
    IN size[Len(c.descs)]

\* The lengths of the format that a long UPID can exceed.
Fits(c) ==
    /\ \A i \in DOMAIN c.descs :
          /\ DescriptorSize(c.descs[i]) < LenMod
          /\ IsSegmentation(c.descs[i]) => Len(c.descs[i].upid) < LenMod
    /\ LoopSize(c) < LoopMod

HasBreak(c) == c.cmd.type = "insert" /\ c.cmd.dur # NoneNamed

IsReadable(c) == c \notin {NoCue, Opaque, Garbled, Unanswered}

IsPrivate(c) == c.cmd.type = "private"

Editable(c) == IsReadable(c) /\ ~c.enc /\ ~IsPrivate(c)

(* The end of an unknown command is not known: what seems to be descriptors *)
(* may be edited inside it.                                                 *)
Doubtful(c) == c = Garbled \/ (IsReadable(c) /\ ~c.enc /\ IsPrivate(c))

OnSegmentation(c, Change(_)) ==
    [c EXCEPT !.descs = [i \in DOMAIN @ |->
                           IF IsSegmentation(@[i]) THEN Change(@[i]) ELSE @[i]]]

(* A UPID given as text: bytes where the type asks for bytes and the text   *)
(* spells them.  v.splits has the types for which reading the text panics.  *)
UpidBytes(type, v) ==
    LET bytes == IF type \in {8, 9} THEN v.hex ELSE IF type = 11 THEN v.uuid ELSE NoneNamed
    IN Some(bytes, v.text)

EmptyUpid == [text |-> <<>>, hex |-> <<<<>>>>, uuid |-> NoneNamed, splits |-> {}]

-----------------------------------------------------------------------------
(* What each kind of rule promises.                                         *)

(* regionalize, and replace with a UPID: every UPID of the cue becomes the  *)
(* named one.  One that is too long for its own length stays; the cue stays *)
(* as a whole if the lengths around a new one cannot hold it.               *)
WithUpid(c, type, v) ==
    LET new == OnSegmentation(c, LAMBDA d :
                 LET k == Some(type, d.upidType)
                 IN IF Len(UpidBytes(k, v)) >= LenMod THEN d
                    ELSE [d EXCEPT !.upidType = k, !.upid = UpidBytes(k, v)])
    IN IF Fits(new) THEN new ELSE c

\* blackout: delivery is restricted as named.
WithLimits(c, limits) == OnSegmentation(c, LAMBDA d : [d EXCEPT !.limits = <<limits>>])

(* shorten, fill and extend: every duration the cue carries is mapped, each *)
(* within the width of its own field.                                       *)
WithDurations(c, Map(_)) ==
    LET insert == IF HasBreak(c)
                    THEN [c EXCEPT !.cmd.dur = <<Map(@[1]) % T33>>] ELSE c
    IN OnSegmentation(insert, LAMBDA d :
         IF d.dur = NoneNamed THEN d ELSE [d EXCEPT !.dur = <<Map(@[1]) % T40>>])

(* build: a time_signal or an out-of-network splice_insert.  A time_signal  *)
(* carries a descriptor only if a segmentation type or a UPID type is named.*)
BuiltDescriptor(b, dur) ==
    LET kind == Some(b.upidType, 12)
        type == Some(b.segType, 16)
    IN [tag |-> SegTag, id |-> 1, cancel |-> FALSE, components |-> NoneNamed, dur |-> dur,
        limits |-> NoneNamed, upidType |-> kind,
        upid |-> IF b.upid = NoneNamed THEN PoisOut ELSE UpidBytes(kind, b.upid[1]),
        typeId |-> type,
        rest |-> IF type \in {52, 54, 56, 58} THEN <<0, 0, 0, 0>> ELSE <<0, 0>>]

BuiltCue(b) ==
    [enc |-> FALSE, pad |-> <<0, <<>>>>,
     cmd |-> IF b.command = "splice_insert_out"
               THEN [type |-> "insert", event |-> 1, cancel |-> FALSE, out |-> TRUE,
                     program |-> TRUE, imm |-> TRUE, tags |-> <<>>, times |-> <<>>,
                     auto |-> 1, dur |-> <<b.dur % T33>>, ids |-> 1]
               ELSE [type |-> "signal", time |-> NoneNamed],
     descs |-> IF b.command = "splice_insert_out"
                 THEN <<BuiltDescriptor(b, <<b.dur % T40>>)>>
               ELSE IF b.segType # NoneNamed \/ b.upidType # NoneNamed
                 THEN <<BuiltDescriptor(b, NoneNamed)>>
               ELSE <<>>]

Buildable == {"time_signal", "splice_insert_out"}

(* What the rule itself carries: a cue to build, else a cue written out.    *)
(* One that is too long for its lengths is built all the same; of that no   *)
(* more is promised than its command, if it can be read at all.             *)
Carries(o, new) ==
    IF \A k \in DOMAIN o.build : o.build[k].command \notin Buildable THEN new = o.literal
    ELSE LET built == BuiltCue(o.build[1])
         IN IF Fits(built) THEN new = built ELSE new = Garbled \/ new.cmd = built.cmd

EditsUpid(o) == o.action \in {"replace", "regionalize"}

EditsTicks(o) == o.action \in {"shorten", "fill", "extend"} /\ o.ticks # NoneNamed

Edits(o) == EditsUpid(o) \/ EditsTicks(o) \/ o.action = "blackout"

UpidOf(o) == IF o.upid = NoneNamed THEN [type |-> NoneNamed, value |-> EmptyUpid] ELSE o.upid[1]

Edited(o, c) ==
    CASE EditsUpid(o) -> WithUpid(c, UpidOf(o).type, UpidOf(o).value)
      [] o.action = "blackout" -> WithLimits(c, o.limits)
      [] o.action \in {"shorten", "fill"} /\ o.ticks # NoneNamed ->
           WithDurations(c, LAMBDA t : AtLeast0(o.ticks[1]))
      [] o.action = "extend" /\ o.ticks # NoneNamed ->
           WithDurations(c, LAMBDA t : AtLeast0(t + o.ticks[1]))
      [] OTHER -> c

\* The cue to build has a UPID that panics.
BuildPanics(o) ==
    \E k \in DOMAIN o.build :
      /\ o.build[k].command \in Buildable /\ o.build[k].upid # NoneNamed
      /\ Some(o.build[k].upidType, 12) \in o.build[k].upid[1].splits

\* So has the edit, for a descriptor of cue c.
UpidPanics(o, c) ==
    /\ EditsUpid(o)
    /\ \E k \in DOMAIN c.descs :
         IsSegmentation(c.descs[k])
           /\ Some(UpidOf(o).type, c.descs[k].upidType) \in UpidOf(o).value.splits

(* The answer to cue c.  Of a garbled cue that is edited nothing is         *)
(* promised, of an unknown command that it stays one.  A rule whose         *)
(* parameters are no object answers nothing to a cue, and there may be no   *)
(* answer to an edit that panics, of a payload that is no section, or, of   *)
(* its durations, of a garbled cue; before it comes to the UPID that panics *)
(* an edit may have failed.                                                 *)
Answers(o, c, new) ==
    IF BuildPanics(o) THEN new = Unanswered
    ELSE IF o.action = "delete" THEN new = NoCue
    ELSE IF (o.action = "replace" /\ o.upid = NoneNamed) \/ c = NoCue THEN Carries(o, new)
    ELSE IF ~o.object THEN new = Unanswered
    ELSE IF Editable(c) THEN
      IF UpidPanics(o, c) THEN new \in {c, Unanswered} ELSE new = Edited(o, c)
    ELSE IF Edits(o) /\ Doubtful(c) THEN
      IF new = Unanswered
        THEN (EditsUpid(o) /\ UpidOf(o).value.splits # {}) \/ (EditsTicks(o) /\ c = Garbled)
        ELSE c # Garbled => new = [c EXCEPT !.pad = new.pad]
    ELSE IF Edits(o) /\ c = Opaque THEN new \in {c, Unanswered}
    ELSE new = c

-----------------------------------------------------------------------------
Init ==
    /\ cue \in Incoming
    /\ hops = 0
    /\ order = NoOrder

Condition ==
    /\ hops < MaxHops /\ cue # Unanswered
    /\ hops' = hops + 1
    /\ order' \in Orders
    /\ Answers(order', cue, cue')

Spec == Init /\ [][Condition]_contractVars
=============================================================================
