---------------------------- MODULE Conditioning ----------------------------
(***************************************************************************)
(* The cue of an ESAM answer.                                              *)
(*                                                                         *)
(* The ESAM handler (module EsamServer) finds the rule a signal matches;   *)
(* this module is what that rule's action makes of the cue in the event.   *)
(* The cue travels as text.  The answer of one server may be the event of  *)
(* the next one, so a cue is conditioned up to MaxHops times; every step   *)
(* is a whole answer, computed without touching the database.  Where the   *)
(* code panics, nothing catches it: the request ends without an answer.    *)
(***************************************************************************)
EXTENDS CueSection

CONSTANTS
    Incoming,       \* the signals that encoders send
    IncomingCues,   \* the cues in those of them that carry one
    Orders,         \* the actions of rules, with their parameters
    MaxHops,        \* bound on the servers a signal passes
    NoOrder,
    NoCue, Garbled, Opaque, Unanswered

VARIABLES
    signal,         \* the event of the next server, the answer of the last
    hops,           \* servers passed
    cue, order      \* history: what the tools read in signal, and the last
                    \* rule's action, in the terms of CueContract

vars == <<signal, hops, cue, order>>

(* A signal is base64 text, or another text that the tools also read: hex   *)
(* or binary digits, text with blanks or colons in it.  Text that is none   *)
(* of these is junk, and split if reading it panics: a hex text whose       *)
(* slices of two bytes cut a character in two.  NoSignal is an event, or an *)
(* answer, without BinaryData, NoAnswer that of a request that panicked.    *)
Text(sec) == [text |-> "base64", sec |-> sec]

NoSignal == [text |-> "none", sec |-> NoSection]

Signals == [text : {"base64", "hex"}, sec : Sections]
             \cup [text : {"junk", "split", "none"}, sec : {NoSection}]

NoAnswer == [text |-> "lost", sec |-> NoSection]

(* The action of a rule with its parameters: a cue to build or one written  *)
(* out, a UPID, delivery limits, a duration or a change of one (in ticks,   *)
(* within the 63 bits that a sum of it with a duration has).  Of a UPID it  *)
(* matters which bytes its text spells, if any, and for which types reading *)
(* it panics.  Parameters are any JSON; other than an object or null it has *)
(* none of these, and cannot be indexed.                                    *)
UpidValues == [text : Seq(Nat), hex : Maybe(Seq(Nat)), uuid : Maybe(Seq(Nat)),
               splits : SUBSET {8, 9, 11}]

Builds == [command : STRING, segType : Maybe(Nat), upidType : Maybe(Nat),
           upid : Maybe(UpidValues), dur : Int]

RuleOrders ==
    {o \in [action : STRING, object : BOOLEAN, build : Maybe(Builds), literal : Signals,
            upid : Maybe([type : Maybe(Nat), value : UpidValues]),
            limits : 0..31, ticks : Maybe(Int)] :
        ~o.object => /\ o.literal = NoSignal
                     /\ \A f \in {"build", "upid", "ticks"} : o[f] = NoneNamed}

ASSUME ConditioningAssumption ==
    /\ MaxHops \in Nat
    /\ \A sig \in Incoming : sig \in Signals
    /\ \A o \in Orders : o \in RuleOrders

(* scte35_input_to_bytes.                                                   *)
ToBytes(sig) ==
    CASE sig.text \in {"none", "junk"} -> NoSection
      [] sig.text = "split" -> Panicked
      [] OTHER -> sig.sec

(* The cue in a signal.  Garbled is a section that the decoder page does    *)
(* not read back, so that it is not the section of what was read: its       *)
(* lengths do not add up, or it has a descriptor that this decoder reads    *)
(* past the end or not at all.                                              *)
Sound(sec, c) == IF c \in Cues /\ sec = Encode(c) THEN c ELSE Garbled

CueOf(sig) ==
    IF sig = NoSignal THEN NoCue
    ELSE IF sig = NoAnswer THEN Unanswered
    ELSE IF ToBytes(sig).table # 252 THEN Opaque
    ELSE IF ~IsKnown(sig.sec.type)
      THEN [enc |-> sig.sec.enc, cmd |-> [type |-> "private"], pad |-> sig.sec.body]
    ELSE Sound(sig.sec, Decode(sig.sec))

\* What is left of a cue whose command has a layout that is not known.
PrivateCues == [enc : BOOLEAN, cmd : [type : {"private"}], pad : Seq(Nat)]

ASSUME CueAssumption ==
    /\ \A sig \in Incoming : CueOf(sig) \in IncomingCues
    /\ \A none \in {NoCue, Garbled, Opaque, Unanswered} : none \notin Cues \cup PrivateCues
    /\ NoCue \notin {Garbled, Opaque, Unanswered}
    /\ Garbled # Opaque /\ Unanswered \notin {Garbled, Opaque}

OrderOf(o) == [o EXCEPT !.literal = CueOf(@)]

Init ==
    /\ signal \in Incoming
    /\ cue = CueOf(signal)
    /\ hops = 0
    /\ order = NoOrder

-----------------------------------------------------------------------------
(* apply_action.                                                            *)

\* The payload a rule carries by itself: built, else written out.
OwnPayloadUnchecked(o) ==
    IF o.build # NoneNamed THEN Text(BuildSection(o.build[1])) ELSE o.literal

OwnPayload(o) ==
    IF o.build # NoneNamed /\ BuildSection(o.build[1]) # NoSection
      THEN Text(BuildSection(o.build[1])) ELSE o.literal

\* Params that cannot be indexed panic when the payload is put in them.
Put(o, payload) == IF o.object THEN payload ELSE NoAnswer

Passed(o) == IF signal = NoSignal THEN OwnPayload(o) ELSE Put(o, signal)

SetPayloadOrNone(o, edited) ==
    IF edited = Panicked THEN NoAnswer
    ELSE IF edited = NoSection THEN OwnPayload(o) ELSE Put(o, Text(edited))

SetPayload(o, edited) ==
    IF edited = Panicked THEN NoAnswer
    ELSE IF edited = NoSection THEN Passed(o) ELSE Put(o, Text(edited))

\* The rule's cue is built first, whatever the action.
Answer(o, payload) ==
    /\ hops < MaxHops /\ signal # NoAnswer
    /\ hops' = hops + 1
    /\ order' = OrderOf(o)
    /\ signal' = IF \E k \in DOMAIN o.build : BuildPanics(o.build[k]) THEN NoAnswer ELSE payload
    /\ cue' = CueOf(signal')

PassesThrough(o) ==
    o.action \notin {"replace", "regionalize", "blackout", "shorten", "fill", "extend", "delete"}

\* noop, tracking-only, slate, and any action it does not know.
PassThrough(o) == PassesThrough(o) /\ Answer(o, Passed(o))

\* A rule that names no UPID makes it empty.
NamedUpid(o) ==
    IF o.upid = NoneNamed
      THEN [type |-> NoneNamed,
            value |-> [text |-> <<>>, hex |-> <<<<>>>>, uuid |-> NoneNamed, splits |-> {}]]
      ELSE o.upid[1]

\* An edit reads the signal first.
Tried(edited) == IF ToBytes(signal) = Panicked THEN Panicked ELSE edited

UpidEdited(o) == Tried(RewriteUpid(ToBytes(signal), NamedUpid(o).type, NamedUpid(o).value))

Replace(o) ==
    /\ o.action = "replace"
    /\ Answer(o, IF o.upid = NoneNamed THEN OwnPayload(o) ELSE SetPayload(o, UpidEdited(o)))

Regionalize(o) ==
    /\ o.action = "regionalize"
    /\ Answer(o, SetPayload(o, UpidEdited(o)))

Blackout(o) ==
    /\ o.action = "blackout"
    /\ Answer(o, SetPayload(o, Tried(RewriteDelivery(ToBytes(signal), o.limits))))

\* A negative duration is cast to an unsigned 0.
SetBreak(o) ==
    /\ o.action \in {"shorten", "fill"}
    /\ \E brk \in LocateBreakDuration(ToBytes(signal)) :
         Answer(o, SetPayload(o, IF o.ticks = NoneNamed THEN NoSection
                                 ELSE Tried(RewriteBreak(ToBytes(signal), brk, AtLeast0(o.ticks[1])))))

Extend(o) ==
    /\ o.action = "extend"
    /\ \E brk \in LocateBreakDuration(ToBytes(signal)) :
         Answer(o, SetPayload(o, IF o.ticks = NoneNamed THEN NoSection
                                 ELSE Tried(AdjustBreak(ToBytes(signal), brk, o.ticks[1]))))

Delete(o) == o.action = "delete" /\ Answer(o, NoSignal)

(* No rule matched: a noop that carries the incoming cue, if any.           *)
Unmatched == [action |-> "noop", object |-> TRUE, build |-> NoneNamed, literal |-> NoSignal,
              upid |-> NoneNamed, limits |-> 0, ticks |-> NoneNamed]

Fallback == Answer(Unmatched, signal)

Next ==
    \/ \E o \in Orders :
          \/ PassThrough(o) \/ Replace(o) \/ Regionalize(o) \/ Blackout(o)
          \/ SetBreak(o) \/ Extend(o) \/ Delete(o)
    \/ Fallback

Spec == Init /\ [][Next]_vars

-----------------------------------------------------------------------------
(* The contract.                                                            *)

ContractOrders == {OrderOf(o) : o \in Orders \cup {Unmatched}}

Contract == INSTANCE CueContract WITH Incoming <- IncomingCues, Orders <- ContractOrders

(* Bytes keep the contract: an answer's cue, read with the decoder page, is *)
(* what the rule promises for the cue that came in, nothing else in it has  *)
(* changed, and its lengths and CRC are right.  Edits in place rest on two  *)
(* walks over offsets that no type checks.                                  *)
KeepsContract == Contract!Spec

\* What the tools show of the fields rules and the event log go by.
FactsShown(type, c) ==
    LET live == {k \in DOMAIN c.descs : c.descs[k].tag = SegTag /\ ~c.descs[k].cancel}
        named == {k \in live : c.descs[k].upid # <<>>}
        last(S) == c.descs[CHOOSE k \in S : \A n \in S : n <= k]
        timed == IF c.cmd.type # "insert" \/ c.cmd.cancel THEN {}
                 ELSE {k \in DOMAIN c.cmd.times : c.cmd.times[k] # NoneNamed}
    IN [command |-> CommandName(type),
        typeId |-> IF live = {} THEN NoneNamed ELSE <<last(live).typeId>>,
        upid |-> IF named = {} THEN NoneNamed
                 ELSE <<[type |-> last(named).upidType, bytes |-> last(named).upid]>>,
        pts |-> IF c.cmd.type = "signal" THEN c.cmd.time
                ELSE IF timed = {} THEN NoneNamed
                ELSE c.cmd.times[CHOOSE k \in timed : \A n \in timed : k <= n]]

(* extract_facts.                                                           *)
FactsIn(sig) == IF sig.text = "base64" THEN FactsOf(sig.sec) ELSE UnknownFacts

(* Rules and the event log read the cue with the decoder of esam.rs, the    *)
(* tools and the edits with the one of tools_api.rs.  Of any cue that the   *)
(* tools read back both say the same (of a UPID its type and its bytes; the *)
(* names the two give to a type differ), if it comes as plain base64: of    *)
(* hex, binary or spaced text, which the tools read and the edits turn into *)
(* base64, rules see nothing but an unknown command.                        *)
DecodersAgree ==
    cue \notin {NoCue, Opaque, Garbled, Unanswered} /\ IsKnown(signal.sec.type)
    => FactsIn(signal) = IF signal.text = "base64"
                         THEN FactsShown(signal.sec.type, Decode(signal.sec)) ELSE UnknownFacts

(* Every answer is a signal, or the request was lost: text of one of the    *)
(* kinds read, and where the text stands for bytes these are a section with *)
(* all of its fields and a body of cells.  An edit that fails, or one that  *)
(* panics at an index behind the bytes, answers no half-made section.       *)
TypeOK ==
    /\ hops \in 0..MaxHops
    /\ order \in ContractOrders \cup {NoOrder}
    /\ signal \in Signals \cup {NoAnswer}

(* "A conditioning action never drops the signal" (set_payload): the cue of *)
(* an event is answered with a cue, edited or not, unless the rule deletes  *)
(* it or replaces it with what the rule carries.  The code keeps this but   *)
(* where it panics and gives no answer at all, and there it can only for a  *)
(* rule whose parameters are no object or name a UPID with a character that *)
(* the hex decoder cuts in two, for a payload that is no section, or for a  *)
(* duration edit of a section cut short.                                    *)
Drops(o) == o.action = "delete" \/ (o.action = "replace" /\ o.upid = NoneNamed)

CanPanic(o, c) ==
    \/ ~o.object
    \/ \E k \in DOMAIN o.build : \E n \in DOMAIN o.build[k].upid : o.build[k].upid[n].splits # {}
    \/ \E k \in DOMAIN o.upid : o.upid[k].value.splits # {}
    \/ c = Opaque
    \/ c = Garbled /\ o.action \in {"shorten", "fill", "extend"}

DroppedOnlyByPanic ==
    [][signal # NoSignal /\ ~Drops(order') =>
         signal' # NoSignal /\ (signal' = NoAnswer => CanPanic(order', cue))]_vars
=============================================================================
