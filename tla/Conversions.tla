------------------------------ MODULE Conversions ------------------------------
(***************************************************************************)
(* What a caller of the pure functions of pyhems may do: one call of one   *)
(* function, remembered with its arguments and its result, for every       *)
(* argument of the sets below.  The functions are those of ValueCodecs and *)
(* Frames; the properties compare each result with what the other          *)
(* direction of the conversion, or a definition by sets, makes of it.      *)
(***************************************************************************)
EXTENDS ValueCodecs, Frames

CONSTANTS
    Fields,            \* [class, epc, manufacturer, offset]: the fields decoded
    EdtsOf(_),         \* the EDTs tried for a field
    ValuesOf(_),       \* the values tried for a field
    ContextsOf(_),     \* the contexts it is decoded with: EPC -> EDT, or None
    SentFrames,        \* the frames encoded
    Received,          \* [frame, length, corruption]: the datagrams decoded; the
                       \* corruption is a [position, byte], or None
    MapSets,           \* the sets of EPCs of the property maps
    RequestedEpcs,     \* the EPCs set and asked for
    Answers            \* the frames that answer, or None

VARIABLE call

(* EPC 0x81 is not in the registry and has a codec of its own. *)
CodecOf(field) ==
    IF field.epc = 129 THEN [kind |-> "location"]
    ELSE GetCodecForEpc(field.class, field.epc, field.manufacturer, field.offset)

ASSUME ConversionsAssumption ==
    /\ \A field \in Fields :
          /\ field.epc # 129 => field.class \in DOMAIN Entities
          /\ CodecOf(field) # None
          /\ EdtsOf(field) \subseteq Seq(Byte)
          /\ ValuesOf(field) \subseteq ValuesFor(CodecOf(field))
    /\ SentFrames \subseteq Frame
    /\ \A received \in Received :
          /\ received.frame \in Frame /\ EncodeFrame(received.frame) # None
          /\ received.length \in 0 .. Len(EncodeFrame(received.frame)) + 2
          /\ received.corruption # None => received.corruption.byte \in Byte
    /\ MapSets \subseteq SUBSET (128..255)
    /\ Answers \subseteq Frame \cup {None}

Call(op, arg, result) == [op |-> op, arg |-> arg, result |-> result]

(* codec.decode and codec.encode of the codec of a field. *)
DecodeField ==
    /\ call = None
    /\ \E field \in Fields : \E edt \in EdtsOf(field), context \in ContextsOf(field) :
          call' = Call("decode", [field |-> field, edt |-> edt, context |-> context],
                       Decode(CodecOf(field), edt, context))

EncodeField ==
    /\ call = None
    /\ \E field \in Fields : \E value \in ValuesOf(field) :
          call' = Call("encode", [field |-> field, value |-> value], Encode(CodecOf(field), value))

SendFrame ==
    /\ call = None
    /\ \E frame \in SentFrames : call' = Call("send", frame, EncodeFrame(frame))

(* Frame.decode of a datagram that is cut, has two bytes after its end or a *)
(* wrong byte.                                                              *)
ReceiveDatagram ==
    /\ call = None
    /\ \E received \in Received :
          LET cut == SubSeq(EncodeFrame(received.frame) \o <<0, 0>>, 1, received.length)
              data == IF received.corruption = None THEN cut
                      ELSE [cut EXCEPT ![received.corruption.position] = received.corruption.byte]
          IN  call' = Call("receive",
                           [frame |-> received.frame, data |-> data, intact |-> data = cut],
                           DecodeFrame(data))

(* The property map of the EPCs of a set, as the standard draws it. *)
MapOf(epcs) ==
    LET Bit(index, bit) == IF 128 + 16 * bit + index \in epcs THEN 2 ^ bit ELSE 0
        Bits(index) == Bit(index, 0) + Bit(index, 1) + Bit(index, 2) + Bit(index, 3)
                       + Bit(index, 4) + Bit(index, 5) + Bit(index, 6) + Bit(index, 7)
        Ordered(n) == CHOOSE epc \in epcs : Cardinality({e \in epcs : e < epc}) = n - 1
    IN  <<Cardinality(epcs)>> \o
        IF Cardinality(epcs) <= 15 THEN [n \in 1..Cardinality(epcs) |-> Ordered(n)]
        ELSE [n \in 1..16 |-> Bits(n - 1)]

(* The get map of a node cut at a length, its set map, its name and code. *)
ReadMaps ==
    /\ call = None
    /\ \E epcs \in MapSets : \E length \in 0..Len(MapOf(epcs)) :
          LET edt == SubSeq(MapOf(epcs), 1, length)
              properties == [epc \in {138, 140, 158, 159} |-> IF epc = 158 THEN MapOf(epcs) ELSE edt]
          IN  call' = Call("map", [epcs |-> epcs, length |-> length],
                           [maps |-> PropertyMaps(properties), info |-> ProfileInfo(properties)])

(* set_properties and request_notifications. *)
SetProperties ==
    /\ call = None
    /\ \E requested \in SUBSET RequestedEpcs, response \in Answers, addressed, sent \in BOOLEAN :
          call' = Call("set", [requested |-> requested, response |-> response],
                       SetResult(requested, addressed, sent, response))

RequestNotifications ==
    /\ call = None
    /\ \E requested \in SUBSET RequestedEpcs, response \in Answers, addressed \in BOOLEAN :
          call' = Call("notify", [requested |-> requested, response |-> response],
                       InfResult(requested, addressed, response))

(* The identity and the instances in an answer. *)
ReadDiscovery ==
    /\ call = None
    /\ \E frame \in SentFrames : call' = Call("discover", frame, DiscoveryInfo(frame))

Init == call = None

Convert ==
    \/ DecodeField \/ EncodeField \/ SendFrame \/ ReceiveDatagram \/ ReadMaps
    \/ SetProperties \/ RequestNotifications \/ ReadDiscovery

ConversionSpec == Init /\ [][Convert]_call

-----------------------------------------------------------------------------
(* Only a field at the start of its EDT and without coefficients is encoded. *)
IsScaled(field) == CodecOf(field).kind = "numeric" /\ CodecOf(field).coefficients # <<>>
IsWritable(field) == field.offset = 0 /\ ~IsScaled(field)

WidthOf(codec) ==
    CASE codec.kind = "temporal" -> codec.temporal.size
      [] codec.kind = "numeric" -> Formats[codec.format].size
      [] OTHER -> 1

AbsOf(n) == IF n < 0 THEN -n ELSE n

(* value as close to wanted as the steps of the codec allow. *)
IsNearest(codec, value, wanted) ==
    CASE codec.kind = "numeric" ->
            2 * AbsOf(value.num * wanted.den - wanted.num * value.den) * codec.scale.den
                <= codec.scale.num * value.den * wanted.den
      [] codec.kind = "numericValue" -> SameNumber(value, wanted)
      [] OTHER -> value = wanted

(* encoded is decoded to the value nearest to value, or is None because no  *)
(* one of edts is decoded to value.                                         *)
IsToldAgain(codec, edts, value, encoded) ==
    IF encoded = None
    THEN \A edt \in edts : Len(edt) = WidthOf(codec) => Decode(codec, edt, None) # value
    ELSE /\ Decode(codec, encoded, None) # None
         /\ IsNearest(codec, Decode(codec, encoded, None), value)

(* What encode returns is decoded to the value it was made from, a number   *)
(* to the nearest step of its scale; encode refuses only what no EDT of the *)
(* field decodes to.  A frame that encode takes is decoded to itself.       *)
(* (codecs.py encode and decode, frame.py)                                  *)
EncodedIsDecoded ==
    /\ call # None /\ call.op = "encode" /\ IsWritable(call.arg.field) =>
           IsToldAgain(CodecOf(call.arg.field), EdtsOf(call.arg.field), call.arg.value, call.result)
    /\ call # None /\ call.op = "send" /\ call.result # None =>
           DecodeFrame(call.result) = call.arg

(* An EDT that decode understands is what its value encodes to, byte for    *)
(* byte, so reading a property and writing the value back changes nothing.  *)
(* A datagram that is cut anywhere is refused, one with bytes after its end *)
(* is read, and one with a wrong byte is refused or read as the frame that  *)
(* its bytes are.  A whole property map is read as its set, for each length *)
(* and both forms, and a cut one is not read at all.                        *)
DecodedIsEncoded ==
    /\ call # None /\ call.op = "decode" /\ call.result # None =>
           (IsWritable(call.arg.field) /\ Len(call.arg.edt) = WidthOf(CodecOf(call.arg.field))
               => Encode(CodecOf(call.arg.field), call.result) = call.arg.edt)
    /\ call # None /\ call.op = "receive" =>
           LET whole == Len(call.arg.data) >= Len(EncodeFrame(call.arg.frame)) IN
           /\ call.arg.intact => call.result = IF whole THEN call.arg.frame ELSE None
           /\ call.result # None => IsPrefix(EncodeFrame(call.result), call.arg.data)
    /\ call # None /\ call.op = "map" =>
           LET whole == call.arg.length = Len(MapOf(call.arg.epcs)) IN
           /\ call.result.maps.get = IF whole THEN call.arg.epcs ELSE None
           /\ call.result.maps.set = call.arg.epcs /\ call.result.maps.inf = None

-----------------------------------------------------------------------------
(* A number with coefficients is told only with the value of each of them.  *)
ScaleIsKnown(field, context, value) ==
    IsScaled(field) /\ value # None =>
        /\ context # None
        /\ \A coefficient \in ToSet(CodecOf(field).coefficients) :
              /\ coefficient.epc \in DOMAIN context
              /\ Decode(coefficient.codec, context[coefficient.epc], None) # None

NamedOnce(frame) ==
    \A i, j \in DOMAIN frame.properties :
        frame.properties[i].epc = frame.properties[j].epc => i = j

(* Each requested EPC is somewhere, and what the answer does not name is    *)
(* unanswered.  Accepted and rejected it is only if the answer names it     *)
(* twice.                                                                   *)
SetIsHonest(requested, response, result) ==
    /\ result.accepted \cup result.rejected \cup result.unanswered = requested
    /\ response # None /\ NamedOnce(response) => result.accepted \cap result.rejected = {}
    /\ result.unanswered \cap (result.accepted \cup result.rejected) = {}
    /\ \A epc \in result.accepted : response.esv = ESV.SetRes
                                    \/ Property(epc, <<>>) \in ToSet(response.properties)
    /\ \A epc \in result.rejected : response.esv # ESV.SetRes
                                    /\ epc \in EpcsOf(ToSet(response.properties))
    /\ ~result.sent => result.unanswered = requested

NotifyIsHonest(requested, response, result) ==
    /\ result.notified \cup result.rejected \cup result.unanswered = requested
    /\ result.notified \cap result.rejected = {}
    /\ result.unanswered \cap (result.notified \cup result.rejected) = {}
    /\ result.notified # {} => response.esv = ESV.Inf
    /\ result.notified \cup result.rejected # {} =>
          result.notified \cup result.rejected \subseteq EpcsOf(ToSet(response.properties))

(* Each instance of the lists once, and no bytes beyond a list's own.       *)
InstancesAreListed(frame, info) ==
    /\ IsInjective(info.instances)
    /\ ToSet(info.instances) =
          UNION {LET edt == property.edt IN
                 {FromBytes(SubSeq(edt, 3 * k - 1, 3 * k + 1)) :
                     k \in {n \in 1..edt[1] : 3 * n < Len(edt)}} :
                 property \in {p \in ToSet(frame.properties) :
                                  p.epc \in {213, 214} /\ p.edt # <<>>}}

(* A text is its EDT without the padding at the end, and only that. *)
TextIsItsBytes(edt, text) ==
    text # None =>
        /\ IsPrefix(text, edt)
        /\ text # <<>> => Last(text) \notin {0, 32}
        /\ ToSet(SubSeq(edt, Len(text) + 1, Len(edt))) \subseteq {0, 32}

(* Nothing is read out of an answer that the answer does not say: no number *)
(* is told whose unit is not known; no EPC is accepted, rejected or         *)
(* notified that the answer does not name, except by a Set_Res, none is     *)
(* lost, and none is both unless it is named twice; no instance is listed twice or from past the end of its list; a    *)
(* product code is the bytes sent.  (codecs.py, runtime.py,                 *)
(* device_manager.py, discovery.py)                                         *)
NothingInvented ==
    call # None =>
        /\ call.op = "decode" => ScaleIsKnown(call.arg.field, call.arg.context, call.result)
        /\ call.op = "map" =>
               TextIsItsBytes(SubSeq(MapOf(call.arg.epcs), 1, call.arg.length),
                              call.result.info.product_code)
        /\ call.op = "set" => SetIsHonest(call.arg.requested, call.arg.response, call.result)
        /\ call.op = "notify" => NotifyIsHonest(call.arg.requested, call.arg.response, call.result)
        /\ call.op = "discover" => InstancesAreListed(call.arg, call.result)
=============================================================================
