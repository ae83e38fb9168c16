------------------------------- MODULE Frames -------------------------------
(***************************************************************************)
(* ECHONET Lite frames on the wire (frame.py, eoj.py) and what pyhems reads *)
(* out of the properties of a frame: the identity and the instances of a   *)
(* node (discovery.py), property maps and node data (device_manager.py),   *)
(* and what the answer to a SetC or an INF_REQ says of each property       *)
(* (runtime.py).  A property is [epc, edt]; an EOJ is its 24 bits.          *)
(***************************************************************************)
EXTENDS Bytes

ESV == [SetISna |-> 80, SetCSna |-> 81, GetSna |-> 82, InfSna |-> 83, SetGetSna |-> 94,
        SetI |-> 96, SetC |-> 97, Get |-> 98, InfReq |-> 99, SetGet |-> 110,
        SetRes |-> 113, GetRes |-> 114, Inf |-> 115, InfC |-> 116, InfCRes |-> 122,
        SetGetRes |-> 126]
Services == {ESV[name] : name \in DOMAIN ESV}

IsResponseOrNotification(frame) ==
    frame.esv \in Services \ {ESV[name] : name \in {"SetI", "SetC", "Get", "InfReq", "SetGet"}}

Property(epc, edt) == [epc |-> epc, edt |-> edt]

EOJ == 0 .. 2 ^ 24 - 1
Properties == [epc : Byte, edt : Seq(Byte)]
Frame == [tid : Nat, seoj : EOJ, deoj : EOJ, esv : Services, properties : Seq(Properties)]

(* What the loop of decode has read: the properties, up to an offset. *)
Reading == [offset : Nat, properties : Seq(Properties)]

ASSUME FrameAssumption == None \notin Frame \cup Reading

-----------------------------------------------------------------------------
(* Frame.encode and Frame.decode.                                           *)

EncodeProperty(property) == <<property.epc, Len(property.edt)>> \o property.edt

(* A TID, a count or a length that does not fit its bytes is an error. *)
EncodeFrame(frame) ==
    IF \/ frame.tid \notin Word \/ Len(frame.properties) > 255
       \/ \E property \in ToSet(frame.properties) : Len(property.edt) > 255
    THEN None
    ELSE <<16, 129>> \o ToBytes(frame.tid, 2) \o ToBytes(frame.seoj, 3) \o ToBytes(frame.deoj, 3)
         \o <<frame.esv, Len(frame.properties)>>
         \o FlattenSeq([i \in DOMAIN frame.properties |-> EncodeProperty(frame.properties[i])])

(* Mutant of ReadProperty: data that ends early is taken as it is. *)
ReadPropertyShort(data, read) ==
    IF read = None THEN None
    ELSE IF read.offset + 2 > Len(data) THEN None
    ELSE LET end == read.offset + 2 + data[read.offset + 2] IN
         [offset |-> end,
          properties |-> Append(read.properties,
              Property(data[read.offset + 1],
                       SubSeq(data, read.offset + 3, IF end < Len(data) THEN end ELSE Len(data))))]

(* One turn of the loop of decode, from read.offset (counted from 0) on. *)
ReadProperty(data, read) ==
    IF read = None THEN None
    ELSE IF read.offset + 2 > Len(data) THEN None
    ELSE LET end == read.offset + 2 + data[read.offset + 2] IN
         IF end > Len(data) THEN None
         ELSE [offset |-> end,
               properties |-> Append(read.properties,
                   Property(data[read.offset + 1], SubSeq(data, read.offset + 3, end)))]

ReadProperties(data) ==
    LET read[i \in 0..data[12]] ==
            IF i = 0 THEN [offset |-> 12, properties |-> <<>>]
            ELSE ReadProperty(data, read[i - 1])
    IN  read[data[12]]

(* Bytes after the last property are ignored. *)
DecodeFrame(data) ==
    IF Len(data) < 12 THEN None
    ELSE IF data[1] # 16 \/ data[2] # 129 \/ data[11] \notin Services THEN None
    ELSE IF ReadProperties(data) = None THEN None
    ELSE [tid |-> FromBytes(SubSeq(data, 3, 4)), seoj |-> FromBytes(SubSeq(data, 5, 7)),
          deoj |-> FromBytes(SubSeq(data, 8, 10)), esv |-> data[11],
          properties |-> ReadProperties(data).properties]

-----------------------------------------------------------------------------
(* What the properties say of a node.                                       *)

(* Each value once, where it comes first: list(dict.fromkeys(...)). *)
Distinct(s) ==
    LET kept[i \in 0..Len(s)] ==
            IF i = 0 THEN <<>>
            ELSE IF s[i] \in ToSet(kept[i - 1]) THEN kept[i - 1]
            ELSE Append(kept[i - 1], s[i])
    IN  kept[Len(s)]

(* The instances of a list as far as its bytes go. *)
Instances(edt) ==
    LET whole == (Len(edt) - 1) \div 3
        count == IF edt[1] < whole THEN edt[1] ELSE whole
    IN  [i \in 1..count |-> FromBytes(SubSeq(edt, 3 * i - 1, 3 * i + 1))]

ListedIn(property) ==
    IF property.epc \in {213, 214} /\ property.edt # <<>> THEN Instances(property.edt) ELSE <<>>

(* _extract_discovery_info: the last 0x83, and the lists 0xD5 and 0xD6. *)
DiscoveryInfo(frame) ==
    LET properties == frame.properties
        ids == {i \in DOMAIN properties : properties[i].epc = 131 /\ properties[i].edt # <<>>}
        lists == [i \in DOMAIN properties |-> ListedIn(properties[i])]
    IN  [node_id |-> IF ids = {} THEN None ELSE properties[Max(ids)].edt,
         instances |-> Distinct(FlattenSeq(lists))]

(* _parse_property_map: a list of up to 15 EPCs, or 16 bytes whose index is *)
(* the low half of an EPC and whose bits are the high half, from 8 on.      *)
ParsePropertyMap(edt) ==
    IF edt = <<>> THEN None
    ELSE IF edt[1] <= 15
    THEN IF Len(edt) < edt[1] + 1 THEN None ELSE ToSet(SubSeq(edt, 2, edt[1] + 1))
    ELSE IF Len(edt) < 17 THEN None
    ELSE {epc \in 128..255 :
             LET byte == edt[2 + (epc % 16)]
                 bit == (epc - 128) \div 16
             IN  (byte \div 2 ^ bit) % 2 = 1}

(* properties.get(epc, b"") *)
EdtOf(properties, epc) == IF epc \in DOMAIN properties THEN properties[epc] ELSE <<>>

(* _extract_property_maps *)
PropertyMaps(properties) ==
    [get |-> ParsePropertyMap(EdtOf(properties, 159)),
     set |-> ParsePropertyMap(EdtOf(properties, 158)),
     inf |-> ParsePropertyMap(EdtOf(properties, 157))]

(* _decode_ascii_property: NULs and spaces at the end are padding. *)
AsciiOf(edt) ==
    LET text == {i \in DOMAIN edt : edt[i] \notin {0, 32}}
        end == IF text = {} THEN 0 ELSE Max(text)
    IN  IF edt = <<>> \/ \E i \in 1..end : edt[i] > 127 THEN None ELSE SubSeq(edt, 1, end)

(* _extract_node_profile_info *)
ProfileInfo(properties) ==
    LET code == EdtOf(properties, 138) IN
    [manufacturer_code |-> IF Len(code) >= 3 THEN FromBytes(SubSeq(code, 1, 3)) ELSE None,
     product_code |-> AsciiOf(EdtOf(properties, 140)),
     serial_number |-> AsciiOf(EdtOf(properties, 141))]

-----------------------------------------------------------------------------
(* Answers.  response is None when the client stopped or no answer came.    *)

EpcsOf(properties) == {p.epc : p \in properties}

(* Mutant of Named: a property that was not asked for is taken too. *)
NamedAny(requested, response) == ToSet(response.properties)

(* The properties of an answer that were asked for. *)
Named(requested, response) == {p \in ToSet(response.properties) : p.epc \in requested}

SetRequestResult(sent, accepted, rejected, unanswered) ==
    [sent |-> sent, accepted |-> accepted, rejected |-> rejected, unanswered |-> unanswered]

(* set_properties.  A Set_Res accepts all; in a SNA an empty EDT accepts    *)
(* its property, and an EDT that is returned rejects it.                    *)
SetResult(requested, addressed, sent, response) ==
    IF requested = {} \/ ~addressed \/ ~sent THEN SetRequestResult(FALSE, {}, {}, requested)
    ELSE IF response = None THEN SetRequestResult(TRUE, {}, {}, requested)
    ELSE IF response.esv = ESV.SetRes THEN SetRequestResult(TRUE, requested, {}, {})
    ELSE LET accepted == EpcsOf({p \in Named(requested, response) : p.edt = <<>>})
             rejected == EpcsOf({p \in Named(requested, response) : p.edt # <<>>})
         IN  SetRequestResult(TRUE, accepted, rejected, requested \ (accepted \cup rejected))

(* request_notifications.  A property the answer leaves out is unanswered,  *)
(* even in an INF.                                                          *)
InfResult(requested, addressed, response) ==
    IF ~addressed \/ response = None
    THEN [notified |-> {}, rejected |-> {}, unanswered |-> requested]
    ELSE LET responded == EpcsOf(Named(requested, response))
             all == response.esv = ESV.Inf
         IN  [notified |-> IF all THEN responded ELSE {},
              rejected |-> IF all THEN {} ELSE responded,
              unanswered |-> requested \ responded]
=============================================================================
