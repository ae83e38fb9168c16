---------------------------- MODULE ValueCodecs ----------------------------
(***************************************************************************)
(* The value codecs of codecs.py, with the definitions of definitions.py   *)
(* that choose and drive them: what an EDT is decoded to, and what a value *)
(* is encoded to.                                                          *)
(*                                                                         *)
(* An EDT is a sequence of bytes.  None is Python's None where the code    *)
(* returns it, and stands for the ValueError (or LookupError) where the    *)
(* code raises one.  A decoded value is a record whose fields tell what it *)
(* is: a number [num, den] (an exact fraction in place of the float), a    *)
(* state [key], a bool [on], a date or a time, a timedelta [duration],     *)
(* untouched bytes [bytes], a dict [fields] or a tuple [items].  Numbers   *)
(* of four bytes are beyond TLC's integers: the instances it checks have   *)
(* one and two bytes.                                                      *)
(***************************************************************************)
EXTENDS Bytes

CONSTANTS
    Entities,           \* REGISTRY.entities: class -> sequence of entities
    StructuredDefs,     \* REGISTRY.structured_values: class -> EPC -> definition
    CollectionBindings  \* REGISTRY.collection_bindings: class -> sequence

-----------------------------------------------------------------------------
(* Integers and fractions.                                                  *)

(* Two's complement: signed=True. *)
FromSigned(edt) ==
    LET n == FromBytes(edt)
        half == 2 ^ (8 * Len(edt) - 1)
    IN  IF n >= half THEN n - 2 * half ELSE n

ToSigned(n, size) ==
    LET half == 2 ^ (8 * size - 1) IN
    IF n \notin -half .. half - 1 THEN None
    ELSE ToBytes(IF n < 0 THEN n + 2 * half ELSE n, size)

Number(n, d) == [num |-> n, den |-> d]
One == Number(1, 1)
Times(a, b) == Number(a.num * b.num, a.den * b.den)
SameNumber(a, b) == a.num * b.den = b.num * a.den

(* Python's round(): a half goes to the even neighbour. *)
Rounded(v) ==
    LET low == v.num \div v.den
        rest == 2 * (v.num % v.den)
    IN  IF rest > v.den \/ (rest = v.den /\ low % 2 = 1) THEN low + 1 ELSE low

-----------------------------------------------------------------------------
(* Definitions.  A constructor takes what is always given, and leaves the   *)
(* rest at the default; EXCEPT gives the rest.                              *)

Entity(epc) ==
    [epc |-> epc, format |-> None, minimum |-> None, maximum |-> None,
     multiple_of |-> One, enum_values |-> <<>>, byte_offset |-> 0,
     manufacturer_code |-> None, numeric_values |-> None,
     coefficient_epcs |-> <<>>, temporal |-> None]

Numbers == [num : Int, den : Nat \ {0}]

EnumValue(edt, key) == [edt |-> edt, key |-> key]
NumericValueEntry(edt, value) == [edt |-> edt, value |-> value]

(* __post_init__ raises for any other definition. *)
TemporalDefinition(kind, size, maximum_hour) ==
    IF /\ size \in CASE kind = "date" -> {4}
                     [] kind \in {"clock", "duration"} -> {2, 3}
                     [] kind = "datetime" -> {6, 7}
       /\ maximum_hour \in 0..255
       /\ kind = "clock" => maximum_hour <= 23
    THEN [kind |-> kind, size |-> size, maximum_hour |-> maximum_hour]
    ELSE None

ScalarDefinition(size) ==
    [kind |-> "scalar", size |-> size, format |-> None, minimum |-> None,
     maximum |-> None, multiple_of |-> One, enum_values |-> <<>>,
     numeric_values |-> None, coefficient_epcs |-> <<>>]

ObjectField(key, value) == [key |-> key, value |-> value]
ObjectDefinition(fields) == [kind |-> "object", fields |-> fields]
ArrayDefinition(item, item_size, min_items, max_items) ==
    [kind |-> "array", item |-> item, item_size |-> item_size,
     min_items |-> min_items, max_items |-> max_items]
OneOfDefinition(options) == [kind |-> "oneOf", options |-> options]

CollectionBinding(result_epc, count_epc, selector_epc, max_range, items_key, start_key, count_key) ==
    [result_epc |-> result_epc, count_epc |-> count_epc, selector_epc |-> selector_epc,
     max_range |-> max_range, items_path |-> <<items_key>>, start_path |-> <<start_key>>,
     page_count_path |-> <<count_key>>]

-----------------------------------------------------------------------------
(* Temporal values.                                                         *)

DaysIn(year, month) ==
    IF month = 2 THEN IF year % 4 = 0 /\ (year % 100 # 0 \/ year % 400 = 0) THEN 29 ELSE 28
    ELSE IF month \in {4, 6, 9, 11} THEN 30 ELSE 31

(* What datetime.date and datetime.time accept. *)
IsDate(year, month, day) ==
    year \in 1..9999 /\ month \in 1..12 /\ day \in 1..DaysIn(year, month)
IsTime(hour, minute, second) == hour \in 0..23 /\ minute \in 0..59 /\ second \in 0..59

(* exact: no time zone, no fold and no microseconds. *)
Date(y, m, d) == [year |-> y, month |-> m, day |-> d]
Clock(h, m, s, exact) == [hour |-> h, minute |-> m, second |-> s, exact |-> exact]
DateTime(date, clock) == [date |-> date, clock |-> clock]
Duration(seconds, exact) == [duration |-> seconds, exact |-> exact]

DateValues == {d \in [year : Int, month : Int, day : Int] : IsDate(d.year, d.month, d.day)}
ClockValues == {c \in [hour : Int, minute : Int, second : Int, exact : BOOLEAN] :
                   IsTime(c.hour, c.minute, c.second)}
DateTimeValues == [date : DateValues, clock : ClockValues]
DurationValues == [duration : Int, exact : BOOLEAN]

DecodeTemporal(definition, edt) ==
    LET kind == definition.kind
        year == FromBytes(SubSeq(edt, 1, 2))
        At(i) == IF i <= Len(edt) THEN edt[i] ELSE 0
    IN  IF Len(edt) # definition.size THEN None
        ELSE IF kind = "date"
        THEN IF IsDate(year, edt[3], edt[4]) THEN Date(year, edt[3], edt[4]) ELSE None
        ELSE IF kind = "datetime"
        THEN IF IsDate(year, edt[3], edt[4]) /\ IsTime(edt[5], edt[6], At(7))
             THEN DateTime(Date(year, edt[3], edt[4]), Clock(edt[5], edt[6], At(7), TRUE))
             ELSE None
        ELSE IF edt[1] > definition.maximum_hour \/ edt[2] > 59 \/ At(3) > 59 THEN None
        ELSE IF kind = "clock" THEN Clock(edt[1], edt[2], At(3), TRUE)
        ELSE Duration(3600 * edt[1] + 60 * edt[2] + At(3), TRUE)

(* The kind of definition that value is a normal value of. *)
KindOf(value) ==
    CASE "year" \in DOMAIN value -> "date"
      [] "date" \in DOMAIN value -> "datetime"
      [] "hour" \in DOMAIN value -> "clock"
      [] "duration" \in DOMAIN value -> "duration"
      [] OTHER -> "other"

(* Mutant of EncodeHours: seconds are dropped instead of rejected. *)
EncodeHoursTruncating(definition, hour, minute, second) ==
    IF hour > definition.maximum_hour THEN None
    ELSE SubSeq(<<hour, minute, second>>, 1, definition.size)

EncodeHours(definition, hour, minute, second) ==
    IF hour > definition.maximum_hour \/ (definition.size = 2 /\ second # 0) THEN None
    ELSE SubSeq(<<hour, minute, second>>, 1, definition.size)

EncodeDate(date) == ToBytes(date.year, 2) \o <<date.month, date.day>>

EncodeTemporal(definition, value) ==
    IF KindOf(value) # definition.kind THEN None
    ELSE CASE definition.kind = "date" -> EncodeDate(value)
           [] definition.kind = "datetime" ->
                LET clock == value.clock IN
                IF ~clock.exact \/ (definition.size = 6 /\ clock.second # 0) THEN None
                ELSE SubSeq(EncodeDate(value.date) \o <<clock.hour, clock.minute, clock.second>>,
                            1, definition.size)
           [] definition.kind = "clock" ->
                IF ~value.exact THEN None
                ELSE EncodeHours(definition, value.hour, value.minute, value.second)
           [] definition.kind = "duration" ->
                IF value.duration < 0 \/ ~value.exact THEN None
                ELSE EncodeHours(definition, value.duration \div 3600,
                                 (value.duration % 3600) \div 60, value.duration % 60)

(* The places of an EDT and of a key among the entries of a definition. *)
WithEdt(entries, edt) == {i \in DOMAIN entries : entries[i].edt = edt}
WithKey(entries, key) == {i \in DOMAIN entries : entries[i].key = key}

(* The states of a temporal property come before its normal values. *)
DecodeTemporalOrState(codec, edt) ==
    LET size == codec.temporal.size
        states == {i \in DOMAIN codec.enum_values : edt = ToBytes(codec.enum_values[i].edt, size)}
    IN  IF Len(edt) = size /\ states # {} THEN [key |-> codec.enum_values[Min(states)].key]
        ELSE DecodeTemporal(codec.temporal, edt)

EncodeTemporalOrState(codec, value) ==
    IF "key" \notin DOMAIN value THEN EncodeTemporal(codec.temporal, value)
    ELSE LET states == WithKey(codec.enum_values, value.key) IN
         IF states = {} THEN None
         ELSE ToBytes(codec.enum_values[Min(states)].edt, codec.temporal.size)

-----------------------------------------------------------------------------
(* Codecs of one field.  _reject_byte_offset: only a field at the start of  *)
(* the EDT is encoded.                                                      *)

Formats == [uint8  |-> [signed |-> FALSE, size |-> 1], int8  |-> [signed |-> TRUE, size |-> 1],
            uint16 |-> [signed |-> FALSE, size |-> 2], int16 |-> [signed |-> TRUE, size |-> 2],
            uint32 |-> [signed |-> FALSE, size |-> 4], int32 |-> [signed |-> TRUE, size |-> 4]]

ByteAt(edt, offset) == IF offset < Len(edt) THEN edt[offset + 1] ELSE None

DecodeBinary(codec, edt) ==
    LET byte == ByteAt(edt, codec.byte_offset) IN
    IF byte \notin {codec.on_edt, codec.off_edt} THEN None ELSE [on |-> byte = codec.on_edt]

EncodeBinary(codec, value) ==
    IF codec.byte_offset # 0 THEN None
    ELSE <<IF value.on THEN codec.on_edt ELSE codec.off_edt>>

(* by_edt and by_key keep the last of equal entries. *)
DecodeEnum(codec, edt) ==
    LET hits == WithEdt(codec.enum_values, ByteAt(edt, codec.byte_offset)) IN
    IF hits = {} THEN None ELSE [key |-> codec.enum_values[Max(hits)].key]

EncodeEnum(codec, value) ==
    LET hits == WithKey(codec.enum_values, value.key) IN
    IF codec.byte_offset # 0 \/ hits = {} THEN None ELSE ToBytes(codec.enum_values[Max(hits)].edt, 1)

DecodeNumericValue(codec, edt) ==
    LET hits == WithEdt(codec.numeric_values, ByteAt(edt, codec.byte_offset)) IN
    IF hits = {} THEN None ELSE codec.numeric_values[Max(hits)].value

EncodeNumericValue(codec, value) ==
    LET entries == codec.numeric_values
        hits == {i \in DOMAIN entries : SameNumber(entries[i].value, value)}
    IN  IF codec.byte_offset # 0 \/ hits = {} THEN None ELSE <<entries[Min(hits)].edt>>

InRange(codec, raw) ==
    /\ codec.minimum # None => raw >= codec.minimum
    /\ codec.maximum # None => raw <= codec.maximum

(* first times all of factors *)
Product(first, factors) ==
    LET product[i \in 0..Len(factors)] ==
            IF i = 0 THEN first ELSE Times(product[i - 1], factors[i])
    IN  product[Len(factors)]

(* factors are the values of the coefficients; None is one that is unknown. *)
DecodeNumeric(codec, edt, factors) ==
    LET format == Formats[codec.format]
        field == SubSeq(edt, codec.byte_offset + 1, codec.byte_offset + format.size)
        raw == IF format.signed THEN FromSigned(field) ELSE FromBytes(field)
    IN  IF Len(edt) < codec.byte_offset + format.size THEN None
        ELSE IF ~InRange(codec, raw) \/ None \in ToSet(factors) THEN None
        ELSE Product(Times(Number(raw, 1), codec.scale), factors)

EncodeNumeric(codec, value) ==
    LET format == Formats[codec.format]
        raw == Rounded(Number(value.num * codec.scale.den, value.den * codec.scale.num))
    IN  IF codec.coefficients # <<>> \/ codec.byte_offset # 0 \/ ~InRange(codec, raw) THEN None
        ELSE IF format.signed THEN ToSigned(raw, format.size) ELSE ToBytes(raw, format.size)

(* EPC 0x81.  INSTALLATION_LOCATIONS names the codes 1 to 15. *)
Locations == 1..15
InstallationLocation(code, instance) == [code |-> code, instance |-> instance]

DecodeLocation(edt) ==
    IF Len(edt) # 1 THEN None
    ELSE IF edt[1] \in {0, 1, 255} \/ edt[1] >= 128 THEN None
    ELSE IF edt[1] \div 8 \notin Locations THEN None
    ELSE InstallationLocation(edt[1] \div 8, edt[1] % 8)

EncodeLocation(value) ==
    IF value.code \notin Locations \/ value.instance \notin 0..7 THEN None
    ELSE <<8 * (value.code % 16) + (value.instance % 8)>>

-----------------------------------------------------------------------------
(* The choice of a codec, and the codecs with it.                           *)

IsBinary(entity) ==
    Len(entity.enum_values) = 2 /\ {e.key : e \in ToSet(entity.enum_values)} = {"true", "false"}

StateEdt(entity, key) == entity.enum_values[Min(WithKey(entity.enum_values, key))].edt

NumericCodec(definition, offset, coefficients) ==
    [kind |-> "numeric", format |-> definition.format, scale |-> definition.multiple_of,
     minimum |-> definition.minimum, maximum |-> definition.maximum, byte_offset |-> offset,
     coefficients |-> coefficients]

(* get_codec; coefficients are those of _coefficient_codecs, which fails    *)
(* without a class.                                                         *)
GetCodec(entity, coefficients) ==
    IF entity.temporal # None
    THEN IF entity.byte_offset # 0 THEN None
         ELSE [kind |-> "temporal", temporal |-> entity.temporal,
               enum_values |-> entity.enum_values]
    ELSE IF entity.numeric_values # None
    THEN [kind |-> "numericValue", numeric_values |-> entity.numeric_values,
          byte_offset |-> entity.byte_offset]
    ELSE IF IsBinary(entity)
    THEN [kind |-> "binary", on_edt |-> StateEdt(entity, "true"),
          off_edt |-> StateEdt(entity, "false"), byte_offset |-> entity.byte_offset]
    ELSE IF entity.enum_values # <<>>
    THEN [kind |-> "enum", enum_values |-> entity.enum_values,
          byte_offset |-> entity.byte_offset]
    ELSE IF entity.format # None /\ coefficients # None
    THEN NumericCodec(entity, entity.byte_offset, coefficients)
    ELSE None

(* The definition of the field: that of the manufacturer, or the generic    *)
(* one.                                                                     *)
EntityFor(class, epc, manufacturer, offset) ==
    LET entities == Entities[class]
        fields == {i \in DOMAIN entities : entities[i].epc = epc /\ entities[i].byte_offset = offset}
        own == {i \in fields : entities[i].manufacturer_code # None
                               /\ entities[i].manufacturer_code = manufacturer}
        generic == {i \in fields : entities[i].manufacturer_code = None}
    IN  IF own # {} THEN entities[Min(own)]
        ELSE IF generic # {} THEN entities[Min(generic)] ELSE None

(* The codecs of coefficients, or None if one of them has none. *)
AllOrNone(coefficients) ==
    IF \E i \in DOMAIN coefficients : coefficients[i].codec = None THEN None ELSE coefficients

(* The codec of an entity, whose coefficients have the codecs of codecs. *)
CodecOfEntity(entity, codecs) ==
    IF entity = None THEN None
    ELSE GetCodec(entity, AllOrNone([i \in DOMAIN entity.coefficient_epcs |->
             [epc |-> entity.coefficient_epcs[i], codec |-> codecs[entity.coefficient_epcs[i]]]]))

(* get_codec_for_epc of a coefficient: the generic definition, at offset 0. *)
CoefficientCodec(class) ==
    LET codec[epc \in Byte] == CodecOfEntity(EntityFor(class, epc, None, 0), codec) IN codec

CoefficientCodecs(epcs, class) ==
    IF epcs = <<>> THEN <<>>
    ELSE IF class = None THEN None
    ELSE AllOrNone([i \in DOMAIN epcs |->
                       [epc |-> epcs[i], codec |-> CoefficientCodec(class)[epcs[i]]]])

GetCodecForEpc(class, epc, manufacturer, offset) ==
    LET entity == EntityFor(class, epc, manufacturer, offset) IN
    IF entity = None THEN None
    ELSE GetCodec(entity, CoefficientCodecs(entity.coefficient_epcs, class))

(* codec.decode(edt), with factors for the values of the coefficients. *)
DecodeWith(codec, edt, factors) ==
    CASE codec.kind = "temporal" -> DecodeTemporalOrState(codec, edt)
      [] codec.kind = "numericValue" -> DecodeNumericValue(codec, edt)
      [] codec.kind = "binary" -> DecodeBinary(codec, edt)
      [] codec.kind = "enum" -> DecodeEnum(codec, edt)
      [] codec.kind = "numeric" -> DecodeNumeric(codec, edt, factors)
      [] codec.kind = "location" -> DecodeLocation(edt)

Coefficients(codec) == IF codec.kind = "numeric" THEN codec.coefficients ELSE <<>>

(* The value of a coefficient, which is decoded without a context of its    *)
(* own, and so without its own coefficients.                                *)
Factor(coefficient, context) ==
    IF context = None THEN None
    ELSE IF coefficient.epc \notin DOMAIN context THEN None
    ELSE LET own == Coefficients(coefficient.codec)
             value == DecodeWith(coefficient.codec, context[coefficient.epc],
                                 [i \in DOMAIN own |-> None])
         IN  IF value = None THEN None
             ELSE IF "num" \notin DOMAIN value THEN None ELSE value

(* codec.decode(edt, context); context maps EPCs to EDTs, or is None.       *)
Decode(codec, edt, context) ==
    LET own == Coefficients(codec) IN
    DecodeWith(codec, edt, [i \in DOMAIN own |-> Factor(own[i], context)])

(* codec.encode(value) *)
Encode(codec, value) ==
    CASE codec.kind = "temporal" -> EncodeTemporalOrState(codec, value)
      [] codec.kind = "numericValue" -> EncodeNumericValue(codec, value)
      [] codec.kind = "binary" -> EncodeBinary(codec, value)
      [] codec.kind = "enum" -> EncodeEnum(codec, value)
      [] codec.kind = "numeric" -> EncodeNumeric(codec, value)
      [] codec.kind = "location" -> EncodeLocation(value)

-----------------------------------------------------------------------------
(* The values of each kind of codec, which None is not.                     *)
StateValues == [key : STRING]
BinaryValues == [on : BOOLEAN]
LocationValues == [code : Int, instance : Int]
TemporalValues ==
    StateValues \cup DateValues \cup ClockValues \cup DateTimeValues \cup DurationValues

ValuesFor(codec) ==
    CASE codec.kind = "temporal" -> TemporalValues
      [] codec.kind = "enum" -> StateValues
      [] codec.kind = "binary" -> BinaryValues
      [] codec.kind = "location" -> LocationValues
      [] OTHER -> Numbers

ASSUME ValuesAssumption ==
    None \notin TemporalValues \cup BinaryValues \cup LocationValues \cup Numbers

(* What every generated definition keeps to: no EDT and no value is listed  *)
(* twice, and no state of a temporal property is also a normal value.       *)
RegularStates(states) ==
    /\ states \in Seq([edt : Nat, key : STRING])
    /\ \A i, j \in DOMAIN states :
          i # j => states[i].edt # states[j].edt /\ states[i].key # states[j].key

RegularNumbers(numbers) ==
    /\ numbers \in Seq([edt : Byte, value : Numbers])
    /\ \A i, j \in DOMAIN numbers :
          i # j => /\ numbers[i].edt # numbers[j].edt
                   /\ ~SameNumber(numbers[i].value, numbers[j].value)

RegularTemporal(temporal, states) ==
    /\ temporal \in [kind : {"date", "clock", "datetime", "duration"},
                     size : 2..7, maximum_hour : 0..255]
    /\ TemporalDefinition(temporal.kind, temporal.size, temporal.maximum_hour) # None
    /\ \A i \in DOMAIN states :
          LET edt == ToBytes(states[i].edt, temporal.size) IN
          edt # None =>
              /\ DecodeTemporal(temporal, edt) = None
              /\ \A j \in DOMAIN states \ {i} : ToBytes(states[j].edt, temporal.size) # edt

IsRegular(entity) ==
    /\ entity.byte_offset \in Nat
    /\ RegularStates(entity.enum_values)
    /\ entity.numeric_values # None => RegularNumbers(entity.numeric_values)
    /\ entity.temporal # None => RegularTemporal(entity.temporal, entity.enum_values)
    /\ entity.format # None => entity.format \in DOMAIN Formats
    /\ entity.multiple_of \in [num : Nat \ {0}, den : Nat \ {0}]
    /\ entity.minimum \in Int \cup {None} /\ entity.maximum \in Int \cup {None}

ASSUME RegistryAssumption ==
    \A class \in DOMAIN Entities :
        /\ DOMAIN Entities[class] \subseteq Nat
        /\ \A i \in DOMAIN Entities[class] : IsRegular(Entities[class][i])
============================================================================
