-------------------------- MODULE StructuredValues --------------------------
(***************************************************************************)
(* The recursive decoder of codecs.py for properties that hold lists and   *)
(* named fields, the pages of paged lists, and the SetC that selects the   *)
(* range of such a list (device_manager.py).                               *)
(***************************************************************************)
EXTENDS ValueCodecs, TLC

(* The width of a value, or None if it has no fixed one (ValueError). *)
RECURSIVE ByteSize(_)
ByteSize(definition) ==
    CASE definition.kind = "scalar" -> definition.size
      [] definition.kind = "array" -> None
      [] definition.kind = "oneOf" ->
           LET sizes == {ByteSize(option) : option \in ToSet(definition.options)} IN
           IF \E size \in sizes : sizes = {size} THEN CHOOSE size \in sizes : TRUE ELSE None
      [] definition.kind = "object" ->
           FoldLeft(LAMBDA sum, field :
                        LET size == ByteSize(field.value) IN
                        IF None \in {sum, size} THEN None ELSE sum + size,
                    0, definition.fields)

(* The widths _fixed_size_options tries, in order; None is the ValueError. *)
FixedSizes(definition) ==
    LET options == IF definition.kind = "oneOf" THEN definition.options ELSE <<definition>>
        sizes == [i \in DOMAIN options |-> ByteSize(options[i])]
    IN  IF None \in ToSet(sizes) THEN None ELSE sizes

(* A number, whose coefficients may have no codecs. *)
DecodeScaled(definition, coefficients, chunk, context) ==
    IF coefficients = None THEN None
    ELSE Decode(NumericCodec(definition, 0, coefficients), chunk, context)

DecodeScalar(definition, chunk, context, class) ==
    IF Len(chunk) # definition.size THEN None
    ELSE IF definition.numeric_values # None
    THEN DecodeNumericValue([numeric_values |-> definition.numeric_values, byte_offset |-> 0], chunk)
    ELSE IF definition.enum_values # <<>>
    THEN LET hits == SelectSeq(definition.enum_values, LAMBDA e : e.edt = FromBytes(chunk)) IN
         IF hits = <<>> THEN None ELSE [key |-> hits[1].key]
    ELSE IF definition.format # None
    THEN DecodeScaled(definition, CoefficientCodecs(definition.coefficient_epcs, class),
                      chunk, context)
    ELSE [bytes |-> chunk]

(* chunk[from:to] *)
Slice(chunk, from, to) == SubSeq(chunk, from + 1, to)

RECURSIVE DecodeValue(_, _, _, _)

(* A list: a whole number of items, and not too few or too many of them. *)
DecodeArray(definition, chunk, context, class) ==
    LET size == definition.item_size
        count == Len(chunk) \div size
    IN  IF \/ size <= 0
           \/ Len(chunk) % size # 0
           \/ definition.max_items # None /\ count > definition.max_items
           \/ definition.min_items # None /\ count < definition.min_items
        THEN None
        ELSE [items |-> [i \in 1..count |->
                  DecodeValue(definition.item, Slice(chunk, (i - 1) * size, i * size), context, class)]]

DecodeOneOf(definition, chunk, context, class) ==
    LET results == [i \in DOMAIN definition.options |->
                        DecodeValue(definition.options[i], chunk, context, class)]
        hits == SelectSeq(results, LAMBDA r : r # None)
    IN  IF hits = <<>> THEN None ELSE hits[1]

(* decode_fields: the fields from the i-th on, from cursor on, as a dict.   *)
(* The first width that lets the rest of the fields fit is taken, whether   *)
(* or not the field's own bytes mean anything.  A list is the last field    *)
(* and takes what is left.                                                  *)
RECURSIVE DecodeFields(_, _, _, _, _, _)
DecodeFields(fields, i, cursor, chunk, context, class) ==
    IF i > Len(fields) THEN IF cursor = Len(chunk) THEN <<>> ELSE None
    ELSE IF fields[i].value.kind = "array"
    THEN LET value == DecodeValue(fields[i].value, Slice(chunk, cursor, Len(chunk)), context, class)
         IN  IF i # Len(fields) \/ value = None THEN None ELSE fields[i].key :> value
    ELSE LET sizes == FixedSizes(fields[i].value)
             Rest(size) == IF cursor + size > Len(chunk) THEN None
                           ELSE DecodeFields(fields, i + 1, cursor + size, chunk, context, class)
             fitting == IF sizes = None THEN <<>>
                        ELSE SelectSeq(sizes, LAMBDA size : Rest(size) # None)
         IN  IF fitting = <<>> THEN None
             ELSE LET part == Slice(chunk, cursor, cursor + fitting[1]) IN
                  (fields[i].key :> DecodeValue(fields[i].value, part, context, class))
                      @@ Rest(fitting[1])

(* decode_property_value *)
DecodeValue(definition, chunk, context, class) ==
    CASE definition.kind = "scalar" -> DecodeScalar(definition, chunk, context, class)
      [] definition.kind = "oneOf" -> DecodeOneOf(definition, chunk, context, class)
      [] definition.kind = "array" -> DecodeArray(definition, chunk, context, class)
      [] definition.kind = "object" ->
           LET fields == DecodeFields(definition.fields, 1, 0, chunk, context, class) IN
           IF fields = None THEN None ELSE [fields |-> fields]

-----------------------------------------------------------------------------
(* Paged lists.                                                             *)

(* _get_path: None as soon as a step is missing. *)
GetPath(value, path) ==
    FoldLeft(LAMBDA node, key :
                 IF node = None THEN None
                 ELSE IF "fields" \notin DOMAIN node THEN None
                 ELSE IF key \notin DOMAIN node.fields THEN None
                 ELSE node.fields[key],
             value, path)

IsInt(value) == IF value = None THEN FALSE ELSE "num" \in DOMAIN value /\ value.den = 1

(* Mutant of DecodeCollection: the declared count is not compared. *)
DecodeCollectionUnchecked(binding, value) ==
    LET items == GetPath(value, binding.items_path)
        start == GetPath(value, binding.start_path)
        count == GetPath(value, binding.page_count_path)
    IN  IF items = None \/ ~IsInt(start) \/ ~IsInt(count) THEN None
        ELSE [start |-> start.num, count |-> count.num, items |-> items.items]

(* _decode_collection: a page that has no value, or whose header does not   *)
(* match, is no page.                                                       *)
DecodeCollection(binding, value) ==
    LET items == GetPath(value, binding.items_path)
        start == GetPath(value, binding.start_path)
        count == GetPath(value, binding.page_count_path)
    IN  IF items = None \/ ~IsInt(start) \/ ~IsInt(count) THEN None
        ELSE IF "items" \notin DOMAIN items THEN None
        ELSE IF count.num # Len(items.items) THEN None
        ELSE [start |-> start.num, count |-> count.num, items |-> items.items]

StructuredValue(class, epc) ==
    IF class \notin DOMAIN StructuredDefs THEN None
    ELSE IF epc \notin DOMAIN StructuredDefs[class] THEN None ELSE StructuredDefs[class][epc]

BindingsOf(class) == IF class \in DOMAIN CollectionBindings THEN CollectionBindings[class] ELSE <<>>

BindingOf(class, epc) ==
    LET hits == SelectSeq(BindingsOf(class), LAMBDA b : b.result_epc = epc) IN
    IF hits = <<>> THEN None ELSE hits[1]

(* decode_collection_page *)
DecodePage(class, epc, edt, context) ==
    LET definition == StructuredValue(class, epc)
        binding == BindingOf(class, epc)
    IN  IF None \in {definition, binding} THEN None
        ELSE DecodeCollection(binding, DecodeValue(definition, edt, context, class))

Undefined == 253

(* The count of items of which a range can be selected, or 0. *)
CountOf(properties, binding) ==
    LET edt == IF binding.count_epc \in DOMAIN properties
               THEN properties[binding.count_epc] ELSE <<>>
    IN  IF Len(edt) # 1 THEN 0 ELSE IF edt[1] \in 1..252 THEN edt[1] ELSE 0

(* The result says that no range is selected. *)
IsUnset(properties, binding) ==
    LET edt == IF binding.result_epc \in DOMAIN properties
               THEN properties[binding.result_epc] ELSE <<>>
    IN  Len(edt) >= 2 /\ Undefined \in {edt[1], edt[2]}

Smaller(a, b) == IF a < b THEN a ELSE b

(* _collection_range_recovery_properties: what a SetC selects for the lists *)
(* that have no range and for which none was tried yet.                     *)
RecoveryProperties(class, properties, attempted) ==
    LET recoverable == SelectSeq(BindingsOf(class), LAMBDA b :
            /\ None \notin {b.selector_epc, b.count_epc, b.max_range}
            /\ b.selector_epc \notin attempted
            /\ IsUnset(properties, b)
            /\ CountOf(properties, b) # 0
            /\ Smaller(b.max_range, CountOf(properties, b)) \in 1..255)
    IN  [i \in DOMAIN recoverable |->
            [epc |-> recoverable[i].selector_epc,
             edt |-> <<1, Smaller(recoverable[i].max_range, CountOf(properties, recoverable[i]))>>]]
=============================================================================
