------------------------------ MODULE MCValues ------------------------------
(***************************************************************************)
(* Definitions copied from _definitions_generated.py, one of each shape    *)
(* with at most two bytes of number, and the arguments at the edges of     *)
(* what they accept.                                                       *)
(***************************************************************************)
EXTENDS Values

State(edt, key) == EnumValue(edt, key)
OnOff == <<State(48, "true"), State(49, "false")>>
Tenth == Number(1, 10)

Factors ==
    <<NumericValueEntry(0, One), NumericValueEntry(1, Tenth), NumericValueEntry(2, Number(1, 100)),
      NumericValueEntry(3, Number(1, 1000)), NumericValueEntry(4, Number(1, 10000)),
      NumericValueEntry(10, Number(10, 1)), NumericValueEntry(11, Number(100, 1)),
      NumericValueEntry(12, Number(1000, 1)), NumericValueEntry(13, Number(10000, 1))>>

Numeric(epc, format, low, high, scale) ==
    [Entity(epc) EXCEPT !.format = format, !.minimum = low, !.maximum = high, !.multiple_of = scale]

Temporal(epc, kind, size, hours, states) ==
    [Entity(epc) EXCEPT !.temporal = TemporalDefinition(kind, size, hours), !.enum_values = states]

AirConditioner == 304
PanelMeter == 647
FuelCellMeter == 653
LowVoltageMeter == 309

MCEntities ==
    AirConditioner :> <<
        [Entity(128) EXCEPT !.enum_values = OnOff],
        [Entity(176) EXCEPT !.enum_values = <<State(65, "auto"), State(66, "cooling"), State(64, "other")>>],
        Numeric(179, "uint8", 0, 50, One),
        Numeric(191, "int8", -127, 125, Tenth),
        Temporal(145, "clock", 2, 23, <<>>),
        Temporal(152, "date", 4, 23, <<>>)>>
    @@ LowVoltageMeter :> <<
        [Entity(241) EXCEPT !.byte_offset = 1, !.manufacturer_code = 5,
                            !.enum_values = <<State(0, "true"), State(1, "false")>>],
        [Numeric(241, "int8", -127, 125, One) EXCEPT !.byte_offset = 3, !.manufacturer_code = 5]>>
    @@ PanelMeter :> <<[Entity(194) EXCEPT !.numeric_values = Factors]>>
    @@ FuelCellMeter :> <<
        Numeric(216, "uint16", 1, 999, One),
        [Numeric(232, "int16", -32767, 32765, Tenth) EXCEPT !.coefficient_epcs = <<216>>],
        [Numeric(232, "int16", -32767, 32765, Tenth)
            EXCEPT !.coefficient_epcs = <<216>>, !.byte_offset = 2]>>
    @@ 637 :> <<Numeric(225, "int16", 1, 32766, Tenth), Numeric(237, "uint16", 0, 65533, Tenth)>>
    @@ 626 :> <<Temporal(218, "duration", 2, 23, <<State(65535, "limitless")>>)>>
    @@ 979 :> <<Temporal(219, "duration", 2, 255, <<State(65535, "unknown")>>)>>
    @@ 679 :> <<Temporal(205, "datetime", 6, 23, <<>>)>>
    @@ 633 :> <<Temporal(177, "datetime", 7, 23, <<>>)>>

Field(class, epc) == [class |-> class, epc |-> epc, manufacturer |-> None, offset |-> 0]

NarrowFields ==
    {Field(AirConditioner, epc) : epc \in {128, 129, 176, 179, 191, 145, 152}}
    \cup {[Field(LowVoltageMeter, 241) EXCEPT !.manufacturer = 5, !.offset = n] : n \in {1, 3}}
    \cup {Field(PanelMeter, 194), Field(FuelCellMeter, 216)}
    \cup {[Field(FuelCellMeter, 232) EXCEPT !.offset = n] : n \in {0, 2}}
    \cup {Field(637, 225), Field(637, 237), Field(626, 218), Field(979, 219),
          Field(679, 205), Field(633, 177)}

MCEdtsOf(field) ==
    LET temporal == CodecOf(field).kind = "temporal"
        Bytes1 == {<<b>> : b \in 0..255}
        Edge == {0, 1, 23, 24, 59, 60, 127, 128, 252, 255}
    IN  IF ~temporal
        THEN {<<>>} \cup Bytes1 \cup {<<a, b>> : a \in Edge \cup {3, 125, 231}, b \in Edge \cup {231, 232}}
             \cup {<<1, 0, a, b>> : a \in Edge, b \in Edge}
        ELSE {<<>>} \cup {<<a, b>> : a \in Edge, b \in 0..255}
             \cup {<<y, 228, m, d>> : y \in {0, 7}, m \in {0, 2, 4, 12, 13}, d \in {0, 1, 28, 29, 30, 31, 32}}
             \cup {<<7, 231, m, d>> : m \in {2, 12}, d \in {28, 29}}
             \cup {<<7, 228, 2, 29, h, m>> : h \in Edge, m \in Edge}
             \cup {<<7, 228, 2, 29, 23, m, s>> : m \in Edge, s \in Edge}

Times2 == {Clock(h, m, s, exact) : h \in {0, 23}, m \in {0, 59}, s \in {0, 1, 59}, exact \in BOOLEAN}
Dates == {Date(1, 1, 1), Date(2020, 2, 29), Date(9999, 12, 31)}

MCValuesOf(field) ==
    LET codec == CodecOf(field) IN
    CASE codec.kind = "location" ->
            {InstallationLocation(code, instance) : code \in 0..16, instance \in -1..8}
      [] codec.kind = "binary" -> {[on |-> b] : b \in BOOLEAN}
      [] codec.kind = "enum" -> {[key |-> e.key] : e \in ToSet(codec.enum_values)} \cup {[key |-> "other one"]}
      [] codec.kind = "numericValue" ->
            {codec.numeric_values[i].value : i \in DOMAIN codec.numeric_values} \cup {Number(3, 10)}
      [] codec.kind = "numeric" ->
            LET raws == {codec.minimum, codec.maximum, 0, 1, 127, 128, 255, 256, 32767, 32768, -1, -128} IN
            {Number((2 * raw + half) * codec.scale.num, 2 * codec.scale.den) :
                raw \in raws, half \in {-1, 0, 1}}
      [] codec.kind = "temporal" ->
            {[key |-> key] : key \in {"limitless", "unknown"}} \cup Times2 \cup Dates
            \cup {DateTime(date, clock) : date \in Dates, clock \in Times2}
            \cup {Duration(60 * m + s, exact) : m \in {-1, 0, 1, 1439, 1440, 15359, 15360},
                                                s \in {0, 1}, exact \in BOOLEAN}

MCContextsOf(field) ==
    IF field.class # FuelCellMeter THEN {None}
    ELSE {None, 217 :> <<0, 7>>} \cup {216 :> edt : edt \in {<<>>, <<0, 0>>, <<0, 7>>, <<3, 231>>, <<3, 232>>}}

-----------------------------------------------------------------------------
(* Class 0x0287.                                                            *)

Channel(low, high) ==
    OneOfDefinition(<<[ScalarDefinition(1) EXCEPT !.format = "uint8", !.minimum = low, !.maximum = high],
                      [ScalarDefinition(1) EXCEPT !.enum_values = <<State(253, "undefined")>>]>>)

Phase ==
    OneOfDefinition(<<
        [ScalarDefinition(2) EXCEPT !.format = "int16", !.minimum = -32767, !.maximum = 32765,
                                    !.multiple_of = Tenth],
        [ScalarDefinition(2) EXCEPT !.enum_values =
            <<State(32768, "underflow"), State(32767, "overflow"), State(32766, "noData")>>]>>)

Currents ==
    ObjectDefinition(<<
        ObjectField("startChannel", Channel(1, 252)), ObjectField("range", Channel(1, 60)),
        ObjectField("instantaneousCurrent",
            ArrayDefinition(ObjectDefinition(<<ObjectField("rPhase", Phase), ObjectField("tPhase", Phase)>>),
                            4, None, 60))>>)

MCStructuredDefs == PanelMeter :> (181 :> Currents)

MCCollectionBindings ==
    PanelMeter :> <<
        CollectionBinding(179, 177, 178, 60, "electricEnergy", "startChannel", "range"),
        CollectionBinding(181, 177, 180, 60, "instantaneousCurrent", "startChannel", "range"),
        CollectionBinding(183, 177, 182, 60, "instantaneousElectricPower", "startChannel", "range"),
        CollectionBinding(186, 184, 185, 30, "electricEnergy", "startChannel", "range"),
        CollectionBinding(188, 184, 187, 60, "instantaneousCurrent", "startChannel", "range")>>

MCLists == {[class |-> PanelMeter, epc |-> 181], [class |-> PanelMeter, epc |-> 182]}

MCPagesOf(list) ==
    {<<start, range>> \o body : start \in {0, 1, 252, 253}, range \in {0, 1, 2, 60, 61, 253},
        body \in {<<>>, <<0, 1, 128, 0>>, <<127, 254, 0, 0, 127, 255, 128, 1>>, <<0, 1, 2>>,
                  [i \in 1..240 |-> 1], [i \in 1..244 |-> 1]}}
    \cup {<<>>, <<1>>}

MCNodeStates ==
    {[class |-> class, properties |->
        (177 :> <<count>>) @@ (184 :> <<30, 0>>) @@ (181 :> header) @@ (188 :> <<1, 2, 0, 0, 0, 0, 0, 0, 0, 0>>)] :
        class \in {PanelMeter, AirConditioner}, count \in {0, 1, 59, 60, 61, 252, 253},
        header \in {<<>>, <<253>>, <<253, 253>>, <<1, 253>>, <<253, 1>>, <<1, 1, 0, 253, 0, 0>>}}
    \cup {[class |-> PanelMeter, properties |->
            (184 :> <<count>>) @@ (186 :> <<253, 253>>) @@ (188 :> <<253, 253>>)] :
            count \in {0, 1, 30, 31, 61, 252}}

-----------------------------------------------------------------------------
(* Frames.                                                                  *)

AnyFrame(tid, esv, properties) ==
    [tid |-> tid, seoj |-> 77825, deoj |-> 393217, esv |-> esv, properties |-> properties]

Long(n) == Property(224, [i \in 1..n |-> 16])

MCSentFrames ==
    {AnyFrame(tid, ESV.GetRes, <<Property(128, <<48>>)>>) : tid \in {0, 255, 256, 65535, 65536}}
    \cup {AnyFrame(1, ESV.Get, ps) : ps \in {<<>>, <<Property(128, <<>>)>>, <<Long(2), Property(129, <<>>), Long(3)>>,
                                         <<Long(255)>>, <<Long(256)>>, [i \in 1..256 |-> Property(128, <<>>)]}}
    \cup {AnyFrame(1, ESV.Inf, ps) : ps \in {
            <<Property(213, <<1, 1, 48, 1>>)>>,
            <<Property(213, <<2, 1, 48, 1>>), Property(131, <<254, 1>>)>>,
            <<Property(214, <<1, 1, 48, 1, 1, 48, 2>>), Property(213, <<2, 1, 48, 2, 1, 48, 1, 1>>)>>,
            <<Property(214, <<>>), Property(213, <<0>>), Property(131, <<>>)>>}}

(* Frames of at most 40 bytes are cut anywhere, or have a wrong byte. *)
LengthOf(frame) == Len(EncodeFrame(frame))
ShortFrames == {f \in MCSentFrames : IF EncodeFrame(f) = None THEN FALSE ELSE LengthOf(f) <= 40}

MCReceived ==
    UNION {{[frame |-> f, length |-> n, corruption |-> None] : n \in 0 .. LengthOf(f) + 2} \cup
           {[frame |-> f, length |-> LengthOf(f), corruption |-> [position |-> i, byte |-> b]] :
               i \in 1 .. LengthOf(f), b \in {0, 1, 2, 129, 255}} : f \in ShortFrames}
    \cup {[frame |-> AnyFrame(1, ESV.Get, <<Long(255)>>), length |-> n, corruption |-> None] :
            n \in 265..271}

MCMapSets ==
    {128 .. (127 + n) : n \in {0, 1, 15, 16, 17, 127, 128}}
    \cup {{e \in 128..255 : e % 16 = r} : r \in {0, 15}}
    \cup {{128, 129, 131, 161}, {e \in 128..159 : e # 143}}
    \cup {{e \in 128..255 : e % 7 = 3}, {e \in 128..255 : e % 16 = 3} \cup {255}}

MCRequestedEpcs == {128, 176, 179}

MCAnswers ==
    {None} \cup {AnyFrame(1, esv, ps) :
        esv \in {ESV.SetRes, ESV.SetCSna, ESV.Inf, ESV.InfSna},
        ps \in {<<>>} \cup {<<Property(a, x)>> : a \in {128, 224}, x \in {<<>>, <<48>>}}
               \cup {<<Property(a, x), Property(b, y)>> :
                        a \in {128, 176}, b \in {128, 179}, x \in {<<>>, <<48>>}, y \in {<<>>, <<48>>}}}
=============================================================================
