-------------------------------- MODULE Bytes --------------------------------
(***************************************************************************)
(* Bytes and the integers they stand for, for the modules about the wire.  *)
(* None is Python's None, and stands for an error where the code raises one. *)
(***************************************************************************)
EXTENDS Integers, SequencesExt

CONSTANT None

Byte == 0..255
Word == 0..65535

(* None is neither bytes nor a number. *)
ASSUME NoneAssumption == None \notin Seq(Byte) \cup Int

(* int.from_bytes(edt, "big") *)
FromBytes(edt) ==
    LET number[i \in 0..Len(edt)] == IF i = 0 THEN 0 ELSE 256 * number[i - 1] + edt[i]
    IN  number[Len(edt)]

(* n.to_bytes(size, "big"); None is the OverflowError *)
ToBytes(n, size) ==
    IF n \in 0 .. 2 ^ (8 * size) - 1
    THEN [i \in 1..size |-> (n \div 256 ^ (size - i)) % 256]
    ELSE None
=============================================================================
