------------------------------- MODULE Values -------------------------------
(***************************************************************************)
(* The conversions, with the pure functions whose data are definitions of  *)
(* lists and fields: a page of a paged list, and the SetC of the range     *)
(* recovery.                                                               *)
(***************************************************************************)
EXTENDS StructuredValues, Conversions

CONSTANTS
    Lists,             \* [class, epc]: the paged lists
    PagesOf(_),        \* the EDTs tried for a list
    NodeStates         \* [class, properties]: the nodes recovered

(* decode_collection_page *)
ReadPage ==
    /\ call = None
    /\ \E list \in Lists : \E edt \in PagesOf(list) :
          call' = Call("page", [list |-> list, edt |-> edt],
                       DecodePage(list.class, list.epc, edt, None))

(* The SetC of the range recovery. *)
RecoverRanges ==
    /\ call = None
    /\ \E node \in NodeStates, attempted \in SUBSET {180, 187} :
          call' = Call("recover", [node |-> node, attempted |-> attempted],
                       RecoveryProperties(node.class, node.properties, attempted))

Next == Convert \/ ReadPage \/ RecoverRanges

Spec == Init /\ [][Next]_call

-----------------------------------------------------------------------------
(* A page is there exactly if its header numbers the items that follow.     *)
PageIsItsBytes(list, edt, page) ==
    (page # None) <=>
        /\ StructuredValue(list.class, list.epc) # None /\ Len(edt) >= 2
        /\ edt[1] \in 1..252 /\ edt[2] \in 1..60 /\ Len(edt) = 2 + 4 * edt[2]
        /\ IF page = None THEN TRUE
           ELSE page.start = edt[1] /\ page.count = edt[2] /\ page.count = Len(page.items)

(* The recovery selects a range for each list that has none, once, that the *)
(* node has items for and whose page will be decoded.                       *)
RecoverySelectsPages(node, attempted, selected) ==
    /\ \A i \in DOMAIN selected : selected[i].epc \notin attempted
    /\ \A binding \in ToSet(BindingsOf(node.class)) :
          LET own == SelectSeq(selected, LAMBDA p : p.epc = binding.selector_epc)
              count == CountOf(node.properties, binding)
          IN  /\ Len(own) <= 1
              /\ IsUnset(node.properties, binding) /\ count > 0
                    /\ binding.selector_epc \notin attempted => own # <<>>
              /\ \A i \in DOMAIN own :
                    LET range == own[i].edt[2]
                        answer == own[i].edt \o [n \in 1..4 * range |-> 0]
                    IN  /\ own[i].edt[1] = 1 /\ range \in 1..count
                        /\ ~IsUnset(binding.result_epc :> answer, binding)
                        /\ StructuredValue(node.class, binding.result_epc) # None =>
                              DecodePage(node.class, binding.result_epc, answer, None) # None

(* A page whose header and items disagree is no page; the range recovery    *)
(* selects only ranges that the node has and whose page is readable, once   *)
(* each.  (codecs.py decode_collection_page, device_manager.py              *)
(* _collection_range_recovery_properties)                                   *)
PagesAreTheirBytes ==
    call # None =>
        /\ call.op = "page" => PageIsItsBytes(call.arg.list, call.arg.edt, call.result)
        /\ call.op = "recover" =>
               RecoverySelectsPages(call.arg.node, call.arg.attempted, call.result)
=============================================================================
