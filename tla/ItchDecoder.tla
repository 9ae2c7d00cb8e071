---------------------------- MODULE ItchDecoder ----------------------------
(***************************************************************************)
(* The stateful ITCH decoder (src/src/market_data/itch_decoder.cpp) of one *)
(* ticker.  order_ref_map_[ticker] is a vector of OrderState indexed by    *)
(* the order reference; only its size and the quantities decide what the   *)
(* decoder does, so it is a sequence of quantities: slot[ref] is           *)
(* OrderState::qty, Len(slot) the vector's size.  Sides and prices are     *)
(* copied through and left out.                                            *)
(*                                                                         *)
(* A message is [type, ref, new_ref, qty], the fields of the ITCH structs. *)
(***************************************************************************)
EXTENDS Integers, Sequences

Message(type, ref, new_ref, qty) ==
    [type |-> type, ref |-> ref, new_ref |-> new_ref, qty |-> qty]

\* The vector holds the reference and the order still has a quantity.
Tracks(slot, ref) == ref <= Len(slot) /\ slot[ref] # 0

\* slot.resize(ref + 1) when the vector is too short: new entries have qty 0.
Resized(slot, ref) ==
    [r \in 1..(IF Len(slot) < ref THEN ref ELSE Len(slot)) |->
        IF r <= Len(slot) THEN slot[r] ELSE 0]

\* What decode() returns once a whole frame is there: an add always decodes, a
\* system event never, and any other message only when its order is tracked.
Decodes(slot, msg) ==
    \/ msg.type = "ADD"
    \/ /\ msg.type \in {"EXECUTE", "CANCEL", "DELETE", "REPLACE"}
       /\ Tracks(slot, msg.ref)

DecodeAddOrder(slot, msg) == [Resized(slot, msg.ref) EXCEPT ![msg.ref] = msg.qty]

\* decodeOrderExecuted and decodeOrderCancel change the state in the same way.
DecodeReduce(slot, msg) ==
    [slot EXCEPT ![msg.ref] = IF msg.qty >= @ THEN 0 ELSE @ - msg.qty]

DecodeOrderDelete(slot, msg) == [slot EXCEPT ![msg.ref] = 0]

\* decodeOrderReplace keeps a reference into the vector across slot.resize().
\* When the resize moves the storage the final state.qty = 0 is written to
\* freed memory and the old order stays tracked: `moved` is that outcome.
DecodeOrderReplace(slot, msg, moved) ==
    LET added == [Resized(slot, msg.new_ref) EXCEPT ![msg.new_ref] = msg.qty]
    IN  IF moved /\ Len(slot) < msg.new_ref
        THEN added
        ELSE [added EXCEPT ![msg.ref] = 0]

\* The decoder's state after a message that Decodes.
Decoded(slot, msg, moved) ==
    CASE msg.type = "ADD" -> DecodeAddOrder(slot, msg)
      [] msg.type \in {"EXECUTE", "CANCEL"} -> DecodeReduce(slot, msg)
      [] msg.type = "DELETE" -> DecodeOrderDelete(slot, msg)
      [] msg.type = "REPLACE" -> DecodeOrderReplace(slot, msg, moved)

=============================================================================
