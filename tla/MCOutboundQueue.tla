-------------------------- MODULE MCOutboundQueue --------------------------
(* OutboundQueue with items of one and two bytes.                          *)
EXTENDS OutboundQueue

MCSize(item) == IF item.kind \in {"snapshot", "huge"} THEN 2 ELSE 1
=============================================================================
