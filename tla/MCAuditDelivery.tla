-------------------------- MODULE MCAuditDelivery --------------------------
(* AuditDelivery for TLC: events, and sinks, are interchangeable. *)
EXTENDS AuditDelivery, TLC

Symmetry == Permutations(Events) \cup Permutations(Sinks)
=============================================================================
