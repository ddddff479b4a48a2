----------------------------- MODULE MCFlowTable -----------------------------
(* A small instance of FlowTable: one descriptor fewer than clients. *)
EXTENDS FlowTable

CONSTANTS c1, c2, c3, b1, b2
=============================================================================
