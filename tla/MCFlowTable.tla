---------------------------- MODULE MCFlowTable ----------------------------
(* Two blocks and three keys, so that full tables, re-insertions and the reuse
   of purged blocks all occur.  The data table is keyed by flows, the
   controller's among them; the control table by addresses and holds the
   node's own from the start. *)
EXTENDS FlowTable

CONSTANTS fc, f1, f2, me, n1, n2

DataKeys == {fc, f1, f2}
DataRewritten == {"FORWARD"}
DataSpared == {fc}
ControlKeys == {me, n1, n2}
ControlInitial == {me}
Neighbors == {me, n1}
Lost == {n1}
None == {}
=============================================================================
