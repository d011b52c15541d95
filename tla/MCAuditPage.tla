---------------------------- MODULE MCAuditPage ----------------------------
(* A TLC instance of AuditPage, and under it of Moderation: one report of   *)
(* each of two users, the older one about to leave the window.              *)
EXTENDS AuditPage
CONSTANTS m1, eve, dan
OldReports == <<[reporter |-> eve, at |-> -1], [reporter |-> dan, at |-> 0]>>
NewReports == {[reporter |-> eve, at |-> 0]}
=============================================================================
