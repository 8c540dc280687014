-------------------------- MODULE MCApprovalBroker --------------------------
(* Who asks under which id: a single requester, or two under one
   id, as the approvals of a budget do (budget:<budget id>). *)
EXTENDS ApprovalBroker

SharedId == [r1 |-> "i1", r2 |-> "i1"]
SingleId == [r1 |-> "i1"]
=============================================================================
