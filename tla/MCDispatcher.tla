---------------------------- MODULE MCDispatcher ----------------------------
(***************************************************************************)
(* Instances of Dispatcher for TLC.  The offers hold two findings of equal *)
(* severity, one more severe, and in another module one below MinSeverity,  *)
(* whose resolution passes.                                                *)
(***************************************************************************)
EXTENDS Dispatcher

CONSTANTS m1, m2, f1, f2, f3

MCOffers ==
  { [kind |-> "opened",   module |-> m1, fp |-> f1, sev |-> "medium"],
    [kind |-> "opened",   module |-> m1, fp |-> f2, sev |-> "medium"],
    [kind |-> "opened",   module |-> m1, fp |-> f3, sev |-> "critical"],
    [kind |-> "opened",   module |-> m2, fp |-> f1, sev |-> "low"],
    [kind |-> "resolved", module |-> m2, fp |-> f1, sev |-> "low"] }
=============================================================================
