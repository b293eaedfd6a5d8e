---------------------------- MODULE RunContract ----------------------------
(***************************************************************************)
(* What one workflow run promises, whatever graph it walks: the verdict is *)
(* given at most once, COMPLETED only when no activation is left in flight *)
(* and nothing broke, FAILED only when something broke.  A cancellation    *)
(* may overwrite the status column at any time and stops nothing: that is  *)
(* the most WorkflowsService.cancelRun does.                               *)
(***************************************************************************)

VARIABLES
  status,   \* the status column of the run's row
  open,     \* activations in flight (a set)
  broken,   \* some activation, or the completing write, was rejected
  verdict   \* what the runner has decided: "NONE", "COMPLETED" or "FAILED"

vars == <<status, open, broken, verdict>>

Init ==
  /\ status = "PENDING"
  /\ open = {}
  /\ broken = FALSE
  /\ verdict = "NONE"

(* The runner takes the run up: the status is overwritten, whatever it is. *)
Begin ==
  /\ verdict = "NONE" /\ open = {} /\ ~broken
  /\ status' = "RUNNING"
  /\ open' # {}
  /\ UNCHANGED <<broken, verdict>>

(* An activation advances, forks, settles or breaks.  Only activations in  *)
(* flight do so, and breaking is for ever.                                 *)
Work ==
  /\ open # {}
  /\ verdict # "COMPLETED"
  /\ broken => broken'
  /\ UNCHANGED <<status, verdict>>

(* Every activation settled, but the write that says so was rejected.      *)
Break ==
  /\ verdict = "NONE" /\ open = {}
  /\ broken' = TRUE
  /\ UNCHANGED <<status, open, verdict>>

Complete ==
  /\ verdict = "NONE" /\ open = {} /\ ~broken
  /\ verdict' = "COMPLETED" /\ status' = "COMPLETED"
  /\ UNCHANGED <<open, broken>>

Fail ==
  /\ verdict = "NONE" /\ broken
  /\ verdict' = "FAILED" /\ status' = "FAILED"
  /\ UNCHANGED <<open, broken>>

Cancel ==
  /\ status' = "CANCELLED"
  /\ UNCHANGED <<open, broken, verdict>>

Next == Begin \/ Work \/ Break \/ Complete \/ Fail \/ Cancel

Spec == Init /\ [][Next]_vars
=============================================================================
