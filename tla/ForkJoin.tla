------------------------------- MODULE ForkJoin -------------------------------
(***************************************************************************)
(* What harness_run_parallel promises harness_run: N instances each end     *)
(* with an outcome of their own, and the call ends once.  It succeeds only  *)
(* with the outcome of every instance, each attributed to the instance that *)
(* produced it, and it fails only if some instance did not deliver a good   *)
(* outcome or the parent ran out of memory.                                 *)
(***************************************************************************)
EXTENDS Integers

CONSTANTS
  N,          (* num_instances                                              *)
  OkResults,  (* results of instances that returned 0                       *)
  Fail,       (* the result of an instance that returned an error           *)
  None,       (* no result                                                  *)
  Lost        (* the outcome of an instance that crashed or never started   *)

Inst == 0..N-1

VARIABLES
  outcome,    (* of each instance: a result, None or Lost                   *)
  resources,  (* the parent has the memory it asked for                     *)
  verdict,    (* "none" until the call returns, then "ok" or "error"        *)
  delivered   (* what a successful call hands to the statistics             *)

vars == << outcome, resources, verdict, delivered >>

Init ==
  /\ outcome = [c \in Inst |-> None]
  /\ resources = TRUE
  /\ verdict = "none"
  /\ delivered = [c \in Inst |-> None]

Produce(c) ==
  /\ outcome[c] = None
  /\ \E r \in OkResults \cup {Fail} : outcome' = [outcome EXCEPT ![c] = r]
  /\ UNCHANGED << resources, verdict, delivered >>

(* One or several instances are lost, their results with them.  A parent    *)
(* that ran out of memory may cause it.                                     *)
Lose(S) ==
  /\ outcome' = [c \in Inst |-> IF c \in S THEN Lost ELSE outcome[c]]
  /\ UNCHANGED << resources, verdict, delivered >>

RunOut ==
  /\ verdict = "none"
  /\ resources' = FALSE
  /\ UNCHANGED << outcome, verdict, delivered >>

Succeed ==
  /\ verdict = "none"
  /\ \A c \in Inst : outcome[c] \in OkResults
  /\ verdict' = "ok"
  /\ delivered' = outcome
  /\ UNCHANGED << outcome, resources >>

GiveUp ==
  /\ verdict = "none"
  /\ ~resources \/ \E c \in Inst : outcome[c] \notin OkResults
  /\ verdict' = "error"
  /\ UNCHANGED << outcome, resources, delivered >>

Next ==
  \/ \E c \in Inst : Produce(c)
  \/ \E S \in SUBSET Inst : Lose(S)
  \/ RunOut
  \/ Succeed
  \/ GiveUp

Spec == Init /\ [][Next]_vars

(* A successful call is final and complete.                                 *)
CompleteDelivery ==
  verdict = "ok" => \A c \in Inst : delivered[c] \in OkResults
=============================================================================
