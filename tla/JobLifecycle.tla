---------------------------- MODULE JobLifecycle ----------------------------
(***************************************************************************)
(* What the asynchronous job service promises of one job record: it is     *)
(* created queued (POST /api/jobs) or already succeeded (POST              *)
(* /api/calculate keeps its answer as a record), it is picked up once, it  *)
(* settles once, and only a settled record is ever forgotten.  A settled   *)
(* record never becomes active again and never changes its outcome, with   *)
(* one exception that needs a failing store: an outcome whose write was    *)
(* committed but not confirmed to the worker may be taken back, once, and  *)
(* only for "failed".                                                      *)
(*                                                                         *)
(* The jobs of one step are a set, because one UPDATE or one DELETE        *)
(* statement of the store settles or forgets several records.              *)
(***************************************************************************)
CONSTANTS
  Job,            \* identifiers a record may be stored under
  StoreMayFail    \* may the store fail to confirm a write?

VARIABLES
  phase,          \* phase[j]: what the ledger says of job j
  unconfirmed     \* settled jobs whose worker did not see its write confirmed

vars == <<phase, unconfirmed>>

Settled == {"succeeded", "failed", "cancelled"}
Phases == {"absent", "queued", "running"} \cup Settled

Init == phase = [j \in Job |-> "absent"] /\ unconfirmed = {}

Move(S, to) == phase' = [j \in Job |-> IF j \in S THEN to ELSE phase[j]]

(* A record enters the ledger. *)
Accept(j) == phase[j] = "absent" /\ Move({j}, "queued") /\ UNCHANGED unconfirmed
Archive(j) == phase[j] = "absent" /\ Move({j}, "succeeded") /\ UNCHANGED unconfirmed

(* A worker picks the job up. *)
PickUp(j) == phase[j] = "queued" /\ Move({j}, "running") /\ UNCHANGED unconfirmed

(* A job that was never picked up can only fail or be cancelled. *)
Settle(S, outcome) ==
  /\ \A j \in S : phase[j] \in {"queued", "running"}
  /\ outcome = "succeeded" => \A j \in S : phase[j] = "running"
  /\ Move(S, outcome)
  /\ UNCHANGED unconfirmed

(* A worker settles its job and the store does not confirm it ... *)
SettleUnconfirmed(j, outcome) ==
  /\ StoreMayFail
  /\ phase[j] = "running"
  /\ outcome # "failed"
  /\ Move({j}, outcome)
  /\ unconfirmed' = unconfirmed \cup {j}

(* ... so that it reports the job failed, over the outcome it had ... *)
Retract(j) ==
  /\ j \in unconfirmed
  /\ Move({j}, "failed")
  /\ unconfirmed' = unconfirmed \ {j}

(* ... unless that fails too, or the worker dies. *)
Confirm(S) ==
  /\ S \subseteq unconfirmed
  /\ unconfirmed' = unconfirmed \ S
  /\ UNCHANGED phase

Forget(S) ==
  /\ \A j \in S : phase[j] \in Settled
  /\ Move(S, "absent")
  /\ unconfirmed' = unconfirmed \ S

Next ==
  \/ \E j \in Job : Accept(j) \/ Archive(j) \/ PickUp(j) \/ Retract(j)
  \/ \E j \in Job : \E outcome \in Settled : SettleUnconfirmed(j, outcome)
  \/ \E S \in SUBSET Job : \E outcome \in Settled : Settle(S, outcome)
  \/ \E S \in SUBSET Job : Forget(S) \/ Confirm(S)

Spec == Init /\ [][Next]_vars
=============================================================================
