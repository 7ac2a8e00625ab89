-------------------------- MODULE RequestContract --------------------------
(***************************************************************************)
(* What a caller of nodeClient.request may rely on, without saying how the *)
(* members are tried: the request is settled once; it is settled with a    *)
(* response only if that response comes from a candidate that had not      *)
(* refused before; it is reported as failed only when every candidate has  *)
(* refused; and it may run out of its time budget at any moment.           *)
(***************************************************************************)
EXTENDS Naturals

CONSTANT N                \* number of candidate members handed to the request

VARIABLES outcome,        \* "pending", "answered", "failed" or "timeout"
          winner,         \* the candidate whose response is returned, 0 if none
          refused         \* the candidates known to have failed or declined

vars == <<outcome, winner, refused>>

Candidate == 1..N

Init ==
  /\ outcome = "pending"
  /\ winner = 0
  /\ refused = {}

Refuse(i) ==
  /\ outcome = "pending"
  /\ refused' = refused \cup {i}
  /\ UNCHANGED <<outcome, winner>>

Answer(i) ==
  /\ outcome = "pending"
  /\ i \notin refused
  /\ outcome' = "answered"
  /\ winner' = i
  /\ UNCHANGED refused

Fail ==
  /\ outcome = "pending"
  /\ refused = Candidate
  /\ outcome' = "failed"
  /\ UNCHANGED <<winner, refused>>

Expire ==
  /\ outcome = "pending"
  /\ outcome' = "timeout"
  /\ UNCHANGED <<winner, refused>>

Next ==
  \/ \E i \in Candidate : Refuse(i) \/ Answer(i)
  \/ Fail
  \/ Expire

Spec == Init /\ [][Next]_vars
=============================================================================
