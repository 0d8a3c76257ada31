---------------------------- MODULE Reservation -----------------------------
(***************************************************************************)
(* What "prompt only" video generation promises: an image Job comes with a *)
(* reservation of one video Job, and the reservation is settled once.      *)
(***************************************************************************)
EXTENDS Naturals

CONSTANT Images  \* image Jobs submitted with a reservation

VARIABLES
  state,         \* [Images -> "none", "pending" or a settled state]
  videos         \* [Images -> Nat]: video Jobs submitted for the reservation

vars == <<state, videos>>

Init ==
  /\ state = [i \in Images |-> "none"]
  /\ videos = [i \in Images |-> 0]

Reserve(i) ==
  /\ state[i] = "none"
  /\ state' = [state EXCEPT ![i] = "pending"]
  /\ UNCHANGED videos

\* The video Job and the new state are one transaction.
Submit(i) ==
  /\ state[i] = "pending"
  /\ state' = [state EXCEPT ![i] = "submitted"]
  /\ videos' = [videos EXCEPT ![i] = @ + 1]

GiveUp(i) ==
  /\ state[i] = "pending"
  /\ \E s \in {"skipped", "failed"} : state' = [state EXCEPT ![i] = s]
  /\ UNCHANGED videos

Next == \E i \in Images : Reserve(i) \/ Submit(i) \/ GiveUp(i)

Spec == Init /\ [][Next]_vars
=============================================================================
