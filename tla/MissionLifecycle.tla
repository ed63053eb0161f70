-------------------------- MODULE MissionLifecycle --------------------------
(***************************************************************************)
(* What an operator may rely on about the execution of a mission, with the *)
(* link to PX4, the clocks and the safety conditions removed: OFFBOARD is  *)
(* asked for only while the mission is entering, at most MaxAttempts times *)
(* for one start, and an execution that ended is not resumed without a new *)
(* start.                                                                  *)
(***************************************************************************)
EXTENDS Naturals

CONSTANT MaxAttempts

VARIABLES
  execution,  \* what the dashboard shows
  asked       \* OFFBOARD requests sent for the present start

Ended == {"idle", "blocked", "aborted"}
Active == {"entering", "running", "stopping"}

Init == execution = "idle" /\ asked = 0

(* An operator's start, which sends the first request. *)
Start == /\ execution \in Ended
         /\ execution' = "entering"
         /\ asked' = 1

(* A start that is aborted in the frame that accepted it. *)
StartAborted == /\ execution \in Ended
                /\ execution' = "aborted"
                /\ asked' = 1

Retry == /\ execution = "entering"
         /\ asked < MaxAttempts
         /\ asked' = asked + 1
         /\ UNCHANGED execution

Enter == execution = "entering" /\ execution' = "running" /\ UNCHANGED asked

(* Anything that ends an execution, or restates why there is none. *)
End == /\ execution' \in Ended
       /\ UNCHANGED asked

Stop == /\ execution' = "stopping"
        /\ UNCHANGED asked

Next == Start \/ StartAborted \/ Retry \/ Enter \/ End \/ Stop

Spec == Init /\ [][Next]_<<execution, asked>>
=============================================================================
