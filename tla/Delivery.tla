------------------------------- MODULE Delivery -------------------------------
(***************************************************************************)
(* What a message request promises to the one who makes it, whatever the   *)
(* controller that carries it out goes through: it is taken up once, a     *)
(* receiver gets one message, and one more only for every attempt whose    *)
(* result could not be stored; the result is final; and the result of a    *)
(* single attempt tells whether anybody was reached.                       *)
(***************************************************************************)
EXTENDS Naturals

CONSTANTS
    Requests,   \* names of message requests
    Receivers,  \* those who can be written to
    Most        \* counters stop here

VARIABLES
    stage,      \* of a request: its phase, "Absent" while there is none
    allowed,    \* how many messages a receiver may have got by now
    copies      \* how many it has got

vars == <<stage, allowed, copies>>

Results == {"Sent", "PartialFailure", "Failed"}

More(n) == IF n < Most THEN n + 1 ELSE n

Reached(r) == {v \in Receivers : copies[r][v] > 0}

Init ==
    /\ stage = [r \in Requests |-> "Absent"]
    /\ allowed = [r \in Requests |-> 0]
    /\ copies = [r \in Requests |-> [v \in Receivers |-> 0]]

(* The request is made, and may be withdrawn at any time. *)
Ask(r) ==
    /\ stage[r] = "Absent"
    /\ stage' = [stage EXCEPT ![r] = "Pending"]
    /\ allowed' = [allowed EXCEPT ![r] = 0]
    /\ copies' = [copies EXCEPT ![r] = [v \in Receivers |-> 0]]

Withdraw(r) ==
    /\ stage' = [stage EXCEPT ![r] = "Absent"]
    /\ allowed' = [allowed EXCEPT ![r] = 0]
    /\ UNCHANGED copies

TakeUp(r) ==
    /\ stage[r] = "Pending"
    /\ stage' = [stage EXCEPT ![r] = "Sending"]
    /\ allowed' = [allowed EXCEPT ![r] = 1]
    /\ UNCHANGED copies

(* After the result is stored nothing is sent, unless the attempt that     *)
(* stored it was not told so.                                              *)
Send(r, v) ==
    /\ \/ stage[r] = "Sending"
       \/ stage[r] \in Results /\ allowed[r] > 1
    /\ copies[r][v] < allowed[r]
    /\ copies' = [copies EXCEPT ![r][v] = More(@)]
    /\ UNCHANGED <<stage, allowed>>

(* An attempt ends without knowing that its result is stored. *)
Doubt(r) ==
    /\ stage[r] \in {"Sending"} \cup Results
    /\ allowed' = [allowed EXCEPT ![r] = More(@)]
    /\ UNCHANGED <<stage, copies>>

Settle(r, result) ==
    /\ stage[r] = "Sending"
    /\ allowed[r] = 1 =>
        /\ result = "Failed" => Reached(r) = {}
        /\ result = "PartialFailure" => Reached(r) # {}
    /\ stage' = [stage EXCEPT ![r] = result]
    /\ UNCHANGED <<allowed, copies>>

Next == \E r \in Requests :
    \/ Ask(r) \/ Withdraw(r) \/ TakeUp(r) \/ Doubt(r)
    \/ \E v \in Receivers : Send(r, v)
    \/ \E result \in Results : Settle(r, result)

Spec == Init /\ [][Next]_vars
==============================================================================
