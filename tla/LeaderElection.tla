--------------------------- MODULE LeaderElection ---------------------------
(***************************************************************************)
(* Leader election of the controller processes (pkg/util/leaderelection):  *)
(* candidates of one lock, a ConfigMap the API server updates only from    *)
(* its newest copy.  Time is a step of its own that lets every timer run   *)
(* down; what the code does when a timer ends is done before time goes on, *)
(* except by a candidate that is late (its process does not run, its       *)
(* network does not answer).                                               *)
(*                                                                         *)
(* Times of acquisition and counts of transitions are left out of the      *)
(* record; whether a copy is the stored one is kept instead of versions.   *)
(***************************************************************************)
EXTENDS Integers, FiniteSets

CONSTANTS
    Candidates,
    Lease, Renew, Retry,    \* LeaseDuration, RenewDeadline, RetryPeriod
    Tolerance,              \* of the watchdog
    Delay,                  \* an answer of the API server takes no longer
    MaxFaults, FaultKinds,  \* how much goes wrong, and what: some of AllFaults
    NoLock, Gone            \* holders: no lock yet, a process that ended

AllFaults == {"call", "lost", "crash", "stall", "hang"}

(* What NewLeaderElector demands. *)
ASSUME ElectionAssumption ==
    /\ Lease \in Nat /\ Renew \in Nat /\ Retry \in Nat
    /\ Lease > Renew /\ 5 * Renew > 6 * Retry /\ Retry >= 1
    /\ Tolerance \in Nat /\ Delay \in Nat /\ MaxFaults \in Nat
    /\ FaultKinds \subseteq AllFaults
    /\ NoLock \notin Candidates /\ Gone \notin Candidates /\ NoLock # Gone

VARIABLES
    holder,    \* HolderIdentity of the stored record
    at,        \* where each candidate is in tryAcquireOrRenew
    leading,   \* who has been told to lead
    seen,      \* whose observedRecord is the stored one
    mine,      \* whose observedRecord names itself (IsLeader)
    fresh,     \* whose copy of the lock is the stored one
    expired,   \* whose attempt began after the observed lease had ended
    left,      \* time left of the lease each observed, below zero since its end
    patience,  \* time until a leader gives up
    retry,     \* time until its next attempt
    wire,      \* time until an answer is there
    late, hung,\* who does not keep to the times, who does nothing at all
    faults

lock == <<holder, seen, fresh>>
timers == <<left, patience, retry, wire>>
trouble == <<late, hung, faults>>
vars == <<lock, at, leading, mine, expired, timers, trouble>>

Elsewhere == {"off", "orphan"}

Fault(kind) ==
    /\ kind \in FaultKinds /\ faults < MaxFaults
    /\ faults' = faults + 1

Init ==
    /\ holder = NoLock
    /\ at = [c \in Candidates |-> "off"]
    /\ leading = {} /\ seen = {} /\ mine = {} /\ fresh = {} /\ expired = {}
    /\ left = [c \in Candidates |-> 0] /\ patience = [c \in Candidates |-> 0]
    /\ retry = [c \in Candidates |-> 0] /\ wire = [c \in Candidates |-> 0]
    /\ late = {} /\ hung = {} /\ faults = 0

------------------------------------------------------------------------------
(* A process has an identity of its own, and has seen no record.            *)
Start(c) ==
    /\ at[c] = "off"
    /\ at' = [at EXCEPT ![c] = "wait"]
    /\ left' = [left EXCEPT ![c] = 0]
    /\ retry' = [retry EXCEPT ![c] = 0]
    /\ UNCHANGED <<lock, leading, mine, expired, patience, wire, trouble>>

(* tryAcquireOrRenew: the time is taken before the record is read. *)
Begin(c) ==
    /\ at[c] = "wait" /\ retry[c] = 0 /\ c \notin hung
    /\ at' = [at EXCEPT ![c] = "get"]
    /\ expired' = IF left[c] <= 0 THEN expired \cup {c} ELSE expired \ {c}
    /\ UNCHANGED <<lock, leading, mine, timers, trouble>>

Wait(c) ==
    /\ at' = [at EXCEPT ![c] = "wait"]
    /\ retry' = [retry EXCEPT ![c] = Retry]

(* Mutant: a lease that has ended is taken, also if the record changed.    *)
MutChangedIsFree(c) == holder = c \/ c \in expired

(* Mutant: only the holder writes the record.                              *)
MutHolderOnly(c) == holder = c

(* A record that changed starts the lease anew; who holds the lock renews   *)
(* it, others take it when the lease they observed has ended.               *)
May(c) == holder = c \/ (c \in seen /\ c \in expired)

Read(c) ==
    /\ at[c] = "get" /\ c \notin hung
    /\ IF holder = NoLock
       THEN /\ at' = [at EXCEPT ![c] = "update"]
            /\ fresh' = fresh \cup {c}
            /\ UNCHANGED <<seen, mine, left, retry>>
       ELSE /\ left' = IF c \in seen THEN left ELSE [left EXCEPT ![c] = Lease]
            /\ seen' = seen \cup {c}
            /\ mine' = IF holder = c THEN mine \cup {c} ELSE mine \ {c}
            /\ IF May(c)
               THEN /\ at' = [at EXCEPT ![c] = "update"]
                    /\ fresh' = fresh \cup {c}
                    /\ UNCHANGED retry
               ELSE Wait(c) /\ UNCHANGED fresh
    /\ UNCHANGED <<holder, leading, expired, patience, wire, trouble>>

(* The lock is created or updated, unless another was first.                *)
Replace(h) == holder' = h /\ seen' = {} /\ fresh' = {}

Store(c) ==
    /\ at[c] = "update" /\ c \in fresh
    /\ Replace(c)
    /\ at' = [at EXCEPT ![c] = "stored"]
    /\ wire' = [wire EXCEPT ![c] = Delay]
    /\ UNCHANGED <<leading, mine, expired, left, patience, retry, trouble>>

Refuse(c) ==
    /\ at[c] = "update" /\ c \notin fresh /\ c \notin hung
    /\ Wait(c)
    /\ UNCHANGED <<lock, leading, mine, expired, left, patience, wire, trouble>>

(* Success.  The record kept is not the one that will be read: times are    *)
(* stored in seconds.  A new leader renews at once, an old one after Retry, *)
(* and each such round ends after Renew.                                    *)
Answer(c) ==
    /\ at[c] = "stored" /\ c \notin hung
    /\ at' = [at EXCEPT ![c] = "wait"]
    /\ mine' = mine \cup {c}
    /\ left' = [left EXCEPT ![c] = Lease]
    /\ leading' = leading \cup {c}
    /\ LET pause == IF c \in leading THEN Retry ELSE 0 IN
       /\ retry' = [retry EXCEPT ![c] = pause]
       /\ patience' = [patience EXCEPT ![c] = pause + Renew]
    /\ UNCHANGED <<lock, expired, wire, trouble>>

------------------------------------------------------------------------------
(* The end of a process.  An update it has sent may still arrive, and the   *)
(* lock it holds is not released.                                           *)
End(c) ==
    /\ at' = [at EXCEPT ![c] = IF @ = "update" THEN "orphan" ELSE "off"]
    /\ leading' = leading \ {c} /\ mine' = mine \ {c}
    /\ late' = late \ {c} /\ hung' = hung \ {c}
    /\ seen' = seen \ {c} /\ expired' = expired \ {c}
    /\ holder' = IF holder = c THEN Gone ELSE holder
    /\ fresh' = IF at[c] = "update" THEN fresh ELSE fresh \ {c}
    /\ UNCHANGED timers

(* A round of renewals that reaches its deadline ends the process, also     *)
(* while a call is under way.                                               *)
GiveUp(c) ==
    /\ c \in leading /\ patience[c] = 0 /\ c \notin hung
    /\ End(c) /\ UNCHANGED faults

Land(c) ==
    /\ at[c] = "orphan" /\ c \in fresh
    /\ Replace(Gone)
    /\ at' = [at EXCEPT ![c] = "off"]
    /\ UNCHANGED <<leading, mine, expired, timers, trouble>>

Fade(c) ==
    /\ at[c] = "orphan"
    /\ at' = [at EXCEPT ![c] = "off"]
    /\ fresh' = fresh \ {c}
    /\ UNCHANGED <<holder, seen, leading, mine, expired, timers, trouble>>

(* Mutant: the tolerance counts from the last renewal, not from the end of *)
(* the lease.                                                              *)
MutImpatient(c) == c \in mine /\ left[c] < Lease - Tolerance

(* Mutant: the watchdog never finds anything.                              *)
MutAsleep(c) == FALSE

(* Check, and the kubelet that relies on it. *)
Alarm(c) == c \in mine /\ left[c] < -Tolerance

Kill(c) ==
    /\ Alarm(c)
    /\ End(c) /\ UNCHANGED faults

------------------------------------------------------------------------------
(* What goes wrong. *)
CallFails(c) ==
    /\ at[c] \in {"get", "update"} /\ Fault("call")
    /\ Wait(c)
    /\ UNCHANGED <<lock, leading, mine, expired, left, patience, wire, late, hung>>

AnswerLost(c) ==
    /\ at[c] = "stored" /\ Fault("lost")
    /\ Wait(c)
    /\ UNCHANGED <<lock, leading, mine, expired, left, patience, wire, late, hung>>

Crash(c) ==
    /\ at[c] \notin Elsewhere /\ Fault("crash")
    /\ End(c)

Stall(c) ==
    /\ at[c] \notin Elsewhere /\ c \notin late /\ Fault("stall")
    /\ late' = late \cup {c}
    /\ UNCHANGED <<lock, at, leading, mine, expired, timers, hung>>

Hang(c) ==
    /\ c \in leading \ hung /\ Fault("hang")
    /\ late' = late \cup {c} /\ hung' = hung \cup {c}
    /\ UNCHANGED <<lock, at, leading, mine, expired, timers>>

(* Time passes when everybody who is not late has done what is due. *)
Due(c) ==
    \/ c \in leading /\ patience[c] = 0
    \/ c \in leading /\ at[c] = "wait" /\ retry[c] = 0
    \/ at[c] = "stored" /\ wire[c] = 0

Down(n) == IF n > 0 THEN n - 1 ELSE 0

Tick ==
    /\ \A c \in Candidates \ late : ~Due(c)
    /\ left' = [c \in Candidates |-> IF left[c] >= -Tolerance THEN left[c] - 1 ELSE left[c]]
    /\ patience' = [c \in Candidates |-> Down(patience[c])]
    /\ retry' = [c \in Candidates |-> Down(retry[c])]
    /\ wire' = [c \in Candidates |-> Down(wire[c])]
    /\ UNCHANGED <<lock, at, leading, mine, expired, trouble>>

Step(c) ==
    \/ Start(c) \/ Begin(c) \/ Read(c) \/ Store(c) \/ Refuse(c) \/ Answer(c)
    \/ GiveUp(c) \/ Land(c) \/ Fade(c) \/ Kill(c)

Broken(c) == CallFails(c) \/ AnswerLost(c) \/ Crash(c) \/ Stall(c) \/ Hang(c)

Next == Tick \/ \E c \in Candidates : Step(c) \/ Broken(c)

Fairness ==
    /\ WF_vars(Tick)
    /\ \A c \in Candidates : WF_vars(Step(c)) /\ WF_vars(GiveUp(c))

Spec == Init /\ [][Next]_vars
FairSpec == Spec /\ Fairness

------------------------------------------------------------------------------
(* Types of the variables. *)
TypeOK ==
    /\ holder \in Candidates \cup {NoLock, Gone}
    /\ at \in [Candidates -> {"off", "wait", "get", "update", "stored", "orphan"}]
    /\ leading \subseteq Candidates /\ seen \subseteq Candidates
    /\ mine \subseteq Candidates /\ fresh \subseteq Candidates
    /\ expired \subseteq Candidates
    /\ left \in [Candidates -> -(Tolerance + 1)..Lease]
    /\ patience \in [Candidates -> 0..(Retry + Renew)]
    /\ retry \in [Candidates -> 0..Retry]
    /\ wire \in [Candidates -> 0..Delay]
    /\ late \subseteq Candidates /\ hung \subseteq late
    /\ faults \in 0..MaxFaults

(***************************************************************************)
(* Of the candidates that keep to the times at most one leads, although    *)
(* each acts on a record and a clock it read earlier, updates overtake     *)
(* each other, answers are lost and an update outlives its process         *)
(* (tryAcquireOrRenew, leaderelection.go:226; renew, :191).  The timings   *)
(* have to be a little better than NewLeaderElector demands.               *)
(***************************************************************************)
Punctual == leading \ late

OneLeader == \A c, d \in Punctual : c = d

(***************************************************************************)
(* Who leads without being late holds the lock: what it does is covered by *)
(* the record everyone else reads.                                         *)
(***************************************************************************)
LeaderHoldsLock == \A c \in Punctual : holder = c

(***************************************************************************)
(* The watchdog (Check, leaderelection.go:292) never ends a leader that    *)
(* keeps to the times, however its renewals fail.                          *)
(***************************************************************************)
NoFalseAlarm == \A c \in Punctual : ~Alarm(c)

(***************************************************************************)
(* A lock without a leader gets one, after crashes, lost answers and the   *)
(* late update of a process that has ended.                                *)
(***************************************************************************)
LeaderEmerges == (leading = {}) ~> (leading # {})

(***************************************************************************)
(* Two leaders do not stay: the one that lost the lock finds out, or is    *)
(* found out by the watchdog, unless it hangs having seen the other.       *)
(***************************************************************************)
SplitEnds ==
    \A c \in Candidates :
        (c \in leading /\ holder # c) ~> (c \notin leading \/ holder = c \/ c \in hung \ mine)

(***************************************************************************)
(* What does not hold.  A leader that hangs after it has read another's    *)
(* record is a standby to the watchdog, and leads on (Check,               *)
(* leaderelection.go:293).                                                 *)
(***************************************************************************)
HungIsKilled == \A c \in Candidates : (c \in hung) ~> (c \notin hung)
==============================================================================
