------------------------ MODULE LeaderElectionProofs ------------------------
(***************************************************************************)
(* Of any number of candidates that keep to the times at most one leads,   *)
(* whatever the timings, as long as a renewal round, the pause before it   *)
(* and one answer together are shorter than the lease.                     *)
(*                                                                         *)
(* That a leader holds the lock is not inductive: it also takes that       *)
(* nobody else has an update under way that would still be accepted, and   *)
(* that whoever has seen the present record waits longer than the leader   *)
(* leads without renewing it.                                              *)
(***************************************************************************)
EXTENDS LeaderElection, TLAPS

Timely == Renew + Retry + Delay < Lease

(* Who leads, or is about to when the answer is there.                     *)
Claims(c) == c \notin late /\ (c \in leading \/ at[c] = "stored")

(* A wait of n outlasts what c may do without another renewal.             *)
Outlasts(n, c) ==
    /\ c \in leading => patience[c] < n
    /\ at[c] = "stored" => wire[c] + Retry + Renew < n

Sending(d) == d \in fresh /\ at[d] \in {"update", "orphan"}

Protected(c) ==
    /\ holder = c
    /\ \A d \in Candidates \ {c} :
          ~Sending(d) /\ (d \in seen => Outlasts(left[d], c))

(* A process that has ended does not lead and has seen nothing, an attempt  *)
(* that found its lease expired is still about that lease, and a leader's   *)
(* own lease outlasts it.                                                   *)
Ended == \A c \in Candidates : at[c] \in Elsewhere => c \notin leading /\ c \notin seen
Overdue == \A d \in Candidates : (at[d] = "get" /\ d \in expired /\ d \in seen) => left[d] <= 0
OwnLease == \A c \in Punctual : patience[c] < left[c]

IInv ==
    /\ TypeOK /\ Ended /\ Overdue /\ OwnLease
    /\ \A c \in Candidates : Claims(c) => Protected(c)

------------------------------------------------------------------------------
(* The initial state is of the right types.                                *)
LEMMA InitTypeOK == Init => TypeOK
BY ElectionAssumption DEF Init, TypeOK

(* A step of one candidate keeps the types.                                *)
LEMMA StepTypeOK ==
    ASSUME TypeOK, NEW c \in Candidates, Step(c)
    PROVE  TypeOK'
<1>. USE ElectionAssumption
<1>1. CASE Start(c)
  BY <1>1 DEF TypeOK, Start, lock, trouble
<1>2. CASE Begin(c)
  BY <1>2 DEF TypeOK, Begin, lock, timers, trouble
<1>3. CASE Read(c)
  BY <1>3 DEF TypeOK, Read, Wait, May, trouble
<1>4. CASE Store(c)
  BY <1>4 DEF TypeOK, Store, Replace, trouble
<1>5. CASE Refuse(c)
  BY <1>5 DEF TypeOK, Refuse, Wait, lock, trouble
<1>6. CASE Answer(c)
  BY <1>6 DEF TypeOK, Answer, lock, trouble
<1>7. CASE GiveUp(c)
  BY <1>7 DEF TypeOK, GiveUp, End, timers
<1>8. CASE Land(c)
  BY <1>8 DEF TypeOK, Land, Replace, timers, trouble
<1>9. CASE Fade(c)
  BY <1>9 DEF TypeOK, Fade, timers, trouble
<1>10. CASE Kill(c)
  BY <1>10 DEF TypeOK, Kill, End, timers
<1>. QED
  BY <1>1, <1>2, <1>3, <1>4, <1>5, <1>6, <1>7, <1>8, <1>9, <1>10 DEF Step

(* A fault keeps the types.                                                *)
LEMMA BrokenTypeOK ==
    ASSUME TypeOK, NEW c \in Candidates, Broken(c)
    PROVE  TypeOK'
<1>. USE ElectionAssumption
<1>1. CASE CallFails(c)
  BY <1>1 DEF TypeOK, CallFails, Wait, Fault, lock
<1>2. CASE AnswerLost(c)
  BY <1>2 DEF TypeOK, AnswerLost, Wait, Fault, lock
<1>3. CASE Crash(c)
  BY <1>3 DEF TypeOK, Crash, End, Fault, timers
<1>4. CASE Stall(c)
  BY <1>4 DEF TypeOK, Stall, Fault, lock, timers
<1>5. CASE Hang(c)
  BY <1>5 DEF TypeOK, Hang, Fault, lock, timers
<1>. QED
  BY <1>1, <1>2, <1>3, <1>4, <1>5 DEF Broken

(* Time keeps the types.                                                   *)
LEMMA TickTypeOK == TypeOK /\ Tick => TypeOK'
BY ElectionAssumption DEF TypeOK, Tick, Down, lock, trouble

(* Types are correct in every reachable state.                             *)
THEOREM TypeCorrect == Spec => []TypeOK
<1>1. TypeOK /\ [Next]_vars => TypeOK'
  <2>1. TypeOK /\ UNCHANGED vars => TypeOK'
    BY DEF TypeOK, vars, lock, timers, trouble
  <2>. QED
    BY <2>1, StepTypeOK, BrokenTypeOK, TickTypeOK DEF Next
<1>. QED
  BY <1>1, InitTypeOK, PTL DEF Spec

------------------------------------------------------------------------------
(* The lesser parts of the invariant.                                      *)

(* What is kept by every step besides the protection of claims.            *)
LEMMA LesserParts ==
    ASSUME Timely, TypeOK, Ended, Overdue, OwnLease, Next, TypeOK'
    PROVE  Ended' /\ Overdue' /\ OwnLease'
<1>. USE ElectionAssumption
<1>1. ASSUME NEW c \in Candidates, Step(c)
      PROVE  Ended' /\ Overdue' /\ OwnLease'
  <2>1. CASE Start(c)
    BY <2>1 DEF Ended, Overdue, OwnLease, Punctual, Elsewhere, TypeOK, Start, lock, trouble
  <2>2. CASE Begin(c)
    BY <2>2 DEF Ended, Overdue, OwnLease, Punctual, Elsewhere, TypeOK, Begin, lock, timers, trouble
  <2>3. CASE Read(c)
    BY <2>3 DEF Ended, Overdue, OwnLease, Punctual, Elsewhere, TypeOK, Timely, Read, Wait, May, trouble
  <2>4. CASE Store(c)
    BY <2>4 DEF Ended, Overdue, OwnLease, Punctual, Elsewhere, TypeOK, Store, Replace, trouble
  <2>5. CASE Refuse(c)
    BY <2>5 DEF Ended, Overdue, OwnLease, Punctual, Elsewhere, TypeOK, Refuse, Wait, lock, trouble
  <2>6. CASE Answer(c)
    BY <2>6 DEF Ended, Overdue, OwnLease, Punctual, Elsewhere, TypeOK, Timely, Answer, lock, trouble
  <2>7. CASE GiveUp(c) \/ Kill(c)
    BY <2>7 DEF Ended, Overdue, OwnLease, Punctual, Elsewhere, TypeOK, GiveUp, Kill, End, timers
  <2>8. CASE Land(c) \/ Fade(c)
    BY <2>8 DEF Ended, Overdue, OwnLease, Punctual, Elsewhere, TypeOK, Land, Fade, Replace, timers, trouble
  <2>. QED
    BY <1>1, <2>1, <2>2, <2>3, <2>4, <2>5, <2>6, <2>7, <2>8 DEF Step
<1>2. ASSUME NEW c \in Candidates, Broken(c)
      PROVE  Ended' /\ Overdue' /\ OwnLease'
  <2>1. CASE CallFails(c) \/ AnswerLost(c)
    BY <2>1 DEF Ended, Overdue, OwnLease, Punctual, Elsewhere, TypeOK, CallFails, AnswerLost, Wait, lock
  <2>2. CASE Crash(c)
    BY <2>2 DEF Ended, Overdue, OwnLease, Punctual, Elsewhere, TypeOK, Crash, End, timers
  <2>3. CASE Stall(c) \/ Hang(c)
    BY <2>3 DEF Ended, Overdue, OwnLease, Punctual, Elsewhere, TypeOK, Stall, Hang, lock, timers
  <2>. QED
    BY <1>2, <2>1, <2>2, <2>3 DEF Broken
<1>3. CASE Tick
  <2>1. Ended' /\ Overdue'
    BY <1>3 DEF Ended, Overdue, TypeOK, Tick, Down, lock, trouble
  <2>2. ASSUME NEW c \in Punctual' PROVE patience'[c] < left'[c]
    <3>1. c \in Punctual /\ c \in Candidates /\ ~Due(c)
      BY <1>3, <2>2 DEF Punctual, Tick, trouble, TypeOK
    <3>2. patience[c] \in Nat /\ patience[c] # 0 /\ left[c] \in Int /\ patience[c] < left[c]
      BY <3>1 DEF Due, OwnLease, Punctual, TypeOK
    <3>3. patience'[c] = patience[c] - 1 /\ left'[c] = left[c] - 1
      BY <1>3, <3>1, <3>2 DEF Tick, Down
    <3>. QED
      BY <3>2, <3>3
  <2>. QED
    BY <2>1, <2>2 DEF OwnLease
<1>. QED
  BY <1>1, <1>2, <1>3 DEF Next
------------------------------------------------------------------------------
(* Claims stay protected.                                                  *)

(* Nobody else's update is accepted while a claim is protected, so who      *)
(* stores does not disturb another's claim: there is none.                  *)
LEMMA SenderIsAlone ==
    ASSUME IInv, NEW d \in Candidates, Sending(d), NEW c \in Candidates, Claims(c)
    PROVE  c = d
BY DEF IInv, Protected

(* A lease that is observed now outlasts every claim.                      *)
LEMMA NewLeaseOutlasts ==
    ASSUME Timely, TypeOK, NEW c \in Candidates
    PROVE  Outlasts(Lease, c)
BY ElectionAssumption DEF Timely, TypeOK, Outlasts

(* Who may update has no claim of another against it.                      *)
LEMMA MayExcludesClaims ==
    ASSUME IInv, NEW d \in Candidates, at[d] = "get", May(d),
           NEW c \in Candidates \ {d}, Claims(c)
    PROVE  FALSE
<1>1. holder = c /\ (d \in seen => Outlasts(left[d], c))
  BY DEF IInv, Protected
<1>2. d \in seen /\ d \in expired
  BY <1>1 DEF May
<1>3. left[d] <= 0 /\ left[d] \in Int
  BY <1>2, ElectionAssumption DEF IInv, Overdue, TypeOK
<1>4. patience[c] >= 0 /\ wire[c] >= 0 /\ patience[c] \in Nat /\ wire[c] \in Nat
  BY ElectionAssumption DEF IInv, TypeOK
<1>. QED
  BY <1>1, <1>2, <1>3, <1>4, ElectionAssumption DEF Outlasts, Claims

(* A step of one candidate keeps every claim protected.                    *)
LEMMA StepProtects ==
    ASSUME Timely, IInv, NEW d \in Candidates, Step(d),
           NEW c \in Candidates, Claims(c)'
    PROVE  Protected(c)'
<1>. USE ElectionAssumption
<1>. TypeOK /\ Ended
  BY DEF IInv
<1>. DEFINE Calm == Claims(c) /\ Protected(c)
<1>a. Claims(c) => Protected(c)
  BY DEF IInv
<1>1. CASE Start(d)
  <2>1. Calm /\ c # d /\ d \notin seen
    BY <1>1, <1>a DEF Start, Claims, trouble, Ended, Elsewhere, TypeOK
  <2>. QED
    BY <1>1, <2>1 DEF Start, Protected, Outlasts, Sending, lock, trouble, TypeOK
<1>2. CASE Begin(d)
  <2>1. Calm
    BY <1>2, <1>a DEF Begin, Claims, trouble, TypeOK
  <2>. QED
    BY <1>2, <2>1 DEF Begin, Protected, Outlasts, Sending, lock, timers, TypeOK
<1>3. CASE Read(d)
  <2>1. Calm
    BY <1>3, <1>a DEF Read, Wait, Claims, trouble, TypeOK
  <2>2. holder = c /\ holder # NoLock
    BY <2>1 DEF Protected
  <2>3. CASE c = d
    BY <1>3, <2>1, <2>2, <2>3 DEF Read, Wait, Protected, Outlasts, Sending, trouble, TypeOK
  <2>4. CASE c # d
    <3>1. ~May(d)
      BY <1>3, <2>1, <2>4, MayExcludesClaims DEF Read
    <3>2. Outlasts(Lease, c)
      BY NewLeaseOutlasts
    <3>3. /\ holder' = holder /\ seen' = seen \cup {d} /\ fresh' = fresh
          /\ at' = [at EXCEPT ![d] = "wait"]
          /\ left' = IF d \in seen THEN left ELSE [left EXCEPT ![d] = Lease]
          /\ UNCHANGED <<leading, patience, wire>>
      BY <1>3, <2>2, <3>1 DEF Read, Wait
    <3>4. \A e \in Candidates \ {c} : e \in seen' => Outlasts(left[e], c) \/ left'[e] = Lease
      BY <2>1, <3>3 DEF Protected, TypeOK
    <3>5. \A e \in Candidates \ {c} : e \in seen' => Outlasts(left'[e], c)
      BY <2>1, <3>2, <3>3 DEF Protected, TypeOK
    <3>6. \A e \in Candidates \ {c} : ~Sending(e)'
      BY <2>1, <3>3 DEF Protected, Sending, TypeOK
    <3>. QED
      BY <2>2, <2>4, <3>3, <3>5, <3>6 DEF Protected, Outlasts, TypeOK
  <2>. QED
    BY <2>3, <2>4
<1>4. CASE Store(d)
  <2>1. Sending(d)
    BY <1>4 DEF Store, Sending
  <2>2. c = d
    <3>1. c # d => Claims(c)
      BY <1>4 DEF Store, Claims, trouble, TypeOK
    <3>. QED
      BY <2>1, <3>1, SenderIsAlone
  <2>. QED
    BY <1>4, <2>2 DEF Store, Replace, Protected, Sending, TypeOK
<1>5. CASE Refuse(d)
  <2>1. Calm
    BY <1>5, <1>a DEF Refuse, Wait, Claims, trouble, TypeOK
  <2>. QED
    BY <1>5, <2>1 DEF Refuse, Wait, Protected, Outlasts, Sending, lock, TypeOK
<1>6. CASE Answer(d)
  <2>1. Calm
    BY <1>6, <1>a DEF Answer, Claims, trouble, TypeOK
  <2>2. \A e \in Candidates \ {c} : ~Sending(e)'
    BY <1>6, <2>1 DEF Answer, Protected, Sending, lock, TypeOK
  <2>3. CASE c # d
    <3>1. ASSUME NEW e \in Candidates \ {c}, e \in seen'
          PROVE  Outlasts(left[e], c) /\ (left'[e] = left[e] \/ left'[e] = Lease)
      BY <1>6, <2>1, <3>1 DEF Answer, Protected, lock, TypeOK
    <3>2. ASSUME NEW e \in Candidates \ {c}, e \in seen'
          PROVE  Outlasts(left'[e], c)
      BY <3>1, <3>2, NewLeaseOutlasts
    <3>. QED
      BY <1>6, <2>1, <2>2, <2>3, <3>2 DEF Answer, Protected, Outlasts, lock, TypeOK
  <2>4. CASE c = d
    <3>1. at[c] = "stored" /\ at'[c] = "wait" /\ patience'[c] <= Retry + Renew
      BY <1>6, <2>4 DEF Answer, TypeOK
    <3>2. ASSUME NEW e \in Candidates \ {c}, e \in seen'
          PROVE  patience'[c] < left'[e]
      <4>1. e \in seen /\ left'[e] = left[e]
        BY <1>6, <2>4, <3>2 DEF Answer, lock, TypeOK
      <4>2. wire[c] + Retry + Renew < left[e]
        BY <2>1, <3>1, <3>2, <4>1 DEF Protected, Outlasts
      <4>. QED
        BY <1>6, <3>1, <4>1, <4>2 DEF TypeOK, Answer
    <3>3. ASSUME NEW e \in Candidates \ {c}, e \in seen'
          PROVE  Outlasts(left[e], c)'
      BY <3>1, <3>2, <3>3 DEF Outlasts
    <3>. QED
      BY <1>6, <2>1, <2>2, <3>3 DEF Answer, Protected, lock
  <2>. QED
    BY <2>3, <2>4
<1>7. CASE GiveUp(d) \/ Kill(d)
  <2>1. End(d)
    BY <1>7 DEF GiveUp, Kill
  <2>2. c # d
    BY <2>1 DEF End, Claims, TypeOK
  <2>3. Calm
    BY <1>a, <2>1, <2>2 DEF End, Claims, TypeOK
  <2>. QED
    BY <2>1, <2>2, <2>3 DEF End, Protected, Outlasts, Sending, timers, TypeOK
<1>8. CASE Land(d)
  <2>1. Sending(d) /\ at[d] = "orphan"
    BY <1>8 DEF Land, Sending
  <2>2. Claims(c)
    BY <1>8 DEF Land, Claims, trouble, TypeOK
  <2>3. c = d
    BY <2>1, <2>2, SenderIsAlone
  <2>. QED
    BY <2>1, <2>2, <2>3 DEF Claims, Ended, Elsewhere
<1>9. CASE Fade(d)
  <2>1. Calm
    BY <1>9, <1>a DEF Fade, Claims, trouble, TypeOK
  <2>. QED
    BY <1>9, <2>1 DEF Fade, Protected, Outlasts, Sending, timers, TypeOK
<1>. QED
  BY <1>1, <1>2, <1>3, <1>4, <1>5, <1>6, <1>7, <1>8, <1>9 DEF Step

(* A fault keeps every claim protected.                                    *)
LEMMA BrokenProtects ==
    ASSUME Timely, IInv, NEW d \in Candidates, Broken(d),
           NEW c \in Candidates, Claims(c)'
    PROVE  Protected(c)'
<1>. USE ElectionAssumption
<1>. TypeOK
  BY DEF IInv
<1>a. Claims(c) => Protected(c)
  BY DEF IInv
<1>1. CASE CallFails(d) \/ AnswerLost(d)
  <2>1. Claims(c) /\ Protected(c)
    BY <1>1, <1>a DEF CallFails, AnswerLost, Wait, Claims, TypeOK
  <2>. QED
    BY <1>1, <2>1 DEF CallFails, AnswerLost, Wait, Protected, Outlasts, Sending, lock, TypeOK
<1>2. CASE Crash(d)
  <2>1. End(d)
    BY <1>2 DEF Crash
  <2>2. c # d
    BY <2>1 DEF End, Claims, TypeOK
  <2>3. Claims(c) /\ Protected(c)
    BY <1>a, <2>1, <2>2 DEF End, Claims, TypeOK
  <2>. QED
    BY <2>1, <2>2, <2>3 DEF End, Protected, Outlasts, Sending, timers, TypeOK
<1>3. CASE Stall(d) \/ Hang(d)
  <2>1. Claims(c) /\ Protected(c)
    BY <1>3, <1>a DEF Stall, Hang, Claims
  <2>. QED
    BY <1>3, <2>1 DEF Stall, Hang, Protected, Outlasts, Sending, lock, timers
<1>. QED
  BY <1>1, <1>2, <1>3 DEF Broken

(* Time keeps every claim protected: it does not go on before a leader that *)
(* is due has acted.                                                        *)
LEMMA TickProtects ==
    ASSUME Timely, IInv, Tick, NEW c \in Candidates, Claims(c)'
    PROVE  Protected(c)'
<1>. USE ElectionAssumption
<1>1. Claims(c) /\ c \in Candidates \ late
  BY DEF Tick, Claims, trouble
<1>2. Protected(c) /\ ~Due(c) /\ TypeOK
  BY <1>1 DEF IInv, Tick
<1>3. ASSUME NEW d \in Candidates \ {c}, d \in seen
      PROVE  Outlasts(left[d], c)'
  <2>1. Outlasts(left[d], c)
    BY <1>2, <1>3 DEF Protected
  <2>2. /\ left[d] \in Int /\ patience[c] \in Nat /\ wire[c] \in Nat
        /\ c \in leading => patience'[c] = patience[c] - 1 /\ patience'[c] >= 0
        /\ at[c] = "stored" => wire'[c] = wire[c] - 1 /\ wire'[c] >= 0
        /\ left'[d] >= left[d] - 1
        /\ leading' = leading /\ at' = at
    BY <1>2 DEF Tick, Due, Down, TypeOK, lock
  <2>3. left'[d] \in Int
    BY <1>2 DEF Tick, TypeOK
  <2>. QED
    BY <2>1, <2>2, <2>3 DEF Outlasts
<1>. QED
  BY <1>2, <1>3 DEF Tick, Protected, Sending, lock

------------------------------------------------------------------------------
(* The invariant is inductive.                                             *)
LEMMA Inductive ==
    ASSUME Timely
    PROVE  /\ Init => IInv
           /\ IInv /\ [Next]_vars => IInv'
<1>1. Init => IInv
  BY InitTypeOK DEF Init, IInv, Ended, Overdue, OwnLease, Punctual, Claims
<1>2. ASSUME IInv, UNCHANGED vars PROVE IInv'
  BY <1>2 DEF IInv, vars, lock, timers, trouble, TypeOK, Ended, Overdue, OwnLease,
              Punctual, Claims, Protected, Outlasts, Sending
<1>3. ASSUME IInv, Next PROVE IInv'
  <2>1. TypeOK'
    BY <1>3, StepTypeOK, BrokenTypeOK, TickTypeOK DEF Next, IInv
  <2>2. Ended' /\ Overdue' /\ OwnLease'
    BY <1>3, <2>1, LesserParts DEF IInv
  <2>3. \A c \in Candidates : Claims(c)' => Protected(c)'
    BY <1>3, StepProtects, BrokenProtects, TickProtects DEF Next
  <2>. QED
    BY <2>1, <2>2, <2>3 DEF IInv
<1>. QED
  BY <1>1, <1>2, <1>3

(* The invariant has the properties the runs check.                        *)
LEMMA InvariantSuffices ==
    ASSUME Timely, IInv
    PROVE  OneLeader /\ LeaderHoldsLock /\ NoFalseAlarm
<1>. USE ElectionAssumption
<1>1. \A c \in Punctual : c \in Candidates /\ Claims(c)
  BY DEF IInv, TypeOK, Punctual, Claims
<1>2. LeaderHoldsLock
  BY <1>1 DEF LeaderHoldsLock, IInv, Protected
<1>3. OneLeader
  BY <1>2 DEF OneLeader, LeaderHoldsLock
<1>4. NoFalseAlarm
  BY <1>1 DEF NoFalseAlarm, Alarm, IInv, OwnLease, TypeOK
<1>. QED
  BY <1>2, <1>3, <1>4

(* The invariant holds in every reachable state.                           *)
LEMMA InvariantHolds == Timely => (Spec => []IInv)
<1>. SUFFICES ASSUME Timely PROVE Spec => []IInv
  OBVIOUS
<1>. QED
  BY Inductive, PTL DEF Spec

(* Of the candidates that keep to the times at most one leads              *)
(* (tryAcquireOrRenew, leaderelection.go:226).                             *)
THEOREM AtMostOneLeads == Timely => (Spec => []OneLeader)
<1>. SUFFICES ASSUME Timely PROVE Spec => []OneLeader
  OBVIOUS
<1>. QED
  BY InvariantHolds, InvariantSuffices, PTL

(* Who leads without being late holds the lock others read.                *)
THEOREM LeadersHoldTheLock == Timely => (Spec => []LeaderHoldsLock)
<1>. SUFFICES ASSUME Timely PROVE Spec => []LeaderHoldsLock
  OBVIOUS
<1>. QED
  BY InvariantHolds, InvariantSuffices, PTL

(* The watchdog never ends a leader that keeps to the times                *)
(* (Check, leaderelection.go:292).                                         *)
THEOREM WatchdogIsPatient == Timely => (Spec => []NoFalseAlarm)
<1>. SUFFICES ASSUME Timely PROVE Spec => []NoFalseAlarm
  OBVIOUS
<1>. QED
  BY InvariantHolds, InvariantSuffices, PTL
==============================================================================
