------------------------------ MODULE NotifyProofs ------------------------------
(***************************************************************************)
(* What the notify controller promises, for every number of requests,      *)
(* receivers, channels, edits and faults: a request that is "Sent" reached *)
(* everybody it addresses, what a settled request sent is archived, and    *)
(* the controller implements Delivery.                                     *)
(*                                                                         *)
(* None of it is inductive.  The facts of a stored request depend on what  *)
(* the worker holds of it, which may be a copy of an earlier request of    *)
(* the same name, and on whether the cache lets an attempt be repeated.    *)
(***************************************************************************)
EXTENDS NotifyController, TLAPS

(* Taken up: a worker has stored it as Sending. *)
Started == {"Sending"} \cup Results
Taken(r) == requests[r].phase \in Started

(* The worker, or the next one that takes the key, may send for r again. *)
MayRepeat(r) == cached[r].phase = "Pending" /\ sync[r].at \in {"idle", "mark"}

(* Copies of a request are of the stored one or of an earlier one, and the *)
(* copies of one that is taken up are of that very request.                *)
Uids(r) ==
    /\ Exists(r) => requests[r].uid > 0
    /\ listed[r].uid <= requests[r].uid
    /\ sync[r].obj.uid <= listed[r].uid
    /\ Taken(r) => listed[r].uid = requests[r].uid
    /\ Taken(r) /\ sync[r].at # "idle" => sync[r].obj.uid = requests[r].uid

(* A copy is not ahead of what is stored. *)
Behind(r) ==
    /\ listed[r].uid = requests[r].uid /\ listed[r].phase \in Started
            => requests[r].phase # "Pending"
    /\ sync[r].obj.uid = requests[r].uid /\ sync[r].obj.phase \in Started
            => requests[r].phase # "Pending"

(* Where the worker is tells the phase it read. *)
Stage(r) ==
    /\ sync[r].at = "mark" => sync[r].obj.phase = "Pending"
    /\ sync[r].at \in {"prepare", "send", "store"} => sync[r].obj.phase = "Sending"
    /\ sync[r].at \in {"prepare", "store"} => sync[r].left = {}
    /\ sync[r].at = "prepare" => sync[r].sent = {} /\ sync[r].failed = {}

(* A receiver has no more messages than the attempts that ended in doubt   *)
(* and the one under way, and none of that one while it waits for it.      *)
Budget(r) ==
    /\ requests[r].phase = "Pending" => doubts[r] = 0 /\ \A v \in Receivers : copies[r][v] = 0
    /\ Taken(r) => \A v \in Receivers :
        /\ copies[r][v] <= More(doubts[r])
        /\ MayRepeat(r) \/ sync[r].at = "prepare" \/ (sync[r].at = "send" /\ v \in sync[r].left)
                => copies[r][v] <= doubts[r]
    /\ requests[r].phase \in Results /\ (MayRepeat(r) \/ sync[r].at \in {"prepare", "send"})
            => doubts[r] > 0

(* The first attempt knows whom it reached. *)
First(r) ==
    Taken(r) /\ doubts[r] = 0 /\ sync[r].at \in {"send", "store"}
        => \A v \in Receivers : copies[r][v] > 0 <=> v \in sync[r].sent

(* Everybody addressed has a message, has failed or is still to be tried,  *)
(* unless an attempt passed somebody over.                                 *)
Covered(r) ==
    r \notin blind =>
        /\ Taken(r) /\ sync[r].at \in {"send", "store"} => \A v \in Addressed(r) :
                copies[r][v] > 0 \/ v \in sync[r].left \cup sync[r].failed
        /\ requests[r].phase = "Sent" => \A v \in Addressed(r) : copies[r][v] > 0

(* What was sent is archived, or is about to be, or was sent by a process  *)
(* that stopped: then the request stays Sending.                           *)
Kept(r) ==
    /\ "lost" \notin happened /\ requests[r].phase \in Results
            => sync[r].at \in {"idle", "mark"} /\ ~MayRepeat(r)
    /\ happened \cap {"archive", "lost"} = {} /\ Taken(r) => \A v \in Receivers :
        copies[r][v] > 0 =>
            \/ archived[r][v] # 0
            \/ sync[r].at = "send" /\ v \in sync[r].sent
            \/ requests[r].phase = "Sending" /\ sync[r].at \in {"idle", "mark"} /\ ~MayRepeat(r)

(* What is archived under a name is not of a later request than the last. *)
Dated(r) == \A v \in Receivers : archived[r][v] <= requests[r].uid

Sound(r) ==
    Uids(r) /\ Behind(r) /\ Stage(r) /\ Budget(r) /\ First(r) /\ Covered(r) /\ Kept(r) /\ Dated(r)

(* Every edit of a request is one of the edits that were made. *)
Edited(r) == requests[r].rev <= edits

IInv == TypeOK /\ \A r \in Requests : Sound(r) /\ Edited(r)

------------------------------------------------------------------------------
(* Types.                                                                  *)

(* What type correctness says of one request.                              *)
LEMMA Types ==
    ASSUME TypeOK, NEW r \in Requests
    PROVE  /\ requests[r] \in Request /\ listed[r] \in Request
           /\ sync[r].at \in {"idle", "mark", "prepare", "send", "store"}
           /\ sync[r].obj \in Request
           /\ sync[r].left \subseteq Receivers /\ sync[r].sent \subseteq Receivers
           /\ sync[r].failed \subseteq Receivers
           /\ copies[r] \in [Receivers -> 0..Most] /\ doubts[r] \in 0..Most
           /\ archived[r] \in [Receivers -> 0..MaxUid]
           /\ Addressed(r) \subseteq Receivers
BY NotifyAssumption DEF TypeOK, Addressed

(* What type correctness says of a worker.                                 *)
Worker ==
    [at : {"idle", "mark", "prepare", "send", "store"}, obj : Request,
     shape : Shapes \cup {"none"}, left : SUBSET Receivers,
     sent : SUBSET Receivers, failed : SUBSET Receivers]

(* The idle worker is a worker.                                            *)
LEMMA IdleType == Idle \in Worker
<1>1. [uid |-> 0, phase |-> "Absent", rev |-> 0] \in Request
  BY NotifyAssumption DEF Request, Phases
<1> QED BY <1>1 DEF Idle, Worker

(* Nothing becomes of a request whose part of the state stays, whatever    *)
(* else happens.                                                           *)
LEMMA Untouched ==
    ASSUME NEW r \in Requests, Sound(r), happened \subseteq happened',
           requests'[r] = requests[r], listed'[r] = listed[r], cached'[r] = cached[r],
           sync'[r] = sync[r], copies'[r] = copies[r], doubts'[r] = doubts[r],
           archived'[r] = archived[r], r \in blind => r \in blind'
    PROVE  Sound(r)'
BY DEF Sound, Uids, Behind, Stage, Budget, First, Covered, Kept, Dated, Taken, MayRepeat, Exists,
       Addressed, More

------------------------------------------------------------------------------
(* One lemma per action.                                                   *)

(* A new request is later than every copy of its name.                     *)
LEMMA CreateInv == ASSUME IInv, NEW r \in Requests, CreateRequest(r) PROVE IInv'
<1>1. TypeOK'
  BY NotifyAssumption DEF IInv, TypeOK, CreateRequest, Request, Phases, workerVars
<1>2. ASSUME NEW q \in Requests, q # r PROVE Sound(q)'
  BY <1>2, Untouched DEF IInv, TypeOK, CreateRequest, workerVars
<1>3. Sound(r)'
  <2>1. /\ requests'[r] = [uid |-> requests[r].uid + 1, phase |-> "Pending", rev |-> 0]
        /\ copies'[r] = [v \in Receivers |-> 0] /\ doubts'[r] = 0
        /\ UNCHANGED <<listed, cached, sync, archived, happened>>
    BY DEF CreateRequest, IInv, TypeOK, workerVars
  <2>2. Sound(r) /\ requests[r] \in Request /\ listed[r] \in Request /\ sync[r].obj \in Request
        /\ archived[r] \in [Receivers -> 0..MaxUid] /\ MaxUid \in Nat
    BY Types, NotifyAssumption DEF IInv
  <2> QED BY <2>1, <2>2 DEF Sound, Uids, Behind, Stage, Budget, First, Covered, Kept, Dated, Taken,
        MayRepeat, Exists, Request, Started, Results
<1>4. ASSUME NEW q \in Requests PROVE Edited(q)'
  BY DEF IInv, TypeOK, CreateRequest, Edited
<1> QED BY <1>1, <1>2, <1>3, <1>4 DEF IInv

(* An edit changes nothing the facts of a request depend on.               *)
LEMMA EditInv == ASSUME IInv, NEW r \in Requests, EditRequest(r) PROVE IInv'
<1> DEFINE new == [requests[r] EXCEPT !.rev = requests[r].rev + 1]
<1>1. requests' = [requests EXCEPT ![r] = new] /\ edits' = edits + 1 /\ edits < MaxEdits
      /\ edits \in 0..MaxEdits
  BY DEF EditRequest, IInv, TypeOK
<1>2. requests[r].rev + 1 \in 0..MaxEdits
  BY <1>1, Types, NotifyAssumption DEF Request, IInv, Edited
<1>3. new \in Request /\ new.uid = requests[r].uid /\ new.phase = requests[r].phase
      /\ new.rev = requests[r].rev + 1
  <2>1. requests[r] \in Request BY Types DEF IInv
  <2> HIDE DEF IInv
  <2> QED BY <1>2, <2>1 DEF Request
<1> HIDE DEF new
<1>4. TypeOK'
  <2>1. requests' \in [Requests -> Request] BY <1>1, <1>3 DEF IInv, TypeOK
  <2>2. edits' \in 0..MaxEdits BY <1>1, NotifyAssumption
  <2> QED BY <2>1, <2>2 DEF IInv, TypeOK, EditRequest, workerVars
<1>5. ASSUME NEW q \in Requests PROVE Sound(q)' /\ Edited(q)'
  <2>1. /\ requests'[q].uid = requests[q].uid /\ requests'[q].phase = requests[q].phase
        /\ UNCHANGED <<listed, cached, sync, archived, copies, doubts, blind, happened>>
    BY <1>1, <1>3 DEF EditRequest, IInv, TypeOK, workerVars
  <2>2. Sound(q) /\ Edited(q) /\ requests[q] \in Request BY Types DEF IInv
  <2>3. Edited(q)' BY <1>1, <1>3, <2>2 DEF IInv, TypeOK, Edited, Request
  <2> QED BY <2>1, <2>2, <2>3 DEF Sound, Uids, Behind, Stage, Budget, First, Covered, Kept, Dated, Taken,
        MayRepeat, Exists, Addressed, More
<1> QED BY <1>4, <1>5 DEF IInv

(* Nothing is said of a request that is gone.                              *)
LEMMA DeleteInv == ASSUME IInv, NEW r \in Requests, DeleteRequest(r) PROVE IInv'
<1> DEFINE new == [requests[r] EXCEPT !.phase = "Absent", !.rev = 0]
<1>1. requests' = [requests EXCEPT ![r] = new] /\ edits' = edits + 1 /\ edits < MaxEdits
      /\ edits \in 0..MaxEdits
  BY DEF DeleteRequest, IInv, TypeOK
<1>2. new \in Request /\ new.uid = requests[r].uid /\ new.phase = "Absent" /\ new.rev = 0
  <2>1. requests[r] \in Request BY Types DEF IInv
  <2>2. "Absent" \in Phases /\ 0 \in 0..MaxEdits BY NotifyAssumption DEF Phases
  <2> QED BY <2>1, <2>2 DEF Request
<1> HIDE DEF new
<1>3. TypeOK'
  <2>1. requests' \in [Requests -> Request] BY <1>1, <1>2 DEF IInv, TypeOK
  <2>2. edits' \in 0..MaxEdits BY <1>1, NotifyAssumption
  <2> QED BY <2>1, <2>2 DEF IInv, TypeOK, DeleteRequest, workerVars
<1>4. ASSUME NEW q \in Requests PROVE Edited(q)'
  <2>1. Edited(q) /\ requests[q] \in Request BY Types DEF IInv
  <2> QED BY <1>1, <1>2, <2>1 DEF IInv, TypeOK, Edited, Request
<1>5. ASSUME NEW q \in Requests, q # r PROVE Sound(q)'
  BY <1>1, <1>5, Untouched DEF IInv, TypeOK, DeleteRequest, workerVars
<1>6. Sound(r)'
  <2>1. /\ requests'[r].uid = requests[r].uid /\ requests'[r].phase = "Absent"
        /\ UNCHANGED <<listed, cached, sync, archived, copies, doubts, blind, happened>>
    BY <1>1, <1>2 DEF DeleteRequest, IInv, TypeOK, workerVars
  <2>2. Sound(r) BY DEF IInv
  <2> QED BY <2>1, <2>2 DEF Sound, Uids, Behind, Stage, Budget, First, Covered, Kept, Dated, Taken,
        MayRepeat, Exists, Started, Results
<1> QED BY <1>3, <1>4, <1>5, <1>6 DEF IInv

(* The watch brings the copy up to date.                                   *)
LEMMA DeliverInv == ASSUME IInv, NEW r \in Requests, Deliver(r) PROVE IInv'
<1>1. TypeOK' /\ \A q \in Requests : Edited(q)'
  BY DEF IInv, TypeOK, Deliver, Edited, apiVars, history
<1>2. ASSUME NEW q \in Requests, q # r PROVE Sound(q)'
  BY <1>2, Untouched DEF IInv, TypeOK, Deliver, apiVars, history
<1>3. Sound(r)'
  <2>1. /\ listed'[r] = requests[r]
        /\ UNCHANGED <<requests, cached, sync, archived, copies, doubts, blind, happened>>
    BY DEF Deliver, IInv, TypeOK, apiVars, history
  <2>2. Sound(r) /\ requests[r] \in Request /\ listed[r] \in Request /\ sync[r].obj \in Request
    BY Types DEF IInv
  <2> QED BY <2>1, <2>2 DEF Sound, Uids, Behind, Stage, Budget, First, Covered, Kept, Dated, Taken,
        MayRepeat, Exists, Started, Results, Addressed, More, Request
<1> QED BY <1>1, <1>2, <1>3 DEF IInv

(* A worker takes a key: an attempt begins only where one may be repeated. *)
LEMMA SyncInv == ASSUME IInv, NEW r \in Requests, Sync(r) PROVE IInv'
<1> DEFINE obj == listed[r]
<1>1. /\ Sound(r) /\ requests[r] \in Request /\ obj \in Request /\ sync[r].at = "idle"
      /\ UNCHANGED <<requests, listed, archived, copies, doubts, blind, happened>>
  BY Types DEF IInv, Sync, apiVars, history
<1>2. ASSUME NEW at \in {"mark", "prepare"}, Begin(r, at)
      PROVE  /\ sync'[r].at = at /\ sync'[r].obj = obj /\ sync'[r].left = {}
             /\ sync'[r].sent = {} /\ sync'[r].failed = {}
             /\ cached'[r] = cached[r] \/ cached'[r] = NoState
             /\ \A q \in Requests \ {r} : sync'[q] = sync[q] /\ cached'[q] = cached[q]
             /\ TypeOK' /\ \A q \in Requests : Edited(q)'
  <2> DEFINE s == [Idle EXCEPT !.at = at, !.obj = obj]
  <2>1. /\ sync' = [sync EXCEPT ![r] = s]
        /\ cached' = [cached EXCEPT ![r] = IF @.uid # obj.uid THEN NoState ELSE @]
    BY <1>2 DEF Begin
  <2>2. s \in Worker BY <1>1, IdleType DEF Worker
  <2>3. s.at = at /\ s.obj = obj BY IdleType DEF Worker
  <2>4. s.left = {} /\ s.sent = {} /\ s.failed = {} BY DEF Idle
  <2> HIDE DEF s
  <2>5. NoState \in [uid : 0..MaxUid, phase : Phases] BY NotifyAssumption DEF NoState, Phases
  <2>6. cached' \in [Requests -> [uid : 0..MaxUid, phase : Phases]]
    BY <2>1, <2>5 DEF IInv, TypeOK
  <2>7. sync' \in [Requests -> Worker] BY <2>1, <2>2 DEF IInv, TypeOK, Worker
  <2>8. TypeOK' /\ \A q \in Requests : Edited(q)'
    BY <2>6, <2>7 DEF IInv, TypeOK, Sync, apiVars, history, Edited, Worker
  <2>9. DOMAIN sync = Requests /\ DOMAIN cached = Requests BY DEF IInv, TypeOK
  <2> QED BY <2>1, <2>3, <2>4, <2>8, <2>9
<1>3. CASE obj.phase = "Pending" /\ Begin(r, "mark")
  <2>1. Sound(r)'
    BY <1>1, <1>2, <1>3 DEF Sound, Uids, Behind, Stage, Budget, First, Covered, Kept, Dated, Taken,
        MayRepeat, Exists, Started, Results, More, Request, NoState
  <2>2. ASSUME NEW q \in Requests, q # r PROVE Sound(q)'
    BY <1>1, <1>2, <1>3, <2>2, Untouched DEF IInv
  <2> QED BY <1>2, <1>3, <2>1, <2>2 DEF IInv
<1>4. CASE obj.phase = "Sending" /\ cached[r].phase = "Pending" /\ Begin(r, "prepare")
  <2>1. Sound(r)'
    BY <1>1, <1>2, <1>4 DEF Sound, Uids, Behind, Stage, Budget, First, Covered, Kept, Dated, Taken,
        MayRepeat, Exists, Started, Results, More, Request, NoState
  <2>2. ASSUME NEW q \in Requests, q # r PROVE Sound(q)'
    BY <1>1, <1>2, <1>4, <2>2, Untouched DEF IInv
  <2> QED BY <1>2, <1>4, <2>1, <2>2 DEF IInv
<1>5. CASE /\ cached' = [cached EXCEPT ![r] = NoState]
              \/ /\ obj.phase \in Results \cup {"Sending"}
                 /\ cached' = [cached EXCEPT ![r] = [uid |-> obj.uid, phase |-> obj.phase]]
           /\ UNCHANGED sync
  <2>1. cached'[r].phase # "Pending" /\ \A q \in Requests \ {r} : cached'[q] = cached[q]
    BY <1>5 DEF IInv, TypeOK, NoState, Results
  <2>2. Sound(r)'
    BY <1>1, <1>5, <2>1 DEF Sound, Uids, Behind, Stage, Budget, First, Covered, Kept, Dated, Taken,
        MayRepeat, Exists, Started, Results, More, Request, Addressed
  <2>3. ASSUME NEW q \in Requests, q # r PROVE Sound(q)'
    BY <1>1, <1>5, <2>1, <2>3, Untouched DEF IInv
  <2>4. cached' \in [Requests -> [uid : 0..MaxUid, phase : Phases]]
    <3>1. /\ NoState \in [uid : 0..MaxUid, phase : Phases]
          /\ [uid |-> obj.uid, phase |-> obj.phase] \in [uid : 0..MaxUid, phase : Phases]
      BY <1>1, NotifyAssumption DEF NoState, Phases, Request
    <3> QED BY <1>5, <3>1 DEF IInv, TypeOK
  <2>5. TypeOK' /\ \A q \in Requests : Edited(q)'
    BY <1>5, <2>4 DEF IInv, TypeOK, Sync, apiVars, history, Edited
  <2> QED BY <2>2, <2>3, <2>5 DEF IInv
<1>6. \/ obj.phase = "Pending" /\ Begin(r, "mark")
      \/ obj.phase = "Sending" /\ cached[r].phase = "Pending" /\ Begin(r, "prepare")
      \/ /\ cached' = [cached EXCEPT ![r] = NoState]
            \/ /\ obj.phase \in Results \cup {"Sending"}
               /\ cached' = [cached EXCEPT ![r] = [uid |-> obj.uid, phase |-> obj.phase]]
         /\ UNCHANGED sync
  BY DEF Sync
<1> QED BY <1>3, <1>4, <1>5, <1>6

(* What a fault changes.                                                   *)
LEMMA FaultHappens ==
    ASSUME IInv, NEW kind, Fault(kind)
    PROVE  happened \subseteq happened' /\ happened' \subseteq FaultKinds /\ kind \in happened'
BY DEF IInv, TypeOK, Fault

(* An attempt that stays one: the worker of r moves on before the end.     *)
LEMMA Moves ==
    ASSUME IInv, NEW r \in Requests, NEW s \in Worker, sync' = [sync EXCEPT ![r] = s],
           UNCHANGED <<apiVars, listed, dirty, cached, deleter, copies, doubts, edits>>,
           blind' \in {blind, blind \cup {r}},
           happened \subseteq happened', happened' \subseteq FaultKinds, Sound(r)'
    PROVE  IInv'
<1>1. TypeOK'
  <2>1. sync' \in [Requests -> Worker] BY DEF IInv, TypeOK, Worker
  <2> QED BY <2>1 DEF IInv, TypeOK, apiVars, Worker
<1>2. ASSUME NEW q \in Requests, q # r PROVE Sound(q)'
  <2>1. sync'[q] = sync[q] BY <1>2 DEF IInv, TypeOK
  <2> QED BY <2>1, Untouched DEF IInv, apiVars
<1>3. ASSUME NEW q \in Requests PROVE Edited(q)'
  BY DEF IInv, Edited, apiVars
<1> QED BY <1>1, <1>2, <1>3 DEF IInv

(* Whom an attempt will try, or has failed for, before the first message.  *)
LEMMA Readied ==
    ASSUME IInv, NEW r \in Requests, sync[r].at = "prepare",
           NEW s \in Worker, sync' = [sync EXCEPT ![r] = s],
           UNCHANGED <<apiVars, listed, dirty, cached, deleter, copies, doubts, edits>>,
           blind' \in {blind, blind \cup {r}},
           happened \subseteq happened', happened' \subseteq FaultKinds,
           s.at \in {"send", "store"}, s.at = "store" => s.left = {},
           s.sent = {}, s.obj = sync[r].obj,
           Current(r) /\ r \notin blind' => Addressed(r) \subseteq s.left \cup s.failed
    PROVE  IInv'
<1>1. sync'[r] = s BY DEF IInv, TypeOK
<1>2. Sound(r) /\ doubts[r] \in 0..Most /\ copies[r] \in [Receivers -> 0..Most]
      /\ requests[r] \in Request
      /\ s.left \subseteq Receivers /\ Addressed(r) \subseteq Receivers /\ Most \in Nat
  BY Types, NotifyAssumption DEF IInv, Worker
<1>3. UNCHANGED <<requests, listed, cached, archived, copies, doubts>> BY DEF apiVars
<1>4. Uids(r)' /\ Behind(r)' BY <1>1, <1>2, <1>3 DEF Sound, Uids, Behind, Taken, Exists
<1>5. Stage(r)' BY <1>1, <1>2, <1>3 DEF Sound, Stage
<1>6. Budget(r)' BY <1>1, <1>2, <1>3 DEF Sound, Budget, Taken, MayRepeat, More
<1>7. First(r)' BY <1>1, <1>2, <1>3 DEF Sound, Budget, First, Taken, MayRepeat
<1>8. Covered(r)'
  <2>1. Taken(r) => Current(r)
    BY <1>1, <1>2 DEF Sound, Uids, Taken, Current, Exists, Started, Results
  <2> QED BY <1>1, <1>2, <1>3, <2>1 DEF Sound, Covered, Taken, Addressed
<1>9. Kept(r)' /\ Dated(r)'
  BY <1>1, <1>2, <1>3 DEF Sound, Kept, Dated, Taken, MayRepeat, Started, Results
<1> QED BY <1>4, <1>5, <1>6, <1>7, <1>8, <1>9, Moves DEF Sound

(* What is left to try after the reads: the receivers that were found.     *)
LEMMA PreparedWorker ==
    ASSUME IInv, NEW r \in Requests, sync[r].at = "prepare", NEW to \in SUBSET Receivers
    PROVE  \E s \in Worker :
        /\ Prepared(r, to) = [sync EXCEPT ![r] = s]
        /\ s.at \in {"send", "store"} /\ (s.at = "store" => s.left = {})
        /\ s.sent = {} /\ s.obj = sync[r].obj /\ to \subseteq s.left \cup s.failed
<1> DEFINE readable == ChannelExists(ChannelOf[r]) /\ templates[ChannelOf[r]] # NoTemplate
           s == [sync[r] EXCEPT !.at = IF to # {} /\ readable THEN "send" ELSE "store",
                                !.left = IF readable THEN to ELSE {},
                                !.failed = IF readable THEN {} ELSE to,
                                !.shape = templates[ChannelOf[r]].shape]
<1>1. sync[r] \in Worker /\ sync[r].sent = {}
  BY DEF IInv, TypeOK, Worker, Sound, Stage
<1>2. templates[ChannelOf[r]].shape \in Shapes \cup {"none"}
  BY NotifyAssumption DEF IInv, TypeOK, Template, NoTemplate
<1>3. s \in Worker /\ s.at \in {"send", "store"} /\ (s.at = "store" => s.left = {})
      /\ s.sent = {} /\ s.obj = sync[r].obj /\ to \subseteq s.left \cup s.failed
  BY <1>1, <1>2 DEF Worker
<1>4. Prepared(r, to) = [sync EXCEPT ![r] = s] BY DEF Prepared, IInv, TypeOK
<1> HIDE DEF s
<1> QED BY <1>3, <1>4

(* An attempt that passes over receivers leaves nothing to try.            *)
LEMMA NobodyWorker ==
    ASSUME IInv, NEW r \in Requests, sync[r].at = "prepare"
    PROVE  \E s \in Worker :
        /\ Nobody(r) = [sync EXCEPT ![r] = s]
        /\ s.at = "store" /\ s.left = {} /\ s.sent = {} /\ s.obj = sync[r].obj
<1> DEFINE s == [sync[r] EXCEPT !.at = "store"]
<1>1. sync[r] \in Worker /\ sync[r].sent = {} /\ sync[r].left = {}
  BY DEF IInv, TypeOK, Worker, Sound, Stage
<1>2. s \in Worker /\ s.at = "store" /\ s.left = {} /\ s.sent = {} /\ s.obj = sync[r].obj
  BY <1>1 DEF Worker
<1>3. Nobody(r) = [sync EXCEPT ![r] = s] BY DEF Nobody, IInv, TypeOK
<1> HIDE DEF s
<1> QED BY <1>2, <1>3

(* The groups, the channels and the template are read, or the attempt      *)
(* passes over everybody.                                                  *)
LEMMA PrepareInv == ASSUME IInv, NEW r \in Requests, Prepare(r) PROVE IInv'
<1>1. sync[r].at = "prepare" /\ Addressed(r) \in SUBSET Receivers
  BY Types DEF Prepare, IInv
<1>2. UNCHANGED <<apiVars, listed, dirty, cached, deleter, copies, doubts, edits, happened>>
  BY DEF Prepare, history
<1>3. happened' \subseteq FaultKinds BY <1>2 DEF IInv, TypeOK
<1>4. CASE sync' = Prepared(r, Addressed(r)) /\ UNCHANGED blind
  BY <1>1, <1>2, <1>3, <1>4, PreparedWorker, Readied
<1>5. CASE sync' = Nobody(r) /\ Overlooked(r)
  <2>1. blind' \in {blind, blind \cup {r}} /\ (Current(r) => r \in blind')
    BY <1>5 DEF Overlooked
  <2> QED BY <1>1, <1>2, <1>3, <1>5, <2>1, NobodyWorker, Readied
<1> QED BY <1>4, <1>5 DEF Prepare

(* A read fails: of the groups, of the list, of channel or template.       *)
LEMMA PrepareFailsInv == ASSUME IInv, NEW r \in Requests, PrepareFails(r) PROVE IInv'
<1> DEFINE get == [sync[r] EXCEPT !.at = "store", !.failed = Addressed(r)]
<1>1. sync[r].at = "prepare" /\ sync[r].sent = {} /\ sync[r].left = {} /\ sync[r] \in Worker
  BY DEF PrepareFails, IInv, Sound, Stage, TypeOK, Worker
<1>2. UNCHANGED <<apiVars, listed, dirty, cached, deleter, copies, doubts, edits>>
  BY DEF PrepareFails
<1>3. Addressed(r) \subseteq Receivers /\ Direct[r] \in SUBSET Receivers
  BY Types, NotifyAssumption DEF IInv
<1>4. Overlooked(r) => blind' \in {blind, blind \cup {r}} /\ (Current(r) => r \in blind')
  BY DEF Overlooked
<1>5. CASE Fault("group") /\ sync' = Prepared(r, Direct[r]) /\ Overlooked(r)
  <2>1. happened \subseteq happened' /\ happened' \subseteq FaultKinds BY <1>5, FaultHappens
  <2> QED BY <1>1, <1>2, <1>3, <1>4, <1>5, <2>1, PreparedWorker, Readied
<1>6. CASE (Fault("group") \/ Fault("list")) /\ sync' = Nobody(r) /\ Overlooked(r)
  <2>1. happened \subseteq happened' /\ happened' \subseteq FaultKinds BY <1>6, FaultHappens
  <2> QED BY <1>1, <1>2, <1>4, <1>6, <2>1, NobodyWorker, Readied
<1>7. CASE Fault("get") /\ sync' = [sync EXCEPT ![r].at = "store", ![r].failed = Addressed(r)]
           /\ UNCHANGED blind
  <2>1. get \in Worker /\ get.at = "store" /\ get.left = sync[r].left
        /\ get.sent = sync[r].sent /\ get.obj = sync[r].obj /\ get.failed = Addressed(r)
    BY <1>1, <1>3 DEF Worker
  <2>2. sync' = [sync EXCEPT ![r] = get] BY <1>7 DEF IInv, TypeOK
  <2>3. happened \subseteq happened' /\ happened' \subseteq FaultKinds BY <1>7, FaultHappens
  <2> HIDE DEF get
  <2> QED BY <1>1, <1>2, <1>7, <2>1, <2>2, <2>3, Readied, ZenonT(40)
<1> QED BY <1>5, <1>6, <1>7 DEF PrepareFails

(* What a message to one receiver changes.                                 *)
LEMMA SendSteps ==
    ASSUME IInv, NEW r \in Requests, NEW v \in Receivers, SendTo(r, v)
    PROVE  \E out \in BOOLEAN, s \in Worker :
        /\ sync' = [sync EXCEPT ![r] = s] /\ sync'[r] = s
        /\ s.at = "send" /\ s.obj = sync[r].obj /\ s.left = sync[r].left \ {v}
        /\ s.sent = IF out THEN sync[r].sent \cup {v} ELSE sync[r].sent
        /\ ~out => v \in s.failed
        /\ sync[r].failed \subseteq s.failed
        /\ copies' = IF out /\ Current(r)
                     THEN [copies EXCEPT ![r] = [copies[r] EXCEPT ![v] = More(copies[r][v])]]
                     ELSE copies
        /\ sync[r].at = "send" /\ v \in sync[r].left
        /\ UNCHANGED <<apiVars, listed, dirty, cached, deleter, doubts, blind, edits, happened>>
<1>1. PICK out \in BOOLEAN :
        /\ sync' = [sync EXCEPT
               ![r].left = @ \ {v},
               ![r].sent = IF out THEN @ \cup {v} ELSE @,
               ![r].failed = IF out /\ sync[r].shape = "own" THEN @ ELSE @ \cup {v}]
        /\ copies' = IF out /\ Current(r) THEN [copies EXCEPT ![r][v] = More(@)] ELSE copies
  BY DEF SendTo
<1> DEFINE s == [sync[r] EXCEPT
               !.left = @ \ {v},
               !.sent = IF out THEN @ \cup {v} ELSE @,
               !.failed = IF out /\ sync[r].shape = "own" THEN @ ELSE @ \cup {v}]
<1>2. sync[r] \in Worker /\ sync[r].at = "send" /\ v \in sync[r].left
  BY DEF IInv, TypeOK, Worker, SendTo
<1>3. s \in Worker BY <1>2 DEF Worker
<1>4. /\ s.at = "send" /\ s.obj = sync[r].obj /\ s.left = sync[r].left \ {v}
      /\ s.sent = IF out THEN sync[r].sent \cup {v} ELSE sync[r].sent
      /\ s.failed = IF out /\ sync[r].shape = "own" THEN sync[r].failed ELSE sync[r].failed \cup {v}
  BY <1>2 DEF Worker
<1>5. sync' = [sync EXCEPT ![r] = s] /\ sync'[r] = s BY <1>1 DEF IInv, TypeOK
<1> HIDE DEF s
<1> QED BY <1>1, <1>2, <1>3, <1>4, <1>5 DEF SendTo

(* A message goes out: to a receiver who had none of this attempt.         *)
LEMMA SendToInv ==
    ASSUME IInv, NEW r \in Requests, NEW v \in Receivers, SendTo(r, v) PROVE IInv'
<1>1. PICK out \in BOOLEAN, s \in Worker :
        /\ sync' = [sync EXCEPT ![r] = s] /\ sync'[r] = s
        /\ s.at = "send" /\ s.obj = sync[r].obj /\ s.left = sync[r].left \ {v}
        /\ s.sent = IF out THEN sync[r].sent \cup {v} ELSE sync[r].sent
        /\ ~out => v \in s.failed
        /\ sync[r].failed \subseteq s.failed
        /\ copies' = IF out /\ Current(r)
                     THEN [copies EXCEPT ![r] = [copies[r] EXCEPT ![v] = More(copies[r][v])]]
                     ELSE copies
        /\ sync[r].at = "send" /\ v \in sync[r].left
        /\ UNCHANGED <<apiVars, listed, dirty, cached, deleter, doubts, blind, edits, happened>>
  BY SendSteps
<1>2. /\ Sound(r) /\ doubts[r] \in 0..Most /\ copies[r] \in [Receivers -> 0..Most]
      /\ requests[r] \in Request /\ sync[r].left \subseteq Receivers
      /\ Addressed(r) \subseteq Receivers /\ Most \in Nat /\ Most > 1
  <2>1. TypeOK /\ Sound(r) BY DEF IInv
  <2>2. Most \in Nat /\ Most > 1 BY NotifyAssumption
  <2> QED BY <2>1, <2>2, Types
<1>3. UNCHANGED <<requests, listed, cached, archived, doubts, blind, happened>> BY <1>1 DEF apiVars
<1>4. copies'[r] = IF out /\ Current(r) THEN [copies[r] EXCEPT ![v] = More(copies[r][v])] ELSE copies[r]
  BY <1>1 DEF IInv, TypeOK
<1>5. copies'[r] \in [Receivers -> 0..Most] BY <1>2, <1>4 DEF More
<1>6. Taken(r) => Current(r)
  BY <1>1, <1>2 DEF Sound, Uids, Taken, Current, Exists, Started, Results
<1>7. Sound(r)'
  <2>1. Uids(r)' /\ Behind(r)' BY <1>1, <1>2, <1>3 DEF Sound, Uids, Behind, Taken, Exists
  <2>2. Stage(r)' BY <1>1, <1>2, <1>3 DEF Sound, Stage
  <2>3. requests[r].phase = "Pending" => ~Current(r)
    BY <1>1, <1>2 DEF Sound, Behind, Stage, Current, Started
  <2>4. Budget(r)'
    BY <1>1, <1>2, <1>3, <1>4, <1>6, <2>3 DEF Sound, Budget, Taken, MayRepeat, More
  <2>5. First(r)' BY <1>1, <1>2, <1>3, <1>4, <1>6 DEF Sound, First, Taken, More
  <2>6. Covered(r)' BY <1>1, <1>2, <1>3, <1>4, <1>6 DEF Sound, Covered, Taken, Addressed, More, Started, Results
  <2>7. Kept(r)' /\ Dated(r)'
    BY <1>1, <1>2, <1>3, <1>4, <1>6 DEF Sound, Kept, Dated, Taken, MayRepeat, More
  <2> QED BY <2>1, <2>2, <2>4, <2>5, <2>6, <2>7 DEF Sound
<1>8. ASSUME NEW q \in Requests, q # r PROVE Sound(q)'
  <2>1. sync'[q] = sync[q] /\ copies'[q] = copies[q] BY <1>1, <1>8 DEF IInv, TypeOK
  <2> QED BY <1>3, <2>1, Untouched DEF IInv
<1>9. TypeOK'
  <2>1. sync' \in [Requests -> Worker] BY <1>1 DEF IInv, TypeOK, Worker
  <2>2. copies' \in [Requests -> [Receivers -> 0..Most]]
    BY <1>1, <1>4, <1>5 DEF IInv, TypeOK
  <2> QED BY <1>1, <2>1, <2>2 DEF IInv, TypeOK, Worker, apiVars
<1>10. ASSUME NEW q \in Requests PROVE Edited(q)' BY <1>1 DEF IInv, Edited, apiVars
<1> QED BY <1>7, <1>8, <1>9, <1>10 DEF IInv

(* The messages sent are archived, unless that fails.                      *)
LEMMA ArchiveInv == ASSUME IInv, NEW r \in Requests, Archive(r) PROVE IInv'
<1> DEFINE s == [sync[r] EXCEPT !.at = "store"]
<1>1. PICK kept \in {sync[r].sent, {}} :
        /\ archived' = [archived EXCEPT ![r] = [v \in Receivers |->
               IF v \in kept /\ archived[r][v] = 0 THEN sync[r].obj.uid ELSE archived[r][v]]]
        /\ IF kept = sync[r].sent THEN UNCHANGED happened ELSE Fault("archive")
  BY DEF Archive
<1>2. /\ sync[r].at = "send" /\ sync[r].left = {} /\ sync' = [sync EXCEPT ![r] = s]
      /\ UNCHANGED <<requests, channels, templates, selfdefined, listed, dirty, cached, deleter,
                     copies, doubts, blind, edits>>
  BY DEF Archive
<1>3. /\ Sound(r) /\ doubts[r] \in 0..Most /\ copies[r] \in [Receivers -> 0..Most]
      /\ requests[r] \in Request /\ sync[r] \in Worker
      /\ Addressed(r) \subseteq Receivers /\ Most \in Nat /\ Most > 1
  BY Types, NotifyAssumption DEF IInv, TypeOK, Worker
<1>4. s \in Worker /\ s.at = "store" /\ s.left = {} /\ s.sent = sync[r].sent
      /\ s.failed = sync[r].failed /\ s.obj = sync[r].obj
  BY <1>2, <1>3 DEF Worker
<1>5. happened \subseteq happened' /\ happened' \subseteq FaultKinds
      /\ (kept # sync[r].sent => "archive" \in happened')
  BY <1>1, FaultHappens DEF IInv, TypeOK
<1> HIDE DEF s
<1>6. sync'[r] = s /\ archived'[r] = [v \in Receivers |->
               IF v \in kept /\ archived[r][v] = 0 THEN sync[r].obj.uid ELSE archived[r][v]]
  BY <1>1, <1>2 DEF IInv, TypeOK
<1>7. Sound(r)'
  <2>1. Uids(r)' /\ Behind(r)' BY <1>2, <1>3, <1>4, <1>6 DEF Sound, Uids, Behind, Taken, Exists
  <2>2. Stage(r)' BY <1>2, <1>3, <1>4, <1>6 DEF Sound, Stage
  <2>3. Budget(r)' BY <1>2, <1>3, <1>4, <1>6 DEF Sound, Budget, Taken, MayRepeat, More
  <2>4. First(r)' BY <1>2, <1>3, <1>4, <1>6 DEF Sound, First, Taken
  <2>5. Covered(r)' BY <1>2, <1>3, <1>4, <1>5, <1>6 DEF Sound, Covered, Taken, Addressed
  <2>6. Kept(r)'
    <3>1. Taken(r) => sync[r].obj.uid # 0
      BY <1>2, <1>3 DEF Sound, Uids, Taken, Exists, Started, Results, Request
    <3>2. happened' \cap {"archive", "lost"} = {} => kept = sync[r].sent
                                                  /\ happened \cap {"archive", "lost"} = {}
      BY <1>5
    <3> QED BY <1>2, <1>3, <1>4, <1>5, <1>6, <3>1, <3>2 DEF Sound, Kept, Taken, MayRepeat
  <2>7. Dated(r)'
    <3>1. sync[r].obj.uid <= requests[r].uid /\ archived[r] \in [Receivers -> 0..MaxUid]
      <4>1. sync[r].obj \in Request /\ listed[r] \in Request /\ requests[r] \in Request
            /\ archived[r] \in [Receivers -> 0..MaxUid]
        BY Types DEF IInv
      <4> QED BY <1>3, <4>1, NotifyAssumption DEF Sound, Uids, Request
    <3> QED BY <1>2, <1>3, <1>6, <3>1 DEF Sound, Dated
  <2> QED BY <2>1, <2>2, <2>3, <2>4, <2>5, <2>6, <2>7 DEF Sound
<1>8. ASSUME NEW q \in Requests, q # r PROVE Sound(q)'
  <2>1. sync'[q] = sync[q] /\ archived'[q] = archived[q] BY <1>1, <1>2, <1>8 DEF IInv, TypeOK
  <2> QED BY <1>2, <1>5, <2>1, Untouched DEF IInv
<1>9. TypeOK'
  <2>1. sync' \in [Requests -> Worker] BY <1>2, <1>4 DEF IInv, TypeOK, Worker
  <2>2. sync[r].obj.uid \in 0..MaxUid BY <1>3 DEF Worker, Request
  <2>3. archived' \in [Requests -> [Receivers -> 0..MaxUid]]
    BY <1>1, <2>2 DEF IInv, TypeOK
  <2> QED BY <1>2, <1>5, <2>1, <2>3 DEF IInv, TypeOK, Worker
<1>10. ASSUME NEW q \in Requests PROVE Edited(q)' BY <1>2 DEF IInv, Edited
<1> QED BY <1>7, <1>8, <1>9, <1>10 DEF IInv

(* The end of a sync without an error: the cache learns the phase read.    *)
LEMMA DoneChanges ==
    ASSUME IInv, NEW r \in Requests, Done(r)
    PROVE  /\ sync' \in [Requests -> Worker] /\ sync'[r] = Idle
           /\ cached' \in [Requests -> [uid : 0..MaxUid, phase : Phases]]
           /\ cached'[r].uid = sync[r].obj.uid /\ cached'[r].phase = sync[r].obj.phase
           /\ \A q \in Requests \ {r} : sync'[q] = sync[q] /\ cached'[q] = cached[q]
           /\ UNCHANGED <<listed, dirty>>
<1>1. sync[r].obj \in Request BY Types DEF IInv
<1>2. [uid |-> sync[r].obj.uid, phase |-> sync[r].obj.phase] \in [uid : 0..MaxUid, phase : Phases]
  BY <1>1 DEF Request
<1> QED BY <1>2, IdleType DEF IInv, TypeOK, Done, Worker

(* The end of a sync with an error: a doubt, if a result was to be stored. *)
LEMMA FailChanges ==
    ASSUME IInv, NEW r \in Requests, Fail(r)
    PROVE  /\ sync' \in [Requests -> Worker] /\ sync'[r] = Idle
           /\ dirty' \subseteq Requests /\ UNCHANGED <<listed, cached>>
           /\ doubts' \in [Requests -> 0..Most]
           /\ doubts'[r] = IF sync[r].at = "store" /\ Current(r) THEN More(doubts[r]) ELSE doubts[r]
           /\ \A q \in Requests \ {r} : sync'[q] = sync[q] /\ doubts'[q] = doubts[q]
<1>1. doubts[r] \in 0..Most /\ Most \in Nat BY Types, NotifyAssumption DEF IInv
<1>2. More(doubts[r]) \in 0..Most BY <1>1 DEF More
<1>3. doubts' = IF sync[r].at = "store" /\ Current(r)
                THEN [doubts EXCEPT ![r] = More(doubts[r])] ELSE doubts
  BY DEF Fail, IInv, TypeOK
<1> QED BY <1>2, <1>3, IdleType DEF IInv, TypeOK, Fail, Again, Worker

(* An attempt that ends in an error can be repeated: the doubt pays for    *)
(* the messages it sent.                                                   *)
LEMMA FailInv ==
    ASSUME IInv, NEW r \in Requests, sync[r].at \in {"mark", "store"}, Fail(r),
           UNCHANGED <<apiVars, deleter, copies, blind, edits>>,
           happened \subseteq happened', happened' \subseteq FaultKinds
    PROVE  IInv'
<1>1. /\ Sound(r) /\ doubts[r] \in 0..Most /\ copies[r] \in [Receivers -> 0..Most]
      /\ requests[r] \in Request /\ listed[r] \in Request /\ Most \in Nat /\ Most > 1
      /\ sync[r].obj \in Request
  BY Types, NotifyAssumption DEF IInv
<1>2. /\ sync'[r].at = "idle" /\ sync'[r].obj.uid = 0 /\ sync'[r].obj.phase = "Absent"
  BY FailChanges DEF Idle
<1>3. /\ UNCHANGED <<requests, archived, listed, cached, copies>>
      /\ doubts'[r] = IF sync[r].at = "store" /\ Current(r) THEN More(doubts[r]) ELSE doubts[r]
      /\ doubts'[r] \in 0..Most
  BY FailChanges DEF apiVars
<1>4. Sound(r)'
  <2>1. Uids(r)' /\ Behind(r)' /\ Stage(r)' /\ First(r)'
    BY <1>1, <1>2, <1>3 DEF Sound, Uids, Behind, Stage, First, Taken, Exists, Started, Results, Request
  <2>2. Taken(r) /\ sync[r].at = "store" => Current(r)
    BY <1>1 DEF Sound, Uids, Taken, Current, Exists, Started, Results
  <2>3. requests[r].phase = "Pending" => ~(sync[r].at = "store" /\ Current(r))
    BY <1>1 DEF Sound, Behind, Stage, Current, Started
  <2>4. Budget(r)'
    BY <1>1, <1>2, <1>3, <2>2, <2>3 DEF Sound, Budget, Taken, MayRepeat, More, Started, Results
  <2>5. Covered(r)' BY <1>1, <1>2, <1>3 DEF Sound, Covered, Taken, Addressed
  <2>6. Kept(r)' /\ Dated(r)' BY <1>1, <1>2, <1>3 DEF Sound, Kept, Dated, Taken, MayRepeat
  <2> QED BY <2>1, <2>4, <2>5, <2>6 DEF Sound
<1>5. ASSUME NEW q \in Requests, q # r PROVE Sound(q)'
  BY <1>3, <1>5, FailChanges, Untouched DEF IInv
<1>6. TypeOK' BY FailChanges DEF IInv, TypeOK, Worker, apiVars
<1>7. ASSUME NEW q \in Requests PROVE Edited(q)' BY DEF IInv, Edited, apiVars
<1> QED BY <1>4, <1>5, <1>6, <1>7 DEF IInv

(* What storing the phase of a worker changes: it is the next one.         *)
LEMMA Stored ==
    ASSUME IInv, NEW r \in Requests, sync[r].at \in {"mark", "store"}, Admitted(r),
           requests' = [requests EXCEPT ![r].phase = Wanted(r)]
    PROVE  /\ requests' \in [Requests -> Request]
           /\ requests'[r].uid = requests[r].uid /\ requests'[r].phase = Wanted(r)
           /\ requests'[r].rev = requests[r].rev
           /\ \A q \in Requests \ {r} : requests'[q] = requests[q]
           /\ requests[r] = sync[r].obj /\ Current(r)
           /\ \/ sync[r].at = "mark" /\ requests[r].phase = "Pending" /\ Wanted(r) = "Sending"
              \/ sync[r].at = "store" /\ requests[r].phase = "Sending" /\ Wanted(r) \in Results
<1> DEFINE new == [requests[r] EXCEPT !.phase = Wanted(r)]
<1>1. requests[r] \in Request /\ Sound(r) BY Types DEF IInv
<1>2. requests[r] = sync[r].obj BY DEF Admitted
<1>3. \/ sync[r].at = "mark" /\ requests[r].phase = "Pending" /\ Wanted(r) = "Sending"
      \/ sync[r].at = "store" /\ requests[r].phase = "Sending" /\ Wanted(r) \in Results
  <2>1. CASE sync[r].at = "mark" BY <1>1, <1>2, <2>1 DEF Wanted, Sound, Stage
  <2>2. CASE sync[r].at = "store"
    <3>1. requests[r].phase = "Sending" BY <1>1, <1>2, <2>2 DEF Sound, Stage
    <3>2. Wanted(r) \in Results BY <2>2 DEF Wanted, Results
    <3> QED BY <2>2, <3>1, <3>2
  <2> QED BY <2>1, <2>2
<1>4. Wanted(r) \in Phases BY <1>3 DEF Phases
<1>5. new \in Request /\ new.uid = requests[r].uid /\ new.phase = Wanted(r)
      /\ new.rev = requests[r].rev
  <2> HIDE DEF Wanted
  <2> QED BY <1>1, <1>4 DEF Request
<1>6. requests' = [requests EXCEPT ![r] = new] BY DEF IInv, TypeOK
<1> HIDE DEF new
<1>7. Current(r) BY <1>2, <1>3 DEF Current, Exists
<1>8. requests \in [Requests -> Request] BY DEF IInv, TypeOK
<1> QED BY <1>2, <1>3, <1>5, <1>6, <1>7, <1>8

(* Everybody a worker with a clean result addresses has a message.         *)
LEMMA CleanResult ==
    ASSUME IInv, NEW r \in Requests, sync[r].at = "store", Taken(r), Wanted(r) = "Sent",
           r \notin blind
    PROVE  \A v \in Addressed(r) : copies[r][v] > 0
<1>1. sync[r].failed = {} BY DEF Wanted
<1>2. sync[r].left = {} BY DEF IInv, Sound, Stage
<1>3. Covered(r) BY DEF IInv, Sound
<1> QED BY <1>1, <1>2, <1>3 DEF Covered

(* A result or the mark is stored, or the request is gone, or it changed.  *)
LEMMA PersistInv == ASSUME IInv, NEW r \in Requests, Persist(r) PROVE IInv'
<1>1. /\ Sound(r) /\ doubts[r] \in 0..Most /\ copies[r] \in [Receivers -> 0..Most]
      /\ requests[r] \in Request /\ listed[r] \in Request /\ Most \in Nat /\ Most > 1
      /\ sync[r].obj \in Request /\ sync[r].at \in {"mark", "store"}
  <2>1. sync[r].at \in {"mark", "store"} BY DEF Persist
  <2>2. Sound(r) BY DEF IInv
  <2>3. TypeOK BY DEF IInv
  <2> QED BY <2>1, <2>2, <2>3, Types, NotifyAssumption
<1>2. UNCHANGED <<channels, templates, selfdefined, archived, deleter, copies, blind, edits, happened>>
  BY DEF Persist
<1>3. CASE Admitted(r) /\ requests' = [requests EXCEPT ![r].phase = Wanted(r)] /\ Done(r)
           /\ UNCHANGED doubts
  <2>1. /\ requests'[r].uid = requests[r].uid /\ requests'[r].phase = Wanted(r)
        /\ requests[r] = sync[r].obj /\ Current(r)
        /\ \/ sync[r].at = "mark" /\ requests[r].phase = "Pending" /\ Wanted(r) = "Sending"
           \/ sync[r].at = "store" /\ requests[r].phase = "Sending" /\ Wanted(r) \in Results
    BY <1>1, <1>3, Stored
  <2>2. /\ sync'[r].at = "idle" /\ sync'[r].obj.uid = 0 /\ sync'[r].obj.phase = "Absent"
        /\ cached'[r].phase = requests[r].phase /\ listed' = listed
    BY <1>3, <2>1, DoneChanges DEF Idle
  <2>3. Taken(r) <=> sync[r].at = "store" BY <2>1 DEF Taken, Started, Results
  <2>4. Uids(r)' /\ Behind(r)' /\ Stage(r)' /\ First(r)'
    BY <1>1, <1>2, <2>1, <2>2
    DEF Sound, Uids, Behind, Stage, First, Taken, Exists, Started, Results, Request
  <2>5. Budget(r)'
    BY <1>1, <1>2, <1>3, <2>1, <2>2, <2>3
    DEF Sound, Budget, Taken, MayRepeat, More, Results, Started
  <2>6. Covered(r)'
    BY <1>1, <1>2, <1>3, <2>1, <2>2, <2>3, CleanResult
    DEF Sound, Covered, Taken, Addressed, Results
  <2>7. Kept(r)' /\ Dated(r)'
    BY <1>1, <1>2, <1>3, <2>1, <2>2, <2>3
    DEF Sound, Budget, Kept, Dated, Taken, MayRepeat, Results, Started
  <2>8. Sound(r)' BY <2>4, <2>5, <2>6, <2>7 DEF Sound
  <2>9. ASSUME NEW q \in Requests, q # r PROVE Sound(q)'
    BY <1>1, <1>2, <1>3, <2>2, <2>9, DoneChanges, Stored, Untouched DEF IInv
  <2>10. TypeOK' BY <1>1, <1>2, <1>3, DoneChanges, Stored, ZenonT(40) DEF IInv, TypeOK, Worker
  <2>11. ASSUME NEW q \in Requests PROVE Edited(q)'
    BY <1>1, <1>2, <1>3, Stored DEF IInv, Edited
  <2> QED BY <2>8, <2>9, <2>10, <2>11 DEF IInv
<1>4. CASE ~Exists(r) /\ Done(r) /\ UNCHANGED <<requests, doubts>>
  <2>1. /\ sync'[r].at = "idle" /\ sync'[r].obj.uid = 0 /\ sync'[r].obj.phase = "Absent"
        /\ listed' = listed
    BY <1>4, DoneChanges DEF Idle
  <2>2. Sound(r)'
    BY <1>1, <1>2, <1>4, <2>1
    DEF Sound, Uids, Behind, Stage, Budget, First, Covered, Kept, Dated, Taken, MayRepeat, Exists,
        Started, Results, Request
  <2>3. ASSUME NEW q \in Requests, q # r PROVE Sound(q)'
    BY <1>2, <1>4, <2>1, <2>3, DoneChanges, Untouched DEF IInv
  <2>4. TypeOK' BY <1>2, <1>4, DoneChanges DEF IInv, TypeOK, Worker
  <2>5. ASSUME NEW q \in Requests PROVE Edited(q)' BY <1>2, <1>4 DEF IInv, Edited
  <2> QED BY <2>2, <2>3, <2>4, <2>5 DEF IInv
<1>5. CASE Fail(r) /\ UNCHANGED requests
  BY <1>1, <1>2, <1>5, FailInv DEF apiVars, IInv, TypeOK
<1> QED BY <1>3, <1>4, <1>5 DEF Persist

(* Every call of persistUpdate fails.                                      *)
LEMMA PersistFailsInv == ASSUME IInv, NEW r \in Requests, PersistFails(r) PROVE IInv'
BY FailInv, FaultHappens DEF PersistFails

(* The phase is stored and the worker does not know.                       *)
LEMMA PersistLostInv == ASSUME IInv, NEW r \in Requests, PersistLost(r) PROVE IInv'
<1>1. /\ Sound(r) /\ doubts[r] \in 0..Most /\ copies[r] \in [Receivers -> 0..Most]
      /\ requests[r] \in Request /\ listed[r] \in Request /\ Most \in Nat /\ Most > 1
      /\ sync[r].obj \in Request /\ sync[r].at \in {"mark", "store"} /\ Admitted(r)
      /\ requests' = [requests EXCEPT ![r].phase = Wanted(r)]
  <2>1. sync[r].at \in {"mark", "store"} /\ Admitted(r)
        /\ requests' = [requests EXCEPT ![r].phase = Wanted(r)]
    BY DEF PersistLost
  <2>2. /\ Sound(r) /\ doubts[r] \in 0..Most /\ copies[r] \in [Receivers -> 0..Most]
        /\ requests[r] \in Request /\ listed[r] \in Request /\ Most \in Nat /\ Most > 1
        /\ sync[r].obj \in Request
    BY Types, NotifyAssumption DEF IInv
  <2> QED BY <2>1, <2>2
<1>2. UNCHANGED <<channels, templates, selfdefined, archived, listed, dirty, cached, sync, deleter, copies, doubts, blind, edits>>
  BY DEF PersistLost, workerVars
<1>3. happened \subseteq happened' /\ happened' \subseteq FaultKinds /\ "lost" \in happened'
  BY FaultHappens DEF PersistLost
<1>4. /\ requests'[r].uid = requests[r].uid /\ requests'[r].phase = Wanted(r)
      /\ requests[r] = sync[r].obj /\ Current(r)
      /\ \/ sync[r].at = "mark" /\ requests[r].phase = "Pending" /\ Wanted(r) = "Sending"
         \/ sync[r].at = "store" /\ requests[r].phase = "Sending" /\ Wanted(r) \in Results
  BY <1>1, Stored
<1>5. Taken(r) <=> sync[r].at = "store" BY <1>4 DEF Taken, Started, Results
<1>6. Sound(r)'
  <2>1. Uids(r)' /\ Behind(r)' /\ Stage(r)'
    BY <1>1, <1>2, <1>4
    DEF Sound, Uids, Behind, Stage, Taken, Exists, Started, Results, Request
  <2>2. First(r)' BY <1>1, <1>2, <1>4, <1>5 DEF Sound, First, Taken
  <2>3. Budget(r)'
    BY <1>1, <1>2, <1>4, <1>5 DEF Sound, Budget, Taken, MayRepeat, More, Results, Started
  <2>4. Covered(r)'
    BY <1>1, <1>2, <1>3, <1>4, <1>5, CleanResult DEF Sound, Covered, Taken, Addressed, Results
  <2>5. Kept(r)' /\ Dated(r)' BY <1>1, <1>2, <1>3, <1>4 DEF Sound, Kept, Dated
  <2> QED BY <2>1, <2>2, <2>3, <2>4, <2>5 DEF Sound
<1>7. ASSUME NEW q \in Requests, q # r PROVE Sound(q)'
  BY <1>1, <1>2, <1>3, <1>7, Stored, Untouched DEF IInv
<1>8. TypeOK' BY <1>1, <1>2, <1>3, Stored DEF IInv, TypeOK, Worker
<1>9. ASSUME NEW q \in Requests PROVE Edited(q)' BY <1>1, <1>2, Stored DEF IInv, Edited
<1> QED BY <1>6, <1>7, <1>8, <1>9 DEF IInv

(* The channels, their templates and their deleters touch no request.      *)
LEMMA ChannelInv ==
    ASSUME IInv, NEW c \in Channels,
           WriteTemplate(c) \/ DeleteTemplate(c) \/ DeleteChannel(c) \/ DeleterWork(c) \/ DeleterFails(c)
    PROVE  IInv'
<1> DEFINE Channel == [phase : {"Actived", "Terminating", "Absent"}, finalizer : BOOLEAN]
<1>1. /\ UNCHANGED <<requests, listed, cached, sync, copies, doubts, blind, archived, dirty, selfdefined>>
      /\ happened \subseteq happened' /\ happened' \subseteq FaultKinds
  <2>1. CASE DeleterFails(c)
    BY <2>1, FaultHappens DEF DeleterFails, apiVars, workerVars
  <2>2. CASE WriteTemplate(c) \/ DeleteTemplate(c) \/ DeleteChannel(c)
    BY <2>2 DEF WriteTemplate, DeleteTemplate, DeleteChannel, workerVars, IInv, TypeOK
  <2>3. CASE DeleterWork(c)
    BY <2>3 DEF DeleterWork, WakeDeleter, DropContent, Finalize, Remove, apiVars, workerVars,
                history, IInv, TypeOK
  <2> QED BY <2>1, <2>2, <2>3
<1>2. edits' \in 0..MaxEdits /\ edits <= edits'
  <2>1. edits \in 0..MaxEdits BY DEF IInv, TypeOK
  <2>2. edits' = edits \/ (edits < MaxEdits /\ edits' = edits + 1)
    <3>1. CASE WriteTemplate(c) \/ DeleteTemplate(c) \/ DeleteChannel(c)
      BY <3>1 DEF WriteTemplate, DeleteTemplate, DeleteChannel
    <3>2. ASSUME DeleterWork(c) \/ DeleterFails(c) PROVE edits' = edits
      BY <3>2 DEF DeleterWork, WakeDeleter, DropContent, Finalize, Remove, DeleterFails, history
    <3> QED BY <3>1, <3>2
  <2> QED BY <2>1, <2>2, NotifyAssumption
<1>3. channels' \in [Channels -> Channel]
  <2>1. channels \in [Channels -> Channel] BY DEF IInv, TypeOK
  <2>2. \/ channels' = channels
        \/ \E p \in {"Terminating", "Absent"} : channels' = [channels EXCEPT ![c].phase = p]
        \/ channels' = [channels EXCEPT ![c].finalizer = FALSE]
    BY DEF WriteTemplate, DeleteTemplate, DeleteChannel, MarkChannel, RemoveChannel, DeleterWork,
           WakeDeleter, DropContent, Finalize, Remove, DeleterFails, apiVars
  <2> QED BY <2>1, <2>2
<1>4. templates' \in [Channels -> Template \cup {NoTemplate}]
  <2>1. templates \in [Channels -> Template \cup {NoTemplate}] BY DEF IInv, TypeOK
  <2>2. \/ templates' = templates
        \/ \E t \in Template \cup {NoTemplate} : templates' = [templates EXCEPT ![c] = t]
    BY DEF WriteTemplate, DeleteTemplate, DeleteChannel, DeleterWork, WakeDeleter, DropContent,
           Finalize, Remove, DeleterFails, apiVars
  <2> QED BY <2>1, <2>2
<1>5. deleter' \in [Channels -> {"idle", "content", "finalize", "remove"}]
  <2>1. deleter \in [Channels -> {"idle", "content", "finalize", "remove"}] BY DEF IInv, TypeOK
  <2>2. \/ deleter' = deleter
        \/ \E d \in {"idle", "content", "finalize", "remove"} : deleter' = [deleter EXCEPT ![c] = d]
    BY DEF WriteTemplate, DeleteTemplate, DeleteChannel, DeleterWork, WakeDeleter, DropContent,
           Finalize, Remove, DeleterFails
  <2> QED BY <2>1, <2>2
<1>6. TypeOK' BY <1>1, <1>2, <1>3, <1>4, <1>5 DEF IInv, TypeOK
<1>7. ASSUME NEW q \in Requests PROVE Sound(q)'
  BY <1>1, Untouched DEF IInv
<1>8. ASSUME NEW q \in Requests PROVE Edited(q)'
  <2>1. requests[q].rev \in 0..MaxEdits /\ edits \in 0..MaxEdits
    BY Types DEF IInv, TypeOK, Request
  <2> QED BY <1>1, <1>2, <2>1, NotifyAssumption DEF IInv, Edited
<1> QED BY <1>6, <1>7, <1>8 DEF IInv

(* Nor does a self-defined channel.                                        *)
LEMMA SelfdefinedInv == ASSUME IInv, WriteSelfdefined PROVE IInv'
<1>1. /\ UNCHANGED <<requests, channels, templates, archived, listed, dirty, cached, sync, deleter,
                     copies, doubts, blind, happened>>
      /\ selfdefined' = ~selfdefined /\ edits < MaxEdits /\ edits' = edits + 1
  BY DEF WriteSelfdefined, workerVars
<1>2. edits \in 0..MaxEdits BY DEF IInv, TypeOK
<1>3. TypeOK' BY <1>1, <1>2, NotifyAssumption DEF IInv, TypeOK
<1>4. ASSUME NEW r \in Requests PROVE Sound(r)' BY <1>1, Untouched DEF IInv
<1>5. ASSUME NEW r \in Requests PROVE Edited(r)'
  <2>1. requests[r].rev \in Nat BY Types, NotifyAssumption DEF IInv, Request
  <2> QED BY <1>1, <1>2, <2>1, NotifyAssumption DEF IInv, Edited
<1> QED BY <1>3, <1>4, <1>5 DEF IInv

(* A restarted process repeats no attempt: a request that is Sending stays *)
(* so, and what its attempt sent need not be archived.                     *)
LEMMA RestartInv == ASSUME IInv, Restart PROVE IInv'
<1>1. happened \subseteq happened' /\ happened' \subseteq FaultKinds
  BY FaultHappens DEF Restart
<1>2. /\ listed' = requests /\ cached' = [r \in Requests |-> NoState]
      /\ sync' = [r \in Requests |-> Idle] /\ dirty' \subseteq Requests
      /\ deleter' = [c \in Channels |-> "idle"]
      /\ UNCHANGED <<requests, channels, templates, selfdefined, archived, copies, doubts, blind, edits>>
  BY DEF Restart, apiVars
<1>3. TypeOK'
  <2>1. sync' \in [Requests -> Worker] BY <1>2, IdleType
  <2>2. NoState \in [uid : 0..MaxUid, phase : Phases] BY NotifyAssumption DEF NoState, Phases
  <2> QED BY <1>1, <1>2, <2>1, <2>2 DEF IInv, TypeOK, Worker
<1>4. ASSUME NEW r \in Requests PROVE Sound(r)'
  <2>1. /\ sync'[r].at = "idle" /\ sync'[r].obj.uid = 0 /\ sync'[r].obj.phase = "Absent"
        /\ cached'[r].phase = "Absent" /\ listed'[r] = requests[r]
    BY <1>2 DEF Idle, NoState
  <2>2. Sound(r) /\ requests[r] \in Request /\ Addressed(r) \subseteq Receivers BY Types DEF IInv
  <2>3. Uids(r)' /\ Behind(r)' /\ Stage(r)' /\ First(r)'
    BY <1>2, <2>1, <2>2 DEF Sound, Uids, Behind, Stage, First, Taken, Exists, Started, Results, Request
  <2>4. Budget(r)' BY <1>2, <2>1, <2>2 DEF Sound, Budget, Taken, MayRepeat, More
  <2>5. Covered(r)' BY <1>1, <1>2, <2>1, <2>2 DEF Sound, Covered, Taken, Addressed
  <2>6. Kept(r)' /\ Dated(r)'
    BY <1>1, <1>2, <2>1, <2>2 DEF Sound, Kept, Dated, Taken, MayRepeat, Started, Results
  <2> QED BY <2>3, <2>4, <2>5, <2>6 DEF Sound
<1>5. ASSUME NEW r \in Requests PROVE Edited(r)' BY <1>2 DEF IInv, Edited
<1> QED BY <1>3, <1>4, <1>5 DEF IInv

------------------------------------------------------------------------------
(* The invariant.                                                          *)

(* It holds before anything happened.                                      *)
LEMMA InitInv == Init => IInv
<1> SUFFICES ASSUME Init PROVE IInv OBVIOUS
<1>1. Idle \in Worker /\ Idle.obj \in Request BY IdleType DEF Worker
<1>2. TypeOK
  <2>1. sync \in [Requests -> Worker] BY <1>1 DEF Init
  <2>2. requests \in [Requests -> Request] /\ listed \in [Requests -> Request]
    BY <1>1 DEF Init
  <2>3. NoState \in [uid : 0..MaxUid, phase : Phases] BY NotifyAssumption DEF NoState, Phases
  <2>4. channels \in [Channels -> [phase : {"Actived", "Terminating", "Absent"}, finalizer : BOOLEAN]]
        /\ templates \in [Channels -> Template \cup {NoTemplate}]
    BY DEF Init
  <2> QED BY <2>1, <2>2, <2>3, <2>4, NotifyAssumption DEF Init, TypeOK, Worker
<1>3. ASSUME NEW r \in Requests PROVE Sound(r) /\ Edited(r)
  <2>1. /\ requests[r].phase = "Absent" /\ requests[r].uid = 0 /\ requests[r].rev = 0
        /\ listed[r].uid = 0 /\ listed[r].phase = "Absent" /\ sync[r].at = "idle"
        /\ sync[r].obj.uid = 0 /\ sync[r].obj.phase = "Absent" /\ edits = 0
        /\ archived[r] = [v \in Receivers |-> 0]
    BY <1>3 DEF Init, Idle
  <2> QED BY <2>1 DEF Sound, Uids, Behind, Stage, Budget, First, Covered, Kept, Dated, Taken, MayRepeat,
        Exists, Started, Results, Edited
<1> QED BY <1>2, <1>3 DEF IInv

(* Every step keeps it.                                                    *)
LEMMA NextInv == IInv /\ [Next]_vars => IInv'
<1> SUFFICES ASSUME IInv, [Next]_vars PROVE IInv' OBVIOUS
<1>1. ASSUME NEW r \in Requests,
             \/ CreateRequest(r) \/ EditRequest(r) \/ DeleteRequest(r)
             \/ Deliver(r) \/ Work(r)
             \/ PrepareFails(r) \/ PersistFails(r) \/ PersistLost(r)
      PROVE  IInv'
  BY <1>1, CreateInv, EditInv, DeleteInv, DeliverInv, SyncInv, PrepareInv, ArchiveInv, PersistInv,
     SendToInv, PrepareFailsInv, PersistFailsInv, PersistLostInv
     DEF Work
<1>2. ASSUME NEW c \in Channels,
             \/ WriteTemplate(c) \/ DeleteTemplate(c) \/ DeleteChannel(c)
             \/ DeleterWork(c) \/ DeleterFails(c)
      PROVE  IInv'
  BY <1>2, ChannelInv
<1>3. CASE Restart BY <1>3, RestartInv
<1>4. CASE WriteSelfdefined BY <1>4, SelfdefinedInv
<1>5. CASE UNCHANGED vars
  <2>1. UNCHANGED <<requests, channels, templates, selfdefined, archived, listed, dirty, cached, sync, deleter,
                    copies, doubts, blind, edits, happened>>
    BY <1>5 DEF vars, apiVars, workerVars, history
  <2>2. TypeOK' BY <2>1 DEF IInv, TypeOK
  <2>3. ASSUME NEW r \in Requests PROVE Sound(r)' /\ Edited(r)'
    BY <2>1, Untouched DEF IInv, Edited
  <2> QED BY <2>2, <2>3 DEF IInv
<1> QED BY <1>1, <1>2, <1>3, <1>4, <1>5 DEF Next

(* The inductive invariant of the notify controller.                       *)
THEOREM Invariant == Spec => []IInv
BY InitInv, NextInv, PTL DEF Spec

(* The variables keep their types.                                         *)
THEOREM TypeCorrect == Spec => []TypeOK
<1>1. IInv => TypeOK BY DEF IInv
<1> QED BY <1>1, Invariant, PTL

(* "Sent" is true of everybody the request addresses, however many         *)
(* attempts it took, unless one of these attempts passed somebody over:    *)
(* groups or channels could not be read, or the self-defined channel has   *)
(* no URL (sendMessage).                                                   *)
THEOREM SentIsHonest == Spec => []SentReachedAll
<1>1. IInv => SentReachedAll BY DEF IInv, Sound, Covered, SentReachedAll
<1> QED BY <1>1, Invariant, PTL

(* The first request of a name, settled, has left its own messages in the  *)
(* history (archiveMessage), unless archiving failed or an answer got      *)
(* lost; it is the message of that request, not of any of the name.        *)
THEOREM SettledIsKept == Spec => []SettledIsArchived
<1>1. IInv => SettledIsArchived
  <2> SUFFICES ASSUME IInv, NEW r \in Requests, NEW v \in Receivers,
                      requests[r].phase \in Results, requests[r].uid = 1, copies[r][v] > 0,
                      happened \cap {"archive", "lost"} = {}
               PROVE  archived[r][v] = requests[r].uid
    BY DEF SettledIsArchived
  <2>1. archived[r][v] # 0
    BY DEF IInv, Sound, Kept, Taken, Started, Results, MayRepeat
  <2>2. archived[r][v] <= 1 BY DEF IInv, Sound, Dated
  <2>3. archived[r][v] \in Nat BY Types, NotifyAssumption DEF IInv
  <2> QED BY <2>1, <2>2, <2>3
<1> QED BY <1>1, Invariant, PTL

------------------------------------------------------------------------------
(* The controller implements Delivery.                                     *)

(* What Delivery sees of the requests.                                     *)
stage == [r \in Requests |-> requests[r].phase]
allowed == [r \in Requests |->
    IF requests[r].phase \in {"Absent", "Pending"} THEN 0 ELSE More(doubts[r])]

(* A step that leaves phases, doubts and copies alone is none of Delivery. *)
LEMMA Unseen ==
    ASSUME \A r \in Requests : requests'[r].phase = requests[r].phase,
           UNCHANGED <<doubts, copies>>
    PROVE  UNCHANGED Promise!vars
BY DEF Promise!vars, More

(* Creation is Ask.                                                        *)
LEMMA CreateAsks ==
    ASSUME IInv, NEW r \in Requests, CreateRequest(r) PROVE Promise!Ask(r)
<1>1. requests' = [requests EXCEPT ![r] = [uid |-> requests[r].uid + 1, phase |-> "Pending", rev |-> 0]]
      /\ requests[r].phase = "Absent"
  BY DEF CreateRequest, IInv, TypeOK, Exists
<1>2. requests'[r].phase = "Pending" /\ \A q \in Requests \ {r} : requests'[q] = requests[q]
  BY <1>1 DEF IInv, TypeOK
<1>3. copies' = [copies EXCEPT ![r] = [v \in Receivers |-> 0]] /\ doubts' = [doubts EXCEPT ![r] = 0]
  BY DEF CreateRequest
<1>4. \A q \in Requests \ {r} : doubts'[q] = doubts[q] BY <1>3 DEF IInv, TypeOK
<1>5. stage' = [stage EXCEPT ![r] = "Pending"] BY <1>2 DEF stage
<1>6. allowed' = [allowed EXCEPT ![r] = 0] BY <1>2, <1>4 DEF allowed, More
<1>7. stage[r] = "Absent" BY <1>1 DEF stage
<1> QED BY <1>3, <1>5, <1>6, <1>7 DEF Promise!Ask, stage, allowed, More, Promise!More

(* Deletion is Withdraw.                                                   *)
LEMMA DeleteWithdraws ==
    ASSUME IInv, NEW r \in Requests, DeleteRequest(r) PROVE Promise!Withdraw(r)
<1>1. requests'[r].phase = "Absent" /\ \A q \in Requests \ {r} : requests'[q] = requests[q]
  <2>1. requests[r] \in Request BY Types DEF IInv
  <2> QED BY <2>1 DEF DeleteRequest, IInv, TypeOK, Request
<1>2. stage' = [stage EXCEPT ![r] = "Absent"] BY <1>1 DEF stage
<1>3. UNCHANGED <<copies, doubts>> BY DEF DeleteRequest
<1>4. allowed' = [allowed EXCEPT ![r] = 0] BY <1>1, <1>3 DEF allowed, More
<1> QED BY <1>2, <1>3, <1>4 DEF Promise!Withdraw, stage, allowed

(* A message is Send, until the counters stop.                             *)
LEMMA SendToSends ==
    ASSUME IInv, NEW r \in Requests, NEW v \in Receivers, SendTo(r, v)
    PROVE  Promise!Send(r, v) \/ UNCHANGED Promise!vars
<1>1. PICK out \in BOOLEAN :
        /\ copies' = IF out /\ Current(r)
                     THEN [copies EXCEPT ![r] = [copies[r] EXCEPT ![v] = More(copies[r][v])]]
                     ELSE copies
        /\ sync[r].at = "send" /\ v \in sync[r].left
        /\ UNCHANGED <<requests, doubts>>
  BY SendSteps DEF apiVars
<1>2. /\ Sound(r) /\ doubts[r] \in 0..Most /\ copies[r] \in [Receivers -> 0..Most]
      /\ requests[r] \in Request /\ Most \in Nat /\ Most > 1
  <2>1. TypeOK /\ Sound(r) BY DEF IInv
  <2>2. Most \in Nat /\ Most > 1 BY NotifyAssumption
  <2> QED BY <2>1, <2>2, Types
<1>3. CASE out /\ Current(r) /\ copies[r][v] < Most
  <2>1. requests[r].phase \in Started
    BY <1>1, <1>2, <1>3
    DEF Sound, Behind, Stage, Current, Exists, Started, Results, Request, Phases
  <2>2. copies[r][v] <= doubts[r] /\ (requests[r].phase \in Results => doubts[r] > 0)
    BY <1>1, <1>2, <2>1 DEF Sound, Budget, Taken
  <2>3. allowed[r] = More(doubts[r]) BY <2>1 DEF allowed, Started, Results
  <2>4. copies[r][v] < allowed[r] BY <1>2, <1>3, <2>2, <2>3 DEF More
  <2>5. requests[r].phase = "Sending" \/ (requests[r].phase \in Results /\ allowed[r] > 1)
    BY <1>2, <2>1, <2>2, <2>3 DEF More, Started
  <2>6. stage[r] = requests[r].phase /\ UNCHANGED <<stage, allowed>>
    BY <1>1 DEF stage, allowed, More
  <2>7. copies' = [copies EXCEPT ![r] = [copies[r] EXCEPT ![v] = More(copies[r][v])]]
    BY <1>1, <1>3
  <2> QED BY <2>4, <2>5, <2>6, <2>7
      DEF Promise!Send, Promise!Results, Promise!More, More, Results, stage, allowed
<1>4. CASE ~(out /\ Current(r) /\ copies[r][v] < Most)
  <2>1. copies[r][v] \in 0..Most BY <1>2
  <2>2. copies' = copies \/ (copies[r][v] = Most /\
            copies' = [copies EXCEPT ![r] = [copies[r] EXCEPT ![v] = More(copies[r][v])]])
    BY <1>1, <1>2, <1>4, <2>1
  <2>3. copies[r][v] = Most => More(copies[r][v]) = copies[r][v] BY <1>2 DEF More
  <2>4. copies' = copies BY <2>2, <2>3 DEF IInv, TypeOK
  <2> QED BY <1>1, <2>4, Unseen
<1> QED BY <1>3, <1>4

(* A result or mark that is stored is Settle or TakeUp.                    *)
LEMMA StoringSettles ==
    ASSUME IInv, NEW r \in Requests, UNCHANGED <<doubts, copies>>,
           requests'[r].phase = Wanted(r), \A q \in Requests \ {r} : requests'[q] = requests[q],
           \/ sync[r].at = "mark" /\ requests[r].phase = "Pending" /\ Wanted(r) = "Sending"
           \/ sync[r].at = "store" /\ requests[r].phase = "Sending" /\ Wanted(r) \in Results
    PROVE  Promise!Next
<1>2. /\ Sound(r) /\ doubts[r] \in 0..Most /\ copies[r] \in [Receivers -> 0..Most]
      /\ Most \in Nat /\ Most > 1
  BY Types, NotifyAssumption DEF IInv
<1>3. stage' = [stage EXCEPT ![r] = Wanted(r)] /\ stage[r] = requests[r].phase
  BY DEF stage
<1>4. CASE requests[r].phase = "Pending" /\ Wanted(r) = "Sending"
  <2>1. doubts[r] = 0 BY <1>2, <1>4 DEF Sound, Budget
  <2>2. More(doubts[r]) = 1 BY <1>2, <2>1 DEF More
  <2>3. allowed' = [allowed EXCEPT ![r] = 1] BY <1>4, <2>2 DEF allowed, More
  <2>4. Promise!TakeUp(r) BY <1>3, <1>4, <2>3 DEF Promise!TakeUp, stage, allowed
  <2> QED BY <2>4 DEF Promise!Next
<1>5. CASE sync[r].at = "store" /\ requests[r].phase = "Sending" /\ Wanted(r) \in Results
  <2>1. UNCHANGED allowed BY <1>5 DEF allowed, Results, More
  <2>2. allowed[r] = More(doubts[r]) BY <1>5 DEF allowed
  <2>3. allowed[r] = 1 => doubts[r] = 0 BY <1>2, <2>2 DEF More
  <2>4. doubts[r] = 0 => \A v \in Receivers : copies[r][v] > 0 <=> v \in sync[r].sent
    BY <1>2, <1>5 DEF Sound, First, Taken, Started
  <2>5. sync[r].sent \subseteq Receivers BY Types DEF IInv
  <2>6. /\ Wanted(r) = "Failed" => sync[r].sent = {}
        /\ Wanted(r) = "PartialFailure" => sync[r].sent # {}
    BY <1>5 DEF Wanted
  <2>7. allowed[r] = 1 =>
            /\ Wanted(r) = "Failed" => Promise!Reached(r) = {}
            /\ Wanted(r) = "PartialFailure" => Promise!Reached(r) # {}
    <3> HIDE DEF Wanted
    <3> QED BY <2>3, <2>4, <2>5, <2>6 DEF Promise!Reached
  <2>8. ASSUME NEW result \in Promise!Results, result = Wanted(r) PROVE Promise!Settle(r, result)
    <3> HIDE DEF Wanted
    <3> QED BY <1>3, <1>5, <2>1, <2>7, <2>8 DEF Promise!Settle, stage, allowed
  <2>9. \E result \in Promise!Results : result = Wanted(r) BY <1>5 DEF Results, Promise!Results
  <2> QED BY <2>8, <2>9 DEF Promise!Next
<1> QED BY <1>4, <1>5

(* An attempt whose result is not known to be stored is Doubt.             *)
LEMMA FailDoubts ==
    ASSUME IInv, NEW r \in Requests, sync[r].at \in {"mark", "store"}, Fail(r),
           UNCHANGED <<requests, copies>>
    PROVE  Promise!Doubt(r) \/ UNCHANGED Promise!vars
<1>1. CASE sync[r].at = "store" /\ Current(r)
  <2>1. requests[r].phase \in Started
    <3>1. Sound(r) /\ requests[r] \in Request BY Types DEF IInv
    <3> QED BY <1>1, <3>1
        DEF Sound, Behind, Stage, Current, Exists, Started, Results, Request, Phases
  <2>2. doubts' = [doubts EXCEPT ![r] = More(doubts[r])] BY <1>1 DEF Fail, IInv, TypeOK
  <2>3. allowed' = [allowed EXCEPT ![r] = More(More(doubts[r]))]
    <3>1. doubts'[r] = More(doubts[r]) /\ \A q \in Requests \ {r} : doubts'[q] = doubts[q]
      BY <2>2 DEF IInv, TypeOK
    <3> QED BY <2>1, <3>1 DEF allowed, More, Started, Results
  <2>4. allowed[r] = More(doubts[r]) BY <2>1 DEF allowed, Started, Results
  <2>5. stage[r] \in Started /\ UNCHANGED stage BY <2>1 DEF stage
  <2> QED BY <2>3, <2>4, <2>5
      DEF Promise!Doubt, Promise!Results, Promise!More, More, Started, Results, stage, allowed
<1>2. CASE ~(sync[r].at = "store" /\ Current(r))
  <2>1. UNCHANGED doubts BY <1>2 DEF Fail
  <2> QED BY <2>1, Unseen
<1> QED BY <1>1, <1>2

(* Every step of a request is one of Delivery or none.                     *)
LEMMA RequestSteps ==
    ASSUME IInv, NEW r \in Requests,
           \/ CreateRequest(r) \/ EditRequest(r) \/ DeleteRequest(r)
           \/ Deliver(r) \/ Work(r)
           \/ PrepareFails(r) \/ PersistFails(r) \/ PersistLost(r)
    PROVE  [Promise!Next]_(Promise!vars)
<1>1. CASE CreateRequest(r) BY <1>1, CreateAsks DEF Promise!Next
<1>2. CASE EditRequest(r)
  <2>1. \A q \in Requests : requests'[q].phase = requests[q].phase
    <3>1. requests \in [Requests -> Request] BY DEF IInv, TypeOK
    <3> QED BY <1>2, <3>1 DEF EditRequest, Request
  <2> QED BY <1>2, <2>1, Unseen DEF EditRequest
<1>3. CASE DeleteRequest(r) BY <1>3, DeleteWithdraws DEF Promise!Next
<1>4. CASE Deliver(r) \/ Sync(r) \/ Prepare(r) \/ PrepareFails(r) \/ Archive(r)
  <2>1. UNCHANGED <<requests, doubts, copies>>
    BY <1>4 DEF Deliver, Sync, Prepare, PrepareFails, Archive, apiVars, history
  <2> QED BY <2>1, Unseen
<1>5. ASSUME NEW v \in Receivers, SendTo(r, v) PROVE [Promise!Next]_(Promise!vars)
  BY <1>5, SendToSends DEF Promise!Next
<1>6. CASE Persist(r)
  <2>1. sync[r].at \in {"mark", "store"} /\ UNCHANGED copies BY <1>6 DEF Persist
  <2>2. CASE Admitted(r) /\ requests' = [requests EXCEPT ![r].phase = Wanted(r)] /\ UNCHANGED doubts
    BY <2>1, <2>2, Stored, StoringSettles
  <2>3. CASE UNCHANGED <<requests, doubts>> BY <2>1, <2>3, Unseen
  <2>4. CASE Fail(r) /\ UNCHANGED requests BY <2>1, <2>4, FailDoubts DEF Promise!Next
  <2> QED BY <1>6, <2>2, <2>3, <2>4 DEF Persist
<1>7. CASE PersistFails(r)
  BY <1>7, FailDoubts DEF PersistFails, Promise!Next, apiVars
<1>8. CASE PersistLost(r)
  <2>1. /\ sync[r].at \in {"mark", "store"} /\ Admitted(r) /\ UNCHANGED <<doubts, copies>>
        /\ requests' = [requests EXCEPT ![r].phase = Wanted(r)]
    BY <1>8 DEF PersistLost
  <2> QED BY <2>1, Stored, StoringSettles
<1> QED BY <1>1, <1>2, <1>3, <1>4, <1>5, <1>6, <1>7, <1>8 DEF Work

(* Before anything happened Delivery is in its initial state.              *)
LEMMA InitPromise == Init => Promise!Init
<1> SUFFICES ASSUME Init PROVE Promise!Init OBVIOUS
<1>1. \A r \in Requests : requests[r].phase = "Absent" BY DEF Init, Idle
<1> QED BY <1>1 DEF Init, Promise!Init

(* Every step of the controller is one of Delivery or none.                *)
LEMMA NextPromise == IInv /\ [Next]_vars => [Promise!Next]_(Promise!vars)
<1> SUFFICES ASSUME IInv, [Next]_vars PROVE [Promise!Next]_(Promise!vars) OBVIOUS
<1>1. ASSUME NEW c \in Channels,
             \/ WriteTemplate(c) \/ DeleteTemplate(c) \/ DeleteChannel(c)
             \/ DeleterWork(c) \/ DeleterFails(c)
      PROVE  UNCHANGED <<requests, doubts, copies>>
  BY <1>1 DEF WriteTemplate, DeleteTemplate, DeleteChannel, DeleterWork, WakeDeleter, DropContent,
              Finalize, Remove, DeleterFails, apiVars, history
<1>2. WriteSelfdefined \/ Restart \/ UNCHANGED vars => UNCHANGED <<requests, doubts, copies>>
  BY DEF WriteSelfdefined, Restart, vars, apiVars, history
<1>3. UNCHANGED <<requests, doubts, copies>> => UNCHANGED Promise!vars
  BY Unseen
<1> QED BY <1>1, <1>2, <1>3, RequestSteps DEF Next

(* The controller carries out Delivery (persistUpdate, createMessage-      *)
(* RequestIfNeeded): one message for each receiver and attempt, none after *)
(* a result the worker knows to be stored, and results are final.          *)
THEOREM Delivers == Spec => KeepsPromise
<1>1. Init => Promise!Init BY InitPromise
<1>2. IInv /\ [Next]_vars => [Promise!Next]_(Promise!vars) BY NextPromise
<1> QED BY <1>1, <1>2, Invariant, PTL DEF Spec, KeepsPromise, Promise!Spec

==============================================================================
