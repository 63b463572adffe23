--------------------------- MODULE NotifyController ---------------------------
(***************************************************************************)
(* tke-notify-controller and the API it works on: message requests, the    *)
(* channels they belong to (a channel is their namespace) and the template *)
(* of each channel.  The message request controller sends what a request   *)
(* asks for; the channel controller removes a deleted channel.             *)
(*                                                                         *)
(* What a worker does between two of its calls is one step with the first  *)
(* of them.  A status update is admitted, compared and stored in one step: *)
(* validation reads channel and template, which no other writer of the     *)
(* request touches.  persistUpdate tries five times: a try that fails and  *)
(* is repeated with success is no event here, CallFails is a failure of    *)
(* all; after a lost answer the next try is a step of its own.             *)
(*                                                                         *)
(* Whether a gateway takes a message (receiver unknown, no address, error) *)
(* is left open.  An error of a gateway is taken to mean: not delivered.   *)
(***************************************************************************)
EXTENDS Naturals, FiniteSets

CONSTANTS
    Requests, Receivers, Channels,
    ChannelOf,   \* the namespace of a request: [Requests -> Channels]
    Direct,      \* spec.receivers: [Requests -> SUBSET Receivers]
    Grouped,     \* the receivers in the groups of spec.receiverGroups
    Shapes,      \* the templates that occur: some of AllShapes
    MaxUid,      \* how often a name is created
    MaxEdits,    \* how many updates users make
    MaxFaults,   \* how many faults happen, each kind once
    FaultKinds,  \* which: some of AllFaults
    Most         \* counters of messages and attempts stop here

AllFaults == {"call", "lost", "restart", "group", "list", "get", "archive"}

(***************************************************************************)
(* A channel has one kind (SMS, WeChat, mail); its template has that kind  *)
(* and may have others.  sendMessage looks at the kinds in a fixed order:  *)
(* another kind can come early or late.                                    *)
(***************************************************************************)
AllShapes == {"own", "early", "late"}

ASSUME NotifyAssumption ==
    /\ ChannelOf \in [Requests -> Channels]
    /\ Direct \in [Requests -> SUBSET Receivers] /\ Grouped \in [Requests -> SUBSET Receivers]
    /\ Shapes \subseteq AllShapes /\ FaultKinds \subseteq AllFaults
    /\ MaxUid \in Nat /\ MaxEdits \in Nat /\ MaxFaults \in Nat
    /\ Most \in Nat \ {0, 1}   \* counters tell one from more

VARIABLES
    requests,   \* the stored message requests
    channels,   \* the stored channels
    templates,  \* the template of each channel
    selfdefined, \* whether the first channel labelled selfdefine=true, if any, has its URL
    archived,   \* messages/<request>-<receiver>: uid of its request, 0 if none
    listed,     \* the informer's copy of every request
    dirty,      \* keys in the work queue
    cached,     \* uid and phase of messageRequestCache's state
    sync,       \* what the worker that holds a key is doing
    deleter,    \* what the worker that holds a channel's key does next
    copies,     \* messages the gateways took for a stored request and a receiver
    doubts,     \* attempts at a request that ended in an error
    blind,      \* requests an attempt at which passed over receivers without noting it
    edits, happened

apiVars == <<requests, channels, templates, selfdefined, archived>>
workerVars == <<listed, dirty, cached, sync>>
history == <<copies, doubts, blind, edits, happened>>
vars == <<apiVars, workerVars, deleter, history>>

Results == {"Sent", "PartialFailure", "Failed"}
Phases == {"Absent", "Pending", "Sending"} \cup Results
Request == [uid : 0..MaxUid, phase : Phases, rev : 0..MaxEdits]
NoTemplate == [shape |-> "none", fits |-> FALSE]
Template == [shape : Shapes, fits : BOOLEAN]   \* fits: asks for no more keys than requests give
NoState == [uid |-> 0, phase |-> "Absent"]
Idle == [at |-> "idle", obj |-> [uid |-> 0, phase |-> "Absent", rev |-> 0],
         shape |-> "none", left |-> {}, sent |-> {}, failed |-> {}]

Exists(r) == requests[r].phase # "Absent"
ChannelExists(c) == channels[c].phase # "Absent"
More(n) == IF n < Most THEN n + 1 ELSE n

(* The worker's request is still the stored one. *)
Current(r) == Exists(r) /\ requests[r].uid = sync[r].obj.uid
Addressed(r) == Direct[r] \cup Grouped[r]

(* A fault of a kind that has not happened yet. *)
Fault(kind) ==
    /\ kind \in FaultKinds \ happened
    /\ Cardinality(happened) < MaxFaults
    /\ happened' = happened \cup {kind}

Init ==
    /\ requests = [r \in Requests |-> Idle.obj]
    /\ channels \in [Channels -> [phase : {"Actived"}, finalizer : BOOLEAN]]
    /\ templates \in [Channels -> {t \in Template : t.fits}]
    /\ selfdefined \in BOOLEAN
    /\ archived = [r \in Requests |-> [v \in Receivers |-> 0]]
    /\ listed = requests
    /\ dirty = {}
    /\ cached = [r \in Requests |-> NoState]
    /\ sync = [r \in Requests |-> Idle]
    /\ deleter = [c \in Channels |-> "idle"]
    /\ copies = [r \in Requests |-> [v \in Receivers |-> 0]]
    /\ doubts = [r \in Requests |-> 0]
    /\ blind = {}
    /\ edits = 0
    /\ happened = {}

------------------------------------------------------------------------------
(* The API server. *)

(* Validation of a request, on creation and on every update, also of its status. *)
Fits(r) == ChannelExists(ChannelOf[r]) /\ templates[ChannelOf[r]].fits

CreateRequest(r) ==
    /\ ~Exists(r) /\ requests[r].uid < MaxUid /\ Fits(r)
    /\ requests' = [requests EXCEPT ![r] = [uid |-> @.uid + 1, phase |-> "Pending", rev |-> 0]]
    /\ copies' = [copies EXCEPT ![r] = [v \in Receivers |-> 0]]
    /\ doubts' = [doubts EXCEPT ![r] = 0]
    /\ blind' = blind \ {r}
    /\ UNCHANGED <<channels, templates, selfdefined, archived, workerVars, deleter, edits, happened>>

(* A user's update keeps the status it was read with. *)
EditRequest(r) ==
    /\ Exists(r) /\ Fits(r) /\ edits < MaxEdits
    /\ requests' = [requests EXCEPT ![r].rev = @ + 1]
    /\ edits' = edits + 1
    /\ UNCHANGED <<channels, templates, selfdefined, archived, workerVars, deleter, copies, doubts, blind, happened>>

DeleteRequest(r) ==
    /\ Exists(r) /\ edits < MaxEdits
    /\ requests' = [requests EXCEPT ![r].phase = "Absent", ![r].rev = 0]
    /\ edits' = edits + 1
    /\ UNCHANGED <<channels, templates, selfdefined, archived, workerVars, deleter, copies, doubts, blind, happened>>

(* A template is created or changed while its channel is stored, in any phase. *)
WriteTemplate(c) ==
    /\ ChannelExists(c) /\ edits < MaxEdits
    /\ \E t \in Template \ {templates[c]} : templates' = [templates EXCEPT ![c] = t]
    /\ edits' = edits + 1
    /\ UNCHANGED <<requests, channels, selfdefined, archived, workerVars, deleter, copies, doubts, blind, happened>>

DeleteTemplate(c) ==
    /\ templates[c] # NoTemplate /\ edits < MaxEdits
    /\ templates' = [templates EXCEPT ![c] = NoTemplate]
    /\ edits' = edits + 1
    /\ UNCHANGED <<requests, channels, selfdefined, archived, workerVars, deleter, copies, doubts, blind, happened>>

(* A self-defined channel is created, annotated or deleted. *)
WriteSelfdefined ==
    /\ edits < MaxEdits
    /\ selfdefined' = ~selfdefined
    /\ edits' = edits + 1
    /\ UNCHANGED <<requests, channels, templates, archived, workerVars, deleter, copies, doubts, blind, happened>>

(* The first deletion of a channel only marks it. *)
MarkChannel(c) ==
    /\ channels[c].phase = "Actived"
    /\ channels' = [channels EXCEPT ![c].phase = "Terminating"]

(* Any later one removes it, once nothing is left to finalize. *)
RemoveChannel(c) ==
    /\ channels[c].phase = "Terminating" /\ ~channels[c].finalizer
    /\ channels' = [channels EXCEPT ![c].phase = "Absent"]

DeleteChannel(c) ==
    /\ edits < MaxEdits
    /\ MarkChannel(c) \/ RemoveChannel(c)
    /\ edits' = edits + 1
    /\ UNCHANGED <<requests, templates, selfdefined, archived, workerVars, deleter, copies, doubts, blind, happened>>

------------------------------------------------------------------------------
(* The message request controller. *)

(* The watch: every change of a request is queued. *)
Deliver(r) ==
    /\ listed[r] # requests[r]
    /\ listed' = [listed EXCEPT ![r] = requests[r]]
    /\ dirty' = dirty \cup {r}
    /\ UNCHANGED <<apiVars, cached, sync, deleter, history>>

(* A sync ends: well, the cache keeps the informer's object; or it is repeated. *)
Done(r) ==
    /\ sync' = [sync EXCEPT ![r] = Idle]
    /\ cached' = [cached EXCEPT ![r] = [uid |-> sync[r].obj.uid, phase |-> sync[r].obj.phase]]
    /\ UNCHANGED <<listed, dirty>>

(* Mutant: a key whose sync failed is forgotten.                           *)
MutForget(r) ==
    /\ sync' = [sync EXCEPT ![r] = Idle]
    /\ UNCHANGED <<listed, cached, dirty>>

Again(r) ==
    /\ sync' = [sync EXCEPT ![r] = Idle]
    /\ dirty' = dirty \cup {r}
    /\ UNCHANGED <<listed, cached>>

Begin(r, at) ==
    /\ sync' = [sync EXCEPT ![r] = [Idle EXCEPT !.at = at, !.obj = listed[r]]]
    /\ cached' = [cached EXCEPT ![r] = IF @.uid # listed[r].uid THEN NoState ELSE @]

(* A worker takes a key.  A request is sent only by the process that saw it *)
(* Pending and stored Sending.                                              *)
Sync(r) ==
    /\ r \in dirty /\ sync[r].at = "idle"
    /\ dirty' = dirty \ {r}
    /\ LET obj == listed[r] IN
        \/ /\ obj.phase = "Absent"
           /\ cached' = [cached EXCEPT ![r] = NoState]
           /\ UNCHANGED sync
        \/ /\ obj.phase = "Pending"
           /\ Begin(r, "mark")
        \/ /\ obj.phase = "Sending" /\ cached[r].phase = "Pending"
           /\ Begin(r, "prepare")
        \/ /\ obj.phase \in Results \cup {"Sending"}
           /\ obj.phase = "Sending" => cached[r].phase # "Pending"
           /\ cached' = [cached EXCEPT ![r] = [uid |-> obj.uid, phase |-> obj.phase]]
           /\ UNCHANGED sync
    /\ UNCHANGED <<apiVars, listed, deleter, history>>

(* The groups, the list of self-defined channels, the channel and its      *)
(* template are read.  Without receivers there is nothing to do and no     *)
(* error; without channel or template every receiver fails.                *)
Prepared(r, to) ==
    LET c == ChannelOf[r]
        readable == ChannelExists(c) /\ templates[c] # NoTemplate
    IN  [sync EXCEPT
            ![r].at = IF to # {} /\ readable THEN "send" ELSE "store",
            ![r].left = IF readable THEN to ELSE {},
            ![r].failed = IF readable THEN {} ELSE to,
            ![r].shape = templates[c].shape]

(* The attempt ends with nobody reached and nobody failed. *)
Nobody(r) == [sync EXCEPT ![r].at = "store"]

Overlooked(r) == blind' = IF Current(r) THEN blind \cup {r} ELSE blind

Prepare(r) ==
    /\ sync[r].at = "prepare"
    /\ \/ /\ Addressed(r) = {} \/ selfdefined
          /\ sync' = Prepared(r, Addressed(r))
          /\ UNCHANGED blind
       \/ /\ Addressed(r) # {} /\ ~selfdefined
          /\ sync' = Nobody(r)
          /\ Overlooked(r)
    /\ UNCHANGED <<apiVars, listed, dirty, cached, deleter, copies, doubts, edits, happened>>

(* A group that cannot be read is passed over, a failing list of channels   *)
(* ends the attempt without an error, as a self-defined channel without its *)
(* URL does; a failing read is every receiver's.                            *)
PrepareFails(r) ==
    /\ sync[r].at = "prepare"
    /\ \/ /\ Fault("group")
          /\ sync' = IF Direct[r] = {} \/ selfdefined THEN Prepared(r, Direct[r]) ELSE Nobody(r)
          /\ Overlooked(r)
       \/ /\ Fault("list")
          /\ sync' = Nobody(r)
          /\ Overlooked(r)
       \/ /\ Fault("get")
          /\ selfdefined
          /\ sync' = [sync EXCEPT ![r].at = "store", ![r].failed = Addressed(r)]
          /\ UNCHANGED blind
    /\ UNCHANGED <<apiVars, listed, dirty, cached, deleter, copies, doubts, edits>>

(* One receiver: the message goes out or not.  A kind the channel does not  *)
(* have is an error, before the message goes out or after it did.           *)
SendTo(r, v) ==
    /\ sync[r].at = "send" /\ v \in sync[r].left
    /\ \E out \in IF sync[r].shape = "early" THEN {FALSE} ELSE BOOLEAN :
        /\ sync' = [sync EXCEPT
               ![r].left = @ \ {v},
               ![r].sent = IF out THEN @ \cup {v} ELSE @,
               ![r].failed = IF out /\ sync[r].shape = "own" THEN @ ELSE @ \cup {v}]
        /\ copies' = IF out /\ Current(r)
                     THEN [copies EXCEPT ![r][v] = More(@)] ELSE copies
    /\ UNCHANGED <<apiVars, listed, dirty, cached, deleter, doubts, blind, edits, happened>>

(* Mutant: only attempts without a failure are archived.                   *)
MutArchiveClean(r) ==
    /\ sync[r].at = "send" /\ sync[r].left = {}
    /\ \E kept \in {IF sync[r].failed = {} THEN sync[r].sent ELSE {}} :
        archived' = [archived EXCEPT ![r] = [v \in Receivers |->
               IF v \in kept /\ archived[r][v] = 0 THEN sync[r].obj.uid ELSE archived[r][v]]]
    /\ sync' = [sync EXCEPT ![r].at = "store"]
    /\ UNCHANGED <<requests, channels, templates, selfdefined, listed, dirty, cached, deleter,
                   copies, doubts, blind, edits, happened>>

(* The messages sent are kept under a name of the request and the receiver; *)
(* a name that is taken, or a failing call, is only logged.                 *)
Archive(r) ==
    /\ sync[r].at = "send" /\ sync[r].left = {}
    /\ \E kept \in {sync[r].sent, {}} :
        /\ archived' = [archived EXCEPT ![r] = [v \in Receivers |->
               IF v \in kept /\ archived[r][v] = 0 THEN sync[r].obj.uid ELSE archived[r][v]]]
        /\ IF kept = sync[r].sent THEN UNCHANGED happened ELSE Fault("archive")
    /\ sync' = [sync EXCEPT ![r].at = "store"]
    /\ UNCHANGED <<requests, channels, templates, selfdefined, listed, dirty, cached, deleter,
                   copies, doubts, blind, edits>>

(* Mutant: one delivery is enough for Sent.                                *)
MutSentIfAny(r) ==
    IF sync[r].at = "mark" THEN "Sending"
    ELSE IF sync[r].failed # {} /\ sync[r].sent = {} THEN "Failed"
    ELSE "Sent"

(* The phase that a status update of the worker asks for. *)
Wanted(r) ==
    IF sync[r].at = "mark" THEN "Sending"
    ELSE IF sync[r].failed = {} THEN "Sent"
    ELSE IF sync[r].sent = {} THEN "Failed"
    ELSE "PartialFailure"

(* Mutant: a status update overwrites whatever is stored.                  *)
MutUnconditional(r) == Exists(r) /\ Fits(r)

Admitted(r) == requests[r] = sync[r].obj /\ Fits(r)

Fail(r) ==
    /\ Again(r)
    /\ doubts' = IF sync[r].at = "store" /\ Current(r)
                 THEN [doubts EXCEPT ![r] = More(@)] ELSE doubts

(* persistUpdate: a request that is gone is no error, one that changed is. *)
Persist(r) ==
    /\ sync[r].at \in {"mark", "store"}
    /\ \/ /\ Admitted(r)
          /\ requests' = [requests EXCEPT ![r].phase = Wanted(r)]
          /\ Done(r)
          /\ UNCHANGED doubts
       \/ /\ ~Exists(r)
          /\ Done(r)
          /\ UNCHANGED <<requests, doubts>>
       \/ /\ Exists(r) /\ ~Admitted(r)
          /\ Fail(r)
          /\ UNCHANGED requests
    /\ UNCHANGED <<channels, templates, selfdefined, archived, deleter, copies, blind, edits, happened>>

PersistFails(r) ==
    /\ sync[r].at \in {"mark", "store"}
    /\ Fault("call")
    /\ Fail(r)
    /\ UNCHANGED <<apiVars, deleter, copies, blind, edits>>

(* The answer is lost; the worker tries again. *)
PersistLost(r) ==
    /\ sync[r].at \in {"mark", "store"} /\ Admitted(r)
    /\ Fault("lost")
    /\ requests' = [requests EXCEPT ![r].phase = Wanted(r)]
    /\ UNCHANGED <<channels, templates, selfdefined, archived, workerVars, deleter, copies, doubts, blind, edits>>

------------------------------------------------------------------------------
(* Mutant: without a finalizer there is nothing to do.                     *)
MutFinalizedIsGone(c) ==
    /\ channels[c].phase = "Terminating" /\ deleter[c] = "idle"
    /\ channels[c].finalizer
    /\ deleter' = [deleter EXCEPT ![c] = "content"]
    /\ UNCHANGED <<apiVars, workerVars, history>>

(* The channel controller.  A channel that is being deleted is queued by    *)
(* its events and by every resync.                                          *)
WakeDeleter(c) ==
    /\ channels[c].phase = "Terminating" /\ deleter[c] = "idle"
    /\ deleter' = [deleter EXCEPT ![c] = IF channels[c].finalizer THEN "content" ELSE "remove"]
    /\ UNCHANGED <<apiVars, workerVars, history>>

(* deleteMessageRequest removes the templates once more, not the requests. *)
DropContent(c) ==
    /\ deleter[c] = "content"
    /\ templates' = [templates EXCEPT ![c] = NoTemplate]
    /\ deleter' = [deleter EXCEPT ![c] = "finalize"]
    /\ UNCHANGED <<requests, channels, selfdefined, archived, workerVars, history>>

Finalize(c) ==
    /\ deleter[c] = "finalize"
    /\ channels' = [channels EXCEPT ![c].finalizer = FALSE]
    /\ deleter' = [deleter EXCEPT ![c] = "remove"]
    /\ UNCHANGED <<requests, templates, selfdefined, archived, workerVars, history>>

Remove(c) ==
    /\ deleter[c] = "remove"
    /\ IF ChannelExists(c) THEN RemoveChannel(c) ELSE UNCHANGED channels
    /\ deleter' = [deleter EXCEPT ![c] = "idle"]
    /\ UNCHANGED <<requests, templates, selfdefined, archived, workerVars, history>>

(* A call of the deleter fails; the key is queued again. *)
DeleterFails(c) ==
    /\ deleter[c] # "idle"
    /\ Fault("call")
    /\ deleter' = [deleter EXCEPT ![c] = "idle"]
    /\ UNCHANGED <<apiVars, workerVars, copies, doubts, blind, edits>>

------------------------------------------------------------------------------
(* The process is restarted: it forgets all and lists the requests again. *)
Restart ==
    /\ Fault("restart")
    /\ listed' = requests
    /\ dirty' = {r \in Requests : Exists(r)}
    /\ cached' = [r \in Requests |-> NoState]
    /\ sync' = [r \in Requests |-> Idle]
    /\ deleter' = [c \in Channels |-> "idle"]
    /\ UNCHANGED <<apiVars, copies, doubts, blind, edits>>

Work(r) ==
    \/ Sync(r) \/ Prepare(r) \/ Archive(r) \/ Persist(r)
    \/ \E v \in Receivers : SendTo(r, v)

DeleterWork(c) == WakeDeleter(c) \/ DropContent(c) \/ Finalize(c) \/ Remove(c)

Next ==
    \/ \E r \in Requests :
        \/ CreateRequest(r) \/ EditRequest(r) \/ DeleteRequest(r)
        \/ Deliver(r) \/ Work(r)
        \/ PrepareFails(r) \/ PersistFails(r) \/ PersistLost(r)
    \/ \E c \in Channels :
        \/ WriteTemplate(c) \/ DeleteTemplate(c) \/ DeleteChannel(c)
        \/ DeleterWork(c) \/ DeleterFails(c)
    \/ WriteSelfdefined \/ Restart

Fairness ==
    /\ \A r \in Requests : WF_vars(Deliver(r)) /\ WF_vars(Work(r))
    /\ \A c \in Channels : WF_vars(DeleterWork(c))

Spec == Init /\ [][Next]_vars
FairSpec == Spec /\ Fairness

------------------------------------------------------------------------------
(* Types of the variables. *)
TypeOK ==
    /\ requests \in [Requests -> Request] /\ listed \in [Requests -> Request]
    /\ channels \in [Channels -> [phase : {"Actived", "Terminating", "Absent"}, finalizer : BOOLEAN]]
    /\ templates \in [Channels -> Template \cup {NoTemplate}]
    /\ selfdefined \in BOOLEAN
    /\ archived \in [Requests -> [Receivers -> 0..MaxUid]]
    /\ dirty \subseteq Requests
    /\ cached \in [Requests -> [uid : 0..MaxUid, phase : Phases]]
    /\ sync \in [Requests ->
            [at : {"idle", "mark", "prepare", "send", "store"}, obj : Request,
             shape : Shapes \cup {"none"}, left : SUBSET Receivers,
             sent : SUBSET Receivers, failed : SUBSET Receivers]]
    /\ deleter \in [Channels -> {"idle", "content", "finalize", "remove"}]
    /\ copies \in [Requests -> [Receivers -> 0..Most]]
    /\ doubts \in [Requests -> 0..Most]
    /\ blind \subseteq Requests
    /\ edits \in 0..MaxEdits
    /\ happened \subseteq FaultKinds

(***************************************************************************)
(* "Sent" is true: everyone the request addresses got a message, however   *)
(* many attempts it took and whatever failed on the way, unless an attempt *)
(* at this request passed somebody over: its groups or the list of the     *)
(* self-defined channels could not be read, or the first of these has no   *)
(* URL (sendMessage, controller.go:299, :323, :329).                       *)
(***************************************************************************)
SentReachedAll ==
    \A r \in Requests :
        requests[r].phase = "Sent" /\ r \notin blind
            => \A v \in Addressed(r) : copies[r][v] > 0

(***************************************************************************)
(* The message behind a settled request is kept in the history of messages *)
(* (archiveMessage, controller.go:449), also if an attempt was repeated or *)
(* cut off by a restart, unless archiving failed or the loss of an answer  *)
(* makes a settled request be sent again.  It is the message of this very  *)
(* request if it is the first of its name: of a later one nothing is kept  *)
(* where there is a message already (controller.go:469).                   *)
(***************************************************************************)
SettledIsArchived ==
    \A r \in Requests, v \in Receivers :
        /\ requests[r].phase \in Results
        /\ requests[r].uid = 1
        /\ copies[r][v] > 0
        /\ happened \cap {"archive", "lost"} = {}
        => archived[r][v] = requests[r].uid

(***************************************************************************)
(* The controller carries out Delivery: a receiver gets one message more   *)
(* only for an attempt whose result could not be stored (persistUpdate,    *)
(* controller.go:265), no message after the result is stored, and results  *)
(* are final.                                                              *)
(***************************************************************************)
Promise == INSTANCE Delivery WITH
    stage <- [r \in Requests |-> requests[r].phase],
    allowed <- [r \in Requests |->
        IF requests[r].phase \in {"Absent", "Pending"} THEN 0 ELSE More(doubts[r])],
    copies <- copies

KeepsPromise == Promise!Spec

(***************************************************************************)
(* A request that waits is taken up and settled, as long as its channel    *)
(* and template admit its updates and no process or answer got lost        *)
(* (createMessageRequestIfNeeded, controller.go:234).                      *)
(***************************************************************************)
Waits(r) == requests[r].phase \in {"Pending", "Sending"}

Settles ==
    \A r \in Requests :
        Waits(r) ~> \/ ~Waits(r) \/ ~Fits(r)
                    \/ happened \cap {"restart", "lost"} # {}

(***************************************************************************)
(* The deletion of a channel completes (channeled_resources_deleter.go:82) *)
(* however often its deleter is interrupted.                               *)
(***************************************************************************)
ChannelDeletionCompletes ==
    \A c \in Channels : channels[c].phase = "Terminating" ~> ~ChannelExists(c)

(***************************************************************************)
(* The statements below are stronger than what the code does; the          *)
(* conditions of the properties above come from them.                      *)
(* "Sent" without a condition: a failing List, and a self-defined channel  *)
(* without URL, make it false.                                             *)
(***************************************************************************)
SentIsTrue ==
    \A r \in Requests :
        requests[r].phase = "Sent" => \A v \in Addressed(r) : copies[r][v] > 0

(* Also what a later request of the name has sent is kept.                 *)
ReusedIsArchived ==
    \A r \in Requests, v \in Receivers :
        /\ requests[r].phase \in Results
        /\ copies[r][v] > 0
        /\ happened \cap {"archive", "lost"} = {}
        => archived[r][v] = requests[r].uid

(* Requests settle whatever happens to the process: one that is Sending    *)
(* when the process stops is never taken up again (controller.go:242).     *)
SettlesAlways ==
    \A r \in Requests : Waits(r) ~> ~Waits(r) \/ ~Fits(r)
==============================================================================
