------------------------ MODULE RegistryNotification ------------------------
(***************************************************************************)
(* The registry's webhook.  The image registry (distribution, a library in *)
(* the same process) tells of every push and pull by a notification to the *)
(* registry API, whose handler keeps what it learns in the status of       *)
(* Repository objects, and counts them in the status of their namespace.   *)
(*                                                                         *)
(* Distribution keeps notifications in memory, sends the oldest, repeats   *)
(* it until it gets an answer in time, and sends the next.  The handler    *)
(* answers OK whatever became of the events.  One namespace is modelled,   *)
(* which is there all the time; a digest is the number of its push.        *)
(***************************************************************************)
EXTENDS Naturals, Sequences, FiniteSets

CONSTANTS
    Repos, Tags,
    Handlers,    \* room for calls of ServeHTTP
    MaxBatch,    \* events in a notification (distribution sends one)
    MaxEvents,   \* how many events occur
    MaxObjects,  \* how many Repository objects are made
    MaxFaults,   \* how many faults (and users' calls) happen, each kind once
    FaultKinds   \* which: some of AllFaults

AllFaults == {"call", "late", "restart", "created", "deleted"}

ASSUME RegistryAssumption ==
    /\ MaxBatch \in Nat \ {0} /\ MaxEvents \in Nat /\ MaxObjects \in Nat /\ MaxFaults \in Nat
    /\ FaultKinds \subseteq AllFaults

VARIABLES
    images,     \* what distribution holds: the digest behind a tag
    queue,      \* notifications it has not delivered
    awaited,    \* the call it waits for, or {}
    handlers,   \* the calls of ServeHTTP
    repos,      \* the stored Repository objects of a name, as List returns them
    repoCount,  \* status.repoCount of the namespace
    events,     \* how many events there were
    pulled,     \* how often an image of a repository was pulled
    made,       \* how many objects were made
    firsts,     \* how often an object got its first tag
    happened

sender == <<images, queue, awaited>>
stored == <<repos, repoCount>>
history == <<events, pulled, made, firsts, happened>>
vars == <<sender, handlers, stored, history>>

None == "none"
TagNames == Tags \cup {None}      \* a layer has no tag
Event == [action : {"push", "pull", "delete"}, repo : Repos, tag : TagNames,
          digest : 0..MaxEvents, kept : BOOLEAN]

Untagged == [t \in TagNames |-> 0]
Object == [id : 0..MaxObjects, rev : Nat, tags : [TagNames -> 0..MaxEvents], pulls : Nat]

NoObject == [id |-> 0, rev |-> 0, tags |-> Untagged, pulls |-> 0]
Idle == [at |-> "idle", todo |-> <<>>, obj |-> NoObject, new |-> NoObject, count |-> 0]

Fault(kind) ==
    /\ kind \in FaultKinds \ happened
    /\ Cardinality(happened) < MaxFaults
    /\ happened' = happened \cup {kind}

Init ==
    /\ images = [r \in Repos |-> [t \in Tags |-> 0]]
    /\ queue = <<>> /\ awaited = {}
    /\ handlers = [h \in Handlers |-> Idle]
    /\ repos = [r \in Repos |-> <<>>]
    /\ repoCount = 0
    /\ events = 0 /\ made = 0 /\ firsts = 0
    /\ pulled = [r \in Repos |-> 0]
    /\ happened = {}

------------------------------------------------------------------------------
(* Clients and distribution.  A notification may hold several events        *)
(* ("batch"); the one that is being sent is complete.                       *)
Notify(e) ==
    /\ events < MaxEvents
    /\ events' = events + 1
    /\ \/ /\ queue' = Append(queue, <<e>>)
          /\ UNCHANGED happened
       \/ /\ Len(queue) > Cardinality(awaited)
          /\ Len(queue[Len(queue)]) < MaxBatch
          /\ queue' = [queue EXCEPT ![Len(queue)] = Append(@, e)]
          /\ happened' = happened \cup {"batch"}

Push(r, t) ==
    /\ Notify([action |-> "push", repo |-> r, tag |-> t, digest |-> events + 1, kept |-> TRUE])
    /\ images' = [images EXCEPT ![r][t] = events + 1]
    /\ UNCHANGED <<awaited, handlers, stored, pulled, made, firsts>>

Pull(r, t) ==
    /\ images[r][t] # 0
    /\ Notify([action |-> "pull", repo |-> r, tag |-> t, digest |-> images[r][t], kept |-> TRUE])
    /\ pulled' = [pulled EXCEPT ![r] = @ + 1]
    /\ UNCHANGED <<images, awaited, handlers, stored, made, firsts>>

(* A layer is no manifest: its event is to be filtered out. *)
PushLayer(r) ==
    /\ Notify([action |-> "push", repo |-> r, tag |-> None, digest |-> events + 1, kept |-> FALSE])
    /\ UNCHANGED <<images, awaited, handlers, stored, pulled, made, firsts>>

DeleteImage(r, t) ==
    /\ images[r][t] # 0
    /\ Notify([action |-> "delete", repo |-> r, tag |-> None, digest |-> images[r][t], kept |-> TRUE])
    /\ images' = [images EXCEPT ![r][t] = 0]
    /\ UNCHANGED <<awaited, handlers, stored, pulled, made, firsts>>

(* filterEvents: it keeps the address of its loop variable, so that every   *)
(* event it keeps is the last one of the notification.                      *)
filterEvents(notification) ==
    [i \in 1..Cardinality({j \in DOMAIN notification : notification[j].kept}) |->
        notification[Len(notification)]]

Free == {h \in Handlers : handlers[h].at = "idle"}

Deliver(h) ==
    /\ queue # <<>> /\ awaited = {}
    /\ Free # {} /\ h = CHOOSE g \in Free : TRUE   \* any will do
    /\ LET todo == filterEvents(Head(queue))
       IN  handlers' = [handlers EXCEPT
               ![h] = [Idle EXCEPT !.todo = todo, !.at = IF todo = <<>> THEN "done" ELSE "read"]]
    /\ awaited' = {h}
    /\ UNCHANGED <<images, queue, stored, history>>

(* The answer does not come in time, or at all; the call goes on. *)
TimesOut ==
    /\ awaited # {}
    /\ Fault("late")
    /\ awaited' = {}
    /\ UNCHANGED <<images, queue, handlers, stored, events, pulled, made, firsts>>

Answer(h) ==
    /\ handlers[h].at = "done"
    /\ handlers' = [handlers EXCEPT ![h] = Idle]
    /\ IF h \in awaited
       THEN awaited' = {} /\ queue' = Tail(queue)
       ELSE UNCHANGED <<awaited, queue>>
    /\ UNCHANGED <<images, stored, history>>

------------------------------------------------------------------------------
(* The handler. *)

(* What it has done or could not do for an event is done: it goes on. *)
NextEvent(h) ==
    LET todo == Tail(handlers[h].todo)
    IN  handlers' = [handlers EXCEPT
            ![h] = [Idle EXCEPT !.todo = todo, !.at = IF todo = <<>> THEN "done" ELSE "read"]]

ToCount(h) == [handlers EXCEPT ![h].at = "count", ![h].obj = NoObject, ![h].new = NoObject]

Current(h) == Head(handlers[h].todo)

(* updateRepository: namespace and repository are read, a change of the     *)
(* repository is computed.                                                  *)
Read(h) ==
    LET e == Current(h)  list == repos[e.repo] IN
    /\ handlers[h].at = "read"
    /\ \/ /\ e.action = "push" /\ list = <<>>
          /\ handlers' = [handlers EXCEPT ![h].at = "admit", ![h].count = repoCount]
       \/ /\ e.action \in {"push", "pull"} /\ list # <<>>
          /\ handlers' = [handlers EXCEPT
                 ![h].at = "update",
                 ![h].count = repoCount,
                 ![h].obj = Head(list),
                 ![h].new = IF e.action = "push"
                            THEN [Head(list) EXCEPT !.tags[e.tag] = e.digest]
                            ELSE [Head(list) EXCEPT !.pulls = @ + 1]]
       \/ /\ e.action = "delete" \/ (e.action = "pull" /\ list = <<>>)
          /\ NextEvent(h)
    /\ UNCHANGED <<sender, stored, history>>

(* Validation of a new object: none of its name is listed. *)
Admit(h) ==
    /\ handlers[h].at = "admit"
    /\ IF repos[Current(h).repo] = <<>>
       THEN handlers' = [handlers EXCEPT ![h].at = "create"]
       ELSE NextEvent(h)
    /\ UNCHANGED <<sender, stored, history>>

(* A name is generated, which decides the order in lists. *)
Store(r, obj) ==
    /\ made < MaxObjects
    /\ made' = made + 1
    /\ \E list \in {<<obj>> \o repos[r], Append(repos[r], obj)} : repos' = [repos EXCEPT ![r] = list]

(* Mutant: a repository is created without its namespace being counted.    *)
MutNotCounted(h) ==
    LET e == Current(h) IN
    /\ handlers[h].at = "create"
    /\ Store(e.repo, [NoObject EXCEPT !.id = made + 1, !.tags[e.tag] = e.digest])
    /\ firsts' = firsts + 1
    /\ NextEvent(h)
    /\ UNCHANGED <<sender, repoCount, events, pulled, happened>>

Create(h) ==
    LET e == Current(h) IN
    /\ handlers[h].at = "create"
    /\ Store(e.repo, [NoObject EXCEPT !.id = made + 1, !.tags[e.tag] = e.digest])
    /\ firsts' = firsts + 1
    /\ handlers' = ToCount(h)
    /\ UNCHANGED <<sender, repoCount, events, pulled, happened>>

(* Mutant: a status update replaces the repository in any version.         *)
MutUnconditional(h) == {i \in DOMAIN repos[Current(h).repo] :
    repos[Current(h).repo][i].id = handlers[h].obj.id}

(* A status update is stored if the object is as it was read. *)
Unchanged(h) == {i \in DOMAIN repos[Current(h).repo] :
    /\ repos[Current(h).repo][i].id = handlers[h].obj.id
    /\ repos[Current(h).repo][i].rev = handlers[h].obj.rev}

(* Mutant: a repository is counted with every tag.                         *)
MutCountTags(h) ==
    LET e == Current(h) IN
    /\ handlers[h].at = "update"
    /\ \/ \E i \in Unchanged(h) :
            /\ repos' = [repos EXCEPT ![e.repo][i] = [handlers[h].new EXCEPT !.rev = @ + 1]]
            /\ IF e.action = "push" THEN handlers' = ToCount(h) ELSE NextEvent(h)
            /\ firsts' = IF handlers[h].obj.tags = Untagged THEN firsts + 1 ELSE firsts
       \/ /\ Unchanged(h) = {}
          /\ NextEvent(h)
          /\ UNCHANGED <<repos, firsts>>
    /\ UNCHANGED <<sender, repoCount, events, pulled, made, happened>>

Update(h) ==
    LET e == Current(h)
        first == e.action = "push" /\ handlers[h].obj.tags = Untagged
    IN
    /\ handlers[h].at = "update"
    /\ \/ \E i \in Unchanged(h) :
            /\ repos' = [repos EXCEPT ![e.repo][i] = [handlers[h].new EXCEPT !.rev = @ + 1]]
            /\ IF first THEN firsts' = firsts + 1 /\ handlers' = ToCount(h)
                        ELSE NextEvent(h) /\ UNCHANGED firsts
       \/ /\ Unchanged(h) = {}
          /\ NextEvent(h)
          /\ UNCHANGED <<repos, firsts>>
    /\ UNCHANGED <<sender, repoCount, events, pulled, made, happened>>

(* The namespace's count, from the namespace as it was read. *)
Count(h) ==
    /\ handlers[h].at = "count"
    /\ repoCount' = IF repoCount = handlers[h].count THEN repoCount + 1 ELSE repoCount
    /\ NextEvent(h)
    /\ UNCHANGED <<sender, repos, history>>

(* A call of the API fails: the event is logged, and forgotten. *)
CallFails(h) ==
    /\ handlers[h].at \in {"read", "admit", "create", "update", "count"}
    /\ Fault("call")
    /\ NextEvent(h)
    /\ UNCHANGED <<sender, stored, events, pulled, made, firsts>>

------------------------------------------------------------------------------
(* Users of the API make and delete repositories; nothing counts that.  In  *)
(* the middle of a call it is one of the faults.                            *)
CreateRepository(r) ==
    /\ repos[r] = <<>>
    /\ Fault("created")
    /\ Store(r, [NoObject EXCEPT !.id = made + 1])
    /\ UNCHANGED <<sender, handlers, repoCount, events, pulled, firsts>>

DeleteRepository(r) ==
    /\ repos[r] # <<>>
    /\ Fault("deleted")
    /\ repos' = [repos EXCEPT ![r] = Tail(@)]
    /\ UNCHANGED <<sender, handlers, repoCount, events, pulled, made, firsts>>

Restart ==
    /\ Fault("restart")
    /\ queue' = <<>> /\ awaited' = {}
    /\ handlers' = [h \in Handlers |-> Idle]
    /\ UNCHANGED <<images, stored, events, pulled, made, firsts>>

Work(h) == Read(h) \/ Admit(h) \/ Create(h) \/ Update(h) \/ Count(h) \/ Answer(h)

Next ==
    \/ \E r \in Repos :
        \/ \E t \in Tags : Push(r, t) \/ Pull(r, t) \/ DeleteImage(r, t)
        \/ PushLayer(r) \/ CreateRepository(r) \/ DeleteRepository(r)
    \/ \E h \in Handlers : Deliver(h) \/ Work(h) \/ CallFails(h)
    \/ TimesOut \/ Restart

(* Distribution sends what it has; a call of ServeHTTP goes on. *)
Fairness ==
    /\ WF_vars(\E h \in Handlers : Deliver(h))
    /\ \A h \in Handlers : WF_vars(Work(h))

Spec == Init /\ [][Next]_vars
FairSpec == Spec /\ Fairness

------------------------------------------------------------------------------
(* Types of the variables.  An event that is sent again counts again: what *)
(* counts for it has no bound.                                             *)
Call == [at : {"idle", "read", "admit", "create", "update", "count", "done"},
         todo : Seq(Event), obj : Object, new : Object, count : Nat]

TypeOK ==
    /\ images \in [Repos -> [Tags -> 0..MaxEvents]]
    /\ queue \in Seq(Seq(Event)) /\ \A i \in DOMAIN queue : Len(queue[i]) \in 1..MaxBatch
    /\ awaited \subseteq Handlers /\ Cardinality(awaited) <= 1
    /\ handlers \in [Handlers -> Call]
    /\ repos \in [Repos -> Seq(Object)]
    /\ repoCount \in Nat /\ firsts \in Nat
    /\ events \in 0..MaxEvents /\ made \in 0..MaxObjects
    /\ pulled \in [Repos -> 0..MaxEvents]
    /\ happened \subseteq FaultKinds \cup {"batch"}

(***************************************************************************)
(* The namespace counts a repository at most once for every first tag it   *)
(* gets (notification.go:226), however calls overlap, are repeated or      *)
(* stop between the two updates.                                           *)
(***************************************************************************)
CountIsEarned ==
    repoCount + Cardinality({h \in Handlers : handlers[h].at = "count"}) <= firsts

(***************************************************************************)
(* Calls that overlap forget nothing of each other: an object that stays   *)
(* keeps its tags and its pulls (the status updates at notification.go:196 *)
(* and :246 are of the object that was listed, and compared).              *)
(***************************************************************************)
NothingForgotten ==
    [][\A r \in Repos : \A i \in DOMAIN repos[r], j \in DOMAIN repos'[r] :
        repos[r][i].id = repos'[r][j].id =>
            /\ repos'[r][j].pulls >= repos[r][i].pulls
            /\ \A t \in TagNames : repos[r][i].tags[t] # 0 => repos'[r][j].tags[t] # 0]_repos

(* The status tells what was pushed and pulled: images that are there are   *)
(* listed with the digest pushed last, pulls are counted, and so is every  *)
(* repository that has images, once.                                       *)
StatusTellsAll ==
    /\ repoCount = Cardinality({r \in Repos : repos[r] # <<>> /\ Head(repos[r]).tags # Untagged})
    /\ \A r \in Repos :
        /\ Len(repos[r]) <= 1
        /\ pulled[r] > 0 => repos[r] # <<>> /\ Head(repos[r]).pulls = pulled[r]
        /\ \A t \in Tags : images[r][t] # 0 =>
               repos[r] # <<>> /\ Head(repos[r]).tags[t] = images[r][t]

(***************************************************************************)
(* If nothing goes wrong the status is true in the end, wherever users     *)
(* stop: every push and pull is seen and nothing is lost between calls     *)
(* that overlap. (ServeHTTP answers OK also for events it could not        *)
(* handle, notification.go:115, so a failing call excuses it.)             *)
(***************************************************************************)
StatusIsTrue == <>[](happened = {} => StatusTellsAll)

(***************************************************************************)
(* What does not hold, and why the properties above have conditions.       *)
(* No image is invented: with several events in a notification a layer is  *)
(* listed as an image (notification.go:280 keeps &event).                  *)
(***************************************************************************)
OnlyImagesListed ==
    \A r \in Repos : \A i \in DOMAIN repos[r] : repos[r][i].tags[None] = 0

(* One object for a name: two calls both find none (validation.go:61). *)
OneObject == \A r \in Repos : Len(repos[r]) <= 1
==============================================================================
