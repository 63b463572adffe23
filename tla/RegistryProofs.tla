---------------------------- MODULE RegistryProofs ----------------------------
(***************************************************************************)
(* The registry's webhook, for every number of calls of ServeHTTP, of      *)
(* repositories, events and faults: calls that overlap forget nothing of   *)
(* each other, and the namespace's count of repositories is earned.        *)
(*                                                                         *)
(* The induction rests on what the version of an object stands for: there  *)
(* is one object of an id in a list, its version grows with every update,  *)
(* and a copy with the version of the stored object is that object.        *)
(***************************************************************************)
EXTENDS RegistryNotification, FiniteSetTheorems, SequenceTheorems, TLAPS

(* Every push has a digest. *)
Proper(e) == e.action = "push" => e.digest > 0
ProperAll(list) == \A i \in DOMAIN list : Proper(list[i])
Digests ==
    /\ \A i \in DOMAIN queue : ProperAll(queue[i])
    /\ \A h \in Handlers : ProperAll(handlers[h].todo)

(* A call that is at an event has one, and what is awaited is queued. *)
Busy == {"read", "admit", "create", "update", "count"}
Going ==
    /\ \A h \in Handlers : handlers[h].at \in Busy => handlers[h].todo # <<>>
    /\ awaited # {} => queue # <<>>
    /\ IsFiniteSet(awaited)
    /\ \A r \in Repos : pulled[r] <= events

(* Whatever the one has, the other has.                                    *)
Grows(old, new) ==
    /\ new.pulls >= old.pulls
    /\ \A t \in TagNames : old.tags[t] # 0 => new.tags[t] # 0

(* One object of an id.                                                    *)
Distinct(list) ==
    /\ \A i \in DOMAIN list : list[i].id <= made
    /\ \A i, j \in DOMAIN list : list[i].id = list[j].id => i = j

(* What a call computed from a copy keeps what that has, and the copy is   *)
(* the stored object, if that is there in no later version.                *)
KnownIn(obj, list) ==
    \A i \in DOMAIN list : list[i].id = obj.id =>
        /\ obj.rev <= list[i].rev
        /\ obj.rev = list[i].rev => list[i] = obj

Copy(h) ==
    LET obj == handlers[h].obj  new == handlers[h].new IN
    /\ obj.id <= made /\ new.id = obj.id /\ new.rev = obj.rev
    /\ Grows(obj, new)
    /\ KnownIn(obj, repos[Current(h).repo])

Copies == \A h \in Handlers : handlers[h].at = "update" => Copy(h)

(* The calls that are about to count.                                      *)
Counting == {h \in Handlers : handlers[h].at = "count"}

Counted == IsFiniteSet(Counting) /\ CountIsEarned

IInv ==
    /\ TypeOK /\ Digests /\ Going
    /\ \A r \in Repos : Distinct(repos[r])
    /\ Copies /\ Counted

------------------------------------------------------------------------------
(* Lists of objects.                                                       *)

(* The numbers of an object.                                               *)
LEMMA ObjectFields ==
    ASSUME NEW list \in Seq(Object), NEW i \in DOMAIN list
    PROVE  /\ list[i] \in Object
           /\ list[i].id \in Nat /\ list[i].rev \in Nat /\ list[i].pulls \in Nat
<1>1. list[i] \in Object BY LenProperties, ElementOfSeq
<1>2. 0..MaxObjects \subseteq Nat BY RegistryAssumption
<1> QED BY <1>1, <1>2 DEF Object

(* A later version of a list: objects stay, grow into a new version, go,   *)
(* or are new.                                                             *)
Later(old, new) ==
    \A j \in DOMAIN new :
        \/ new[j].id > made
        \/ \E i \in DOMAIN old :
            /\ old[i].id = new[j].id
            /\ \/ new[j] = old[i]
               \/ new[j].rev > old[i].rev /\ Grows(old[i], new[j])

(* Nothing is forgotten in it.                                             *)
LEMMA LaterKeeps ==
    ASSUME NEW old \in Seq(Object), NEW new \in Seq(Object), made \in Nat,
           Distinct(old), Later(old, new),
           NEW i \in DOMAIN old, NEW j \in DOMAIN new, old[i].id = new[j].id
    PROVE  Grows(old[i], new[j])
<1>1. old[i].id <= made BY DEF Distinct
<1>2. old[i].id \in Nat /\ old[i].pulls \in Nat /\ new[j].id \in Nat BY ObjectFields
<1>3. PICK k \in DOMAIN old :
        /\ old[k].id = new[j].id
        /\ \/ new[j] = old[k]
           \/ new[j].rev > old[k].rev /\ Grows(old[k], new[j])
  BY <1>1, <1>2 DEF Later
<1>4. k = i BY <1>3 DEF Distinct
<1>5. CASE new[j] = old[i] BY <1>2, <1>5 DEF Grows
<1> QED BY <1>3, <1>4, <1>5

(* Copies are copies still.                                                *)
LEMMA LaterKnown ==
    ASSUME NEW old \in Seq(Object), NEW new \in Seq(Object), made \in Nat,
           Distinct(old), Later(old, new), NEW obj \in Object, obj.id <= made, KnownIn(obj, old)
    PROVE  KnownIn(obj, new)
<1> SUFFICES ASSUME NEW j \in DOMAIN new, new[j].id = obj.id
             PROVE  obj.rev <= new[j].rev /\ (obj.rev = new[j].rev => new[j] = obj)
  BY DEF KnownIn
<1>1. new[j].id \in Nat /\ new[j].rev \in Nat /\ obj.id \in Nat /\ obj.rev \in Nat
  BY ObjectFields, RegistryAssumption DEF Object
<1>2. PICK k \in DOMAIN old :
        /\ old[k].id = new[j].id
        /\ \/ new[j] = old[k]
           \/ new[j].rev > old[k].rev /\ Grows(old[k], new[j])
  BY <1>1 DEF Later
<1>3. old[k].rev \in Nat BY ObjectFields
<1>4. obj.rev <= old[k].rev /\ (obj.rev = old[k].rev => old[k] = obj) BY <1>2 DEF KnownIn
<1> QED BY <1>1, <1>2, <1>3, <1>4

(* A list grows at an end; SUFFICES ids, which are what made counts.       *)
LEMMA StoredList ==
    ASSUME NEW old \in Seq(Object), NEW obj \in Object, NEW new \in {<<obj>> \o old, Append(old, obj)}
    PROVE  /\ new \in Seq(Object) /\ Len(new) = Len(old) + 1
           /\ \/ /\ new[1] = obj
                 /\ \A i \in DOMAIN new : i # 1 => i - 1 \in DOMAIN old /\ new[i] = old[i - 1]
              \/ /\ new[Len(old) + 1] = obj
                 /\ \A i \in DOMAIN new : i # Len(old) + 1 => i \in DOMAIN old /\ new[i] = old[i]
<1>1. Len(old) \in Nat /\ DOMAIN old = 1..Len(old) BY LenProperties
<1>2. CASE new = Append(old, obj)
  <2>1. new \in Seq(Object) /\ Len(new) = Len(old) + 1 /\ new[Len(old) + 1] = obj
        /\ \A i \in 1..Len(old) : new[i] = old[i]
    BY <1>2, AppendProperties
  <2>2. DOMAIN new = 1..Len(old) + 1 BY <2>1, LenProperties
  <2> QED BY <1>1, <2>1, <2>2
<1>3. CASE new = <<obj>> \o old
  <2>1. <<obj>> \in Seq(Object) /\ Len(<<obj>>) = 1 /\ <<obj>>[1] = obj OBVIOUS
  <2>2. new \in Seq(Object) /\ Len(new) = 1 + Len(old)
        /\ \A i \in 1..1 + Len(old) : new[i] = IF i <= 1 THEN <<obj>>[i] ELSE old[i - 1]
    BY <1>3, <2>1, ConcatProperties
  <2>3. DOMAIN new = 1..Len(old) + 1 BY <1>1, <2>2, LenProperties
  <2> QED BY <1>1, <2>1, <2>2, <2>3
<1> QED BY <1>2, <1>3

------------------------------------------------------------------------------
(* Calls and what they count.                                              *)

Ats == {"idle", "read", "admit", "create", "update", "count", "done"}

(* No object, and no call.                                                 *)
LEMMA IdleType ==
    /\ NoObject \in Object /\ NoObject.id = 0 /\ NoObject.rev = 0 /\ NoObject.pulls = 0
    /\ NoObject.tags = Untagged
    /\ Idle \in Call /\ Idle.at = "idle" /\ Idle.todo = <<>>
<1>1. 0 \in 0..MaxObjects /\ 0 \in 0..MaxEvents BY RegistryAssumption
<1>2. Untagged \in [TagNames -> 0..MaxEvents] BY <1>1 DEF Untagged
<1>3. NoObject \in Object /\ NoObject.id = 0 /\ NoObject.rev = 0 /\ NoObject.pulls = 0
      /\ NoObject.tags = Untagged
  BY <1>1, <1>2 DEF NoObject, Object
<1>4. <<>> \in Seq(Event) BY EmptySeq
<1> QED BY <1>3, <1>4 DEF Idle, Call

(* A call that is at an event, or done.                                    *)
LEMMA CallType ==
    ASSUME NEW todo \in Seq(Event), NEW at \in Ats
    PROVE  LET call == [Idle EXCEPT !.todo = todo, !.at = at]
           IN  call \in Call /\ call.at = at /\ call.todo = todo
BY IdleType DEF Call, Ats

(* A call that goes on to the next event.                                  *)
LEMMA NextEventType ==
    ASSUME IInv, NEW h \in Handlers, handlers[h].at \in Busy, NextEvent(h)
    PROVE  /\ handlers' \in [Handlers -> Call]
           /\ \A g \in Handlers \ {h} : handlers'[g] = handlers[g]
           /\ handlers'[h].at \in {"read", "done"}
           /\ handlers'[h].at = "read" => handlers'[h].todo # <<>>
           /\ ProperAll(handlers'[h].todo)
<1> DEFINE old == handlers[h].todo
           todo == Tail(old)
           at == IF todo = <<>> THEN "done" ELSE "read"
           call == [Idle EXCEPT !.todo = todo, !.at = at]
<1>1. handlers \in [Handlers -> Call] /\ handlers[h] \in Call BY DEF IInv, TypeOK
<1>2. old \in Seq(Event) /\ old # <<>> /\ ProperAll(old)
  BY <1>1 DEF IInv, Going, Digests, Call
<1>3. todo \in Seq(Event) /\ Len(todo) = Len(old) - 1 /\ \A i \in 1..Len(todo) : todo[i] = old[i + 1]
  BY <1>2, HeadTailProperties
<1>4. ProperAll(todo)
  <2>1. Len(old) \in Nat /\ DOMAIN old = 1..Len(old) /\ DOMAIN todo = 1..Len(todo)
    BY <1>2, <1>3, LenProperties
  <2> HIDE DEF old, todo
  <2> QED BY <1>2, <1>3, <2>1, SMTT(30) DEF ProperAll
<1>5. handlers' = [handlers EXCEPT ![h] = call] BY DEF NextEvent
<1>6. at \in {"read", "done"} /\ (at = "read" => todo # <<>>) OBVIOUS
<1> HIDE DEF at, todo
<1>7. todo \in Seq(Event) /\ at \in Ats BY <1>3, <1>6 DEF Ats
<1>8. call \in Call /\ call.at = at /\ call.todo = todo BY <1>7, CallType
<1> HIDE DEF call
<1> QED BY <1>1, <1>4, <1>5, <1>6, <1>8

(* No call begins or ends to count.                                        *)
LEMMA CountStays ==
    ASSUME IInv, \A g \in Handlers : handlers'[g].at = "count" <=> handlers[g].at = "count",
           repoCount' = repoCount, firsts' = firsts
    PROVE  Counted'
<1>1. Counting' = Counting BY DEF Counting
<1> QED BY <1>1 DEF IInv, Counted, CountIsEarned, Counting

(* A call earned its count.                                                *)
LEMMA CountJoins ==
    ASSUME IInv, NEW h \in Handlers, handlers[h].at # "count", handlers'[h].at = "count",
           \A g \in Handlers \ {h} : handlers'[g] = handlers[g],
           repoCount' = repoCount, firsts' = firsts + 1
    PROVE  Counted'
<1>1. Counting' = Counting \cup {h} /\ h \notin Counting BY DEF Counting
<1>2. IsFiniteSet(Counting) /\ repoCount + Cardinality(Counting) <= firsts
  BY DEF IInv, Counted, CountIsEarned, Counting
<1>3. IsFiniteSet(Counting') /\ Cardinality(Counting') = Cardinality(Counting) + 1
  BY <1>1, <1>2, FS_AddElement
<1>4. Cardinality(Counting) \in Nat BY <1>2, FS_CardinalityType
<1>5. repoCount \in Nat /\ firsts \in Nat BY DEF IInv, TypeOK
<1>6. repoCount' + Cardinality(Counting') <= firsts' BY <1>2, <1>3, <1>4, <1>5
<1> QED BY <1>3, <1>6 DEF Counted, CountIsEarned, Counting

(* A call has counted, or does not.                                        *)
LEMMA CountLeaves ==
    ASSUME IInv, NEW h \in Handlers, handlers[h].at = "count", handlers'[h].at # "count",
           \A g \in Handlers \ {h} : handlers'[g] = handlers[g],
           repoCount' \in {repoCount, repoCount + 1}, firsts' = firsts
    PROVE  Counted'
<1>1. Counting' = Counting \ {h} /\ h \in Counting BY DEF Counting
<1>2. IsFiniteSet(Counting) /\ repoCount + Cardinality(Counting) <= firsts
  BY DEF IInv, Counted, CountIsEarned, Counting
<1>3. IsFiniteSet(Counting') /\ Cardinality(Counting') = Cardinality(Counting) - 1
  BY <1>1, <1>2, FS_RemoveElement
<1>4. Cardinality(Counting) \in Nat BY <1>2, FS_CardinalityType
<1>5. repoCount \in Nat /\ firsts \in Nat BY DEF IInv, TypeOK
<1>6. repoCount' + Cardinality(Counting') <= firsts' BY <1>2, <1>3, <1>4, <1>5
<1> QED BY <1>3, <1>6 DEF Counted, CountIsEarned, Counting

(* A list is a later version of itself.                                    *)
LEMMA LaterSame == ASSUME NEW list PROVE Later(list, list)
BY DEF Later

(* Copies stay good while lists move on.                                   *)
LEMMA CopiesKept ==
    ASSUME IInv, TypeOK', made <= made', \A r \in Repos : Later(repos[r], repos'[r]),
           \A g \in Handlers : handlers'[g].at = "update" => handlers'[g] = handlers[g]
    PROVE  Copies'
<1> SUFFICES ASSUME NEW h \in Handlers, handlers'[h].at = "update" PROVE Copy(h)'
  BY DEF Copies
<1> DEFINE obj == handlers[h].obj
           e == Current(h)
<1>1. handlers'[h] = handlers[h] /\ Copy(h) /\ handlers[h] \in Call /\ handlers[h].todo # <<>>
  BY DEF IInv, TypeOK, Copies, Going, Busy
<1>2. e \in Event /\ e.repo \in Repos
  <2>1. handlers[h].todo \in Seq(Event) BY <1>1 DEF Call
  <2>2. e \in Event BY <1>1, <2>1, HeadTailProperties DEF Current
  <2> QED BY <2>2 DEF Event
<1>3. obj \in Object /\ obj.id \in Nat BY <1>1, RegistryAssumption DEF Call, Object
<1>4. made \in Nat /\ made' \in Nat BY RegistryAssumption DEF IInv, TypeOK
<1>5. repos[e.repo] \in Seq(Object) /\ repos'[e.repo] \in Seq(Object) BY <1>2 DEF IInv, TypeOK
<1>6. obj.id <= made /\ KnownIn(obj, repos[e.repo]) BY <1>1 DEF Copy
<1>7. Distinct(repos[e.repo]) /\ Later(repos[e.repo], repos'[e.repo]) BY <1>2 DEF IInv
<1>8. KnownIn(obj, repos'[e.repo]) BY <1>3, <1>4, <1>5, <1>6, <1>7, LaterKnown
<1>9. obj.id <= made' BY <1>3, <1>4, <1>6
<1> QED BY <1>1, <1>8, <1>9 DEF Copy, Current, KnownIn

------------------------------------------------------------------------------
(* Clients.                                                                *)

(* Whatever only tells of events, with events of clients.                  *)
LEMMA NotifyInv ==
    ASSUME IInv, NEW e \in Event, Proper(e), Notify(e),
           UNCHANGED <<awaited, handlers, repos, repoCount, made, firsts>>,
           images' \in [Repos -> [Tags -> 0..MaxEvents]], pulled' \in [Repos -> Nat],
           \A r \in Repos : pulled'[r] <= pulled[r] + 1
    PROVE  IInv'
<1>1. events \in Nat /\ events' = events + 1 /\ events' \in 0..MaxEvents
  BY RegistryAssumption DEF IInv, TypeOK, Notify
<1>2. /\ queue \in Seq(Seq(Event)) /\ IsFiniteSet(awaited)
      /\ \A i \in DOMAIN queue : Len(queue[i]) \in 1..MaxBatch /\ ProperAll(queue[i])
      /\ Len(queue) \in Nat /\ DOMAIN queue = 1..Len(queue)
  BY LenProperties DEF IInv, TypeOK, Going, Digests
<1>3. /\ queue' \in Seq(Seq(Event)) /\ queue' # <<>>
      /\ \A i \in DOMAIN queue' : Len(queue'[i]) \in 1..MaxBatch /\ ProperAll(queue'[i])
      /\ happened' \subseteq FaultKinds \cup {"batch"}
  <2>1. CASE queue' = Append(queue, <<e>>) /\ UNCHANGED happened
    <3>1. <<e>> \in Seq(Event) /\ Len(<<e>>) = 1 /\ ProperAll(<<e>>) BY DEF ProperAll
    <3>2. /\ queue' \in Seq(Seq(Event)) /\ queue' # <<>> /\ Len(queue') = Len(queue) + 1
          /\ \A i \in 1..Len(queue) : queue'[i] = queue[i]
          /\ queue'[Len(queue) + 1] = <<e>>
      BY <1>2, <2>1, <3>1, AppendProperties
    <3>3. DOMAIN queue' = 1..Len(queue) + 1 BY <3>2, LenProperties
    <3>4. 1 \in 1..MaxBatch BY RegistryAssumption
    <3>5. ASSUME NEW i \in DOMAIN queue'
          PROVE  Len(queue'[i]) \in 1..MaxBatch /\ ProperAll(queue'[i])
      <4>1. CASE i = Len(queue) + 1 BY <3>1, <3>2, <3>4, <4>1
      <4>2. CASE i \in 1..Len(queue) BY <1>2, <3>2, <4>2
      <4> QED BY <1>2, <3>3, <4>1, <4>2
    <3> QED BY <2>1, <3>2, <3>5 DEF IInv, TypeOK
  <2>2. CASE /\ Len(queue) > Cardinality(awaited)
             /\ Len(queue[Len(queue)]) < MaxBatch
             /\ queue' = [queue EXCEPT ![Len(queue)] = Append(@, e)]
             /\ happened' = happened \cup {"batch"}
    <3> DEFINE n == Len(queue)
               last == Append(queue[n], e)
    <3>1. Cardinality(awaited) \in Nat BY <1>2, FS_CardinalityType
    <3>2. n \in 1..n /\ queue[n] \in Seq(Event) /\ ProperAll(queue[n]) /\ Len(queue[n]) \in Nat
      BY <1>2, <2>2, <3>1, ElementOfSeq
    <3>3. /\ last \in Seq(Event) /\ Len(last) = Len(queue[n]) + 1
          /\ \A j \in 1..Len(queue[n]) : last[j] = queue[n][j]
          /\ last[Len(queue[n]) + 1] = e
      BY <3>2, AppendProperties
    <3>4. DOMAIN last = 1..Len(queue[n]) + 1 /\ DOMAIN queue[n] = 1..Len(queue[n])
      BY <3>2, <3>3, LenProperties
    <3> HIDE DEF last
    <3>5. ProperAll(last)
      <4> SUFFICES ASSUME NEW j \in DOMAIN last PROVE Proper(last[j]) BY DEF ProperAll
      <4>1. CASE j = Len(queue[n]) + 1 BY <3>3, <4>1
      <4>2. CASE j \in 1..Len(queue[n]) BY <3>2, <3>3, <3>4, <4>2 DEF ProperAll
      <4> QED BY <3>2, <3>4, <4>1, <4>2
    <3>6. Len(last) \in 1..MaxBatch BY <2>2, <3>2, <3>3, RegistryAssumption
    <3>7. queue' = [queue EXCEPT ![n] = last] BY <2>2 DEF last
    <3>8. /\ queue' \in Seq(Seq(Event)) /\ Len(queue') = n
          /\ \A j \in 1..n : queue'[j] = IF j = n THEN last ELSE queue[j]
      BY <1>2, <3>2, <3>3, <3>7, ExceptSeq
    <3>9. DOMAIN queue' = 1..n BY <3>8, LenProperties
    <3>10. queue' # <<>> BY <3>2, <3>8, EmptySeq
    <3> QED BY <1>2, <2>2, <3>5, <3>6, <3>8, <3>9, <3>10 DEF IInv, TypeOK
  <2> QED BY <2>1, <2>2 DEF Notify
<1>4. \A r \in Repos : pulled'[r] <= events' /\ pulled'[r] \in 0..MaxEvents
  <2> TAKE r \in Repos
  <2>1. pulled[r] \in Nat /\ pulled[r] <= events /\ pulled'[r] \in Nat /\ pulled'[r] <= pulled[r] + 1
    BY DEF IInv, TypeOK, Going
  <2> QED BY <1>1, <2>1, RegistryAssumption
<1>5. TypeOK'
  <2>1. pulled' \in [Repos -> 0..MaxEvents] BY <1>4
  <2> QED BY <1>1, <1>3, <2>1 DEF IInv, TypeOK
<1>6. Digests' /\ Going' BY <1>3, <1>4 DEF IInv, Digests, Going
<1>7. \A r \in Repos : Distinct(repos[r])' BY DEF IInv, Distinct
<1>8. Copies' BY DEF IInv, Copies, Copy, Current
<1>9. Counted' BY CountStays
<1> QED BY <1>5, <1>6, <1>7, <1>8, <1>9 DEF IInv

(* Pushes, of images and layers, pulls and deletions.                      *)
LEMMA PushInv == ASSUME IInv, NEW r \in Repos, NEW t \in Tags, Push(r, t) PROVE IInv'
<1> DEFINE e == [action |-> "push", repo |-> r, tag |-> t, digest |-> events + 1, kept |-> TRUE]
<1>1. events + 1 \in 0..MaxEvents /\ events \in Nat
  BY RegistryAssumption DEF IInv, TypeOK, Push, Notify
<1>2. e \in Event /\ Proper(e) BY <1>1 DEF Event, TagNames, Proper
<1>3. Notify(e) /\ images' = [images EXCEPT ![r][t] = events + 1] BY DEF Push
<1> HIDE DEF e
<1>4. images' \in [Repos -> [Tags -> 0..MaxEvents]] BY <1>1, <1>3 DEF IInv, TypeOK
<1>5. UNCHANGED <<awaited, handlers, repos, repoCount, pulled, made, firsts>> BY DEF Push, stored
<1>6. pulled' \in [Repos -> Nat] /\ \A q \in Repos : pulled'[q] <= pulled[q] + 1
  BY <1>5 DEF IInv, TypeOK
<1> QED BY <1>2, <1>3, <1>4, <1>5, <1>6, NotifyInv

LEMMA PullInv == ASSUME IInv, NEW r \in Repos, NEW t \in Tags, Pull(r, t) PROVE IInv'
<1> DEFINE e == [action |-> "pull", repo |-> r, tag |-> t, digest |-> images[r][t], kept |-> TRUE]
<1>1. images[r][t] \in 0..MaxEvents BY DEF IInv, TypeOK
<1>2. e \in Event /\ Proper(e) BY <1>1 DEF Event, TagNames, Proper
<1>3. Notify(e) /\ pulled' = [pulled EXCEPT ![r] = @ + 1] BY DEF Pull
<1> HIDE DEF e
<1>4. UNCHANGED <<images, awaited, handlers, repos, repoCount, made, firsts>> BY DEF Pull, stored
<1>5. images' \in [Repos -> [Tags -> 0..MaxEvents]] BY <1>4 DEF IInv, TypeOK
<1>6. pulled' \in [Repos -> Nat] /\ \A q \in Repos : pulled'[q] <= pulled[q] + 1
  BY <1>3 DEF IInv, TypeOK
<1> QED BY <1>2, <1>3, <1>4, <1>5, <1>6, NotifyInv

LEMMA PushLayerInv == ASSUME IInv, NEW r \in Repos, PushLayer(r) PROVE IInv'
<1> DEFINE e == [action |-> "push", repo |-> r, tag |-> None, digest |-> events + 1, kept |-> FALSE]
<1>1. events + 1 \in 0..MaxEvents /\ events \in Nat
  BY RegistryAssumption DEF IInv, TypeOK, PushLayer, Notify
<1>2. e \in Event /\ Proper(e) BY <1>1 DEF Event, TagNames, Proper
<1>3. Notify(e) BY DEF PushLayer
<1> HIDE DEF e
<1>4. UNCHANGED <<images, awaited, handlers, repos, repoCount, pulled, made, firsts>>
  BY DEF PushLayer, stored
<1>5. images' \in [Repos -> [Tags -> 0..MaxEvents]] BY <1>4 DEF IInv, TypeOK
<1>6. pulled' \in [Repos -> Nat] /\ \A q \in Repos : pulled'[q] <= pulled[q] + 1
  BY <1>4 DEF IInv, TypeOK
<1> QED BY <1>2, <1>3, <1>4, <1>5, <1>6, NotifyInv

LEMMA DeleteImageInv == ASSUME IInv, NEW r \in Repos, NEW t \in Tags, DeleteImage(r, t) PROVE IInv'
<1> DEFINE e == [action |-> "delete", repo |-> r, tag |-> None, digest |-> images[r][t], kept |-> TRUE]
<1>1. images[r][t] \in 0..MaxEvents BY DEF IInv, TypeOK
<1>2. e \in Event /\ Proper(e) BY <1>1 DEF Event, TagNames, Proper
<1>3. Notify(e) /\ images' = [images EXCEPT ![r][t] = 0] BY DEF DeleteImage
<1> HIDE DEF e
<1>4. UNCHANGED <<awaited, handlers, repos, repoCount, pulled, made, firsts>> BY DEF DeleteImage, stored
<1>5. images' \in [Repos -> [Tags -> 0..MaxEvents]]
  BY <1>3, RegistryAssumption DEF IInv, TypeOK
<1>6. pulled' \in [Repos -> Nat] /\ \A q \in Repos : pulled'[q] <= pulled[q] + 1
  BY <1>4 DEF IInv, TypeOK
<1> QED BY <1>2, <1>3, <1>4, <1>5, <1>6, NotifyInv

------------------------------------------------------------------------------
(* Calls.                                                                  *)

(* A step of one call that leaves the objects alone.                       *)
LEMMA CallStep ==
    ASSUME IInv, TypeOK', NEW h \in Handlers, UNCHANGED <<repos, made, pulled, events>>,
           \A g \in Handlers \ {h} : handlers'[g] = handlers[g],
           handlers'[h].at \in Busy => handlers'[h].todo # <<>>,
           ProperAll(handlers'[h].todo),
           handlers'[h].at = "update" => Copy(h)',
           \A i \in DOMAIN queue' : ProperAll(queue'[i]),
           awaited' # {} => queue' # <<>>, IsFiniteSet(awaited'), Counted'
    PROVE  IInv'
<1>1. Digests' /\ Going' BY DEF IInv, Digests, Going
<1>2. \A r \in Repos : Distinct(repos[r])' BY DEF IInv, Distinct
<1>3. Copies'
  <2> SUFFICES ASSUME NEW g \in Handlers, handlers'[g].at = "update" PROVE Copy(g)' BY DEF Copies
  <2>1. CASE g = h BY <2>1
  <2>2. CASE g # h BY <2>2 DEF IInv, Copies, Copy, Current
  <2> QED BY <2>1, <2>2
<1> QED BY <1>1, <1>2, <1>3 DEF IInv

(* What the calls have.                                                    *)
LEMMA Has ==
    ASSUME IInv, NEW h \in Handlers
    PROVE  /\ handlers \in [Handlers -> Call] /\ handlers[h] \in Call
           /\ handlers[h].todo \in Seq(Event) /\ ProperAll(handlers[h].todo)
           /\ \A i \in DOMAIN queue : ProperAll(queue[i])
           /\ awaited # {} => queue # <<>>
           /\ IsFiniteSet(awaited)
           /\ handlers[h].at \in Busy =>
                /\ handlers[h].todo # <<>> /\ Current(h) \in Event /\ Current(h).repo \in Repos
                /\ Current(h).tag \in TagNames /\ Current(h).digest \in 0..MaxEvents
                /\ Proper(Current(h)) /\ repos[Current(h).repo] \in Seq(Object)
<1>1. handlers \in [Handlers -> Call] /\ handlers[h] \in Call /\ handlers[h].todo \in Seq(Event)
  BY DEF IInv, TypeOK, Call
<1>2. ProperAll(handlers[h].todo) BY DEF IInv, Digests
<1>3. ASSUME handlers[h].at \in Busy
      PROVE  /\ handlers[h].todo # <<>> /\ Current(h) \in Event /\ Proper(Current(h))
  <2> DEFINE todo == handlers[h].todo
  <2>1. todo # <<>> BY <1>3 DEF IInv, Going
  <2>2. Current(h) \in Event BY <1>1, <2>1, HeadTailProperties DEF Current
  <2>3. Current(h) = todo[1] /\ 1 \in DOMAIN todo
    <3> HIDE DEF todo
    <3>1. todo \in Seq(Event) BY <1>1 DEF todo
    <3>2. Len(todo) \in Nat \ {0} /\ DOMAIN todo = 1..Len(todo) BY <2>1, <3>1, EmptySeq, LenProperties
    <3>3. Head(todo) = todo[1] BY <2>1, <3>1
    <3> QED BY <3>2, <3>3 DEF Current, todo
  <2> QED BY <1>2, <2>1, <2>2, <2>3 DEF ProperAll
<1>4. \A e \in Event : e.repo \in Repos /\ e.tag \in TagNames /\ e.digest \in 0..MaxEvents
  BY DEF Event
<1>5. \A r \in Repos : repos[r] \in Seq(Object) BY DEF IInv, TypeOK
<1> QED BY <1>1, <1>2, <1>3, <1>4, <1>5 DEF IInv, Digests, Going

(* The call goes on to the next event, and there is nothing to count.      *)
LEMMA Leaves ==
    ASSUME IInv, NEW h \in Handlers, handlers[h].at \in Busy \ {"count"}, NextEvent(h),
           UNCHANGED <<images, queue, awaited, repos, repoCount, events, pulled, made, firsts>>,
           happened' \subseteq FaultKinds \cup {"batch"}
    PROVE  IInv'
<1>1. /\ handlers' \in [Handlers -> Call]
      /\ \A g \in Handlers \ {h} : handlers'[g] = handlers[g]
      /\ handlers'[h].at \in {"read", "done"}
      /\ handlers'[h].at = "read" => handlers'[h].todo # <<>>
      /\ ProperAll(handlers'[h].todo)
  BY NextEventType
<1>2. TypeOK' BY <1>1 DEF IInv, TypeOK
<1>3. \A g \in Handlers : handlers'[g].at = "count" <=> handlers[g].at = "count" BY <1>1
<1>4. Counted' BY <1>3, CountStays
<1> QED BY <1>1, <1>2, <1>4, CallStep, Has DEF Busy

(* What is kept of a notification are its proper events.                   *)
LEMMA FilterType ==
    ASSUME NEW notification \in Seq(Event), ProperAll(notification), notification # <<>>
    PROVE  filterEvents(notification) \in Seq(Event) /\ ProperAll(filterEvents(notification))
<1> DEFINE kept == {j \in DOMAIN notification : notification[j].kept}
           n == Cardinality(kept)
           last == notification[Len(notification)]
           todo == [i \in 1..n |-> last]
<1>1. Len(notification) \in Nat \ {0} /\ DOMAIN notification = 1..Len(notification)
  BY EmptySeq, LenProperties
<1>2. IsFiniteSet(1..Len(notification)) BY <1>1, FS_Interval
<1>3. IsFiniteSet(kept) BY <1>1, <1>2, FS_Subset
<1>4. n \in Nat BY <1>3, FS_CardinalityType
<1>5. last \in Event BY <1>1, ElementOfSeq
<1>6. Proper(last) BY <1>1 DEF ProperAll
<1>7. filterEvents(notification) = todo BY DEF filterEvents
<1> HIDE DEF last, n
<1>8. todo \in Seq(Event) /\ DOMAIN todo = 1..n /\ \A i \in 1..n : todo[i] = last BY <1>4, <1>5
<1> QED BY <1>6, <1>7, <1>8 DEF ProperAll

(* The oldest notification is sent.                                        *)
LEMMA DeliverInv == ASSUME IInv, NEW h \in Handlers, Deliver(h) PROVE IInv'
<1> DEFINE todo == filterEvents(Head(queue))
           at == IF todo = <<>> THEN "done" ELSE "read"
           call == [Idle EXCEPT !.todo = todo, !.at = at]
<1>1. /\ queue # <<>> /\ queue \in Seq(Seq(Event)) /\ Len(queue) \in Nat \ {0}
      /\ DOMAIN queue = 1..Len(queue)
  BY EmptySeq, LenProperties DEF Deliver, IInv, TypeOK
<1>2. Head(queue) = queue[1] /\ Head(queue) \in Seq(Event) BY <1>1, HeadTailProperties
<1>3. ProperAll(Head(queue)) /\ Len(Head(queue)) \in 1..MaxBatch
  BY <1>1, <1>2 DEF IInv, TypeOK, Digests
<1>4. Head(queue) # <<>> BY <1>2, <1>3, EmptySeq
<1>5. todo \in Seq(Event) /\ ProperAll(todo) BY <1>2, <1>3, <1>4, FilterType
<1>6. /\ handlers' = [handlers EXCEPT ![h] = call] /\ awaited' = {h}
      /\ UNCHANGED <<images, queue, repos, repoCount, events, pulled, made, firsts, happened>>
  BY DEF Deliver, stored, history
<1>7. handlers[h].at = "idle" BY DEF Deliver, Free
<1>8. at \in {"read", "done"} /\ (at = "read" => todo # <<>>) OBVIOUS
<1> HIDE DEF at, todo
<1>9. at \in Ats BY <1>8 DEF Ats
<1>10. call \in Call /\ call.at = at /\ call.todo = todo BY <1>5, <1>9, CallType
<1> HIDE DEF call
<1>11. /\ handlers' \in [Handlers -> Call] /\ handlers'[h] = call
       /\ \A g \in Handlers \ {h} : handlers'[g] = handlers[g]
  BY <1>6, <1>10 DEF IInv, TypeOK
<1>12. IsFiniteSet(awaited') /\ Cardinality(awaited') = 1 BY <1>6, FS_Singleton
<1>13. TypeOK' BY <1>6, <1>11, <1>12 DEF IInv, TypeOK
<1>14. \A g \in Handlers : handlers'[g].at = "count" <=> handlers[g].at = "count"
  BY <1>7, <1>8, <1>10, <1>11
<1>15. Counted' BY <1>6, <1>14, CountStays
<1> QED BY <1>1, <1>5, <1>6, <1>8, <1>10, <1>11, <1>12, <1>13, <1>15, CallStep, Has DEF Busy

(* A notification is taken for lost.                                       *)
LEMMA TimesOutInv == ASSUME IInv, TimesOut PROVE IInv'
<1>1. /\ awaited' = {} /\ happened' \subseteq FaultKinds \cup {"batch"}
      /\ UNCHANGED <<images, queue, handlers, repos, repoCount, events, pulled, made, firsts>>
  BY DEF TimesOut, Fault, stored, IInv, TypeOK
<1>2. IsFiniteSet(awaited') /\ Cardinality(awaited') = 0 BY <1>1, FS_EmptySet
<1>3. TypeOK' BY <1>1, <1>2 DEF IInv, TypeOK
<1>4. Digests' /\ Going' /\ (\A r \in Repos : Distinct(repos[r])') /\ Copies'
  BY <1>1, <1>2 DEF IInv, Digests, Going, Distinct, Copies, Copy, Current
<1>5. Counted' BY <1>1, CountStays
<1> QED BY <1>3, <1>4, <1>5 DEF IInv

(* The call is answered, in time or late.                                  *)
LEMMA AnswerInv == ASSUME IInv, NEW h \in Handlers, Answer(h) PROVE IInv'
<1>1. /\ handlers[h].at = "done" /\ handlers' = [handlers EXCEPT ![h] = Idle]
      /\ UNCHANGED <<images, repos, repoCount, events, pulled, made, firsts, happened>>
  BY DEF Answer, stored, history
<1>2. /\ handlers' \in [Handlers -> Call] /\ handlers'[h] = Idle
      /\ \A g \in Handlers \ {h} : handlers'[g] = handlers[g]
  BY <1>1, IdleType DEF IInv, TypeOK
<1>3. /\ queue' \in Seq(Seq(Event)) /\ awaited' \subseteq Handlers
      /\ Cardinality(awaited') <= 1 /\ IsFiniteSet(awaited')
      /\ \A i \in DOMAIN queue' : Len(queue'[i]) \in 1..MaxBatch /\ ProperAll(queue'[i])
      /\ awaited' # {} => queue' # <<>>
  <2>1. CASE h \in awaited /\ awaited' = {} /\ queue' = Tail(queue)
    <3>1. queue \in Seq(Seq(Event)) /\ queue # <<>> BY <2>1 DEF IInv, TypeOK, Going
    <3>2. /\ queue' \in Seq(Seq(Event)) /\ Len(queue') = Len(queue) - 1
          /\ \A i \in 1..Len(queue') : queue'[i] = queue[i + 1]
      BY <2>1, <3>1, HeadTailProperties
    <3>3. DOMAIN queue' = 1..Len(queue') /\ DOMAIN queue = 1..Len(queue) /\ Len(queue) \in Nat
      BY <3>1, <3>2, LenProperties
    <3>4. \A i \in 1..Len(queue') : i + 1 \in 1..Len(queue) BY <3>2, <3>3
    <3> QED BY <2>1, <3>2, <3>3, <3>4, FS_EmptySet DEF IInv, TypeOK, Digests
  <2>2. CASE UNCHANGED <<awaited, queue>> BY <2>2 DEF IInv, TypeOK, Digests, Going
  <2> QED BY <2>1, <2>2 DEF Answer
<1>4. TypeOK' BY <1>1, <1>2, <1>3 DEF IInv, TypeOK
<1>5. \A g \in Handlers : handlers'[g].at = "count" <=> handlers[g].at = "count"
  BY <1>1, <1>2, IdleType
<1>6. Counted' BY <1>1, <1>5, CountStays
<1>7. ProperAll(Idle.todo) BY IdleType DEF ProperAll
<1> QED BY <1>1, <1>2, <1>3, <1>4, <1>6, <1>7, CallStep, IdleType DEF Busy

(* What a call computes keeps what its copy has.                           *)
LEMMA Computed ==
    ASSUME NEW obj \in Object, NEW e \in Event, Proper(e)
    PROVE  /\ e.action = "push" =>
                LET new == [obj EXCEPT !.tags[e.tag] = e.digest]
                IN  new \in Object /\ new.id = obj.id /\ new.rev = obj.rev /\ Grows(obj, new)
           /\ LET new == [obj EXCEPT !.pulls = @ + 1]
              IN  new \in Object /\ new.id = obj.id /\ new.rev = obj.rev /\ Grows(obj, new)
<1>1. e.tag \in TagNames /\ e.digest \in 0..MaxEvents BY DEF Event
<1>2. obj.tags \in [TagNames -> 0..MaxEvents] /\ obj.pulls \in Nat BY DEF Object
<1>3. ASSUME e.action = "push"
      PROVE  LET new == [obj EXCEPT !.tags[e.tag] = e.digest]
             IN  new \in Object /\ new.id = obj.id /\ new.rev = obj.rev /\ Grows(obj, new)
  <2> DEFINE tags == [obj.tags EXCEPT ![e.tag] = e.digest]
             new == [obj EXCEPT !.tags = tags]
  <2>1. [obj EXCEPT !.tags[e.tag] = e.digest] = new OBVIOUS
  <2>2. e.digest > 0 BY <1>3 DEF Proper
  <2>3. tags \in [TagNames -> 0..MaxEvents] /\ \A t \in TagNames : obj.tags[t] # 0 => tags[t] # 0
    BY <1>1, <1>2, <2>2
  <2> HIDE DEF tags
  <2>4. new \in Object /\ new.id = obj.id /\ new.rev = obj.rev /\ new.tags = tags
        /\ new.pulls = obj.pulls
    BY <2>3 DEF Object
  <2> HIDE DEF new
  <2>5. Grows(obj, new) BY <1>2, <2>3, <2>4 DEF Grows
  <2> QED BY <2>1, <2>4, <2>5
<1>4. LET new == [obj EXCEPT !.pulls = @ + 1]
      IN  new \in Object /\ new.id = obj.id /\ new.rev = obj.rev /\ Grows(obj, new)
  BY <1>2 DEF Object, Grows
<1> QED BY <1>3, <1>4

(* Namespace and repository are read.                                      *)
LEMMA ReadInv == ASSUME IInv, NEW h \in Handlers, Read(h) PROVE IInv'
<1> DEFINE e == Current(h)
           list == repos[e.repo]
<1>1. handlers[h].at = "read" /\ handlers[h].at \in Busy
      /\ UNCHANGED <<images, queue, awaited, repos, repoCount, events, pulled, made, firsts, happened>>
  BY DEF Read, Busy, sender, stored, history
<1>2. CASE list = <<>> /\ handlers' = [handlers EXCEPT ![h].at = "admit", ![h].count = repoCount]
  <2>1. repoCount \in Nat BY DEF IInv, TypeOK
  <2>2. /\ handlers' \in [Handlers -> Call] /\ handlers'[h].at = "admit"
        /\ handlers'[h].todo = handlers[h].todo
        /\ \A g \in Handlers \ {h} : handlers'[g] = handlers[g]
    BY <1>2, <2>1, Has DEF Call
  <2>3. TypeOK' BY <1>1, <2>2 DEF IInv, TypeOK
  <2>4. \A g \in Handlers : handlers'[g].at = "count" <=> handlers[g].at = "count"
    BY <1>1, <2>2
  <2>5. Counted' BY <1>1, <2>4, CountStays
  <2> QED BY <1>1, <2>2, <2>3, <2>5, CallStep, Has
<1>3. CASE /\ e.action \in {"push", "pull"} /\ list # <<>>
           /\ handlers' = [handlers EXCEPT
                 ![h].at = "update",
                 ![h].count = repoCount,
                 ![h].obj = Head(list),
                 ![h].new = IF e.action = "push"
                            THEN [Head(list) EXCEPT !.tags[e.tag] = e.digest]
                            ELSE [Head(list) EXCEPT !.pulls = @ + 1]]
  <2> DEFINE obj == Head(list)
             new == IF e.action = "push" THEN [obj EXCEPT !.tags[e.tag] = e.digest]
                    ELSE [obj EXCEPT !.pulls = @ + 1]
  <2>1. list \in Seq(Object) /\ e \in Event /\ Proper(e) /\ e.repo \in Repos BY <1>1, Has
  <2>2. obj \in Object /\ obj = list[1] /\ 1 \in DOMAIN list
    <3> HIDE DEF list
    <3>1. Len(list) \in Nat \ {0} /\ DOMAIN list = 1..Len(list) BY <1>3, <2>1, EmptySeq, LenProperties
    <3> QED BY <1>3, <2>1, <3>1, HeadTailProperties
  <2>3. new \in Object /\ new.id = obj.id /\ new.rev = obj.rev /\ Grows(obj, new)
    <3> HIDE DEF obj, e
    <3> QED BY <2>1, <2>2, Computed
  <2>4. Distinct(list) BY <2>1 DEF IInv
  <2>5. obj.id <= made BY <2>2, <2>4 DEF Distinct
  <2>6. KnownIn(obj, list)
    <3> SUFFICES ASSUME NEW i \in DOMAIN list, list[i].id = obj.id
                 PROVE  obj.rev <= list[i].rev /\ (obj.rev = list[i].rev => list[i] = obj)
      BY DEF KnownIn
    <3>1. i = 1 BY <2>2, <2>4 DEF Distinct
    <3>2. obj.rev \in Nat BY <2>2 DEF Object
    <3> QED BY <2>2, <3>1, <3>2
  <2>7. handlers' = [handlers EXCEPT ![h].at = "update", ![h].count = repoCount,
                                     ![h].obj = obj, ![h].new = new]
    BY <1>3
  <2>8. repoCount \in Nat BY DEF IInv, TypeOK
  <2> HIDE DEF obj, new
  <2>9. /\ handlers' \in [Handlers -> Call] /\ handlers'[h].at = "update"
        /\ handlers'[h].todo = handlers[h].todo /\ handlers'[h].obj = obj /\ handlers'[h].new = new
        /\ \A g \in Handlers \ {h} : handlers'[g] = handlers[g]
    <3> DEFINE call == [handlers[h] EXCEPT !.at = "update", !.count = repoCount, !.obj = obj, !.new = new]
    <3>1. handlers \in [Handlers -> Call] /\ handlers[h] \in Call BY Has
    <3>2. handlers' = [handlers EXCEPT ![h] = call] BY <2>7, <3>1
    <3>3. /\ call \in Call /\ call.at = "update" /\ call.todo = handlers[h].todo
          /\ call.obj = obj /\ call.new = new
      BY <2>2, <2>3, <2>8, <3>1 DEF Call
    <3> HIDE DEF call
    <3> QED BY <3>1, <3>2, <3>3
  <2>10. TypeOK' BY <1>1, <2>9 DEF IInv, TypeOK
  <2>11. Copy(h)' BY <1>1, <2>3, <2>5, <2>6, <2>9 DEF Copy, Current, KnownIn
  <2>12. \A g \in Handlers : handlers'[g].at = "count" <=> handlers[g].at = "count"
    BY <1>1, <2>9
  <2>13. Counted' BY <1>1, <2>12, CountStays
  <2> QED BY <1>1, <2>9, <2>10, <2>11, <2>13, CallStep, Has
<1>4. CASE NextEvent(h)
  <2>1. happened' \subseteq FaultKinds \cup {"batch"} BY <1>1 DEF IInv, TypeOK
  <2> QED BY <1>1, <1>4, <2>1, Leaves
<1> QED BY <1>2, <1>3, <1>4 DEF Read

(* A new object is validated.                                              *)
LEMMA AdmitInv == ASSUME IInv, NEW h \in Handlers, Admit(h) PROVE IInv'
<1>1. handlers[h].at = "admit" /\ handlers[h].at \in Busy
      /\ UNCHANGED <<images, queue, awaited, repos, repoCount, events, pulled, made, firsts, happened>>
  BY DEF Admit, Busy, sender, stored, history
<1>2. CASE handlers' = [handlers EXCEPT ![h].at = "create"]
  <2>1. /\ handlers' \in [Handlers -> Call] /\ handlers'[h].at = "create"
        /\ handlers'[h].todo = handlers[h].todo
        /\ \A g \in Handlers \ {h} : handlers'[g] = handlers[g]
    BY <1>2, Has DEF Call
  <2>2. TypeOK' BY <1>1, <2>1 DEF IInv, TypeOK
  <2>3. \A g \in Handlers : handlers'[g].at = "count" <=> handlers[g].at = "count"
    BY <1>1, <2>1
  <2>4. Counted' BY <1>1, <2>3, CountStays
  <2> QED BY <1>1, <2>1, <2>2, <2>4, CallStep, Has
<1>3. CASE NextEvent(h)
  <2>1. happened' \subseteq FaultKinds \cup {"batch"} BY <1>1 DEF IInv, TypeOK
  <2> QED BY <1>1, <1>3, <2>1, Leaves
<1> QED BY <1>2, <1>3 DEF Admit

(* The namespace's count.                                                  *)
LEMMA CountInv == ASSUME IInv, NEW h \in Handlers, Count(h) PROVE IInv'
<1>1. /\ handlers[h].at = "count" /\ handlers[h].at \in Busy /\ NextEvent(h)
      /\ repoCount' = IF repoCount = handlers[h].count THEN repoCount + 1 ELSE repoCount
      /\ UNCHANGED <<images, queue, awaited, repos, events, pulled, made, firsts, happened>>
  BY DEF Count, Busy, sender, history
<1>2. /\ handlers' \in [Handlers -> Call]
      /\ \A g \in Handlers \ {h} : handlers'[g] = handlers[g]
      /\ handlers'[h].at \in {"read", "done"}
      /\ handlers'[h].at = "read" => handlers'[h].todo # <<>>
      /\ ProperAll(handlers'[h].todo)
  BY <1>1, NextEventType
<1>3. repoCount \in Nat /\ repoCount' \in {repoCount, repoCount + 1} BY <1>1 DEF IInv, TypeOK
<1>4. TypeOK' BY <1>1, <1>2, <1>3 DEF IInv, TypeOK
<1>5. Counted' BY <1>1, <1>2, <1>3, CountLeaves
<1> QED BY <1>1, <1>2, <1>4, <1>5, CallStep, Has DEF Busy

(* A call to the API fails.                                                *)
LEMMA CallFailsInv == ASSUME IInv, NEW h \in Handlers, CallFails(h) PROVE IInv'
<1>1. /\ handlers[h].at \in Busy /\ NextEvent(h) /\ happened' \subseteq FaultKinds \cup {"batch"}
      /\ UNCHANGED <<images, queue, awaited, repos, repoCount, events, pulled, made, firsts>>
  BY DEF CallFails, Fault, Busy, sender, stored, IInv, TypeOK
<1>2. CASE handlers[h].at # "count" BY <1>1, <1>2, Leaves
<1>3. CASE handlers[h].at = "count"
  <2>1. /\ handlers' \in [Handlers -> Call]
        /\ \A g \in Handlers \ {h} : handlers'[g] = handlers[g]
        /\ handlers'[h].at \in {"read", "done"}
        /\ handlers'[h].at = "read" => handlers'[h].todo # <<>>
        /\ ProperAll(handlers'[h].todo)
    BY <1>1, NextEventType
  <2>2. TypeOK' BY <1>1, <2>1 DEF IInv, TypeOK
  <2>3. Counted' BY <1>1, <1>3, <2>1, CountLeaves
  <2> QED BY <1>1, <2>1, <2>2, <2>3, CallStep, Has DEF Busy
<1> QED BY <1>2, <1>3

------------------------------------------------------------------------------
(* Objects.                                                                *)

(* A step of at most one call with the objects of a name.                  *)
LEMMA ListStep ==
    ASSUME IInv, TypeOK', made <= made', UNCHANGED <<queue, awaited, pulled, events>>,
           \A r \in Repos : Later(repos[r], repos'[r]) /\ Distinct(repos[r])',
           \A g \in Handlers :
                \/ handlers'[g] = handlers[g]
                \/ /\ handlers'[g].at # "update" /\ ProperAll(handlers'[g].todo)
                   /\ handlers'[g].at \in Busy => handlers'[g].todo # <<>>,
           Counted'
    PROVE  IInv'
<1>1. Digests' /\ Going' BY DEF IInv, Digests, Going
<1>2. Copies' BY CopiesKept
<1> QED BY <1>1, <1>2 DEF IInv

(* A new object is none that a list had.                                   *)
LEMMA StoreChanges ==
    ASSUME IInv, NEW r \in Repos, NEW obj \in Object, obj.id = made + 1, Store(r, obj)
    PROVE  /\ repos' \in [Repos -> Seq(Object)] /\ made' = made + 1 /\ made' \in 0..MaxObjects
           /\ \A q \in Repos : Later(repos[q], repos'[q]) /\ Distinct(repos[q])'
<1>1. PICK list \in {<<obj>> \o repos[r], Append(repos[r], obj)} : repos' = [repos EXCEPT ![r] = list]
  BY DEF Store
<1>2. /\ repos \in [Repos -> Seq(Object)] /\ repos[r] \in Seq(Object)
      /\ \A q \in Repos : Distinct(repos[q])
  BY DEF IInv, TypeOK
<1>3. made \in Nat /\ made' = made + 1 /\ made' \in 0..MaxObjects
  BY RegistryAssumption DEF Store, IInv, TypeOK
<1> DEFINE old == repos[r]
<1>4. /\ list \in Seq(Object) /\ Len(list) = Len(old) + 1
      /\ \/ /\ list[1] = obj
            /\ \A i \in DOMAIN list : i # 1 => i - 1 \in DOMAIN old /\ list[i] = old[i - 1]
         \/ /\ list[Len(old) + 1] = obj
            /\ \A i \in DOMAIN list : i # Len(old) + 1 => i \in DOMAIN old /\ list[i] = old[i]
  BY <1>1, <1>2, StoredList
<1>5. repos' \in [Repos -> Seq(Object)] /\ repos'[r] = list /\ \A q \in Repos \ {r} : repos'[q] = repos[q]
  BY <1>1, <1>2, <1>4
<1>6. Distinct(old) /\ \A i \in DOMAIN old : old[i].id \in Nat /\ old[i].id <= made
  BY <1>2, ObjectFields DEF Distinct
<1>7. DOMAIN list \subseteq Nat BY <1>4, LenProperties
<1> HIDE DEF old
<1>8. Later(old, list) /\ Distinct(list)'
  <2>1. CASE /\ list[1] = obj
             /\ \A i \in DOMAIN list : i # 1 => i - 1 \in DOMAIN old /\ list[i] = old[i - 1]
    <3>1. Later(old, list) BY <1>3, <2>1 DEF Later
    <3>2. \A i \in DOMAIN list : list[i].id <= made' BY <1>3, <1>6, <2>1
    <3>3. ASSUME NEW i \in DOMAIN list, NEW j \in DOMAIN list, list[i].id = list[j].id PROVE i = j
      <4>1. CASE i # 1 /\ j # 1
        <5>1. i - 1 \in DOMAIN old /\ j - 1 \in DOMAIN old /\ old[i - 1].id = old[j - 1].id
          BY <2>1, <3>3, <4>1
        <5>2. i - 1 = j - 1 BY <1>6, <5>1 DEF Distinct
        <5> QED BY <1>7, <5>2
      <4>2. \A k \in DOMAIN list : k # 1 => list[k].id # made + 1 BY <1>3, <1>6, <2>1
      <4> QED BY <2>1, <3>3, <4>1, <4>2
    <3> QED BY <3>1, <3>2, <3>3 DEF Distinct
  <2>2. CASE /\ list[Len(old) + 1] = obj
             /\ \A i \in DOMAIN list : i # Len(old) + 1 => i \in DOMAIN old /\ list[i] = old[i]
    <3>1. Later(old, list) BY <1>3, <2>2 DEF Later
    <3>2. \A i \in DOMAIN list : list[i].id <= made' BY <1>3, <1>6, <2>2
    <3>3. ASSUME NEW i \in DOMAIN list, NEW j \in DOMAIN list, list[i].id = list[j].id PROVE i = j
      BY <1>3, <1>6, <1>7, <2>2, <3>3 DEF Distinct
    <3> QED BY <3>1, <3>2, <3>3 DEF Distinct
  <2> QED BY <1>4, <2>1, <2>2 DEF old
<1>9. ASSUME NEW q \in Repos \ {r} PROVE Later(repos[q], repos'[q]) /\ Distinct(repos[q])'
  <2>1. repos'[q] = repos[q] BY <1>5
  <2>2. repos[q] \in Seq(Object) /\ Distinct(repos[q]) BY <1>2
  <2>3. \A i \in DOMAIN repos[q] : repos[q][i].id \in Nat BY <2>2, ObjectFields
  <2>4. Distinct(repos[q])' BY <1>3, <2>1, <2>2, <2>3 DEF Distinct
  <2> QED BY <2>1, <2>4, LaterSame
<1> QED BY <1>3, <1>5, <1>8, <1>9 DEF old

(* A new object with a tag.                                                *)
LEMMA NewObject ==
    ASSUME NEW id \in 0..MaxObjects, NEW t \in TagNames, NEW d \in 0..MaxEvents
    PROVE  /\ [NoObject EXCEPT !.id = id] \in Object /\ [NoObject EXCEPT !.id = id].id = id
           /\ LET new == [NoObject EXCEPT !.id = id, !.tags[t] = d]
              IN  new \in Object /\ new.id = id
<1>1. NoObject \in Object BY IdleType
<1>2. NoObject.tags \in [TagNames -> 0..MaxEvents] BY <1>1 DEF Object
<1> DEFINE tags == [NoObject.tags EXCEPT ![t] = d]
<1>3. tags \in [TagNames -> 0..MaxEvents] BY <1>2
<1>4. [NoObject EXCEPT !.id = id, !.tags[t] = d] = [NoObject EXCEPT !.id = id, !.tags = tags]
  BY <1>1 DEF Object
<1> HIDE DEF tags
<1>5. LET new == [NoObject EXCEPT !.id = id, !.tags = tags] IN new \in Object /\ new.id = id
  BY <1>1, <1>3 DEF Object
<1>6. [NoObject EXCEPT !.id = id] \in Object /\ [NoObject EXCEPT !.id = id].id = id
  BY <1>1 DEF Object
<1> QED BY <1>4, <1>5, <1>6

(* The call goes on to the namespace.                                      *)
LEMMA ToCountType ==
    ASSUME IInv, NEW h \in Handlers, handlers' = ToCount(h)
    PROVE  /\ handlers' \in [Handlers -> Call] /\ handlers'[h].at = "count"
           /\ handlers'[h].todo = handlers[h].todo
           /\ \A g \in Handlers \ {h} : handlers'[g] = handlers[g]
<1> DEFINE call == [handlers[h] EXCEPT !.at = "count", !.obj = NoObject, !.new = NoObject]
<1>1. handlers \in [Handlers -> Call] /\ handlers[h] \in Call BY Has
<1>2. handlers' = [handlers EXCEPT ![h] = call] BY <1>1 DEF ToCount
<1>3. NoObject \in Object BY IdleType
<1>4. call \in Call /\ call.at = "count" /\ call.todo = handlers[h].todo BY <1>1, <1>3 DEF Call
<1> HIDE DEF call
<1> QED BY <1>1, <1>2, <1>4

(* A repository is created with its first tag.                             *)
LEMMA CreateChanges ==
    ASSUME IInv, NEW h \in Handlers, Create(h)
    PROVE  /\ repos' \in [Repos -> Seq(Object)] /\ made' = made + 1 /\ made' \in 0..MaxObjects
           /\ \A q \in Repos : Later(repos[q], repos'[q]) /\ Distinct(repos[q])'
<1> DEFINE e == Current(h)
           obj == [NoObject EXCEPT !.id = made + 1, !.tags[e.tag] = e.digest]
<1>1. Store(e.repo, obj) BY DEF Create
<1>2. e.repo \in Repos /\ e.tag \in TagNames /\ e.digest \in 0..MaxEvents
  BY Has DEF Create, Busy
<1>3. made + 1 \in 0..MaxObjects BY <1>1, RegistryAssumption DEF Store, IInv, TypeOK
<1> HIDE DEF e
<1>4. obj \in Object /\ obj.id = made + 1 BY <1>2, <1>3, NewObject
<1> HIDE DEF obj
<1> QED BY <1>1, <1>2, <1>4, StoreChanges

LEMMA CreateInv == ASSUME IInv, NEW h \in Handlers, Create(h) PROVE IInv'
<1>1. /\ handlers[h].at = "create" /\ handlers[h].at \in Busy /\ handlers' = ToCount(h)
      /\ firsts' = firsts + 1
      /\ UNCHANGED <<images, queue, awaited, repoCount, events, pulled, happened>>
  BY DEF Create, Busy, sender
<1>2. handlers[h].todo # <<>> /\ ProperAll(handlers[h].todo) BY <1>1, Has
<1>3. /\ handlers' \in [Handlers -> Call] /\ handlers'[h].at = "count"
      /\ handlers'[h].todo = handlers[h].todo
      /\ \A g \in Handlers \ {h} : handlers'[g] = handlers[g]
  BY <1>1, ToCountType
<1>4. TypeOK' BY <1>1, <1>3, CreateChanges DEF IInv, TypeOK
<1>5. Counted' BY <1>1, <1>3, CountJoins
<1>6. made <= made' BY CreateChanges, RegistryAssumption DEF IInv, TypeOK
<1> QED BY <1>1, <1>2, <1>3, <1>4, <1>5, <1>6, CreateChanges, ListStep

(* A status update is of the stored object.                                *)
LEMMA UpdateChanges ==
    ASSUME IInv, NEW h \in Handlers, handlers[h].at = "update", NEW i \in Unchanged(h),
           repos' = [repos EXCEPT ![Current(h).repo][i] = [handlers[h].new EXCEPT !.rev = @ + 1]],
           made' = made
    PROVE  /\ repos' \in [Repos -> Seq(Object)]
           /\ \A q \in Repos : Later(repos[q], repos'[q]) /\ Distinct(repos[q])'
<1> DEFINE r == Current(h).repo
           old == repos[r]
           obj == handlers[h].obj
           new == [handlers[h].new EXCEPT !.rev = @ + 1]
<1>1. /\ r \in Repos /\ old \in Seq(Object) /\ handlers[h] \in Call
      /\ repos \in [Repos -> Seq(Object)]
  BY Has DEF IInv, TypeOK, Busy
<1>2. i \in DOMAIN old /\ old[i].id = obj.id /\ old[i].rev = obj.rev BY DEF Unchanged
<1>3. Copy(h) BY DEF IInv, Copies
<1>4. old[i] = obj BY <1>2, <1>3 DEF Copy, KnownIn
<1>5. handlers[h].new \in Object /\ handlers[h].new.rev \in Nat BY <1>1 DEF Call, Object
<1>6. new \in Object /\ new.id = obj.id /\ new.rev > obj.rev /\ Grows(obj, new)
  <2> DEFINE n == handlers[h].new
  <2>1. n.id = obj.id /\ n.rev = obj.rev /\ Grows(obj, n) BY <1>3 DEF Copy
  <2>2. new \in Object /\ new.id = n.id /\ new.rev = n.rev + 1 /\ new.pulls = n.pulls /\ new.tags = n.tags
    BY <1>5 DEF Object
  <2> HIDE DEF new, n, obj
  <2>3. n.rev \in Nat BY <1>5 DEF n
  <2> QED BY <2>1, <2>2, <2>3 DEF Grows
<1>7. PICK list : list = [old EXCEPT ![i] = new] /\ repos' = [repos EXCEPT ![r] = list] BY <1>1
<1> HIDE DEF new
<1>8. Len(old) \in Nat /\ DOMAIN old = 1..Len(old) BY <1>1, LenProperties
<1>9. /\ list \in Seq(Object) /\ Len(list) = Len(old)
      /\ \A j \in 1..Len(old) : list[j] = IF j = i THEN new ELSE old[j]
  <2> HIDE DEF old
  <2> QED BY <1>1, <1>2, <1>6, <1>7, <1>8, ExceptSeq
<1>10. DOMAIN list = 1..Len(old) BY <1>9, LenProperties
<1>11. repos' \in [Repos -> Seq(Object)] /\ repos'[r] = list /\ \A q \in Repos \ {r} : repos'[q] = repos[q]
  BY <1>1, <1>7, <1>9
<1>12. Distinct(old) BY <1>1 DEF IInv
<1> HIDE DEF old, obj
<1>13. Later(old, list) BY <1>2, <1>4, <1>6, <1>8, <1>9, <1>10 DEF Later
<1>14. \A j \in DOMAIN list : list[j].id = old[j].id BY <1>2, <1>6, <1>8, <1>9, <1>10
<1>15. Distinct(list)' BY <1>8, <1>10, <1>12, <1>14 DEF Distinct
<1>16. ASSUME NEW q \in Repos \ {r} PROVE Later(repos[q], repos'[q]) /\ Distinct(repos[q])'
  <2>1. Distinct(repos[q]) BY DEF IInv
  <2>2. repos'[q] = repos[q] BY <1>11
  <2>3. Distinct(repos[q])' BY <2>1, <2>2 DEF Distinct
  <2> QED BY <2>2, <2>3, LaterSame
<1> QED BY <1>11, <1>13, <1>15, <1>16 DEF old

(* A tag or a pull is stored, or somebody was first.                       *)
LEMMA UpdateInv == ASSUME IInv, NEW h \in Handlers, Update(h) PROVE IInv'
<1>1. /\ handlers[h].at = "update" /\ handlers[h].at \in Busy
      /\ UNCHANGED <<images, queue, awaited, repoCount, events, pulled, made, happened>>
      /\ happened' \subseteq FaultKinds \cup {"batch"}
  BY DEF Update, Busy, sender, IInv, TypeOK
<1>2. handlers[h].todo # <<>> /\ ProperAll(handlers[h].todo) /\ made \in Nat
  BY <1>1, Has, RegistryAssumption DEF IInv, TypeOK
<1>3. CASE Unchanged(h) = {} /\ NextEvent(h) /\ UNCHANGED <<repos, firsts>>
  BY <1>1, <1>3, Leaves
<1>4. ASSUME NEW i \in Unchanged(h),
             repos' = [repos EXCEPT ![Current(h).repo][i] = [handlers[h].new EXCEPT !.rev = @ + 1]],
             \/ firsts' = firsts + 1 /\ handlers' = ToCount(h)
             \/ NextEvent(h) /\ UNCHANGED firsts
      PROVE  IInv'
  <2>1. /\ repos' \in [Repos -> Seq(Object)]
        /\ \A q \in Repos : Later(repos[q], repos'[q]) /\ Distinct(repos[q])'
    BY <1>1, <1>4, UpdateChanges
  <2>2. CASE firsts' = firsts + 1 /\ handlers' = ToCount(h)
    <3>1. /\ handlers' \in [Handlers -> Call] /\ handlers'[h].at = "count"
          /\ handlers'[h].todo = handlers[h].todo
          /\ \A g \in Handlers \ {h} : handlers'[g] = handlers[g]
      BY <2>2, ToCountType
    <3>2. TypeOK' BY <1>1, <2>1, <2>2, <3>1 DEF IInv, TypeOK
    <3>3. Counted' BY <1>1, <2>2, <3>1, CountJoins
    <3> QED BY <1>1, <1>2, <2>1, <3>1, <3>2, <3>3, ListStep
  <2>3. CASE NextEvent(h) /\ UNCHANGED firsts
    <3>1. /\ handlers' \in [Handlers -> Call]
          /\ \A g \in Handlers \ {h} : handlers'[g] = handlers[g]
          /\ handlers'[h].at \in {"read", "done"}
          /\ handlers'[h].at = "read" => handlers'[h].todo # <<>>
          /\ ProperAll(handlers'[h].todo)
      BY <1>1, <2>3, NextEventType
    <3>2. TypeOK' BY <1>1, <2>1, <2>3, <3>1 DEF IInv, TypeOK
    <3>3. \A g \in Handlers : handlers'[g].at = "count" <=> handlers[g].at = "count"
      BY <1>1, <3>1
    <3>4. Counted' BY <1>1, <2>3, <3>3, CountStays
    <3> QED BY <1>1, <1>2, <2>1, <3>1, <3>2, <3>4, ListStep DEF Busy
  <2> QED BY <1>4, <2>2, <2>3
<1> QED BY <1>3, <1>4 DEF Update

(* Users make and delete repositories.                                     *)
LEMMA CreateRepositoryChanges ==
    ASSUME IInv, NEW r \in Repos, CreateRepository(r)
    PROVE  /\ repos' \in [Repos -> Seq(Object)] /\ made' = made + 1 /\ made' \in 0..MaxObjects
           /\ \A q \in Repos : Later(repos[q], repos'[q]) /\ Distinct(repos[q])'
<1> DEFINE obj == [NoObject EXCEPT !.id = made + 1]
<1>1. Store(r, obj) BY DEF CreateRepository
<1>2. made + 1 \in 0..MaxObjects BY <1>1, RegistryAssumption DEF Store, IInv, TypeOK
<1>3. NoObject \in Object BY IdleType
<1>4. obj \in Object /\ obj.id = made + 1 BY <1>2, <1>3 DEF Object
<1> HIDE DEF obj
<1> QED BY <1>1, <1>4, StoreChanges

LEMMA CreateRepositoryInv == ASSUME IInv, NEW r \in Repos, CreateRepository(r) PROVE IInv'
<1>1. /\ happened' \subseteq FaultKinds \cup {"batch"}
      /\ UNCHANGED <<images, queue, awaited, handlers, repoCount, events, pulled, firsts>>
  BY DEF CreateRepository, Fault, sender, IInv, TypeOK
<1>2. TypeOK' BY <1>1, CreateRepositoryChanges DEF IInv, TypeOK
<1>3. Counted' BY <1>1, CountStays
<1>4. made <= made' BY CreateRepositoryChanges, RegistryAssumption DEF IInv, TypeOK
<1> QED BY <1>1, <1>2, <1>3, <1>4, CreateRepositoryChanges, ListStep

LEMMA DeleteRepositoryChanges ==
    ASSUME IInv, NEW r \in Repos, DeleteRepository(r)
    PROVE  /\ repos' \in [Repos -> Seq(Object)] /\ made' = made
           /\ \A q \in Repos : Later(repos[q], repos'[q]) /\ Distinct(repos[q])'
<1>1. repos[r] # <<>> /\ repos' = [repos EXCEPT ![r] = Tail(repos[r])] /\ made' = made
  BY DEF DeleteRepository
<1>2. repos \in [Repos -> Seq(Object)] /\ repos[r] \in Seq(Object) BY DEF IInv, TypeOK
<1>3. PICK list : list = Tail(repos[r]) OBVIOUS
<1>4. /\ list \in Seq(Object) /\ Len(list) = Len(repos[r]) - 1
      /\ \A i \in 1..Len(list) : list[i] = repos[r][i + 1]
  BY <1>1, <1>2, <1>3, HeadTailProperties
<1>5. Len(repos[r]) \in Nat /\ DOMAIN repos[r] = 1..Len(repos[r]) /\ DOMAIN list = 1..Len(list)
  BY <1>2, <1>4, LenProperties
<1>6. repos' \in [Repos -> Seq(Object)] /\ repos'[r] = list /\ \A q \in Repos \ {r} : repos'[q] = repos[q]
  BY <1>1, <1>2, <1>3, <1>4
<1>7. \A i \in DOMAIN list : i + 1 \in DOMAIN repos[r] /\ list[i] = repos[r][i + 1] /\ i \in Nat
  BY <1>4, <1>5
<1>8. Later(repos[r], list) BY <1>7 DEF Later
<1>9. Distinct(list)
  <2>1. Distinct(repos[r]) BY DEF IInv
  <2>2. \A i \in DOMAIN list : list[i].id <= made BY <1>7, <2>1 DEF Distinct
  <2>3. ASSUME NEW i \in DOMAIN list, NEW j \in DOMAIN list, list[i].id = list[j].id PROVE i = j
    <3>1. i + 1 = j + 1 BY <1>7, <2>1, <2>3 DEF Distinct
    <3> QED BY <1>7, <3>1
  <2> QED BY <2>2, <2>3 DEF Distinct
<1>10. ASSUME NEW q \in Repos PROVE Later(repos[q], repos'[q]) /\ Distinct(repos[q])'
  <2>1. CASE q = r BY <1>1, <1>6, <1>8, <1>9, <2>1 DEF Distinct
  <2>2. CASE q # r
    <3>1. repos'[q] = repos[q] BY <1>6, <2>2
    <3>2. Distinct(repos[q]) BY DEF IInv
    <3> QED BY <1>1, <3>1, <3>2, LaterSame DEF Distinct
  <2> QED BY <2>1, <2>2
<1> QED BY <1>1, <1>6, <1>10

LEMMA DeleteRepositoryInv == ASSUME IInv, NEW r \in Repos, DeleteRepository(r) PROVE IInv'
<1>1. /\ happened' \subseteq FaultKinds \cup {"batch"}
      /\ UNCHANGED <<images, queue, awaited, handlers, repoCount, events, pulled, made, firsts>>
  BY DEF DeleteRepository, Fault, sender, IInv, TypeOK
<1>2. made \in Nat BY RegistryAssumption DEF IInv, TypeOK
<1>3. TypeOK' BY <1>1, DeleteRepositoryChanges DEF IInv, TypeOK
<1>4. Counted' BY <1>1, CountStays
<1> QED BY <1>1, <1>2, <1>3, <1>4, DeleteRepositoryChanges, ListStep

(* The process forgets its notifications and calls.                        *)
LEMMA RestartInv == ASSUME IInv, Restart PROVE IInv'
<1>1. /\ queue' = <<>> /\ awaited' = {} /\ handlers' = [h \in Handlers |-> Idle]
      /\ happened' \subseteq FaultKinds \cup {"batch"}
      /\ UNCHANGED <<images, repos, repoCount, events, pulled, made, firsts>>
  BY DEF Restart, Fault, stored, IInv, TypeOK
<1>2. \A h \in Handlers : handlers'[h] = Idle BY <1>1
<1>3. <<>> \in Seq(Seq(Event)) /\ DOMAIN <<>> = {} BY EmptySeq
<1>4. IsFiniteSet({}) /\ Cardinality({}) = 0 BY FS_EmptySet
<1>5. TypeOK'
  <2>1. handlers' \in [Handlers -> Call] BY <1>1, IdleType
  <2> QED BY <1>1, <1>3, <1>4, <2>1 DEF IInv, TypeOK
<1>6. Digests' /\ Going' BY <1>1, <1>2, <1>3, <1>4, IdleType DEF IInv, Digests, Going, ProperAll, Busy
<1>7. (\A r \in Repos : Distinct(repos[r])') /\ Copies'
  BY <1>1, <1>2, IdleType DEF IInv, Distinct, Copies
<1>8. Counted'
  <2>1. Counting' = {} BY <1>2, IdleType DEF Counting
  <2>2. repoCount \in Nat /\ firsts \in Nat /\ IsFiniteSet(Counting)
        /\ repoCount + Cardinality(Counting) <= firsts
    BY DEF IInv, TypeOK, Counted, CountIsEarned, Counting
  <2>3. Cardinality(Counting) \in Nat BY <2>2, FS_CardinalityType
  <2>4. repoCount' + Cardinality(Counting') <= firsts' BY <1>1, <1>4, <2>1, <2>2, <2>3
  <2> QED BY <1>4, <2>1, <2>4 DEF Counted, CountIsEarned, Counting
<1> QED BY <1>5, <1>6, <1>7, <1>8 DEF IInv

------------------------------------------------------------------------------
(* The invariant.                                                          *)

(* It holds before the first event.                                        *)
LEMMA InitInv == Init => IInv
<1> SUFFICES ASSUME Init PROVE IInv OBVIOUS
<1>1. 0 \in 0..MaxEvents /\ 0 \in 0..MaxObjects BY RegistryAssumption
<1>2. /\ queue = <<>> /\ awaited = {} /\ events = 0 /\ made = 0 /\ firsts = 0 /\ repoCount = 0
      /\ happened = {} /\ (\A h \in Handlers : handlers[h] = Idle)
      /\ (\A r \in Repos : repos[r] = <<>> /\ pulled[r] = 0)
  BY DEF Init
<1>3. <<>> \in Seq(Seq(Event)) /\ <<>> \in Seq(Object) /\ DOMAIN <<>> = {} BY EmptySeq
<1>4. IsFiniteSet({}) /\ Cardinality({}) = 0 BY FS_EmptySet
<1>5. TypeOK
  <2>1. images \in [Repos -> [Tags -> 0..MaxEvents]] BY <1>1 DEF Init
  <2>2. handlers \in [Handlers -> Call] BY IdleType DEF Init
  <2>3. repos \in [Repos -> Seq(Object)] /\ pulled \in [Repos -> 0..MaxEvents]
    BY <1>1, <1>3 DEF Init
  <2> QED BY <1>1, <1>2, <1>3, <1>4, <2>1, <2>2, <2>3 DEF TypeOK
<1>6. Digests /\ Going
  BY <1>2, <1>3, <1>4, IdleType DEF Digests, Going, ProperAll, Busy
<1>7. (\A r \in Repos : Distinct(repos[r])) /\ Copies
  BY <1>2, <1>3, IdleType DEF Distinct, Copies
<1>8. Counted
  <2>1. Counting = {} BY <1>2, IdleType DEF Counting
  <2>2. IsFiniteSet(Counting) /\ repoCount + Cardinality(Counting) <= firsts BY <1>2, <1>4, <2>1
  <2> QED BY <2>2 DEF Counted, CountIsEarned, Counting
<1> QED BY <1>5, <1>6, <1>7, <1>8 DEF IInv

(* Every step keeps it.                                                    *)
LEMMA NextInv == IInv /\ [Next]_vars => IInv'
<1> SUFFICES ASSUME IInv, [Next]_vars PROVE IInv' OBVIOUS
<1>1. ASSUME NEW r \in Repos, NEW t \in Tags, Push(r, t) \/ Pull(r, t) \/ DeleteImage(r, t) PROVE IInv'
  BY <1>1, PushInv, PullInv, DeleteImageInv
<1>2. ASSUME NEW r \in Repos, PushLayer(r) \/ CreateRepository(r) \/ DeleteRepository(r) PROVE IInv'
  BY <1>2, PushLayerInv, CreateRepositoryInv, DeleteRepositoryInv
<1>3. ASSUME NEW h \in Handlers, Work(h) PROVE IInv'
  BY <1>3, ReadInv, AdmitInv, CreateInv, UpdateInv, CountInv, AnswerInv DEF Work
<1>4. ASSUME NEW h \in Handlers, Deliver(h) \/ CallFails(h) PROVE IInv'
  BY <1>4, DeliverInv, CallFailsInv
<1>5. CASE UNCHANGED vars
  <2>1. UNCHANGED <<images, queue, awaited, handlers, repos, repoCount, events, pulled, made, firsts,
                    happened>>
    BY <1>5 DEF vars, sender, stored, history
  <2>2. Counted' BY <2>1, CountStays
  <2> QED BY <2>1, <2>2
      DEF IInv, TypeOK, Digests, Going, Distinct, Copies, Copy, Current
<1> QED BY <1>1, <1>2, <1>3, <1>4, <1>5, TimesOutInv, RestartInv DEF Next

(* The inductive invariant of the webhook.                                 *)
THEOREM Invariant == Spec => []IInv
BY InitInv, NextInv, PTL DEF Spec

(* The variables keep their types.                                         *)
THEOREM TypeCorrect == Spec => []TypeOK
<1>1. IInv => TypeOK BY DEF IInv
<1> QED BY <1>1, Invariant, PTL

(* The namespace counts a repository at most once for every first tag,     *)
(* however calls of ServeHTTP overlap, repeat an event or stop between the *)
(* two updates (notification.go:226).                                      *)
THEOREM CountEarned == Spec => []CountIsEarned
<1>1. IInv => CountIsEarned BY DEF IInv, Counted
<1> QED BY <1>1, Invariant, PTL

(* Every list becomes a later one.                                         *)
LEMMA NextLater ==
    ASSUME IInv, [Next]_vars, NEW r \in Repos
    PROVE  Later(repos[r], repos'[r])
<1>1. ASSUME NEW q \in Repos, NEW t \in Tags, Push(q, t) \/ Pull(q, t) \/ DeleteImage(q, t) PROVE repos' = repos
  BY <1>1 DEF Push, Pull, DeleteImage, stored
<1>2. ASSUME NEW q \in Repos, PushLayer(q) PROVE repos' = repos
  BY <1>2 DEF PushLayer, stored
<1>3. ASSUME NEW q \in Repos, CreateRepository(q) \/ DeleteRepository(q)
      PROVE  Later(repos[r], repos'[r])
  BY <1>3, CreateRepositoryChanges, DeleteRepositoryChanges
<1>4. ASSUME NEW h \in Handlers,
             Deliver(h) \/ Read(h) \/ Admit(h) \/ Count(h) \/ Answer(h) \/ CallFails(h)
      PROVE  repos' = repos
  BY <1>4 DEF Deliver, Read, Admit, Count, Answer, CallFails, stored
<1>5. ASSUME NEW h \in Handlers, Create(h) PROVE Later(repos[r], repos'[r])
  BY <1>5, CreateChanges
<1>6. ASSUME NEW h \in Handlers, Update(h) PROVE Later(repos[r], repos'[r])
  BY <1>6, UpdateChanges, LaterSame DEF Update
<1>7. CASE TimesOut \/ Restart \/ UNCHANGED vars
  BY <1>7, LaterSame DEF TimesOut, Restart, vars, stored
<1> QED BY <1>1, <1>2, <1>3, <1>4, <1>5, <1>6, <1>7, LaterSame DEF Next, Work

(* Calls of ServeHTTP that overlap forget nothing of each other: an object *)
(* that stays keeps its tags and its pulls (notification.go:196, :246).    *)
THEOREM NothingIsForgotten == Spec => NothingForgotten
<1> DEFINE Keeps ==
        \A r \in Repos : \A i \in DOMAIN repos[r], j \in DOMAIN repos'[r] :
            repos[r][i].id = repos'[r][j].id =>
                /\ repos'[r][j].pulls >= repos[r][i].pulls
                /\ \A t \in TagNames : repos[r][i].tags[t] # 0 => repos'[r][j].tags[t] # 0
<1>1. ASSUME IInv, [Next]_vars PROVE Keeps
  <2> SUFFICES ASSUME NEW r \in Repos, NEW i \in DOMAIN repos[r], NEW j \in DOMAIN repos'[r],
                      repos[r][i].id = repos'[r][j].id
               PROVE  Grows(repos[r][i], repos'[r][j])
    BY DEF Grows
  <2>1. IInv' BY <1>1, NextInv
  <2>2. repos[r] \in Seq(Object) /\ repos'[r] \in Seq(Object) /\ Distinct(repos[r]) /\ made \in Nat
    BY <1>1, <2>1, RegistryAssumption DEF IInv, TypeOK
  <2>3. Later(repos[r], repos'[r]) BY <1>1, NextLater
  <2> QED BY <2>2, <2>3, LaterKeeps
<1>2. IInv /\ [Next]_vars => [Keeps]_repos BY <1>1
<1> QED BY <1>2, Invariant, PTL DEF Spec, NothingForgotten
==============================================================================
