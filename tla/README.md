# TKEStack: verification of its controllers

TKEStack is a container platform in Go: a set of aggregated API servers with one
controller process each (auth, business, monitor, notify, platform, registry), a
gateway and an installer. This directory holds TLA+ models of the parts that
keep state: the quota tree of projects and namespaces (business), the life of
message requests and channels (notify), of clusters and of add-ons (platform),
the webhook that counts images (registry), and the leader election of all
controller processes; with the TLC runs that check them and TLAPS proofs, for every value
of the constants, of every safety property a passing run checks.

Paths below are relative to the repository.

## 1. Inventory

| Component | State | Operations | Hard behaviour | Modelled |
|---|---|---|---|---|
| Business API, projects (`pkg/business/registry/project`, `pkg/util/resource`, `pkg/business/util`) | projects: phase, finalizers, lock, bound clusters, quota; in the status the *ledger* (`clusters`, `calculatedChildProjects`, `calculatedNamespaces`) | create, update, status, finalize, delete; validation against parent and children | validation reads other objects, the store compares one | `BusinessAPI` |
| Project controller (`pkg/business/controller/project`) | informer copy, queue, `projectCache` | count a child into its parent, recount after an edit, delete with contents | workers share a parent's ledger; lost answers; restarts; cascades | `ProjectController`, `ProjectLedger`, `ProjectProofs` |
| Business API, namespaces (`pkg/business/registry/namespace`) | namespaces: phase, quota, usage last seen | create, update, delete, delete collection | quota is admitted against a ledger written later; every update, of the status too, is refused while the usage stored exceeds the quota | `BusinessAPI` |
| Namespace controller (`pkg/business/controller/namespace`) | informer copy (changed in place), queue, `namespaceCache`, `namespaceHealth`, goroutines | count, provision on the cluster, watch health, delete | stale reads, two loops of one key, ownership of a cluster's namespace | `NamespaceController`, `NamespaceLedger`, `NamespaceProofs` |
| Business controller process (`cmd/tke-business-controller`) | the two above | start, restart | two writers of one ledger; one controller removes what the other counted | `Business`, `BusinessProofs` |
| Notify controllers (`pkg/notify/controller`), with the API they use | message requests, archived messages, channels, templates; informer copy, queue, `messageRequestCache` | mark, send to each receiver, archive, store the result; delete a channel with its templates | a restart while Sending; a result that cannot be stored after messages went out; a template that changes meanwhile; a self-defined channel without URL; names used again | `NotifyController`, `Delivery`, `NotifyProofs` |
| Platform cluster controller (`pkg/platform/controller/cluster`, baremetal provider, `pkg/platform/registry/cluster`) | clusters, credentials, add-ons of a cluster; queue, `clusterCache`, `clusterHealth`, goroutines | initialize step by step, update, watch health, delete | two objects for one result; steps repeated from old copies; loops that outlive a cluster; validation that connects to it; add-ons stored while it is being deleted | `ClusterController`, `ClusterProofs` |
| Platform add-on controllers (`pkg/platform/controller/addon`): CronHPA of ten | add-ons, their objects on the cluster; cache, three sets of running goroutines | install, reinstall, check, upgrade, watch, remove | goroutines that write late; partial installation and rollback; versions without an image; names used again | `AddonController`, `AddonProofs` |
| Registry webhook (`pkg/registry/distribution/notification`) with repositories and the queue of the image registry | repositories with tags and pulls, count of a namespace | filter events, create and update repositories, count | overlapping and repeated calls; events acknowledged and forgotten; address of a loop variable | `RegistryNotification`, `RegistryProofs` |
| Leader election (`pkg/util/leaderelection`) | a lock object; observed record and time of each candidate | acquire, renew, give up, watchdog | clocks, late answers, abandoned attempts, stalls | `LeaderElection`, `LeaderElectionProofs` |
| Machine controller, other nine add-ons | as above | as above | as above | no: same shape |
| IP allocator (`pkg/platform/provider/baremetal/util/ipallocator`) | bitmap and count | only `GetIndexedIP` is used | none | no |
| Auth, gateway, monitor, installer, API proxies, senders | little of their own | requests passed on | I/O | no |

How the business parts interact. Users and controllers only meet in the API
server: every write is validated and then stored if the object still has the
`resourceVersion` it was computed from. A project's controller adds the quota of
a new child to the *parent's* status; a namespace's controller adds the quota of
a new namespace to its *project's* status; validation of quota reads that status.
Deletion is a phase: REST.Delete marks the object `Terminating`, the controller's
deleter removes contents, gives the quota back, removes the finalizer, deletes
again. A project's deleter removes namespaces by DeleteCollection, which passes
the namespace controller by.

The other controllers have the same frame: an informer, a queue that hands a key
to one worker at a time, a cache of what was last worked on, status updates that
are stored if the object is unchanged, a phase `Terminating` with a finalizer.
They differ in what they do besides: the notify controller sends messages, which
cannot be taken back; the cluster and add-on controllers start goroutines, which
write the same status objects as the workers and each other; the registry has no
queue of its own but answers the calls of the image registry in the same process.
Each controller process runs only while it leads an election over a ConfigMap
that the same API server stores.

What makes these parts correct, and is therefore stated:
quota is never handed out twice nor more than there is; the ledger is what its
entries add up to; no write loses an entry of another; a removed object is in no
ledger; only counted namespaces are provisioned, with the quota they ask for and
for one project at a time; every child is eventually counted, every pending
namespace settles, every deletion completes and removes children and namespaces
first; a lost namespace is noticed. A message request tells the truth about who
got a message, nobody gets more messages than there was reason for, and it
settles. A running cluster has the credential its machines know, its phase
follows its health, and it goes after its content and for good. A deployed add-on
is on the cluster, and a deleted one is not. What was pushed and pulled is listed
and counted, once. Of all candidates one leads.

The hazards, each with the line where it bites and the properties that aim at
it, are in `PROJECT.json`.

## 2. Modules

```
BusinessAPI            store, validation, ledger arithmetic          (no behaviour)
  ProjectController    project controller, its users and failures
    ProjectLedger      what the ledger adds up to
      MCProjects
      ProjectProofs    theorems
  NamespaceController  namespace controller, business clusters, users, failures
    NamespaceLedger
      MCNamespaces
      NamespaceProofs  theorems
  Business             both controllers on one store (two INSTANCEs)
      MCBusiness
      BusinessProofs   theorems (from ProjectProofs and NamespaceProofs)

Delivery               what a message request promises
  NotifyController     request and channel controllers, users, failures (implements it)
    MCNotify
    NotifyProofs       theorems, the refinement among them
ClusterController      one cluster name: API, worker, health loops, deleter
    MCCluster
  ClusterProofs        theorems
AddonController        CronHPA: worker, goroutines, objects on the cluster
    MCAddon
  AddonProofs          theorems
RegistryNotification   image registry, webhook, repositories
    MCRegistry
  RegistryProofs       theorems
LeaderElection         candidates, lock, clocks, watchdog
    MCElection
  LeaderElectionProofs theorems
```

**BusinessAPI.** Objects are records. A quota or a ledger is a function from the
clusters that have an entry, for one kind of resource: the code loops over kinds
independently, but tells an absent entry (no limit) from a zero one, and so does
the model. A name not in use holds an object of phase `Absent` with the last uid
issued. What several objects hold together (`Total`) is the number of their `Units`.
The `Validate...` operators keep the names of the Go functions.

**ProjectController.** `Deliver` is the watch and its event handlers;
`SyncDeleted`, `SyncActive` and `SyncTerminating` are the worker taking a key and
`syncItem` up to its first call; `CountChild` is `handlePhase`; `GetDoomed`,
`DropContent`, `DeleteKid`, `KidsDone`, `Uncount`, `Seal`, `Purge` are the calls of
the deleter in the order in which it makes them. A write takes two steps,
admission (validation, with the state of other objects at that moment) and
`Commit` (compare and store), with anything in between. `CommitLost` stores and
loses the answer, `CallFails` is an error of any call, `Restart` loses the
worker's and the cache's memory. Users create, edit, lock and delete, also in two
steps.

**NamespaceController.** The same for namespaces, and the business cluster:
`Provision` is get, create or label the cluster's namespace, `PushQuota` its
ResourceQuota, `Unprovision` its removal. `nsSeen` is the phase in the informer's
object, which `handlePhase` overwrites before it is stored. `Tick` and
`CheckHealth` are the two halves of one round of a health loop (read; look at the
cluster and write); `loops` counts goroutines, `health` is the set that is meant
to keep them unique. In this module the projects are given, and a DeleteCollection
(`Purged`) stands for the rest of the system. `Namesakes` are the namespaces whose
object (`<cluster>-<namespace>`) has the name of a project: the membership test of
`calculateProjectUsed` looks for the name of the project among those of its namespaces, and
finds it only with one of these (`Misled`). A round of a health loop that finds the
namespace on its cluster stores the usage it sees there, any of `Usages`; that may be
more than the quota, of a namespace that was adopted with what was in it, or whose quota was
lowered, which the cluster is not told.

**Business.** Instantiates both controllers on the same `projects` and
`namespaces`; each side's step leaves the other side's memory alone, a restart is
one of both. `Purged` is not used: the project's deleter does it (`DropContent`).

**NotifyController.** `Sync` is the worker taking a key; `Prepare` is the head of
`sendMessage`, `SendTo` its loop over receivers, `Archive` is `archiveMessage`,
`Persist` is `persistUpdate` to Sending or to the result. `selfdefined` says whether the first
self-defined channel, if there is one, has its URL: if not, `sendMessage` returns with nobody
reached and nobody failed, as it does when the list of these channels cannot be read
(`Nobody`). `blind` is history: requests an attempt at which passed somebody over in one of
these ways. `WakeDeleter`,
`DropContent`, `Finalize` and `Remove` are the channel's deleter. A template has
the kind of its channel alone, or another one that `sendMessage` reaches before
or after it (`Shapes`): such a request fails before, or after, its message went
out. `copies` and `doubts` are history: messages taken for a request, and
attempts whose result was not stored. `Delivery` states with them what a request
promises; `Promise` is the refinement mapping, `KeepsPromise` the theorem that
TLC checks: the number of messages that `Delivery` allows a receiver is the
number of attempts there was reason for.

**ClusterController.** One name of a cluster; different names share nothing but
the queue. `Sync` is `syncCluster` up to its first call; `GetCredential`,
`RunStep`, `StoreCluster`, `StoreToken` are `doInitializing`; `LookToDelete`,
`DeleteContent`, `Finalize`, `Remove` are the deleter; `Look` and `Put` are the
two halves of a round of a health loop. Of the thirty steps of the baremetal
provider three are kept: the one that makes a token, the one that installs it,
and one that needs it. Versions are abstracted to `current`, the set of those
whose copy is the stored one, which tells everything an optimistic lock does.
`InstallAddon` is a Helm or PersistentEvent stored for the cluster's name, at any time: a
PersistentEvent is not validated against its cluster, a Helm only before it is stored.
`addons` says whether there is one, and whether it was stored when no deleter was to
list it any more (`NoLongerListed`: content is deleted, the finalizer not yet or already
gone). A late one belongs to the next cluster of the name, whose deleter finds it.

**AddonController.** An actor is the worker of a key or a goroutine (`Tasks`);
`run` says what each does. The objects an installation creates are two, one
before and one with the deployment. `Dispatch` is `createCronHPAIfNeeded`;
`CreatePart`, `Rollback`, `Check`, `Upgrade`, `Watch` are the functions of the same
purpose; `SyncDeleted` and `Remove` are the deletion, which removes the cache
entry before the objects. `VersionMap` are the versions there are images for: one in the
code (`cronhpa/images/images.go:49`). Neither creation nor edit is checked for it
(`registry/cronhpa/validation.go`), and `PanicsForImage` ends the process where
`images.Get` is asked for another.

**RegistryNotification.** `Push`, `Pull`, `PushLayer`, `DeleteImage`, `Deliver`,
`TimesOut` are the image registry (distribution), a library, which delivers one
notification at a time and repeats it until it is answered. `Read`, `Admit`,
`Create`, `Update`, `Count` are the calls of the handler. A digest is the number of
its push.

**LeaderElection.** `Begin` takes the time, `Read` the record, `Store` sends the
update, `Answer` is its success; `GiveUp` is a deadline reached, `Land` and `Fade`
are what becomes of an update whose process has ended. `Tick` lets all timers run
down by one and waits for whoever is punctual: `late` are the candidates it does
not wait for (stalled, or hung for good). An answer takes at most `Delay`, except
for those.

Abstractions worth knowing. The optimistic lock compares objects instead of
version numbers (a change and its reversal is seen as no change; that behaviour
is the one in which the object was read a little later). The informer delivers the
current object: intermediate versions may be skipped, as with a slow watch, but
it never goes back. A GET is joined with the admission of the write computed from
it: a change between the two ends in the same conflict as one between admission
and commit. What the worker does to one object of the business cluster is one
step. Rate limits and delays have no duration: a queued key is processed some
time. The cap `Workers` is in `ProjectController`; the namespace controller is
modelled with as many workers as names. In the models of controllers one process runs
at a time, which is what `LeaderElection` is about. In the other controllers the
work of a goroutine or worker between two of its calls is one step with the first
of them, and a status update is admitted, compared and stored in one step: its
validation reads nothing other writers of the object change, or, for clusters,
only whether the cluster can be reached.

## 3. Runs

Every bound is a constant of a cfg: `MaxUid` (creations of a name), `MaxEdits`
(updates admitted for users), `MaxFaults` with, for namespaces, `FaultKinds`,
`MaxLoops` (health loops of a key), `Users` (user requests in flight), `Workers`.
Deadlock is not checked, except in `election`: when users are done, nothing is
broken and everything is processed, the system rests. In the modules other than
the business ones every kind of fault happens once at most and `MaxFaults` limits
how many there are, in `AddonController` together with edits, panics and the second
use of a name (`Most` in notify: counters stop there; `MaxBatch`, `MaxEvents`,
`MaxObjects` in registry: events in a notification, events and repositories at all).
Two safety runs have a CONSTRAINT: `MCPlain` in `namespaces` (which namespace has a choice
of quotas), `MCOneTrouble` in `business` (a fault or a lock, not both).

Passing runs:

| Run | What it asks | Bounds |
|---|---|---|
| `projects` | Is the ledger exactly the sum of its children when nobody edits (`LedgerExact`), free of children that are gone (`KidsExist`), given up before the finalizer goes (`FinalizedIsUncounted`), and does no write lose a live child (`OnlyDyingLeave`)? | root with quota 2 and two children with quota 1, all deletable, names used once, one fault of any kind |
| `project_edits` | Does every edit change the ledger by its difference (`LedgerMatchesCache`), is it right at rest (`SettledLedger`), is quota never overdrawn (`UsedWithinHard`)? | two users, three edits among quotas 1 and 2, no fault |
| `project_live` | Is every child counted in the end (`EventuallyCounted`), does every deletion complete (`DeletionCompletes`)? | two children of quota 1 under 2, one fault |
| `namespaces` | Have two projects never the same namespace of a cluster, unless others remove it from there (`OneProjectPerTarget`)? Is whatever is provisioned in its project's ledger (`ProvisionedIsCounted`), with at least what it asks for (`LedgerCovers`)? | two projects of quota 2, a namespace of each wants the same namespace of a cluster; one has quota 1, the other quota 1 or 2 and the name of its project; names used twice; one fault: failed call, lost answer, restart, cluster failure, DeleteCollection |
| `namespace_live` | Does every pending namespace settle (`PendingEnds`), with the quota it asks for on the cluster (`ProvisionedAsAsked`)? Is a lost one noticed (`FailureNoticed`), a deleted one removed from the cluster (`ContentRemoved`)? | one namespace with quota 1 or 2, of which nothing or 2 is seen in use, one edit, two faults: lost answer, restart, cluster failure, removal from the cluster |
| `business` | Do two controllers and users writing one ledger leave all in it that is held (`NothingUncounted`), within the quota (`UsedWithinHard`), and keep each other's entries (`EntriesAreKept`)? | a child and a namespace of one project; one fault of any kind, one edit or one lock |
| `notify` | Does the controller implement `Delivery` (`KeepsPromise`)? Is Sent true (`SentReachedAll`), are messages archived (`SettledIsArchived`), do requests settle (`Settles`) and deleted channels go (`ChannelDeletionCompletes`)? | one request used twice, a direct and a grouped receiver, every shape of template, a self-defined channel with or without URL, one change by a user, two faults |
| `addon` | Is a deployed add-on on the cluster, in the version it says (`DeployedIsInstalled`), do phases keep their order (`PhaseOrder`), does it come to rest as it should (`Converges`: installations end, deletion leaves nothing, a lost deployment is noticed)? | one add-on, two versions with an image and one without, two goroutines, two retries, one edit or deletion, two faults |
| `cluster` | Has a built cluster the credential of its machines (`RunningHasCredential`), does it go after the add-ons that were there to be listed (`ContentGoesFirst`), for good (`TerminatingIsFinal`), do building and deletion complete (`Completes`), does the phase follow the health (`PhaseFollowsHealth`)? | a name used by two clusters in turn, imported or baremetal, an add-on stored at any time, two loops, two changes by users, one fault |
| `registry` | Is no tag and no pull forgotten (`NothingForgotten`), is nothing counted twice (`CountIsEarned`), does the status in the end tell all that was pushed and pulled (`StatusIsTrue`)? | two repositories, a tag and a layer, three events, two calls at a time, notifications of one or two events, two faults |
| `election` | Is there at most one punctual leader (`OneLeader`), is it left alone by the watchdog (`NoFalseAlarm`), is there one again after a crash (`LeaderEmerges`), does a split end (`SplitEnds`)? | two candidates, lease 5, deadline 2, pause 1, tolerance 1, delay 1, two faults |

Every module states a `TypeOK`; `projects` checks that of the project controller.
All but that of `Business` are proved. So is
`LeaderHoldsLock`, the fact behind `OneLeader`.

Two children (or a child and a namespace) are enough to make two workers meet on
one ledger; one fault is enough to repeat any call; quotas 1 and 2 under 2 make
one allocation fit and the sum of two not. Three kinds of writers at a time occur
in `business`. Names are used once in the project runs; `KidsExist` and
`FinalizedIsUncounted`, which are about a name's first use, also hold where there is a
second (`MCProjectNames.cfg`: a parent and a child, both names used twice, 314000
states). The project runs start from a root project that exists and
has been seen (`MCInit`, a state `Spec` reaches in five steps), so that no state
is spent on creating it.

One request, add-on or cluster name is enough where names share nothing: what
goes wrong is between the worker, goroutines and users of one name, and between a
name's first and second use. Two goroutines are enough for one to be left over
from an old copy while another works; two health loops, for a former cluster's
beside the present one's. Two faults make one during the repair of another. In
the election the lease has room for one deadline, one pause and one answer, and
no more: the smallest timings for which `Timely` holds (5 > 2 + 1 + 1), so that
every race of a lease with a renewal is as narrow as it can be.

One run ends in a violation: `notify_silent`. A message request becomes Sent
although nothing was sent, when the list of self-defined channels cannot be read, or,
with no fault at all, when the first of them has no URL; the quotation is in `PROJECT.json` under `findings`.

Two configurations beside the runs find no violation either, in 870000 and 610000 states:
`UsedWithinHard` in `MCNamespaceNamesake.cfg`, where a namespace is named like its project
and one is edited while it is being counted, so that the ledger is adjusted by
differences; and `UpgradeEnds` in `MCAddonUpgrade.cfg`, with one version that has
an image, as in the code, and one that has none: an upgrade to the latter ends the process
again and again until the version is changed back, and then it ends.

The other configurations of the same modules violate a property; they are kept beside
the runs because the conditions under which the runs' properties are stated come
from them. Each is run like the others, with `tlc -config <cfg> <module>`, where
the module is the `MC` module its name begins with (`MCProjects`, `MCNamespaces`);
a row that begins with a cfg of a run names what to change in a copy of it, the
property replacing those of the run.

| Configuration, property | What the code does |
|---|---|
| `MCProjectCascade.cfg`, `ChildrenGoFirst` | a parent is removed before its children: the deleter requests their deletion and goes on (`projected_resources_deleter.go:308`; :81 says it "Returns ResourcesRemainingError if it deleted some resources but needs to wait for them to go away") |
| `MCNamespaceForever.cfg`, `NsDeletionCompletes` | finalizing a namespace calls a resource that is not served (`namespaced_resources_deleter.go:222`): none is ever removed, where :84 says "Caller is expected to keep calling this until it succeeds" |
| `MCNamespaceDouble.cfg`, `NsLedgerExact` | a repeated sync counts a namespace again: the membership test looks for the project's name (`namespace_controller.go:311`) |
| `MCNamespaceStale.cfg`, `QuotaEnforced` | an edited quota of an available namespace reaches neither ledger nor cluster (`namespace_controller.go:298`) |
| `MCBusinessStuck.cfg`, `DeletionCompletes` | a project with a counted namespace is never deleted: its deleter removes the namespace and not its entry (`projected_resources_deleter.go:321`), and finalizing is refused for the entry |
| `MCProjectSkew.cfg`, `QuotaInherited` | a child without a quota and a quota on the parent are admitted at the same time: each is validated against the other's old state (`registry/project/validation.go:188`) |
| `MCProjectUnbind.cfg`, `BoundInherited` | a cluster is taken from a parent while a child is bound to it: only clusters the parent keeps are compared (`validation.go:170`) |
| `MCProjectGhost.cfg`, `CountedExist` | a project that is gone stays counted: a sync caused by a former project's deletion GETs its successor, which is being deleted too, and takes its finalizer; the answer is lost, the retry finds the successor active in the informer's copy and counts it (`project_controller.go:281`). After that every later write of the parent is refused (`registry/project/validation.go:133`) |
| `MCProjectEdits.cfg` without `SYMMETRY`, `GrantedWithinHard` | children not counted yet are not seen when quota is granted: more is granted than there is. (What is *counted* never exceeds it, which is the theorem.) |
| `MCProjectLive.cfg` with `Specs <- MCSpecs`, `MaxEdits = 1`, `MaxFaults = 0`, `DeletionCompletes` | deletion gives back the present quota, not the counted one (`projected_resources_deleter.go:283`); when that makes the ledger negative the write is refused for ever |
| `MCProjectLive.cfg` with `Specs <- MCTwo`, `MaxFaults = 0`, `DeletionCompletes` | removing the finalizer is validated like an edit (`registry/project/strategy.go:307`): an uncounted project that no longer fits stays |
| `MCNamespaceLive.cfg` with `FaultKinds = {"call"}`, `PendingEnds` | a failed status write leaves the new phase in the informer's object (`namespace_controller.go:287`), and the retry has nothing to do. (A relist of the watch, not modelled, would end it) |
| `MCNamespaceLive.cfg` with `FaultKinds = {"purge", "removed"}`, `MaxUid = 2`, `FailureNoticed` | a health loop that read a pending namespace removes the key of its successor (`namespace_health.go:98-101`): nobody watches it |
| `MCNamespaceLive.cfg`, `OverdrawnIsNoticed` | once more of the quota of a namespace was seen in use than there is, no status of it is admitted any more (`registry/namespace/validation.go:166-168`), and a lost namespace stays Available |
| `MCNamespaceNamesake.cfg` with two namespaces of the project, a with its name and b without, each on a namespace of the cluster of its own, `ProvisionedIsCounted` without `Unmistaken` | beside a counted namespace that is named like the project no other is counted: it is found in place of any (`namespace_controller.go:311`), so the ledger is adjusted by the difference, of which there is none, and the namespace is provisioned |
| `MCBusinessOrphan.cfg`, `ProjectOutlivesNamespaces` | a namespace created during its project's deletion outlives it |
| `MCNotifyStuck.cfg`, `SettlesAlways` | a request that is Sending when the process stops is never taken up again (`messagerequest/controller.go:242`) |
| `MCNotify.cfg`, `ReusedIsArchived` | the name of a request is used again: its message is archived under the same name, which exists, and the error is only logged (`messagerequest/controller.go:469`) |
| `MCAddonHealth.cfg`, `FailureAlwaysNoticed` | the watch looks for the cluster's name among names of add-ons (`cronhpa/controller.go:552`) and ends |
| `MCAddon.cfg` with `Addons = {a1, a2}`, `TwinsAreInstalled` | two add-ons of one cluster share their objects: the failing installation of the second rolls back the first |
| `MCAddon.cfg` with `MaxEdits = 2`, `EditedRunsItsVersion` | the version is changed, and changed back while the upgrade runs: a checker started from an old copy stores Running (`cronhpa/controller.go:574`), the upgrade's own status update conflicts after the image was patched (`:619`), and the add-on runs the version it no longer wants |
| `MCAddonUpgrade.cfg`, `UpgradeAlwaysEnds` | an upgrade to a version the program has no image for ends the process (`cronhpa/controller.go:641`), at every start |
| `MCRegistryLayer.cfg`, `OnlyImagesListed` | with several events in a notification a layer is listed as an image: every event kept is the last (`notification.go:280`). Distribution sends one |
| `MCRegistryTwins.cfg`, `OneObject` | a notification repeated after a time-out creates a second object of the same repository (`repository/validation.go:61`) |
| `MCClusterDown.cfg`, `DownIsReported` | a cluster nobody can connect to is never Failed: validating the status update connects to it (`registry/cluster/validation.go:81`, `:93`) |
| `MCClusterTorn.cfg`, `TornIsMended` | the token of a cluster is lost between two updates (`cluster_controller.go:401`): the next step dereferences nil, at every start |
| `MCCluster.cfg`, `NothingStays` | a Helm or PersistentEvent that is stored after the deleter has listed them (`cluster_deleter.go:296`) outlives the cluster |
| `MCCluster.cfg`, `OneLoop` | the health loop of a deleted cluster goes on when the name is used again while it sleeps (`cluster_health.go:277`), and judges a cluster that is being built |
| `MCElection.cfg` with `Lease = 3`, `Tolerance = 0`, `OneLeader` | two punctual leaders with timings that `NewLeaderElector` accepts: a renewal takes the pause and the answer besides the deadline |
| `MCElection.cfg`, `HungIsKilled` | a leader that hangs having read another's record passes for a standby (`leaderelection.go:293`) and is not ended |

A further condition has no row of its own: `ProvisionedAsAsked` without `Undisturbed`
fails in `MCNamespaces.cfg` with `FaultKinds = {"removed"}`. Who pushes a ResourceQuota does
not look at the label of the cluster's namespace (`cluster.go:156`), which may be
another project's by then if somebody removed the namespace in between. Nor has
`LedgerCovers` without `NamedOnce`: a namespace that was counted, removed by a
DeleteCollection and created again with a larger quota inherits the entry of its
predecessor, and the difference is never counted (`MCNamespaces.cfg` with
`Namesakes = {}`). The same happens to a child in `LedgerExact`.

So the ledger is exact, or covers, *while nobody edits* (drift, stale); a
namespace's ledger *covers* instead of being exact (double); `project_live` gives
children quotas that fit together (grant, seal); `KidsExist` and
`FinalizedIsUncounted` speak of names used once (ghost), `LedgerExact`,
`LedgerCovers` and `NothingUncounted` of projects whose children's and namespaces' names
are used once (`NamedOnce`: an entry taken over by a successor of another quota is not
corrected), `LedgerMatchesCache` and `SettledLedger` of projects whose children stay
(`ChildrenStay`); `namespace_live` has no failing
calls to the API server (pending), an unlimited project (double) and, for
`FailureNoticed` and `ContentRemoved`, nobody editing (unwatched, drift);
`namespaces` has nobody else removing a cluster's namespace, after which it is
anyone's. `ProvisionedIsCounted` is about projects no namespace of which has their name
(namesake). So are `LedgerCovers` and `NothingUncounted`, for the sake of their proofs: TLC
finds no violation of `LedgerCovers` with such namespaces whose names are used once
(`MCNamespaceNamesake.cfg` with `MaxEdits = 0`), where nothing is edited and hence
nothing adjusted. `FailureNoticed` of namespaces excludes quotas that are overdrawn,
over which no status is stored. `SentReachedAll` excludes requests that were attempted
while a channel or a list could not be used, or a self-defined channel had no URL (silent),
`SettledIsArchived` the later requests of a name, `ContentGoesFirst` add-ons stored
when no deleter lists them any more. `UpgradeEnds` is about one version with an image, as the
code has: with two, an edit that meets a checker or an upgrade under way can leave
the add-on Upgrading with nobody to repeat it. `Settles` excludes restarts and lost answers (stuck), `FailureNoticed` of
add-ons a cluster of another name (health), `DeployedIsInstalled` a second add-on on
the cluster (twins) and, as to the version, a second edit, `StatusIsTrue` faults and
notifications of several events (layer), `InitializingEnds` a torn update,
`RunningHasCredential` also a cluster judged too early, and `PhaseFollowsHealth` a
cluster out of reach (down).

## 4. Fairness

`Fairness` is weak fairness of the watch (`Deliver`), of the work on each key
(`Work`), of each health loop and of the server storing what it admitted. The code
justifies it: client-go's queue hands out every key once and re-adds it on error
(`AddRateLimited`), up to ten workers run for each controller and a worker
never waits for another, so that an enabled step on a key stays enabled until
it is taken; health loops are timers of their own. A key whose sync waits for a
free worker is not continuously enabled; `project_live` therefore has as many
workers as keys, as the real controllers have for up to ten busy keys. Nothing is
assumed of users (they may never act) or of faults (they may never happen, and
are bounded: a server that always fails completes nothing).

The other modules assume the same: weak fairness of the watch, of the work on
each key (`Work`), of each goroutine (`Step`, `Poll` of add-ons, `Look` and `Put` of
clusters: timers of their own), of the deleters (a resync wakes them). In
`RegistryNotification` distribution sends what it has and the handler goes on. In
`LeaderElection` candidates that are not hung act and time passes; the kubelet
restarts a container whose health check fails and starts one that ended. Nothing
is assumed of answers that may be lost, and nothing of the order of requests.

## 5. Proofs

Eight modules prove about the models, each for every value of the constants that
meets the named assumptions: any tree of projects, sets of namespaces, clusters,
receivers, repositories or candidates, finite or infinite, and any number of users,
workers, goroutines, edits and faults. The assumptions are `TreeAssumption`,
`BoundAssumption` (`BusinessAPI`, `ProjectController`) and one `...Assumption` in each
other module. They say of what kind the constants are, and in three places more,
which the code justifies: a project has one name for each namespace of a
cluster (`registry/namespace/strategy.go:97` derives the object's name from it), `NewLeaderElector` has
checked the timings, and the counters of `NotifyController` stop at 2 or later, so
that one can be told from more.

None of the properties is inductive. In all modules the strengthening says what
*a pending step may rely on*: objects are compared when they are stored, so what a
worker, goroutine or user knew when it read them is still true if its write is
accepted, and of no use if it is not. The proofs have one lemma for each action, and
lemmas for what actions share (what a write may change, what a worker's move keeps).

**Totals.** What the objects of a set hold on a cluster is the number of their
`Units`, the pairs of an object and a number up to its quota. As a fold or a recursive
function the same number would need induction over data, which the prover does not do;
as a cardinality it follows from the library's theorems about finite sets: one object
more holds its quota more (`TotalWithOneMore`), one less its quota less
(`TotalWithoutOne`), the same quotas give the same total (`SameTotal`), smaller ones no
or fewer ones no more (`TotalAtMost`, `TotalOfFewer`). `ProjectProofs` and `NamespaceProofs`
state the lemmas they need of these. Sets of children and namespaces are finite because each write adds
one name at most, which is part of the invariants below (`Sane`, `Lists`): the set of
all names need not be.

**`ProjectProofs`** has storeys, each invariant containing the ones it stands on.

* `TypeCorrect`: `Spec => []TypeOK`.
* `UsedNeverExceedsHard`: `Spec => []UsedWithinHard`, the quota invariant of the
  subsystem: no ledger is negative or above its project's quota.

A write stores an object that was validated some steps before, when the invariant
says nothing about it any more. `IInv` adds what was true at admission and stays true
because a pending write is immutable: `SoundSync` and `SoundUser` say that the object a
worker or a user is about to store is well formed and within its quota (`Sound`).
Admission establishes it (`ValidateUpdateResource`), the compare-and-store of `Commit`
and `CommitLost` uses it, the rest leaves ledgers alone.

* `CountedChildrenExist`: `Spec => []KidsExist`.
* `FinalizedHoldsNothing`: `Spec => []FinalizedIsUncounted`.
* `OnlyTheDyingLeave`: `Spec => OnlyDyingLeave`, an action property.

`KInv` says what the worker that deletes a project knows at each of its steps
(`Fits`): the project is being deleted and has its finalizer until this worker takes
it; once out of its parent's ledger it stays out, because only the worker of a key
counts it; and (`Informed`) that the informer's copy, from which the next sync of the
key starts, is no older than the deletion. That last part fails for a name used
again, which is how `MCProjectGhost.cfg` was found: the proof of the two invariants
for all names could not be finished, and TLC found the execution.

* `LedgersAreExact`: `Spec => []LedgerExact`.

A worker adds and subtracts the quota of the object it has in hand, not of the stored
one. `Accounts` says why that is the same while nobody edits: every copy of a project,
of the informer, the cache or a worker, is of its present life and as large, or of an
earlier life (`Copy`); and what each pending write does to the ledger it was computed
from (`Amounts`), which the comparison makes the ledger it is stored over (`AInv`). `LInv` adds
`Books`, the property itself, which follows from `Balances`: what a ledger says beyond
what the children hold, `Spare`, is changed by no step, but to nothing when the project
goes or comes. What a deleter gives back is the quota it read, so a
child that is replaced under its name by one of another quota breaks the sum:
`NamedOnce`.

* `LedgersMatchTheCache`: `Spec => []LedgerMatchesCache`.
* `LedgersSettle`: `Spec => []SettledLedger`.

When quotas are edited, the ledger follows the *cache*, which a worker changes in the
step that stores the ledger (`handlePhase` has updated the parent when `syncItem`
stores the object in the cache; nobody else works on the key in between).
`CInv` adds `Follows`: while nothing failed and a child was never deleted, a worker that
counts it compares with what is cached and has the informer's copy, unless the key
waits again; a counted child is cached; a child not counted has its key at work
(`Knows`). At rest `Knows` leaves only children that are counted with the quota they
have, which is `SettledLedger`. A child is created under a parent that exists
(`Rooted`), so none waits for a parent to come.

**`NamespaceProofs`**

* `TypeCorrect`.
* `ProvisionedAreCounted`: `Spec => []ProvisionedIsCounted`.
* `OneProjectEach`: `Spec => []OneProjectPerTarget`.
* `AvailableAsAsked`: `Spec => ProvisionedAsAsked`, an action property.
* `LedgersCover`: `Spec => []LedgerCovers`.

A namespace becomes available by the worker that creates it, by a health loop, or
by an update of an available one. `NInv` (with `Kept` and `Fits`) says that the creating
worker's namespace is in the ledger from `Commit` on and labelled on the cluster from
`Provision` on, that health loops and users start from a settled object, and
that a worker taking a namespace down has one that is not settled, also when the one
it read was purged and its name given out again. It assumes nothing of the projects but
that one that is there, or that a worker writes to, was created, so it also holds where
projects are locked and deleted; `Lasting` is what is gained when they never
are: the entry of a namespace stays until its own worker takes it back. `QInv` adds that the quota it
pushed is the one it is about to report.

`ProvisionedIsCounted` and `LedgerCovers` are proved of projects that are `Unmistaken`: for
these no write but a count and a giving back changes the ledger, which `Fits` and
`Amounts` say of pending writes.

`LedgerCovers` is not inductive even with `Accounts`, which says of namespaces what it
says of projects: a namespace that is purged while its deleter is at work holds
nothing any more, yet its quota is still to be given back. `Covers` counts it until
then (`Holding`): the ledger is no less than what the namespaces hold *and will give
back*. Nothing is given back twice, because a giving back is stored only over the
ledger that lists the namespace, and takes it off the list.

**`BusinessProofs`** is about the composition.

* `TypeCorrect`, and `QuotasSuffice`: `Spec => []UsedWithinHard`.
* `NothingIsUncounted`: `Spec => []NothingUncounted`.
* `EntriesStay`: `Spec => EntriesAreKept`, an action property.
* `CountedChildrenExist`, `OneProjectEach`: `KidsExist`, `FinalizedIsUncounted` and
  `OneProjectPerTarget` also hold with both controllers at work.
* `NothingIsOvercommitted`: the children a project has counted and the namespaces that
  were provisioned in it hold together no more than its quota, on any cluster, as long
  as nobody edits a quota, names are given once, no namespace has the name of the project, and the project is
  the first of its name and is not being deleted. It joins three facts: what is in use is in the ledger (`NInv`), what is in the
  ledger is counted (`NothingUncounted`), what is counted is within the quota.

Each controller's invariant bears what the other one does, and that is proved in its own
module against an action that says no more of the other than is needed: `Others` in
`NamespaceProofs` (whoever else writes leaves the controller's state alone, removes
namespaces, and changes the namespaces a project lists only when the project goes or
comes), `Beside` in `ProjectProofs` (another ledger within the quota, for a project that
stays what it is). `ProjectIsOther` and `NamespaceIsBeside` say that each controller
keeps to it. What neither invariant can say is that the one number they both write has
room for both. `Covered` does: what a ledger says beyond what the children hold (`Spare`)
is no less than what the namespaces hold or will give back (`Held`). A step of the
project controller leaves `Spare` as it is, or empties the ledger (`Balances`); a step of
the namespace controller leaves no less beyond what the namespaces hold (`Carries`). So
the proof needs no case of two workers at once. The first section of the module says
that the instances of the proof modules speak of the same definitions as `Business`.

**`NotifyProofs`**

* `TypeCorrect`.
* `SentIsHonest`: `Spec => []SentReachedAll`.
* `SettledIsKept`: `Spec => []SettledIsArchived`.
* `Delivers`: `Spec => KeepsPromise`: `NotifyController` implements `Delivery` under
  `Promise`. The initial states map to initial states and every step to a step of
  `Delivery` or a stutter.

`IInv` relates a stored request to the worker's copy of it, which may be of an earlier
request of the name (`Uids`, `Behind`), and the number of copies a receiver has to the
number of attempts that ended in doubt (`Budget`): a receiver that is still to
be tried has a message less than the attempts allow. An empty result is explained by
`blind` from the attempt on that it stems from, and what is archived by the uid of the
request: the first of its name finds no message there but its own.

**`ClusterProofs`**

* `TypeCorrect`.
* `CredentialFits`: `Spec => []RunningHasCredential`.
* `ContentIsDeleted`: `Spec => []ContentGoesFirst`.
* `DeletionIsFinal`: `Spec => TerminatingIsFinal`, an action property.

`Copies` says what a current version is worth: the informer's and the worker's
copy are the stored cluster, and a health loop whose result is admitted has looked at
this very cluster. A deleter that has listed the add-ons has left none of those that were there, and
whatever is stored afterwards is told apart (`addons`). `Credential` follows the three steps of the provider through the
two objects they are stored in.

**`AddonProofs`**

* `TypeCorrect`.
* `InstalledIsThere`: `Spec => []DeployedIsInstalled`.
* `PhasesInOrder`: `Spec => PhaseOrder`, an action property.

Goroutines write what they computed from copies, and nobody waits for them; what
keeps them from harm is the order of things. In the first use of a name its versions
are ordered (`Before`: it is installed once, retries grow, what is gone stays gone); a
goroutine's copy is not ahead of the informer's, nor that of the stored one. Each
version of a reinstallation is handed out by the queue once, so two goroutines never
reinstall the same one (`OneRebuilds`), a worker installs alone (`Exclusive`), and
without edits one goroutine checks at a time (`OneChecks`). So a rollback finds
that its version is still the stored one (`Rebuilds`), and nothing deployed goes with
it. `Content` and `Version` say what each actor knows of the cluster; `Calm` what is
simpler while nobody edits. An edit during a reinstallation hands a version out
twice, which is why `Quiet` excludes it. The first inductive invariant made the
version part a claim for any number of edits; TLC refuted that claim (the
second execution with `MCAddon.cfg` in the table of section 3).

**`RegistryProofs`**

* `TypeCorrect`.
* `CountEarned`: `Spec => []CountIsEarned`.
* `NothingIsForgotten`: `Spec => NothingForgotten`, an action property.

A list has one object of an id (`Distinct`); a call's copy is no later than the stored
object, is that object if its version is (`KnownIn`), and what the call computed from
it has every tag and pull of it (`Grows`). The number of calls about to count is
a cardinality; the library's theorems on finite sets give what adding or taking one does.

**`LeaderElectionProofs`**

* `TypeCorrect`.
* `AtMostOneLeads`, `LeadersHoldTheLock`, `WatchdogIsPatient`: `OneLeader`,
  `LeaderHoldsLock` and `NoFalseAlarm` always hold, if `Timely`: a deadline, a
  pause and an answer together are shorter than the lease. `NewLeaderElector` does
  not check that (it asks for the deadline alone to be shorter), and without it
  the statement is false (`MCElection.cfg` with `Lease = 3`, `Tolerance = 0`). The
  defaults, 15, 10 and 2 seconds, satisfy it while answers take less than three seconds.

`IInv` adds, for whoever leads or has stored a record and waits for the answer
(`Claims`), that it is `Protected`: nobody else has an update on the way that would
still be accepted (`Sending`), and everyone who has seen the present record will wait
for longer than the leader goes on without renewing it (`Outlasts`). The conjuncts
`Ended`, `Overdue` and `OwnLease` say what is needed of processes that ended, of an
attempt that began after the lease it has seen, and of a leader's own lease.
`MayExcludesClaims` is the heart: who may take the lock does not find a claimant's
record unexpired.

**Only model-checked.**

* All liveness: fairness and ENABLED are out of the prover's reach.

## 6. Not modelled

* *Machine controller* and *nine of the ten add-on controllers*: the structure of
  `ClusterController` and `AddonController` again, line for line in most places;
  a module of each would ask the same questions.
* *IP allocator*: a copy of Kubernetes code; the program calls `GetIndexedIP`, an
  addition, and nothing that keeps state.
* *Generated code* (`zz_generated.*`, `generated.pb.go`, clients, informers, listers),
  by far most of the lines of the repository.
* *Auth, gateway, monitor, installer, chart museum, proxies, senders, provider
  steps over ssh*: input and output, queries, or libraries.
* A cluster that is *locked* and therefore judged Failed (`pkg/platform/util/client.go:285`);
  what depends on the version of a cluster (`ValidateClusterVersioned`); an update of the
  main resource of a cluster that changes status or finalizers, which its strategy
  does not prevent and no client of the repository does.
* A renewal of the election that follows a slow one sooner than after the pause: the
  ticker has fired meanwhile. In the model there is always a pause between two.
* Of the modelled APIs: tenants, display names, labels, formats, Export, rendering
  of messages, contents of conditions.

## 7. Plan

Next, modelling: an abstract quota specification (grants are added and taken back
atomically) which `ProjectController` implements while nobody edits; several
clusters with add-ons, `ClusterController` and `AddonController` composed, for what a
deleted cluster leaves to its add-ons.

Next, proofs: that `ProjectController` implements the abstract quota specification.
