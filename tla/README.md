# Verification of etcd-cluster-operator

TLA+ specifications of the operator's control loops, the TLC runs that check
them on small instances, and TLAPS proofs of the most important results for
every size of instance. Paths are relative to the repository root.

## The system

The operator is a set of controller-runtime controllers. Each has one worker,
reads objects from a shared informer cache that lags behind the API server,
writes to the API server directly, and is called again for every watch event
and after every error. The cluster and the peer controller also ask to be called
again every ten seconds; the other three do not.

| Part | Source | State it owns or changes | Modelled by |
|---|---|---|---|
| EtcdCluster controller | `src/controllers/etcdcluster_controller.go` | Service, EtcdPeers (create, finalizer, delete), etcd membership, cluster status | `EtcdClusterController` |
| EtcdPeer controller | `src/controllers/etcdpeer_controller.go` | PVC, ReplicaSet, peer status, the PVC cleanup finalizer | `EtcdPeerController` |
| Naming of peers | `nthPeerName`, `nextAvailablePeerName`, `MembersByName` | none | `PeerNames` |
| Validation webhooks | `src/api/v1alpha1/validation.go` | which edits of an EtcdCluster are accepted | `Platform!ValidateUpdate` |
| etcd client | `src/internal/etcd/etcd.go` | membership of etcd | `Platform` (etcd, external) |
| Kubernetes | external | API objects, cache, garbage collection, PVC protection, pods | `Platform` |
| EtcdBackupSchedule controller | `src/controllers/etcdbackupschedule_controller.go` | schedule map and cron pool (in memory), finalizer, EtcdBackups | `EtcdBackupSchedule` |
| EtcdBackup controller | `src/controllers/etcdbackup_controller_new.go`, `actions.go` | phase, ServiceAccount, backup pod | `EtcdBackup` |
| Backup agent, proxy upload | `src/cmd/backup-agent`, `src/cmd/proxy` | the bucket, the outcome of the pod | `EtcdBackup` |
| EtcdRestore controller | `src/controllers/etcdrestore_controller.go` | PVCs, restore pods, EtcdCluster, phase | `EtcdRestore` |
| Restore agent | `src/cmd/restore-agent` | the data on the volumes, the outcome of the pod | `EtcdRestore` |

How the parts interact: the cluster controller never touches pods or volumes.
It creates and deletes EtcdPeers and calls etcd; the peer controller turns each
EtcdPeer into a PVC and a ReplicaSet; the pod starts etcd on the volume; the
cluster controller sees the result as the member list of etcd and the version
that the peer's status reports. A scale-down is a relay: the cluster controller
removes the member, puts the PVC cleanup finalizer on the peer and deletes it;
the peer controller marks the PVC as deleted and takes the finalizer off; the
garbage collector then removes ReplicaSet and pod, and only then the PVC goes.

Backup and restore meet the other controllers only through objects. A cron entry
creates an EtcdBackup. The backup controller runs an agent in a pod, which saves
a snapshot and has the proxy store it, and turns the outcome of the pod into a
phase. The restore controller creates the claims that the peer controller would
create for a new cluster, runs one agent per claim, and creates the EtcdCluster
when all have succeeded; the peer controller then finds claims of the names it
wants and starts etcd on them.

What is hard about it, with the line where it bites, is the `hazards` list of
`PROJECT.json`. In short: every decision is taken on a cached spec, cached
peers and a member list that may be older than one another; a name is reused by
peers, ReplicaSets, volumes and members that live for different times; a call
that is lost looks like a cluster that does not exist; edits arrive in the
middle of scaling and upgrading; and finalizer, PVC, pod and peer wait for each
other. The cron pool is in memory while schedules are not; agents, proxy and
controller can each stop between any two steps; and backups, restores, claims and
pods are known by name, which a successor may have.

## Modules

**`PeerNames`** has the names as pure operators. A name is its ordinal, but the
order of names is the one strings have: `NameLess` says that `c-10` sorts before
`c-9`.

**`Platform`** has all the state, the operations of the API server that the
controllers call, Kubernetes, and etcd. What it says of Kubernetes and etcd is
taken from how the controllers use them.

| Variable | Stands for |
|---|---|
| `spec`, `status`, `service` | the EtcdCluster (replicas and version; replicas and members) and its Service |
| `peers` | the EtcdPeers: version, bootstrap flags, finalizer, deletion mark, reported version |
| `cachedSpec`, `cachedPeers` | the same in the informer cache, refreshed by `syncSpec` and `syncPeers` at any time |
| `pvc` | the volumes: deletion mark, the etcd cluster whose data is on it, whether that data is of a removed member |
| `rs` | the ReplicaSets, each with its pod: owner gone or not, flags, `pending`, `running` or `exited` |
| `etcd` | for each etcd cluster that may form: members, members with a name, members ever removed |

An etcd cluster is identified by the initial members it was started with, as
etcd derives its cluster ID, so that the model can tell two clusters behind one
Service apart. A member that `MembersAPI.Add` announces has no name until its
process has joined; a data directory overrides bootstrap flags; a member that
starts with state `existing` must find the membership its flags name; a removed
member's data is of no use again; the last member cannot be removed.

**`EtcdClusterController`** has one action per thing a reconciliation may do, in
the order `reconcile` considers them, and `ReconcileCluster` for the whole of a
reconciliation: reading the cache, listing the members, patching the status and
doing that one thing. `canChange`, `canUpgrade` and `canScale` are what is known
past the early returns.

**`EtcdPeerController`** has one action per path through the reconciliation of a
peer, each with the status patch that ends it.

**`EtcdOperator`** composes the two controllers with `Platform`, an
administrator who edits the spec, and faults, and states the properties.
`MCEtcdOperator` makes it an instance for TLC.

**`Membership`** is the abstract specification: a cluster is formed once and
then changes by one member at a time, each change waiting until every member has
started, a removal taking the last name. `EtcdOperator!FollowsMembership` is the
refinement.

**`EtcdBackupSchedule`** is the controller of the schedules of one name. `watch`
holds the versions of the object that the informer has yet to deliver, in order;
`queued` and `working` are the work queue and its worker, so that an event may
arrive while a reconciliation is under way. `Schedules` and `pool` are the
ScheduleMap and the cron pool. Each path through `Reconcile` is an action, with
the Update that ends it: accepted, refused because the cached version is not the
current one, or failed with or without effect. `fire` is a cron entry going off.
`restart` empties the memory of the operator.

**`EtcdBackup`** is the controller, the agents and the proxy for backups that may
be deleted and made again under their name. The caches of EtcdBackups,
ServiceAccounts and pods lag independently (`unseen` says which are behind).
A reconciliation is two steps, as in the code: `decide` computes the Action from
the caches, `Execute` carries it out on whatever is there by then. A pod runs
`saveAndUpload`; the call goes on in the proxy (`uploads`) when its agent is gone,
and ends in `storeObject` or `refuseObject`.

**`EtcdRestore`** is the controller and the agents for restores that all want the
same cluster name. `planned` is what a reconciliation decides, in the order of
the code; `execute` does it later. A claim, pod or cluster has the label of the
restore that made it, and an event of one leads to the restore on the label
(`sync`). `beginCopy` and `finishCopy` are the first and the last write to a
volume; `data` is the restore whose snapshot the volume holds entirely. Volumes,
pods and clusters that others have made may be in the way.

**`BackupPromise`** and **`RestorePromise`** are the abstract specifications of the
last two, without caches, pods, agents and proxy. A backup is started once, is
Completed only when there is a snapshot, and snapshots are kept; under a name that
was used before, a step meant for an earlier backup may reach the present one. A
volume is claimed once and written to only when it is claimed for a restore; the
cluster is made once, by a restore that has all claims; end states are final; and
for a restore of which nothing was lost the cluster and the phase Completed mean
whole snapshots that nobody writes to any more. `KeepsPromise` in `EtcdBackup` and
`EtcdRestore` is the refinement: the backup's mapping reads the phase off the object
(`"absent"` when there is none), the restore's takes `sound` to be the restores that
are `undisturbed`.

**`MCEtcdBackupSchedule`**, **`MCEtcdBackup`** and **`MCEtcdRestore`** make them
instances for TLC.

**`EtcdOperatorProofs`**, **`VolumeProofs`**, **`PeerProofs`**, **`RefinementProofs`**
and **`UpgradeProofs`**, each of which extends the one before, hold the theorems about
`EtcdOperator`; **`ScheduleProofs`**, **`BackupProofs`** and **`RestoreProofs`** those
about the other three.

Operators named as mutants in their comment are plausible mistakes in the
definition that follows them. Each property has one that breaks it; no
specification uses them.

## Properties and runs

| Run | Instance | Checks | States |
|---|---|---|---|
| `bootstrap` | created with 1, 3 edits among {1,2}, 1 fault | `IndInv`, `NoLeftoverData`, `TombstoneHasPeer`, `MemberKeepsData`, `RemovedWithPeer`, `FollowsMembership` | 20,046 |
| `bootstrap_converges` | created with 1 to 3, 1 edit of the version among 3 | `OneEtcdCluster`, `UpgradeInv`, `UpgradeKeepsQuorum`, `Converges`, `UpgradeWaits` | 18,789 |
| `scale_converges` | settled with 1 to 3, 3 edits of replicas | `Converges` | 117,630 |
| `scale_faults` | settled with 2 or 3, 1 edit of replicas or version, 2 faults | `PeerInv`, `JoinInv`, `FinalizerConfirmed`, `DataSurvives`, `MemberKeepsData`, `OnlyOutdatedReplaced` | 38,708 |
| `scale_and_upgrade` | settled with 2 or 3, 2 edits of replicas or version | `JoinConfigMatches`, `RemovedWithPeer`, `OnlyOutdatedReplaced`, `SettledStays`, `Converges` | 27,936 |
| `schedule` | 2 schedules of a name, 3 expressions of which 1 does not parse, 1 edit, 1 fault, 1 restart | `ScheduleInv`, `EveryEntryRecorded`, `EntryNeedsFinalizer`, `LiveStaysScheduled`, `BackupsHappen`, `DeletionCompletes` | 100,850 |
| `backup` | 1 name, used twice or 1 fault | `BackupInv`, `CompletedHasSnapshot`, `PhaseAdvances`, `KeepsPromise`, `BackupEnds` | 346,288 |
| `restore` | 2 names, 2 peers, 1 fault | `RestoreInv`, `AgentsOnOwnVolumes`, `RestoredWhole`, `EndIsFinal`, `KeepsPromise`, `RestoreEnds` | 227,830 |

In the first five a fault is a lost List call of the cluster controller, a lost
GetVersion call of the peer controller, or a crash of an etcd process. In
`schedule` it is an Update that fails, with or without effect; in `backup` and
`restore` a failed call, a lost pod or node, a restart of the operator, the use of
a name after the first, and in `restore` also a deletion, a second restore, or a
cluster that somebody else makes.

- `IndInv`: the inductive invariant behind `FinalizerConfirmed` and `MemberKeepsData`,
  with the type invariant `TypeOK` as its first part.
- `FinalizerConfirmed`: the finalizer that costs a peer its volume is only on
  peers that a cluster in operation does not list, in the API and in the cache.
- `MemberKeepsData`: while there is one etcd cluster, no step takes the volume
  with its data from a member that stays a member.
- `DataSurvives`: while there is one etcd cluster, some member has its data on a
  volume, so what was stored is never all lost.
- `NoLeftoverData`: when a name is reused, the volume that a removed member left
  under it is being deleted. `TombstoneHasPeer` is what makes it inductive: until
  then the removed member's peer is there, in the API and in the cache.
- `RemovedWithPeer`: a member is removed only while it has a peer, which will have
  the volume deleted. It holds as long as the version is edited once at most, also when
  the cluster is scaled during the upgrade: see `leftover_volume` below for what happens
  otherwise.
- `OneEtcdCluster`: the blank peers form one etcd cluster. It holds as long as they
  are created for one number of replicas: see `split_brain` below.
- `PeerInv`: a name passes from peer to peer, and cache, API server and ReplicaSet may
  each be at another one. A peer in the cache is never one before that in the API
  server; a deletion waits for the volume; a ReplicaSet that is no orphan is that of
  the peer there is.
- `JoinConfigMatches`: a peer created for a member that has yet to join, and the
  ReplicaSet made of it, are configured with the membership they will find. `JoinInv`
  is its inductive form.
- `FollowsMembership`: refinement of `Membership`.
- `OnlyOutdatedReplaced`: the upgrade takes only peers made for another version than
  the one wanted, so it does not replace what it has replaced, not even when a lost
  GetVersion call makes an upgraded peer look outdated again.
- `UpgradeWaits`: an upgrade deletes a peer only when every peer that does not sort
  before it reports the wanted version. `UpgradeInv` is the inductive invariant behind
  it. It holds for one edit without faults, and for no more: with two edits, or with a
  crash, TLC has a counterexample (`ScaleAndUpgrade.cfg`, `ScaleFaults.cfg` with this
  property), since what a peer has reported need not be so any more.
- `UpgradeKeepsQuorum`: during an upgrade, a cluster of three or more whose members
  have all started has a quorum that runs. It is for one edit without faults too: a
  crash may come on top of the member that the upgrade has taken down.
- `Converges`: once edits and faults end, the cluster reaches what the spec
  asks for and stays there (`Settled`): the wanted number of members, each with a peer,
  a volume and a pod of the wanted version, nothing left of others, and a cache and a
  status that say so. The volumes of removed members are among what must be gone; two
  lines of `docs/design/resources.md` have it otherwise, see below.
- `SettledStays`: what is settled is changed by an edit or a fault only. The
  controllers go on reconciling and find nothing to do.
- `EveryEntryRecorded`, `EntryNeedsFinalizer`: every cron entry can be found
  through the map, and its schedule, while it exists, has the finalizer saved.
- `LiveStaysScheduled`: only a restart takes the entry of a schedule that is not
  being deleted.
- `BackupsHappen`, `DeletionCompletes`: a schedule whose expression parses is
  backed up, after every restart again, and goes when it is deleted. With an
  expression that does not parse the finalizer stays for good, because `Reconcile`
  only comes to it once there is a cron entry.
- `CompletedHasSnapshot`: a Completed backup has a snapshot in the bucket, its own
  unless the name was used before.
- `PhaseAdvances`: the phase never goes back while the name is used for the first
  time. It may go from one end state to the other: if the pod is lost before the
  recorded result is in the cache, the backup is taken again.
- `BackupEnds`: every backup whose template parses ends. One whose template does
  not parse is retried for ever and never Failed.
- `AgentsOnOwnVolumes`: restore agents run only on volumes claimed for their
  restore.
- `RestoredWhole`: once a restore has made its cluster or is Completed, every
  volume holds its whole snapshot and no agent writes to one. This is for a name
  in its first use of which no pod has been lost: if a pod that has succeeded is
  deleted before Completed is recorded, another one is run on a volume in use.
- `EndIsFinal`, `RestoreEnds`: every restore ends, once.
- `KeepsPromise`: refinement of `BackupPromise` and of `RestorePromise`.

Where the documentation and the code disagree, a run finds the counterexample:

| Run | Documented | What the run shows |
|---|---|---|
| `split_brain` | a blank peer created without contact is rejected | a cluster of one, scaled to three while its pod is down: two blank peers form a second cluster |
| `leftover_volume` | a scale-down deletes the PVC of the removed member | not when the peer has been deleted for an upgrade that was then taken back |
| `schedule_leak` | cron entries are deleted when a schedule is removed | not when an event that came during the clean-up makes the controller reconcile the cached schedule once more |
| `restore_over_cluster` | a restore never writes to volumes of an existing cluster | it does when a restore is deleted and made again under its name after its cluster was made |

Other places where the code does less than its documentation says. They can be
seen with the same modules:

- `etcdcluster_controller.go:294` says that a blank peer created without contact
  heals. `Scale.cfg` with `MaxFaults = 1` has a counterexample to `Converges`: the
  blank peer's ReplicaSet outlives it, its pod starts as a new cluster on the volume
  of the peer that was to join, and the member never starts.
- `docs/operations.md:381` says that an upgrade waits for each recreated peer. Not
  once the version has been edited again: `ScaleAndUpgrade.cfg` with the property
  `UpgradeWaits`.
- `docs/operations.md:377` says that upgrades happen only if all members are
  healthy. `isAllMembersStable` looks at names, and a member that has ever started
  has one: after a `crash` of one member, `deleteOutdatedPeer` of another is enabled.
- `docs/operations.md:280` says that the member with the largest ordinal is removed
  first. `NameLess` is the order of strings, so of eleven members number 9 is.
- `docs/design/resources.md:36` says "We never delete a persistent volume claim
  automatically", and `:133-134` that deleting a peer "removes the replica set, but not
  any PVCs associated with the pod". On a scale-down the code deletes them
  (`PeerPVCDeleter`), as `docs/operations.md:290` says and the test
  `PersistentVolumeClaimsRemoved` (`etcdcluster_controller_test.go:259`) expects.
  `Settled`, and with it `Converges`, follows the code, that page and that test. What
  is left of the older text is that a peer deleted without the finalizer, as in an
  upgrade, leaves its PVC to the next peer of its name.
- `docs/design/backups.md:94` says that a cron entry is recreated when its schedule
  is changed. `keepCronEntry` leaves it as it is.

### Bounds

`MaxOrdinal` bounds names: a member whose next free name is larger is not added.
Two or three members give every case that `reconcile` distinguishes: none, one
and several surplus peers, outdated peers and unstarted members, and a majority
that is not everyone. `MaxEdits` and `MaxFaults` bound the edits and faults; the
runs use enough for an edit to fall into every stage of the one before it, and
for a name to be given up and reused (two edits). No symmetry is used: ordinals
are compared, and the runs are small enough without.

`MaxUID` bounds how often a name is used: twice is enough for what one generation
leaves to the next. In `schedule` the queue of undelivered versions is bounded by
the writes that the other bounds allow. In `backup` one name is enough, since
backups of different names share nothing but the worker, and the faults include
everything that can come between two of its steps. In `restore` the first restore,
a second one of another name and one fault, or the first name used twice, compete
for two claims: with two, one may be taken and the other not, one agent may have
finished and the other failed. The invariants are proved without any of these bounds.

Settled clusters are the initial states of the scaling and upgrade runs, to keep
the bootstrap out of their state space. `bootstrap_converges` shows that the
bootstrap leads to settled states, `Settled`, of which `Established` gives the
variables' values.

### Fairness

Weak fairness of the two controllers (they are called again every ten seconds),
of the two caches (watches are re-established), and of the infrastructure as a
whole. Each is fairness of a disjunction, so it is weaker than fairness of every
action in it. Nothing is assumed of edits and faults.

In `EtcdBackupSchedule`: weak fairness of the informer's deliveries and its resync,
of the worker, and of cron. The resync is needed: after a restart a schedule that
is being deleted gets a cron entry first, and nothing else leads back to it.

In `EtcdBackup` and `EtcdRestore`: weak fairness of each informer, of the call that
a reconciliation makes (it has a timeout) and of each agent (its pod is scheduled
in the end; the backup agent has a timeout, the restore agent one for its download,
after which it works on local files and comes to an end); strong fairness of the reconciliation of each
name, because the work queue is served in turn while `decide` for one name disables
it for the others. No fairness of the proxy (agents time out) and of the garbage
collector: a name that is taken makes the creation fail, and the retry goes on until
either the object is collected or its state is seen in the cache.

Deadlock is checked in the runs of `EtcdOperator` but says little, since a cache
refresh is always possible; that nobody waits forever is what `Converges` says. In
the other three modules the system may stop, when no object is left to create.

## Proofs

The constants are arbitrary: any `MaxOrdinal`, any versions, any numbers of
edits and faults. `ConstantsAssumption` says that replicas are between one and
`MaxOrdinal + 1` and that the initial version is a version; `NoneAssumption`
that no object is the absent one. `ScheduleAssumption`, `BackupAssumption` and
`RestoreAssumption` say the like of the other modules: the bounds are natural
numbers, a restored cluster has one peer at least, no object is the absent one.

| Theorem | Module | Statement |
|---|---|---|
| `TypeCorrect` | `EtcdOperatorProofs` | `Spec => []TypeOK` |
| `NameOrder` | `EtcdOperatorProofs` | `NameLess` is asymmetric, total and transitive on the naturals |
| `VolumeInvariant` | `VolumeProofs` | `Spec => []IndInv` |
| `FinalizerTheorem` | `VolumeProofs` | `Spec => []FinalizerConfirmed` |
| `MemberKeepsDataTheorem` | `VolumeProofs` | `Spec => MemberKeepsData`, and from `EstablishedSpec` |
| `EstablishedTheorem` | `VolumeProofs` | `EstablishedSpec => []IndInv /\ []FinalizerConfirmed` |
| `DataTheorem` | `PeerProofs` | `Spec => []DataSurvives`, and from `EstablishedSpec` |
| `PeerTheorem` | `PeerProofs` | `Spec => []PeerInv`, `EstablishedSpec => []PeerInv` |
| `OnlyOutdatedTheorem` | `PeerProofs` | `Spec => OnlyOutdatedReplaced`, and from `EstablishedSpec` |
| `JoinInvariant` | `PeerProofs` | `Spec => []JoinInv`, and from `EstablishedSpec` |
| `JoinTheorem` | `PeerProofs` | `Spec => []JoinConfigMatches`, and from `EstablishedSpec` |
| `TombstoneTheorem` | `PeerProofs` | `Spec /\ RemovedWithPeer => []TombstoneHasPeer /\ []NoLeftoverData`, and from `EstablishedSpec` |
| `LeftoverTheorem` | `PeerProofs` | `Spec /\ RemovedWithPeer => []NoLeftoverData`, and from `EstablishedSpec` |
| `Refinement` | `RefinementProofs` | `Spec /\ []OneEtcdCluster => FollowsMembership` |
| `OneClusterTheorem` | `RefinementProofs` | `Spec /\ BlankPeersFor(r) => []OneEtcdCluster /\ FollowsMembership` for every `r`, and `OneEtcdCluster` from `EstablishedSpec` |
| `UnscaledTheorem` | `RefinementProofs` | if `TargetReplicas = {}`: `Spec => []OneEtcdCluster /\ FollowsMembership` |
| `SettledTheorem` | `RefinementProofs` | `Spec => SettledStays`, and from `EstablishedSpec` |
| `RemovalTheorem` | `UpgradeProofs` | `Spec /\ OneUpgrade => RemovedWithPeer /\ []TombstoneHasPeer /\ []NoLeftoverData`, and from `EstablishedSpec` |
| `UpgradeInvariant` | `UpgradeProofs` | if there are no faults and at most one edit: `Spec => []UpgradeInv`, and from `EstablishedSpec` |
| `UpgradeTheorem` | `UpgradeProofs` | under the same condition: `Spec => UpgradeWaits`, and from `EstablishedSpec` |
| `QuorumTheorem` | `UpgradeProofs` | under the same condition: `Spec => []UpgradeKeepsQuorum`, and from `EstablishedSpec` |
| `ScheduleInvariant` | `ScheduleProofs` | `Spec => []ScheduleInv` |
| `RecordedTheorem` | `ScheduleProofs` | `Spec => []EveryEntryRecorded` |
| `FinalizerTheorem` | `ScheduleProofs` | `Spec => []EntryNeedsFinalizer` |
| `LiveTheorem` | `ScheduleProofs` | `Spec => LiveStaysScheduled` |
| `BackupInvariant` | `BackupProofs` | `Spec => []BackupInv` |
| `CompletedTheorem` | `BackupProofs` | `Spec => []CompletedHasSnapshot` |
| `PhaseTheorem` | `BackupProofs` | `Spec => PhaseAdvances` |
| `PromiseTheorem` | `BackupProofs` | `Spec => KeepsPromise` |
| `ReconcileDecides` | `BackupProofs` | in every state that is `TypeOK`, a backup whose template parses is idle or has exactly one operation planned, never both |
| `RestoreInvariant` | `RestoreProofs` | `Spec => []RestoreInv` |
| `OwnVolumesTheorem` | `RestoreProofs` | `Spec => []AgentsOnOwnVolumes` |
| `WholeTheorem` | `RestoreProofs` | `Spec => []RestoredWhole` |
| `FinalTheorem` | `RestoreProofs` | `Spec => EndIsFinal` |
| `PromiseTheorem` | `RestoreProofs` | `Spec => KeepsPromise` |
| `ReconcileDecides` | `RestoreProofs` | in every state that is `TypeOK`, a restore is idle or has exactly one operation planned, on one claim or pod, never both |

*Types.* The only step that is not routine is that the name of a new peer is an
ordinal that no cached peer has. `NextNameIsFree` proves it from the finiteness
of the set of peers: among `n + 1` ordinals one is free, and a least one exists.

*Names.* The controllers sort names as strings, so `NameLess` compares digits by powers
of ten. Padded with zeros to the same number of digits, `i` and `j` compare as numbers
do, and when they are equal the shorter name is the lesser one (`NameLessPadded`); this
is a lexicographic order for any number of digits that is large enough, hence
`NameOrder`. It follows that a non-empty finite set of names has a last one
(`LastByNameExists`), which is what `nextOutdatedPeer` and `removeMember` pick.

*Volumes.* `FinalizerConfirmed` is not inductive. A new member could take the
name of a peer that has the finalizer; it cannot, because names are chosen among
those the cache does not show and a peer with the finalizer is always in the
cache (`FinalizerCached`). That the cluster which did not list the peer goes on
existing needs that its last member is never removed. For the data, the argument
goes through what is on the volumes: data that can be resumed is that of a
member, or of a member to be while its cluster has not formed (`DataOfMember`,
with `InitialMembersAccountedFor` for a process that starts late); a volume that
is being deleted is useless to some cluster in operation (`DeletedDataUnused`);
and a pod that starts on a blank volume has never been scheduled, so that volume
is not being deleted (`ScheduledPodHasData`). With one cluster, the useless
volume is useless to the cluster it belongs to.

`MemberKeepsData` is conditional on `OneEtcdCluster` because the code does not
guarantee that (`split_brain`): with two clusters behind one Service a peer may
be surplus in one and a member of the other.

*Data.* That each member keeps what it has does not say that some member has it: the
one that is removed might be the only one with data. But the call is answered by a
cluster with a majority that runs, of which one is another member as soon as there are
two (`QuorumBeside`), and the last member is not removed. A cluster forms of processes
that have its data, and otherwise members only gain volumes (`DataKept`).

*Peers.* What any step may do to the peer, the ReplicaSet, the volume of a name and to
the membership is classified once, for every action (`PeerStep`, `ReplicaSetStep`,
`VolumeStep`, `EtcdStep`, with the lemmas `NextPeerStep` and so on); the invariants are
then proved from these few cases and not action by action. `PeerInv` is inductive
together with `IndInv`: a peer is created only under a name that is free in the cache,
so the peer the cache shows has no successor yet; a finalizer or deletion mark seen in
the cache is still there; and a ReplicaSet made of a cached peer that has gone is an
orphan from the start.

*Members that join.* Between the creation of a peer for a new member and its start, the
membership must not change. It does not, because reconcile changes it only when every
member has started, and a new peer's name is in no cluster's list of started members.
A peer left from an earlier member of the name would break this; `JoinersAreMembers`
says that there is none: a name that is free in the cache has no peer that joins, unless
it is that of a member.

*Leftover data.* A removed member leaves a volume with data that etcd refuses. Its peer
is surplus, so it gets the finalizer before it is deleted, and the finalizer goes only
when the volume is marked as deleted (`TombstoneHasPeer`). That needs the peer to be
there when its member is removed, `RemovedWithPeer`, which an upgrade can break: it
deletes a peer whose member stays. When the version is edited at most once it does not,
however often the number of replicas is edited meanwhile and whatever is lost
(`OneUpgrade`, a condition on the behaviour and not on the bounds): a peer that the cache still shows after it has gone reports an older version
than the one wanted (`GoneOutdated`, `TwoVersions`), so it counts as outdated and
reconcile does not come to scaling. `leftover_volume` shows that the condition is needed.

*One cluster.* Data comes from the flags of a blank peer or from a cluster that answers,
and a cluster forms of processes that have its data; if all blank peers are to start
cluster `c`, no other forms (`OneOrigin`). The condition `BlankPeersFor(r)` is on what
the controller does; that nobody scales the cluster is one way to meet it.
`split_brain` shows what happens otherwise.

*Upgrades.* The controller decides by cached peers and cached reports. Without faults
and with one edit, the peers are those of the one cluster and nothing of theirs is
deleted (`Sized`), two versions are about (`TwoVersions`), and what runs the new one
goes on running it and reporting it (`NewVersionStays`): no peer of that version is
deleted, no ReplicaSet of it is collected, and no late status patch undoes the report.
So a report of the new version in the cache is still true. An edit of the number of
replicas leaves the first version the only one, and nothing to upgrade.

For the quorum, `OneDownAtATime` says that while one member is down, or about to go
because its peer is deleted, no other is, and all that do not sort before it run the
new version. The next peer is deleted only when those have reported, so by then the
one before it is up. One of three or more members leaves a majority.

*Settled clusters.* Each guard of `reconcile` and of the peer controller is false in a
settled state: peers, members and replicas have the same number, nothing is surplus,
outdated or unnamed, and the status that would be patched is the one there is. The
only etcd cluster with a member that runs is the one that is settled, so it is the
one that answers, whatever other data was about before.

*Refinement.* With one cluster, the one that was listed is the one that is
changed, and past the guards of `reconcile` all its members have names. Forming a
cluster maps to `bootstrap`, publishing a name to `start`, `MembersAPI.Add` to
`addMember`, `MembersAPI.Remove` to `dropMember`; every other step stutters.

*Schedules.* The controller acts on a version that may be many writes old, so the
invariant is about all versions under way: what the informer has yet to see ends
with what the API server has (`WatchEndsAtSchedule`), and the marks on any version
of a UID are still on the schedule of that UID (`VersionsPrecede`). Hence a
finalizer seen in the cache is saved, and a deletion seen in the cache has happened,
which gives `EntryNeedsFinalizer` and `LiveStaysScheduled`. UIDs that have not been
given out have no entry (`EntriesOfMadeUIDs`), so a new schedule starts without one.

*Backups.* Success travels from the bucket to the phase through the pod, the cache
and the pending Action. `SuccessIsStored` says at each stage that the snapshot is
stored, which stays so because nothing removes one. A pod succeeds only on the
answer to its own call (`CallOfRunningPod`: the call an agent waits for is of the
pod that runs now, not of one before it). For `PhaseAdvances`, `CacheNearPhase`
bounds how far the cache lags: a backup that has ended was seen as BackingUp, so a
pending patch to BackingUp means that it has not ended.

*The promise of a backup.* A patch is the only step that changes the phase of a backup
that is there (`PatchKeepsPromise`). In the first use of a name it is of this backup, and then
`CacheNearPhase` and `SuccessIsStored` give the guards of `start`, `fail` and `complete`.
Creation maps to `make`, collection to `remove`, `storeObject` to `store`, and all that
happens to caches, pods, ServiceAccounts and calls to no step.

*Restores.* Claims and clusters are not deleted, so what the cache shows of them is
still so (`ClaimsStand`), and whoever runs an agent has all claims. Pods are deleted,
so what the cache shows of them need not be so; while no pod is lost and the restore
is the first of its name, only the restore's own deletion removes its pods
(`SuccessStands`). With `AgentsWrite` (who has succeeded leaves its snapshot and does
not write any more) that gives `RestoredWhole`. `EndIsFinal` follows from the
resource version that the Update carries, and from Reconcile never acting on a
restore it has read in an end state (`DecidedInPhase`).

*The promise of a restore.* The steps that show are the user's, the creation of claims
and of the cluster, the Update of the phase, and the two writes of an agent. A write is
to a volume claimed for the agent's restore, and while a restore is sound none happens
once it is done: that restore has all claims (`SoundIsWhole`), so whoever runs is an
agent of it, and all of those have succeeded. A pod that is lost is `loseTrack`; but
for that and for the user, no step changes which restores are sound (`SoundKept`).

*What Reconcile decides.* `planned` and `isIdle` translate chains of early returns into
conditions of their own. `ReconcileDecides` says that the translation has no gap and no
overlap: for any content of the caches one path is taken and one only. For restores
that needs a first claim and a first pod among any number of them (`FirstPeer`).

Only model-checked: liveness (`Converges`, `BackupsHappen`, `DeletionCompletes`,
`BackupEnds`, `RestoreEnds`), because fairness and ENABLED are beyond the prover.
Every invariant and action property of the passing runs is proved, under the conditions
that the theorems state, and so are the three refinements. The library's induction
theorems cannot be used, since they take an operator as a parameter; where induction
over the naturals is needed it is done on a set, from the well-foundedness of the
naturals (`AllNumbers`, `LeastNumber`).

## What the model leaves out

- A reconciliation is one step. Its reads may already be stale (the caches and
  the lost List), but nothing happens between its List and its writes. For the
  peer controller that means that a late status patch is not modelled.
- PVCs and ReplicaSets are read live, not from the cache.
- The status of peers is cached with the peers; `status.clusterVersion` of the
  cluster, events and logging are left out.
- Deletion and recreation of the EtcdCluster itself. Specs are valid, so field
  validation does not come into play, nor defaulting, which fills fields of claims
  that no controller looks at.
- In `EtcdBackupSchedule` a reconciliation is one step, with at most one Update and
  memory that only it and cron use. `fire` is one step too; of the EtcdBackup it
  creates only the schedule it is for is kept.
- What snapshots contain, and that an object in the bucket may be overwritten
  between the downloads of two restore agents. Download and the restore into scratch
  space are part of `beginCopy`, since nothing else sees them.
- The object URL template is taken to have the UID in it, as its documentation
  recommends.
- A restore whose cluster template names no pod resources makes `podForRestore`
  dereference nil (`etcdrestore_controller.go:408`) and the operator crash; restores
  in the model name them.
- The cluster that a restore creates is not run: `EtcdRestore` ends where
  `EtcdOperator` begins.
- Kubernetes events, flags, leader election and generated code.
- etcd lets a blank member with state `new` start whether or not a cluster of
  the same ID already runs; real etcd refuses in some of these cases, so the model
  has more behaviours. etcd answers the member list from any member that serves,
  without a quorum, as the v2 API the operator uses does.

## Plan

1. The peer controller in detail: PVC and ReplicaSet caches of their own, the
   status patch as a separate step; refinement to `EtcdPeerController`.
2. The composition of `EtcdRestore` with `EtcdOperator` (a cluster that starts on
   restored data), and of the two with a bucket that backups write to.
3. Deletion and recreation of an EtcdCluster over its old volumes; field
   validation and defaulting as operators.
4. An abstract specification of a schedule, for which the finalizer and the entry
   that comes back after a clean-up (`schedule_leak`) would have to be settled first.
