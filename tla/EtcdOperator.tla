---------------------------- MODULE EtcdOperator ----------------------------
(***************************************************************************)
(* The two controllers of an EtcdCluster composed with Kubernetes, etcd, an *)
(* administrator and faults.                                                *)
(***************************************************************************)
EXTENDS EtcdClusterController, EtcdPeerController

ReconcileAnyPeer == \E p \in Ordinals : ReconcilePeer(p)

Next ==
  \/ ReconcileCluster \/ ReconcileAnyPeer
  \/ syncSpec \/ syncPeers \/ Infrastructure
  \/ ValidateUpdate \/ \E p \in Ordinals : crash(p)

Spec == Init /\ [][Next]_vars

\* Both controllers requeue every object after ten seconds; the informers keep
\* up, and Kubernetes and etcd go on with what they have begun.  Nothing is
\* assumed of the administrator or of faults.
Fairness ==
  /\ WF_vars(ReconcileCluster) /\ WF_vars(ReconcileAnyPeer)
  /\ WF_vars(syncSpec) /\ WF_vars(syncPeers) /\ WF_vars(Infrastructure)

FairSpec == Spec /\ Fairness

\* The same system met later: a cluster that has bootstrapped and settled.
Established ==
  /\ spec \in [replicas : InitReplicas, version : {InitVersion}]
  /\ cachedSpec = spec /\ service = TRUE
  /\ edits = MaxEdits /\ faults = MaxFaults
  /\ LET c == expectedPeerNamesForCluster(spec.replicas)
         peer == [version |-> InitVersion, state |-> "New", initial |-> c,
                  finalizer |-> FALSE, deleting |-> FALSE, serverVersion |-> InitVersion]
     IN  /\ peers = [p \in Ordinals |-> IF p \in c THEN peer ELSE None]
         /\ cachedPeers = peers
         /\ pvc = [p \in Ordinals |-> IF p \in c
                     THEN [deleting |-> FALSE, data |-> c, tombstone |-> FALSE] ELSE None]
         /\ rs = [p \in Ordinals |-> IF p \in c
                    THEN [orphan |-> FALSE, version |-> InitVersion, state |-> "New",
                          initial |-> c, pod |-> "running"] ELSE None]
         /\ etcd = [d \in ClusterIds |-> IF d = c
                      THEN [members |-> c, named |-> c, removed |-> {}]
                      ELSE [members |-> {}, named |-> {}, removed |-> {}]]
         /\ status = [replicas |-> spec.replicas, members |-> c]

EstablishedSpec == Established /\ [][Next]_vars
FairEstablishedSpec == EstablishedSpec /\ Fairness
-----------------------------------------------------------------------------
hasFinalizer(peer) == peer # None /\ peer.finalizer

\* A volume that etcd can resume cluster c from.
holdsData(p, c) == pvc[p] # None /\ pvc[p].data = c /\ ~pvc[p].tombstone

\* The peer controller deletes the volume of a peer that has the PVC cleanup
\* finalizer.  In the API server and in the cache alike, only a peer that a
\* cluster in operation does not list ever has it: not one that is replaced in an
\* upgrade, and not one whose name has gone to a new member.
FinalizerConfirmed ==
  \A p \in Ordinals :
    hasFinalizer(peers[p]) \/ hasFinalizer(cachedPeers[p])
      => \E c \in ClusterIds : Formed(c) /\ p \notin members(c)

\* The bootstrap peers of an EtcdCluster form one etcd cluster, and the blank
\* peers that reconcile creates while it cannot reach etcd never form another:
\* "the cluster rejects the peer".
OneEtcdCluster == \A c, d \in ClusterIds : Formed(c) /\ Formed(d) => c = d

\* What makes it so: the blank peers are all created for the same number of replicas.
BlankPeersFor(r) ==
  [][\A p \in Ordinals :
       peers[p] = None /\ peers'[p] # None /\ peers'[p].state = "New"
         => peers'[p].initial = expectedPeerNamesForCluster(r)]_vars

\* Its inductive form.  Every blank peer, and the ReplicaSet made of it, is to start
\* cluster c; no volume has data of another cluster, and no other has formed.
OneOrigin(c) ==
  /\ \A p \in Ordinals : peers[p] # None /\ peers[p].state = "New" => peers[p].initial = c
  /\ \A p \in Ordinals :
       cachedPeers[p] # None /\ cachedPeers[p].state = "New" => cachedPeers[p].initial = c
  /\ \A p \in Ordinals : rs[p] # None /\ rs[p].state = "New" => rs[p].initial = c
  /\ \A p \in Ordinals : pvc[p] # None => pvc[p].data \in {{}, c}
  /\ \A d \in ClusterIds : Formed(d) => d = c

\* The parts of an inductive invariant that implies FinalizerConfirmed and
\* MemberKeepsData.  Confirmed: the peer controller may give up the volume of p.
Confirmed(p) == \E c \in ClusterIds : Formed(c) /\ p \notin members(c)

\* Only members have names.
NamesAreMembers == \A c \in ClusterIds : etcd[c].named \subseteq members(c)

\* A peer with the finalizer is in the cache, so its name is not free.
FinalizerCached ==
  \A p \in Ordinals :
    hasFinalizer(peers[p]) \/ hasFinalizer(cachedPeers[p])
      => cachedPeers[p] # None /\ Confirmed(p)

\* The members a cluster was started with are members until they are removed.
InitialMembersAccountedFor ==
  \A c \in ClusterIds : Formed(c) => c \subseteq members(c) \cup etcd[c].removed

\* A pod that has been scheduled has started etcd on its volume.
ScheduledPodHasData ==
  \A p \in Ordinals :
    rs[p] # None /\ rs[p].pod # "pending" => pvc[p] # None /\ pvc[p].data # {}

\* Data that etcd can resume from is that of a member, present or future.
DataOfMember ==
  \A p \in Ordinals, c \in ClusterIds :
    holdsData(p, c) => p \in (IF Formed(c) THEN members(c) ELSE c)

\* A volume is deleted when a cluster in operation has no use for it.
DeletedDataUnused ==
  \A p \in Ordinals :
    pvc[p] # None /\ pvc[p].deleting
      => \E c \in ClusterIds : Formed(c) /\ ~(p \in members(c) /\ holdsData(p, c))

IndInv ==
  /\ TypeOK /\ NamesAreMembers /\ FinalizerCached /\ InitialMembersAccountedFor
  /\ ScheduledPodHasData /\ DataOfMember /\ DeletedDataUnused

\* While there is one etcd cluster, whatever the controllers delete and recreate,
\* no current member loses the volume with its data.
MemberKeepsData ==
  [][\A c \in ClusterIds : \A p \in members(c) :
       OneEtcdCluster /\ holdsData(p, c) => holdsData(p, c)' \/ p \notin members(c)']_vars

\* So what a cluster has stored is never all lost: a member is removed only by a
\* majority that runs, and some other member has the data.
DataSurvives ==
  OneEtcdCluster =>
    \A c \in ClusterIds : Formed(c) => \E p \in members(c) : holdsData(p, c)

sameConfig(a, b) == a.version = b.version /\ a.state = b.state /\ a.initial = b.initial

\* The parts of an inductive invariant about a name that several peers have in
\* turn.  A peer that the cache shows is the one in the API server, if any is there,
\* and the marks it has in the cache are still on it.
CachedPeerCurrent ==
  \A p \in Ordinals :
    cachedPeers[p] # None /\ peers[p] # None =>
      /\ sameConfig(cachedPeers[p], peers[p])
      /\ cachedPeers[p].finalizer => peers[p].finalizer
      /\ cachedPeers[p].deleting => peers[p].deleting

\* A peer that is being deleted waits for its volume to be deleted.
DeletionAwaitsVolume ==
  \A p \in Ordinals :
    /\ peers[p] # None /\ peers[p].deleting => peers[p].finalizer
    /\ cachedPeers[p] # None /\ cachedPeers[p].deleting => cachedPeers[p].finalizer

\* A ReplicaSet that the garbage collector will leave alone runs the peer there is,
\* though it was made of a cached one.
ReplicaSetOfPeer ==
  \A p \in Ordinals :
    rs[p] # None /\ ~rs[p].orphan => peers[p] # None /\ sameConfig(rs[p], peers[p])

PeerInv == CachedPeerCurrent /\ DeletionAwaitsVolume /\ ReplicaSetOfPeer

joins(obj) == obj # None /\ obj.state = "Existing"

\* Only a member is given a peer that joins, and when the member is removed the
\* cache has that peer: a name that is free in the cache has none.
JoinersAreMembers ==
  \A p \in Ordinals :
    joins(peers[p]) =>
      /\ \E c \in ClusterIds : Formed(c)
      /\ OneEtcdCluster /\ cachedPeers[p] = None => \E c \in ClusterIds : p \in members(c)

\* A peer created for a member that has yet to join, and the ReplicaSet that runs
\* it, are configured with the membership they will find; etcd refuses to join with
\* any other.
JoinConfigMatches ==
  \A c \in ClusterIds : \A p \in members(c) \ etcd[c].named :
    OneEtcdCluster =>
      /\ joins(peers[p]) => peers[p].initial = members(c)
      /\ joins(rs[p]) /\ ~rs[p].orphan => rs[p].initial = members(c)

\* The inductive form of it.
JoinInv == JoinersAreMembers /\ JoinConfigMatches

hasTombstone(p) == pvc[p] # None /\ pvc[p].tombstone

\* A new member is given the name of a removed one only when the volume that the
\* removed one left is on its way out: etcd refuses to start on that data.
NoLeftoverData ==
  \A c \in ClusterIds : \A p \in members(c) :
    OneEtcdCluster /\ hasTombstone(p) => pvc[p].deleting

\* What makes it inductive: as long as nobody has deleted the volume of a removed
\* member its peer is there to have it deleted, and its name is not free.
TombstoneHasPeer ==
  \A p \in Ordinals :
    hasTombstone(p) =>
      /\ \E c \in ClusterIds : Formed(c)
      /\ OneEtcdCluster /\ ~pvc[p].deleting => peers[p] # None /\ cachedPeers[p] # None

\* A member is removed only while it has a peer.  That is what an upgrade that is
\* taken back can break: the peer is gone, and the cache still shows it.
RemovedWithPeer ==
  [][OneEtcdCluster => \A c \in ClusterIds : \A p \in members(c) \ members(c)' : peers[p] # None]_vars

\* Each etcd cluster is only ever reconfigured by the discipline of Membership.
Abstract == INSTANCE Membership WITH
  Clusters <- ClusterIds, Names <- Ordinals,
  listed <- [c \in ClusterIds |-> etcd[c].members],
  named <- [c \in ClusterIds |-> etcd[c].named]

FollowsMembership == Abstract!Spec

deletedForUpgrade(p) == peers[p] # None /\ ~peers[p].finalizer /\ peers'[p] = None

\* A peer goes without leaving its volume to be deleted only to be upgraded, and the
\* upgrade takes only peers of another version than the one wanted: it does not go
\* round replacing what it has replaced, whatever the cache shows.
OnlyOutdatedReplaced ==
  [][\A p \in Ordinals : deletedForUpgrade(p) => peers[p].version # cachedSpec.version]_vars

\* The upgrade goes in reverse name order: a peer is deleted only when every peer
\* that does not sort before it runs, and reports, the wanted version.  The cache the
\* order is decided by may be stale; without faults, and with one edit, no harm is done.
UpgradeWaits ==
  [][\A p, q \in Ordinals :
       deletedForUpgrade(p) /\ q # p /\ ~NameLess(q, p) /\ peers[q] # None
         => peers[q].serverVersion = spec.version]_vars

\* The parts of an inductive invariant that implies UpgradeWaits when there are no
\* faults and at most one edit.  Sized: as long as that edit is not one of the number
\* of replicas, the peers are those of the one cluster, and all are there to stay.
Sized ==
  LET c == expectedPeerNamesForCluster(spec.replicas)
  IN  /\ cachedSpec.replicas = spec.replicas /\ OneOrigin(c)
      /\ Formed(c) => members(c) = c
      /\ \A p \in Ordinals : peers[p] # None \/ cachedPeers[p] # None => p \in c
      /\ \A p \in Ordinals : ~hasFinalizer(peers[p]) /\ ~hasFinalizer(cachedPeers[p])
      /\ \A p \in Ordinals : pvc[p] # None => ~pvc[p].deleting /\ ~pvc[p].tombstone
      /\ \A p \in Ordinals : rs[p] # None => rs[p].pod # "exited"

\* Two versions are about: the first, and the one the controller wants.
TwoVersions ==
  LET known == {InitVersion, cachedSpec.version}
  IN  /\ cachedSpec.version \in {InitVersion, spec.version}
      /\ \A p \in Ordinals : peers[p] # None => peers[p].version \in known
      /\ \A p \in Ordinals : peers[p] # None => peers[p].serverVersion \in known \cup {None}
      /\ \A p \in Ordinals : cachedPeers[p] # None => cachedPeers[p].version \in known
      /\ \A p \in Ordinals :
           cachedPeers[p] # None => cachedPeers[p].serverVersion \in known \cup {None}
      /\ \A p \in Ordinals : rs[p] # None => rs[p].version \in known

\* A peer that only the cache still shows has given way to the new version.
GoneOutdated ==
  \A p \in Ordinals :
    cachedPeers[p] # None /\ ~cachedPeers[p].deleting /\ peers[p] = None
      => cachedSpec.version \notin {InitVersion, cachedPeers[p].serverVersion}

\* What runs the new version goes on running it, and says so.
NewVersionStays ==
  cachedSpec.version # InitVersion =>
    \A p \in Ordinals :
      /\ cachedPeers[p] # None /\ cachedPeers[p].version = cachedSpec.version => peers[p] # None
      /\ rs[p] # None /\ rs[p].version = cachedSpec.version => ~rs[p].orphan
      /\ \/ peers[p] # None /\ peers[p].serverVersion = cachedSpec.version
         \/ cachedPeers[p] # None /\ cachedPeers[p].serverVersion = cachedSpec.version
         => serverVersion(p) = cachedSpec.version
      /\ cachedPeers[p] # None /\ cachedPeers[p].serverVersion = cachedSpec.version
           /\ peers[p] # None => peers[p].serverVersion = cachedSpec.version

\* The pod of p is about to go, or there is data that no pod runs on.
isDown(p) ==
  \/ rs[p] # None /\ rs[p].orphan
  \/ peers[p] = None /\ cachedPeers[p] # None
  \/ pvc[p] # None /\ pvc[p].data # {} /\ (rs[p] = None \/ rs[p].pod # "running")

\* Only the upgrade takes a member down, one at a time, and it has then been through
\* those that do not sort before it.
OneDownAtATime ==
  \A p \in expectedPeerNamesForCluster(spec.replicas) :
    isDown(p) =>
      /\ cachedSpec.version # InitVersion
      /\ \A q \in expectedPeerNamesForCluster(spec.replicas) \ {p} :
           ~isDown(q) /\ (NameLess(q, p) \/ serverVersion(q) = cachedSpec.version)

\* The inductive form of UpgradeWaits and UpgradeKeepsQuorum.
UpgradeInv ==
  /\ (edits > 0 => spec.version = InitVersion) /\ TwoVersions /\ NewVersionStays
  /\ (Sized /\ OneDownAtATime) \/ (edits = 0 /\ spec.version = InitVersion)

\* An upgrade does not cost a cluster of three or more its quorum, once all members
\* have started.
UpgradeKeepsQuorum ==
  spec.version # InitVersion =>
    \A c \in ClusterIds :
      Cardinality(members(c)) >= 3 /\ (\A p \in members(c) : holdsData(p, c)) => HasQuorum(c)

\* The wanted number of members, each with a peer whose one pod runs the wanted
\* version, and reports it; nothing that is being deleted or left of others; and a
\* cache and a status that say so.
Settled ==
  \E c \in ClusterIds :
    /\ service /\ cachedSpec = spec /\ cachedPeers = peers
    /\ members(c) = etcd[c].named /\ Cardinality(members(c)) = spec.replicas
    /\ \A p \in members(c) :
         /\ peers[p] # None /\ ~peers[p].deleting /\ peers[p].serverVersion = spec.version
         /\ Runs(p, c) /\ rs[p].version = spec.version /\ ~rs[p].orphan /\ ~pvc[p].deleting
    /\ \A p \in Ordinals \ members(c) : peers[p] = None /\ rs[p] = None /\ pvc[p] = None
    /\ status = [replicas |-> spec.replicas, members |-> members(c)]

\* What is settled is disturbed only from outside: the controllers find nothing to do.
SettledStays == [][Settled => edits' # edits \/ faults' # faults]_vars

\* Once the administrator stops editing, reconcile reaches what spec asks for and
\* stays there: no peer, member, finalizer or volume waits on another forever.
Converges == <>[]Settled
=============================================================================
