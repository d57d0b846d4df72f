------------------------------ MODULE Platform ------------------------------
(***************************************************************************)
(* What the controllers of one EtcdCluster act on: the objects in the       *)
(* Kubernetes API server, the informer cache the controllers read them      *)
(* from, and the etcd processes.  Kubernetes and etcd are not part of this  *)
(* repository; they are modelled from how the controllers use them.  Peers, *)
(* ReplicaSets, PVCs and members share a name, represented by its ordinal.  *)
(***************************************************************************)
EXTENDS PeerNames

CONSTANTS Versions,        \* etcd versions an administrator may ask for
          InitVersion,     \* the version the cluster is created with
          InitReplicas,    \* numbers of replicas it may be created with
          TargetReplicas,  \* numbers of replicas it may later be scaled to
          MaxOrdinal,      \* bound: no peer has a larger ordinal
          MaxEdits,        \* bound: edits of spec by the administrator
          MaxFaults,       \* bound: lost calls and pod crashes
          None             \* an absent object, an unknown version

Ordinals == 0..MaxOrdinal

\* etcd derives the identity of a cluster from the initial cluster its first
\* members were started with.
ClusterIds == (SUBSET Ordinals) \ {{}}

ASSUME ConstantsAssumption ==
  /\ MaxOrdinal \in Nat /\ MaxEdits \in Nat /\ MaxFaults \in Nat
  /\ InitVersion \in Versions /\ None \notin Versions
  /\ InitReplicas \subseteq 1..(MaxOrdinal + 1)
  /\ TargetReplicas \subseteq 1..(MaxOrdinal + 1)

VARIABLES
  spec,         \* EtcdCluster.Spec: the two fields ValidateUpdate lets change
  status,       \* EtcdCluster.Status
  service,      \* whether the headless Service exists
  peers,        \* EtcdPeers in the API server
  cachedSpec,   \* EtcdCluster.Spec in the informer cache
  cachedPeers,  \* EtcdPeers in the informer cache
  pvc,          \* PersistentVolumeClaims and what etcd wrote to them
  rs,           \* ReplicaSets, each with its one pod
  etcd,         \* the membership of each etcd cluster; no members: not formed
  edits, faults \* what is left of the bounds MaxEdits and MaxFaults

clusterVars == <<spec, status, service>>
cacheVars == <<cachedSpec, cachedPeers>>
podVars == <<pvc, rs>>
boundVars == <<edits, faults>>
vars == <<clusterVars, peers, cacheVars, podVars, etcd, boundVars>>

Spec_ == [replicas : InitReplicas \cup TargetReplicas, version : Versions]
Status == [replicas : Nat, members : SUBSET Ordinals]
Peer == [version : Versions,
         state : {"New", "Existing"}, initial : SUBSET Ordinals,
         finalizer : BOOLEAN, deleting : BOOLEAN,
         serverVersion : Versions \cup {None}]
\* data is the cluster whose data etcd wrote to the volume, {} on a blank one;
\* tombstone marks the data of a member that its cluster has removed.
Pvc == [deleting : BOOLEAN, data : SUBSET Ordinals, tombstone : BOOLEAN]
ReplicaSet == [orphan : BOOLEAN, version : Versions,
               state : {"New", "Existing"}, initial : SUBSET Ordinals,
               pod : {"pending", "running", "exited"}]
Membership == [members : SUBSET Ordinals, named : SUBSET Ordinals,
               removed : SUBSET Ordinals]

\* No object is the absent one.
ASSUME NoneAssumption == None \notin Peer /\ None \notin Pvc /\ None \notin ReplicaSet

\* In place of a cluster that answers: none does.
NoContact == {}

\* Type correctness of the API objects, the cache and the etcd clusters.
TypeOK ==
  /\ spec \in Spec_ /\ cachedSpec \in Spec_
  /\ status \in Status
  /\ service \in BOOLEAN
  /\ peers \in [Ordinals -> Peer \cup {None}]
  /\ cachedPeers \in [Ordinals -> Peer \cup {None}]
  /\ pvc \in [Ordinals -> Pvc \cup {None}]
  /\ rs \in [Ordinals -> ReplicaSet \cup {None}]
  /\ etcd \in [ClusterIds -> Membership]
  /\ edits \in 0..MaxEdits /\ faults \in 0..MaxFaults

Init ==
  /\ spec \in [replicas : InitReplicas, version : {InitVersion}]
  /\ status = [replicas |-> 0, members |-> {}]
  /\ service = FALSE
  /\ peers = [p \in Ordinals |-> None]
  /\ cachedSpec = spec /\ cachedPeers = peers
  /\ pvc = [p \in Ordinals |-> None]
  /\ rs = [p \in Ordinals |-> None]
  /\ etcd = [c \in ClusterIds |-> [members |-> {}, named |-> {}, removed |-> {}]]
  /\ edits = MaxEdits /\ faults = MaxFaults
-----------------------------------------------------------------------------
(* The API server. *)

\* r.Create of an EtcdPeer.  A name that is taken makes the call fail.
createPeer(p, peer) ==
  peers' = [peers EXCEPT ![p] = IF @ = None THEN peer ELSE @]

orphanReplicaSet(p) ==
  rs' = [rs EXCEPT ![p] = IF @ = None THEN @ ELSE [@ EXCEPT !.orphan = TRUE]]

\* r.Delete of the EtcdPeer of that name.  A finalizer keeps the object, marked
\* as deleting; without one it is gone, and its ReplicaSet is left an orphan.
deletePeer(p) ==
  IF peers[p] # None /\ peers[p].finalizer
    THEN peers' = [peers EXCEPT ![p].deleting = TRUE] /\ UNCHANGED rs
    ELSE /\ peers' = [peers EXCEPT ![p] = None]
         /\ orphanReplicaSet(p)

\* A patch of the EtcdPeer of that name that leaves it as patched, without its
\* finalizer.  An object that is being deleted goes when its last finalizer does.
removeFinalizer(p, patched) ==
  IF peers[p] # None /\ ~peers[p].deleting
    THEN peers' = [peers EXCEPT ![p] = [patched EXCEPT !.finalizer = FALSE]] /\ UNCHANGED rs
    ELSE peers' = [peers EXCEPT ![p] = None] /\ orphanReplicaSet(p)

\* The administrator edits the EtcdCluster; the webhook lets only the number of
\* replicas and the version change.
ValidateUpdate ==
  /\ edits > 0 /\ edits' = edits - 1
  /\ \/ \E r \in TargetReplicas \ {spec.replicas} : spec' = [spec EXCEPT !.replicas = r]
     \/ \E v \in Versions \ {spec.version} : spec' = [spec EXCEPT !.version = v]
  /\ UNCHANGED <<status, service, peers, cacheVars, podVars, etcd, faults>>

\* Watch events bring the cached objects of one kind up to date.
syncSpec ==
  /\ cachedSpec' = spec
  /\ UNCHANGED <<clusterVars, peers, cachedPeers, podVars, etcd, boundVars>>

syncPeers ==
  /\ cachedPeers' = peers
  /\ UNCHANGED <<clusterVars, peers, cachedSpec, podVars, etcd, boundVars>>

\* The garbage collector deletes a ReplicaSet and its pod once the owner is gone.
collectGarbage(p) ==
  /\ rs[p] # None /\ rs[p].orphan
  /\ rs' = [rs EXCEPT ![p] = None]
  /\ UNCHANGED <<clusterVars, peers, cacheVars, pvc, etcd, boundVars>>

\* A deleted PVC disappears when no scheduled pod uses it.
releasePvc(p) ==
  /\ pvc[p] # None /\ pvc[p].deleting
  /\ rs[p] # None => rs[p].pod = "pending"
  /\ pvc' = [pvc EXCEPT ![p] = None]
  /\ UNCHANGED <<clusterVars, peers, cacheVars, rs, etcd, boundVars>>
-----------------------------------------------------------------------------
(* etcd. *)

Formed(c) == etcd[c].members # {}

\* The process of p runs on data of cluster c.
Runs(p, c) ==
  /\ rs[p] # None /\ rs[p].pod = "running"
  /\ pvc[p] # None /\ pvc[p].data = c /\ ~pvc[p].tombstone

Majority(c, S) == 2 * Cardinality({p \in S : Runs(p, c)}) > Cardinality(S)

HasQuorum(c) == Formed(c) /\ Majority(c, etcd[c].members)

\* The clusters that answer through the Service: a member serves clients from
\* when it has joined and published its name.
Serving == {c \in ClusterIds : \E p \in etcd[c].named : Runs(p, c)}

\* A pod starts etcd on a volume.  An existing data directory overrides the
\* bootstrap flags.
startPod(p, data) ==
  /\ rs[p].pod # "running"
  /\ rs[p].pod = "pending" => ~pvc[p].deleting
  /\ rs' = [rs EXCEPT ![p].pod = "running"]
  /\ pvc' = [pvc EXCEPT ![p].data = data]
  /\ UNCHANGED <<clusterVars, peers, cacheVars, etcd, boundVars>>

\* --initial-cluster-state=new on a blank volume starts the cluster the flags
\* name, unless that cluster has removed this member.
startNew(p) ==
  /\ rs[p] # None /\ rs[p].state = "New" /\ p \in rs[p].initial
  /\ pvc[p] # None /\ pvc[p].data = {}
  /\ p \notin etcd[rs[p].initial].removed
  /\ startPod(p, rs[p].initial)

\* --initial-cluster-state=existing on a blank volume asks the running members
\* for the membership, and fails unless it is the one the flags name.
startExisting(p) ==
  /\ rs[p] # None /\ rs[p].state = "Existing"
  /\ pvc[p] # None /\ pvc[p].data = {}
  /\ \E c \in Serving :
       /\ p \in etcd[c].members /\ etcd[c].members = rs[p].initial
       /\ startPod(p, c)

\* etcd resumes from the data it finds, unless its cluster has removed it.
restart(p) ==
  /\ rs[p] # None /\ pvc[p] # None
  /\ pvc[p].data # {} /\ ~pvc[p].tombstone
  /\ startPod(p, pvc[p].data)

\* Enough processes started with the same initial cluster elect a leader.  The
\* others are listed under the name the flags gave them, or under none.
formCluster(c) ==
  /\ ~Formed(c) /\ Majority(c, c)
  /\ \E listed \in {c, {p \in c : Runs(p, c)}} :
       etcd' = [etcd EXCEPT ![c] = [members |-> c, named |-> listed, removed |-> {}]]
  /\ UNCHANGED <<clusterVars, peers, cacheVars, podVars, boundVars>>

\* A member that has joined publishes its name to the cluster.
publish(p, c) ==
  /\ p \in etcd[c].members \ etcd[c].named /\ Runs(p, c) /\ HasQuorum(c)
  /\ etcd' = [etcd EXCEPT ![c].named = @ \cup {p}]
  /\ UNCHANGED <<clusterVars, peers, cacheVars, podVars, boundVars>>

\* An etcd process or its node fails.
crash(p) ==
  /\ faults > 0 /\ faults' = faults - 1
  /\ rs[p] # None /\ rs[p].pod = "running"
  /\ rs' = [rs EXCEPT ![p].pod = "exited"]
  /\ UNCHANGED <<clusterVars, peers, cacheVars, pvc, etcd, edits>>

\* MembersAPI.Add: the new member has no name until its process joins.
memberAdd(c, p) ==
  etcd' = IF HasQuorum(c) /\ p \notin etcd[c].members
            THEN [etcd EXCEPT ![c].members = @ \cup {p}] ELSE etcd

\* MembersAPI.Remove: the process of the removed member stops, and its data is
\* of no more use.  The last member cannot be removed.
memberRemove(c, p) ==
  IF HasQuorum(c) /\ p \in etcd[c].members /\ etcd[c].members # {p}
    THEN /\ etcd' = [etcd EXCEPT ![c] = [members |-> @.members \ {p},
                        named |-> @.named \ {p}, removed |-> @.removed \cup {p}]]
         /\ pvc' = [pvc EXCEPT ![p] = IF @ # None /\ @.data = c
                                        THEN [@ EXCEPT !.tombstone = TRUE] ELSE @]
         /\ rs' = [rs EXCEPT ![p] = IF Runs(p, c) THEN [@ EXCEPT !.pod = "exited"] ELSE @]
    ELSE UNCHANGED <<etcd, podVars>>

\* Steps nobody outside the infrastructure decides on.
Infrastructure ==
  \/ \E p \in Ordinals : \/ collectGarbage(p) \/ releasePvc(p)
                         \/ startNew(p) \/ startExisting(p) \/ restart(p)
  \/ \E c \in ClusterIds : formCluster(c) \/ \E p \in Ordinals : publish(p, c)
=============================================================================
