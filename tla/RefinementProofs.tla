-------------------------- MODULE RefinementProofs --------------------------
(***************************************************************************)
(* The operator implements Membership: as long as there is one etcd cluster *)
(* it reconfigures that cluster by the discipline Membership states.        *)
(***************************************************************************)
EXTENDS PeerProofs

\* The instance orders names as the operator does.
LEMMA SameOrder == \A S : Abstract!LastByName(S) = LastByName(S)
  BY DEF LastByName, Abstract!LastByName, NameLess, Abstract!NameLess, Digits, Abstract!Digits,
         Pow10, Abstract!Pow10

\* A step that does not change the members or their names is no step of Membership.
LEMMA EtcdStutters ==
  ASSUME UNCHANGED etcd PROVE UNCHANGED Abstract!memberVars
  BY DEF Abstract!memberVars

\* The first members elect a leader: a cluster is bootstrapped.
LEMMA FormBootstraps ==
  ASSUME TypeOK, NEW c \in ClusterIds, formCluster(c) PROVE Abstract!bootstrap(c)
<1>1. PICK S \in SUBSET c :
        etcd' = [etcd EXCEPT ![c] = [members |-> c, named |-> S, removed |-> {}]]
  BY DEF formCluster
<1>2. [d \in ClusterIds |-> etcd'[d].members]
        = [[d \in ClusterIds |-> etcd[d].members] EXCEPT ![c] = c]
  BY <1>1 DEF TypeOK
<1>3. [d \in ClusterIds |-> etcd'[d].named]
        = [[d \in ClusterIds |-> etcd[d].named] EXCEPT ![c] = S]
  BY <1>1 DEF TypeOK
<1>4. etcd[c].members = {}
  BY DEF formCluster, Formed
<1> QED
  BY <1>2, <1>3, <1>4 DEF Abstract!bootstrap

\* A member that publishes its name has started.
LEMMA PublishStarts ==
  ASSUME TypeOK, NEW c \in ClusterIds, NEW p \in Ordinals, publish(p, c) PROVE Abstract!start(c)
<1>1. etcd' = [etcd EXCEPT ![c].named = @ \cup {p}] /\ p \in etcd[c].members \ etcd[c].named
  BY DEF publish
<1>2. [d \in ClusterIds |-> etcd'[d].members] = [d \in ClusterIds |-> etcd[d].members]
  BY <1>1 DEF TypeOK, Membership
<1>3. [d \in ClusterIds |-> etcd'[d].named]
        = [[d \in ClusterIds |-> etcd[d].named] EXCEPT ![c] = @ \cup {p}]
  BY <1>1 DEF TypeOK, Membership
<1> QED
  BY <1>1, <1>2, <1>3 DEF Abstract!start

\* Past the guards of reconcile every member of the cluster has started.
LEMMA CanChangeStable ==
  ASSUME NEW c \in ClusterIds, canChange(c), Formed(c) PROVE Abstract!stable(c)
  BY DEF canChange, isAllMembersStable, Abstract!stable, Formed, members

\* MembersAPI.Add announces one member of a stable cluster, or does nothing.
LEMMA AddRefines ==
  ASSUME TypeOK, NEW c \in ClusterIds, NEW p \in Ordinals, Abstract!stable(c), memberAdd(c, p)
  PROVE  Abstract!addMember(c) \/ UNCHANGED Abstract!memberVars
<1>1. CASE etcd' = etcd
  BY <1>1, EtcdStutters
<1>2. CASE p \notin etcd[c].members /\ etcd' = [etcd EXCEPT ![c].members = @ \cup {p}]
  <2>1. [d \in ClusterIds |-> etcd'[d].members]
          = [[d \in ClusterIds |-> etcd[d].members] EXCEPT ![c] = @ \cup {p}]
    BY <1>2 DEF TypeOK, Membership
  <2>2. [d \in ClusterIds |-> etcd'[d].named] = [d \in ClusterIds |-> etcd[d].named]
    BY <1>2 DEF TypeOK, Membership
  <2> QED
    BY <1>2, <2>1, <2>2 DEF Abstract!addMember
<1> QED
  BY <1>1, <1>2 DEF memberAdd

\* MembersAPI.Remove drops the last member by name of a stable cluster, or does
\* nothing.
LEMMA RemoveRefines ==
  ASSUME TypeOK, NEW c \in ClusterIds, Abstract!stable(c),
         memberRemove(c, LastByName(members(c)))
  PROVE  Abstract!dropMember(c) \/ UNCHANGED Abstract!memberVars
<1> DEFINE p == LastByName(etcd[c].members)
<1>1. CASE UNCHANGED etcd
  BY <1>1, EtcdStutters
<1>2. CASE /\ etcd[c].members # {p}
           /\ etcd' = [etcd EXCEPT ![c] = [members |-> @.members \ {p},
                          named |-> @.named \ {p}, removed |-> @.removed \cup {p}]]
  <2> HIDE DEF p
  <2>1. [d \in ClusterIds |-> etcd'[d].members]
          = [[d \in ClusterIds |-> etcd[d].members] EXCEPT ![c] = @ \ {p}]
    BY <1>2 DEF TypeOK
  <2>2. [d \in ClusterIds |-> etcd'[d].named]
          = [[d \in ClusterIds |-> etcd[d].named] EXCEPT ![c] = @ \ {p}]
    BY <1>2 DEF TypeOK
  <2>3. Abstract!LastByName(etcd[c].members) = p
    BY SameOrder DEF p
  <2> QED
    BY <1>2, <2>1, <2>2, <2>3 DEF Abstract!dropMember
<1> QED
  BY <1>1, <1>2 DEF memberRemove, members

\* A reconciliation of the cluster adds or drops one member of the one cluster.
LEMMA ReconcileClusterRefines ==
  ASSUME IndInv, OneEtcdCluster, ReconcileCluster
  PROVE  Abstract!Next \/ UNCHANGED Abstract!memberVars
<1>1. PICK c \in SUBSET Ordinals : listMembers(c) /\ reconcile(c)
  BY DEF ReconcileCluster
<1>2. TypeOK /\ (c # NoContact => c \in Serving)
  BY <1>1 DEF listMembers, IndInv
<1>3. ASSUME canScale(c) PROVE c \in Serving /\ canChange(c)
  BY <1>2, <1>3 DEF canScale, canUpgrade, canChange
<1>4. CASE addNewMember(c)
  <2> DEFINE p == nextAvailablePeerName(peersSeen)
  <2>1. p \in Ordinals /\ c \in Serving /\ canChange(c)
    BY <1>3, <1>4 DEF addNewMember
  <2>2. PICK d \in Serving : memberAdd(d, p)
    BY <1>4 DEF addNewMember
  <2> HIDE DEF p
  <2>3. d = c /\ c \in ClusterIds /\ Formed(c)
    BY <2>1, SameCluster
  <2>4. Abstract!addMember(c) \/ UNCHANGED Abstract!memberVars
    BY <1>2, <2>1, <2>2, <2>3, CanChangeStable, AddRefines
  <2> QED
    BY <2>3, <2>4 DEF Abstract!Next
<1>5. CASE removeMember(c)
  <2>1. c \in Serving /\ canChange(c)
    BY <1>3, <1>5 DEF removeMember
  <2>2. CASE UNCHANGED etcd
    BY <2>2, EtcdStutters
  <2>3. ASSUME NEW d \in Serving, memberRemove(d, LastByName(members(c)))
        PROVE  Abstract!Next \/ UNCHANGED Abstract!memberVars
    <3>1. d = c /\ c \in ClusterIds /\ Formed(c)
      BY <2>1, SameCluster
    <3>2. Abstract!dropMember(c) \/ UNCHANGED Abstract!memberVars
      BY <1>2, <2>1, <2>3, <3>1, CanChangeStable, RemoveRefines
    <3> QED
      BY <3>1, <3>2 DEF Abstract!Next
  <2> QED
    BY <1>5, <2>2, <2>3 DEF removeMember
<1>6. CASE ~addNewMember(c) /\ ~removeMember(c)
  <2>1. UNCHANGED etcd
    BY <1>1, <1>6 DEF reconcile, createService, createBootstrapPeer, createPeerForMember,
         addPvcFinalizer, deleteSurplusPeer, deleteOutdatedPeer, nothingToDo
  <2> QED
    BY <2>1, EtcdStutters
<1> QED
  BY <1>4, <1>5, <1>6

\* Every step of the system is a step of Membership or changes nothing in it.
LEMMA NextRefines ==
  ASSUME IndInv, OneEtcdCluster, [Next]_vars
  PROVE  [Abstract!Next]_Abstract!memberVars
<1>1. TypeOK
  BY DEF IndInv
<1>2. CASE ReconcileCluster
  BY <1>2, ReconcileClusterRefines
<1>3. ASSUME NEW c \in ClusterIds, formCluster(c) PROVE Abstract!Next
  BY <1>1, <1>3, FormBootstraps DEF Abstract!Next
<1>4. ASSUME NEW c \in ClusterIds, NEW p \in Ordinals, publish(p, c) PROVE Abstract!Next
  BY <1>1, <1>4, PublishStarts DEF Abstract!Next
<1>5. CASE Infrastructure
  <2>1. CASE UNCHANGED etcd
    BY <2>1, EtcdStutters
  <2> QED
    BY <1>3, <1>4, <1>5, <2>1 DEF Infrastructure, collectGarbage, releasePvc, startNew,
         startExisting, restart, startPod
<1>6. CASE ReconcileAnyPeer \/ syncSpec \/ syncPeers \/ ValidateUpdate
           \/ (\E p \in Ordinals : crash(p)) \/ UNCHANGED vars
  <2>1. UNCHANGED etcd
    BY <1>6 DEF ReconcileAnyPeer, ReconcilePeer, syncSpec, syncPeers, ValidateUpdate, crash, vars
  <2> QED
    BY <2>1, EtcdStutters
<1> QED
  BY <1>2, <1>5, <1>6 DEF Next

\* As long as there is one etcd cluster, the operator changes its membership one
\* member at a time, only when every member has started, and takes away only the
\* last member by name: it implements Membership.
THEOREM Refinement == Spec /\ []OneEtcdCluster => FollowsMembership
<1>1. Init => Abstract!Init
  BY DEF Init, Abstract!Init
<1>2. IndInv /\ OneEtcdCluster /\ [Next]_vars => [Abstract!Next]_Abstract!memberVars
  BY NextRefines
<1>3. Spec /\ []OneEtcdCluster => Abstract!Spec
  BY <1>1, <1>2, VolumeInvariant, PTL DEF Spec, Abstract!Spec
<1> QED
  BY <1>3 DEF FollowsMembership
-----------------------------------------------------------------------------
(* When there is one etcd cluster. *)

\* The blank peer that a step creates is to start cluster c.
BlankPeerStarts(c) ==
  \A p \in Ordinals :
    peers[p] = None /\ peers'[p] # None /\ peers'[p].state = "New" => peers'[p].initial = c

\* Data comes from the flags of a blank peer or from a cluster that answers, and a
\* cluster forms of processes that have its data.
LEMMA OriginKept ==
  ASSUME IndInv, PeerInv, NEW c, OneOrigin(c), [Next]_vars, BlankPeerStarts(c)
  PROVE  OneOrigin(c)'
<1>1. \A p \in Ordinals : peers'[p] # None /\ peers'[p].state = "New" => peers'[p].initial = c
  <2> SUFFICES ASSUME NEW p \in Ordinals, peers'[p] # None, peers'[p].state = "New"
               PROVE  peers'[p].initial = c
    OBVIOUS
  <2>1. CASE peers[p] = None
    BY <2>1 DEF BlankPeerStarts
  <2>2. CASE peers[p] # None
    BY <2>2, NextPeerStep DEF PeerStep, PeerKept, PeerGone, PeerCreated, sameConfig, OneOrigin
  <2> QED
    BY <2>1, <2>2
<1>2. \A p \in Ordinals :
        cachedPeers'[p] # None /\ cachedPeers'[p].state = "New" => cachedPeers'[p].initial = c
  BY NextPeerStep DEF PeerStep, OneOrigin
<1>3. \A p \in Ordinals : rs'[p] # None /\ rs'[p].state = "New" => rs'[p].initial = c
  <2> SUFFICES ASSUME NEW p \in Ordinals, rs'[p] # None, rs'[p].state = "New"
               PROVE  rs'[p].initial = c
    OBVIOUS
  <2>1. ReplicaSetStep(p)
    BY NextReplicaSetStep DEF IndInv
  <2> QED
    BY <2>1 DEF ReplicaSetStep, ReplicaSetCollected, ReplicaSetKept,
         ReplicaSetCreated, sameConfig, OneOrigin
<1>4. \A p \in Ordinals : pvc'[p] # None => pvc'[p].data \in {{}, c}
  <2> SUFFICES ASSUME NEW p \in Ordinals, pvc'[p] # None PROVE pvc'[p].data \in {{}, c}
    OBVIOUS
  <2>1. VolumeStep(p)
    BY NextVolumeStep DEF IndInv
  <2>2. \A d \in Serving : d = c
    BY ServingFormed DEF IndInv, OneOrigin
  <2> QED
    BY <2>1, <2>2 DEF VolumeStep, VolumeCreated, VolumeDeleted, VolumeStarted, VolumeRetired,
         OneOrigin
<1>5. \A d \in ClusterIds : Formed(d)' => d = c
  <2> SUFFICES ASSUME NEW d \in ClusterIds, Formed(d)' PROVE d = c
    OBVIOUS
  <2>1. CASE Formed(d)
    BY <2>1 DEF OneOrigin
  <2>2. CASE ~Formed(d)
    <3>1. Forms(d)
      BY <2>2, NextEtcdStep, ServingFormed DEF EtcdStep, Forms, Publishes, Adds, Removes, Formed,
           members, IndInv
    <3>2. PICK p \in d : Runs(p, d)
      BY <3>1 DEF Forms
    <3>3. p \in Ordinals /\ d # {}
      BY DEF ClusterIds
    <3> QED
      BY <3>2, <3>3 DEF Runs, OneOrigin
  <2> QED
    BY <2>1, <2>2
<1> QED
  BY <1>1, <1>2, <1>3, <1>4, <1>5 DEF OneOrigin

\* The origin of a settled cluster is its first set of members.
LEMMA EstablishedOrigin ==
  ASSUME Established PROVE OneOrigin(expectedPeerNamesForCluster(spec.replicas))
<1> DEFINE c == expectedPeerNamesForCluster(spec.replicas)
           peer == [version |-> InitVersion, state |-> "New", initial |-> c,
                    finalizer |-> FALSE, deleting |-> FALSE, serverVersion |-> InitVersion]
           volume == [deleting |-> FALSE, data |-> c, tombstone |-> FALSE]
           replicaSet == [orphan |-> FALSE, version |-> InitVersion, state |-> "New",
                          initial |-> c, pod |-> "running"]
           formed == [members |-> c, named |-> c, removed |-> {}]
           unformed == [members |-> {}, named |-> {}, removed |-> {}]
<1>1. /\ peers = [p \in Ordinals |-> IF p \in c THEN peer ELSE None]
      /\ cachedPeers = peers
      /\ pvc = [p \in Ordinals |-> IF p \in c THEN volume ELSE None]
      /\ rs = [p \in Ordinals |-> IF p \in c THEN replicaSet ELSE None]
      /\ etcd = [d \in ClusterIds |-> IF d = c THEN formed ELSE unformed]
  BY DEF Established
<1>2. peer.initial = c /\ volume.data = c /\ replicaSet.initial = c /\ unformed.members = {}
  OBVIOUS
<1> HIDE DEF c, peer, volume, replicaSet, formed, unformed
<1>3. OneOrigin(c)
  BY <1>1, <1>2 DEF OneOrigin, Formed
<1> QED
  BY <1>3 DEF c

\* The blank peers of an EtcdCluster form one etcd cluster when they are all created
\* for the same number of replicas, whatever is edited, lost or restarted otherwise;
\* and then the operator implements Membership without further condition.
THEOREM OneClusterTheorem ==
  ASSUME NEW r
  PROVE  /\ Spec /\ BlankPeersFor(r) => []OneEtcdCluster /\ FollowsMembership
         /\ EstablishedSpec /\ spec.replicas = r /\ BlankPeersFor(r) => []OneEtcdCluster
<1> DEFINE c == expectedPeerNamesForCluster(r)
           Step == BlankPeerStarts(c)
           Inv == OneOrigin(c)
<1>1. Init => Inv
  BY DEF Init, OneOrigin, Formed
<1>2. Established /\ spec.replicas = r => Inv
  BY EstablishedOrigin
<1>3. IndInv /\ PeerInv /\ Inv /\ [Next]_vars /\ [Step]_vars => Inv'
  <2>1. UNCHANGED vars => Step
    BY DEF vars, BlankPeerStarts
  <2> QED
    BY <2>1, OriginKept
<1>4. Inv => OneEtcdCluster
  BY DEF OneOrigin, OneEtcdCluster
<1>5. BlankPeersFor(r) => [][Step]_vars
  BY DEF BlankPeersFor, BlankPeerStarts
<1> HIDE DEF Inv, Step
<1>6. Spec /\ BlankPeersFor(r) => []OneEtcdCluster
  BY <1>1, <1>3, <1>4, <1>5, PeersCorrect, PTL DEF Spec
<1>7. EstablishedSpec /\ spec.replicas = r /\ BlankPeersFor(r) => []OneEtcdCluster
  BY <1>2, <1>3, <1>4, <1>5, PeersCorrect, PTL DEF EstablishedSpec
<1> QED
  BY <1>6, <1>7, Refinement

\* The wanted number of replicas never changes when no other may be asked for.
LEMMA SizeKept ==
  ASSUME TargetReplicas = {}, TypeOK, NEW r, spec.replicas = r, cachedSpec.replicas = r,
         [Next]_vars
  PROVE  (spec.replicas = r /\ cachedSpec.replicas = r)'
<1>1. CASE UNCHANGED <<spec, cachedSpec>>
  BY <1>1
<1>2. CASE syncSpec
  BY <1>2 DEF syncSpec, clusterVars
<1>3. CASE ValidateUpdate
  <2>1. PICK v \in Versions : spec' = [spec EXCEPT !.version = v]
    BY <1>3 DEF ValidateUpdate
  <2>2. spec'.replicas = spec.replicas /\ cachedSpec' = cachedSpec
    BY <1>3, <2>1 DEF TypeOK, Spec_, ValidateUpdate, cacheVars
  <2> QED
    BY <2>2
<1> QED
  BY <1>1, <1>2, <1>3 DEF Next, ReconcileCluster, ReconcileAnyPeer, ReconcilePeer, syncPeers,
       Infrastructure, collectGarbage, releasePvc, startNew, startExisting, restart, startPod,
       formCluster, publish, crash, vars, clusterVars, cacheVars

\* A cluster that is not scaled has one etcd cluster, however often it is upgraded and
\* whatever is lost or restarted, and the operator implements Membership.
THEOREM UnscaledTheorem ==
  ASSUME TargetReplicas = {}
  PROVE  Spec => []OneEtcdCluster /\ FollowsMembership
<1>1. ASSUME NEW r
      PROVE  spec.replicas = r /\ Spec => BlankPeersFor(r)
  <2> DEFINE Size == spec.replicas = r /\ cachedSpec.replicas = r
             Step == \A p \in Ordinals :
                       peers[p] = None /\ peers'[p] # None /\ peers'[p].state = "New"
                         => peers'[p].initial = expectedPeerNamesForCluster(r)
  <2>1. spec.replicas = r /\ Init => Size
    BY DEF Init
  <2>2. IndInv /\ Size /\ [Next]_vars => Size'
    BY SizeKept DEF IndInv
  <2>3. IndInv /\ PeerInv /\ Size /\ [Next]_vars => [Step]_vars
    BY NextPeerStep DEF PeerStep, PeerKept, PeerGone, PeerCreated
  <2> HIDE DEF Size, Step
  <2>4. spec.replicas = r /\ Spec => [][Step]_vars
    BY <2>1, <2>2, <2>3, PeersCorrect, PTL DEF Spec
  <2> QED
    BY <2>4 DEF Step, BlankPeersFor
<1>2. \A r : spec.replicas = r /\ Spec => []OneEtcdCluster /\ FollowsMembership
  BY <1>1, OneClusterTheorem
<1> QED
  BY <1>2
-----------------------------------------------------------------------------
(* What has settled. *)

\* Nothing but an edit or a fault changes anything in a settled cluster: the controllers,
\* the informers, Kubernetes and etcd have nothing left to do.
LEMMA SettledUndisturbed ==
  ASSUME TypeOK, Settled, Next, edits' = edits, faults' = faults
  PROVE  UNCHANGED vars
<1>1. PICK c \in ClusterIds :
        /\ service /\ cachedSpec = spec /\ cachedPeers = peers
        /\ members(c) = etcd[c].named /\ Cardinality(members(c)) = spec.replicas
        /\ \A p \in members(c) :
             /\ peers[p] # None /\ ~peers[p].deleting /\ peers[p].serverVersion = spec.version
             /\ Runs(p, c) /\ rs[p].version = spec.version /\ ~rs[p].orphan /\ ~pvc[p].deleting
        /\ \A p \in Ordinals \ members(c) : peers[p] = None /\ rs[p] = None /\ pvc[p] = None
        /\ status = [replicas |-> spec.replicas, members |-> members(c)]
  BY DEF Settled
<1>2. /\ members(c) \subseteq Ordinals /\ edits \in Nat /\ faults \in Nat
      /\ spec.replicas \in Nat \ {0}
  BY SpecFields, ConstantsAssumption DEF TypeOK, Membership, members
<1>3. members(c) # {}
  BY <1>1, <1>2, FS_EmptySet
<1>4. ASSUME NEW p \in Ordinals, NEW d, Runs(p, d) PROVE p \in members(c) /\ d = c
  BY <1>1, <1>4 DEF Runs
<1>5. c \in Serving /\ \A d \in Serving : d = c
  <2>1. c \in Serving
    BY <1>1, <1>3 DEF Serving
  <2>2. \A d \in ClusterIds : etcd[d].named \subseteq Ordinals
    BY DEF TypeOK, Membership
  <2>3. ASSUME NEW d \in Serving PROVE d = c
    <3>1. PICK p \in etcd[d].named : Runs(p, d) /\ d \in ClusterIds
      BY DEF Serving
    <3> QED
      BY <1>4, <2>2, <3>1
  <2> QED
    BY <2>1, <2>3
<1>6. peersSeen = members(c)
  BY <1>1, <1>2 DEF peersSeen
<1>7. ASSUME NEW p \in members(c) PROVE serverVersion(p) = spec.version
  BY <1>1, <1>7 DEF serverVersion
<1>8. CASE ReconcileCluster
  <2>1. PICK x \in SUBSET Ordinals : listMembers(x) /\ updateStatus(x) /\ reconcile(x)
    BY <1>8 DEF ReconcileCluster
  <2>2. x = c /\ c # NoContact
    <3>1. faults' # faults - 1
      BY <1>2
    <3> QED
      BY <1>5, <2>1, <3>1 DEF listMembers, ClusterIds, NoContact
  <2>3. status' = status
    BY <1>1, <1>6, <2>1, <2>2 DEF updateStatus
  <2>4. surplusPeers(c) = {} /\ outdatedPeers = {} /\ \A p \in members(c) : hasPeerForMember(p)
    BY <1>1, <1>6 DEF surplusPeers, outdatedPeers, hasPeerForMember
  <2>5. ~hasTooFewMembers(c) /\ ~hasTooManyMembers(c)
    BY <1>1, <1>2 DEF hasTooFewMembers, hasTooManyMembers
  <2>6. UNCHANGED <<service, peers, podVars, etcd>>
    BY <1>1, <2>1, <2>2, <2>4, <2>5 DEF reconcile, createService, createBootstrapPeer,
         createPeerForMember, addPvcFinalizer, deleteSurplusPeer, deleteOutdatedPeer,
         addNewMember, removeMember, nothingToDo
  <2> QED
    BY <1>8, <2>3, <2>6 DEF ReconcileCluster, vars, clusterVars, boundVars
<1>9. ASSUME NEW p \in Ordinals, ReconcilePeer(p) PROVE UNCHANGED vars
  <2>1. cachedPeers[p] # None /\ p \in members(c)
    BY <1>1, <1>9 DEF ReconcilePeer
  <2>2. ~cachedPeers[p].deleting /\ pvc[p] # None /\ rs[p] # None
    BY <1>1, <2>1 DEF Runs
  <2>3. PICK v \in Versions \cup {None} : getVersion(p, v) /\ hasReplicaSet(p, v)
    BY <1>9, <2>2 DEF ReconcilePeer, maybeCreatePvc, createReplicaSet, deletePvc, removePvcFinalizer
  <2>4. v = serverVersion(p)
    BY <1>2, <2>3 DEF getVersion
  <2>5. updatePeerStatus(p, peers[p], v) = peers[p]
    BY <1>1, <1>7, <2>1, <2>4 DEF updatePeerStatus
  <2>6. peers' = peers
    BY <2>3, <2>5 DEF hasReplicaSet, patchStatusOnly, TypeOK
  <2> QED
    BY <1>9, <2>3, <2>6 DEF ReconcilePeer, hasReplicaSet, vars, boundVars
<1>10. CASE syncSpec \/ syncPeers
  BY <1>1, <1>10 DEF syncSpec, syncPeers, vars, cacheVars
<1>11. ASSUME NEW p \in Ordinals, collectGarbage(p) \/ releasePvc(p) PROVE FALSE
  BY <1>1, <1>11 DEF collectGarbage, releasePvc
<1>12. ASSUME NEW p \in Ordinals, startNew(p) \/ startExisting(p) \/ restart(p) PROVE FALSE
  <2>1. rs[p] # None /\ rs[p].pod # "running"
    BY <1>12 DEF startNew, startExisting, restart, startPod
  <2>2. p \in members(c)
    BY <1>1, <2>1
  <2> QED
    BY <1>1, <2>1, <2>2 DEF Runs
<1>13. ASSUME NEW d \in ClusterIds, formCluster(d) PROVE FALSE
  <2>1. ~Formed(d) /\ 2 * Cardinality({p \in d : Runs(p, d)}) > Cardinality(d)
    BY <1>13 DEF formCluster, Majority
  <2>2. Cardinality(d) \in Nat /\ d \subseteq Ordinals
    BY OrdinalsFinite DEF ClusterIds
  <2>3. {p \in d : Runs(p, d)} # {}
    BY <2>1, <2>2, FS_EmptySet
  <2>4. d = c
    BY <1>4, <2>2, <2>3
  <2> QED
    BY <1>3, <2>1, <2>4 DEF Formed, members
<1>14. ASSUME NEW d \in ClusterIds, NEW p \in Ordinals, publish(p, d) PROVE FALSE
  BY <1>1, <1>4, <1>14 DEF publish, members
<1>15. ~ValidateUpdate /\ \A p \in Ordinals : ~crash(p)
  BY <1>2 DEF ValidateUpdate, crash
<1>16. CASE Infrastructure
  BY <1>11, <1>12, <1>13, <1>14, <1>16 DEF Infrastructure
<1> QED
  BY <1>8, <1>9, <1>10, <1>15, <1>16 DEF Next, ReconcileAnyPeer

\* A settled cluster stays as it is, whatever its size and history, until somebody edits
\* it or something fails: no controller undoes what another has done.
THEOREM SettledTheorem ==
  /\ Spec => SettledStays
  /\ EstablishedSpec => SettledStays
<1> DEFINE Stays == Settled => edits' # edits \/ faults' # faults
<1>1. IndInv /\ [Next]_vars => [Stays]_vars
  BY SettledUndisturbed DEF IndInv
<1> HIDE DEF Stays
<1>2. Spec => [][Stays]_vars
  BY <1>1, VolumeInvariant, PTL DEF Spec
<1>3. EstablishedSpec => [][Stays]_vars
  BY <1>1, EstablishedTheorem, PTL DEF EstablishedSpec
<1> QED
  BY <1>2, <1>3 DEF SettledStays, Stays
=============================================================================
