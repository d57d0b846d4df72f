---------------------------- MODULE UpgradeProofs ----------------------------
(***************************************************************************)
(* Upgrades.  When the version is edited at most once, among any edits of   *)
(* the number of replicas, a peer that the cache still shows after the      *)
(* upgrade has deleted it stops reconcile from scaling, so no member starts *)
(* on the data of a removed one; and without faults the upgrade goes in     *)
(* reverse name order, however stale the cache.                             *)
(***************************************************************************)
EXTENDS RefinementProofs

\* The version is edited from the first and never again; the number of replicas may be
\* edited before, meanwhile and after.
UpgradesOnce == spec'.version # spec.version => spec.version = InitVersion

OneUpgrade == [][UpgradesOnce]_vars

(* What a step may do to the spec and to what the cache has of it. *)

\* The administrator changes one field of the spec.
Edits ==
  /\ edits > 0 /\ edits' = edits - 1
  /\ spec'.version = spec.version \/ spec'.replicas = spec.replicas
  /\ UNCHANGED <<cachedSpec, peers, cachedPeers, pvc, rs, etcd>>

SpecStep ==
  \/ UNCHANGED <<spec, cachedSpec, edits>>
  \/ cachedSpec' = spec /\ UNCHANGED <<spec, edits, peers, cachedPeers, pvc, rs, etcd>>
  \/ Edits

\* Only the administrator and the informer change them.
LEMMA NextSpecStep ==
  ASSUME TypeOK, [Next]_vars PROVE SpecStep
<1>1. CASE UNCHANGED <<spec, cachedSpec, edits>>
  BY <1>1 DEF SpecStep
<1>2. CASE syncSpec
  BY <1>2 DEF syncSpec, clusterVars, podVars, boundVars, SpecStep
<1>3. CASE ValidateUpdate
  <2>1. spec \in Spec_
    BY DEF TypeOK
  <2>2. \/ \E r \in TargetReplicas : spec' = [spec EXCEPT !.replicas = r]
        \/ \E v \in Versions : spec' = [spec EXCEPT !.version = v]
    BY <1>3 DEF ValidateUpdate
  <2>3. spec'.version = spec.version \/ spec'.replicas = spec.replicas
    BY <2>1, <2>2 DEF Spec_
  <2> QED
    BY <1>3, <2>3 DEF ValidateUpdate, cacheVars, podVars, Edits, SpecStep
<1> QED
  BY <1>1, <1>2, <1>3 DEF Next, ReconcileCluster, ReconcileAnyPeer, ReconcilePeer, syncPeers,
       Infrastructure, collectGarbage, releasePvc, startNew, startExisting, restart, startPod,
       formCluster, publish, crash, vars, clusterVars, cacheVars, boundVars
-----------------------------------------------------------------------------
(* Two versions. *)

\* The version that the cache wants is the last there will be, unless it is the first.
LEMMA WantedVersion ==
  ASSUME UpgradesOnce, TypeOK, TwoVersions, [Next]_vars
  PROVE  /\ cachedSpec'.version \in {InitVersion, spec'.version}
         /\ cachedSpec.version # InitVersion => cachedSpec'.version = cachedSpec.version
<1>1. SpecStep
  BY NextSpecStep
<1>2. cachedSpec.version \in {InitVersion, spec.version}
  BY DEF TwoVersions
<1> QED
  BY <1>1, <1>2 DEF SpecStep, Edits, UpgradesOnce

\* What a process reports is the version of its ReplicaSet.
LEMMA ReportedVersion ==
  ASSUME NEW p, serverVersion(p) # None
  PROVE  rs[p] # None /\ serverVersion(p) = rs[p].version
  BY DEF serverVersion, Runs

\* No other version comes to be about.
LEMMA TwoVersionsKept ==
  ASSUME UpgradesOnce, IndInv, IndInv', PeerInv, TwoVersions, [Next]_vars
  PROVE  TwoVersions'
<1> DEFINE known == {InitVersion, cachedSpec.version}
           knownNext == {InitVersion, cachedSpec'.version}
<1>1. TypeOK /\ TypeOK'
  BY DEF IndInv
<1>2. /\ cachedSpec'.version \in {InitVersion, spec'.version}
      /\ known \subseteq knownNext
  BY <1>1, WantedVersion
<1>3. ASSUME NEW p \in Ordinals
      PROVE  /\ peers[p] # None => peers[p].version \in known
             /\ peers[p] # None => peers[p].serverVersion \in known \cup {None}
             /\ cachedPeers[p] # None => cachedPeers[p].version \in known
             /\ cachedPeers[p] # None => cachedPeers[p].serverVersion \in known \cup {None}
             /\ rs[p] # None => rs[p].version \in known
             /\ serverVersion(p) \in known \cup {None}
  BY ReportedVersion DEF TwoVersions
<1>4. cachedSpec.version \in known
  OBVIOUS
<1> HIDE DEF known
<1>5. ASSUME NEW p \in Ordinals
      PROVE  /\ peers'[p] # None => peers'[p].version \in known
             /\ peers'[p] # None => peers'[p].serverVersion \in known \cup {None}
             /\ cachedPeers'[p] # None => cachedPeers'[p].version \in known
             /\ cachedPeers'[p] # None => cachedPeers'[p].serverVersion \in known \cup {None}
  BY <1>3, <1>4, NextPeerStep DEF PeerStep, PeerKept, PeerGone, PeerCreated, sameConfig
<1>6. ASSUME NEW p \in Ordinals
      PROVE  rs'[p] # None => rs'[p].version \in known
  BY <1>1, <1>3, NextReplicaSetStep DEF ReplicaSetStep, ReplicaSetCollected, ReplicaSetKept,
       ReplicaSetCreated, sameConfig
<1>7. ASSUME NEW p \in Ordinals
      PROVE  /\ peers'[p] # None => peers'[p].version \in knownNext
             /\ peers'[p] # None => peers'[p].serverVersion \in knownNext \cup {None}
             /\ cachedPeers'[p] # None => cachedPeers'[p].version \in knownNext
             /\ cachedPeers'[p] # None => cachedPeers'[p].serverVersion \in knownNext \cup {None}
             /\ rs'[p] # None => rs'[p].version \in knownNext
  BY <1>2, <1>5, <1>6
<1> QED
  BY <1>2, <1>7 DEF TwoVersions

\* A peer goes while the cache shows it only when it has its finalizer, which the cache
\* then shows too, or for a version that will not be taken back.
LEMMA GoneOutdatedKept ==
  ASSUME UpgradesOnce, IndInv, IndInv', PeerInv, TwoVersions, GoneOutdated, [Next]_vars
  PROVE  GoneOutdated'
<1>1. cachedSpec.version # InitVersion => cachedSpec'.version = cachedSpec.version
  BY WantedVersion DEF IndInv
<1> SUFFICES ASSUME NEW p \in Ordinals,
                    cachedPeers'[p] # None, ~cachedPeers'[p].deleting, peers'[p] = None
             PROVE  cachedSpec'.version \notin {InitVersion, cachedPeers'[p].serverVersion}
  BY DEF GoneOutdated
<1>2. cachedPeers'[p] = cachedPeers[p] /\ (PeerKept(p) \/ PeerGone(p))
  BY NextPeerStep DEF PeerStep, PeerCreated
<1>3. CASE PeerKept(p)
  BY <1>1, <1>2, <1>3 DEF PeerKept, GoneOutdated
<1>4. CASE PeerGone(p)
  <2>1. peers[p] # None /\ peers[p].version # cachedSpec.version /\ nextOutdatedPeer(p)
    BY <1>2, <1>4 DEF PeerGone
  <2>2. cachedSpec.version # InitVersion
    BY <2>1 DEF TwoVersions
  <2>3. cachedSpec.version # cachedPeers[p].serverVersion
    BY <2>1 DEF nextOutdatedPeer, outdatedPeers
  <2> QED
    BY <1>1, <1>2, <2>2, <2>3
<1> QED
  BY <1>2, <1>3, <1>4

\* reconcile scales only when every peer in the cache reports the version it wants, so
\* none of those has gone.
LEMMA MemberHasPeer ==
  ASSUME IndInv, PeerInv, GoneOutdated, OneEtcdCluster, [Next]_vars,
         NEW c \in ClusterIds, NEW p \in members(c), p \notin members(c)'
  PROVE  peers[p] # None
<1>1. TypeOK /\ p \in Ordinals
  BY DEF IndInv, TypeOK, Membership, members
<1>2. PICK d \in ClusterIds : Removes(d, p)
  BY NextEtcdStep DEF EtcdStep, Forms, Publishes, Adds, Removes, Formed, members
<1>3. Formed(c) /\ Formed(d)
  BY <1>1, <1>2, ServingFormed DEF Removes, Formed, members, IndInv
<1>4. c = d
  BY <1>3 DEF OneEtcdCluster
<1>5. cachedPeers[p] # None /\ outdatedPeers = {}
  <2>1. PICK e \in Serving : \A q \in members(e) : cachedPeers[q] # None
    BY <1>2 DEF Removes, FoundStable
  <2>2. e \in ClusterIds /\ Formed(e)
    BY <2>1, ServingFormed DEF Serving, IndInv
  <2>3. e = c
    BY <1>3, <2>2 DEF OneEtcdCluster
  <2> QED
    BY <1>2, <2>1, <2>3 DEF Removes, FoundStable
<1>6. ~cachedPeers[p].deleting
  <2> SUFFICES ASSUME cachedPeers[p].deleting PROVE FALSE
    OBVIOUS
  <2>1. hasFinalizer(cachedPeers[p])
    BY <1>1, <1>5 DEF PeerInv, DeletionAwaitsVolume, hasFinalizer
  <2>2. PICK e \in ClusterIds : Formed(e) /\ p \notin members(e)
    BY <1>1, <2>1 DEF IndInv, FinalizerCached, Confirmed
  <2> QED
    BY <1>3, <2>2 DEF OneEtcdCluster
<1>7. cachedPeers[p].serverVersion = cachedSpec.version
  BY <1>1, <1>5 DEF outdatedPeers, peersSeen
<1> QED
  BY <1>1, <1>5, <1>6, <1>7 DEF GoneOutdated

\* At the start, of either specification, there is one version.
LEMMA InitVersions ==
  ASSUME Init \/ Established PROVE TwoVersions /\ GoneOutdated
<1>1. spec.version = InitVersion /\ cachedSpec.version = InitVersion
  BY DEF Init, Established
<1>2. CASE Init
  BY <1>1, <1>2 DEF Init, TwoVersions, GoneOutdated
<1>3. CASE Established
  <2> DEFINE c == expectedPeerNamesForCluster(spec.replicas)
             peer == [version |-> InitVersion, state |-> "New", initial |-> c,
                      finalizer |-> FALSE, deleting |-> FALSE, serverVersion |-> InitVersion]
             replicaSet == [orphan |-> FALSE, version |-> InitVersion, state |-> "New",
                            initial |-> c, pod |-> "running"]
  <2>1. /\ peers = [p \in Ordinals |-> IF p \in c THEN peer ELSE None]
        /\ cachedPeers = peers
        /\ rs = [p \in Ordinals |-> IF p \in c THEN replicaSet ELSE None]
    BY <1>3 DEF Established
  <2>2. /\ peer.version = InitVersion /\ peer.serverVersion = InitVersion
        /\ replicaSet.version = InitVersion
    OBVIOUS
  <2> HIDE DEF c, peer, replicaSet
  <2>3. TwoVersions
    BY <1>1, <2>1, <2>2 DEF TwoVersions
  <2>4. GoneOutdated
    BY <2>1 DEF GoneOutdated
  <2> QED
    BY <2>3, <2>4
<1> QED
  BY <1>2, <1>3

\* When the version is edited at most once, a member is removed only while it has a peer
\* to have its volume deleted; hence no member is given the name of a removed one while
\* the data that one left is there to stay.  The cluster may be scaled, up and down and
\* during the upgrade, as often as the administrator likes, and any fault may happen.
THEOREM RemovalTheorem ==
  /\ Spec /\ OneUpgrade => RemovedWithPeer /\ []TombstoneHasPeer /\ []NoLeftoverData
  /\ EstablishedSpec /\ OneUpgrade => RemovedWithPeer /\ []TombstoneHasPeer /\ []NoLeftoverData
<1> DEFINE Inv == TwoVersions /\ GoneOutdated
           Step == OneEtcdCluster =>
                     \A c \in ClusterIds : \A p \in members(c) \ members(c)' : peers[p] # None
<1>1. Init \/ Established => Inv
  BY InitVersions
<1>2. IndInv /\ IndInv' /\ PeerInv /\ Inv /\ [Next]_vars /\ [UpgradesOnce]_vars => Inv'
  <2>1. [UpgradesOnce]_vars => UpgradesOnce
    BY DEF UpgradesOnce, vars, clusterVars
  <2> QED
    BY <2>1, TwoVersionsKept, GoneOutdatedKept
<1>3. IndInv /\ PeerInv /\ Inv /\ [Next]_vars => [Step]_vars
  BY MemberHasPeer
<1> HIDE DEF Inv, Step
<1>4. Spec /\ OneUpgrade => [][Step]_vars
  BY <1>1, <1>2, <1>3, PeersCorrect, PTL DEF Spec, OneUpgrade
<1>5. EstablishedSpec /\ OneUpgrade => [][Step]_vars
  BY <1>1, <1>2, <1>3, PeersCorrect, PTL DEF EstablishedSpec, OneUpgrade
<1>6. /\ Spec /\ OneUpgrade => RemovedWithPeer
      /\ EstablishedSpec /\ OneUpgrade => RemovedWithPeer
  BY <1>4, <1>5 DEF Step, RemovedWithPeer
<1> QED
  BY <1>6, TombstoneTheorem
-----------------------------------------------------------------------------
(* A cluster of constant size. *)

\* The names of the first peers are those of a possible cluster.
LEMMA InitialNames ==
  ASSUME NEW r, r \in InitReplicas \/ r \in 1..(MaxOrdinal + 1)
  PROVE  expectedPeerNamesForCluster(r) \in ClusterIds
<1>1. r \in 1..(MaxOrdinal + 1) /\ MaxOrdinal \in Nat
  BY ConstantsAssumption
<1>2. 0 \in 0..(r - 1) /\ 0..(r - 1) \subseteq Ordinals
  BY <1>1 DEF Ordinals
<1> QED
  BY <1>2 DEF expectedPeerNamesForCluster, ClusterIds

\* The one cluster has as many members as are wanted.
LEMMA SizedServing ==
  ASSUME TypeOK, NamesAreMembers, Sized, NEW c \in Serving
  PROVE  /\ c = expectedPeerNamesForCluster(spec.replicas) /\ members(c) = c
         /\ ~hasTooFewMembers(c) /\ ~hasTooManyMembers(c)
<1>1. c \in ClusterIds /\ Formed(c)
  BY ServingFormed
<1>2. /\ c = expectedPeerNamesForCluster(spec.replicas) /\ members(c) = c
      /\ cachedSpec.replicas = spec.replicas
  BY <1>1 DEF Sized, OneOrigin
<1>3. spec.replicas \in Nat \ {0}
  BY SpecFields, ConstantsAssumption
<1>4. Cardinality(0..(spec.replicas - 1)) = spec.replicas
  BY <1>3, FS_Interval
<1>5. Cardinality(members(c)) = cachedSpec.replicas
  BY <1>2, <1>4 DEF expectedPeerNamesForCluster
<1> QED
  BY <1>2, <1>3, <1>5 DEF hasTooFewMembers, hasTooManyMembers

\* So no member is added or removed.
LEMMA SizedUnscaled ==
  ASSUME TypeOK, NamesAreMembers, Sized, NEW d, NEW q
  PROVE  ~Adds(d, q) /\ ~Removes(d, q)
  BY SizedServing DEF Adds, Removes

\* Without faults and without an edit of the number of replicas the peers are those of
\* the one cluster, nothing of theirs is deleted and no process exits.
LEMMA SizedKept ==
  ASSUME MaxFaults = 0, IndInv, PeerInv, Sized, [Next]_vars, spec'.replicas = spec.replicas
  PROVE  Sized'
<1>1. TypeOK /\ NamesAreMembers
  BY DEF IndInv
<1>2. PICK r : r = spec.replicas
  OBVIOUS
<1>3. PICK c : c = expectedPeerNamesForCluster(r)
  OBVIOUS
<1>4. /\ cachedSpec.replicas = r /\ OneOrigin(c) /\ (Formed(c) => members(c) = c)
      /\ \A p \in Ordinals : peers[p] # None \/ cachedPeers[p] # None => p \in c
      /\ \A p \in Ordinals : ~hasFinalizer(peers[p]) /\ ~hasFinalizer(cachedPeers[p])
      /\ \A p \in Ordinals : pvc[p] # None => ~pvc[p].deleting /\ ~pvc[p].tombstone
      /\ \A p \in Ordinals : rs[p] # None => rs[p].pod # "exited"
  BY <1>2, <1>3 DEF Sized
<1>5. c \in ClusterIds
  BY <1>1, <1>2, <1>3, SpecFields, InitialNames
<1>6. \A d \in Serving : d = c /\ members(d) = c
  BY <1>1, <1>2, <1>3, SizedServing
<1>7. \A d, q : ~Adds(d, q) /\ ~Removes(d, q)
  BY <1>1, SizedUnscaled
<1>8. \A p \in Ordinals : PeerStep(p)
  BY NextPeerStep
<1>9. cachedSpec'.replicas = r
  BY <1>1, <1>2, <1>4, NextSpecStep DEF SpecStep, Edits
<1>10. OneOrigin(c)'
  <2>1. BlankPeerStarts(c)
    BY <1>3, <1>4, <1>8 DEF BlankPeerStarts, PeerStep, PeerKept, PeerGone, PeerCreated
  <2> QED
    BY <1>4, <2>1, OriginKept
<1>11. Formed(c)' => members(c)' = c
  BY <1>4, <1>5, <1>7, NextEtcdStep DEF EtcdStep, Forms, Publishes, Formed, members
<1>12. ASSUME NEW p \in Ordinals, peers'[p] # None \/ cachedPeers'[p] # None PROVE p \in c
  BY <1>3, <1>4, <1>6, <1>8, <1>12 DEF PeerStep, PeerKept, PeerGone, PeerCreated
<1>13. ASSUME NEW p \in Ordinals PROVE ~hasFinalizer(peers'[p]) /\ ~hasFinalizer(cachedPeers'[p])
  BY <1>4, <1>6, <1>8 DEF hasFinalizer, PeerStep, PeerKept, PeerGone, PeerCreated
<1>14. ASSUME NEW p \in Ordinals, pvc'[p] # None PROVE ~pvc'[p].deleting /\ ~pvc'[p].tombstone
  <2>1. VolumeStep(p)
    BY <1>1, NextVolumeStep
  <2> QED
    BY <1>4, <1>7, <1>14, <2>1 DEF VolumeStep, VolumeCreated, VolumeDeleted, VolumeStarted,
         VolumeRetired
<1>15. ASSUME NEW p \in Ordinals, rs'[p] # None PROVE rs'[p].pod # "exited"
  <2>1. ReplicaSetStep(p)
    BY <1>1, NextReplicaSetStep
  <2>2. ~(faults > 0)
    BY <1>1 DEF TypeOK
  <2> QED
    BY <1>4, <1>7, <1>15, <2>1, <2>2 DEF ReplicaSetStep, ReplicaSetCollected, ReplicaSetKept,
         ReplicaSetCreated
<1>16. c = expectedPeerNamesForCluster(spec'.replicas) /\ cachedSpec'.replicas = spec'.replicas
  BY <1>2, <1>3, <1>9
<1>17. \A p \in Ordinals : ~hasFinalizer(peers[p])' /\ ~hasFinalizer(cachedPeers[p])'
  BY <1>13 DEF hasFinalizer
<1> QED
  BY <1>10, <1>11, <1>12, <1>14, <1>15, <1>16, <1>17 DEF Sized
-----------------------------------------------------------------------------
(* The order of an upgrade. *)

\* A process that answers goes on answering, and so with the same version.
LEMMA StaysRunning ==
  ASSUME MaxFaults = 0, IndInv, Sized, [Next]_vars,
         NEW p \in Ordinals, serverVersion(p) # None, ~rs[p].orphan
  PROVE  serverVersion(p)' = serverVersion(p)
<1>1. TypeOK /\ NamesAreMembers
  BY DEF IndInv
<1>2. PICK e \in ClusterIds : p \in etcd[e].named /\ Runs(p, e)
  BY DEF serverVersion
<1>3. serverVersion(p) = rs[p].version
  BY <1>2 DEF serverVersion
<1>4. \A d, q : ~Adds(d, q) /\ ~Removes(d, q)
  BY <1>1, SizedUnscaled
<1>5. rs'[p] # None /\ rs'[p].pod = "running" /\ rs'[p].version = rs[p].version
  <2>1. ReplicaSetStep(p)
    BY <1>1, NextReplicaSetStep
  <2>2. ~(faults > 0)
    BY <1>1 DEF TypeOK
  <2> QED
    BY <1>2, <1>4, <2>1, <2>2 DEF ReplicaSetStep, ReplicaSetCollected, ReplicaSetKept,
         ReplicaSetCreated, Runs, sameConfig
<1>6. pvc'[p] = pvc[p]
  <2>1. VolumeStep(p)
    BY <1>1, NextVolumeStep
  <2>2. pvc[p] # None /\ ~pvc[p].deleting /\ ~hasFinalizer(cachedPeers[p])
    BY <1>2 DEF Sized, Runs
  <2> QED
    BY <1>2, <1>4, <2>1, <2>2 DEF VolumeStep, VolumeCreated, VolumeDeleted, VolumeStarted,
         VolumeRetired, Runs
<1>7. p \in etcd'[e].named
  <2>1. Formed(e)
    BY <1>1, <1>2 DEF NamesAreMembers, Formed, members
  <2> QED
    BY <1>2, <1>4, <2>1, NextEtcdStep DEF EtcdStep, Forms, Publishes
<1>8. Runs(p, e)'
  BY <1>2, <1>5, <1>6 DEF Runs
<1> QED
  BY <1>3, <1>5, <1>7, <1>8 DEF serverVersion

\* What runs the new version goes on running it: the upgrade takes no peer of that
\* version, and a ReplicaSet made of one is that of the peer there is.
LEMMA NewVersionKept ==
  ASSUME UpgradesOnce, MaxFaults = 0, IndInv, IndInv', PeerInv, TwoVersions, NewVersionStays, Sized,
         [Next]_vars
  PROVE  NewVersionStays'
<1>1. TypeOK /\ TypeOK'
  BY DEF IndInv
<1> SUFFICES ASSUME cachedSpec'.version # InitVersion, NEW p \in Ordinals
             PROVE  /\ cachedPeers'[p] # None /\ cachedPeers'[p].version = cachedSpec'.version
                         => peers'[p] # None
                    /\ rs'[p] # None /\ rs'[p].version = cachedSpec'.version => ~rs'[p].orphan
                    /\ \/ peers'[p] # None /\ peers'[p].serverVersion = cachedSpec'.version
                       \/ /\ cachedPeers'[p] # None
                          /\ cachedPeers'[p].serverVersion = cachedSpec'.version
                       => serverVersion(p)' = cachedSpec'.version
                    /\ cachedPeers'[p] # None
                         /\ cachedPeers'[p].serverVersion = cachedSpec'.version
                         /\ peers'[p] # None => peers'[p].serverVersion = cachedSpec'.version
  BY DEF NewVersionStays
<1>2. cachedSpec'.version # None
  <2>1. cachedSpec'.version \in Versions
    BY <1>1 DEF TypeOK, Spec_
  <2> QED
    BY <2>1, ConstantsAssumption
<1>3. CASE cachedSpec.version = InitVersion
  <2>1. UNCHANGED <<peers, cachedPeers, rs>>
    BY <1>1, <1>3, NextSpecStep DEF SpecStep, Edits
  <2>2. /\ peers[p] # None => peers[p].serverVersion \in {InitVersion, None}
        /\ cachedPeers[p] # None => cachedPeers[p].version = InitVersion
        /\ cachedPeers[p] # None => cachedPeers[p].serverVersion \in {InitVersion, None}
        /\ rs[p] # None => rs[p].version = InitVersion
    BY <1>3 DEF TwoVersions
  <2> QED
    BY <1>2, <2>1, <2>2
<1>4. CASE cachedSpec.version # InitVersion
  <2>1. PICK w : w = cachedSpec.version
    OBVIOUS
  <2>2. cachedSpec'.version = w /\ w # None
    BY <1>1, <1>2, <1>4, <2>1, WantedVersion
  <2>3. /\ cachedPeers[p] # None /\ cachedPeers[p].version = w => peers[p] # None
        /\ rs[p] # None /\ rs[p].version = w => ~rs[p].orphan
        /\ \/ peers[p] # None /\ peers[p].serverVersion = w
           \/ cachedPeers[p] # None /\ cachedPeers[p].serverVersion = w
           => serverVersion(p) = w
        /\ cachedPeers[p] # None /\ cachedPeers[p].serverVersion = w
             /\ peers[p] # None => peers[p].serverVersion = w
    BY <1>4, <2>1 DEF NewVersionStays
  <2>4. PeerStep(p) /\ ReplicaSetStep(p)
    BY <1>1, NextPeerStep, NextReplicaSetStep
  <2>5. peers[p] # None /\ peers[p].version = w => peers'[p] # None
    BY <2>1, <2>4 DEF PeerStep, PeerKept, PeerGone, PeerCreated, Sized, hasFinalizer
  <2>6. cachedPeers'[p] # None /\ cachedPeers'[p].version = w => peers'[p] # None
    <3>1. cachedPeers[p] # None /\ peers[p] # None => cachedPeers[p].version = peers[p].version
      BY DEF PeerInv, CachedPeerCurrent, sameConfig
    <3> QED
      BY <2>3, <2>4, <2>5, <3>1 DEF PeerStep
  <2>7. ASSUME rs'[p] # None, rs'[p].version = w PROVE ~rs'[p].orphan
    <3>1. CASE ReplicaSetKept(p)
      <4>1. rs[p] # None /\ rs[p].version = w /\ ~rs[p].orphan
        BY <2>3, <2>7, <3>1 DEF ReplicaSetKept, sameConfig
      <4>2. peers[p] # None /\ peers[p].version = w
        BY <4>1 DEF PeerInv, ReplicaSetOfPeer, sameConfig
      <4> QED
        BY <2>5, <3>1, <4>1, <4>2 DEF ReplicaSetKept
    <3>2. CASE ReplicaSetCreated(p)
      BY <2>3, <2>7, <3>2 DEF ReplicaSetCreated, sameConfig
    <3> QED
      BY <2>4, <2>7, <3>1, <3>2 DEF ReplicaSetStep, ReplicaSetCollected
  <2>8. serverVersion(p) = w => serverVersion(p)' = w
    BY <2>2, <2>3, ReportedVersion, StaysRunning
  <2>9. \/ peers'[p] # None /\ peers'[p].serverVersion = w
        \/ cachedPeers'[p] # None /\ cachedPeers'[p].serverVersion = w
        => serverVersion(p)' = w
    BY <2>2, <2>3, <2>4, <2>8 DEF PeerStep, PeerKept, PeerGone, PeerCreated
  <2>10. cachedPeers'[p] # None /\ cachedPeers'[p].serverVersion = w
           /\ peers'[p] # None => peers'[p].serverVersion = w
    <3>1. ~(faults > 0)
      BY <1>1 DEF TypeOK
    <3> QED
      BY <2>3, <2>4, <3>1 DEF PeerStep, PeerKept, PeerGone, PeerCreated
  <2> QED
    BY <2>2, <2>6, <2>7, <2>9, <2>10
<1> QED
  BY <1>3, <1>4

-----------------------------------------------------------------------------
(* One member down at a time. *)

\* A process that reports the new version is that of the peer there is, and stays up.
LEMMA NewVersionIsUp ==
  ASSUME IndInv, PeerInv, NewVersionStays, Sized, cachedSpec.version # InitVersion,
         NEW p \in Ordinals, serverVersion(p) = cachedSpec.version
  PROVE  ~isDown(p) /\ ~rs[p].orphan /\ peers[p] # None /\ peers[p].version = cachedSpec.version
<1>1. serverVersion(p) # None
  <2>1. cachedSpec.version \in Versions
    BY DEF IndInv, TypeOK, Spec_
  <2> QED
    BY <2>1, ConstantsAssumption
<1>2. rs[p] # None /\ rs[p].version = cachedSpec.version /\ rs[p].pod = "running"
  BY <1>1 DEF serverVersion, Runs
<1>3. ~rs[p].orphan
  BY <1>2 DEF NewVersionStays
<1>4. peers[p] # None /\ peers[p].version = cachedSpec.version
  BY <1>2, <1>3 DEF PeerInv, ReplicaSetOfPeer, sameConfig
<1> QED
  BY <1>2, <1>3, <1>4 DEF isDown

\* Reconcile takes p down for the upgrade.
TakenDown(p) ==
  /\ peers[p] # None /\ peers[p].version # cachedSpec.version /\ nextOutdatedPeer(p)
  /\ \E c \in Serving : canUpgrade(c)

\* Nothing else does.
LEMMA GoesDown ==
  ASSUME MaxFaults = 0, IndInv, PeerInv, Sized, [Next]_vars,
         NEW p \in Ordinals, ~isDown(p), isDown(p)'
  PROVE  TakenDown(p)
<1>1. TypeOK /\ NamesAreMembers
  BY DEF IndInv
<1>2. PeerStep(p) /\ ReplicaSetStep(p) /\ VolumeStep(p)
  BY <1>1, NextPeerStep, NextReplicaSetStep, NextVolumeStep
<1>3. /\ rs[p] # None => ~rs[p].orphan
      /\ peers[p] = None => cachedPeers[p] = None
      /\ pvc[p] # None /\ pvc[p].data # {} => rs[p] # None /\ rs[p].pod = "running"
  BY DEF isDown
<1>4. rs[p] # None => peers[p] # None
  BY <1>3 DEF PeerInv, ReplicaSetOfPeer
<1>5. \A d, q : ~Adds(d, q) /\ ~Removes(d, q)
  BY <1>1, SizedUnscaled
<1>6. ~(faults > 0)
  BY <1>1 DEF TypeOK
<1>7. CASE PeerGone(p)
  BY <1>7 DEF PeerGone, TakenDown, Sized, hasFinalizer
<1>8. CASE ~PeerGone(p)
  <2>1. (peers'[p] = None) => (peers[p] = None)
    BY <1>2, <1>8 DEF PeerStep, PeerKept, PeerCreated
  <2>2. rs'[p] # None => ~rs'[p].orphan
    BY <1>2, <1>3, <1>4, <2>1 DEF ReplicaSetStep, ReplicaSetCollected, ReplicaSetKept,
         ReplicaSetCreated
  <2>3. peers'[p] = None => cachedPeers'[p] = None
    BY <1>2, <1>3, <2>1 DEF PeerStep
  <2>4. rs[p] # None /\ rs[p].pod = "running" => rs'[p] # None /\ rs'[p].pod = "running"
    BY <1>2, <1>3, <1>5, <1>6 DEF ReplicaSetStep, ReplicaSetCollected, ReplicaSetKept,
         ReplicaSetCreated
  <2>5. pvc'[p] # None /\ pvc'[p].data # {} => rs'[p] # None /\ rs'[p].pod = "running"
    BY <1>2, <1>3, <2>4 DEF VolumeStep, VolumeCreated, VolumeDeleted, VolumeStarted, VolumeRetired
  <2> QED
    BY <2>2, <2>3, <2>5 DEF isDown
<1> QED
  BY <1>7, <1>8

\* It goes only through members that report the version it wants or that sort before it.
LEMMA TakenInTurn ==
  ASSUME IndInv, PeerInv, NewVersionStays, Sized, cachedSpec.version # InitVersion,
         NEW p \in Ordinals, TakenDown(p),
         NEW q \in expectedPeerNamesForCluster(spec.replicas), q # p, q \in Ordinals
  PROVE  NameLess(q, p) \/ serverVersion(q) = cachedSpec.version
<1>1. TypeOK /\ NamesAreMembers
  BY DEF IndInv
<1>2. PICK c \in Serving : canUpgrade(c)
  BY DEF TakenDown
<1>3. q \in members(c)
  BY <1>1, <1>2, SizedServing
<1>4. q \in peersSeen /\ cachedPeers[q] # None
  BY <1>2, <1>3 DEF canUpgrade, canChange, hasPeerForMember, peersSeen
<1>5. q \in outdatedPeers => NameLess(q, p)
  BY DEF TakenDown, nextOutdatedPeer
<1>6. q \notin outdatedPeers => cachedPeers[q].serverVersion = cachedSpec.version
  BY <1>4 DEF outdatedPeers
<1> QED
  BY <1>4, <1>5, <1>6 DEF NewVersionStays

\* So no other member is down when it takes one down: that one would have to sort before
\* the other and after it.
LEMMA TakenAlone ==
  ASSUME IndInv, PeerInv, NewVersionStays, Sized, OneDownAtATime, cachedSpec.version # InitVersion,
         NEW p \in expectedPeerNamesForCluster(spec.replicas), p \in Ordinals, TakenDown(p),
         NEW q \in expectedPeerNamesForCluster(spec.replicas), q \in Ordinals, q # p
  PROVE  ~isDown(q)
<1> SUFFICES ASSUME isDown(q) PROVE FALSE
  OBVIOUS
<1>1. NameLess(q, p)
  BY NewVersionIsUp, TakenInTurn
<1>2. NameLess(p, q) \/ serverVersion(p) = cachedSpec.version
  BY DEF OneDownAtATime
<1>3. NameLess(p, q)
  BY <1>2, NewVersionIsUp DEF TakenDown
<1>4. p \in Nat /\ q \in Nat
  BY ConstantsAssumption DEF Ordinals
<1> QED
  BY <1>1, <1>3, <1>4, NameOrder

\* One member at a time is down, and stays the one until it reports the new version.
LEMMA OneDownKept ==
  ASSUME UpgradesOnce, MaxFaults = 0, IndInv, IndInv', PeerInv, TwoVersions, NewVersionStays, Sized,
         OneDownAtATime, [Next]_vars, spec'.replicas = spec.replicas
  PROVE  OneDownAtATime'
<1>1. TypeOK /\ TypeOK'
  BY DEF IndInv
<1>2. PICK c : c = expectedPeerNamesForCluster(spec.replicas)
  OBVIOUS
<1>3. c \subseteq Ordinals
  BY <1>1, <1>2, SpecFields, InitialNames DEF ClusterIds
<1> SUFFICES ASSUME NEW p \in c, isDown(p)'
             PROVE  /\ cachedSpec'.version # InitVersion
                    /\ \A q \in c \ {p} :
                         ~isDown(q)' /\ (NameLess(q, p) \/ serverVersion(q)' = cachedSpec'.version)
  BY <1>2 DEF OneDownAtATime
<1>4. ASSUME NEW q \in c, ~isDown(q), isDown(q)' PROVE TakenDown(q)
  BY <1>3, <1>4, GoesDown
<1>5. cachedSpec.version # InitVersion
  <2>1. CASE isDown(p)
    BY <1>2, <2>1 DEF OneDownAtATime
  <2>2. CASE ~isDown(p)
    BY <1>3, <1>4, <2>2 DEF TakenDown, TwoVersions
  <2> QED
    BY <2>1, <2>2
<1>6. cachedSpec'.version = cachedSpec.version
  BY <1>1, <1>5, WantedVersion
<1>7. ASSUME NEW q \in c, serverVersion(q) = cachedSpec.version
      PROVE  serverVersion(q)' = cachedSpec.version
  <2>1. cachedSpec.version # None
    BY <1>1, ConstantsAssumption DEF TypeOK, Spec_
  <2>2. ~rs[q].orphan
    BY <1>3, <1>5, <1>7, NewVersionIsUp
  <2> QED
    BY <1>3, <1>7, <2>1, <2>2, StaysRunning
<1>8. ASSUME NEW q \in c \ {p}
      PROVE  NameLess(q, p) \/ serverVersion(q) = cachedSpec.version
  <2>1. CASE isDown(p)
    BY <1>2, <2>1 DEF OneDownAtATime
  <2>2. CASE ~isDown(p)
    BY <1>2, <1>3, <1>4, <1>5, <2>2, TakenInTurn
  <2> QED
    BY <2>1, <2>2
<1>9. ASSUME NEW q \in c \ {p}, isDown(q)' PROVE FALSE
  <2>1. CASE isDown(p)
    <3>1. ~isDown(q)
      BY <1>2, <2>1 DEF OneDownAtATime
    <3>2. TakenDown(q)
      BY <1>4, <1>9, <3>1
    <3> QED
      BY <1>2, <1>3, <1>5, <2>1, <3>2, TakenAlone
  <2>2. CASE ~isDown(p)
    <3>1. TakenDown(p)
      BY <1>4, <2>2
    <3>2. ~isDown(q)
      BY <1>2, <1>3, <1>5, <3>1, TakenAlone
    <3>3. TakenDown(q)
      BY <1>4, <1>9, <3>2
    <3>4. NameLess(p, q) /\ NameLess(q, p)
      BY <3>1, <3>3 DEF TakenDown, nextOutdatedPeer
    <3>5. p \in Nat /\ q \in Nat
      BY <1>3, ConstantsAssumption DEF Ordinals
    <3> QED
      BY <3>4, <3>5, NameOrder
  <2> QED
    BY <2>1, <2>2
<1> QED
  BY <1>5, <1>6, <1>7, <1>8, <1>9
-----------------------------------------------------------------------------

\* UpgradeInv is inductive when there are no faults and at most one edit.
LEMMA UpgradeInvKept ==
  ASSUME MaxFaults = 0, MaxEdits <= 1, IndInv, IndInv', PeerInv, UpgradeInv, [Next]_vars
  PROVE  UpgradeInv'
<1>1. TypeOK /\ TwoVersions /\ NewVersionStays /\ (edits > 0 => spec.version = InitVersion)
  BY DEF IndInv, UpgradeInv
<1>2. SpecStep
  BY <1>1, NextSpecStep
<1>3. edits \in 0..1 /\ edits' \in 0..1
  BY ConstantsAssumption DEF IndInv, TypeOK
<1>4. UpgradesOnce /\ (edits' > 0 => spec'.version = InitVersion)
  BY <1>1, <1>2, <1>3 DEF SpecStep, Edits, UpgradesOnce
<1>5. TwoVersions'
  BY <1>1, <1>4, TwoVersionsKept
<1>6. CASE Sized /\ OneDownAtATime /\ spec'.replicas = spec.replicas
  BY <1>1, <1>4, <1>5, <1>6, NewVersionKept, SizedKept, OneDownKept DEF UpgradeInv
<1>7. CASE edits' = 0 /\ spec'.version = InitVersion
  <2>1. NewVersionStays'
    BY <1>5, <1>7 DEF TwoVersions, NewVersionStays
  <2> QED
    BY <1>5, <1>7, <2>1 DEF UpgradeInv
<1>8. CASE Sized /\ spec'.replicas # spec.replicas
  <2>1. edits > 0 /\ edits' = edits - 1 /\ spec'.version = spec.version
    BY <1>2, <1>8 DEF SpecStep, Edits
  <2>2. edits' = 0 /\ spec'.version = InitVersion
    BY <1>1, <1>3, <2>1
  <2> QED
    BY <1>7, <2>2
<1>9. CASE edits = 0 /\ spec.version = InitVersion
  <2>1. edits' = 0 /\ spec'.version = InitVersion
    BY <1>2, <1>9 DEF SpecStep, Edits
  <2> QED
    BY <1>7, <2>1
<1> QED
  BY <1>6, <1>8, <1>9 DEF UpgradeInv

\* The members found have their peers in the cache, which shows only peers that are
\* there to stay or that have yet to report the new version.
LEMMA UpgradeOrdered ==
  ASSUME IndInv, PeerInv, UpgradeInv, [Next]_vars,
         NEW p \in Ordinals, NEW q \in Ordinals,
         deletedForUpgrade(p), q # p, ~NameLess(q, p), peers[q] # None
  PROVE  peers[q].serverVersion = spec.version
<1>1. TypeOK /\ NamesAreMembers /\ TwoVersions /\ NewVersionStays
  BY DEF IndInv, UpgradeInv
<1>2. /\ peers[p] # None /\ peers[p].version # cachedSpec.version /\ nextOutdatedPeer(p)
      /\ \E c \in Serving : canUpgrade(c) /\ p \in members(c)
  BY NextPeerStep DEF deletedForUpgrade, PeerStep, PeerKept, PeerGone, PeerCreated
<1>3. cachedSpec.version # InitVersion /\ cachedSpec.version = spec.version
  BY <1>1, <1>2 DEF TwoVersions
<1>4. Sized
  BY <1>3 DEF UpgradeInv
<1>5. PICK c \in Serving : canUpgrade(c)
  BY <1>2
<1>6. q \in members(c)
  BY <1>1, <1>4, <1>5, SizedServing DEF Sized
<1>7. q \in peersSeen /\ cachedPeers[q] # None
  BY <1>5, <1>6 DEF canUpgrade, canChange, hasPeerForMember, peersSeen
<1>8. q \notin outdatedPeers
  BY <1>2 DEF nextOutdatedPeer
<1>9. cachedPeers[q].serverVersion = cachedSpec.version
  BY <1>7, <1>8 DEF outdatedPeers
<1> QED
  BY <1>1, <1>3, <1>7, <1>9 DEF NewVersionStays

\* A cluster starts with the size it is created with.
LEMMA InitSized ==
  ASSUME Init \/ Established PROVE UpgradeInv
<1>1. cachedSpec = spec /\ spec.version = InitVersion /\ TwoVersions
  BY InitVersions DEF Init, Established
<1>2. NewVersionStays
  BY <1>1 DEF NewVersionStays
<1>3. CASE Init
  <2>1. \A p \in Ordinals : peers[p] = None /\ cachedPeers[p] = None /\ pvc[p] = None /\ rs[p] = None
    BY <1>3 DEF Init
  <2>2. \A d \in ClusterIds : ~Formed(d)
    BY <1>3 DEF Init, Formed
  <2>3. PICK c : c = expectedPeerNamesForCluster(spec.replicas)
    OBVIOUS
  <2>4. c \in ClusterIds
    BY <1>3, <2>3, InitialNames DEF Init
  <2>5. OneOrigin(c)
    BY <2>1, <2>2 DEF OneOrigin
  <2>6. Sized
    BY <1>1, <2>1, <2>2, <2>3, <2>4, <2>5 DEF Sized, hasFinalizer
  <2>7. OneDownAtATime
    <3>1. \A p \in c : ~isDown(p)
      BY <2>1, <2>4 DEF isDown, ClusterIds
    <3> QED
      BY <2>3, <3>1 DEF OneDownAtATime
  <2> QED
    BY <1>1, <1>2, <2>6, <2>7 DEF UpgradeInv
<1>4. CASE Established
  <2> DEFINE c == expectedPeerNamesForCluster(spec.replicas)
             peer == [version |-> InitVersion, state |-> "New", initial |-> c,
                      finalizer |-> FALSE, deleting |-> FALSE, serverVersion |-> InitVersion]
             volume == [deleting |-> FALSE, data |-> c, tombstone |-> FALSE]
             replicaSet == [orphan |-> FALSE, version |-> InitVersion, state |-> "New",
                            initial |-> c, pod |-> "running"]
             formed == [members |-> c, named |-> c, removed |-> {}]
             unformed == [members |-> {}, named |-> {}, removed |-> {}]
  <2>1. OneOrigin(c)
    BY <1>4, EstablishedOrigin
  <2>2. /\ peers = [p \in Ordinals |-> IF p \in c THEN peer ELSE None]
        /\ cachedPeers = peers
        /\ pvc = [p \in Ordinals |-> IF p \in c THEN volume ELSE None]
        /\ rs = [p \in Ordinals |-> IF p \in c THEN replicaSet ELSE None]
        /\ etcd = [d \in ClusterIds |-> IF d = c THEN formed ELSE unformed]
    BY <1>4 DEF Established
  <2>3. /\ ~peer.finalizer /\ ~volume.deleting /\ ~volume.tombstone
        /\ replicaSet.pod = "running" /\ formed.members = c /\ ~replicaSet.orphan
    OBVIOUS
  <2>4. c \in ClusterIds
    BY <1>4, InitialNames DEF Established
  <2> HIDE DEF c, peer, volume, replicaSet, formed, unformed
  <2>5. members(c) = c
    BY <2>2, <2>3, <2>4 DEF members
  <2>6. ASSUME NEW p \in Ordinals
        PROVE  /\ peers[p] # None \/ cachedPeers[p] # None => p \in c
               /\ ~hasFinalizer(peers[p]) /\ ~hasFinalizer(cachedPeers[p])
    <3>1. cachedPeers[p] = peers[p] /\ peers[p] = IF p \in c THEN peer ELSE None
      BY <2>2
    <3> QED
      BY <2>3, <3>1 DEF hasFinalizer
  <2>7. /\ \A p \in Ordinals : pvc[p] # None => ~pvc[p].deleting /\ ~pvc[p].tombstone
        /\ \A p \in Ordinals : rs[p] # None => rs[p].pod # "exited"
    BY <2>2, <2>3
  <2>8. Sized
    BY <1>1, <2>1, <2>5, <2>6, <2>7 DEF Sized, c
  <2>9. peer # None /\ replicaSet # None
    <3>1. c \subseteq Ordinals /\ InitVersion \in Versions
      BY <2>4, ConstantsAssumption DEF ClusterIds
    <3>2. peer \in Peer /\ replicaSet \in ReplicaSet
      BY <3>1 DEF peer, replicaSet, Peer, ReplicaSet
    <3> QED
      BY <3>2, NoneAssumption
  <2>10. \A p \in c : peers[p] = peer /\ rs[p] = replicaSet
    BY <2>2, <2>4 DEF ClusterIds
  <2>11. \A p \in c : ~isDown(p)
    BY <2>3, <2>9, <2>10 DEF isDown
  <2>12. OneDownAtATime
    BY <2>11 DEF OneDownAtATime, c
  <2> QED
    BY <1>1, <1>2, <2>8, <2>12 DEF UpgradeInv
<1> QED
  BY <1>3, <1>4

\* When there are no faults and at most one edit, the upgrade has one member down at a
\* time and keeps the new version where it has got to, for a cluster of any size.
THEOREM UpgradeInvariant ==
  ASSUME MaxFaults = 0, MaxEdits <= 1
  PROVE  /\ Spec => []UpgradeInv
         /\ EstablishedSpec => []UpgradeInv
<1>1. Init \/ Established => UpgradeInv
  BY InitSized
<1>2. IndInv /\ IndInv' /\ PeerInv /\ UpgradeInv /\ [Next]_vars => UpgradeInv'
  BY UpgradeInvKept
<1> QED
  BY <1>1, <1>2, PeersCorrect, PTL DEF Spec, EstablishedSpec

\* The upgrade goes in reverse name order, for a cluster of any size: when there are no
\* faults and at most one edit, reconcile deletes a peer for the upgrade only when every
\* peer that does not sort before it reports the wanted version, though it decides by a
\* cache that may show peers that are gone and reports that are old.
THEOREM UpgradeTheorem ==
  ASSUME MaxFaults = 0, MaxEdits <= 1
  PROVE  /\ Spec => UpgradeWaits
         /\ EstablishedSpec => UpgradeWaits
<1> DEFINE Step == \A p, q \in Ordinals :
                     deletedForUpgrade(p) /\ q # p /\ ~NameLess(q, p) /\ peers[q] # None
                       => peers[q].serverVersion = spec.version
<1>1. IndInv /\ PeerInv /\ UpgradeInv /\ [Next]_vars => [Step]_vars
  BY UpgradeOrdered
<1> HIDE DEF Step
<1>2. Spec => [][Step]_vars
  BY <1>1, PeersCorrect, UpgradeInvariant, PTL DEF Spec
<1>3. EstablishedSpec => [][Step]_vars
  BY <1>1, PeersCorrect, UpgradeInvariant, PTL DEF EstablishedSpec
<1> QED
  BY <1>2, <1>3 DEF Step, UpgradeWaits

\* With one member down at most, the others are a majority of three or more.
LEMMA OneDownQuorum ==
  ASSUME IndInv, UpgradeInv PROVE UpgradeKeepsQuorum
<1> SUFFICES ASSUME spec.version # InitVersion, NEW c \in ClusterIds,
                    Cardinality(members(c)) >= 3, \A p \in members(c) : holdsData(p, c)
             PROVE  HasQuorum(c)
  BY DEF UpgradeKeepsQuorum
<1>1. Sized /\ OneDownAtATime /\ TypeOK
  BY DEF UpgradeInv, IndInv
<1> DEFINE S == members(c)
           R == {p \in S : Runs(p, c)}
<1>2. S \in SUBSET Ordinals /\ R \in SUBSET Ordinals
  BY <1>1 DEF TypeOK, Membership, members
<1>3. IsFiniteSet(S) /\ Cardinality(S) \in Nat
  BY <1>2, OrdinalsFinite
<1>4. Formed(c)
  <2>1. S # {}
    BY FS_EmptySet
  <2> QED
    BY <2>1 DEF Formed, members
<1>5. c = expectedPeerNamesForCluster(spec.replicas) /\ S = c
  BY <1>1, <1>4 DEF Sized, OneOrigin
<1>6. \A p \in S \ R : isDown(p)
  <2> SUFFICES ASSUME NEW p \in S, ~Runs(p, c) PROVE isDown(p)
    OBVIOUS
  <2>1. pvc[p] # None /\ pvc[p].data = c /\ ~pvc[p].tombstone
    BY DEF holdsData
  <2> QED
    BY <2>1 DEF isDown, Runs, ClusterIds
<1>7. 2 * Cardinality(R) > Cardinality(S)
  <2>1. CASE R = S
    <3> HIDE DEF R
    <3> QED
      BY <1>3, <2>1
  <2>2. CASE R # S
    <3>1. PICK p \in S : p \notin R
      BY <2>2
    <3>2. \A q \in S \ {p} : ~isDown(q)
      BY <1>1, <1>5, <1>6, <3>1 DEF OneDownAtATime
    <3>3. R = S \ {p}
      BY <1>6, <3>1, <3>2
    <3> HIDE DEF R, S
    <3>4. Cardinality(R) = Cardinality(S) - 1
      BY <1>3, <3>1, <3>3, FS_RemoveElement
    <3> QED
      BY <1>3, <3>4 DEF S
  <2> QED
    BY <2>1, <2>2
<1> QED
  BY <1>4, <1>7 DEF HasQuorum, Majority, members

\* An upgrade never costs a cluster of three members or more its quorum, once all of them
\* have started: when there are no faults and at most one edit, the members are taken down
\* one at a time, and each is back before the next.
THEOREM QuorumTheorem ==
  ASSUME MaxFaults = 0, MaxEdits <= 1
  PROVE  /\ Spec => []UpgradeKeepsQuorum
         /\ EstablishedSpec => []UpgradeKeepsQuorum
<1>1. IndInv /\ UpgradeInv => UpgradeKeepsQuorum
  BY OneDownQuorum
<1> QED
  BY <1>1, PeersCorrect, UpgradeInvariant, PTL
=============================================================================
