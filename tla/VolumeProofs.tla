---------------------------- MODULE VolumeProofs ----------------------------
(***************************************************************************)
(* The operator gives up no volume that etcd needs: IndInv is inductive,    *)
(* and implies FinalizerConfirmed and MemberKeepsData.                       *)
(***************************************************************************)
EXTENDS EtcdOperatorProofs

\* Invariants about etcd alone hold while its membership does not change.
LEMMA EtcdUnchanged ==
  ASSUME NamesAreMembers, InitialMembersAccountedFor, UNCHANGED etcd
  PROVE  /\ NamesAreMembers' /\ InitialMembersAccountedFor'
         /\ \A p \in Ordinals : Confirmed(p) => Confirmed(p)'
  BY DEF NamesAreMembers, InitialMembersAccountedFor, Confirmed, Formed, members

\* Volumes that do not change hold the data of the same members.
LEMMA VolumesUnchanged ==
  ASSUME DataOfMember, DeletedDataUnused, UNCHANGED <<etcd, pvc>>
  PROVE  DataOfMember' /\ DeletedDataUnused'
  BY DEF DataOfMember, DeletedDataUnused, holdsData, Formed, members

\* Nothing is scheduled.
LEMMA PodsUnscheduled ==
  ASSUME ScheduledPodHasData, UNCHANGED pvc,
         \A p \in Ordinals : rs'[p] # None /\ rs'[p].pod # "pending"
                               => rs[p] # None /\ rs[p].pod # "pending"
  PROVE  ScheduledPodHasData'
  BY DEF ScheduledPodHasData

\* No peer gets a finalizer, and what is confirmed stays so.
LEMMA FinalizersKept ==
  ASSUME FinalizerCached, UNCHANGED cachedPeers,
         \A p \in Ordinals : hasFinalizer(peers[p])' => hasFinalizer(peers[p]),
         \A p \in Ordinals : cachedPeers[p] # None /\ Confirmed(p) => Confirmed(p)'
  PROVE  FinalizerCached'
  BY DEF FinalizerCached, hasFinalizer

\* The status patch of a peer gives no peer a finalizer.
LEMMA PatchStatusFinalizers ==
  ASSUME TypeOK, NEW q \in Ordinals, NEW v, patchStatusOnly(q, v)
  PROVE  \A p \in Ordinals : hasFinalizer(peers[p])' => hasFinalizer(peers[p])
<1>1. updatePeerStatus(q, peers[q], v) # None
        => peers[q] # None /\ updatePeerStatus(q, peers[q], v).finalizer = peers[q].finalizer
  BY DEF updatePeerStatus, TypeOK, Peer
<1> QED
  BY <1>1 DEF patchStatusOnly, hasFinalizer, TypeOK

\* Deleting a peer gives no peer a finalizer and schedules no pod.
LEMMA DeletePeerFinalizers ==
  ASSUME TypeOK, NEW q, deletePeer(q)
  PROVE  /\ \A p \in Ordinals : hasFinalizer(peers[p])' => hasFinalizer(peers[p])
         /\ \A p \in Ordinals : rs'[p] # None /\ rs'[p].pod # "pending"
                               => rs[p] # None /\ rs[p].pod # "pending"
<1>1. \A p \in Ordinals : hasFinalizer(peers[p])' => hasFinalizer(peers[p])
  BY DEF deletePeer, hasFinalizer, TypeOK
<1>2. ASSUME orphanReplicaSet(q), NEW p \in Ordinals, rs'[p] # None, rs'[p].pod # "pending"
      PROVE  rs[p] # None /\ rs[p].pod # "pending"
  <2>1. rs[p] # None => [rs[p] EXCEPT !.orphan = TRUE].pod = rs[p].pod
    BY DEF TypeOK, ReplicaSet
  <2> QED
    BY <1>2, <2>1 DEF orphanReplicaSet, TypeOK
<1> QED
  BY <1>1, <1>2 DEF deletePeer
-----------------------------------------------------------------------------
(* The cluster controller. *)

\* A cluster that answers has formed.
LEMMA ServingFormed ==
  ASSUME TypeOK, NamesAreMembers, NEW c \in Serving
  PROVE  c \in ClusterIds /\ Formed(c)
  BY DEF Serving, NamesAreMembers, Formed, members

\* With one etcd cluster, the cluster that answered is the one that is changed.
LEMMA SameCluster ==
  ASSUME IndInv, OneEtcdCluster, NEW c \in Serving, NEW d \in Serving
  PROVE  c = d /\ c \in ClusterIds /\ Formed(c)
<1>1. TypeOK /\ NamesAreMembers
  BY DEF IndInv
<1>2. c \in ClusterIds /\ Formed(c) /\ d \in ClusterIds /\ Formed(d)
  BY <1>1, ServingFormed
<1> QED
  BY <1>2 DEF OneEtcdCluster

\* A new member takes a name that no cached peer has, so it is none of the peers
\* that have the finalizer; and no volume holds data of the cluster under it.
LEMMA AddMemberKeeps ==
  ASSUME IndInv, NEW d \in ClusterIds, Formed(d), NEW q \in Ordinals, q \notin peersSeen,
         memberAdd(d, q), UNCHANGED <<peers, cachedPeers, podVars>>
  PROVE  /\ NamesAreMembers' /\ FinalizerCached' /\ InitialMembersAccountedFor'
         /\ ScheduledPodHasData' /\ DataOfMember' /\ DeletedDataUnused'
<1> USE DEF IndInv
<1>1. CASE etcd' = etcd
  BY <1>1, EtcdUnchanged, VolumesUnchanged, PodsUnscheduled, FinalizersKept DEF podVars, hasFinalizer
<1>2. CASE q \notin members(d) /\ etcd' = [etcd EXCEPT ![d].members = @ \cup {q}]
  <2>1. \A c \in ClusterIds :
          /\ members(c)' = IF c = d THEN members(c) \cup {q} ELSE members(c)
          /\ etcd'[c].named = etcd[c].named /\ etcd'[c].removed = etcd[c].removed
    <3>1. etcd \in [ClusterIds -> Membership] /\ etcd[d] \in Membership
      BY DEF TypeOK
    <3>2. /\ etcd'[d] = [etcd[d] EXCEPT !.members = etcd[d].members \cup {q}]
          /\ \A c \in ClusterIds : c # d => etcd'[c] = etcd[c]
      BY <1>2, <3>1
    <3>3. /\ [etcd[d] EXCEPT !.members = etcd[d].members \cup {q}].members = etcd[d].members \cup {q}
          /\ [etcd[d] EXCEPT !.members = etcd[d].members \cup {q}].named = etcd[d].named
          /\ [etcd[d] EXCEPT !.members = etcd[d].members \cup {q}].removed = etcd[d].removed
      BY <3>1 DEF Membership
    <3> QED
      BY <3>2, <3>3 DEF members
  <2>2. \A c \in ClusterIds : Formed(c)' <=> Formed(c)
    BY <2>1 DEF Formed, members
  <2>3. NamesAreMembers' /\ InitialMembersAccountedFor'
    BY <2>1, <2>2 DEF NamesAreMembers, InitialMembersAccountedFor
  <2>4. \A p \in Ordinals : cachedPeers[p] # None /\ Confirmed(p) => Confirmed(p)'
    BY <2>1, <2>2 DEF Confirmed, peersSeen
  <2>5. FinalizerCached'
    BY <2>4, FinalizersKept DEF hasFinalizer
  <2>6. ScheduledPodHasData'
    BY PodsUnscheduled DEF podVars
  <2>7. \A p \in Ordinals, c \in ClusterIds : holdsData(p, c)' <=> holdsData(p, c)
    BY DEF holdsData, podVars
  <2>8. DataOfMember'
    BY <2>1, <2>2, <2>7 DEF DataOfMember
  <2>9. DeletedDataUnused'
    <3>1. ~holdsData(q, d)
      BY <1>2 DEF DataOfMember
    <3> QED
      BY <2>1, <2>2, <2>7, <3>1 DEF DeletedDataUnused, podVars
  <2> QED
    BY <2>3, <2>5, <2>6, <2>8, <2>9
<1> QED
  BY <1>1, <1>2 DEF memberAdd, members

\* What etcd holds of a removed member is marked as of no more use.
LEMMA RemoveMemberKeeps ==
  ASSUME IndInv, NEW d \in ClusterIds, NEW q, memberRemove(d, q), UNCHANGED <<peers, cachedPeers>>
  PROVE  /\ NamesAreMembers' /\ FinalizerCached' /\ InitialMembersAccountedFor'
         /\ ScheduledPodHasData' /\ DataOfMember' /\ DeletedDataUnused'
<1> USE DEF IndInv
<1>1. CASE UNCHANGED <<etcd, podVars>>
  BY <1>1, EtcdUnchanged, VolumesUnchanged, PodsUnscheduled, FinalizersKept DEF podVars, hasFinalizer
<1>2. CASE /\ q \in members(d) /\ members(d) # {q}
           /\ etcd' = [etcd EXCEPT ![d] = [members |-> @.members \ {q},
                          named |-> @.named \ {q}, removed |-> @.removed \cup {q}]]
           /\ pvc' = [pvc EXCEPT ![q] = IF @ # None /\ @.data = d
                                          THEN [@ EXCEPT !.tombstone = TRUE] ELSE @]
           /\ rs' = [rs EXCEPT ![q] = IF Runs(q, d) THEN [@ EXCEPT !.pod = "exited"] ELSE @]
  <2>1. /\ \A c \in ClusterIds :
             members(c)' = IF c = d THEN members(c) \ {q} ELSE members(c)
        /\ \A c \in ClusterIds :
             /\ etcd'[c].named = IF c = d THEN etcd[c].named \ {q} ELSE etcd[c].named
             /\ etcd'[c].removed = IF c = d THEN etcd[c].removed \cup {q} ELSE etcd[c].removed
    BY <1>2 DEF members, TypeOK
  <2>2. \A c \in ClusterIds : Formed(c)' <=> Formed(c)
    <3>1. members(d) \ {q} # {} /\ members(d) # {}
      BY <1>2
    <3> QED
      BY <2>1, <3>1 DEF Formed, members
  <2>3. NamesAreMembers' /\ InitialMembersAccountedFor'
    <3>1. NamesAreMembers'
      BY <2>1 DEF NamesAreMembers
    <3>2. ASSUME NEW c \in ClusterIds, Formed(c)'
          PROVE  c \subseteq members(c)' \cup etcd'[c].removed
      <4>1. c \subseteq members(c) \cup etcd[c].removed
        BY <2>2, <3>2 DEF InitialMembersAccountedFor
      <4> QED
        BY <2>1, <4>1
    <3> QED
      BY <3>1, <3>2 DEF InitialMembersAccountedFor
  <2>4. FinalizerCached'
    <3>1. \A p \in Ordinals : Confirmed(p) => Confirmed(p)'
      BY <2>1, <2>2 DEF Confirmed
    <3> QED
      BY <3>1, FinalizersKept DEF hasFinalizer
  <2>5. q \in Ordinals
    BY <1>2 DEF members, TypeOK, Membership
  <2>6. /\ \A p \in Ordinals : (pvc'[p] = None) <=> (pvc[p] = None)
        /\ \A p \in Ordinals : pvc[p] # None => pvc'[p].data = pvc[p].data
        /\ \A p \in Ordinals : pvc[p] # None => pvc'[p].deleting = pvc[p].deleting
        /\ \A p \in Ordinals : pvc[p] # None /\ pvc[p].tombstone => pvc'[p].tombstone
    <3>1. pvc[q] # None => /\ [pvc[q] EXCEPT !.tombstone = TRUE].data = pvc[q].data
                           /\ [pvc[q] EXCEPT !.tombstone = TRUE].deleting = pvc[q].deleting
                           /\ [pvc[q] EXCEPT !.tombstone = TRUE].tombstone
      BY <2>5 DEF TypeOK, Pvc
    <3>2. pvc[q] # None => [pvc[q] EXCEPT !.tombstone = TRUE] # None
      BY <2>5, PvcFields, NoneAssumption
    <3> QED
      BY <1>2, <2>5, <3>1, <3>2 DEF TypeOK
  <2>7. \A p \in Ordinals : rs'[p] # None /\ rs'[p].pod # "pending"
                           => rs[p] # None /\ rs[p].pod # "pending"
    BY <1>2 DEF Runs, TypeOK
  <2>8. ScheduledPodHasData'
    <3> SUFFICES ASSUME NEW p \in Ordinals, rs'[p] # None, rs'[p].pod # "pending"
                 PROVE  pvc'[p] # None /\ pvc'[p].data # {}
      BY DEF ScheduledPodHasData
    <3>1. pvc[p] # None /\ pvc[p].data # {}
      BY <2>7 DEF ScheduledPodHasData
    <3> QED
      BY <2>6, <3>1
  <2>9. \A p \in Ordinals, c \in ClusterIds : holdsData(p, c)' => holdsData(p, c)
    <3> SUFFICES ASSUME NEW p \in Ordinals, NEW c \in ClusterIds, holdsData(p, c)'
                 PROVE  holdsData(p, c)
      OBVIOUS
    <3>1. pvc[p] # None
      BY <2>6 DEF holdsData
    <3> QED
      BY <2>6, <3>1 DEF holdsData
  <2>10. ~holdsData(q, d)'
    <3>1. pvc[q] # None => [pvc[q] EXCEPT !.tombstone = TRUE].tombstone
      BY <2>5 DEF TypeOK, Pvc
    <3> QED
      BY <1>2, <2>5, <3>1 DEF holdsData, TypeOK
  <2>11. DataOfMember'
    BY <2>1, <2>2, <2>9, <2>10 DEF DataOfMember
  <2>12. DeletedDataUnused'
    <3> SUFFICES ASSUME NEW p \in Ordinals, pvc'[p] # None, pvc'[p].deleting
                 PROVE  \E c \in ClusterIds : Formed(c)' /\ ~(p \in members(c)' /\ holdsData(p, c)')
      BY DEF DeletedDataUnused
    <3>1. pvc[p] # None /\ pvc[p].deleting
      BY <2>6
    <3>2. PICK c \in ClusterIds : Formed(c) /\ ~(p \in members(c) /\ holdsData(p, c))
      BY <3>1 DEF DeletedDataUnused
    <3> QED
      BY <2>1, <2>2, <2>9, <3>2
  <2> QED
    BY <2>3, <2>4, <2>8, <2>11, <2>12
<1> QED
  BY <1>1, <1>2 DEF memberRemove, members

\* A step that only touches peers and ReplicaSets, gives no peer a finalizer and
\* schedules no pod keeps the whole invariant.
LEMMA PeersOnly ==
  ASSUME IndInv, TypeOK', UNCHANGED <<etcd, pvc, cachedPeers>>,
         \A p \in Ordinals : hasFinalizer(peers[p])' => hasFinalizer(peers[p]),
         \A p \in Ordinals : rs'[p] # None /\ rs'[p].pod # "pending"
                               => rs[p] # None /\ rs[p].pod # "pending"
  PROVE  IndInv'
<1>1. NamesAreMembers' /\ InitialMembersAccountedFor' /\ FinalizerCached'
  BY EtcdUnchanged, FinalizersKept DEF IndInv
<1>2. ScheduledPodHasData' /\ DataOfMember' /\ DeletedDataUnused'
  BY VolumesUnchanged, PodsUnscheduled DEF IndInv
<1> QED
  BY <1>1, <1>2 DEF IndInv

\* A reconciliation of the cluster keeps the invariant.  It gives the finalizer
\* only to peers that the cluster that answered does not list.
LEMMA ReconcileClusterKeeps ==
  ASSUME IndInv, ReconcileCluster PROVE IndInv'
<1>1. PICK c \in SUBSET Ordinals : listMembers(c) /\ reconcile(c)
  BY DEF ReconcileCluster
<1>2. TypeOK' /\ TypeOK /\ UNCHANGED cachedPeers
  BY ReconcileClusterType DEF IndInv, ReconcileCluster, cacheVars
<1>3. c # NoContact => c \in Serving
  BY <1>1 DEF listMembers
<1>4. ASSUME NEW q, NEW peer, createPeer(q, peer), ~peer.finalizer, UNCHANGED <<podVars, etcd>>
      PROVE  IndInv'
  <2>1. \A p \in Ordinals : hasFinalizer(peers[p])' => hasFinalizer(peers[p])
    BY <1>2, <1>4 DEF createPeer, hasFinalizer, TypeOK
  <2> QED
    BY <1>2, <1>4, <2>1, PeersOnly DEF podVars
<1>5. \A state, initial : peerForCluster(state, initial).finalizer = FALSE
  BY DEF peerForCluster
<1>6. CASE createService \/ nothingToDo(c)
  <2>1. UNCHANGED <<peers, pvc, rs, etcd>>
    BY <1>6 DEF createService, nothingToDo, podVars
  <2> QED
    BY <1>2, <2>1, PeersOnly DEF hasFinalizer
<1>7. CASE createBootstrapPeer(c)
  BY <1>4, <1>5, <1>7 DEF createBootstrapPeer, configurePeerBootstrap
<1>8. CASE createPeerForMember(c)
  <2>1. PICK q \in members(c) : createPeer(q, configureJoinExistingCluster(c))
    BY <1>8 DEF createPeerForMember
  <2> QED
    BY <1>4, <1>5, <1>8, <2>1 DEF createPeerForMember, configureJoinExistingCluster
<1>9. CASE addPvcFinalizer(c)
  <2>1. PICK q \in surplusPeers(c) :
          peers' = [peers EXCEPT ![q] = IF @ = None THEN @ ELSE [@ EXCEPT !.finalizer = TRUE]]
    BY <1>9 DEF addPvcFinalizer
  <2>2. UNCHANGED <<pvc, rs, etcd>> /\ c # NoContact
    BY <1>9 DEF addPvcFinalizer, canChange, podVars
  <2>3. cachedPeers[q] # None /\ Confirmed(q)
    <3>1. q \in Ordinals /\ cachedPeers[q] # None /\ q \notin members(c)
      BY DEF surplusPeers, peersSeen
    <3>2. c \in ClusterIds /\ Formed(c)
      BY <1>2, <1>3, <2>2, ServingFormed DEF IndInv
    <3> QED
      BY <3>1, <3>2 DEF Confirmed
  <2>4. NamesAreMembers' /\ InitialMembersAccountedFor'
        /\ \A p \in Ordinals : Confirmed(p) => Confirmed(p)'
    BY <2>2, EtcdUnchanged DEF IndInv
  <2>5. \A p \in Ordinals : p # q => peers'[p] = peers[p]
    BY <1>2, <2>1 DEF TypeOK
  <2>6. FinalizerCached'
    BY <1>2, <2>3, <2>4, <2>5 DEF FinalizerCached, IndInv, hasFinalizer
  <2>7. ScheduledPodHasData' /\ DataOfMember' /\ DeletedDataUnused'
    BY <2>2, VolumesUnchanged, PodsUnscheduled DEF IndInv
  <2> QED
    BY <1>2, <2>4, <2>6, <2>7 DEF IndInv
<1>10. CASE deleteSurplusPeer(c) \/ deleteOutdatedPeer(c)
  <2>1. (\E q : deletePeer(q)) /\ UNCHANGED <<pvc, etcd>>
    BY <1>10 DEF deleteSurplusPeer, deleteOutdatedPeer
  <2> QED
    BY <1>2, <2>1, DeletePeerFinalizers, PeersOnly
<1>11. CASE addNewMember(c)
  <2> DEFINE q == nextAvailablePeerName(peersSeen)
  <2>1. q \notin peersSeen /\ q \in Ordinals
    BY <1>11, NextNameIsFree DEF peersSeen, addNewMember
  <2>2. PICK d \in Serving : memberAdd(d, q)
    BY <1>11 DEF addNewMember
  <2>3. UNCHANGED <<peers, cachedPeers, podVars>>
    BY <1>2, <1>11 DEF addNewMember
  <2>4. d \in ClusterIds /\ Formed(d)
    BY <1>2, ServingFormed DEF IndInv
  <2> HIDE DEF q
  <2>5. /\ NamesAreMembers' /\ FinalizerCached' /\ InitialMembersAccountedFor'
        /\ ScheduledPodHasData' /\ DataOfMember' /\ DeletedDataUnused'
    BY <2>1, <2>2, <2>3, <2>4, AddMemberKeeps
  <2> QED
    BY <1>2, <2>5 DEF IndInv
<1>12. CASE removeMember(c)
  <2>1. UNCHANGED peers
    BY <1>12 DEF removeMember
  <2>2. CASE UNCHANGED <<etcd, podVars>>
    BY <1>2, <2>1, <2>2, PeersOnly DEF hasFinalizer, podVars
  <2>3. ASSUME NEW d \in Serving, memberRemove(d, LastByName(members(c)))
        PROVE  IndInv'
    <3>1. d \in ClusterIds
      BY DEF Serving
    <3> QED
      BY <1>2, <2>1, <2>3, <3>1, RemoveMemberKeeps DEF IndInv
  <2> QED
    BY <1>12, <2>2, <2>3 DEF removeMember
<1> QED
  BY <1>1, <1>6, <1>7, <1>8, <1>9, <1>10, <1>11, <1>12 DEF reconcile
-----------------------------------------------------------------------------
(* The peer controller. *)

\* A reconciliation of a peer keeps the invariant.  It deletes the volume of a
\* peer that the cache shows with the finalizer, hence of a confirmed one.
LEMMA ReconcilePeerKeeps ==
  ASSUME IndInv, NEW q \in Ordinals, ReconcilePeer(q) PROVE IndInv'
<1>1. /\ TypeOK /\ TypeOK' /\ UNCHANGED <<etcd, cachedPeers>>
  BY ReconcilePeerType DEF IndInv, ReconcilePeer, cacheVars
<1>2. /\ NamesAreMembers' /\ InitialMembersAccountedFor'
      /\ \A p \in Ordinals : Confirmed(p) => Confirmed(p)'
  BY <1>1, EtcdUnchanged DEF IndInv
<1>3. \A c \in ClusterIds : (Formed(c)' <=> Formed(c)) /\ members(c)' = members(c)
  BY <1>1 DEF Formed, members
<1>4. PICK v \in Versions \cup {None} :
        /\ getVersion(q, v)
        /\ \/ maybeCreatePvc(q, v) \/ createReplicaSet(q, v) \/ hasReplicaSet(q, v)
           \/ deletePvc(q, v) \/ removePvcFinalizer(q, v)
  BY DEF ReconcilePeer
<1>5. ASSUME patchStatusOnly(q, v) PROVE FinalizerCached'
  BY <1>1, <1>2, <1>5, PatchStatusFinalizers, FinalizersKept DEF IndInv
<1>6. CASE maybeCreatePvc(q, v)
  <2> DEFINE blank == [deleting |-> FALSE, data |-> {}, tombstone |-> FALSE]
  <2>1. pvc[q] = None /\ patchStatusOnly(q, v) /\ rs' = rs /\ pvc' = [pvc EXCEPT ![q] = blank]
    BY <1>6 DEF maybeCreatePvc
  <2>2. pvc'[q] = blank /\ \A p \in Ordinals : p # q => pvc'[p] = pvc[p]
    BY <1>1, <2>1 DEF TypeOK
  <2>3. ScheduledPodHasData'
    BY <2>1, <2>2 DEF ScheduledPodHasData, IndInv
  <2>4. \A p \in Ordinals, c \in ClusterIds : holdsData(p, c)' => holdsData(p, c)
    BY <2>2 DEF holdsData, ClusterIds
  <2>5. DataOfMember' /\ DeletedDataUnused'
    BY <1>3, <2>2, <2>4 DEF DataOfMember, DeletedDataUnused, IndInv
  <2> QED
    BY <1>1, <1>2, <1>5, <2>1, <2>3, <2>5 DEF IndInv
<1>7. CASE createReplicaSet(q, v)
  <2>1. rs'[q].pod = "pending" /\ \A p \in Ordinals : p # q => rs'[p] = rs[p]
    BY <1>1, <1>7 DEF createReplicaSet, TypeOK
  <2> QED
    BY <1>1, <1>7, <2>1, PeersOnly, PatchStatusFinalizers DEF createReplicaSet
<1>8. CASE hasReplicaSet(q, v)
  BY <1>1, <1>8, PeersOnly, PatchStatusFinalizers DEF hasReplicaSet, podVars
<1>9. CASE deletePvc(q, v)
  <2>1. /\ cachedPeers[q] # None /\ cachedPeers[q].finalizer /\ pvc[q] # None
        /\ pvc' = [pvc EXCEPT ![q].deleting = TRUE] /\ patchStatusOnly(q, v) /\ rs' = rs
    BY <1>9 DEF deletePvc, ReconcilePeer
  <2>2. /\ pvc'[q] # None /\ pvc'[q].data = pvc[q].data
        /\ pvc'[q].tombstone = pvc[q].tombstone
        /\ \A p \in Ordinals : p # q => pvc'[p] = pvc[p]
    <3>1. /\ [pvc[q] EXCEPT !.deleting = TRUE].data = pvc[q].data
          /\ [pvc[q] EXCEPT !.deleting = TRUE].tombstone = pvc[q].tombstone
      BY <1>1, <2>1 DEF TypeOK, Pvc
    <3>2. [pvc[q] EXCEPT !.deleting = TRUE] # None
      BY <1>1, <2>1, PvcFields, NoneAssumption
    <3> QED
      BY <1>1, <2>1, <3>1, <3>2 DEF TypeOK
  <2>3. ScheduledPodHasData'
    BY <2>1, <2>2 DEF ScheduledPodHasData, IndInv
  <2>4. \A p \in Ordinals, c \in ClusterIds : holdsData(p, c)' => holdsData(p, c)
    BY <2>1, <2>2 DEF holdsData
  <2>5. DataOfMember'
    BY <1>3, <2>4 DEF DataOfMember, IndInv
  <2>6. Confirmed(q)
    BY <2>1 DEF IndInv, FinalizerCached, hasFinalizer
  <2>7. DeletedDataUnused'
    <3>1. ASSUME NEW p \in Ordinals, p # q, pvc'[p] # None, pvc'[p].deleting
          PROVE  \E c \in ClusterIds : Formed(c)' /\ ~(p \in members(c)' /\ holdsData(p, c)')
      <4>1. pvc[p] # None /\ pvc[p].deleting
        BY <2>2, <3>1
      <4>2. PICK c \in ClusterIds : Formed(c) /\ ~(p \in members(c) /\ holdsData(p, c))
        BY <4>1 DEF DeletedDataUnused, IndInv
      <4> QED
        BY <1>3, <2>4, <4>2
    <3>2. \E c \in ClusterIds : Formed(c)' /\ q \notin members(c)'
      BY <1>3, <2>6 DEF Confirmed
    <3> QED
      BY <3>1, <3>2 DEF DeletedDataUnused
  <2> QED
    BY <1>1, <1>2, <1>5, <2>1, <2>3, <2>5, <2>7 DEF IndInv
<1>10. CASE removePvcFinalizer(q, v)
  <2> DEFINE patched == updatePeerStatus(q, peers[q], v)
  <2>1. removeFinalizer(q, patched) /\ UNCHANGED pvc
    BY <1>10 DEF removePvcFinalizer
  <2>2. \A p \in Ordinals : p # q => peers'[p] = peers[p]
    BY <1>1, <2>1 DEF removeFinalizer, TypeOK
  <2>3. ~hasFinalizer(peers[q])'
    <3>1. peers[q] # None => [patched EXCEPT !.finalizer = FALSE].finalizer = FALSE
      BY <1>1 DEF updatePeerStatus, TypeOK, Peer
    <3> HIDE DEF patched
    <3> QED
      BY <1>1, <2>1, <3>1 DEF removeFinalizer, hasFinalizer, TypeOK
  <2>4. ASSUME orphanReplicaSet(q), NEW p \in Ordinals, rs'[p] # None, rs'[p].pod # "pending"
        PROVE  rs[p] # None /\ rs[p].pod # "pending"
    <3>1. rs[p] # None => [rs[p] EXCEPT !.orphan = TRUE].pod = rs[p].pod
      BY <1>1 DEF TypeOK, ReplicaSet
    <3> QED
      BY <1>1, <2>4, <3>1 DEF orphanReplicaSet, TypeOK
  <2>5. \A p \in Ordinals : rs'[p] # None /\ rs'[p].pod # "pending"
                            => rs[p] # None /\ rs[p].pod # "pending"
    BY <2>1, <2>4 DEF removeFinalizer
  <2>6. \A p \in Ordinals : hasFinalizer(peers[p])' => hasFinalizer(peers[p])
    BY <2>2, <2>3 DEF hasFinalizer
  <2> QED
    BY <1>1, <2>1, <2>5, <2>6, PeersOnly
<1> QED
  BY <1>4, <1>6, <1>7, <1>8, <1>9, <1>10
-----------------------------------------------------------------------------
(* Kubernetes and etcd. *)

\* A process that starts keeps the invariant when it starts on data of a cluster
\* that has it as a member, and changes no volume that is being deleted.
LEMMA StartPodKeeps ==
  ASSUME IndInv, TypeOK', NEW q \in Ordinals, NEW d \in ClusterIds, startPod(q, d),
         rs[q] # None, pvc[q] # None,
         q \in (IF Formed(d) THEN members(d) ELSE d),
         pvc[q].deleting => pvc[q].data = d
  PROVE  IndInv'
<1>1. UNCHANGED <<peers, cachedPeers, etcd>> /\ TypeOK
  BY DEF startPod, cacheVars, IndInv
<1>2. NamesAreMembers' /\ InitialMembersAccountedFor' /\ FinalizerCached'
  BY <1>1, EtcdUnchanged, FinalizersKept DEF IndInv, hasFinalizer
<1>3. \A c \in ClusterIds : (Formed(c)' <=> Formed(c)) /\ members(c)' = members(c)
  BY <1>1 DEF Formed, members
<1>4. /\ pvc'[q] # None /\ pvc'[q].data = d
      /\ pvc'[q].tombstone = pvc[q].tombstone /\ pvc'[q].deleting = pvc[q].deleting
      /\ \A p \in Ordinals : p # q => pvc'[p] = pvc[p] /\ rs'[p] = rs[p]
  <2>1. pvc' = [pvc EXCEPT ![q].data = d] /\ rs' = [rs EXCEPT ![q].pod = "running"]
    BY DEF startPod
  <2>2. /\ [pvc[q] EXCEPT !.data = d].data = d
        /\ [pvc[q] EXCEPT !.data = d].tombstone = pvc[q].tombstone
        /\ [pvc[q] EXCEPT !.data = d].deleting = pvc[q].deleting
    BY <1>1 DEF TypeOK, Pvc
  <2>3. [pvc[q] EXCEPT !.data = d] # None
    BY <1>1, PvcFields, NoneAssumption DEF ClusterIds
  <2> QED
    BY <1>1, <2>1, <2>2, <2>3 DEF TypeOK
<1>5. ScheduledPodHasData'
  BY <1>4 DEF ScheduledPodHasData, IndInv, ClusterIds
<1>6. \A p \in Ordinals, c \in ClusterIds :
        holdsData(p, c)' => holdsData(p, c) \/ (p = q /\ c = d)
  BY <1>4 DEF holdsData
<1>7. DataOfMember'
  BY <1>3, <1>6 DEF DataOfMember, IndInv
<1>8. DeletedDataUnused'
  <2> SUFFICES ASSUME NEW p \in Ordinals, pvc'[p] # None, pvc'[p].deleting
               PROVE  \E c \in ClusterIds : Formed(c)' /\ ~(p \in members(c)' /\ holdsData(p, c)')
    BY DEF DeletedDataUnused
  <2>1. pvc[p] # None /\ pvc[p].deleting
    BY <1>4
  <2>2. PICK c \in ClusterIds : Formed(c) /\ ~(p \in members(c) /\ holdsData(p, c))
    BY <2>1 DEF DeletedDataUnused, IndInv
  <2>3. holdsData(p, c)' => holdsData(p, c)
    BY <1>4, <1>6, <2>1 DEF holdsData
  <2> QED
    BY <1>3, <2>2, <2>3
<1> QED
  BY <1>2, <1>5, <1>7, <1>8 DEF IndInv

\* Kubernetes and etcd going on with what they have begun keep the invariant.  A
\* process that starts on a blank volume has not been scheduled before, so that
\* volume is not being deleted.
LEMMA InfrastructureKeeps ==
  ASSUME IndInv, Infrastructure PROVE IndInv'
<1>1. TypeOK /\ TypeOK'
  BY InfrastructureType DEF IndInv
<1>2. ASSUME NEW q \in Ordinals, collectGarbage(q) PROVE IndInv'
  <2>1. /\ \A p \in Ordinals : rs'[p] # None => rs'[p] = rs[p]
        /\ UNCHANGED <<peers, cachedPeers, pvc, etcd>>
    BY <1>1, <1>2 DEF collectGarbage, TypeOK, cacheVars
  <2> QED
    BY <1>1, <2>1, PeersOnly DEF hasFinalizer
<1>3. ASSUME NEW q \in Ordinals, releasePvc(q) PROVE IndInv'
  <2>1. /\ UNCHANGED <<peers, cachedPeers, rs, etcd>>
        /\ rs[q] # None => rs[q].pod = "pending"
        /\ pvc'[q] = None /\ \A p \in Ordinals : p # q => pvc'[p] = pvc[p]
    BY <1>1, <1>3 DEF releasePvc, TypeOK, cacheVars
  <2>2. NamesAreMembers' /\ InitialMembersAccountedFor' /\ FinalizerCached'
    BY <2>1, EtcdUnchanged, FinalizersKept DEF IndInv, hasFinalizer
  <2>3. \A c \in ClusterIds : (Formed(c)' <=> Formed(c)) /\ members(c)' = members(c)
    BY <2>1 DEF Formed, members
  <2>4. ScheduledPodHasData'
    BY <2>1 DEF ScheduledPodHasData, IndInv
  <2>5. \A p \in Ordinals, c \in ClusterIds : holdsData(p, c)' => holdsData(p, c)
    BY <2>1 DEF holdsData
  <2>6. DataOfMember' /\ DeletedDataUnused'
    BY <2>1, <2>3, <2>5 DEF DataOfMember, DeletedDataUnused, IndInv
  <2> QED
    BY <1>1, <2>2, <2>4, <2>6 DEF IndInv
<1>4. ASSUME NEW q \in Ordinals, startNew(q) PROVE IndInv'
  <2> DEFINE d == rs[q].initial
  <2>1. /\ rs[q] # None /\ pvc[q] # None /\ pvc[q].data = {} /\ startPod(q, d)
        /\ q \in d /\ q \notin etcd[d].removed
    BY <1>4 DEF startNew
  <2>2. d \in ClusterIds
    BY <1>1, <2>1 DEF TypeOK, ReplicaSet, ClusterIds
  <2>3. q \in (IF Formed(d) THEN members(d) ELSE d)
    BY <2>1, <2>2 DEF InitialMembersAccountedFor, IndInv
  <2>4. ~pvc[q].deleting
    BY <2>1 DEF startPod, ScheduledPodHasData, IndInv
  <2> HIDE DEF d
  <2> QED
    BY <1>1, <2>1, <2>2, <2>3, <2>4, StartPodKeeps
<1>5. ASSUME NEW q \in Ordinals, startExisting(q) PROVE IndInv'
  <2>1. PICK d \in Serving : /\ rs[q] # None /\ pvc[q] # None /\ pvc[q].data = {}
                             /\ q \in members(d) /\ startPod(q, d)
    BY <1>5 DEF startExisting, members
  <2>2. d \in ClusterIds /\ Formed(d)
    BY <1>1, ServingFormed DEF IndInv
  <2>3. ~pvc[q].deleting
    BY <2>1 DEF startPod, ScheduledPodHasData, IndInv
  <2> QED
    BY <1>1, <2>1, <2>2, <2>3, StartPodKeeps
<1>6. ASSUME NEW q \in Ordinals, restart(q) PROVE IndInv'
  <2> DEFINE d == pvc[q].data
  <2>1. /\ rs[q] # None /\ pvc[q] # None /\ startPod(q, d)
        /\ d # {} /\ ~pvc[q].tombstone
    BY <1>6 DEF restart
  <2>2. d \in ClusterIds
    BY <1>1, <2>1 DEF TypeOK, Pvc, ClusterIds
  <2>3. q \in (IF Formed(d) THEN members(d) ELSE d)
    BY <2>1, <2>2 DEF DataOfMember, holdsData, IndInv
  <2> QED
    BY <1>1, <2>1, <2>2, <2>3, StartPodKeeps
<1>7. ASSUME NEW d \in ClusterIds, formCluster(d) PROVE IndInv'
  <2>1. ~Formed(d) /\ UNCHANGED <<peers, cachedPeers, pvc, rs>>
    BY <1>7 DEF formCluster, podVars, cacheVars
  <2>2. PICK S \in SUBSET d :
          etcd' = [etcd EXCEPT ![d] = [members |-> d, named |-> S, removed |-> {}]]
    BY <1>7 DEF formCluster
  <2>3. /\ members(d)' = d /\ etcd'[d].named = S
        /\ \A c \in ClusterIds : c # d => etcd'[c] = etcd[c]
    BY <1>1, <2>2 DEF members, TypeOK
  <2>4. \A c \in ClusterIds : Formed(c) => Formed(c)' /\ members(c)' = members(c) /\ c # d
    BY <2>1, <2>3 DEF Formed, members
  <2>5. NamesAreMembers' /\ InitialMembersAccountedFor'
    BY <2>3 DEF NamesAreMembers, InitialMembersAccountedFor, IndInv, Formed, members
  <2>6. FinalizerCached'
    <3>1. \A p \in Ordinals : Confirmed(p) => Confirmed(p)'
      BY <2>4 DEF Confirmed
    <3> QED
      BY <2>1, <3>1, FinalizersKept DEF hasFinalizer, IndInv
  <2>7. ScheduledPodHasData'
    BY <2>1, PodsUnscheduled DEF IndInv
  <2>8. \A p \in Ordinals, c \in ClusterIds : holdsData(p, c)' <=> holdsData(p, c)
    BY <2>1 DEF holdsData
  <2>9. DataOfMember'
    BY <2>1, <2>3, <2>8 DEF DataOfMember, IndInv, Formed, members
  <2>10. DeletedDataUnused'
    BY <2>1, <2>4, <2>8 DEF DeletedDataUnused, IndInv
  <2> QED
    BY <1>1, <2>5, <2>6, <2>7, <2>9, <2>10 DEF IndInv
<1>8. ASSUME NEW d \in ClusterIds, NEW q \in Ordinals, publish(q, d) PROVE IndInv'
  <2>1. /\ q \in members(d) /\ UNCHANGED <<peers, cachedPeers, pvc, rs>>
        /\ etcd' = [etcd EXCEPT ![d].named = @ \cup {q}]
    BY <1>8 DEF publish, podVars, cacheVars, members
  <2>2. \A c \in ClusterIds :
          /\ members(c)' = members(c) /\ etcd'[c].removed = etcd[c].removed
          /\ etcd'[c].named \subseteq etcd[c].named \cup {q}
          /\ c # d => etcd'[c].named = etcd[c].named
    BY <1>1, <2>1 DEF members, TypeOK, Membership
  <2>3. \A c \in ClusterIds : Formed(c)' <=> Formed(c)
    BY <2>2 DEF Formed, members
  <2>4. NamesAreMembers' /\ InitialMembersAccountedFor'
    BY <2>1, <2>2, <2>3 DEF NamesAreMembers, InitialMembersAccountedFor, IndInv
  <2>5. FinalizerCached'
    <3>1. \A p \in Ordinals : Confirmed(p) => Confirmed(p)'
      BY <2>2, <2>3 DEF Confirmed
    <3> QED
      BY <2>1, <3>1, FinalizersKept DEF hasFinalizer, IndInv
  <2>6. ScheduledPodHasData'
    BY <2>1, PodsUnscheduled DEF IndInv
  <2>7. \A p \in Ordinals, c \in ClusterIds : holdsData(p, c)' <=> holdsData(p, c)
    BY <2>1 DEF holdsData
  <2>8. DataOfMember' /\ DeletedDataUnused'
    BY <2>1, <2>2, <2>3, <2>7 DEF DataOfMember, DeletedDataUnused, IndInv
  <2> QED
    BY <1>1, <2>4, <2>5, <2>6, <2>8 DEF IndInv
<1> QED
  BY <1>2, <1>3, <1>4, <1>5, <1>6, <1>7, <1>8 DEF Infrastructure
-----------------------------------------------------------------------------
(* The whole system. *)

\* Every step of the system keeps the invariant.
LEMMA NextKeeps ==
  ASSUME IndInv, [Next]_vars PROVE IndInv'
<1>1. TypeOK'
  BY TypeInvariant DEF IndInv
<1>2. CASE ReconcileCluster
  BY <1>2, ReconcileClusterKeeps
<1>3. CASE ReconcileAnyPeer
  BY <1>3, ReconcilePeerKeeps DEF ReconcileAnyPeer
<1>4. CASE Infrastructure
  BY <1>4, InfrastructureKeeps
<1>5. CASE syncSpec \/ ValidateUpdate \/ UNCHANGED vars
  <2>1. UNCHANGED <<peers, cachedPeers, pvc, rs, etcd>>
    BY <1>5 DEF syncSpec, ValidateUpdate, vars, cacheVars, podVars
  <2> QED
    BY <1>1, <2>1, PeersOnly DEF hasFinalizer
<1>6. CASE syncPeers
  <2>1. cachedPeers' = peers /\ UNCHANGED <<peers, pvc, rs, etcd>>
    BY <1>6 DEF syncPeers, podVars
  <2>2. /\ NamesAreMembers' /\ InitialMembersAccountedFor'
        /\ \A p \in Ordinals : Confirmed(p) => Confirmed(p)'
    BY <2>1, EtcdUnchanged DEF IndInv
  <2>3. FinalizerCached'
    BY <2>1, <2>2 DEF FinalizerCached, hasFinalizer, IndInv
  <2>4. ScheduledPodHasData' /\ DataOfMember' /\ DeletedDataUnused'
    BY <2>1, VolumesUnchanged, PodsUnscheduled DEF IndInv
  <2> QED
    BY <1>1, <2>2, <2>3, <2>4 DEF IndInv
<1>7. ASSUME NEW q \in Ordinals, crash(q) PROVE IndInv'
  <2>1. /\ UNCHANGED <<peers, cachedPeers, pvc, etcd>>
        /\ rs[q] # None /\ rs[q].pod # "pending"
        /\ \A p \in Ordinals : p # q => rs'[p] = rs[p]
    BY <1>7 DEF crash, cacheVars, IndInv, TypeOK
  <2> QED
    BY <1>1, <2>1, PeersOnly DEF hasFinalizer
<1> QED
  BY <1>2, <1>3, <1>4, <1>5, <1>6, <1>7 DEF Next

\* The invariant holds before the cluster exists.
LEMMA InitEstablishes ==
  ASSUME Init PROVE IndInv
<1>1. TypeOK
  BY InitType
<1>2. /\ \A p \in Ordinals : peers[p] = None /\ cachedPeers[p] = None /\ pvc[p] = None /\ rs[p] = None
      /\ \A c \in ClusterIds : members(c) = {} /\ etcd[c].named = {} /\ ~Formed(c)
  BY DEF Init, members, Formed
<1>3. NamesAreMembers /\ FinalizerCached /\ InitialMembersAccountedFor
  BY <1>2 DEF NamesAreMembers, FinalizerCached, hasFinalizer, InitialMembersAccountedFor
<1>4. ScheduledPodHasData /\ DataOfMember /\ DeletedDataUnused
  BY <1>2 DEF ScheduledPodHasData, DataOfMember, DeletedDataUnused, holdsData
<1> QED
  BY <1>1, <1>3, <1>4 DEF IndInv

\* IndInv is an invariant of the whole system for every size of cluster, every
\* set of versions and any number of edits and faults.
THEOREM VolumeInvariant == Spec => []IndInv
<1>1. Init => IndInv
  BY InitEstablishes
<1>2. IndInv /\ [Next]_vars => IndInv'
  BY NextKeeps
<1> QED
  BY <1>1, <1>2, PTL DEF Spec

\* The PVC cleanup finalizer, which makes the peer controller delete a volume, is
\* only ever on peers that a cluster in operation does not list.
THEOREM FinalizerTheorem == Spec => []FinalizerConfirmed
<1>1. IndInv => FinalizerConfirmed
  BY DEF IndInv, FinalizerCached, FinalizerConfirmed, Confirmed
<1> QED
  BY <1>1, VolumeInvariant, PTL

\* No step takes the data of a member away while there is one etcd cluster: a
\* volume that is being deleted is of no use to it, a process that starts on a
\* volume with data keeps it, and a member whose data is retired is removed.
LEMMA StepKeepsData ==
  ASSUME IndInv, Next, OneEtcdCluster, NEW c \in ClusterIds, NEW p \in members(c),
         holdsData(p, c)
  PROVE  holdsData(p, c)' \/ p \notin members(c)'
<1>1. p \in Ordinals /\ TypeOK /\ Formed(c)
  BY DEF IndInv, TypeOK, Membership, members, Formed
<1>2. pvc[p] # None /\ pvc[p].data = c /\ ~pvc[p].tombstone /\ c # {}
  BY DEF holdsData, ClusterIds
<1>3. CASE UNCHANGED pvc
  BY <1>2, <1>3 DEF holdsData
<1>4. ASSUME NEW q \in Ordinals, NEW v, maybeCreatePvc(q, v) PROVE holdsData(p, c)'
  <2>1. p # q /\ pvc'[p] = pvc[p]
    BY <1>1, <1>2, <1>4 DEF maybeCreatePvc, TypeOK
  <2> QED
    BY <1>2, <2>1 DEF holdsData
<1>5. ASSUME NEW q \in Ordinals, NEW v, deletePvc(q, v) PROVE holdsData(p, c)'
  <2>1. pvc' = [pvc EXCEPT ![q].deleting = TRUE]
    BY <1>5 DEF deletePvc
  <2>2. /\ [pvc[p] EXCEPT !.deleting = TRUE].data = pvc[p].data
        /\ [pvc[p] EXCEPT !.deleting = TRUE].tombstone = pvc[p].tombstone
    BY <1>1, <1>2 DEF TypeOK, Pvc
  <2>3. [pvc[p] EXCEPT !.deleting = TRUE] # None
    BY <1>1, <1>2, PvcFields, NoneAssumption
  <2> QED
    BY <1>1, <1>2, <2>1, <2>2, <2>3 DEF holdsData, TypeOK
<1>6. ASSUME NEW q \in Ordinals, releasePvc(q) PROVE holdsData(p, c)'
  <2>1. p # q
    <3>1. ASSUME pvc[p].deleting PROVE FALSE
      BY <1>1, <1>2, <3>1 DEF DeletedDataUnused, IndInv, OneEtcdCluster
    <3> QED
      BY <1>6, <3>1 DEF releasePvc
  <2>2. pvc'[p] = pvc[p]
    BY <1>1, <1>6, <2>1 DEF releasePvc, TypeOK
  <2> QED
    BY <1>2, <2>2 DEF holdsData
<1>7. ASSUME NEW q \in Ordinals, NEW d, startPod(q, d), q = p => d = c PROVE holdsData(p, c)'
  <2>1. pvc' = [pvc EXCEPT ![q].data = d]
    BY <1>7 DEF startPod
  <2>2. /\ [pvc[p] EXCEPT !.data = c].data = c
        /\ [pvc[p] EXCEPT !.data = c].tombstone = pvc[p].tombstone
    <3>1. pvc[p] \in Pvc
      BY <1>1, <1>2 DEF TypeOK, holdsData
    <3> QED
      BY <3>1 DEF Pvc
  <2>3. [pvc[p] EXCEPT !.data = c] # None
    <3>1. pvc[p] # None /\ p \in Ordinals /\ c \in SUBSET Ordinals /\ TypeOK
      BY <1>1, <1>2 DEF ClusterIds, holdsData
    <3>2. [pvc[p] EXCEPT !.data = c] \in Pvc
      BY <3>1, PvcFields
    <3> QED
      BY <3>2, NoneAssumption
  <2> QED
    BY <1>1, <1>2, <1>7, <2>1, <2>2, <2>3 DEF holdsData, TypeOK
<1>8. ASSUME NEW q \in Ordinals, startNew(q) \/ startExisting(q) \/ restart(q)
      PROVE  holdsData(p, c)'
  BY <1>2, <1>7, <1>8 DEF startNew, startExisting, restart
<1>9. ASSUME NEW d \in ClusterIds, NEW q, memberRemove(d, q)
      PROVE  holdsData(p, c)' \/ p \notin members(c)'
  <2>1. CASE UNCHANGED pvc
    BY <1>3, <2>1
  <2>2. CASE /\ etcd' = [etcd EXCEPT ![d] = [members |-> @.members \ {q},
                           named |-> @.named \ {q}, removed |-> @.removed \cup {q}]]
             /\ pvc' = [pvc EXCEPT ![q] = IF @ # None /\ @.data = d
                                           THEN [@ EXCEPT !.tombstone = TRUE] ELSE @]
    <3>1. CASE p = q /\ c = d
      BY <1>1, <2>2, <3>1 DEF members, TypeOK
    <3>2. CASE ~(p = q /\ c = d)
      <4>1. pvc'[p] = pvc[p]
        BY <1>1, <1>2, <2>2, <3>2 DEF TypeOK
      <4> QED
        BY <1>2, <4>1 DEF holdsData
    <3> QED
      BY <3>1, <3>2
  <2> QED
    BY <1>9, <2>1, <2>2 DEF memberRemove, podVars
<1>10. CASE ReconcileCluster
  <2>1. \/ UNCHANGED pvc
        \/ \E d \in Serving : \E q : memberRemove(d, q)
    BY <1>10 DEF ReconcileCluster, reconcile, createService, createBootstrapPeer,
         createPeerForMember, addPvcFinalizer, deleteSurplusPeer, deleteOutdatedPeer,
         addNewMember, removeMember, nothingToDo, podVars
  <2> QED
    BY <1>3, <1>9, <2>1 DEF Serving
<1>11. CASE ReconcileAnyPeer
  BY <1>3, <1>4, <1>5, <1>11 DEF ReconcileAnyPeer, ReconcilePeer, createReplicaSet,
       hasReplicaSet, removePvcFinalizer, podVars
<1>12. CASE Infrastructure
  BY <1>3, <1>6, <1>8, <1>12 DEF Infrastructure, collectGarbage, formCluster, publish, podVars
<1>13. CASE syncSpec \/ syncPeers \/ ValidateUpdate \/ \E q \in Ordinals : crash(q)
  BY <1>3, <1>13 DEF syncSpec, syncPeers, ValidateUpdate, crash, podVars
<1> QED
  BY <1>10, <1>11, <1>12, <1>13 DEF Next

\* The invariant holds of a cluster that has bootstrapped and settled.
LEMMA EstablishedHolds ==
  ASSUME Established PROVE IndInv
<1> DEFINE c == expectedPeerNamesForCluster(spec.replicas)
           peer == [version |-> InitVersion, state |-> "New", initial |-> c,
                    finalizer |-> FALSE, deleting |-> FALSE, serverVersion |-> InitVersion]
           volume == [deleting |-> FALSE, data |-> c, tombstone |-> FALSE]
           replicaSet == [orphan |-> FALSE, version |-> InitVersion, state |-> "New",
                          initial |-> c, pod |-> "running"]
           formed == [members |-> c, named |-> c, removed |-> {}]
           unformed == [members |-> {}, named |-> {}, removed |-> {}]
<1>1. c \in ClusterIds /\ spec.replicas \in Nat
  <2>1. spec.replicas \in 1..(MaxOrdinal + 1)
    BY ConstantsAssumption DEF Established
  <2>2. 0 \in c /\ c \subseteq Ordinals /\ spec.replicas \in Nat
    BY <2>1, ConstantsAssumption DEF expectedPeerNamesForCluster, Ordinals
  <2> QED
    BY <2>2 DEF ClusterIds
<1>2. /\ peers = [p \in Ordinals |-> IF p \in c THEN peer ELSE None]
      /\ cachedPeers = peers
      /\ pvc = [p \in Ordinals |-> IF p \in c THEN volume ELSE None]
      /\ rs = [p \in Ordinals |-> IF p \in c THEN replicaSet ELSE None]
      /\ etcd = [d \in ClusterIds |-> IF d = c THEN formed ELSE unformed]
      /\ status = [replicas |-> spec.replicas, members |-> c]
  BY DEF Established
<1>3. TypeOK
  <2>1. spec \in Spec_ /\ cachedSpec \in Spec_
    <3>1. spec \in [replicas : InitReplicas, version : {InitVersion}] /\ cachedSpec = spec
      BY DEF Established
    <3> QED
      BY <3>1, ConstantsAssumption DEF Spec_
  <2>2. edits \in 0..MaxEdits /\ faults \in 0..MaxFaults
    BY ConstantsAssumption DEF Established
  <2>3. service \in BOOLEAN
    BY DEF Established
  <2> HIDE DEF c
  <2>4. c \in SUBSET Ordinals
    BY <1>1 DEF ClusterIds
  <2>5. peer \in Peer /\ volume \in Pvc /\ replicaSet \in ReplicaSet
    BY <2>4, ConstantsAssumption DEF Peer, Pvc, ReplicaSet
  <2>6. formed \in Membership /\ unformed \in Membership /\ status \in Status
    BY <1>1, <1>2, <2>4 DEF Membership, Status
  <2> HIDE DEF peer, volume, replicaSet, formed, unformed
  <2> QED
    BY <1>2, <2>1, <2>2, <2>3, <2>5, <2>6 DEF TypeOK
<1> HIDE DEF c
<1>4. /\ Formed(c) /\ members(c) = c /\ etcd[c].named = c
      /\ \A d \in ClusterIds : d # c => members(d) = {} /\ etcd[d].named = {} /\ ~Formed(d)
  <2>1. c # {}
    BY <1>1 DEF ClusterIds
  <2> QED
    BY <1>1, <1>2, <2>1 DEF Formed, members
<1>5. /\ \A p \in Ordinals : ~hasFinalizer(peers[p]) /\ ~hasFinalizer(cachedPeers[p])
      /\ \A p \in Ordinals : pvc[p] # None => p \in c /\ pvc[p].data = c /\ ~pvc[p].deleting
  BY <1>2 DEF hasFinalizer
<1>6. NamesAreMembers /\ FinalizerCached /\ InitialMembersAccountedFor
  BY <1>4, <1>5 DEF NamesAreMembers, FinalizerCached, InitialMembersAccountedFor
<1>7. ScheduledPodHasData
  <2>1. volume \in Pvc /\ c # {}
    BY <1>1 DEF Pvc, ClusterIds
  <2>2. volume # None /\ volume.data # {}
    BY <2>1, NoneAssumption
  <2> QED
    BY <1>2, <2>2 DEF ScheduledPodHasData
<1>8. DataOfMember /\ DeletedDataUnused
  BY <1>4, <1>5 DEF DataOfMember, DeletedDataUnused, holdsData
<1> QED
  BY <1>3, <1>6, <1>7, <1>8 DEF IndInv

\* The same holds of a cluster that has bootstrapped and settled, from where the
\* scaling and upgrade runs start.
THEOREM EstablishedTheorem == EstablishedSpec => []IndInv /\ []FinalizerConfirmed
<1>1. Established => IndInv
  BY EstablishedHolds
<1>2. IndInv /\ [Next]_vars => IndInv'
  BY NextKeeps
<1>3. IndInv => FinalizerConfirmed
  BY DEF IndInv, FinalizerCached, FinalizerConfirmed, Confirmed
<1> QED
  BY <1>1, <1>2, <1>3, PTL DEF EstablishedSpec

\* Whatever the controllers delete and recreate, and whichever calls are lost, no
\* member of the one etcd cluster loses the volume with its data.
THEOREM MemberKeepsDataTheorem ==
  /\ Spec => MemberKeepsData
  /\ EstablishedSpec => MemberKeepsData
<1> DEFINE Kept == \A c \in ClusterIds : \A p \in members(c) :
                     OneEtcdCluster /\ holdsData(p, c) => holdsData(p, c)' \/ p \notin members(c)'
<1>1. IndInv /\ [Next]_vars => [Kept]_vars
  BY StepKeepsData
<1> HIDE DEF Kept
<1>2. Spec => [][Kept]_vars
  BY <1>1, VolumeInvariant, PTL DEF Spec
<1>3. EstablishedSpec => [][Kept]_vars
  BY <1>1, EstablishedTheorem, PTL DEF EstablishedSpec
<1> QED
  BY <1>2, <1>3 DEF MemberKeepsData, Kept
=============================================================================
