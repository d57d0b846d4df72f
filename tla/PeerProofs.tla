----------------------------- MODULE PeerProofs -----------------------------
(***************************************************************************)
(* A name that several peers have in turn: what the cache, the API server,  *)
(* a ReplicaSet and a volume hold of it is of the same peer where it        *)
(* matters.  PeerInv is inductive; with it, the peers that join have the     *)
(* membership that etcd expects, and no member starts on leftover data.      *)
(***************************************************************************)
EXTENDS VolumeProofs

(* What a step may do to the membership of an etcd cluster. *)

\* Cluster d forms, of members that run.
Forms(d) ==
  /\ \E p \in d : Runs(p, d)
  /\ ~Formed(d) /\ members(d)' = d /\ etcd'[d].named \subseteq d
  /\ \A c \in ClusterIds : c # d => etcd'[c] = etcd[c]
  /\ UNCHANGED <<peers, cachedPeers, pvc, rs>>

\* Member q of d gets its name.
Publishes(d, q) ==
  /\ \A c \in ClusterIds : members(c)' = members(c)
  /\ \A c \in ClusterIds : etcd[c].named \subseteq etcd'[c].named
  /\ UNCHANGED <<peers, cachedPeers, pvc, rs>>

\* A cluster was found with all its members started and in the cache, where every peer
\* reports the wanted version.
FoundStable ==
  /\ \E c \in Serving :
       members(c) \subseteq etcd[c].named /\ \A p \in members(c) : cachedPeers[p] # None
  /\ outdatedPeers = {}

\* A member is announced to d under a name that no cached peer has.
Adds(d, q) ==
  /\ d \in Serving /\ FoundStable /\ \E c \in Serving : hasTooFewMembers(c)
  /\ q \notin members(d) /\ cachedPeers[q] = None
  /\ members(d)' = members(d) \cup {q} /\ etcd'[d].named = etcd[d].named
  /\ \A c \in ClusterIds : c # d => etcd'[c] = etcd[c]
  /\ UNCHANGED <<peers, cachedPeers, pvc, rs>>

\* Member q of d is removed, by a majority that does not consist of it.
Removes(d, q) ==
  /\ d \in Serving /\ FoundStable /\ \E c \in Serving : hasTooManyMembers(c)
  /\ q \in members(d) /\ \E p \in members(d) \ {q} : Runs(p, d)
  /\ members(d)' = members(d) \ {q} /\ etcd'[d].named = etcd[d].named \ {q}
  /\ \A c \in ClusterIds : c # d => etcd'[c] = etcd[c]
  /\ UNCHANGED <<peers, cachedPeers>>

EtcdStep ==
  \/ UNCHANGED etcd
  \/ \E d \in ClusterIds : Forms(d) \/ \E q \in Ordinals : Publishes(d, q) \/ Adds(d, q) \/ Removes(d, q)

\* Past the guards of reconcile the cluster that answered is stable.
LEMMA CanScaleFound ==
  ASSUME NEW c, listMembers(c), canScale(c) PROVE FoundStable /\ c \in Serving
<1>1. /\ c \in Serving /\ members(c) \subseteq etcd[c].named /\ outdatedPeers = {}
      /\ \A p \in members(c) : hasPeerForMember(p)
  BY DEF listMembers, canScale, canUpgrade, canChange, isAllMembersStable
<1> QED
  BY <1>1 DEF FoundStable, hasPeerForMember, peersSeen

\* A majority of two members or more has one besides any given one.
LEMMA QuorumBeside ==
  ASSUME TypeOK, NEW d \in ClusterIds, HasQuorum(d), NEW q \in members(d), members(d) # {q}
  PROVE  \E p \in members(d) \ {q} : Runs(p, d)
<1> DEFINE S == members(d)
           R == {p \in S : Runs(p, d)}
<1>1. S \in SUBSET Ordinals /\ R \in SUBSET S /\ 2 * Cardinality(R) > Cardinality(S)
  BY DEF TypeOK, Membership, members, HasQuorum, Majority
<1> SUFFICES ASSUME R \subseteq {q} PROVE FALSE
  OBVIOUS
<1> HIDE DEF R, S
<1>2. Cardinality(R) <= 1
  <2>1. IsFiniteSet({q}) /\ Cardinality({q}) = 1
    BY FS_Singleton
  <2> QED
    BY <2>1, FS_Subset
<1>3. IsFiniteSet(S) /\ Cardinality(S) \in Nat /\ Cardinality(R) \in Nat
  BY <1>1, OrdinalsFinite
<1>4. Cardinality(S) = 1
  <2>1. Cardinality(S) # 0
    BY <1>3, FS_EmptySet DEF S
  <2> QED
    BY <1>1, <1>2, <1>3, <2>1
<1>5. PICK x : S = {x}
  BY <1>3, <1>4, FS_Singleton
<1> QED
  BY <1>5 DEF S

\* MembersAPI.Remove removes a member, its process and its data, or does nothing.
LEMMA RemoveIsRemoves ==
  ASSUME TypeOK, FoundStable, \E c \in Serving : hasTooManyMembers(c), NEW d \in Serving, NEW q,
         memberRemove(d, q), UNCHANGED <<peers, cachedPeers>>
  PROVE  \/ UNCHANGED <<etcd, pvc, rs>>
         \/ /\ q \in Ordinals /\ Removes(d, q)
            /\ pvc' = [pvc EXCEPT ![q] = IF @ # None /\ @.data = d
                                           THEN [@ EXCEPT !.tombstone = TRUE] ELSE @]
            /\ rs' = [rs EXCEPT ![q] = IF Runs(q, d) THEN [@ EXCEPT !.pod = "exited"] ELSE @]
<1>1. CASE UNCHANGED <<etcd, podVars>>
  BY <1>1 DEF podVars
<1>2. CASE /\ HasQuorum(d) /\ q \in etcd[d].members /\ etcd[d].members # {q}
           /\ etcd' = [etcd EXCEPT ![d] = [members |-> @.members \ {q},
                          named |-> @.named \ {q}, removed |-> @.removed \cup {q}]]
           /\ pvc' = [pvc EXCEPT ![q] = IF @ # None /\ @.data = d
                                          THEN [@ EXCEPT !.tombstone = TRUE] ELSE @]
           /\ rs' = [rs EXCEPT ![q] = IF Runs(q, d) THEN [@ EXCEPT !.pod = "exited"] ELSE @]
  <2>1. d \in ClusterIds /\ q \in Ordinals
    BY <1>2 DEF Serving, TypeOK, Membership
  <2>2. \E p \in members(d) \ {q} : Runs(p, d)
    BY <1>2, <2>1, QuorumBeside DEF members
  <2>3. Removes(d, q)
    BY <1>2, <2>1, <2>2 DEF Removes, members, TypeOK
  <2> QED
    BY <1>2, <2>1, <2>3
<1> QED
  BY <1>1, <1>2 DEF memberRemove

\* Every step of the system is one of these for etcd.
LEMMA NextEtcdStep ==
  ASSUME IndInv, [Next]_vars PROVE EtcdStep
<1>1. TypeOK
  BY DEF IndInv
<1>2. CASE ReconcileCluster
  <2>1. PICK c \in SUBSET Ordinals : listMembers(c) /\ reconcile(c)
    BY <1>2 DEF ReconcileCluster
  <2>2. UNCHANGED cachedPeers
    BY <1>2 DEF ReconcileCluster, cacheVars
  <2>3. CASE addNewMember(c)
    <3> DEFINE q == nextAvailablePeerName(peersSeen)
    <3>1. /\ q \in Ordinals /\ FoundStable /\ UNCHANGED <<peers, pvc, rs>>
          /\ c \in Serving /\ hasTooFewMembers(c)
      BY <2>1, <2>3, CanScaleFound DEF addNewMember, podVars
    <3>2. q \notin peersSeen
      BY NextNameIsFree DEF peersSeen
    <3>3. PICK d \in Serving : memberAdd(d, q)
      BY <2>3 DEF addNewMember
    <3> HIDE DEF q
    <3>4. d \in ClusterIds /\ cachedPeers[q] = None
      BY <3>1, <3>2 DEF Serving, peersSeen
    <3>5. CASE etcd' = etcd
      BY <3>5 DEF EtcdStep
    <3>6. CASE q \notin etcd[d].members /\ etcd' = [etcd EXCEPT ![d].members = @ \cup {q}]
      <4>1. /\ etcd'[d].members = etcd[d].members \cup {q} /\ etcd'[d].named = etcd[d].named
            /\ \A e \in ClusterIds : e # d => etcd'[e] = etcd[e]
        BY <1>1, <3>4, <3>6 DEF TypeOK, Membership
      <4>2. Adds(d, q)
        BY <2>2, <3>1, <3>4, <3>6, <4>1 DEF Adds, members
      <4> QED
        BY <3>1, <3>4, <4>2 DEF EtcdStep
    <3> QED
      BY <3>3, <3>5, <3>6 DEF memberAdd
  <2>4. CASE removeMember(c)
    <3>1. FoundStable /\ UNCHANGED peers /\ c \in Serving /\ hasTooManyMembers(c)
      BY <2>1, <2>4, CanScaleFound DEF removeMember
    <3>2. UNCHANGED etcd \/ \E d \in Serving, q \in Ordinals : Removes(d, q)
      BY <1>1, <2>2, <2>4, <3>1, RemoveIsRemoves DEF removeMember
    <3> QED
      BY <3>2 DEF EtcdStep, Serving
  <2>5. CASE ~addNewMember(c) /\ ~removeMember(c)
    BY <2>1, <2>5 DEF EtcdStep, reconcile, createService, createBootstrapPeer,
         createPeerForMember, addPvcFinalizer, deleteSurplusPeer, deleteOutdatedPeer, nothingToDo
  <2> QED
    BY <2>3, <2>4, <2>5
<1>3. ASSUME NEW d \in ClusterIds, formCluster(d) PROVE Forms(d)
  <2>1. PICK S \in SUBSET d :
          etcd' = [etcd EXCEPT ![d] = [members |-> d, named |-> S, removed |-> {}]]
    BY <1>3 DEF formCluster
  <2>2. ~Formed(d) /\ UNCHANGED <<peers, cachedPeers, pvc, rs>>
    BY <1>3 DEF formCluster, cacheVars, podVars
  <2>3. \E p \in d : Runs(p, d)
    <3>1. 2 * Cardinality({p \in d : Runs(p, d)}) > Cardinality(d) /\ Cardinality(d) \in Nat
      BY <1>3, OrdinalsFinite DEF formCluster, Majority, ClusterIds
    <3>2. {p \in d : Runs(p, d)} # {}
      BY <3>1, FS_EmptySet
    <3> QED
      BY <3>2
  <2> QED
    BY <1>1, <2>1, <2>2, <2>3 DEF Forms, members, TypeOK
<1>4. ASSUME NEW d \in ClusterIds, NEW q \in Ordinals, publish(q, d) PROVE Publishes(d, q)
  <2>1. etcd' = [etcd EXCEPT ![d].named = @ \cup {q}] /\ UNCHANGED <<peers, cachedPeers, pvc, rs>>
    BY <1>4 DEF publish, cacheVars, podVars
  <2>2. \A c \in ClusterIds : etcd'[c].members = etcd[c].members
                             /\ etcd[c].named \subseteq etcd'[c].named
    BY <1>1, <2>1 DEF TypeOK, Membership
  <2> QED
    BY <2>1, <2>2 DEF Publishes, members
<1>5. CASE Infrastructure
  BY <1>3, <1>4, <1>5 DEF EtcdStep, Infrastructure, collectGarbage, releasePvc, startNew,
       startExisting, restart, startPod
<1>6. CASE ReconcileAnyPeer \/ syncSpec \/ syncPeers \/ ValidateUpdate
           \/ (\E p \in Ordinals : crash(p)) \/ UNCHANGED vars
  BY <1>6 DEF EtcdStep, ReconcileAnyPeer, ReconcilePeer, syncSpec, syncPeers, ValidateUpdate,
       crash, vars
<1> QED
  BY <1>2, <1>5, <1>6 DEF Next

\* A cluster that has formed stays formed, so one that there is one of stays so only
\* if no other forms.
LEMMA FormedStays ==
  ASSUME IndInv, [Next]_vars
  PROVE  /\ \A c \in ClusterIds : Formed(c) => Formed(c)'
         /\ OneEtcdCluster' => OneEtcdCluster
<1>1. EtcdStep
  BY NextEtcdStep
<1>2. \A c \in ClusterIds : Formed(c) => Formed(c)'
  BY <1>1 DEF EtcdStep, Forms, Publishes, Adds, Removes, Formed, members
<1> QED
  BY <1>2 DEF OneEtcdCluster

\* What is stored outlives every step.
LEMMA DataKept ==
  ASSUME IndInv, DataSurvives, [Next]_vars PROVE DataSurvives'
<1> SUFFICES ASSUME OneEtcdCluster', NEW c \in ClusterIds, Formed(c)'
             PROVE  \E p \in members(c)' : holdsData(p, c)'
  BY DEF DataSurvives
<1>1. OneEtcdCluster /\ TypeOK
  BY FormedStays DEF IndInv
<1>2. CASE UNCHANGED vars
  BY <1>1, <1>2 DEF vars, podVars, DataSurvives, holdsData, Formed, members
<1>3. ASSUME Next, Formed(c), NEW p \in members(c), holdsData(p, c), p \in members(c)'
      PROVE  \E q \in members(c)' : holdsData(q, c)'
  BY <1>1, <1>3, StepKeepsData
<1>4. CASE Next /\ Formed(c)
  <2>1. PICK p \in members(c) : holdsData(p, c)
    BY <1>1, <1>4 DEF DataSurvives
  <2>2. CASE p \in members(c)'
    BY <1>3, <1>4, <2>1, <2>2
  <2>3. CASE p \notin members(c)'
    <3>1. PICK d \in ClusterIds : Removes(d, p)
      BY <1>4, <2>3, NextEtcdStep DEF EtcdStep, Forms, Publishes, Adds, Removes, Formed, members
    <3>2. d = c
      BY <1>1, <1>4, <3>1 DEF Removes, OneEtcdCluster, Formed, members
    <3>3. PICK q \in members(c) \ {p} : Runs(q, c)
      BY <3>1, <3>2 DEF Removes
    <3>4. holdsData(q, c) /\ q \in members(c)'
      BY <3>1, <3>2, <3>3 DEF Runs, holdsData, Removes
    <3> QED
      BY <1>3, <1>4, <3>4
  <2> QED
    BY <2>2, <2>3
<1>5. CASE Next /\ ~Formed(c)
  <2>1. Forms(c)
    BY <1>5, NextEtcdStep, ServingFormed
      DEF EtcdStep, Forms, Publishes, Adds, Removes, Formed, members, IndInv
  <2>2. PICK p \in c : Runs(p, c)
    BY <2>1 DEF Forms
  <2>3. members(c)' = c /\ UNCHANGED pvc
    BY <2>1 DEF Forms
  <2>4. p \in members(c)' /\ holdsData(p, c)'
    BY <2>2, <2>3 DEF Runs, holdsData
  <2> QED
    BY <2>4
<1> QED
  BY <1>2, <1>4, <1>5

\* Neither scaling nor upgrading nor a fault loses what the one etcd cluster has stored:
\* some member has it on a volume.
THEOREM DataTheorem ==
  /\ Spec => []DataSurvives
  /\ EstablishedSpec => []DataSurvives
<1>1. Init => DataSurvives
  BY DEF Init, DataSurvives, Formed
<1>2. Established => DataSurvives
  <2> SUFFICES ASSUME Established, NEW c \in ClusterIds, Formed(c)
               PROVE  \E p \in members(c) : holdsData(p, c)
    BY DEF DataSurvives
  <2> DEFINE r == expectedPeerNamesForCluster(spec.replicas)
  <2>1. c = r /\ members(c) = r
    BY DEF Established, Formed, members
  <2>2. r \subseteq Ordinals /\ r # {}
    BY <2>1 DEF ClusterIds
  <2>3. \A p \in r : pvc[p] = [deleting |-> FALSE, data |-> r, tombstone |-> FALSE]
    BY <2>2 DEF Established
  <2>4. \A p \in r : pvc[p] # None
    <3>1. \A S \in SUBSET Ordinals : [deleting |-> FALSE, data |-> S, tombstone |-> FALSE] \in Pvc
      BY DEF Pvc
    <3> QED
      BY <2>2, <2>3, <3>1, NoneAssumption
  <2>5. \A p \in r : holdsData(p, c)
    BY <2>1, <2>3, <2>4 DEF holdsData
  <2> QED
    BY <2>1, <2>2, <2>5
<1>3. Spec => []IndInv
  BY VolumeInvariant
<1>4. EstablishedSpec => []IndInv
  BY EstablishedTheorem, PTL
<1>5. IndInv /\ DataSurvives /\ [Next]_vars => DataSurvives'
  BY DataKept
<1> QED
  BY <1>1, <1>2, <1>3, <1>4, <1>5, PTL DEF Spec, EstablishedSpec
-----------------------------------------------------------------------------
(* What a step may do to the peer of one name. *)

\* The peer stays the same peer: it may get marks, the finalizer only when it has no
\* member, and loses none; its status changes only to what the peer controller finds,
\* which is nothing when its call is lost.
PeerKept(p) ==
  /\ (peers'[p] = None) <=> (peers[p] = None)
  /\ peers[p] # None => sameConfig(peers'[p], peers[p])
  /\ peers[p] # None => (peers[p].finalizer => peers'[p].finalizer)
  /\ peers[p] # None => (peers[p].deleting => peers'[p].deleting)
  /\ peers[p] # None => (peers'[p].deleting => peers'[p].finalizer)
  /\ peers[p] # None =>
       (peers'[p].finalizer => peers[p].finalizer \/ \E c \in Serving : p \notin members(c))
  /\ peers[p] # None =>
       \/ peers'[p].serverVersion \in {peers[p].serverVersion, serverVersion(p)}
       \/ peers'[p].serverVersion = None /\ faults > 0

\* It goes: its volume is on its way out, or the upgrade replaces the peer of a member.
PeerGone(p) ==
  /\ peers[p] # None /\ peers'[p] = None
  /\ rs'[p] # None => rs'[p].orphan
  /\ \/ /\ peers[p].finalizer /\ (pvc[p] # None => pvc[p].deleting)
        /\ cachedPeers[p] # None /\ cachedPeers[p].deleting
     \/ /\ ~peers[p].finalizer /\ peers[p].version # cachedSpec.version
        /\ nextOutdatedPeer(p) /\ \E c \in Serving : canUpgrade(c) /\ p \in members(c)

\* It comes, under a name that is free in the cache: blank, or to join as a member.
PeerCreated(p) ==
  /\ peers[p] = None /\ peers'[p] # None /\ cachedPeers[p] = None
  /\ ~peers'[p].finalizer /\ ~peers'[p].deleting
  /\ peers'[p].version = cachedSpec.version /\ peers'[p].serverVersion = None
  /\ UNCHANGED <<rs, etcd>>
  /\ \/ /\ peers'[p].state = "New" /\ p \in expectedPeerNamesForCluster(cachedSpec.replicas)
        /\ peers'[p].initial = expectedPeerNamesForCluster(cachedSpec.replicas)
     \/ /\ peers'[p].state = "Existing"
        /\ \E c \in Serving : p \in members(c) /\ peers'[p].initial = members(c)

PeerStep(p) ==
  \/ cachedPeers'[p] = cachedPeers[p] /\ (PeerKept(p) \/ PeerGone(p) \/ PeerCreated(p))
  \/ cachedPeers'[p] = peers[p] /\ peers'[p] = peers[p]

\* A peer that is not touched is kept.
LEMMA UntouchedKept ==
  ASSUME PeerInv, NEW p \in Ordinals, peers'[p] = peers[p]
  PROVE  PeerKept(p)
  BY DEF PeerInv, DeletionAwaitsVolume, PeerKept, sameConfig

\* Setting a mark or the status of a peer leaves a peer with the same configuration.
LEMMA MarkedPeer ==
  ASSUME TypeOK, NEW p \in Ordinals, peers[p] # None
  PROVE  /\ [peers[p] EXCEPT !.finalizer = TRUE] # None
         /\ sameConfig([peers[p] EXCEPT !.finalizer = TRUE], peers[p])
         /\ [peers[p] EXCEPT !.finalizer = TRUE].finalizer
         /\ [peers[p] EXCEPT !.finalizer = TRUE].deleting = peers[p].deleting
         /\ [peers[p] EXCEPT !.finalizer = TRUE].serverVersion = peers[p].serverVersion
         /\ [peers[p] EXCEPT !.deleting = TRUE] # None
         /\ sameConfig([peers[p] EXCEPT !.deleting = TRUE], peers[p])
         /\ [peers[p] EXCEPT !.deleting = TRUE].deleting
         /\ [peers[p] EXCEPT !.deleting = TRUE].finalizer = peers[p].finalizer
         /\ [peers[p] EXCEPT !.deleting = TRUE].serverVersion = peers[p].serverVersion
         /\ \A v \in Versions \cup {None} :
              /\ [peers[p] EXCEPT !.serverVersion = v] # None
              /\ sameConfig([peers[p] EXCEPT !.serverVersion = v], peers[p])
              /\ [peers[p] EXCEPT !.serverVersion = v].finalizer = peers[p].finalizer
              /\ [peers[p] EXCEPT !.serverVersion = v].deleting = peers[p].deleting
              /\ [peers[p] EXCEPT !.serverVersion = v].serverVersion = v
<1>1. /\ [peers[p] EXCEPT !.finalizer = TRUE] # None
      /\ [peers[p] EXCEPT !.deleting = TRUE] # None
      /\ \A v \in Versions \cup {None} : [peers[p] EXCEPT !.serverVersion = v] # None
  BY PeerFields, NoneAssumption
<1>2. peers[p] \in Peer
  BY DEF TypeOK
<1>3. /\ sameConfig([peers[p] EXCEPT !.finalizer = TRUE], peers[p])
      /\ [peers[p] EXCEPT !.finalizer = TRUE].finalizer
      /\ [peers[p] EXCEPT !.finalizer = TRUE].deleting = peers[p].deleting
      /\ [peers[p] EXCEPT !.finalizer = TRUE].serverVersion = peers[p].serverVersion
  BY <1>2 DEF Peer, sameConfig
<1>4. /\ sameConfig([peers[p] EXCEPT !.deleting = TRUE], peers[p])
      /\ [peers[p] EXCEPT !.deleting = TRUE].deleting
      /\ [peers[p] EXCEPT !.deleting = TRUE].finalizer = peers[p].finalizer
      /\ [peers[p] EXCEPT !.deleting = TRUE].serverVersion = peers[p].serverVersion
  BY <1>2 DEF Peer, sameConfig
<1>5. ASSUME NEW v \in Versions \cup {None}
      PROVE  /\ sameConfig([peers[p] EXCEPT !.serverVersion = v], peers[p])
             /\ [peers[p] EXCEPT !.serverVersion = v].finalizer = peers[p].finalizer
             /\ [peers[p] EXCEPT !.serverVersion = v].deleting = peers[p].deleting
             /\ [peers[p] EXCEPT !.serverVersion = v].serverVersion = v
  BY <1>2 DEF Peer, sameConfig
<1> QED
  BY <1>1, <1>3, <1>4, <1>5

\* The status patch keeps every peer.
LEMMA PatchKeepsPeer ==
  ASSUME TypeOK, PeerInv, NEW q \in Ordinals, NEW v \in Versions \cup {None}, getVersion(q, v),
         patchStatusOnly(q, v), NEW p \in Ordinals
  PROVE  PeerKept(p)
<1>1. CASE peers'[p] = peers[p]
  BY <1>1, UntouchedKept
<1>2. CASE peers'[p] # peers[p]
  <2>1. p = q /\ peers'[p] = updatePeerStatus(p, peers[p], v)
    BY <1>2 DEF patchStatusOnly, TypeOK
  <2>2. peers[p] # None /\ peers'[p] = [peers[p] EXCEPT !.serverVersion = v]
    BY <1>2, <2>1 DEF updatePeerStatus
  <2>3. /\ peers'[p] # None /\ sameConfig(peers'[p], peers[p])
        /\ peers'[p].finalizer = peers[p].finalizer /\ peers'[p].deleting = peers[p].deleting
        /\ peers'[p].serverVersion = v
    <3>1. /\ [peers[p] EXCEPT !.serverVersion = v] # None
          /\ sameConfig([peers[p] EXCEPT !.serverVersion = v], peers[p])
          /\ [peers[p] EXCEPT !.serverVersion = v].finalizer = peers[p].finalizer
      BY <2>2, MarkedPeer, Zenon
    <3>2. /\ [peers[p] EXCEPT !.serverVersion = v].deleting = peers[p].deleting
          /\ [peers[p] EXCEPT !.serverVersion = v].serverVersion = v
      BY <2>2, MarkedPeer
    <3> QED
      BY <2>2, <3>1, <3>2
  <2>4. v = serverVersion(p) \/ (v = None /\ faults > 0)
    BY <2>1 DEF getVersion
  <2>5. peers[p].deleting => peers[p].finalizer
    BY <2>2 DEF PeerInv, DeletionAwaitsVolume
  <2> QED
    BY <2>2, <2>3, <2>4, <2>5 DEF PeerKept
<1> QED
  BY <1>1, <1>2

\* Deleting a peer marks it or takes it away, and leaves its ReplicaSet an orphan.
LEMMA DeleteTakesPeer ==
  ASSUME TypeOK, PeerInv, NEW q \in Ordinals, deletePeer(q), NEW p \in Ordinals
  PROVE  \/ PeerKept(p)
         \/ /\ p = q /\ peers[p] # None /\ ~peers[p].finalizer
            /\ peers'[p] = None /\ (rs'[p] # None => rs'[p].orphan)
<1>1. CASE peers'[p] = peers[p]
  BY <1>1, UntouchedKept
<1>2. CASE peers'[p] # peers[p] /\ peers[q] # None /\ peers[q].finalizer
  <2>1. p = q /\ peers[p] # None /\ peers'[p] = [peers[p] EXCEPT !.deleting = TRUE]
    BY <1>2 DEF deletePeer, TypeOK
  <2>2. /\ [peers[p] EXCEPT !.deleting = TRUE] # None
        /\ sameConfig([peers[p] EXCEPT !.deleting = TRUE], peers[p])
        /\ [peers[p] EXCEPT !.deleting = TRUE].finalizer = peers[p].finalizer
        /\ [peers[p] EXCEPT !.deleting = TRUE].serverVersion = peers[p].serverVersion
        /\ [peers[p] EXCEPT !.deleting = TRUE].deleting
    BY <2>1, MarkedPeer
  <2> QED
    BY <1>2, <2>1, <2>2 DEF PeerKept
<1>3. CASE peers'[p] # peers[p] /\ ~(peers[q] # None /\ peers[q].finalizer)
  <2>1. p = q /\ peers'[p] = None /\ orphanReplicaSet(p) /\ peers[p] # None /\ ~peers[p].finalizer
    BY <1>3 DEF deletePeer, TypeOK
  <2>2. rs[p] # None => [rs[p] EXCEPT !.orphan = TRUE].orphan
    BY DEF TypeOK, ReplicaSet
  <2>3. rs'[p] # None => rs'[p].orphan
    BY <2>1, <2>2 DEF orphanReplicaSet, TypeOK
  <2> QED
    BY <2>1, <2>3
<1> QED
  BY <1>1, <1>2, <1>3

\* A peer that reconcile creates has a name that is free in the cache.
LEMMA CreateMakesPeer ==
  ASSUME TypeOK, PeerInv, NEW q \in Ordinals, cachedPeers[q] = None, UNCHANGED <<rs, etcd>>,
         NEW state, NEW initial, createPeer(q, peerForCluster(state, initial)),
         \/ /\ state = "New" /\ initial = expectedPeerNamesForCluster(cachedSpec.replicas)
            /\ q \in initial
         \/ state = "Existing" /\ \E c \in Serving : q \in members(c) /\ initial = members(c),
         NEW p \in Ordinals
  PROVE  PeerKept(p) \/ PeerCreated(p)
<1>1. CASE peers'[p] = peers[p]
  BY <1>1, UntouchedKept
<1>2. CASE peers'[p] # peers[p]
  <2>1. p = q /\ peers[p] = None /\ peers'[p] = peerForCluster(state, initial)
    BY <1>2 DEF createPeer, TypeOK
  <2>2. /\ ~peers'[p].finalizer /\ ~peers'[p].deleting
        /\ peers'[p].state = state /\ peers'[p].initial = initial
        /\ peers'[p].version = cachedSpec.version /\ peers'[p].serverVersion = None
    BY <2>1 DEF peerForCluster
  <2> QED
    BY <1>2, <2>1, <2>2 DEF PeerCreated
<1> QED
  BY <1>1, <1>2

\* What the administrator asks for, and what the cache has of it, can be built.
LEMMA SpecFields ==
  ASSUME TypeOK
  PROVE  /\ spec.replicas \in 1..(MaxOrdinal + 1) /\ spec.version \in Versions
         /\ cachedSpec.replicas \in 1..(MaxOrdinal + 1) /\ cachedSpec.version \in Versions
<1>1. spec \in Spec_ /\ cachedSpec \in Spec_
  BY DEF TypeOK
<1>2. ASSUME NEW s \in Spec_ PROVE s.replicas \in 1..(MaxOrdinal + 1) /\ s.version \in Versions
  <2>1. s.replicas \in InitReplicas \cup TargetReplicas /\ s.version \in Versions
    BY DEF Spec_
  <2> QED
    BY <2>1, ConstantsAssumption
<1> QED
  BY <1>1, <1>2

\* The cluster controller keeps a peer, takes it away or creates it.
LEMMA ClusterPeerStep ==
  ASSUME IndInv, PeerInv, ReconcileCluster, NEW p \in Ordinals
  PROVE  cachedPeers'[p] = cachedPeers[p] /\ (PeerKept(p) \/ PeerGone(p) \/ PeerCreated(p))
<1>1. PICK c \in SUBSET Ordinals : listMembers(c) /\ reconcile(c)
  BY DEF ReconcileCluster
<1>2. TypeOK /\ UNCHANGED cachedPeers /\ (c # NoContact => c \in Serving)
  BY <1>1 DEF ReconcileCluster, cacheVars, IndInv, listMembers
<1>3. CASE UNCHANGED peers
  BY <1>2, <1>3, UntouchedKept
<1>4. CASE createBootstrapPeer(c)
  <2> DEFINE q == nextAvailablePeerName(peersSeen)
  <2>1. createPeer(q, configurePeerBootstrap) /\ UNCHANGED <<rs, etcd>>
    BY <1>4 DEF createBootstrapPeer, podVars
  <2>2. q \notin peersSeen /\ q \in expectedPeerNamesForCluster(cachedSpec.replicas)
    <3>1. peersSeen \in SUBSET Ordinals
      BY DEF peersSeen
    <3>2. q \in 0..Cardinality(peersSeen) /\ q \notin peersSeen
      BY <3>1, NextNameIsFree
    <3>4. Cardinality(peersSeen) \in Nat
      BY <3>1, OrdinalsFinite
    <3>3. Cardinality(peersSeen) < cachedSpec.replicas
      BY <1>4 DEF createBootstrapPeer, hasTooFewPeers
    <3>5. cachedSpec.replicas \in Nat
      BY <1>2, SpecFields, ConstantsAssumption
    <3> HIDE DEF q
    <3> QED
      BY <3>2, <3>3, <3>4, <3>5 DEF expectedPeerNamesForCluster
  <2> HIDE DEF q
  <2>3. CASE q \in Ordinals
    BY <1>2, <2>1, <2>2, <2>3, CreateMakesPeer DEF peersSeen, configurePeerBootstrap
  <2>4. CASE q \notin Ordinals
    <3>1. peers'[p] = peers[p]
      BY <1>2, <2>1, <2>4 DEF createPeer, TypeOK
    <3> QED
      BY <1>2, <3>1, UntouchedKept
  <2> QED
    BY <2>3, <2>4
<1>5. CASE createPeerForMember(c)
  <2>1. PICK q \in members(c) : ~hasPeerForMember(q) /\ createPeer(q, configureJoinExistingCluster(c))
    BY <1>5 DEF createPeerForMember
  <2>2. c \in Serving /\ UNCHANGED <<rs, etcd>>
    BY <1>2, <1>5 DEF createPeerForMember, podVars
  <2>3. q \in Ordinals /\ cachedPeers[q] = None
    BY <1>2, <2>1, <2>2 DEF members, Serving, TypeOK, Membership, hasPeerForMember, peersSeen
  <2> QED
    BY <1>2, <2>1, <2>2, <2>3, CreateMakesPeer DEF configureJoinExistingCluster
<1>6. CASE addPvcFinalizer(c)
  <2>1. PICK q \in surplusPeers(c) :
          peers' = [peers EXCEPT ![q] = IF @ = None THEN @ ELSE [@ EXCEPT !.finalizer = TRUE]]
    BY <1>6 DEF addPvcFinalizer
  <2>2. c \in Serving
    BY <1>2, <1>6 DEF addPvcFinalizer, canChange
  <2>3. CASE peers'[p] = peers[p]
    BY <1>2, <2>3, UntouchedKept
  <2>4. CASE peers'[p] # peers[p]
    <3>1. /\ peers[p] # None /\ peers'[p] = [peers[p] EXCEPT !.finalizer = TRUE]
          /\ p \notin members(c)
      BY <1>2, <2>1, <2>4 DEF TypeOK, surplusPeers
    <3> QED
      BY <1>2, <2>2, <3>1, MarkedPeer DEF PeerKept
  <2> QED
    BY <2>3, <2>4
<1>7. CASE deleteSurplusPeer(c)
  <2>1. PICK q \in surplusPeers(c) : cachedPeers[q].finalizer /\ deletePeer(q)
    BY <1>7 DEF deleteSurplusPeer
  <2>2. q \in Ordinals /\ cachedPeers[q] # None
    BY DEF surplusPeers, peersSeen
  <2>3. peers[q] # None => peers[q].finalizer
    BY <2>1, <2>2 DEF PeerInv, CachedPeerCurrent
  <2> QED
    BY <1>2, <2>1, <2>2, <2>3, DeleteTakesPeer
<1>8. CASE deleteOutdatedPeer(c)
  <2>1. PICK q \in outdatedPeers : nextOutdatedPeer(q) /\ ~mustWaitFor(q) /\ deletePeer(q)
    BY <1>8 DEF deleteOutdatedPeer
  <2>2. /\ q \in Ordinals /\ cachedPeers[q] # None
        /\ cachedPeers[q].version # cachedSpec.version /\ ~cachedPeers[q].deleting
    BY <2>1 DEF outdatedPeers, peersSeen, mustWaitFor
  <2>3. c \in Serving /\ canUpgrade(c) /\ q \in members(c)
    BY <1>2, <1>8, <2>2 DEF deleteOutdatedPeer, canUpgrade, canChange, surplusPeers, peersSeen
  <2>4. peers[q] # None => peers[q].version # cachedSpec.version
    BY <2>2 DEF PeerInv, CachedPeerCurrent, sameConfig
  <2> QED
    BY <1>2, <2>1, <2>2, <2>3, <2>4, DeleteTakesPeer DEF PeerGone
<1>9. CASE createService \/ addNewMember(c) \/ removeMember(c) \/ nothingToDo(c)
  BY <1>3, <1>9 DEF createService, addNewMember, removeMember, nothingToDo
<1> QED
  BY <1>1, <1>4, <1>5, <1>6, <1>7, <1>8, <1>9 DEF reconcile

\* The peer controller keeps a peer, or lets one go whose volume is on its way out.
LEMMA PeerPeerStep ==
  ASSUME IndInv, PeerInv, NEW q \in Ordinals, ReconcilePeer(q), NEW p \in Ordinals
  PROVE  cachedPeers'[p] = cachedPeers[p] /\ (PeerKept(p) \/ PeerGone(p))
<1>1. TypeOK /\ UNCHANGED cachedPeers /\ cachedPeers[q] # None
  BY DEF ReconcilePeer, cacheVars, IndInv
<1>2. PICK v \in Versions \cup {None} :
        /\ getVersion(q, v)
        /\ \/ maybeCreatePvc(q, v) \/ createReplicaSet(q, v) \/ hasReplicaSet(q, v)
           \/ deletePvc(q, v) \/ removePvcFinalizer(q, v)
  BY DEF ReconcilePeer
<1>3. CASE patchStatusOnly(q, v)
  BY <1>1, <1>2, <1>3, PatchKeepsPeer
<1>4. CASE peers'[p] = peers[p]
  BY <1>1, <1>4, UntouchedKept
<1>5. CASE peers'[p] # peers[p] /\ removePvcFinalizer(q, v)
  <2>1. /\ cachedPeers[q].deleting /\ cachedPeers[q].finalizer
        /\ pvc[q] # None => pvc[q].deleting
        /\ removeFinalizer(q, updatePeerStatus(q, peers[q], v))
    BY <1>5 DEF removePvcFinalizer
  <2>2. p = q
    BY <1>1, <1>5, <2>1 DEF removeFinalizer, TypeOK
  <2>3. peers[q] # None => peers[q].deleting /\ peers[q].finalizer
    BY <1>1, <2>1 DEF PeerInv, CachedPeerCurrent
  <2>4. peers'[q] = None /\ orphanReplicaSet(q)
    BY <1>1, <2>1, <2>3 DEF removeFinalizer, TypeOK
  <2>5. rs[p] # None => [rs[p] EXCEPT !.orphan = TRUE].orphan
    BY <1>1 DEF TypeOK, ReplicaSet
  <2>6. rs'[p] # None => rs'[p].orphan
    BY <1>1, <2>2, <2>4, <2>5 DEF orphanReplicaSet, TypeOK
  <2> QED
    BY <1>1, <1>5, <2>1, <2>2, <2>3, <2>4, <2>6 DEF PeerGone
<1> QED
  BY <1>1, <1>2, <1>3, <1>4, <1>5 DEF maybeCreatePvc, createReplicaSet, hasReplicaSet, deletePvc

\* Every step of the system keeps a peer, takes it away, creates it or brings the
\* cache up to date with it.
LEMMA NextPeerStep ==
  ASSUME IndInv, PeerInv, [Next]_vars, NEW p \in Ordinals
  PROVE  PeerStep(p)
<1>1. CASE ReconcileCluster
  BY <1>1, ClusterPeerStep DEF PeerStep
<1>2. CASE ReconcileAnyPeer
  BY <1>2, PeerPeerStep DEF PeerStep, ReconcileAnyPeer
<1>3. CASE syncPeers
  BY <1>3 DEF syncPeers, PeerStep
<1>4. CASE UNCHANGED <<peers, cachedPeers>>
  BY <1>4, UntouchedKept DEF PeerStep
<1>5. CASE Infrastructure \/ syncSpec \/ ValidateUpdate \/ (\E q \in Ordinals : crash(q))
           \/ UNCHANGED vars
  <2>1. UNCHANGED <<peers, cachedPeers>>
    BY <1>5 DEF Infrastructure, collectGarbage, releasePvc, startNew, startExisting, restart,
         startPod, formCluster, publish, syncSpec, ValidateUpdate, crash, vars, cacheVars
  <2> QED
    BY <1>4, <2>1
<1> QED
  BY <1>1, <1>2, <1>3, <1>5 DEF Next
-----------------------------------------------------------------------------
(* What a step may do to the ReplicaSet of one name. *)

\* It stays the one it is; it becomes an orphan only without its peer, and its process
\* exits only when it fails or its member is removed.
ReplicaSetKept(p) ==
  /\ rs[p] # None /\ rs'[p] # None /\ sameConfig(rs'[p], rs[p])
  /\ rs[p].orphan => rs'[p].orphan
  /\ rs'[p].orphan => rs[p].orphan \/ peers'[p] = None
  /\ \/ rs'[p].pod \in {rs[p].pod, "running"}
     \/ faults > 0 \/ \E d \in ClusterIds : Removes(d, p)

\* It is made of the cached peer, and is an orphan unless there is such a peer.
ReplicaSetCreated(p) ==
  /\ rs[p] = None /\ rs'[p] # None /\ cachedPeers[p] # None
  /\ sameConfig(rs'[p], cachedPeers[p])
  /\ (~rs'[p].orphan) <=> (peers[p] # None)
  /\ rs'[p].pod = "pending"

ReplicaSetCollected(p) == rs[p] # None /\ rs[p].orphan /\ rs'[p] = None

ReplicaSetStep(p) ==
  \/ rs[p] = None /\ rs'[p] = None
  \/ ReplicaSetCollected(p) \/ ReplicaSetKept(p) \/ ReplicaSetCreated(p)

\* A ReplicaSet that is not touched is kept.
LEMMA ReplicaSetUntouched ==
  ASSUME NEW p, rs'[p] = rs[p] PROVE ReplicaSetStep(p)
  BY DEF ReplicaSetStep, ReplicaSetKept, sameConfig

\* Setting the orphan mark or the state of the pod leaves the same ReplicaSet.
LEMMA MarkedReplicaSet ==
  ASSUME TypeOK, NEW p \in Ordinals, rs[p] # None
  PROVE  /\ [rs[p] EXCEPT !.orphan = TRUE] # None
         /\ sameConfig([rs[p] EXCEPT !.orphan = TRUE], rs[p])
         /\ [rs[p] EXCEPT !.orphan = TRUE].orphan
         /\ [rs[p] EXCEPT !.orphan = TRUE].pod = rs[p].pod
         /\ \A s \in {"running", "exited"} :
              /\ [rs[p] EXCEPT !.pod = s] # None
              /\ sameConfig([rs[p] EXCEPT !.pod = s], rs[p])
              /\ [rs[p] EXCEPT !.pod = s].orphan = rs[p].orphan
              /\ [rs[p] EXCEPT !.pod = s].pod = s
<1>1. /\ [rs[p] EXCEPT !.orphan = TRUE] # None
      /\ \A s \in {"running", "exited"} : [rs[p] EXCEPT !.pod = s] # None
  BY ReplicaSetFields, NoneAssumption
<1>2. rs[p] \in ReplicaSet
  BY DEF TypeOK
<1>3. /\ sameConfig([rs[p] EXCEPT !.orphan = TRUE], rs[p])
      /\ [rs[p] EXCEPT !.orphan = TRUE].orphan
      /\ [rs[p] EXCEPT !.orphan = TRUE].pod = rs[p].pod
  BY <1>2 DEF ReplicaSet, sameConfig
<1>4. ASSUME NEW s \in {"running", "exited"}
      PROVE  /\ sameConfig([rs[p] EXCEPT !.pod = s], rs[p])
             /\ [rs[p] EXCEPT !.pod = s].orphan = rs[p].orphan
             /\ [rs[p] EXCEPT !.pod = s].pod = s
  BY <1>2 DEF ReplicaSet, sameConfig
<1> QED
  BY <1>1, <1>3, <1>4

\* The ReplicaSet of a peer that goes is kept, as an orphan.
LEMMA OrphanKept ==
  ASSUME TypeOK, NEW q, orphanReplicaSet(q), peers' = [peers EXCEPT ![q] = None],
         NEW p \in Ordinals
  PROVE  ReplicaSetStep(p)
<1>1. CASE rs'[p] = rs[p]
  BY <1>1, ReplicaSetUntouched
<1>2. CASE rs'[p] # rs[p]
  <2>1. rs[p] # None /\ rs'[p] = [rs[p] EXCEPT !.orphan = TRUE] /\ peers'[p] = None
    BY <1>2 DEF orphanReplicaSet, TypeOK
  <2>2. /\ [rs[p] EXCEPT !.orphan = TRUE] # None
        /\ sameConfig([rs[p] EXCEPT !.orphan = TRUE], rs[p])
        /\ [rs[p] EXCEPT !.orphan = TRUE].orphan
        /\ [rs[p] EXCEPT !.orphan = TRUE].pod = rs[p].pod
    BY <2>1, MarkedReplicaSet
  <2> QED
    BY <2>1, <2>2 DEF ReplicaSetStep, ReplicaSetKept
<1> QED
  BY <1>1, <1>2

\* A ReplicaSet whose pod starts or exits is kept.
LEMMA PodKept ==
  ASSUME TypeOK, NEW q, NEW p \in Ordinals, NEW s \in {"running", "exited"},
         rs[q] # None, rs' = [rs EXCEPT ![q].pod = s] \/ rs' = rs,
         s = "running" \/ faults > 0 \/ \E d \in ClusterIds : Removes(d, q)
  PROVE  ReplicaSetStep(p)
<1>1. CASE rs'[p] = rs[p]
  BY <1>1, ReplicaSetUntouched
<1>2. CASE rs'[p] # rs[p]
  <2>1. rs[p] # None /\ rs'[p] = [rs[p] EXCEPT !.pod = s] /\ p = q
    BY <1>2 DEF TypeOK
  <2>2. /\ [rs[p] EXCEPT !.pod = s] # None
        /\ sameConfig([rs[p] EXCEPT !.pod = s], rs[p])
        /\ [rs[p] EXCEPT !.pod = s].orphan = rs[p].orphan
        /\ [rs[p] EXCEPT !.pod = s].pod = s
    <3>1. \A t \in {"running", "exited"} :
            /\ [rs[p] EXCEPT !.pod = t] # None
            /\ sameConfig([rs[p] EXCEPT !.pod = t], rs[p])
            /\ [rs[p] EXCEPT !.pod = t].orphan = rs[p].orphan
            /\ [rs[p] EXCEPT !.pod = t].pod = t
      BY <2>1, MarkedReplicaSet
    <3> QED
      BY <3>1
  <2> QED
    BY <2>1, <2>2 DEF ReplicaSetStep, ReplicaSetKept
<1> QED
  BY <1>1, <1>2

\* Every step of the system keeps a ReplicaSet, takes it away, or makes one of the
\* cached peer.
LEMMA NextReplicaSetStep ==
  ASSUME TypeOK, [Next]_vars, NEW p \in Ordinals
  PROVE  ReplicaSetStep(p)
<1>1. CASE UNCHANGED rs
  BY <1>1, ReplicaSetUntouched
<1>2. ASSUME NEW q, deletePeer(q) PROVE ReplicaSetStep(p)
  BY <1>1, <1>2, OrphanKept DEF deletePeer
<1>3. ASSUME NEW c \in SUBSET Ordinals, listMembers(c), removeMember(c), UNCHANGED cachedPeers
      PROVE  ReplicaSetStep(p)
  <2>1. CASE UNCHANGED rs
    BY <1>1, <2>1
  <2>2. CASE rs' # rs
    <3>1. FoundStable /\ UNCHANGED peers /\ c \in Serving /\ hasTooManyMembers(c)
      BY <1>3, CanScaleFound DEF removeMember
    <3>2. PICK d \in Serving, q \in {LastByName(members(c))} : memberRemove(d, q)
      BY <1>3, <2>2 DEF removeMember, podVars
    <3>3. /\ Removes(d, q) /\ d \in ClusterIds
          /\ rs' = [rs EXCEPT ![q] = IF Runs(q, d) THEN [@ EXCEPT !.pod = "exited"] ELSE @]
      BY <1>3, <2>2, <3>1, <3>2, RemoveIsRemoves DEF Serving
    <3>4. CASE Runs(q, d)
      <4>1. rs' = [rs EXCEPT ![q].pod = "exited"] /\ rs[q] # None
        BY <3>3, <3>4 DEF Runs
      <4>2. \E e \in ClusterIds : Removes(e, q)
        BY <3>3
      <4> QED
        BY <4>1, <4>2, PodKept
    <3>5. CASE ~Runs(q, d)
      <4>1. rs'[p] = rs[p]
        BY <3>3, <3>5 DEF TypeOK
      <4> QED
        BY <4>1, ReplicaSetUntouched
    <3> QED
      BY <3>4, <3>5
  <2> QED
    BY <2>1, <2>2
<1>4. CASE ReconcileCluster
  <2>1. PICK c \in SUBSET Ordinals : listMembers(c) /\ reconcile(c)
    BY <1>4 DEF ReconcileCluster
  <2>2. UNCHANGED rs \/ (\E q : deletePeer(q)) \/ removeMember(c)
    BY <2>1 DEF reconcile, createService, createBootstrapPeer,
         createPeerForMember, addPvcFinalizer, deleteSurplusPeer, deleteOutdatedPeer,
         addNewMember, nothingToDo, podVars
  <2>3. UNCHANGED cachedPeers
    BY <1>4 DEF ReconcileCluster, cacheVars
  <2> QED
    BY <1>1, <1>2, <1>3, <2>1, <2>2, <2>3
<1>5. ASSUME NEW q \in Ordinals, ReconcilePeer(q) PROVE ReplicaSetStep(p)
  <2>1. ASSUME NEW v, createReplicaSet(q, v) PROVE ReplicaSetStep(p)
    <3>1. CASE rs'[p] = rs[p]
      BY <3>1, ReplicaSetUntouched
    <3>2. CASE rs'[p] # rs[p]
      <4>1. /\ p = q /\ rs[p] = None /\ cachedPeers[p] # None
            /\ rs'[p] = [orphan |-> peers[p] = None, version |-> cachedPeers[p].version,
                         state |-> cachedPeers[p].state, initial |-> cachedPeers[p].initial,
                         pod |-> "pending"]
        BY <1>5, <2>1, <3>2 DEF createReplicaSet, ReconcilePeer, TypeOK
      <4>2. /\ rs'[p].version = cachedPeers[p].version /\ rs'[p].state = cachedPeers[p].state
            /\ rs'[p].initial = cachedPeers[p].initial
        BY <4>1
      <4>3. rs'[p].orphan = (peers[p] = None) /\ rs'[p].pod = "pending"
        BY <4>1
      <4>4. rs[p] = None /\ rs'[p] # None /\ cachedPeers[p] # None
        BY <3>2, <4>1
      <4>5. (~rs'[p].orphan) <=> (peers[p] # None)
        BY <4>3
      <4> QED
        BY <4>2, <4>3, <4>4, <4>5 DEF ReplicaSetStep, ReplicaSetCreated, sameConfig
    <3> QED
      BY <3>1, <3>2
  <2>2. ASSUME NEW v, removePvcFinalizer(q, v) PROVE ReplicaSetStep(p)
    BY <1>1, <2>2, OrphanKept DEF removePvcFinalizer, removeFinalizer
  <2> QED
    BY <1>1, <1>5, <2>1, <2>2 DEF ReconcilePeer, maybeCreatePvc, hasReplicaSet, deletePvc, podVars
<1>6. CASE Infrastructure
  <2>1. ASSUME NEW q \in Ordinals, collectGarbage(q) PROVE ReplicaSetStep(p)
    <3>1. ReplicaSetCollected(p) \/ rs'[p] = rs[p]
      BY <2>1 DEF collectGarbage, ReplicaSetCollected, TypeOK
    <3> QED
      BY <3>1, ReplicaSetUntouched DEF ReplicaSetStep
  <2>2. ASSUME NEW q \in Ordinals, startNew(q) \/ startExisting(q) \/ restart(q)
        PROVE  ReplicaSetStep(p)
    BY <2>2, PodKept DEF startNew, startExisting, restart, startPod
  <2> QED
    BY <1>1, <1>6, <2>1, <2>2 DEF Infrastructure, releasePvc, formCluster, publish, podVars
<1>7. ASSUME NEW q \in Ordinals, crash(q) PROVE ReplicaSetStep(p)
  BY <1>7, PodKept DEF crash
<1>8. CASE syncSpec \/ syncPeers \/ ValidateUpdate \/ UNCHANGED vars
  BY <1>1, <1>8 DEF syncSpec, syncPeers, ValidateUpdate, vars, podVars
<1> QED
  BY <1>4, <1>5, <1>6, <1>7, <1>8 DEF Next, ReconcileAnyPeer
-----------------------------------------------------------------------------
(* One name, one peer at a time. *)

\* PeerInv is kept for each name by what a step may do to its peer and ReplicaSet.
LEMMA PeerInvKept ==
  ASSUME IndInv, PeerInv, [Next]_vars PROVE PeerInv'
<1> SUFFICES ASSUME NEW p \in Ordinals
             PROVE  /\ cachedPeers'[p] # None /\ peers'[p] # None =>
                         /\ sameConfig(cachedPeers'[p], peers'[p])
                         /\ cachedPeers'[p].finalizer => peers'[p].finalizer
                         /\ cachedPeers'[p].deleting => peers'[p].deleting
                    /\ peers'[p] # None /\ peers'[p].deleting => peers'[p].finalizer
                    /\ cachedPeers'[p] # None /\ cachedPeers'[p].deleting
                         => cachedPeers'[p].finalizer
                    /\ rs'[p] # None /\ ~rs'[p].orphan
                         => peers'[p] # None /\ sameConfig(rs'[p], peers'[p])
  BY DEF PeerInv, CachedPeerCurrent, DeletionAwaitsVolume, ReplicaSetOfPeer, sameConfig
<1>1. PeerStep(p)
  BY NextPeerStep
<1>2. ReplicaSetStep(p)
  BY NextReplicaSetStep DEF IndInv
<1>3. /\ cachedPeers[p] # None /\ peers[p] # None =>
           /\ sameConfig(cachedPeers[p], peers[p])
           /\ cachedPeers[p].finalizer => peers[p].finalizer
           /\ cachedPeers[p].deleting => peers[p].deleting
      /\ peers[p] # None /\ peers[p].deleting => peers[p].finalizer
      /\ cachedPeers[p] # None /\ cachedPeers[p].deleting => cachedPeers[p].finalizer
  BY DEF PeerInv, CachedPeerCurrent, DeletionAwaitsVolume
<1>4. cachedPeers'[p] # None /\ peers'[p] # None =>
         /\ sameConfig(cachedPeers'[p], peers'[p])
         /\ cachedPeers'[p].finalizer => peers'[p].finalizer
         /\ cachedPeers'[p].deleting => peers'[p].deleting
  BY <1>1, <1>3 DEF PeerStep, PeerKept, PeerGone, PeerCreated, sameConfig
<1>5. /\ peers'[p] # None /\ peers'[p].deleting => peers'[p].finalizer
      /\ cachedPeers'[p] # None /\ cachedPeers'[p].deleting => cachedPeers'[p].finalizer
  BY <1>1, <1>3 DEF PeerStep, PeerKept, PeerGone, PeerCreated
<1>6. ASSUME rs'[p] # None, ~rs'[p].orphan
      PROVE  peers'[p] # None /\ sameConfig(rs'[p], peers'[p])
  <2>1. peers[p] # None /\ sameConfig(rs'[p], peers[p])
    <3>1. CASE ReplicaSetKept(p)
      BY <1>6, <3>1 DEF PeerInv, ReplicaSetOfPeer, ReplicaSetKept, sameConfig
    <3>2. CASE ReplicaSetCreated(p)
      BY <1>3, <1>6, <3>2 DEF ReplicaSetCreated, sameConfig
    <3> QED
      BY <1>2, <1>6, <3>1, <3>2 DEF ReplicaSetStep, ReplicaSetCollected
  <2>2. PeerKept(p) \/ peers'[p] = peers[p]
    BY <1>1, <1>6, <2>1 DEF PeerStep, PeerGone, PeerCreated
  <2> QED
    BY <2>1, <2>2 DEF PeerKept, sameConfig
<1> QED
  BY <1>4, <1>5, <1>6

\* Before the cluster exists there is no peer.
LEMMA InitPeers ==
  ASSUME Init PROVE PeerInv
  BY DEF Init, PeerInv, CachedPeerCurrent, DeletionAwaitsVolume, ReplicaSetOfPeer

\* In a settled cluster the cache is up to date.
LEMMA EstablishedPeers ==
  ASSUME Established PROVE PeerInv
<1>1. /\ cachedPeers = peers
      /\ \A p \in Ordinals : peers[p] # None => ~peers[p].deleting
      /\ \A p \in Ordinals : rs[p] # None => peers[p] # None /\ sameConfig(rs[p], peers[p])
  <2> DEFINE c == expectedPeerNamesForCluster(spec.replicas)
             peer == [version |-> InitVersion, state |-> "New", initial |-> c,
                      finalizer |-> FALSE, deleting |-> FALSE, serverVersion |-> InitVersion]
             replicaSet == [orphan |-> FALSE, version |-> InitVersion, state |-> "New",
                            initial |-> c, pod |-> "running"]
  <2>1. /\ peers = [p \in Ordinals |-> IF p \in c THEN peer ELSE None]
        /\ cachedPeers = peers
        /\ rs = [p \in Ordinals |-> IF p \in c THEN replicaSet ELSE None]
    BY DEF Established
  <2>2. ~peer.deleting /\ sameConfig(replicaSet, peer)
    BY DEF sameConfig
  <2>3. \A p \in Ordinals : p \in c => peers[p] # None
    <3>1. TypeOK /\ c \in SUBSET Ordinals
      <4>1. spec.replicas \in 1..(MaxOrdinal + 1)
        BY ConstantsAssumption DEF Established
      <4> QED
        BY <4>1, EstablishedHolds, ConstantsAssumption
          DEF IndInv, expectedPeerNamesForCluster, Ordinals
    <3> HIDE DEF c
    <3>2. peer \in Peer
      BY <3>1, ConstantsAssumption DEF Peer
    <3> HIDE DEF peer
    <3> QED
      BY <2>1, <3>2, NoneAssumption
  <2> HIDE DEF c, peer, replicaSet
  <2> QED
    BY <2>1, <2>2, <2>3
<1> QED
  BY <1>1 DEF PeerInv, CachedPeerCurrent, DeletionAwaitsVolume, ReplicaSetOfPeer, sameConfig

\* Both invariants together, from the creation of a cluster and from a settled one.
LEMMA PeersCorrect ==
  /\ Spec => [](IndInv /\ PeerInv)
  /\ EstablishedSpec => [](IndInv /\ PeerInv)
<1>1. Init => IndInv /\ PeerInv
  BY InitEstablishes, InitPeers
<1>2. Established => IndInv /\ PeerInv
  BY EstablishedHolds, EstablishedPeers
<1>3. IndInv /\ PeerInv /\ [Next]_vars => (IndInv /\ PeerInv)'
  BY NextKeeps, PeerInvKept
<1> QED
  BY <1>1, <1>2, <1>3, PTL DEF Spec, EstablishedSpec

\* However stale the cache is, a peer that it shows is the one in the API server if
\* one is there; a peer being deleted has its volume deleted first; and a ReplicaSet
\* that is not garbage runs the peer there is, not an earlier one of that name.
THEOREM PeerTheorem ==
  /\ Spec => []PeerInv
  /\ EstablishedSpec => []PeerInv
  BY PeersCorrect, PTL

\* Whatever the cache shows, the upgrade takes away no peer of the wanted version.
THEOREM OnlyOutdatedTheorem ==
  /\ Spec => OnlyOutdatedReplaced
  /\ EstablishedSpec => OnlyOutdatedReplaced
<1> DEFINE Outdated == \A p \in Ordinals :
                         deletedForUpgrade(p) => peers[p].version # cachedSpec.version
<1>1. IndInv /\ PeerInv /\ [Next]_vars => [Outdated]_vars
  BY NextPeerStep DEF deletedForUpgrade, PeerStep, PeerKept, PeerGone, PeerCreated
<1> HIDE DEF Outdated
<1>2. Spec => [][Outdated]_vars
  BY <1>1, PeersCorrect, PTL DEF Spec
<1>3. EstablishedSpec => [][Outdated]_vars
  BY <1>1, PeersCorrect, PTL DEF EstablishedSpec
<1> QED
  BY <1>2, <1>3 DEF OnlyOutdatedReplaced, Outdated
-----------------------------------------------------------------------------
(* Peers that join. *)

\* With one etcd cluster, the one that was found stable is the one there is.
LEMMA FoundIsCluster ==
  ASSUME IndInv, OneEtcdCluster, FoundStable, NEW d \in ClusterIds, Formed(d)
  PROVE  members(d) \subseteq etcd[d].named /\ \A p \in members(d) : cachedPeers[p] # None
<1>1. PICK c \in Serving :
        members(c) \subseteq etcd[c].named /\ \A p \in members(c) : cachedPeers[p] # None
  BY DEF FoundStable
<1>2. c = d
  BY ServingFormed DEF IndInv, OneEtcdCluster
<1> QED
  BY <1>1, <1>2

\* A peer that joins belongs to a member until the cache has it: reconcile removes a
\* member only when the cache has all their peers.
LEMMA JoinersKept ==
  ASSUME IndInv, PeerInv, JoinersAreMembers, [Next]_vars PROVE JoinersAreMembers'
<1> SUFFICES ASSUME NEW p \in Ordinals, joins(peers[p])'
             PROVE  /\ \E c \in ClusterIds : Formed(c)'
                    /\ OneEtcdCluster' /\ cachedPeers'[p] = None
                         => \E c \in ClusterIds : p \in members(c)'
  BY DEF JoinersAreMembers
<1>1. /\ \A c \in ClusterIds : Formed(c) => Formed(c)'
      /\ OneEtcdCluster' => OneEtcdCluster
  BY FormedStays
<1>2. CASE PeerCreated(p)
  <2>1. PICK c \in Serving : p \in members(c)
    BY <1>2 DEF PeerCreated, joins
  <2>2. c \in ClusterIds /\ Formed(c)
    BY ServingFormed DEF IndInv
  <2>3. p \in members(c)'
    BY <1>2, <2>1 DEF PeerCreated, members
  <2> QED
    BY <1>1, <2>2, <2>3
<1>3. CASE ~PeerCreated(p)
  <2>1. joins(peers[p]) /\ (cachedPeers'[p] = None => cachedPeers[p] = None)
    BY <1>3, NextPeerStep DEF PeerStep, PeerKept, PeerGone, joins, sameConfig
  <2>2. PICK c \in ClusterIds : Formed(c)
    BY <2>1 DEF JoinersAreMembers
  <2>3. ASSUME OneEtcdCluster', cachedPeers'[p] = None
        PROVE  \E d \in ClusterIds : p \in members(d)'
    <3>1. OneEtcdCluster /\ cachedPeers[p] = None
      BY <1>1, <2>1, <2>3
    <3>2. PICK d \in ClusterIds : p \in members(d)
      BY <2>1, <3>1 DEF JoinersAreMembers
    <3>3. ASSUME NEW e \in ClusterIds, NEW q \in Ordinals, Removes(e, q) PROVE p # q
      <4>1. e \in ClusterIds /\ Formed(e) /\ FoundStable /\ q \in members(e)
        BY <3>3 DEF Removes, Formed, members
      <4> QED
        BY <3>1, <4>1, FoundIsCluster
    <3>4. p \in members(d)'
      <4>1. ASSUME NEW e \in ClusterIds, Forms(e) PROVE p \in members(d)'
        BY <3>2, <4>1 DEF Forms, Formed, members
      <4>2. ASSUME NEW e \in ClusterIds, NEW q \in Ordinals, Publishes(e, q) \/ Adds(e, q)
            PROVE  p \in members(d)'
        BY <3>2, <4>2 DEF Publishes, Adds, members
      <4>3. ASSUME NEW e \in ClusterIds, NEW q \in Ordinals, Removes(e, q)
            PROVE  p \in members(d)'
        BY <3>2, <3>3, <4>3 DEF Removes, members
      <4> QED
        BY <3>2, <4>1, <4>2, <4>3, NextEtcdStep DEF EtcdStep, members
    <3> QED
      BY <3>4
  <2> QED
    BY <1>1, <2>2, <2>3
<1> QED
  BY <1>2, <1>3

\* A peer that joins is configured with the membership that it will find: that
\* changes only when all members have started.
LEMMA JoinConfigKept ==
  ASSUME IndInv, PeerInv, JoinersAreMembers, JoinConfigMatches, [Next]_vars
  PROVE  JoinConfigMatches'
<1> SUFFICES ASSUME NEW c \in ClusterIds, NEW p \in members(c)' \ etcd'[c].named, OneEtcdCluster'
             PROVE  /\ joins(peers[p])' => peers'[p].initial = members(c)'
                    /\ joins(rs[p])' /\ ~rs'[p].orphan => rs'[p].initial = members(c)'
  BY DEF JoinConfigMatches
<1>1. OneEtcdCluster /\ \A d \in ClusterIds : Formed(d) => Formed(d)'
  BY FormedStays
<1>2. p \in Ordinals /\ PeerInv' /\ Formed(c)'
  <2>1. TypeOK'
    BY TypeInvariant DEF IndInv
  <2>2. p \in Ordinals
    BY <2>1 DEF TypeOK, Membership, members
  <2> QED
    BY <2>2, PeerInvKept DEF Formed, members
<1>3. ASSUME joins(peers[p])' PROVE peers'[p].initial = members(c)'
  <2>1. CASE PeerCreated(p)
    <3>1. PICK d \in Serving : p \in members(d) /\ peers'[p].initial = members(d)
      BY <1>3, <2>1 DEF PeerCreated, joins
    <3>2. d \in ClusterIds /\ Formed(d)
      BY ServingFormed DEF IndInv
    <3>3. d = c /\ members(c)' = members(c)
      BY <1>1, <1>2, <2>1, <3>2 DEF OneEtcdCluster, PeerCreated, members
    <3> QED
      BY <3>1, <3>3
  <2>2. CASE ~PeerCreated(p)
    <3>1. joins(peers[p]) /\ peers'[p].initial = peers[p].initial
      BY <1>2, <1>3, <2>2, NextPeerStep DEF PeerStep, PeerKept, PeerGone, joins, sameConfig
    <3>2. PICK e \in ClusterIds : Formed(e)
      BY <1>2, <3>1 DEF JoinersAreMembers
    <3>3. e = c
      BY <1>1, <1>2, <3>2 DEF OneEtcdCluster
    <3>4. CASE members(c)' = members(c) /\ p \notin etcd[c].named
      BY <1>1, <3>1, <3>4 DEF JoinConfigMatches
    <3>5. CASE UNCHANGED etcd
      BY <3>4, <3>5 DEF members
    <3>6. ASSUME NEW d \in ClusterIds, Forms(d) PROVE FALSE
      <4>1. Formed(d)' /\ ~Formed(d)
        BY <3>6 DEF Forms, Formed, members, ClusterIds
      <4> QED
        BY <1>2, <3>2, <3>3, <4>1 DEF OneEtcdCluster
    <3>7. ASSUME NEW d \in ClusterIds, NEW q \in Ordinals, Publishes(d, q)
          PROVE  members(c)' = members(c) /\ p \notin etcd[c].named
      BY <3>7 DEF Publishes
    <3>8. ASSUME NEW d \in ClusterIds, NEW q \in Ordinals, Adds(d, q) PROVE FALSE
      <4>1. Formed(d) /\ FoundStable
        BY <3>8, ServingFormed DEF Adds, IndInv
      <4>2. d = c
        BY <1>1, <3>2, <3>3, <4>1 DEF OneEtcdCluster
      <4>3. p = q
        BY <1>1, <3>8, <4>1, <4>2, FoundIsCluster DEF Adds
      <4>4. PICK f \in ClusterIds : p \in members(f)
        BY <1>1, <1>2, <3>1, <3>8, <4>3 DEF Adds, JoinersAreMembers
      <4>5. f = c
        BY <1>1, <3>2, <3>3, <4>4 DEF OneEtcdCluster, Formed, members
      <4> QED
        BY <3>8, <4>2, <4>3, <4>4, <4>5 DEF Adds
    <3>9. ASSUME NEW d \in ClusterIds, NEW q \in Ordinals, Removes(d, q) PROVE FALSE
      <4>1. Formed(d) /\ FoundStable
        BY <3>9, ServingFormed DEF Removes, IndInv
      <4>2. d = c
        BY <1>1, <3>2, <3>3, <4>1 DEF OneEtcdCluster
      <4>3. members(c) \subseteq etcd[c].named
        BY <1>1, <4>1, <4>2, FoundIsCluster
      <4> QED
        BY <3>9, <4>2, <4>3 DEF Removes
    <3> QED
      BY <3>4, <3>5, <3>6, <3>7, <3>8, <3>9, NextEtcdStep DEF EtcdStep
  <2> QED
    BY <2>1, <2>2
<1>4. ASSUME joins(rs[p])', ~rs'[p].orphan PROVE rs'[p].initial = members(c)'
  <2>1. joins(peers[p])' /\ rs'[p].initial = peers'[p].initial
    BY <1>2, <1>4 DEF PeerInv, ReplicaSetOfPeer, joins, sameConfig
  <2> QED
    BY <1>3, <2>1
<1> QED
  BY <1>3, <1>4

\* Before the cluster exists, and in a settled one, no peer is to join.
LEMMA NoJoiners ==
  ASSUME Init \/ Established PROVE JoinersAreMembers /\ JoinConfigMatches
<1>1. \A p \in Ordinals : ~joins(peers[p]) /\ ~joins(rs[p])
  <2>1. CASE Init
    BY <2>1 DEF Init, joins
  <2>2. CASE Established
    <3> DEFINE c == expectedPeerNamesForCluster(spec.replicas)
               peer == [version |-> InitVersion, state |-> "New", initial |-> c,
                        finalizer |-> FALSE, deleting |-> FALSE, serverVersion |-> InitVersion]
               replicaSet == [orphan |-> FALSE, version |-> InitVersion, state |-> "New",
                              initial |-> c, pod |-> "running"]
    <3>1. /\ peers = [p \in Ordinals |-> IF p \in c THEN peer ELSE None]
          /\ rs = [p \in Ordinals |-> IF p \in c THEN replicaSet ELSE None]
      BY <2>2 DEF Established
    <3>2. peer.state = "New" /\ replicaSet.state = "New"
      OBVIOUS
    <3> HIDE DEF c, peer, replicaSet
    <3> QED
      BY <3>1, <3>2 DEF joins
  <2> QED
    BY <2>1, <2>2
<1>2. IndInv
  BY InitEstablishes, EstablishedHolds
<1>3. \A c \in ClusterIds : members(c) \subseteq Ordinals
  BY <1>2 DEF IndInv, TypeOK, Membership, members
<1> QED
  BY <1>1, <1>3 DEF JoinersAreMembers, JoinConfigMatches

\* While there is one etcd cluster, reconcile keeps the peers that have yet to join it
\* its members, configured with the membership they will find.
THEOREM JoinInvariant ==
  /\ Spec => []JoinInv
  /\ EstablishedSpec => []JoinInv
<1>1. Init => JoinInv
  BY NoJoiners DEF JoinInv
<1>2. Established => JoinInv
  BY NoJoiners DEF JoinInv
<1>3. IndInv /\ PeerInv /\ JoinInv /\ [Next]_vars => JoinInv'
  BY JoinersKept, JoinConfigKept DEF JoinInv
<1> QED
  BY <1>1, <1>2, <1>3, PeersCorrect, PTL DEF Spec, EstablishedSpec

\* While there is one etcd cluster, a peer created for a new member, and the
\* ReplicaSet that runs it, name exactly the membership that etcd will compare them
\* with: no later step of either controller makes that configuration obsolete.
THEOREM JoinTheorem ==
  /\ Spec => []JoinConfigMatches
  /\ EstablishedSpec => []JoinConfigMatches
<1>1. JoinInv => JoinConfigMatches
  BY DEF JoinInv
<1> QED
  BY <1>1, JoinInvariant, PTL
-----------------------------------------------------------------------------
(* Volumes that removed members leave behind. *)

\* Setting a field of a volume leaves a volume with the other fields.
LEMMA MarkedVolume ==
  ASSUME TypeOK, NEW p \in Ordinals, pvc[p] # None
  PROVE  /\ [pvc[p] EXCEPT !.deleting = TRUE] # None
         /\ [pvc[p] EXCEPT !.deleting = TRUE].deleting
         /\ [pvc[p] EXCEPT !.deleting = TRUE].data = pvc[p].data
         /\ [pvc[p] EXCEPT !.deleting = TRUE].tombstone = pvc[p].tombstone
         /\ [pvc[p] EXCEPT !.tombstone = TRUE] # None
         /\ [pvc[p] EXCEPT !.tombstone = TRUE].deleting = pvc[p].deleting
         /\ [pvc[p] EXCEPT !.tombstone = TRUE].data = pvc[p].data
<1>1. pvc[p] \in Pvc
  BY DEF TypeOK
<1>2. /\ [pvc[p] EXCEPT !.deleting = TRUE] # None
      /\ [pvc[p] EXCEPT !.tombstone = TRUE] # None
  BY PvcFields, NoneAssumption
<1>3. /\ [pvc[p] EXCEPT !.deleting = TRUE].deleting
      /\ [pvc[p] EXCEPT !.deleting = TRUE].data = pvc[p].data
      /\ [pvc[p] EXCEPT !.deleting = TRUE].tombstone = pvc[p].tombstone
  BY <1>1 DEF Pvc
<1>4. /\ [pvc[p] EXCEPT !.tombstone = TRUE].deleting = pvc[p].deleting
      /\ [pvc[p] EXCEPT !.tombstone = TRUE].data = pvc[p].data
  BY <1>1 DEF Pvc
<1> QED
  BY <1>2, <1>3, <1>4

(* What a step may do to the volume of one name. *)

\* A blank volume is created.
VolumeCreated(p) ==
  /\ pvc[p] = None /\ pvc'[p] # None
  /\ pvc'[p].data = {} /\ ~pvc'[p].deleting /\ ~pvc'[p].tombstone

\* A volume is marked for deletion, because the cached peer has the finalizer.
VolumeDeleted(p) ==
  /\ pvc[p] # None /\ pvc'[p] # None /\ hasFinalizer(cachedPeers[p])
  /\ pvc'[p].data = pvc[p].data /\ pvc'[p].tombstone = pvc[p].tombstone /\ pvc'[p].deleting

\* A process starts on a volume: on the data there is, or on a blank one with the
\* cluster that its flags name or that it joins.
VolumeStarted(p) ==
  /\ pvc[p] # None /\ pvc'[p] # None
  /\ pvc'[p].deleting = pvc[p].deleting /\ pvc'[p].tombstone = pvc[p].tombstone
  /\ rs[p] # None /\ rs[p].pod # "running" /\ rs'[p] # None /\ rs'[p].pod = "running"
  /\ \/ pvc'[p].data = pvc[p].data
     \/ rs[p].state = "New" /\ pvc'[p].data = rs[p].initial
     \/ pvc'[p].data \in Serving

\* Its member is removed.
VolumeRetired(p) ==
  /\ pvc[p] # None /\ pvc'[p] # None
  /\ pvc'[p].data = pvc[p].data /\ pvc'[p].deleting = pvc[p].deleting
  /\ \E d \in ClusterIds : Removes(d, p)

VolumeStep(p) ==
  \/ pvc'[p] = pvc[p]
  \/ pvc[p] # None /\ pvc[p].deleting /\ pvc'[p] = None
  \/ VolumeCreated(p) \/ VolumeDeleted(p) \/ VolumeStarted(p) \/ VolumeRetired(p)

\* A process that starts changes only what its volume holds.
LEMMA StartVolume ==
  ASSUME TypeOK, NEW q \in Ordinals, NEW S \in SUBSET Ordinals, startPod(q, S),
         rs[q] # None, pvc[q] # None,
         S = pvc[q].data \/ (rs[q].state = "New" /\ S = rs[q].initial) \/ S \in Serving,
         NEW p \in Ordinals
  PROVE  VolumeStep(p)
<1>1. CASE p # q
  BY <1>1 DEF startPod, TypeOK, VolumeStep
<1>2. CASE p = q
  <2>1. pvc'[q] = [pvc[q] EXCEPT !.data = S] /\ rs[q].pod # "running"
    BY DEF startPod, TypeOK
  <2>2. pvc[q] \in Pvc
    BY DEF TypeOK
  <2>3. [pvc[q] EXCEPT !.data = S] # None
    BY PvcFields, NoneAssumption
  <2>4. /\ [pvc[q] EXCEPT !.data = S].data = S
        /\ [pvc[q] EXCEPT !.data = S].deleting = pvc[q].deleting
        /\ [pvc[q] EXCEPT !.data = S].tombstone = pvc[q].tombstone
    BY <2>2 DEF Pvc
  <2>5. rs'[q] # None /\ rs'[q].pod = "running"
    <3>1. rs'[q] = [rs[q] EXCEPT !.pod = "running"]
      BY DEF startPod, TypeOK
    <3> QED
      BY <3>1, MarkedReplicaSet
  <2> QED
    BY <1>2, <2>1, <2>3, <2>4, <2>5 DEF VolumeStep, VolumeStarted
<1> QED
  BY <1>1, <1>2

\* The peer controller creates volumes and marks them for deletion.
LEMMA PeerVolumeStep ==
  ASSUME TypeOK, NEW q \in Ordinals, ReconcilePeer(q), NEW p \in Ordinals
  PROVE  VolumeStep(p)
<1>1. CASE pvc'[p] = pvc[p]
  BY <1>1 DEF VolumeStep
<1>2. ASSUME NEW v, maybeCreatePvc(q, v), pvc'[p] # pvc[p] PROVE VolumeStep(p)
  <2> DEFINE blank == [deleting |-> FALSE, data |-> {}, tombstone |-> FALSE]
  <2>1. pvc[p] = None /\ pvc'[p] = blank
    BY <1>2 DEF maybeCreatePvc, TypeOK
  <2>2. blank.data = {} /\ ~blank.deleting /\ ~blank.tombstone
    OBVIOUS
  <2> HIDE DEF blank
  <2> QED
    BY <1>2, <2>1, <2>2 DEF VolumeStep, VolumeCreated
<1>3. ASSUME NEW v, deletePvc(q, v), pvc'[p] # pvc[p] PROVE VolumeStep(p)
  <2>1. /\ p = q /\ pvc[p] # None /\ pvc'[p] = [pvc[p] EXCEPT !.deleting = TRUE]
        /\ hasFinalizer(cachedPeers[p])
    BY <1>3 DEF deletePvc, ReconcilePeer, hasFinalizer, TypeOK
  <2> QED
    BY <2>1, MarkedVolume DEF VolumeStep, VolumeDeleted
<1> QED
  BY <1>1, <1>2, <1>3 DEF ReconcilePeer, createReplicaSet, hasReplicaSet, removePvcFinalizer, podVars

\* The cluster controller retires the volumes of the members it removes.
LEMMA ClusterVolumeStep ==
  ASSUME TypeOK, ReconcileCluster, NEW p \in Ordinals
  PROVE  VolumeStep(p)
<1>1. CASE pvc'[p] = pvc[p]
  BY <1>1 DEF VolumeStep
<1>2. CASE pvc'[p] # pvc[p]
  <2>1. PICK c \in SUBSET Ordinals : listMembers(c) /\ reconcile(c)
    BY DEF ReconcileCluster
  <2>2. removeMember(c)
    BY <1>2, <2>1 DEF reconcile, createService, createBootstrapPeer, createPeerForMember,
         addPvcFinalizer, deleteSurplusPeer, deleteOutdatedPeer, addNewMember, nothingToDo, podVars
  <2>3. /\ FoundStable /\ UNCHANGED <<peers, cachedPeers>>
        /\ c \in Serving /\ hasTooManyMembers(c)
    BY <2>1, <2>2, CanScaleFound DEF removeMember, ReconcileCluster, cacheVars
  <2>4. PICK d \in Serving, q \in {LastByName(members(c))} : memberRemove(d, q)
    BY <1>2, <2>2 DEF removeMember, podVars
  <2>5. /\ Removes(d, q) /\ d \in ClusterIds
        /\ pvc' = [pvc EXCEPT ![q] = IF @ # None /\ @.data = d
                                       THEN [@ EXCEPT !.tombstone = TRUE] ELSE @]
    BY <1>2, <2>3, <2>4, RemoveIsRemoves DEF Serving
  <2>6. p = q /\ pvc[p] # None /\ pvc'[p] = [pvc[p] EXCEPT !.tombstone = TRUE]
    BY <1>2, <2>5 DEF TypeOK
  <2>8. Removes(d, p) /\ d \in ClusterIds
    BY <2>5, <2>6
  <2>9. /\ [pvc[p] EXCEPT !.tombstone = TRUE] # None
        /\ [pvc[p] EXCEPT !.tombstone = TRUE].deleting = pvc[p].deleting
        /\ [pvc[p] EXCEPT !.tombstone = TRUE].data = pvc[p].data
    BY <2>6, MarkedVolume
  <2> QED
    BY <2>6, <2>8, <2>9 DEF VolumeStep, VolumeRetired
<1> QED
  BY <1>1, <1>2

\* Every step of the system is one of these for a volume.
LEMMA NextVolumeStep ==
  ASSUME TypeOK, [Next]_vars, NEW p \in Ordinals
  PROVE  VolumeStep(p)
<1>1. CASE UNCHANGED pvc
  BY <1>1 DEF VolumeStep
<1>2. CASE ReconcileCluster
  BY <1>2, ClusterVolumeStep
<1>3. CASE ReconcileAnyPeer
  BY <1>3, PeerVolumeStep DEF ReconcileAnyPeer
<1>4. ASSUME NEW q \in Ordinals, releasePvc(q) PROVE VolumeStep(p)
  BY <1>4 DEF releasePvc, TypeOK, VolumeStep
<1>5. ASSUME NEW q \in Ordinals, startNew(q) \/ startExisting(q) \/ restart(q)
      PROVE  VolumeStep(p)
  <2>1. CASE startNew(q)
    BY <2>1, StartVolume DEF startNew, TypeOK, ReplicaSet
  <2>2. CASE startExisting(q)
    BY <2>2, StartVolume DEF startExisting, Serving, ClusterIds
  <2>3. CASE restart(q)
    BY <2>3, StartVolume DEF restart, TypeOK, Pvc
  <2> QED
    BY <1>5, <2>1, <2>2, <2>3
<1>6. CASE Infrastructure
  BY <1>1, <1>4, <1>5, <1>6 DEF Infrastructure, collectGarbage, formCluster, publish, podVars
<1>7. CASE syncSpec \/ syncPeers \/ ValidateUpdate \/ (\E q \in Ordinals : crash(q))
           \/ UNCHANGED vars
  BY <1>1, <1>7 DEF syncSpec, syncPeers, ValidateUpdate, crash, vars, podVars
<1> QED
  BY <1>2, <1>3, <1>6, <1>7 DEF Next

\* Data becomes that of a removed member when etcd removes the member; nothing takes
\* back the deletion of a volume.
LEMMA NextTombstone ==
  ASSUME IndInv, [Next]_vars, NEW p \in Ordinals, hasTombstone(p)'
  PROVE  \/ hasTombstone(p) /\ (pvc[p].deleting => pvc'[p].deleting)
         \/ \E d \in ClusterIds : Removes(d, p)
<1>1. VolumeStep(p)
  BY NextVolumeStep DEF IndInv
<1> QED
  BY <1>1 DEF VolumeStep, VolumeCreated, VolumeDeleted, VolumeStarted, VolumeRetired, hasTombstone

\* A step removes members only while they have peers.
RemovesWithPeer ==
  OneEtcdCluster => \A c \in ClusterIds : \A p \in members(c) \ members(c)' : peers[p] # None

\* The peer of a removed member stays until the volume is on its way out: it has the
\* finalizer when it is deleted, and the upgrade takes only peers of members.
LEMMA TombstoneKept ==
  ASSUME IndInv, PeerInv, TombstoneHasPeer, NoLeftoverData, [Next]_vars, RemovesWithPeer
  PROVE  TombstoneHasPeer'
<1> SUFFICES ASSUME NEW p \in Ordinals, hasTombstone(p)'
             PROVE  /\ \E c \in ClusterIds : Formed(c)'
                    /\ OneEtcdCluster' /\ ~pvc'[p].deleting
                         => peers'[p] # None /\ cachedPeers'[p] # None
  BY DEF TombstoneHasPeer
<1>1. /\ \A c \in ClusterIds : Formed(c) => Formed(c)'
      /\ OneEtcdCluster' => OneEtcdCluster
  BY FormedStays
<1>2. ASSUME NEW d \in ClusterIds, Removes(d, p)
      PROVE  Formed(d)' /\ (OneEtcdCluster' => peers'[p] # None /\ cachedPeers'[p] # None)
  <2>1. Formed(d) /\ FoundStable /\ p \in members(d) \ members(d)'
    BY <1>2 DEF Removes, Formed, members
  <2>2. OneEtcdCluster' => cachedPeers[p] # None
    BY <1>1, <2>1, FoundIsCluster
  <2>3. OneEtcdCluster' => peers[p] # None
    BY <1>1, <2>1 DEF RemovesWithPeer
  <2> QED
    BY <1>1, <1>2, <2>1, <2>2, <2>3 DEF Removes
<1>3. ASSUME hasTombstone(p), pvc[p].deleting => pvc'[p].deleting
      PROVE  /\ \E c \in ClusterIds : Formed(c)'
             /\ OneEtcdCluster' /\ ~pvc'[p].deleting
                  => peers'[p] # None /\ cachedPeers'[p] # None
  <2>1. \E c \in ClusterIds : Formed(c)'
    BY <1>1, <1>3 DEF TombstoneHasPeer
  <2>2. ASSUME OneEtcdCluster', ~pvc'[p].deleting
        PROVE  peers'[p] # None /\ cachedPeers'[p] # None
    <3>1. OneEtcdCluster /\ ~pvc[p].deleting /\ pvc[p] # None
      BY <1>1, <1>3, <2>2 DEF hasTombstone
    <3>2. peers[p] # None /\ cachedPeers[p] # None
      BY <1>3, <3>1 DEF TombstoneHasPeer
    <3>3. \A c \in Serving : p \notin members(c)
      BY <1>3, <3>1 DEF NoLeftoverData, Serving
    <3>4. ~PeerGone(p)
      BY <3>1, <3>3 DEF PeerGone
    <3> QED
      BY <3>2, <3>4, NextPeerStep DEF PeerStep, PeerKept, PeerCreated
  <2> QED
    BY <2>1, <2>2
<1> QED
  BY <1>2, <1>3, NextTombstone

\* A new member has no leftover volume: its name is free in the cache.
LEMMA NoLeftoverKept ==
  ASSUME IndInv, PeerInv, TombstoneHasPeer, NoLeftoverData, [Next]_vars
  PROVE  NoLeftoverData'
<1> SUFFICES ASSUME NEW c \in ClusterIds, NEW p \in members(c)', OneEtcdCluster',
                    hasTombstone(p)', ~pvc'[p].deleting
             PROVE  FALSE
  BY DEF NoLeftoverData
<1>1. OneEtcdCluster /\ \A d \in ClusterIds : Formed(d) => Formed(d)'
  BY FormedStays
<1>2. p \in Ordinals /\ Formed(c)'
  <2>1. TypeOK'
    BY TypeInvariant DEF IndInv
  <2> QED
    BY <2>1 DEF TypeOK, Membership, members, Formed
<1>3. ASSUME NEW d \in ClusterIds, Removes(d, p) PROVE FALSE
  <2>1. Formed(d)
    BY <1>3 DEF Removes, Formed, members
  <2>2. d = c
    BY <1>1, <1>2, <2>1 DEF OneEtcdCluster
  <2> QED
    BY <1>3, <2>2 DEF Removes
<1>4. hasTombstone(p) /\ ~pvc[p].deleting
  BY <1>2, <1>3, NextTombstone
<1>5. PICK e \in ClusterIds : Formed(e)
  BY <1>2, <1>4 DEF TombstoneHasPeer
<1>6. e = c /\ cachedPeers[p] # None
  BY <1>1, <1>2, <1>4, <1>5 DEF OneEtcdCluster, TombstoneHasPeer
<1>7. p \notin members(c)
  BY <1>1, <1>4 DEF NoLeftoverData
<1>8. CASE UNCHANGED etcd
  BY <1>7, <1>8 DEF members
<1>9. ASSUME NEW d \in ClusterIds, Forms(d) PROVE FALSE
  BY <1>5, <1>6, <1>7, <1>9 DEF Forms, members
<1>10. ASSUME NEW d \in ClusterIds, NEW q \in Ordinals,
              Publishes(d, q) \/ Adds(d, q) \/ Removes(d, q)
       PROVE  FALSE
  BY <1>6, <1>7, <1>10 DEF Publishes, Adds, Removes, members
<1> QED
  BY <1>8, <1>9, <1>10, NextEtcdStep DEF EtcdStep

\* Before the cluster exists, and in a settled one, no member has been removed.
LEMMA NoTombstones ==
  ASSUME Init \/ Established PROVE TombstoneHasPeer /\ NoLeftoverData
<1>1. \A p \in Ordinals : ~hasTombstone(p)
  <2>1. CASE Init
    BY <2>1 DEF Init, hasTombstone
  <2>2. CASE Established
    <3> DEFINE c == expectedPeerNamesForCluster(spec.replicas)
               volume == [deleting |-> FALSE, data |-> c, tombstone |-> FALSE]
    <3>1. pvc = [p \in Ordinals |-> IF p \in c THEN volume ELSE None]
      BY <2>2 DEF Established
    <3>2. ~volume.tombstone
      OBVIOUS
    <3> HIDE DEF c, volume
    <3> QED
      BY <3>1, <3>2 DEF hasTombstone
  <2> QED
    BY <2>1, <2>2
<1>2. IndInv
  BY InitEstablishes, EstablishedHolds
<1>3. \A c \in ClusterIds : members(c) \subseteq Ordinals
  BY <1>2 DEF IndInv, TypeOK, Membership, members
<1> QED
  BY <1>1, <1>3 DEF TombstoneHasPeer, NoLeftoverData

\* As long as members are removed only while they have peers, the volume that a removed
\* member leaves has a peer, in the API server and in the cache, until it is deleted.
THEOREM TombstoneTheorem ==
  /\ Spec /\ RemovedWithPeer => []TombstoneHasPeer /\ []NoLeftoverData
  /\ EstablishedSpec /\ RemovedWithPeer => []TombstoneHasPeer /\ []NoLeftoverData
<1> DEFINE Inv == TombstoneHasPeer /\ NoLeftoverData
<1>1. Init => Inv
  BY NoTombstones
<1>2. Established => Inv
  BY NoTombstones
<1>3. IndInv /\ PeerInv /\ Inv /\ [Next]_vars /\ [RemovesWithPeer]_vars => Inv'
  <2>1. UNCHANGED vars => RemovesWithPeer
    BY DEF vars, RemovesWithPeer, members
  <2> QED
    BY <2>1, TombstoneKept, NoLeftoverKept
<1>4. Inv => TombstoneHasPeer /\ NoLeftoverData
  OBVIOUS
<1>5. RemovedWithPeer => [][RemovesWithPeer]_vars
  BY DEF RemovedWithPeer, RemovesWithPeer
<1> HIDE DEF Inv
<1> QED
  BY <1>1, <1>2, <1>3, <1>4, <1>5, PeersCorrect, PTL DEF Spec, EstablishedSpec

\* As long as members are removed only while they have peers, a new member is never
\* given a name whose volume holds the data of a removed one, unless that volume is
\* on its way out: finalizer, peer, volume and name are given up in that order.
THEOREM LeftoverTheorem ==
  /\ Spec /\ RemovedWithPeer => []NoLeftoverData
  /\ EstablishedSpec /\ RemovedWithPeer => []NoLeftoverData
  BY TombstoneTheorem, PTL
=============================================================================
