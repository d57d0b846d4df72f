----------------------- MODULE EtcdClusterController -----------------------
(***************************************************************************)
(* The EtcdCluster controller.  One reconciliation reads the cached spec    *)
(* and peers, asks etcd for its members, patches the status, and does at    *)
(* most one other thing.  It is one step: the controller runs one           *)
(* reconciliation of a cluster at a time, the objects it reads may already  *)
(* be stale when it reads them, and membership is changed by nobody else.   *)
(* The first argument c of an action is the cluster that answered, if any.  *)
(***************************************************************************)
EXTENDS Platform

\* The EtcdPeerList that r.List returns.
peersSeen == {p \in Ordinals : cachedPeers[p] # None}

\* The member list: of any cluster that answers, or nil when none does or the
\* call is lost.
listMembers(c) ==
  \/ c \in Serving /\ UNCHANGED faults
  \/ c = NoContact /\ Serving = {} /\ UNCHANGED faults
  \/ c = NoContact /\ Serving # {} /\ faults > 0 /\ faults' = faults - 1

members(c) == etcd[c].members

\* Without an answer the old list of members is kept.
updateStatus(c) ==
  status' = [replicas |-> Cardinality(peersSeen),
             members |-> IF c = NoContact THEN status.members ELSE members(c)]

\* Mutant: only the first peer is bootstrapped.
hasNoPeers == peersSeen = {}

hasTooFewPeers == Cardinality(peersSeen) < cachedSpec.replicas

\* Mutant: off by one.
hasNoMembersToSpare(c) == cachedSpec.replicas >= Cardinality(members(c))

hasTooFewMembers(c) == cachedSpec.replicas > Cardinality(members(c))
hasTooManyMembers(c) == cachedSpec.replicas < Cardinality(members(c))
hasPeerForMember(p) == p \in peersSeen
isAllMembersStable(c) == members(c) \subseteq etcd[c].named

peerForCluster(state, initial) ==
  [version |-> cachedSpec.version, state |-> state, initial |-> initial,
   finalizer |-> FALSE, deleting |-> FALSE, serverVersion |-> None]

\* Mutant: every blank peer is to start a cluster of its own.
configurePeerAlone == peerForCluster("New", {nextAvailablePeerName(peersSeen)})

configurePeerBootstrap ==
  peerForCluster("New", expectedPeerNamesForCluster(cachedSpec.replicas))

\* Mutant: leaves out the members that have no name yet, the new one included.
configureJoinNamedMembers(c) == peerForCluster("Existing", etcd[c].named)

configureJoinExistingCluster(c) == peerForCluster("Existing", members(c))

\* Mutant: compares what the peer was asked to run, not what it reports.
outdatedBySpec == {p \in peersSeen : cachedPeers[p].version # cachedSpec.version}

\* The last peer in name order that has not reported the wanted version.
outdatedPeers == {p \in peersSeen : cachedPeers[p].serverVersion # cachedSpec.version}
nextOutdatedPeer(p) == p \in outdatedPeers /\ \A q \in outdatedPeers \ {p} : NameLess(q, p)

\* Mutant: surplus is decided by ordinal, before the member is removed.
surplusByOrdinal(c) == {p \in peersSeen : p >= cachedSpec.replicas /\ ~cachedPeers[p].deleting}

\* Mutant: a peer of another version is given up like one without a member.
surplusOrOutdated(c) ==
  {p \in peersSeen : ~cachedPeers[p].deleting
     /\ (p \in members(c) => cachedPeers[p].version # cachedSpec.version)}

\* Peers without a member that are not being deleted yet.
surplusPeers(c) == {p \in peersSeen \ members(c) : ~cachedPeers[p].deleting}
-----------------------------------------------------------------------------
(* The one thing a reconciliation does, in the order it is considered. *)

createService ==
  /\ ~service /\ service' = TRUE
  /\ UNCHANGED <<peers, podVars, etcd>>

createBootstrapPeer(c) ==
  /\ service /\ c = NoContact /\ hasTooFewPeers
  /\ createPeer(nextAvailablePeerName(peersSeen), configurePeerBootstrap)
  /\ UNCHANGED <<service, podVars, etcd>>

\* Mutant: every peer is created with bootstrap instructions.
createBlankPeerForMember(c) ==
  /\ service /\ c # NoContact
  /\ \E p \in members(c) : ~hasPeerForMember(p) /\ createPeer(p, configurePeerBootstrap)
  /\ UNCHANGED <<service, podVars, etcd>>

createPeerForMember(c) ==
  /\ service /\ c # NoContact
  /\ \E p \in members(c) : ~hasPeerForMember(p) /\ createPeer(p, configureJoinExistingCluster(c))
  /\ UNCHANGED <<service, podVars, etcd>>

\* Past the creation of peers, with every member started.
canChange(c) ==
  /\ service /\ c # NoContact
  /\ \A p \in members(c) : hasPeerForMember(p)
  /\ isAllMembersStable(c)

addPvcFinalizer(c) ==
  /\ canChange(c)
  /\ \E p \in surplusPeers(c) :
       /\ ~cachedPeers[p].finalizer
       /\ peers' = [peers EXCEPT ![p] = IF @ = None THEN @ ELSE [@ EXCEPT !.finalizer = TRUE]]
  /\ UNCHANGED <<service, podVars, etcd>>

deleteSurplusPeer(c) ==
  /\ canChange(c)
  /\ \E p \in surplusPeers(c) : cachedPeers[p].finalizer /\ deletePeer(p)
  /\ UNCHANGED <<service, pvc, etcd>>

canUpgrade(c) == canChange(c) /\ surplusPeers(c) = {}

\* Mutant: a peer that has yet to report the wanted version is replaced again.
mustWaitForDeletion(p) == cachedPeers[p].deleting

\* The upgrade waits for the peer it has replaced, and for one being deleted.
mustWaitFor(p) == cachedPeers[p].version = cachedSpec.version \/ cachedPeers[p].deleting

deleteOutdatedPeer(c) ==
  /\ canUpgrade(c)
  /\ \E p \in outdatedPeers : nextOutdatedPeer(p) /\ ~mustWaitFor(p) /\ deletePeer(p)
  /\ UNCHANGED <<service, pvc, etcd>>

\* Mutant: scales without waiting for the upgrade.
canScaleMeanwhile(c) == canUpgrade(c)

canScale(c) == canUpgrade(c) /\ outdatedPeers = {}

\* Mutant: the name is free among the members, not among the peers.
addMemberReusingName(c) ==
  /\ canScale(c) /\ hasTooFewMembers(c)
  /\ nextAvailablePeerName(members(c)) \in Ordinals
  /\ \E d \in Serving : memberAdd(d, nextAvailablePeerName(members(c)))
  /\ UNCHANGED <<service, peers, podVars>>

\* The calls that change the membership are new connections through the Service.
\* The name is free among the cached peers.
addNewMember(c) ==
  /\ canScale(c) /\ hasTooFewMembers(c)
  /\ nextAvailablePeerName(peersSeen) \in Ordinals
  /\ \E d \in Serving : memberAdd(d, nextAvailablePeerName(peersSeen))
  /\ UNCHANGED <<service, peers, podVars>>

\* The member is removed by its ID.  Members of two clusters have the same ID
\* when both clusters were started with them.
sameMember(c, d, p) ==
  c = d \/ \A e \in {c, d} : p \in (e \cap members(e)) \ etcd[e].removed

\* Mutant: the members are not sorted in reverse.
removeFirstMember(c) ==
  /\ canScale(c) /\ hasTooManyMembers(c)
  /\ LET p == CHOOSE q \in members(c) : \A r \in members(c) : ~NameLess(r, q)
     IN  \E d \in Serving :
           IF sameMember(c, d, p) THEN memberRemove(d, p) ELSE UNCHANGED <<etcd, podVars>>
  /\ UNCHANGED <<service, peers>>

removeMember(c) ==
  /\ canScale(c) /\ hasTooManyMembers(c)
  /\ LET p == LastByName(members(c))
     IN  \E d \in Serving :
           IF sameMember(c, d, p) THEN memberRemove(d, p) ELSE UNCHANGED <<etcd, podVars>>
  /\ UNCHANGED <<service, peers>>

nothingToDo(c) ==
  /\ service
  /\ \/ c = NoContact /\ ~hasTooFewPeers
     \/ c # NoContact /\ ~isAllMembersStable(c) /\ \A p \in members(c) : hasPeerForMember(p)
     \/ canUpgrade(c) /\ \E p \in outdatedPeers : nextOutdatedPeer(p) /\ mustWaitFor(p)
     \/ canScale(c) /\ Cardinality(members(c)) = cachedSpec.replicas
  /\ UNCHANGED <<service, peers, podVars, etcd>>

reconcile(c) ==
  \/ createService \/ createBootstrapPeer(c) \/ createPeerForMember(c)
  \/ addPvcFinalizer(c) \/ deleteSurplusPeer(c) \/ deleteOutdatedPeer(c)
  \/ addNewMember(c) \/ removeMember(c) \/ nothingToDo(c)

ReconcileCluster ==
  /\ \E c \in SUBSET Ordinals : listMembers(c) /\ updateStatus(c) /\ reconcile(c)
  /\ UNCHANGED <<spec, cacheVars, edits>>
=============================================================================
