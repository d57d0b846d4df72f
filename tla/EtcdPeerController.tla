------------------------- MODULE EtcdPeerController -------------------------
(***************************************************************************)
(* The EtcdPeer controller.  One reconciliation of peer p reads the cached  *)
(* EtcdPeer, asks its etcd process for its version, creates the PVC or the  *)
(* ReplicaSet or advances the deletion, and patches the status.             *)
(***************************************************************************)
EXTENDS Platform

\* The version the process of p answers with; None when it does not run.
serverVersion(p) ==
  IF \E c \in ClusterIds : p \in etcd[c].named /\ Runs(p, c) THEN rs[p].version ELSE None

\* The answer that one reconciliation gets.  A call that fails is not retried, and
\* passes for the answer of a process that does not run.
getVersion(p, v) ==
  \/ v = serverVersion(p) /\ UNCHANGED faults
  \/ serverVersion(p) # None /\ v = None /\ faults > 0 /\ faults' = faults - 1

\* The status patch that ends every reconciliation goes to whatever peer has
\* the name, and is left out when the cached status already agrees.
updatePeerStatus(p, peer, v) ==
  IF peer = None \/ cachedPeers[p].serverVersion = v
    THEN peer ELSE [peer EXCEPT !.serverVersion = v]

patchStatusOnly(p, v) == peers' = [peers EXCEPT ![p] = updatePeerStatus(p, @, v)]

\* A PVC that exists is accepted, even one that is being deleted.
maybeCreatePvc(p, v) ==
  /\ ~cachedPeers[p].deleting /\ pvc[p] = None
  /\ pvc' = [pvc EXCEPT ![p] = [deleting |-> FALSE, data |-> {}, tombstone |-> FALSE]]
  /\ patchStatusOnly(p, v)
  /\ UNCHANGED rs

\* Mutant: the owner reference goes by name, so any peer of that name will do.
createReplicaSetByName(p, v) ==
  /\ ~cachedPeers[p].deleting /\ pvc[p] # None /\ rs[p] = None
  /\ rs' = [rs EXCEPT ![p] =
              [orphan |-> FALSE, version |-> cachedPeers[p].version,
               state |-> cachedPeers[p].state, initial |-> cachedPeers[p].initial,
               pod |-> "pending"]]
  /\ patchStatusOnly(p, v)
  /\ UNCHANGED pvc

\* The owner reference names the cached peer: if it is gone, the ReplicaSet is
\* an orphan from the start.
createReplicaSet(p, v) ==
  /\ ~cachedPeers[p].deleting /\ pvc[p] # None /\ rs[p] = None
  /\ rs' = [rs EXCEPT ![p] =
              [orphan |-> peers[p] = None, version |-> cachedPeers[p].version,
               state |-> cachedPeers[p].state, initial |-> cachedPeers[p].initial,
               pod |-> "pending"]]
  /\ patchStatusOnly(p, v)
  /\ UNCHANGED pvc

\* Nothing to create, and no volume to delete: only the status is patched.
hasReplicaSet(p, v) ==
  /\ IF cachedPeers[p].deleting THEN ~cachedPeers[p].finalizer
                               ELSE pvc[p] # None /\ rs[p] # None
  /\ patchStatusOnly(p, v)
  /\ UNCHANGED podVars

deletePvc(p, v) ==
  /\ cachedPeers[p].deleting /\ cachedPeers[p].finalizer
  /\ pvc[p] # None /\ ~pvc[p].deleting
  /\ pvc' = [pvc EXCEPT ![p].deleting = TRUE]
  /\ patchStatusOnly(p, v)
  /\ UNCHANGED rs

\* Mutant: does not wait until the PVC is marked for deletion.
removeFinalizerAtOnce(p, v) ==
  /\ cachedPeers[p].deleting /\ cachedPeers[p].finalizer
  /\ removeFinalizer(p, updatePeerStatus(p, peers[p], v))
  /\ UNCHANGED pvc

\* Mutant: waits until the PVC is gone, which waits for the pod.
removeFinalizerLast(p, v) ==
  /\ cachedPeers[p].deleting /\ cachedPeers[p].finalizer /\ pvc[p] = None
  /\ removeFinalizer(p, updatePeerStatus(p, peers[p], v))
  /\ UNCHANGED pvc

\* The PVC is marked for deletion; it goes after the pod, which goes after the
\* ReplicaSet, which goes after the peer.
removePvcFinalizer(p, v) ==
  /\ cachedPeers[p].deleting /\ cachedPeers[p].finalizer
  /\ pvc[p] # None => pvc[p].deleting
  /\ removeFinalizer(p, updatePeerStatus(p, peers[p], v))
  /\ UNCHANGED pvc

ReconcilePeer(p) ==
  /\ cachedPeers[p] # None
  /\ \E v \in Versions \cup {None} :
       /\ getVersion(p, v)
       /\ \/ maybeCreatePvc(p, v) \/ createReplicaSet(p, v) \/ hasReplicaSet(p, v)
          \/ deletePvc(p, v) \/ removePvcFinalizer(p, v)
  /\ UNCHANGED <<clusterVars, cacheVars, etcd, edits>>
=============================================================================
