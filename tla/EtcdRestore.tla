---------------------------- MODULE EtcdRestore ----------------------------
(***************************************************************************)
(* The EtcdRestore controller and the restore agents it runs in pods.  All  *)
(* restores of the model have the same cluster name in their template, so   *)
(* that they compete for the volumes, the pods and the cluster; one that is *)
(* deleted and made again under the same name has another UID, and may have *)
(* another source.                                                          *)
(***************************************************************************)
EXTENDS Naturals, FiniteSets

CONSTANTS Restores,     \* names of EtcdRestores
          Size,         \* replicas of the cluster template
          MaxUID,       \* bound: restores made under a name
          MaxFaults,    \* bound: failed calls, lost pods and nodes, restarts, deleted restores,
                        \* names after the first and clusters made by somebody else
          None          \* no object, no label, no data

UIDs == 1..MaxUID
Peers == 0..(Size - 1)

Ended == {"Failed", "Completed"}
Phases == {"", "Pending"} \cup Ended
Kinds == {"EtcdRestore", "PersistentVolumeClaim", "Pod", "EtcdCluster"}

\* label is the restored-from label; None is the label of an object that was made
\* by somebody else.
Labels == Restores \cup {None}
Restore == [uid : UIDs, phase : Phases]
PVC == [label : Labels]
Pod == [label : Labels, owner : UIDs, state : {"running", "succeeded", "failed", "unknown"}]
Cluster == [label : Labels]
\* A watch event, and the restore it leads to.
Event == [kind : Kinds, wakes : Labels]
\* What a reconcile does: create an object or update the phase of the restore read.
Ops == {"PersistentVolumeClaim", "Pod", "EtcdCluster", "Pending", "Failed", "Completed"}
Action == [name : Restores, seen : Restore, op : Ops, peer : Peers]

ASSUME RestoreAssumption ==
  /\ Size \in Nat \ {0} /\ MaxUID \in Nat \ {0} /\ MaxFaults \in Nat
  /\ None \notin Restores /\ None \notin UIDs /\ None \notin Restore /\ None \notin PVC
  /\ None \notin Pod /\ None \notin Cluster /\ None \notin Action

VARIABLES
  restore, pvc, pod, cluster,                         \* the objects in the API server
  unseen,                                             \* events the informers have yet to see
  cachedRestore, cachedPVC, cachedPod, cachedCluster, \* the informer cache
  queued,                                             \* the work queue of the controller
  action,                                             \* what Reconcile is about to do
  data,                                               \* the restore whose snapshot a volume
                                                      \* holds entirely
  copying,                                            \* the volumes an agent is writing to
  lost,                                               \* whether a pod has been lost
  made, faults                                        \* what has been used of the bounds

apiVars == <<restore, pvc, pod, cluster, unseen>>
cacheVars == <<cachedRestore, cachedPVC, cachedPod, cachedCluster>>
workVars == <<queued, action>>
volumeVars == <<data, copying>>
boundVars == <<lost, made, faults>>
vars == <<apiVars, cacheVars, workVars, volumeVars, boundVars>>

\* Type correctness of the objects, the cache and the worker.
TypeOK ==
  /\ restore \in [Restores -> Restore \cup {None}]
  /\ pvc \in [Peers -> PVC \cup {None}]
  /\ pod \in [Peers -> Pod \cup {None}]
  /\ cluster \in Cluster \cup {None}
  /\ unseen \subseteq Event
  /\ cachedRestore \in [Restores -> Restore \cup {None}]
  /\ cachedPVC \in [Peers -> PVC \cup {None}]
  /\ cachedPod \in [Peers -> Pod \cup {None}]
  /\ cachedCluster \in Cluster \cup {None}
  /\ queued \subseteq Restores /\ action \in Action \cup {None}
  /\ data \in [Peers -> UIDs \cup {None}] /\ copying \subseteq Peers
  /\ lost \in BOOLEAN /\ made \in [Restores -> 0..MaxUID] /\ faults \in 0..MaxFaults

foreignPVC == [label |-> None]
foreignPod == [label |-> None, owner |-> 1, state |-> "running"]

\* There may be a volume left of an earlier cluster, or a pod of the name.
Init ==
  /\ restore = [r \in Restores |-> None] /\ cluster = None
  /\ \E P \in {Q \in SUBSET Peers : Cardinality(Q) <= 1} :
       \/ /\ pvc = [p \in Peers |-> IF p \in P THEN foreignPVC ELSE None]
          /\ pod = [p \in Peers |-> None]
       \/ /\ pod = [p \in Peers |-> IF p \in P THEN foreignPod ELSE None]
          /\ pvc = [p \in Peers |-> None]
  /\ cachedRestore = restore /\ cachedPVC = pvc /\ cachedPod = pod /\ cachedCluster = cluster
  /\ unseen = {} /\ queued = {} /\ action = None
  /\ data = [p \in Peers |-> None] /\ copying = {}
  /\ lost = FALSE /\ made = [r \in Restores |-> 0] /\ faults = 0
-----------------------------------------------------------------------------
(* The API server, users, the informers. *)

emit(kind, label) == unseen' = unseen \cup {[kind |-> kind, wakes |-> label]}

writeRestore(r, obj) == restore' = [restore EXCEPT ![r] = obj] /\ emit("EtcdRestore", r)
createPVC(p, label) ==
  /\ pvc' = [pvc EXCEPT ![p] = [label |-> label]]
  /\ emit("PersistentVolumeClaim", label)
writePod(p, obj, label) == pod' = [pod EXCEPT ![p] = obj] /\ emit("Pod", label)
\* Mutant: the cluster is not marked.
createClusterUnmarked(label) == cluster' = [label |-> None] /\ emit("EtcdCluster", None)

createCluster(label) == cluster' = [label |-> label] /\ emit("EtcdCluster", label)

spend == faults < MaxFaults /\ faults' = faults + 1

create(r) ==
  /\ restore[r] = None /\ made[r] < MaxUID
  /\ made' = [made EXCEPT ![r] = @ + 1]
  /\ writeRestore(r, [uid |-> made[r] + 1, phase |-> ""])
  /\ \/ (\A q \in Restores \ {r} : made[q] = 0) /\ UNCHANGED faults
     \/ (\E q \in Restores \ {r} : made[q] # 0) /\ spend
  /\ UNCHANGED <<pvc, pod, cluster, cacheVars, workVars, volumeVars, lost>>

delete(r) ==
  /\ restore[r] # None /\ spend
  /\ writeRestore(r, None)
  /\ UNCHANGED <<pvc, pod, cluster, cacheVars, workVars, volumeVars, lost, made>>

isOwned(obj) == restore[obj.label] # None /\ restore[obj.label].uid = obj.owner

\* The garbage collector takes the pods of a restore that is gone; claims and
\* cluster have no owner.
collectPod(p) ==
  /\ pod[p] # None /\ pod[p].label # None /\ ~isOwned(pod[p])
  /\ writePod(p, None, pod[p].label) /\ copying' = copying \ {p}
  /\ UNCHANGED <<restore, pvc, cluster, cacheVars, workVars, data, boundVars>>

\* A user makes the cluster, whose peers make the claims that are missing.
createOtherCluster ==
  /\ cluster = None /\ spend /\ createCluster(None)
  /\ UNCHANGED <<restore, pvc, pod, cacheVars, workVars, volumeVars, lost, made>>

createOtherPVC(p) ==
  /\ cluster # None /\ pvc[p] = None /\ createPVC(p, None)
  /\ UNCHANGED <<restore, pod, cluster, cacheVars, workVars, volumeVars, boundVars>>

\* The informer of a kind catches up.  Events of pods lead to the owner, those of
\* claims and clusters to the restore on the label.
sync(kind) ==
  /\ \E e \in unseen : e.kind = kind
  /\ unseen' = {e \in unseen : e.kind # kind}
  /\ queued' = queued \cup {r \in Restores : [kind |-> kind, wakes |-> r] \in unseen}
  /\ cachedRestore' = IF kind = "EtcdRestore" THEN restore ELSE cachedRestore
  /\ cachedPVC' = IF kind = "PersistentVolumeClaim" THEN pvc ELSE cachedPVC
  /\ cachedPod' = IF kind = "Pod" THEN pod ELSE cachedPod
  /\ cachedCluster' = IF kind = "EtcdCluster" THEN cluster ELSE cachedCluster
  /\ UNCHANGED <<restore, pvc, pod, cluster, action, volumeVars, boundVars>>

\* The operator starts again.
restart ==
  /\ spend
  /\ cachedRestore' = restore /\ cachedPVC' = pvc
  /\ cachedPod' = pod /\ cachedCluster' = cluster /\ unseen' = {}
  /\ action' = None /\ queued' = {r \in Restores : restore[r] # None}
  /\ UNCHANGED <<restore, pvc, pod, cluster, volumeVars, lost, made>>
-----------------------------------------------------------------------------
(* Reconcile. *)

begin(r) ==
  /\ action = None /\ r \in queued /\ queued' = queued \ {r}
  /\ UNCHANGED <<apiVars, cacheVars, volumeVars, boundVars>>

inPhase(r, phase) == cachedRestore[r] # None /\ cachedRestore[r].phase = phase
isPending(r) == inPhase(r, "Pending")

\* Mutant: any claim will do that a restore has marked.
IsAnyPVC(r, claim) == claim.label # None

IsOurPVC(r, claim) == claim.label = r
IsOurPod(r, p) == p.label = r

\* Step 1 goes through the claims in order and ends at the first that is missing
\* or not ours.
ours(r, p) == cachedPVC[p] # None /\ IsOurPVC(r, cachedPVC[p])
atPVC(r, p) == isPending(r) /\ ~ours(r, p) /\ \A q \in 0..(p - 1) : ours(r, q)
haveAllPVCs(r) == isPending(r) /\ \A p \in Peers : ours(r, p)

someOtherPod(r) == \E p \in Peers : cachedPod[p] # None /\ ~IsOurPod(r, cachedPod[p])
lacksPod(p) == cachedPod[p] = None /\ \A q \in 0..(p - 1) : cachedPod[q] # None
haveAllPods(r) ==
  haveAllPVCs(r) /\ ~someOtherPod(r) /\ \A p \in Peers : cachedPod[p] # None
anyFailed == \E p \in Peers : cachedPod[p].state \in {"failed", "unknown"}
\* Mutant: the join waits for one pod only.
someSuccess == \E p \in Peers : cachedPod[p].state = "succeeded"

allSuccess == \A p \in Peers : cachedPod[p].state = "succeeded"

\* Not found, in an end state, or a pod has yet to finish.
isIdle(r) ==
  \/ cachedRestore[r] = None
  \/ inPhase(r, "Completed") \/ inPhase(r, "Failed")
  \/ haveAllPods(r) /\ ~anyFailed /\ ~allSuccess

ignore(r) == begin(r) /\ isIdle(r) /\ UNCHANGED action

planned(r, op, p) ==
  \/ op = "Pending" /\ inPhase(r, "")
  \/ op = "PersistentVolumeClaim" /\ atPVC(r, p) /\ cachedPVC[p] = None
  \/ op = "Failed" /\ atPVC(r, p) /\ cachedPVC[p] # None
  \/ op = "Failed" /\ haveAllPVCs(r) /\ someOtherPod(r)
  \/ op = "Pod" /\ haveAllPVCs(r) /\ ~someOtherPod(r) /\ lacksPod(p)
  \/ op = "Failed" /\ haveAllPods(r) /\ anyFailed
  \/ op = "EtcdCluster" /\ haveAllPods(r) /\ allSuccess /\ cachedCluster = None
  \/ op = "Completed" /\ haveAllPods(r) /\ allSuccess /\ cachedCluster # None

decide(r) ==
  /\ begin(r)
  /\ \E op \in Ops, p \in Peers :
       /\ planned(r, op, p)
       /\ action' = [name |-> r, seen |-> cachedRestore[r], op |-> op,
                     peer |-> IF op \in {"PersistentVolumeClaim", "Pod"} THEN p ELSE 0]

\* How a call ends.  Reconcile is called again after an error; a call that fails
\* on the way may have had its effect.
retry == queued' = queued \cup {action.name}
succeeds == UNCHANGED <<queued, faults>>
isRefused == retry /\ UNCHANGED <<unseen, faults>>
isLost == retry /\ spend

CreatePVC(r, p) ==
  /\ action.op = "PersistentVolumeClaim" /\ UNCHANGED <<restore, pod, cluster, data>>
  /\ \/ pvc[p] = None /\ createPVC(p, r) /\ (succeeds \/ isLost)
     \/ pvc[p] # None /\ UNCHANGED pvc /\ isRefused
     \/ UNCHANGED <<pvc, unseen>> /\ isLost

\* podForRestore: the pod has the name of the peer and the source of the restore.
CreatePod(r, p) ==
  /\ action.op = "Pod" /\ UNCHANGED <<restore, pvc, cluster, data>>
  /\ \/ /\ pod[p] = None
        /\ writePod(p, [label |-> r, owner |-> action.seen.uid, state |-> "running"], r)
        /\ succeeds \/ isLost
     \/ pod[p] # None /\ UNCHANGED pod /\ isRefused
     \/ UNCHANGED <<pod, unseen>> /\ isLost

CreateCluster(r) ==
  /\ action.op = "EtcdCluster" /\ UNCHANGED <<restore, pvc, pod, data>>
  /\ \/ cluster = None /\ createCluster(r) /\ (succeeds \/ isLost)
     \/ cluster # None /\ UNCHANGED cluster /\ isRefused
     \/ UNCHANGED <<cluster, unseen>> /\ isLost

\* Mutant: a Patch in place of the Update.
PatchStatus(r) ==
  /\ action.op \in Phases /\ UNCHANGED <<pvc, pod, cluster, data>>
  /\ \/ /\ restore[r] # None /\ writeRestore(r, [restore[r] EXCEPT !.phase = action.op])
        /\ succeeds \/ isLost
     \/ restore[r] = None /\ UNCHANGED restore /\ isRefused
     \/ UNCHANGED <<restore, unseen>> /\ isLost

\* Update carries the resource version of the restore that was read.
UpdateStatus(r) ==
  /\ action.op \in Phases /\ UNCHANGED <<pvc, pod, cluster, data>>
  /\ \/ /\ restore[r] = action.seen /\ writeRestore(r, [action.seen EXCEPT !.phase = action.op])
        /\ succeeds \/ isLost
     \/ restore[r] # action.seen /\ UNCHANGED restore /\ isRefused
     \/ UNCHANGED <<restore, unseen>> /\ isLost

execute ==
  /\ action # None /\ action' = None
  /\ \/ CreatePVC(action.name, action.peer)
     \/ CreatePod(action.name, action.peer)
     \/ CreateCluster(action.name)
     \/ UpdateStatus(action.name)
  /\ UNCHANGED <<cacheVars, copying, lost, made>>

Reconcile(r) == ignore(r) \/ decide(r)
-----------------------------------------------------------------------------
(* The restore agent, in a pod that is not restarted. *)

runs(p) == pod[p] # None /\ pod[p].label # None /\ pod[p].state \in {"running", "unknown"}
setState(p, state) == writePod(p, [pod[p] EXCEPT !.state = state], pod[p].label)

\* The snapshot is downloaded, saved and restored into a scratch directory; what
\* is left is to copy that into the volume.  A pod on a node that does not answer
\* goes on.
beginCopy(p) ==
  /\ runs(p) /\ p \notin copying
  /\ copying' = copying \cup {p} /\ data' = [data EXCEPT ![p] = None]
  /\ UNCHANGED <<apiVars, cacheVars, workVars, boundVars>>

\* Mutant: an error of the copy is not noticed.
finishCopyPartly(p) ==
  /\ runs(p) /\ p \in copying
  /\ copying' = copying \ {p} /\ UNCHANGED data
  /\ setState(p, "succeeded")
  /\ UNCHANGED <<restore, pvc, cluster, cacheVars, workVars, boundVars>>

finishCopy(p) ==
  /\ runs(p) /\ p \in copying
  /\ copying' = copying \ {p} /\ data' = [data EXCEPT ![p] = pod[p].owner]
  /\ setState(p, "succeeded")
  /\ UNCHANGED <<restore, pvc, cluster, cacheVars, workVars, boundVars>>

\* It panics on the first error, and when its time is up.
fail(p) ==
  /\ runs(p) /\ setState(p, "failed") /\ copying' = copying \ {p}
  /\ UNCHANGED <<restore, pvc, cluster, cacheVars, workVars, data, boundVars>>

\* The node of the pod does not answer.
loseNode(p) ==
  /\ runs(p) /\ pod[p].state = "running" /\ spend /\ setState(p, "unknown")
  /\ UNCHANGED <<restore, pvc, cluster, cacheVars, workVars, volumeVars, lost, made>>

\* The pod is deleted, by hand or with its node.
losePod(p) ==
  /\ pod[p] # None /\ spend /\ lost' = TRUE
  /\ writePod(p, None, pod[p].label) /\ copying' = copying \ {p}
  /\ UNCHANGED <<restore, pvc, cluster, cacheVars, workVars, data, made>>
-----------------------------------------------------------------------------
Agent(p) == beginCopy(p) \/ finishCopy(p) \/ fail(p)

Next ==
  \/ \E r \in Restores : Reconcile(r) \/ create(r) \/ delete(r)
  \/ \E p \in Peers :
       Agent(p) \/ collectPod(p) \/ loseNode(p) \/ losePod(p) \/ createOtherPVC(p)
  \/ \E kind \in Kinds : sync(kind)
  \/ execute \/ createOtherCluster \/ restart

Spec == Init /\ [][Next]_vars

\* The worker takes names in turn, its calls have a timeout, the informers go on,
\* and a pod is scheduled in the end.  Its agent has a timeout for the download; what
\* it does then is local and finite.
Fairness ==
  /\ WF_vars(execute)
  /\ \A r \in Restores : SF_vars(Reconcile(r))
  /\ \A p \in Peers : WF_vars(Agent(p))
  /\ \A kind \in Kinds : WF_vars(sync(kind))

FairSpec == Spec /\ Fairness
-----------------------------------------------------------------------------
isRestore(r, u) == restore[r] # None /\ restore[r].uid = u

\* A restore in its first use of the name, of which no pod has been lost.
undisturbed(r) == isRestore(r, 1) /\ ~lost

claimed(r) == \A p \in Peers : pvc[p] = [label |-> r]
succeeded(r) ==
  \A p \in Peers : pod[p] # None /\ pod[p].label = r /\ pod[p].state = "succeeded"

\* Claims and clusters stay as they are made, so what the cache has of them is so;
\* whatever is about to be done to pods and cluster, or was done to a pod, is on
\* volumes that are all claimed for that restore.
ClaimsStand ==
  /\ \A p \in Peers : cachedPVC[p] # None => pvc[p] = cachedPVC[p]
  /\ cachedCluster # None => cluster = cachedCluster
  /\ action # None /\ action.op \in {"Pod", "EtcdCluster", "Completed"} => claimed(action.name)
  /\ action # None /\ action.op = "Completed" => cluster # None
  /\ \A p \in Peers : pod[p] # None /\ pod[p].label # None => claimed(pod[p].label)

\* What there is of a restore belongs to one that has been made, and the restore
\* there is is the last one.
UIDsOfMade ==
  /\ \A r \in Restores : restore[r] # None => restore[r].uid = made[r]
  /\ \A r \in Restores : cachedRestore[r] # None => cachedRestore[r].uid \in 1..made[r]
  /\ action # None => action.seen.uid \in 1..made[action.name]
  /\ \A p \in Peers :
       pod[p] # None /\ pod[p].label # None => pod[p].owner \in 1..made[pod[p].label]
  /\ \A p \in Peers :
       cachedPod[p] # None /\ cachedPod[p].label # None => made[cachedPod[p].label] # 0
  /\ cluster # None /\ cluster.label # None => made[cluster.label] # 0

\* Reconcile starts a restore that it has read without a phase, goes on with one
\* that is pending, and leaves one alone that has ended.
DecidedInPhase ==
  action # None =>
    action.seen.phase = (IF action.op = "Pending" THEN "" ELSE "Pending")

\* Only a running agent writes, and one that has succeeded leaves its snapshot.
AgentsWrite ==
  /\ \A p \in copying : runs(p)
  /\ \A p \in Peers :
       pod[p] # None /\ pod[p].label # None /\ pod[p].state = "succeeded" =>
         data[p] = pod[p].owner

\* While nothing disturbs the restore, its pods stay, so that success is still
\* there when Reconcile acts on it, and afterwards.
SuccessStands ==
  \A r \in Restores :
    undisturbed(r) =>
      /\ \A p \in Peers :
           cachedPod[p] # None /\ cachedPod[p].label = r =>
             /\ pod[p] # None /\ pod[p].label = r
             /\ cachedPod[p].state = "succeeded" => pod[p].state = "succeeded"
      /\ action # None /\ action.name = r /\ action.op \in {"EtcdCluster", "Completed"}
           => succeeded(r)
      /\ cluster = [label |-> r] => claimed(r) /\ succeeded(r)
      /\ restore[r].phase = "Completed" => claimed(r) /\ succeeded(r) /\ cluster # None

\* Together they are inductive, and entail the next three properties: however late
\* the cache, and whoever else restores into the same cluster.
RestoreInv ==
  TypeOK /\ ClaimsStand /\ UIDsOfMade /\ DecidedInPhase /\ AgentsWrite /\ SuccessStands

\* An agent is only ever run on a volume that was claimed for its restore: not on
\* one of an earlier cluster, nor on one of a restore that competes.
AgentsOnOwnVolumes ==
  \A p \in Peers :
    pod[p] # None /\ pod[p].label # None => pvc[p] = [label |-> pod[p].label]

\* From the time there is a cluster made by a restore, or the restore says that it
\* is Completed, every volume holds all of its snapshot, and no agent writes to one.
RestoredWhole ==
  \A r \in Restores :
    undisturbed(r) /\ (cluster = [label |-> r] \/ restore[r].phase = "Completed") =>
      /\ cluster # None
      /\ \A p \in Peers : pvc[p] = [label |-> r] /\ data[p] = 1 /\ p \notin copying

\* Failed and Completed are final, although Reconcile decides on a cached restore.
EndIsFinal ==
  [][\A r \in Restores, u \in UIDs :
       isRestore(r, u) /\ isRestore(r, u)' /\ restore[r].phase \in Ended
         => restore'[r].phase = restore[r].phase]_vars

\* Controller and agents keep the promise of RestorePromise, however late the cache,
\* and whoever competes for the volumes and the cluster.
Promise == INSTANCE RestorePromise WITH
  Volumes <- Peers, claim <- pvc, holds <- data,
  sound <- {r \in Restores : undisturbed(r)}

KeepsPromise == Promise!Spec

\* Every restore ends: each wait of the controller is for an event that comes.
RestoreEnds ==
  \A r \in Restores : restore[r] # None ~> (restore[r] = None \/ restore[r].phase \in Ended)

\* A restore does not write to the volumes of a cluster that a restore has made,
\* not even if no pod is ever lost.
NoRestoreIntoCluster ==
  [][\A p \in copying' \ copying :
       isOwned(pod[p]) /\ ~lost => cluster = None \/ cluster.label = None]_vars
=============================================================================
