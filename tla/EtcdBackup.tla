----------------------------- MODULE EtcdBackup -----------------------------
(***************************************************************************)
(* The EtcdBackup controller, the backup agent it runs in a pod, and the    *)
(* proxy that puts snapshots into a bucket.  A backup that is deleted and   *)
(* made again under the same name has another UID; its ServiceAccount and   *)
(* its pod have the name of the backup and are owned by the UID they were   *)
(* created for.                                                             *)
(***************************************************************************)
EXTENDS Naturals

CONSTANTS Names,        \* names of EtcdBackups
          MaxUID,       \* bound: backups made under a name
          MaxFaults,    \* bound: failed calls, lost pods, restarts and names used again
          None          \* no object

UIDs == 1..MaxUID

Ended == {"Failed", "Completed"}
Phases == {"", "BackingUp"} \cup Ended

Kinds == {"EtcdBackup", "ServiceAccount", "Pod"}

\* parses tells whether the ObjectURLTemplate does.
EtcdBackup == [uid : UIDs, parses : BOOLEAN, phase : Phases, deleting : BOOLEAN]
\* What a reconcile does: create an object or patch the phase.
Ops == {"BackingUp", "ServiceAccount", "Pod", "Failed", "Completed"}
Action == [name : Names, uid : UIDs, op : Ops]
Pod == [owner : UIDs, state : {"running", "succeeded", "failed"}]
\* A call of Upload.  The template puts the UID into the URL, so name and uid
\* stand for it; agent tells whether anybody waits for the answer.
Upload == [name : Names, uid : UIDs, agent : BOOLEAN]

ASSUME BackupAssumption ==
  /\ MaxUID \in Nat /\ MaxFaults \in Nat
  /\ None \notin EtcdBackup /\ None \notin Action /\ None \notin UIDs /\ None \notin Pod

VARIABLES
  backup,         \* the EtcdBackups in the API server
  serviceAccount, \* the owner of each ServiceAccount
  pod,            \* the pods
  unseen,         \* what has been written since the informer saw it last
  cachedBackup, cachedServiceAccount, cachedPod,  \* all three in the informer cache
  queued,         \* the names in the work queue of the controller
  action,         \* what Reconcile is about to execute
  uploads,        \* calls the proxy is working on
  bucket,         \* the URLs at which there is a snapshot
  made, faults    \* what has been used of the bounds

apiVars == <<backup, serviceAccount, pod, unseen>>
cacheVars == <<cachedBackup, cachedServiceAccount, cachedPod>>
storeVars == <<uploads, bucket>>
boundVars == <<made, faults>>
vars == <<apiVars, cacheVars, queued, action, storeVars, boundVars>>

\* Type correctness of the objects, the cache, the calls and the bucket.
TypeOK ==
  /\ backup \in [Names -> EtcdBackup \cup {None}]
  /\ serviceAccount \in [Names -> UIDs \cup {None}]
  /\ pod \in [Names -> Pod \cup {None}]
  /\ unseen \subseteq Kinds \X Names
  /\ cachedBackup \in [Names -> EtcdBackup \cup {None}]
  /\ cachedServiceAccount \in [Names -> UIDs \cup {None}]
  /\ cachedPod \in [Names -> Pod \cup {None}]
  /\ queued \subseteq Names /\ action \in Action \cup {None}
  /\ uploads \subseteq Upload
  /\ bucket \subseteq Names \X UIDs
  /\ made \in [Names -> 0..MaxUID] /\ faults \in 0..MaxFaults

nothing == [b \in Names |-> None]

Init ==
  /\ backup = nothing /\ serviceAccount = nothing /\ pod = nothing
  /\ cachedBackup = nothing /\ cachedServiceAccount = nothing /\ cachedPod = nothing
  /\ unseen = {} /\ queued = {} /\ action = None /\ uploads = {} /\ bucket = {}
  /\ made = [b \in Names |-> 0] /\ faults = 0
-----------------------------------------------------------------------------
(* Users, the API server and the informers. *)

\* A write of an object, or its removal, and the watch event it gives rise to.
writeBackup(b, obj) ==
  /\ backup' = [backup EXCEPT ![b] = obj]
  /\ unseen' = unseen \cup {<<"EtcdBackup", b>>}

writeServiceAccount(b, owner) ==
  /\ serviceAccount' = [serviceAccount EXCEPT ![b] = owner]
  /\ unseen' = unseen \cup {<<"ServiceAccount", b>>}

writePod(b, obj) ==
  /\ pod' = [pod EXCEPT ![b] = obj]
  /\ unseen' = unseen \cup {<<"Pod", b>>}

create(b) ==
  /\ backup[b] = None /\ made[b] < MaxUID
  /\ made' = [made EXCEPT ![b] = @ + 1]
  /\ \/ made[b] = 0 /\ UNCHANGED faults
     \/ made[b] # 0 /\ faults < MaxFaults /\ faults' = faults + 1
  /\ \E parses \in BOOLEAN :
       writeBackup(b, [uid |-> made[b] + 1, parses |-> parses,
                       phase |-> "", deleting |-> FALSE])
  /\ UNCHANGED <<serviceAccount, pod, cacheVars, queued, action, storeVars>>

\* A deletion in the foreground marks the backup until what it owns is gone.
delete(b) ==
  /\ backup[b] # None /\ ~backup[b].deleting
  /\ writeBackup(b, [backup[b] EXCEPT !.deleting = TRUE])
  /\ UNCHANGED <<serviceAccount, pod, cacheVars, queued, action, storeVars, boundVars>>

owns(b, uid) == backup[b] # None /\ backup[b].uid = uid /\ ~backup[b].deleting

\* A call of the agent of that name is answered by nobody from here on.
hangUp(b) == {[r EXCEPT !.agent = r.agent /\ r.name # b] : r \in uploads}

collectServiceAccount(b) ==
  /\ serviceAccount[b] # None /\ ~owns(b, serviceAccount[b])
  /\ writeServiceAccount(b, None)
  /\ UNCHANGED <<backup, pod, cacheVars, queued, action, storeVars, boundVars>>

collectPod(b) ==
  /\ pod[b] # None /\ ~owns(b, pod[b].owner)
  /\ writePod(b, None) /\ uploads' = hangUp(b)
  /\ UNCHANGED <<backup, serviceAccount, cacheVars, queued, action, bucket, boundVars>>

\* A backup that is being deleted goes when nothing is left that it owns; one that
\* is deleted in the background goes at once.
collectBackup(b) ==
  /\ backup[b] # None /\ backup[b].deleting
  /\ writeBackup(b, None)
  /\ UNCHANGED <<serviceAccount, pod, cacheVars, queued, action, storeVars, boundVars>>

\* Watch events bring the cached object of one kind up to date and queue the
\* name; ServiceAccount and pod lead to it through their owner reference.
syncBackup(b) ==
  /\ <<"EtcdBackup", b>> \in unseen /\ unseen' = unseen \ {<<"EtcdBackup", b>>}
  /\ cachedBackup' = [cachedBackup EXCEPT ![b] = backup[b]] /\ queued' = queued \cup {b}
  /\ UNCHANGED <<backup, serviceAccount, pod, cachedServiceAccount, cachedPod, action, storeVars, boundVars>>

syncServiceAccount(b) ==
  /\ <<"ServiceAccount", b>> \in unseen /\ unseen' = unseen \ {<<"ServiceAccount", b>>}
  /\ cachedServiceAccount' = [cachedServiceAccount EXCEPT ![b] = serviceAccount[b]]
  /\ queued' = queued \cup {b}
  /\ UNCHANGED <<backup, serviceAccount, pod, cachedBackup, cachedPod, action, storeVars, boundVars>>

syncPod(b) ==
  /\ <<"Pod", b>> \in unseen /\ unseen' = unseen \ {<<"Pod", b>>}
  /\ cachedPod' = [cachedPod EXCEPT ![b] = pod[b]] /\ queued' = queued \cup {b}
  /\ UNCHANGED <<backup, serviceAccount, pod, cachedBackup, cachedServiceAccount, action, storeVars, boundVars>>

\* The operator starts again: what it was about to do is lost, and every backup is
\* queued.  (The informers' resync queues them too.)
restart ==
  /\ faults < MaxFaults /\ faults' = faults + 1
  /\ cachedBackup' = backup /\ cachedServiceAccount' = serviceAccount /\ cachedPod' = pod
  /\ unseen' = {} /\ action' = None /\ queued' = {b \in Names : backup[b] # None}
  /\ UNCHANGED <<backup, serviceAccount, pod, storeVars, made>>
-----------------------------------------------------------------------------
(* Reconcile computes one Action from what it reads in the cache and executes it. *)

\* The Action, and the backup as it was read.
plan(b, op) == [name |-> b, uid |-> cachedBackup[b].uid, op |-> op]

begin(b) ==
  /\ action = None /\ b \in queued
  /\ UNCHANGED <<apiVars, cacheVars, storeVars, boundVars>>

\* podForBackup does not parse the template: getState fails, before the phase is
\* considered, and Reconcile is called again.
failGetState(b) ==
  begin(b) /\ cachedBackup[b] # None /\ ~cachedBackup[b].parses /\ UNCHANGED <<queued, action>>

hasState(b) == cachedBackup[b] # None /\ cachedBackup[b].parses
inPhase(b, phase) ==
  hasState(b) /\ ~cachedBackup[b].deleting /\ cachedBackup[b].phase = phase

\* Not found, being deleted, in an end state, or the pod has yet to finish.
hasPod(b) ==
  inPhase(b, "BackingUp") /\ cachedServiceAccount[b] # None /\ cachedPod[b] # None

isIdle(b) ==
  \/ cachedBackup[b] = None
  \/ hasState(b) /\ (cachedBackup[b].deleting \/ cachedBackup[b].phase \in Ended)
  \/ hasPod(b) /\ cachedPod[b].state = "running"

ignore(b) == begin(b) /\ isIdle(b) /\ queued' = queued \ {b} /\ UNCHANGED action

\* Mutant: a backup is started unless it is in progress.
plannedAgain(b, op) ==
  \/ op = "BackingUp" /\ \E phase \in Phases \ {"BackingUp"} : inPhase(b, phase)
  \/ /\ op = "ServiceAccount"
     /\ inPhase(b, "BackingUp") /\ cachedServiceAccount[b] = None
  \/ /\ op = "Pod"
     /\ inPhase(b, "BackingUp") /\ cachedServiceAccount[b] # None /\ cachedPod[b] = None
  \/ op = "Failed" /\ hasPod(b) /\ cachedPod[b].state = "failed"
  \/ op = "Completed" /\ hasPod(b) /\ cachedPod[b].state = "succeeded"

planned(b, op) ==
  \/ op = "BackingUp" /\ inPhase(b, "")
  \/ /\ op = "ServiceAccount"
     /\ inPhase(b, "BackingUp") /\ cachedServiceAccount[b] = None
  \/ /\ op = "Pod"
     /\ inPhase(b, "BackingUp") /\ cachedServiceAccount[b] # None /\ cachedPod[b] = None
  \/ op = "Failed" /\ hasPod(b) /\ cachedPod[b].state = "failed"
  \/ op = "Completed" /\ hasPod(b) /\ cachedPod[b].state = "succeeded"

decide(b) ==
  /\ begin(b) /\ queued' = queued \ {b}
  /\ \E op \in Ops : planned(b, op) /\ action' = plan(b, op)

\* Mutant: an error of Execute is not returned.
retryDropped == UNCHANGED queued

\* How a call ends.  Reconcile is called again after an error; a call that fails
\* on the way may have had its effect.
retry == queued' = queued \cup {action.name}
succeeds == UNCHANGED <<queued, faults>>
isRefused == retry /\ UNCHANGED <<unseen, faults>>
isLost == retry /\ faults < MaxFaults /\ faults' = faults + 1

\* CreateRuntimeObject: a name that is taken makes the call fail.
CreateServiceAccount(b) ==
  /\ action.op = "ServiceAccount" /\ UNCHANGED <<backup, pod>>
  /\ \/ /\ serviceAccount[b] = None /\ writeServiceAccount(b, action.uid)
        /\ succeeds \/ isLost
     \/ serviceAccount[b] # None /\ UNCHANGED serviceAccount /\ isRefused
     \/ UNCHANGED <<serviceAccount, unseen>> /\ isLost

\* The API server admits a pod only if its ServiceAccount exists.
CreatePod(b) ==
  /\ action.op = "Pod" /\ UNCHANGED <<backup, serviceAccount>>
  /\ \/ /\ pod[b] = None /\ serviceAccount[b] # None
        /\ writePod(b, [owner |-> action.uid, state |-> "running"])
        /\ succeeds \/ isLost
     \/ (pod[b] # None \/ serviceAccount[b] = None) /\ UNCHANGED pod /\ isRefused
     \/ UNCHANGED <<pod, unseen>> /\ isLost

\* PatchStatus goes by name and carries no resource version: it changes whatever
\* backup has the name by now.
PatchStatus(b) ==
  /\ action.op \in Phases /\ UNCHANGED <<serviceAccount, pod>>
  /\ \/ /\ backup[b] # None /\ writeBackup(b, [backup[b] EXCEPT !.phase = action.op])
        /\ succeeds \/ isLost
     \/ backup[b] = None /\ UNCHANGED backup /\ isRefused
     \/ UNCHANGED <<backup, unseen>> /\ isLost

Execute ==
  /\ action # None /\ action' = None
  /\ \/ CreateServiceAccount(action.name)
     \/ CreatePod(action.name)
     \/ PatchStatus(action.name)
  /\ UNCHANGED <<cacheVars, storeVars, made>>

Reconcile(b) == failGetState(b) \/ ignore(b) \/ decide(b)
-----------------------------------------------------------------------------
(* The backup agent and the proxy. *)

setState(b, state) == writePod(b, [pod[b] EXCEPT !.state = state])

\* The agent saves a snapshot of etcd and calls Upload with it.
saveAndUpload(b) ==
  /\ pod[b] # None /\ pod[b].state = "running"
  /\ \A r \in uploads : ~(r.agent /\ r.name = b)
  /\ uploads' = uploads \cup {[name |-> b, uid |-> pod[b].owner, agent |-> TRUE]}
  /\ UNCHANGED <<apiVars, cacheVars, queued, action, bucket, boundVars>>

\* Mutant: the agent exits with status 0 when its time is up.
failQuietly(b) ==
  /\ pod[b] # None /\ pod[b].state = "running"
  /\ setState(b, "succeeded") /\ uploads' = hangUp(b)
  /\ UNCHANGED <<backup, serviceAccount, cacheVars, queued, action, bucket, boundVars>>

\* It panics on the first error, and when its time is up.
fail(b) ==
  /\ pod[b] # None /\ pod[b].state = "running"
  /\ setState(b, "failed") /\ uploads' = hangUp(b)
  /\ UNCHANGED <<backup, serviceAccount, cacheVars, queued, action, bucket, boundVars>>

\* The pod is deleted, by hand or with its node.
losePod(b) ==
  /\ faults < MaxFaults /\ faults' = faults + 1
  /\ pod[b] # None
  /\ writePod(b, None) /\ uploads' = hangUp(b)
  /\ UNCHANGED <<backup, serviceAccount, cacheVars, queued, action, bucket, made>>

answer(r, state) ==
  IF r.agent THEN setState(r.name, state) ELSE UNCHANGED <<pod, unseen>>

\* The object is in the bucket once the writer is closed without an error.
storeObject(r) ==
  /\ uploads' = uploads \ {r}
  /\ bucket' = bucket \cup {<<r.name, r.uid>>}
  /\ answer(r, "succeeded")
  /\ UNCHANGED <<backup, serviceAccount, cacheVars, queued, action, boundVars>>

\* Mutant: the error of the deferred Close is lost.
refuseObjectUnnoticed(r) ==
  /\ uploads' = uploads \ {r}
  /\ answer(r, "succeeded")
  /\ UNCHANGED <<backup, serviceAccount, cacheVars, queued, action, bucket, boundVars>>

\* Parsing the URL, opening the bucket, writing or closing fails.
refuseObject(r) ==
  /\ uploads' = uploads \ {r}
  /\ answer(r, "failed")
  /\ UNCHANGED <<backup, serviceAccount, cacheVars, queued, action, bucket, boundVars>>
-----------------------------------------------------------------------------
Sync(b) == syncBackup(b) \/ syncServiceAccount(b) \/ syncPod(b)
Collect(b) == collectBackup(b) \/ collectServiceAccount(b) \/ collectPod(b)
Agent(b) == saveAndUpload(b) \/ fail(b)
Proxy == \E r \in uploads : storeObject(r) \/ refuseObject(r)

Next ==
  \/ \E b \in Names :
       \/ Reconcile(b) \/ Sync(b) \/ Collect(b) \/ Agent(b)
       \/ create(b) \/ delete(b) \/ losePod(b)
  \/ Execute \/ Proxy \/ restart

Spec == Init /\ [][Next]_vars

\* The worker takes names in turn, its calls have a timeout, the informers go on,
\* and a pod is scheduled in the end and its agent has a timeout.
Fairness ==
  /\ WF_vars(Execute)
  /\ \A b \in Names :
       /\ SF_vars(Reconcile(b)) /\ WF_vars(Agent(b))
       /\ WF_vars(syncBackup(b)) /\ WF_vars(syncServiceAccount(b)) /\ WF_vars(syncPod(b))

FairSpec == Spec /\ Fairness
-----------------------------------------------------------------------------
isBackup(b, u) == backup[b] # None /\ backup[b].uid = u

isStored(b) == \E u \in UIDs : <<b, u>> \in bucket

\* Nothing is older or newer than the backups made: the backup there is is the
\* last one, and no object, call or snapshot belongs to one that is yet to come.
UIDsOfMade ==
  /\ \A b \in Names : backup[b] # None => backup[b].uid = made[b]
  /\ \A b \in Names : cachedBackup[b] # None => cachedBackup[b].uid \in 1..made[b]
  /\ \A b \in Names : pod[b] # None => pod[b].owner \in 1..made[b]
  /\ action # None => action.uid \in 1..made[action.name]
  /\ \A r \in uploads : r.uid \in 1..made[r.name]
  /\ \A b \in Names, u \in UIDs : <<b, u>> \in bucket => u \in 1..made[b]

\* The call an agent waits for is the one of the pod that runs.
CallOfRunningPod ==
  \A r \in uploads :
    r.agent => pod[r.name] # None /\ pod[r.name] = [owner |-> r.uid, state |-> "running"]

\* Success is claimed of stored snapshots only: in a pod, in what the cache has of
\* it, in what Reconcile is about to write and in the backup.
SuccessIsStored ==
  /\ \A b \in Names :
       pod[b] # None /\ pod[b].state = "succeeded" => <<b, pod[b].owner>> \in bucket
  /\ \A b \in Names : cachedPod[b] # None /\ cachedPod[b].state = "succeeded" => isStored(b)
  /\ action # None /\ action.op = "Completed" => isStored(action.name)
  /\ \A b \in Names : backup[b] # None /\ backup[b].phase = "Completed" => isStored(b)

\* For a name in its first use: the cache lags behind the phase by less than what
\* would make Reconcile start a backup again that has ended.
CacheNearPhase ==
  \A b \in Names :
    backup[b] # None /\ made[b] = 1 =>
      /\ cachedBackup[b] # None /\ cachedBackup[b].phase = "" => backup[b].phase \notin Ended
      /\ cachedBackup[b] # None /\ cachedBackup[b].phase # "" => backup[b].phase # ""
      /\ action # None /\ action.name = b /\ action.op = "BackingUp"
           => backup[b].phase \notin Ended
      /\ action # None /\ action.name = b /\ action.op \in Ended
           => cachedBackup[b] # None /\ cachedBackup[b].phase # ""

\* Together they are inductive, and entail the next two properties: agent, proxy
\* and controller may stop between any two steps, and the controller may act on
\* what is no longer so, without a success being claimed that did not happen.
BackupInv == TypeOK /\ UIDsOfMade /\ CallOfRunningPod /\ SuccessIsStored /\ CacheNearPhase

\* A backup is Completed only if an agent has put a snapshot of it into the bucket,
\* whatever calls failed half way, pods were lost and made again, or ended after
\* the controller had looked.  Pods are known to the controller by name, so a
\* backup whose name has been used before may owe its phase to a predecessor's.
CompletedHasSnapshot ==
  \A b \in Names :
    backup[b] # None /\ backup[b].phase = "Completed" =>
      \E u \in 1..backup[b].uid : <<b, u>> \in bucket

\* The phase never goes back, although Reconcile decides on a cached backup and
\* patches without a resource version; a name is used for the first time.  (From
\* one end state to the other it may go: if the pod is lost before the recorded
\* result is in the cache, the backup is taken again.)
PhaseAdvances ==
  [][\A b \in Names :
       isBackup(b, 1) /\ isBackup(b, 1)' =>
         \/ backup'[b].phase = backup[b].phase
         \/ backup[b].phase = "" /\ backup'[b].phase = "BackingUp"
         \/ backup[b].phase # "" /\ backup'[b].phase \in Ended]_vars

\* The controller, the agents and the proxy keep the promise of BackupPromise,
\* however late the cache and whatever is lost.
Promise == INSTANCE BackupPromise WITH
  used <- made,
  phase <- [b \in Names |-> IF backup[b] = None THEN "absent" ELSE backup[b].phase],
  stored <- bucket

KeepsPromise == Promise!Spec

\* A backup that is not deleted ends: each wait of the controller is for an event
\* that comes, even if objects of an earlier backup of the name are in the way.
\* Where the template does not parse it is tried again for ever.
BackupEnds ==
  \A b \in Names :
    backup[b] # None /\ backup[b].parses
      ~> (backup[b] = None \/ backup[b].deleting \/ backup[b].phase \in Ended)
=============================================================================
