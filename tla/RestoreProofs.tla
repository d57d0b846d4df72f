--------------------------- MODULE RestoreProofs ---------------------------
(***************************************************************************)
(* RestoreInv is an invariant of EtcdRestore, for any restores, size, UIDs  *)
(* and faults; it entails that agents write to their own volumes only, that *)
(* a restored cluster is whole, that the end states are final, and that     *)
(* EtcdRestore implements RestorePromise.                                   *)
(***************************************************************************)
EXTENDS EtcdRestore, WellFoundedInduction, TLAPS

\* None is no object of any kind, and the bounds are numbers.
LEMMA Constants ==
  /\ Size \in Nat \ {0} /\ MaxUID \in Nat \ {0} /\ MaxFaults \in Nat
  /\ None \notin Restores /\ None \notin UIDs /\ None \notin Restore /\ None \notin PVC
  /\ None \notin Pod /\ None \notin Cluster /\ None \notin Action
BY RestoreAssumption

\* The fields of what is written of a pod, a restore and an action.
LEMMA WellFormed ==
  /\ \A x \in Pod, state \in {"running", "succeeded", "failed", "unknown"} :
       LET y == [x EXCEPT !.state = state] IN
         y \in Pod /\ y.label = x.label /\ y.owner = x.owner /\ y.state = state
  /\ \A x \in Restore, phase \in Phases :
       LET y == [x EXCEPT !.phase = phase] IN
         y \in Restore /\ y.uid = x.uid /\ y.phase = phase
  /\ \A x \in Restore : x.uid \in UIDs /\ x.phase \in Phases
  /\ \A x \in Pod : x.label \in Labels /\ x.owner \in UIDs
  /\ \A x \in Action :
       x.name \in Restores /\ x.seen \in Restore /\ x.op \in Ops /\ x.peer \in Peers
<1>1. \A x \in Pod, state \in {"running", "succeeded", "failed", "unknown"} :
        LET y == [x EXCEPT !.state = state] IN
          y \in Pod /\ y.label = x.label /\ y.owner = x.owner /\ y.state = state
  BY DEF Pod
<1>2. \A x \in Restore, phase \in Phases :
        LET y == [x EXCEPT !.phase = phase] IN
          y \in Restore /\ y.uid = x.uid /\ y.phase = phase
  BY DEF Restore
<1>3. \A x \in Restore : x.uid \in UIDs /\ x.phase \in Phases
  BY DEF Restore
<1>4. \A x \in Pod : x.label \in Labels /\ x.owner \in UIDs
  BY DEF Pod
<1>5. \A x \in Action :
        x.name \in Restores /\ x.seen \in Restore /\ x.op \in Ops /\ x.peer \in Peers
  BY DEF Action
<1> QED BY <1>1, <1>2, <1>3, <1>4, <1>5

\* What setState leaves of a pod.
LEMMA SetStateEffect ==
  ASSUME TypeOK, NEW p \in Peers, pod[p] # None,
         NEW state \in {"running", "succeeded", "failed", "unknown"}, setState(p, state)
  PROVE  \E obj \in Pod :
           /\ pod' = [pod EXCEPT ![p] = obj]
           /\ obj.label = pod[p].label /\ obj.owner = pod[p].owner /\ obj.state = state
           /\ unseen' \subseteq Event
<1> DEFINE new == [pod[p] EXCEPT !.state = state]
<1>1. pod[p] \in Pod
  BY DEF TypeOK
<1>2. /\ new \in Pod /\ new.label = pod[p].label /\ new.owner = pod[p].owner
      /\ new.state = state /\ pod[p].label \in Labels
  BY <1>1, WellFormed, Zenon
<1>3. pod' = [pod EXCEPT ![p] = new] /\ emit("Pod", pod[p].label)
  BY DEF setState, writePod
<1> HIDE DEF new
<1>4. unseen' \subseteq Event
  BY <1>2, <1>3 DEF emit, Event, Kinds, TypeOK
<1> QED BY <1>2, <1>3, <1>4

\* What create makes.
LEMMA CreateEffect ==
  ASSUME TypeOK, NEW r \in Restores, create(r)
  PROVE  \E obj \in Restore :
           /\ restore' = [restore EXCEPT ![r] = obj] /\ restore[r] = None
           /\ obj.uid = made[r] + 1 /\ obj.phase = ""
           /\ made' = [made EXCEPT ![r] = made[r] + 1] /\ made' \in [Restores -> 0..MaxUID]
           /\ unseen' \subseteq Event /\ faults' \in 0..MaxFaults
<1> DEFINE new == [uid |-> made[r] + 1, phase |-> ""]
<1>1. /\ made[r] \in 0..MaxUID /\ made[r] < MaxUID /\ made' = [made EXCEPT ![r] = made[r] + 1]
      /\ restore[r] = None
  BY DEF create, TypeOK
<1>2. made[r] + 1 \in UIDs /\ made' \in [Restores -> 0..MaxUID]
  BY <1>1, Constants DEF UIDs, TypeOK
<1>3. new \in Restore /\ new.uid = made[r] + 1 /\ new.phase = ""
  BY <1>2 DEF Restore, Phases
<1>4. restore' = [restore EXCEPT ![r] = new] /\ emit("EtcdRestore", r)
  BY DEF create, writeRestore
<1> HIDE DEF new
<1>5. UNCHANGED faults \/ spend
  BY Zenon DEF create
<1>6. faults' \in 0..MaxFaults
  BY <1>5, Constants DEF spend, TypeOK
<1>7. unseen' \subseteq Event
  BY <1>4 DEF emit, Event, Kinds, Labels, TypeOK
<1> QED BY <1>1, <1>2, <1>3, <1>4, <1>6, <1>7

\* What Reconcile is about to do.
LEMMA DecideEffect ==
  ASSUME TypeOK, NEW r \in Restores, decide(r)
  PROVE  \E op \in Ops, p \in Peers :
           /\ planned(r, op, p) /\ action' \in Action
           /\ action'.name = r /\ action'.op = op /\ action'.seen = cachedRestore[r]
           /\ cachedRestore[r] \in Restore
           /\ cachedRestore[r].phase = (IF op = "Pending" THEN "" ELSE "Pending")
<1>1. PICK op \in Ops, p \in Peers :
        /\ planned(r, op, p)
        /\ action' = [name |-> r, seen |-> cachedRestore[r], op |-> op,
                      peer |-> IF op \in {"PersistentVolumeClaim", "Pod"} THEN p ELSE 0]
  BY DEF decide
<1>2. /\ cachedRestore[r] # None
      /\ cachedRestore[r].phase = (IF op = "Pending" THEN "" ELSE "Pending")
  BY <1>1, Zenon DEF planned, inPhase, atPVC, isPending, haveAllPVCs, haveAllPods
<1>3. cachedRestore[r] \in Restore
  BY <1>2 DEF TypeOK
<1>4. 0 \in Peers
  BY Constants DEF Peers
<1>5. /\ action' \in Action /\ action'.name = r /\ action'.op = op
      /\ action'.seen = cachedRestore[r]
  BY <1>1, <1>3, <1>4 DEF Action
<1> QED BY <1>1, <1>2, <1>3, <1>5, Zenon

\* What UpdateStatus leaves of a restore.
LEMMA UpdateEffect ==
  ASSUME TypeOK, action # None, UpdateStatus(action.name)
  PROVE  \/ UNCHANGED restore
         \/ \E obj \in Restore :
              /\ restore' = [restore EXCEPT ![action.name] = obj]
              /\ restore[action.name] = action.seen /\ action.seen \in Restore
              /\ obj.uid = action.seen.uid /\ obj.phase = action.op
<1> DEFINE new == [action.seen EXCEPT !.phase = action.op]
<1>1. action.seen \in Restore /\ action.op \in Phases
  BY WellFormed DEF TypeOK, UpdateStatus
<1>2. new \in Restore /\ new.uid = action.seen.uid /\ new.phase = action.op
  BY <1>1, WellFormed, Zenon
<1>3. \/ UNCHANGED restore
      \/ restore[action.name] = action.seen /\ restore' = [restore EXCEPT ![action.name] = new]
  BY DEF UpdateStatus, writeRestore
<1> HIDE DEF new
<1> QED BY <1>1, <1>2, <1>3
\* A step writes well-formed objects only.
LEMMA TypeStep == TypeOK /\ [Next]_vars => TypeOK'
<1> SUFFICES ASSUME TypeOK, [Next]_vars PROVE TypeOK'
  OBVIOUS
<1> USE Constants DEF TypeOK
<1>1. ASSUME NEW r \in Restores, create(r) PROVE TypeOK'
  <2>1. PICK obj \in Restore :
          /\ restore' = [restore EXCEPT ![r] = obj] /\ unseen' \subseteq Event
          /\ made' \in [Restores -> 0..MaxUID] /\ faults' \in 0..MaxFaults
    BY <1>1, CreateEffect, Zenon
  <2>2. restore' \in [Restores -> Restore \cup {None}]
    BY <2>1
  <2> QED BY <1>1, <2>1, <2>2 DEF create, cacheVars, workVars, volumeVars
<1>2. ASSUME NEW r \in Restores, delete(r) PROVE TypeOK'
  <2>1. restore' \in [Restores -> Restore \cup {None}] /\ unseen' \subseteq Event
    BY <1>2 DEF delete, writeRestore, emit, Event, Kinds, Labels
  <2> QED BY <1>2, <2>1 DEF delete, spend, cacheVars, workVars, volumeVars
<1>3. ASSUME NEW r \in Restores, Reconcile(r) PROVE TypeOK'
  <2>1. action' \in Action \cup {None}
    BY <1>3, DecideEffect DEF Reconcile, ignore
  <2>2. begin(r)
    BY <1>3 DEF Reconcile, ignore, decide
  <2> QED BY <2>1, <2>2 DEF begin, apiVars, cacheVars, volumeVars, boundVars
<1>4. CASE execute
  <2>1. action.name \in Restores /\ action.seen \in Restore /\ action.op \in Ops /\ action.peer \in Peers
    BY <1>4, WellFormed DEF execute
  <2>2. UNCHANGED <<cacheVars, copying, lost, made>> /\ action' = None /\ action # None
    BY <1>4 DEF execute
  <2>3. succeeds \/ isRefused \/ isLost => queued' \subseteq Restores /\ faults' \in 0..MaxFaults
    BY <2>1 DEF succeeds, isRefused, isLost, retry, spend
  <2>4. CASE CreatePVC(action.name, action.peer)
    <3>1. pvc' \in [Peers -> PVC \cup {None}] /\ unseen' \subseteq Event
      BY <2>1, <2>4 DEF CreatePVC, createPVC, PVC, Labels, emit, Event, Kinds, isRefused
    <3> QED BY <2>2, <2>3, <2>4, <3>1 DEF CreatePVC, cacheVars
  <2>5. CASE CreatePod(action.name, action.peer)
    <3>1. [label |-> action.name, owner |-> action.seen.uid, state |-> "running"] \in Pod
      BY <2>1, WellFormed DEF Pod, Labels
    <3>2. pod' \in [Peers -> Pod \cup {None}] /\ unseen' \subseteq Event
      BY <2>1, <2>5, <3>1 DEF CreatePod, writePod, Labels, emit, Event, Kinds, isRefused
    <3> QED BY <2>2, <2>3, <2>5, <3>2 DEF CreatePod, cacheVars
  <2>6. CASE CreateCluster(action.name)
    <3>1. cluster' \in Cluster \cup {None} /\ unseen' \subseteq Event
      BY <2>1, <2>6 DEF CreateCluster, createCluster, Cluster, Labels, emit, Event, Kinds, isRefused
    <3> QED BY <2>2, <2>3, <2>6, <3>1 DEF CreateCluster, cacheVars
  <2>7. CASE UpdateStatus(action.name)
    <3>1. restore' \in [Restores -> Restore \cup {None}]
      BY <2>1, <2>2, <2>7, UpdateEffect
    <3>2. unseen' \subseteq Event
      BY <2>1, <2>7 DEF UpdateStatus, writeRestore, Labels, emit, Event, Kinds, isRefused
    <3> QED BY <2>2, <2>3, <2>7, <3>1, <3>2 DEF UpdateStatus, cacheVars
  <2> QED BY <1>4, <2>4, <2>5, <2>6, <2>7 DEF execute
<1>5. ASSUME NEW p \in Peers, finishCopy(p) \/ fail(p) \/ loseNode(p) PROVE TypeOK'
  <2> USE DEF cacheVars, workVars, volumeVars, boundVars
  <2>1. pod[p] # None /\ pod[p] \in Pod
    BY <1>5 DEF finishCopy, fail, loseNode, runs
  <2>2. pod' \in [Peers -> Pod \cup {None}] /\ unseen' \subseteq Event
    BY <1>5, <2>1, SetStateEffect DEF finishCopy, fail, loseNode
  <2>3. pod[p].owner \in UIDs
    BY <2>1, WellFormed
  <2>4. CASE finishCopy(p)
    BY <2>2, <2>3, <2>4 DEF finishCopy
  <2>5. CASE fail(p)
    BY <2>2, <2>5 DEF fail
  <2>6. CASE loseNode(p)
    BY <2>2, <2>6 DEF loseNode, spend
  <2> QED BY <1>5, <2>4, <2>5, <2>6
<1>6. ASSUME NEW p \in Peers, collectPod(p) \/ losePod(p) PROVE TypeOK'
  <2> USE DEF cacheVars, workVars, volumeVars, boundVars
  <2>1. pod[p].label \in Labels
    BY <1>6, WellFormed DEF collectPod, losePod
  <2>2. pod' \in [Peers -> Pod \cup {None}] /\ unseen' \subseteq Event
    BY <1>6, <2>1 DEF collectPod, losePod, writePod, emit, Event, Kinds
  <2>3. CASE collectPod(p)
    BY <2>2, <2>3 DEF collectPod
  <2>4. CASE losePod(p)
    BY <2>2, <2>4 DEF losePod, spend
  <2> QED BY <1>6, <2>3, <2>4
<1>7. ASSUME NEW p \in Peers, beginCopy(p) \/ createOtherPVC(p) PROVE TypeOK'
  <2>1. CASE beginCopy(p)
    BY <2>1 DEF beginCopy, apiVars, cacheVars, workVars, boundVars
  <2>2. CASE createOtherPVC(p)
    <3>1. pvc' \in [Peers -> PVC \cup {None}] /\ unseen' \subseteq Event
      BY <2>2 DEF createOtherPVC, createPVC, PVC, Labels, emit, Event, Kinds
    <3> QED BY <2>2, <3>1 DEF createOtherPVC, cacheVars, workVars, volumeVars, boundVars
  <2> QED BY <1>7, <2>1, <2>2
<1>8. ASSUME NEW kind \in Kinds, sync(kind) PROVE TypeOK'
  BY <1>8 DEF sync, volumeVars, boundVars
<1>9. CASE createOtherCluster
  <2>1. cluster' \in Cluster \cup {None} /\ unseen' \subseteq Event
    BY <1>9 DEF createOtherCluster, createCluster, Cluster, Labels, emit, Event, Kinds
  <2> QED BY <1>9, <2>1 DEF createOtherCluster, spend, cacheVars, workVars, volumeVars
<1>10. CASE restart
  BY <1>10 DEF restart, spend, volumeVars
<1>11. CASE UNCHANGED vars
  BY <1>11 DEF vars, apiVars, cacheVars, workVars, volumeVars, boundVars
<1> QED BY <1>1, <1>2, <1>3, <1>4, <1>5, <1>6, <1>7, <1>8, <1>9, <1>10, <1>11 DEF Next, Agent
\* The steps that write no volume, pod or cluster.
Elsewhere ==
  \/ \E r \in Restores : ignore(r) \/ decide(r) \/ create(r) \/ delete(r)
  \/ \E kind \in Kinds : sync(kind)
  \/ restart

\* Claims and clusters are created, and never changed or removed.
LEMMA ClaimEffect ==
  ASSUME TypeOK, Next
  PROVE  /\ \A p \in Peers : pvc[p] # None => pvc'[p] = pvc[p]
         /\ \/ UNCHANGED cluster
            \/ cluster = None /\ cluster' = [label |-> None]
            \/ /\ cluster = None /\ cluster' = [label |-> action.name]
               /\ action # None /\ action.op = "EtcdCluster"
<1> USE DEF TypeOK
<1>1. CASE execute
  <2>1. action # None /\ action.peer \in Peers
    BY <1>1, WellFormed DEF execute
  <2> QED BY <1>1, <2>1 DEF execute, CreatePVC, createPVC, CreatePod, CreateCluster, createCluster,
             UpdateStatus
<1>2. CASE Elsewhere
  BY <1>2 DEF Elsewhere, ignore, decide, begin, create, delete, sync, restart, apiVars
<1>3. ASSUME NEW p \in Peers,
             Agent(p) \/ collectPod(p) \/ loseNode(p) \/ losePod(p) \/ createOtherPVC(p)
      PROVE  UNCHANGED cluster /\ \A q \in Peers : pvc[q] # None => pvc'[q] = pvc[q]
  BY <1>3 DEF Agent, beginCopy, finishCopy, fail, collectPod, loseNode, losePod, createOtherPVC,
              createPVC, apiVars
<1>4. CASE createOtherCluster
  BY <1>4 DEF createOtherCluster, createCluster
<1> QED BY <1>1, <1>2, <1>3, <1>4 DEF Next, Reconcile, Elsewhere

\* The informers copy what there is while nothing else happens; only decide makes
\* an action.
LEMMA CacheEffect ==
  ASSUME Next
  PROVE  /\ UNCHANGED cachedRestore \/ (cachedRestore' = restore /\ UNCHANGED restore)
         /\ UNCHANGED cachedPVC \/ (cachedPVC' = pvc /\ UNCHANGED pvc)
         /\ UNCHANGED cachedPod \/ (cachedPod' = pod /\ UNCHANGED pod)
         /\ UNCHANGED cachedCluster \/ (cachedCluster' = cluster /\ UNCHANGED cluster)
         /\ \/ UNCHANGED action
            \/ action' = None
            \/ \E r \in Restores : decide(r)
<1>1. CASE execute
  BY <1>1 DEF execute, cacheVars
<1>2. CASE restart
  BY <1>2 DEF restart
<1>3. ASSUME NEW kind \in Kinds, sync(kind)
      PROVE  /\ UNCHANGED <<restore, pvc, pod, cluster, action>>
             /\ UNCHANGED cachedRestore \/ cachedRestore' = restore
             /\ UNCHANGED cachedPVC \/ cachedPVC' = pvc
             /\ UNCHANGED cachedPod \/ cachedPod' = pod
             /\ UNCHANGED cachedCluster \/ cachedCluster' = cluster
  BY <1>3 DEF sync
<1>4. ASSUME NEW r \in Restores, Reconcile(r) \/ create(r) \/ delete(r)
      PROVE  UNCHANGED cacheVars /\ (UNCHANGED action \/ decide(r))
  BY <1>4 DEF Reconcile, ignore, decide, begin, create, delete, workVars
<1>5. ASSUME \/ createOtherCluster
             \/ \E p \in Peers :
                  Agent(p) \/ collectPod(p) \/ loseNode(p) \/ losePod(p) \/ createOtherPVC(p)
      PROVE  UNCHANGED <<cacheVars, action>>
  BY <1>5 DEF Agent, beginCopy, finishCopy, fail, collectPod, loseNode, losePod, createOtherPVC,
              createOtherCluster, workVars
<1> QED BY <1>1, <1>2, <1>3, <1>4, <1>5 DEF Next, cacheVars

\* A pod is made by Reconcile, goes when it is lost or its restore is gone, and
\* else keeps its label and its owner; nothing is done to it once it has ended.
LEMMA PodEffect ==
  ASSUME TypeOK, Next, NEW p \in Peers
  PROVE  \/ pod'[p] = pod[p]
         \/ pod[p] # None /\ pod'[p] = None /\ (lost' \/ (pod[p].label # None /\ ~isOwned(pod[p])))
         \/ /\ pod[p] = None /\ pod'[p] # None /\ action # None /\ action.op = "Pod"
            /\ pod'[p] = [label |-> action.name, owner |-> action.seen.uid, state |-> "running"]
         \/ /\ runs(p) /\ pod'[p] # None
            /\ pod'[p].label = pod[p].label /\ pod'[p].owner = pod[p].owner
<1> USE DEF TypeOK
<1>1. CASE execute
  <2>1. action # None /\ action.peer \in Peers /\ action.name \in Restores /\ action.seen \in Restore
    BY <1>1, WellFormed DEF execute
  <2>2. [label |-> action.name, owner |-> action.seen.uid, state |-> "running"] \in Pod
    BY <2>1, WellFormed DEF Pod, Labels
  <2> QED BY <1>1, <2>1, <2>2, Constants DEF execute, CreatePVC, CreatePod, writePod, CreateCluster,
             UpdateStatus
<1>2. CASE Elsewhere
  BY <1>2 DEF Elsewhere, ignore, decide, begin, create, delete, sync, restart, apiVars
<1>3. ASSUME NEW q \in Peers, finishCopy(q) \/ fail(q) \/ loseNode(q)
      PROVE  \/ pod'[p] = pod[p]
             \/ /\ runs(p) /\ pod'[p] # None
                /\ pod'[p].label = pod[p].label /\ pod'[p].owner = pod[p].owner
  <2>1. runs(q) /\ pod[q] # None /\ (setState(q, "succeeded") \/ setState(q, "failed") \/ setState(q, "unknown"))
    BY <1>3 DEF finishCopy, fail, loseNode, runs
  <2>2. PICK obj \in Pod :
          /\ pod' = [pod EXCEPT ![q] = obj]
          /\ obj.label = pod[q].label /\ obj.owner = pod[q].owner
    BY <2>1, SetStateEffect
  <2> QED BY <2>1, <2>2, Constants
<1>4. ASSUME NEW q \in Peers, collectPod(q) \/ losePod(q)
      PROVE  \/ pod'[p] = pod[p]
             \/ /\ pod[p] # None /\ pod'[p] = None
                /\ lost' \/ (pod[p].label # None /\ ~isOwned(pod[p]))
  BY <1>4 DEF collectPod, losePod, writePod
<1>5. ASSUME createOtherCluster \/ \E q \in Peers : beginCopy(q) \/ createOtherPVC(q)
      PROVE  UNCHANGED pod
  BY <1>5 DEF beginCopy, createOtherPVC, createOtherCluster, apiVars
<1> QED BY <1>1, <1>2, <1>3, <1>4, <1>5 DEF Next, Reconcile, Elsewhere, Agent
\* A restore is made with the next UID, deleted, or brought to the phase of the
\* action that was decided on that very version.
LEMMA RestoreEffect ==
  ASSUME TypeOK, Next, NEW r \in Restores
  PROVE  \/ UNCHANGED <<restore[r], made[r]>>
         \/ restore'[r] = None /\ UNCHANGED made[r]
         \/ /\ restore[r] = None /\ restore'[r] # None /\ made'[r] = made[r] + 1
            /\ restore'[r].uid = made[r] + 1 /\ restore'[r].phase = ""
         \/ /\ action # None /\ action.name = r /\ restore[r] = action.seen
            /\ restore[r] # None /\ restore'[r] # None /\ UNCHANGED made[r]
            /\ restore'[r].uid = restore[r].uid /\ restore'[r].phase = action.op
<1>1. ASSUME NEW q \in Restores, create(q)
      PROVE  \/ UNCHANGED <<restore[r], made[r]>>
             \/ /\ restore[r] = None /\ restore'[r] # None /\ made'[r] = made[r] + 1
                /\ restore'[r].uid = made[r] + 1 /\ restore'[r].phase = ""
  <2>1. PICK obj \in Restore :
          /\ restore' = [restore EXCEPT ![q] = obj] /\ restore[q] = None
          /\ obj.uid = made[q] + 1 /\ obj.phase = ""
          /\ made' = [made EXCEPT ![q] = made[q] + 1]
    BY <1>1, CreateEffect, Zenon
  <2> QED BY <2>1, Constants DEF TypeOK
<1>2. ASSUME NEW q \in Restores, delete(q)
      PROVE  UNCHANGED <<restore[r], made[r]>> \/ (restore'[r] = None /\ UNCHANGED made[r])
  BY <1>2 DEF delete, writeRestore, TypeOK
<1>3. CASE execute
  <2>1. action # None /\ UNCHANGED made
    BY <1>3 DEF execute
  <2>2. CASE UNCHANGED restore
    BY <2>1, <2>2
  <2>3. CASE UpdateStatus(action.name)
    <3>1. action.name \in Restores /\ restore \in [Restores -> Restore \cup {None}]
      BY <2>1, WellFormed DEF TypeOK
    <3>2. CASE \E obj \in Restore :
                 /\ restore' = [restore EXCEPT ![action.name] = obj]
                 /\ restore[action.name] = action.seen /\ action.seen \in Restore
                 /\ obj.uid = action.seen.uid /\ obj.phase = action.op
      BY <2>1, <3>1, <3>2, Constants
    <3> QED BY <2>1, <2>2, <2>3, <3>2, UpdateEffect
  <2> QED BY <1>3, <2>2, <2>3 DEF execute, CreatePVC, CreatePod, CreateCluster
<1>4. ASSUME \/ createOtherCluster \/ restart
             \/ \E q \in Restores : Reconcile(q)
             \/ \E kind \in Kinds : sync(kind)
             \/ \E p \in Peers :
                  Agent(p) \/ collectPod(p) \/ loseNode(p) \/ losePod(p) \/ createOtherPVC(p)
      PROVE  UNCHANGED <<restore, made>>
  BY <1>4 DEF Agent, beginCopy, finishCopy, fail, collectPod, loseNode, losePod, createOtherPVC,
              createOtherCluster, restart, Reconcile, ignore, decide, begin, sync,
              apiVars, boundVars
<1> QED BY <1>1, <1>2, <1>3, <1>4 DEF Next

\* A lost pod is not forgotten.
LEMMA LostEffect == ASSUME Next PROVE lost => lost'
<1>1. UNCHANGED lost \/ lost' = TRUE
  BY DEF Next, Agent, beginCopy, finishCopy, fail, collectPod, loseNode, losePod, createOtherPVC,
         createOtherCluster, restart, Reconcile, ignore, decide, begin, sync, execute, create,
         delete, boundVars
<1> QED BY <1>1

\* What is made is not unmade.
LEMMA MadeEffect ==
  ASSUME TypeOK, TypeOK', Next, NEW r \in Restores
  PROVE  made[r] \in Nat /\ made'[r] \in Nat /\ made[r] <= made'[r]
<1>1. made[r] \in Nat /\ made'[r] \in Nat
  BY Constants DEF TypeOK
<1>2. made'[r] = made[r] \/ made'[r] = made[r] + 1
  BY RestoreEffect, Zenon
<1> QED BY <1>1, <1>2

\* Every volume is claimed for whom Reconcile launches a pod or makes a cluster.
LEMMA ClaimsStep == TypeOK /\ ClaimsStand /\ Next => ClaimsStand'
<1> SUFFICES ASSUME TypeOK, ClaimsStand, Next PROVE ClaimsStand'
  OBVIOUS
<1>1. \A p \in Peers : cachedPVC'[p] # None => pvc'[p] = cachedPVC'[p]
  BY ClaimEffect, CacheEffect DEF ClaimsStand
<1>2. cachedCluster' # None => cluster' = cachedCluster'
  BY ClaimEffect, CacheEffect DEF ClaimsStand
<1>3. ASSUME NEW r \in Labels, claimed(r) PROVE \A p \in Peers : pvc'[p] = [label |-> r]
  <2>1. \A p \in Peers : pvc[p] = [label |-> r] /\ [label |-> r] \in PVC
    BY <1>3 DEF claimed, PVC
  <2> QED BY <2>1, ClaimEffect, Constants
<1>4. cluster # None => cluster' # None
  BY ClaimEffect
<1>5. ASSUME action' # None
      PROVE  /\ action'.op \in {"Pod", "EtcdCluster", "Completed"} => claimed(action.name)'
             /\ action'.op = "Completed" => cluster' # None
  <2>1. CASE UNCHANGED action
    <3>1. action.name \in Labels
      BY <1>5, <2>1, WellFormed DEF TypeOK, Labels
    <3>2. /\ action.op \in {"Pod", "EtcdCluster", "Completed"} => claimed(action.name)
          /\ action.op = "Completed" => cluster # None
      BY <1>5, <2>1 DEF ClaimsStand
    <3>3. ASSUME claimed(action.name) PROVE claimed(action.name)'
      <4>1. \A p \in Peers : pvc'[p] = [label |-> action.name]
        BY <3>1, <3>3, <1>3
      <4> QED BY <2>1, <4>1 DEF claimed
    <3> QED BY <2>1, <3>2, <3>3, <1>4
  <2>2. ASSUME NEW r \in Restores, decide(r)
        PROVE  /\ action'.op \in {"Pod", "EtcdCluster", "Completed"} => claimed(action.name)'
               /\ action'.op = "Completed" => cluster' # None
    <3>1. PICK op \in Ops, p \in Peers : planned(r, op, p) /\ action'.name = r /\ action'.op = op
      BY <2>2, DecideEffect
    <3>2. op \in {"Pod", "EtcdCluster", "Completed"} => haveAllPVCs(r)
      BY <3>1 DEF planned, haveAllPods
    <3>3. op = "Completed" => cluster # None
      BY <3>1 DEF planned, ClaimsStand
    <3>4. ASSUME haveAllPVCs(r) PROVE \A q \in Peers : pvc[q] = [label |-> r]
      <4> SUFFICES ASSUME NEW q \in Peers PROVE pvc[q] = [label |-> r]
        OBVIOUS
      <4>1. pvc[q] = cachedPVC[q] /\ cachedPVC[q] \in PVC /\ cachedPVC[q].label = r
        BY <3>4 DEF haveAllPVCs, ours, IsOurPVC, ClaimsStand, TypeOK
      <4> QED BY <4>1 DEF PVC
    <3>5. UNCHANGED <<pvc, cluster>>
      BY <2>2 DEF decide, begin, apiVars
    <3> QED BY <3>1, <3>2, <3>3, <3>4, <3>5 DEF claimed
  <2> QED BY <1>5, <2>1, <2>2, CacheEffect
<1>6. ASSUME NEW p \in Peers, pod'[p] # None, pod'[p].label # None PROVE claimed(pod[p].label)'
  <2>1. CASE pod[p] # None /\ pod'[p].label = pod[p].label
    <3>1. pod[p].label \in Labels /\ claimed(pod[p].label)
      BY <1>6, <2>1, WellFormed DEF TypeOK, ClaimsStand
    <3>2. \A q \in Peers : pvc'[q] = [label |-> pod[p].label]
      BY <3>1, <1>3
    <3> QED BY <2>1, <3>2 DEF claimed
  <2>2. CASE /\ action # None /\ action.op = "Pod"
             /\ pod'[p] = [label |-> action.name, owner |-> action.seen.uid, state |-> "running"]
    <3>1. action.name \in Labels /\ claimed(action.name)
      BY <2>2, WellFormed DEF TypeOK, ClaimsStand, Labels
    <3>2. \A q \in Peers : pvc'[q] = [label |-> action.name]
      BY <3>1, <1>3
    <3>3. pod'[p].label = action.name
      BY <2>2
    <3> QED BY <3>2, <3>3 DEF claimed
  <2>3. CASE pod'[p] = pod[p]
    BY <1>6, <2>1, <2>3
  <2> QED BY <1>6, <2>1, <2>2, <2>3, PodEffect DEF runs
<1> QED BY <1>1, <1>2, <1>5, <1>6 DEF ClaimsStand
\* The fields of what there is.
LEMMA ObjectTypes ==
  ASSUME TypeOK
  PROVE  /\ \A r \in Restores : restore[r] # None => restore[r].uid \in UIDs
         /\ \A r \in Restores : cachedRestore[r] # None => cachedRestore[r].uid \in UIDs
         /\ \A p \in Peers :
              pod[p] # None => pod[p].owner \in UIDs /\ pod[p].label \in Restores \cup {None}
         /\ \A p \in Peers : cachedPod[p] # None => cachedPod[p].label \in Restores \cup {None}
<1>1. \A r \in Restores : restore[r] \in Restore \cup {None} /\ cachedRestore[r] \in Restore \cup {None}
  BY DEF TypeOK
<1>2. \A p \in Peers : pod[p] \in Pod \cup {None} /\ cachedPod[p] \in Pod \cup {None}
  BY DEF TypeOK
<1> QED BY <1>1, <1>2, WellFormed DEF Labels

\* What there is of a restore belongs to one that has been made.
LEMMA UIDsStep == TypeOK /\ TypeOK' /\ UIDsOfMade /\ Next => UIDsOfMade'
<1> SUFFICES ASSUME TypeOK, TypeOK', UIDsOfMade, Next PROVE UIDsOfMade'
  OBVIOUS
<1>1. ASSUME NEW r \in Restores, NEW n \in UIDs, n \in 1..made[r] PROVE n \in 1..made'[r]
  <2>1. made[r] \in Nat /\ made'[r] \in Nat /\ made[r] <= made'[r]
    BY MadeEffect
  <2> QED BY <1>1, <2>1
<1>2. ASSUME NEW r \in Restores, made[r] # 0 PROVE made'[r] # 0
  BY <1>2, MadeEffect
<1>3. ASSUME NEW r \in Restores, restore'[r] # None PROVE restore'[r].uid = made'[r]
  BY <1>3, RestoreEffect DEF UIDsOfMade
<1>4. ASSUME NEW r \in Restores, cachedRestore'[r] # None
      PROVE  cachedRestore'[r].uid \in 1..made'[r]
  <2>1. CASE UNCHANGED cachedRestore
    <3>1. cachedRestore[r].uid \in UIDs /\ cachedRestore[r].uid \in 1..made[r]
      BY <1>4, <2>1, ObjectTypes DEF UIDsOfMade
    <3> QED BY <2>1, <3>1, <1>1
  <2>2. CASE cachedRestore' = restore /\ UNCHANGED restore
    <3>1. restore[r].uid \in UIDs /\ restore[r].uid = made[r]
      BY <1>4, <2>2, ObjectTypes DEF UIDsOfMade
    <3>2. restore[r].uid \in 1..made[r]
      BY <3>1, Constants DEF UIDs
    <3> QED BY <2>2, <3>1, <3>2, <1>1
  <2> QED BY <2>1, <2>2, CacheEffect
<1>5. ASSUME action' # None PROVE action'.seen.uid \in 1..(made'[action'.name])
  <2>1. CASE UNCHANGED action
    <3>1. action.name \in Restores /\ action.seen.uid \in UIDs /\ action.seen.uid \in 1..made[action.name]
      BY <1>5, <2>1, WellFormed DEF TypeOK, UIDsOfMade
    <3> QED BY <2>1, <3>1, <1>1
  <2>2. ASSUME NEW r \in Restores, decide(r) PROVE action'.seen.uid \in 1..(made'[action'.name])
    <3>1. action'.name = r /\ action'.seen = cachedRestore[r] /\ cachedRestore[r] \in Restore
      BY <2>2, DecideEffect
    <3>2. cachedRestore[r].uid \in UIDs /\ cachedRestore[r].uid \in 1..made[r]
      BY <3>1, WellFormed, Constants DEF UIDsOfMade
    <3> QED BY <3>1, <3>2, <1>1
  <2> QED BY <1>5, <2>1, <2>2, CacheEffect
<1>6. ASSUME NEW p \in Peers, pod'[p] # None, pod'[p].label # None
      PROVE  pod'[p].owner \in 1..(made'[pod'[p].label])
  <2>1. CASE pod[p] # None /\ pod'[p].label = pod[p].label /\ pod'[p].owner = pod[p].owner
    <3>1. pod[p].label \in Restores /\ pod[p].owner \in UIDs /\ pod[p].owner \in 1..made[pod[p].label]
      BY <1>6, <2>1, ObjectTypes DEF UIDsOfMade
    <3> QED BY <2>1, <3>1, <1>1
  <2>2. CASE /\ action # None
             /\ pod'[p] = [label |-> action.name, owner |-> action.seen.uid, state |-> "running"]
    <3>1. action.name \in Restores /\ action.seen.uid \in UIDs /\ action.seen.uid \in 1..made[action.name]
      BY <2>2, WellFormed DEF TypeOK, UIDsOfMade
    <3>2. pod'[p].label = action.name /\ pod'[p].owner = action.seen.uid
      BY <2>2
    <3> QED BY <3>1, <3>2, <1>1
  <2>3. CASE pod'[p] = pod[p]
    BY <1>6, <2>1, <2>3
  <2> QED BY <1>6, <2>1, <2>2, <2>3, PodEffect DEF runs
<1>7. ASSUME NEW p \in Peers, cachedPod'[p] # None, cachedPod'[p].label # None
      PROVE  made'[cachedPod'[p].label] # 0
  <2>1. CASE UNCHANGED cachedPod
    <3>1. cachedPod[p].label \in Restores /\ made[cachedPod[p].label] # 0
      BY <1>7, <2>1, ObjectTypes DEF UIDsOfMade
    <3> QED BY <2>1, <3>1, <1>2
  <2>2. CASE cachedPod' = pod
    <3>1. pod[p].label \in Restores /\ pod[p].owner \in UIDs /\ pod[p].owner \in 1..made[pod[p].label]
      BY <1>7, <2>2, ObjectTypes DEF UIDsOfMade
    <3>2. made[pod[p].label] # 0
      BY <3>1
    <3> QED BY <2>2, <3>1, <3>2, <1>2
  <2> QED BY <2>1, <2>2, CacheEffect
<1>8. ASSUME cluster' # None, cluster'.label # None PROVE made'[cluster'.label] # 0
  <2>1. CASE UNCHANGED cluster
    <3>1. cluster.label \in Restores /\ made[cluster.label] # 0
      BY <1>8, <2>1 DEF TypeOK, UIDsOfMade, Labels, Cluster
    <3> QED BY <2>1, <3>1, <1>2
  <2>2. CASE cluster' = [label |-> action.name] /\ action # None
    <3>1. action.name \in Restores /\ action.seen.uid \in UIDs /\ action.seen.uid \in 1..made[action.name]
      BY <2>2, WellFormed DEF TypeOK, UIDsOfMade
    <3>2. made[action.name] # 0
      BY <3>1
    <3> QED BY <2>2, <3>1, <3>2, <1>2
  <2> QED BY <1>8, <2>1, <2>2, ClaimEffect
<1> QED BY <1>3, <1>4, <1>5, <1>6, <1>7, <1>8 DEF UIDsOfMade

\* Reconcile decides by the phase of the restore it reads, and returns early if that
\* is an end state.
LEMMA DecidedStep == TypeOK /\ DecidedInPhase /\ Next => DecidedInPhase'
<1> SUFFICES ASSUME TypeOK, DecidedInPhase, Next PROVE DecidedInPhase'
  OBVIOUS
<1>1. ASSUME NEW r \in Restores, decide(r) PROVE DecidedInPhase'
  BY <1>1, DecideEffect, Zenon DEF DecidedInPhase
<1>2. CASE UNCHANGED action \/ action' = None
  BY <1>2, Zenon DEF DecidedInPhase
<1> QED BY <1>1, <1>2, CacheEffect, Zenon

\* Only a running agent writes, and the last thing it does is to finish the copy.
LEMMA AgentsStep == TypeOK /\ AgentsWrite /\ Next => AgentsWrite'
<1> SUFFICES ASSUME TypeOK, AgentsWrite, Next PROVE AgentsWrite'
  OBVIOUS
<1>1. ASSUME UNCHANGED <<pod, data, copying>> PROVE AgentsWrite'
  BY <1>1 DEF AgentsWrite, runs
<1>2. CASE execute
  <2>1. UNCHANGED <<data, copying>>
    BY <1>2 DEF execute, CreatePVC, CreatePod, CreateCluster, UpdateStatus
  <2>2. ASSUME NEW p \in Peers, pod'[p] # pod[p]
        PROVE  pod[p] = None /\ pod'[p].state = "running"
    <3>1. action # None /\ action.peer \in Peers
      BY <1>2, WellFormed DEF execute, TypeOK
    <3> QED BY <1>2, <2>2, <3>1 DEF execute, CreatePVC, CreatePod, writePod, CreateCluster,
               UpdateStatus, TypeOK
  <2> QED BY <2>1, <2>2 DEF AgentsWrite, runs, TypeOK
<1>3. ASSUME NEW p \in Peers, collectPod(p) \/ losePod(p) PROVE AgentsWrite'
  BY <1>3 DEF collectPod, losePod, writePod, AgentsWrite, runs, TypeOK
<1>4. ASSUME NEW p \in Peers, beginCopy(p) PROVE AgentsWrite'
  BY <1>4 DEF beginCopy, AgentsWrite, runs, TypeOK, apiVars
<1>5. ASSUME NEW p \in Peers, finishCopy(p) PROVE AgentsWrite'
  <2>1. PICK obj \in Pod :
          /\ pod' = [pod EXCEPT ![p] = obj]
          /\ obj.label = pod[p].label /\ obj.owner = pod[p].owner /\ obj.state = "succeeded"
    BY <1>5, SetStateEffect DEF finishCopy, runs
  <2> QED BY <1>5, <2>1 DEF finishCopy, AgentsWrite, runs, TypeOK
<1>6. ASSUME NEW p \in Peers, fail(p) PROVE AgentsWrite'
  <2>1. PICK obj \in Pod :
          /\ pod' = [pod EXCEPT ![p] = obj]
          /\ obj.label = pod[p].label /\ obj.owner = pod[p].owner /\ obj.state = "failed"
    BY <1>6, SetStateEffect DEF fail, runs
  <2> QED BY <1>6, <2>1 DEF fail, AgentsWrite, runs, TypeOK
<1>7. ASSUME NEW p \in Peers, loseNode(p) PROVE AgentsWrite'
  <2>1. PICK obj \in Pod :
          /\ pod' = [pod EXCEPT ![p] = obj]
          /\ obj.label = pod[p].label /\ obj.owner = pod[p].owner /\ obj.state = "unknown"
    BY <1>7, SetStateEffect DEF loseNode, runs
  <2>2. UNCHANGED <<data, copying>> /\ runs(p)
    BY <1>7 DEF loseNode, volumeVars
  <2> QED BY <2>1, <2>2, Constants DEF AgentsWrite, runs, TypeOK
<1> QED BY <1>1, <1>2, <1>3, <1>4, <1>5, <1>6, <1>7 DEF Next, Reconcile, ignore, decide, begin,
           create, delete, Agent, createOtherPVC, createOtherCluster, sync, restart, apiVars, volumeVars
\* The conjuncts of SuccessStands, for one restore.
SuccessOf(r) ==
  /\ \A p \in Peers :
       cachedPod[p] # None /\ cachedPod[p].label = r =>
         /\ pod[p] # None /\ pod[p].label = r
         /\ cachedPod[p].state = "succeeded" => pod[p].state = "succeeded"
  /\ action # None /\ action.name = r /\ action.op \in {"EtcdCluster", "Completed"}
       => succeeded(r)
  /\ cluster = [label |-> r] => claimed(r) /\ succeeded(r)
  /\ restore[r].phase = "Completed" => claimed(r) /\ succeeded(r) /\ cluster # None

\* No UID precedes the first.
LEMMA NothingBelowOne == \A n \in UIDs : n \notin 1..0
BY Constants DEF UIDs

\* Of a restore whose name has never been used there is nothing.
LEMMA FirstUse ==
  ASSUME RestoreInv, Next, NEW r \in Restores, made[r] = 0,
         restore[r] = None, restore'[r] # None, restore'[r].phase = ""
  PROVE  SuccessOf(r)'
<1> USE DEF RestoreInv
<1>1. \A n \in UIDs : n \notin 1..made[r]
  BY NothingBelowOne
<1>2. action # None => action.name # r
  <2>1. action # None => action.seen.uid \in UIDs
    BY WellFormed DEF TypeOK
  <2> QED BY <1>1, <2>1 DEF UIDsOfMade
<1>3. \A p \in Peers : pod[p] # None => pod[p].label # r
  BY <1>1, ObjectTypes, Constants DEF UIDsOfMade
<1>4. \A p \in Peers : cachedPod[p] # None => cachedPod[p].label # r
  BY Constants DEF UIDsOfMade
<1>5. cluster # [label |-> r]
  <2>1. [label |-> r] \in Cluster /\ [label |-> r].label = r
    BY DEF Cluster, Labels
  <2> QED BY <2>1, Constants DEF UIDsOfMade
<1>6. ~decide(r)
  BY DEF decide, begin, apiVars
<1>7. action' # None => action'.name # r
  BY <1>2, <1>6, CacheEffect, DecideEffect
<1>8. cluster' # [label |-> r]
  <2>1. [label |-> None] # [label |-> r]
    BY Constants
  <2>2. action # None => [label |-> action.name] # [label |-> r]
    BY <1>2
  <2> QED BY <1>5, <2>1, <2>2, ClaimEffect
<1>9. \A p \in Peers : cachedPod'[p] # None => cachedPod'[p].label # r
  BY <1>3, <1>4, CacheEffect
<1> QED BY <1>7, <1>8, <1>9 DEF SuccessOf

\* A restore that is not disturbed keeps its pods, and what they have achieved.
LEMMA Undisturbed ==
  ASSUME RestoreInv, Next, NEW r \in Restores, undisturbed(r), restore'[r] # None, ~lost'
  PROVE  SuccessOf(r)'
<1> USE DEF RestoreInv
<1>1. SuccessOf(r) /\ restore[r] # None /\ restore[r].uid = 1 /\ made[r] = 1
  BY DEF SuccessStands, SuccessOf, undisturbed, isRestore, UIDsOfMade
<1>2. ASSUME NEW p \in Peers, pod[p] # None, pod[p].label = r
      PROVE  /\ pod'[p] # None /\ pod'[p].label = r
             /\ pod[p].state = "succeeded" => pod'[p] = pod[p]
  <2>1. pod[p].label # None /\ pod[p].owner \in 1..1
    <3>1. pod[p].label # None
      BY <1>2, Constants
    <3>2. pod[p].owner \in 1..made[pod[p].label]
      BY <1>2, <3>1, Zenon DEF UIDsOfMade
    <3> QED BY <1>1, <1>2, <3>1, <3>2
  <2>2. isOwned(pod[p])
    BY <1>1, <1>2, <2>1 DEF isOwned
  <2> QED BY <1>2, <2>2, PodEffect DEF runs
<1>3. succeeded(r) => succeeded(r)'
  BY <1>2 DEF succeeded
<1>4. claimed(r) => claimed(r)'
  <2>1. [label |-> r] \in PVC
    BY DEF PVC, Labels
  <2> QED BY <2>1, ClaimEffect, Constants DEF claimed
<1>5. cluster # None => cluster' # None
  BY ClaimEffect
<1>6. \A p \in Peers :
        cachedPod'[p] # None /\ cachedPod'[p].label = r =>
          /\ pod'[p] # None /\ pod'[p].label = r
          /\ cachedPod'[p].state = "succeeded" => pod'[p].state = "succeeded"
  <2>1. CASE UNCHANGED cachedPod
    BY <2>1, <1>1, <1>2 DEF SuccessOf
  <2>2. CASE cachedPod' = pod /\ UNCHANGED pod
    BY <2>2
  <2> QED BY <2>1, <2>2, CacheEffect
<1>7. ASSUME action' # None, action'.name = r, action'.op \in {"EtcdCluster", "Completed"}
      PROVE  succeeded(r)'
  <2>1. CASE UNCHANGED action
    BY <1>1, <1>3, <1>7, <2>1 DEF SuccessOf
  <2>2. ASSUME NEW q \in Restores, decide(q) PROVE succeeded(r)
    <3>1. PICK op \in Ops, p \in Peers : planned(q, op, p) /\ action'.name = q /\ action'.op = op
      BY <2>2, DecideEffect
    <3>2. haveAllPods(r) /\ allSuccess
      BY <1>7, <3>1 DEF planned
    <3> SUFFICES ASSUME NEW o \in Peers
                 PROVE  pod[o] # None /\ pod[o].label = r /\ pod[o].state = "succeeded"
      BY DEF succeeded
    <3>3. cachedPod[o] # None /\ cachedPod[o].label = r /\ cachedPod[o].state = "succeeded"
      BY <3>2 DEF haveAllPods, someOtherPod, IsOurPod, allSuccess
    <3> QED BY <1>1, <3>3 DEF SuccessOf
  <2> QED BY <1>3, <1>7, <2>1, <2>2, CacheEffect
<1>8. ASSUME cluster' = [label |-> r] PROVE claimed(r)' /\ succeeded(r)'
  <2>1. CASE UNCHANGED cluster
    BY <1>1, <1>3, <1>4, <1>8, <2>1 DEF SuccessOf
  <2>2. CASE cluster' = [label |-> action.name] /\ action # None /\ action.op = "EtcdCluster"
    <3>1. action.name = r
      BY <1>8, <2>2
    <3>2. claimed(r) /\ succeeded(r)
      BY <1>1, <2>2, <3>1 DEF SuccessOf, ClaimsStand
    <3> QED BY <1>3, <1>4, <3>2
  <2>3. [label |-> None] # [label |-> r]
    BY Constants
  <2> QED BY <1>8, <2>1, <2>2, <2>3, ClaimEffect
<1>9. ASSUME restore'[r].phase = "Completed" PROVE claimed(r)' /\ succeeded(r)' /\ cluster' # None
  <2>1. CASE UNCHANGED restore[r]
    BY <1>1, <1>3, <1>4, <1>5, <1>9, <2>1 DEF SuccessOf
  <2>2. CASE action # None /\ action.name = r /\ restore'[r].phase = action.op
    <3>1. action.op = "Completed"
      BY <1>9, <2>2
    <3>2. claimed(r) /\ succeeded(r) /\ cluster # None
      BY <1>1, <2>2, <3>1 DEF SuccessOf, ClaimsStand
    <3> QED BY <1>3, <1>4, <1>5, <3>2
  <2> QED BY <1>1, <2>1, <2>2, RestoreEffect
<1> QED BY <1>6, <1>7, <1>8, <1>9 DEF SuccessOf

\* Success is still there when Reconcile acts on it.
LEMMA SuccessStep == RestoreInv /\ Next => SuccessStands'
<1> SUFFICES ASSUME RestoreInv, Next, NEW r \in Restores, undisturbed(r)' PROVE SuccessOf(r)'
  BY DEF SuccessStands, SuccessOf
<1>1. restore'[r] # None /\ restore'[r].uid = 1 /\ ~lost' /\ ~lost
  BY LostEffect DEF undisturbed, isRestore
<1>2. CASE restore[r] = None
  <2>1. made'[r] = made[r] + 1 /\ restore'[r].uid = made[r] + 1 /\ restore'[r].phase = ""
    BY <1>1, <1>2, RestoreEffect DEF RestoreInv
  <2>2. made[r] \in 0..MaxUID /\ made[r] + 1 = 1
    BY <1>1, <2>1 DEF RestoreInv, TypeOK
  <2>3. made[r] = 0
    BY <2>2, Constants
  <2> QED BY <1>1, <1>2, <2>1, <2>3, FirstUse
<1>3. CASE restore[r] # None
  <2>1. restore[r].uid = 1
    BY <1>1, <1>3, RestoreEffect DEF RestoreInv
  <2> QED BY <1>1, <1>3, <2>1, Undisturbed DEF undisturbed, isRestore
<1> QED BY <1>2, <1>3

\* Controller, informers, agents and users keep RestoreInv.
LEMMA InvStep == RestoreInv /\ [Next]_vars => RestoreInv'
<1> SUFFICES ASSUME RestoreInv, [Next]_vars PROVE RestoreInv'
  OBVIOUS
<1>1. CASE Next
  <2>1. TypeOK'
    BY <1>1, TypeStep DEF RestoreInv
  <2> QED BY <1>1, <2>1, ClaimsStep, UIDsStep, DecidedStep, AgentsStep, SuccessStep DEF RestoreInv
<1>2. CASE UNCHANGED vars
  <2>1. UNCHANGED <<restore, pvc, pod, cluster, cachedRestore, cachedPVC, cachedPod,
                    cachedCluster, action, data, copying, lost, made>>
    BY <1>2 DEF vars, apiVars, cacheVars, workVars, volumeVars, boundVars
  <2>2. TypeOK'
    BY <1>2, TypeStep DEF RestoreInv
  <2>3. ClaimsStand' /\ UIDsOfMade' /\ DecidedInPhase' /\ AgentsWrite'
    BY <2>1 DEF RestoreInv, ClaimsStand, UIDsOfMade, DecidedInPhase, AgentsWrite, claimed, runs
  <2>4. ASSUME NEW r \in Restores, undisturbed(r)' PROVE SuccessOf(r)'
    <3>1. undisturbed(r)
      BY <2>1, <2>4 DEF undisturbed, isRestore
    <3>2. SuccessOf(r)
      BY <3>1 DEF RestoreInv, SuccessStands, SuccessOf
    <3>3. (claimed(r)' <=> claimed(r)) /\ (succeeded(r)' <=> succeeded(r))
      BY <2>1 DEF claimed, succeeded
    <3> QED BY <2>1, <3>2, <3>3 DEF SuccessOf
  <2>5. SuccessStands'
    BY <2>4 DEF SuccessStands, SuccessOf
  <2> QED BY <2>2, <2>3, <2>5 DEF RestoreInv
<1> QED BY <1>1, <1>2

\* Whoever competes for the cluster, and however late the informers are, claims
\* stand, agents write where they may, and success is not claimed too early.
THEOREM RestoreInvariant == Spec => []RestoreInv
<1>1. Init => RestoreInv
  <2> SUFFICES ASSUME Init PROVE RestoreInv
    OBVIOUS
  <2>1. /\ restore = [r \in Restores |-> None] /\ cluster = None
        /\ cachedRestore = restore /\ cachedPVC = pvc /\ cachedPod = pod /\ cachedCluster = cluster
        /\ unseen = {} /\ queued = {} /\ action = None
        /\ data = [p \in Peers |-> None] /\ copying = {}
        /\ made = [r \in Restores |-> 0] /\ faults = 0
    BY DEF Init
  <2>2. foreignPVC \in PVC /\ foreignPod \in Pod /\ foreignPod.label = None
    BY Constants DEF foreignPVC, foreignPod, PVC, Pod, Labels, UIDs
  <2>3. /\ pvc \in [Peers -> {foreignPVC, None}]
        /\ pod \in [Peers -> {foreignPod, None}]
    BY DEF Init
  <2>4. lost \in BOOLEAN
    BY DEF Init
  <2>5. TypeOK
    BY <2>1, <2>2, <2>3, <2>4, Constants DEF TypeOK
  <2>6. \A p \in Peers : pod[p] # None => pod[p].label = None
    BY <2>2, <2>3
  <2>7. ClaimsStand /\ DecidedInPhase
    BY <2>1, <2>6 DEF ClaimsStand, DecidedInPhase
  <2>8. UIDsOfMade /\ AgentsWrite
    BY <2>1, <2>6 DEF UIDsOfMade, AgentsWrite
  <2>9. SuccessStands
    BY <2>1 DEF SuccessStands, undisturbed, isRestore
  <2> QED BY <2>5, <2>7, <2>8, <2>9 DEF RestoreInv
<1> QED BY <1>1, InvStep, PTL DEF Spec

\* No agent is launched on a volume of an earlier cluster or of another restore.
THEOREM OwnVolumesTheorem == Spec => []AgentsOnOwnVolumes
<1>1. RestoreInv => AgentsOnOwnVolumes
  BY DEF RestoreInv, ClaimsStand, claimed, AgentsOnOwnVolumes
<1> QED BY <1>1, RestoreInvariant, PTL

\* The cluster is created on volumes that all hold the snapshot.
THEOREM WholeTheorem == Spec => []RestoredWhole
<1>1. RestoreInv => RestoredWhole
  <2> SUFFICES ASSUME RestoreInv, NEW r \in Restores, undisturbed(r),
                      cluster = [label |-> r] \/ restore[r].phase = "Completed"
               PROVE  /\ cluster # None
                      /\ \A p \in Peers :
                           pvc[p] = [label |-> r] /\ data[p] = 1 /\ p \notin copying
    BY DEF RestoredWhole
  <2>1. claimed(r) /\ succeeded(r)
    BY DEF RestoreInv, SuccessStands
  <2>2. cluster # None
    <3>1. [label |-> r] \in Cluster
      BY DEF Cluster, Labels
    <3> QED BY <3>1, Constants DEF RestoreInv, SuccessStands
  <2>3. ASSUME NEW p \in Peers
        PROVE  pvc[p] = [label |-> r] /\ data[p] = 1 /\ p \notin copying
    <3>1. pod[p] # None /\ pod[p].label = r /\ pod[p].state = "succeeded" /\ r # None
      BY <2>1, Constants DEF succeeded
    <3>2. made[r] = 1
      BY DEF RestoreInv, UIDsOfMade, undisturbed, isRestore
    <3>3. pod[p].owner \in 1..1
      BY <3>1, <3>2 DEF RestoreInv, UIDsOfMade
    <3>4. pod[p].owner = 1
      BY <3>3
    <3>5. data[p] = 1 /\ p \notin copying
      BY <3>1, <3>4 DEF RestoreInv, AgentsWrite, runs
    <3> QED BY <2>1, <3>5 DEF claimed
  <2> QED BY <2>2, <2>3
<1> QED BY <1>1, RestoreInvariant, PTL

\* UpdateStatus never changes a restore that is Failed or Completed.
THEOREM FinalTheorem == Spec => EndIsFinal
<1>1. RestoreInv /\ [Next]_vars =>
        [\A r \in Restores, u \in UIDs :
           isRestore(r, u) /\ isRestore(r, u)' /\ restore[r].phase \in Ended
             => restore'[r].phase = restore[r].phase]_vars
  <2> SUFFICES ASSUME RestoreInv, Next, NEW r \in Restores, NEW u \in UIDs,
                      isRestore(r, u), isRestore(r, u)', restore[r].phase \in Ended
               PROVE  restore'[r].phase = restore[r].phase
    OBVIOUS
  <2>1. TypeOK /\ restore[r] # None /\ restore'[r] # None
    BY DEF RestoreInv, isRestore
  <2>2. ~(action # None /\ restore[r] = action.seen)
    <3>1. restore[r].phase # "" /\ restore[r].phase # "Pending"
      BY Zenon DEF Ended
    <3> QED BY <3>1, Zenon DEF RestoreInv, DecidedInPhase
  <2> QED BY <2>1, <2>2, RestoreEffect
<1> QED BY <1>1, RestoreInvariant, PTL DEF Spec, EndIsFinal
-----------------------------------------------------------------------------
(* What Reconcile decides. *)

\* A set of peers has a first one.
LEMMA FirstPeer ==
  ASSUME NEW T, T \subseteq Peers, T # {}
  PROVE  \E p \in T : \A q \in 0..(p - 1) : q \notin T
<1> DEFINE R == OpToRel(<, Nat)
<1>1. T \subseteq Nat
  BY Constants DEF Peers
<1>2. PICK p \in T : \A q \in T : <<q, p>> \notin R
  BY <1>1, NatLessThanWellFounded, WFMin
<1>3. \A q \in T : ~(q < p)
  BY <1>1, <1>2 DEF OpToRel
<1> QED BY <1>1, <1>3

\* Reconcile stops at a claim exactly when it does not have all of them.
LEMMA FirstClaim ==
  ASSUME NEW r \in Restores, isPending(r), ~haveAllPVCs(r)
  PROVE  \E p \in Peers : atPVC(r, p)
<1> DEFINE T == {p \in Peers : ~ours(r, p)}
<1>1. T \subseteq Peers /\ T # {}
  BY DEF haveAllPVCs
<1>2. PICK p \in T : \A q \in 0..(p - 1) : q \notin T
  <2> HIDE DEF T
  <2> QED BY <1>1, FirstPeer
<1>3. \A q \in 0..(p - 1) : q \in Peers
  BY Constants DEF Peers
<1> QED BY <1>2, <1>3 DEF atPVC

\* It launches a pod exactly when one is missing.
LEMMA FirstPod ==
  ASSUME NEW o \in Peers, cachedPod[o] = None
  PROVE  \E p \in Peers : lacksPod(p)
<1> DEFINE T == {p \in Peers : cachedPod[p] = None}
<1>1. T \subseteq Peers /\ T # {}
  OBVIOUS
<1>2. PICK p \in T : \A q \in 0..(p - 1) : q \notin T
  <2> HIDE DEF T
  <2> QED BY <1>1, FirstPeer
<1>3. \A q \in 0..(p - 1) : q \in Peers
  BY Constants DEF Peers
<1> QED BY <1>2, <1>3 DEF lacksPod

\* There is one first claim and one first pod.
LEMMA FirstIsUnique ==
  ASSUME NEW r \in Restores, NEW p \in Peers, NEW q \in Peers
  PROVE  /\ atPVC(r, p) /\ atPVC(r, q) => p = q
         /\ lacksPod(p) /\ lacksPod(q) => p = q
<1>1. p \in 0..(q - 1) \/ q \in 0..(p - 1) \/ p = q
  BY Constants DEF Peers
<1> QED BY <1>1 DEF atPVC, lacksPod

\* Reconcile always knows what to do, and it is one thing: for every content of the
\* cache either it has nothing to do or one operation on one peer is next.
THEOREM ReconcileDecides ==
  TypeOK => \A r \in Restores :
    /\ isIdle(r) \/ \E op \in Ops, p \in Peers : planned(r, op, p)
    /\ \A op \in Ops, p \in Peers : planned(r, op, p) => ~isIdle(r)
    /\ \A op1, op2 \in Ops, p1, p2 \in Peers :
         planned(r, op1, p1) /\ planned(r, op2, p2) =>
           op1 = op2 /\ (op1 \in {"PersistentVolumeClaim", "Pod"} => p1 = p2)
<1> SUFFICES ASSUME TypeOK, NEW r \in Restores
             PROVE  /\ isIdle(r) \/ \E op \in Ops, p \in Peers : planned(r, op, p)
                    /\ \A op \in Ops, p \in Peers : planned(r, op, p) => ~isIdle(r)
                    /\ \A op1, op2 \in Ops, p1, p2 \in Peers :
                         planned(r, op1, p1) /\ planned(r, op2, p2) =>
                           op1 = op2 /\ (op1 \in {"PersistentVolumeClaim", "Pod"} => p1 = p2)
  OBVIOUS
<1>0. 0 \in Peers
  BY Constants DEF Peers
<1>1. isIdle(r) \/ \E op \in Ops, p \in Peers : planned(r, op, p)
  <2>1. cachedRestore[r] = None \/ inPhase(r, "") \/ isPending(r)
          \/ inPhase(r, "Failed") \/ inPhase(r, "Completed")
    BY Zenon DEF TypeOK, Restore, Phases, Ended, inPhase, isPending
  <2>2. CASE inPhase(r, "")
    BY <1>0, <2>2, Zenon DEF planned, Ops
  <2>3. CASE isPending(r) /\ ~haveAllPVCs(r)
    BY <2>3, FirstClaim DEF planned, Ops
  <2>4. CASE haveAllPVCs(r) /\ someOtherPod(r)
    BY <1>0, <2>4, Zenon DEF planned, Ops
  <2>5. CASE haveAllPVCs(r) /\ ~someOtherPod(r) /\ ~haveAllPods(r)
    <3>1. PICK o \in Peers : cachedPod[o] = None
      BY <2>5, Zenon DEF haveAllPods
    <3>2. PICK p \in Peers : lacksPod(p)
      BY <3>1, FirstPod
    <3> QED BY <2>5, <3>2, Zenon DEF planned, Ops
  <2>6. CASE haveAllPods(r)
    BY <1>0, <2>6, Zenon DEF planned, Ops, isIdle
  <2> QED BY <2>1, <2>2, <2>3, <2>4, <2>5, <2>6, Zenon DEF isIdle
<1>2. ASSUME NEW op \in Ops, NEW p \in Peers, planned(r, op, p) PROVE ~isIdle(r)
  <2>1. cachedRestore[r] # None /\ ~inPhase(r, "Completed") /\ ~inPhase(r, "Failed")
    BY <1>2, Zenon DEF planned, inPhase, atPVC, isPending, haveAllPVCs, haveAllPods
  <2>2. haveAllPods(r) => anyFailed \/ allSuccess
    <3>1. haveAllPods(r) => ~atPVC(r, p)
      BY Zenon DEF haveAllPods, haveAllPVCs, atPVC
    <3>2. haveAllPods(r) => ~lacksPod(p) /\ ~inPhase(r, "") /\ ~someOtherPod(r)
      BY Zenon DEF haveAllPods, haveAllPVCs, lacksPod, isPending, inPhase
    <3> QED BY <1>2, <3>1, <3>2, Zenon DEF planned
  <2> QED BY <2>1, <2>2, Zenon DEF isIdle
<1>3. ASSUME NEW op1 \in Ops, NEW op2 \in Ops, NEW p1 \in Peers, NEW p2 \in Peers,
             planned(r, op1, p1), planned(r, op2, p2)
      PROVE  op1 = op2 /\ (op1 \in {"PersistentVolumeClaim", "Pod"} => p1 = p2)
  <2>1. \A p \in Peers :
          /\ atPVC(r, p) => ~haveAllPVCs(r) /\ ~haveAllPods(r) /\ ~inPhase(r, "")
          /\ haveAllPods(r) => ~lacksPod(p) /\ haveAllPVCs(r) /\ ~someOtherPod(r)
    BY Zenon DEF haveAllPods, haveAllPVCs, atPVC, lacksPod, isPending, inPhase
  <2>2. haveAllPVCs(r) => ~inPhase(r, "")
    BY Zenon DEF haveAllPVCs, isPending, inPhase
  <2>3. ~(anyFailed /\ allSuccess)
    BY DEF anyFailed, allSuccess
  <2>4. CASE atPVC(r, p1) \/ atPVC(r, p2)
    BY <1>3, <2>1, <2>4, FirstIsUnique, Zenon DEF planned
  <2>5. CASE lacksPod(p1) /\ lacksPod(p2)
    BY <1>3, <2>1, <2>2, <2>4, <2>5, FirstIsUnique, Zenon DEF planned
  <2> QED BY <1>3, <2>1, <2>2, <2>3, <2>4, <2>5, Zenon DEF planned
<1> QED BY <1>1, <1>2, <1>3
-----------------------------------------------------------------------------
(* The promise. *)

\* What RestorePromise takes for the sound restores.
Sound == {r \in Restores : undisturbed(r)}

\* Who is sound depends on the UIDs there are and on the pods that were lost.
LEMMA SoundKept ==
  ASSUME UNCHANGED lost, \A r \in Restores : isRestore(r, 1)' <=> isRestore(r, 1)
  PROVE  Sound' = Sound
<1>1. \A r \in Restores : undisturbed(r)' <=> undisturbed(r)
  BY DEF undisturbed
<1> QED BY <1>1 DEF Sound

\* What does not touch restores, claims, data and cluster keeps the promise.
LEMMA PromiseStutters ==
  ASSUME UNCHANGED <<restore, pvc, data, cluster, lost>>
  PROVE  UNCHANGED Promise!promiseVars
<1>1. Sound' = Sound
  BY SoundKept DEF isRestore
<1> QED BY <1>1 DEF Promise!promiseVars, Sound

\* A sound restore that makes the cluster or completes finds its snapshot on every
\* volume.
LEMMA SoundIsWhole ==
  ASSUME RestoreInv, NEW r \in Restores, undisturbed(r), succeeded(r)
  PROVE  \A p \in Peers : data[p] = restore[r].uid
<1> SUFFICES ASSUME NEW p \in Peers PROVE data[p] = restore[r].uid
  OBVIOUS
<1>1. pod[p] # None /\ pod[p].label = r /\ pod[p].state = "succeeded" /\ r # None
  BY Constants DEF succeeded
<1>2. made[r] = 1 /\ restore[r].uid = 1
  BY DEF RestoreInv, UIDsOfMade, undisturbed, isRestore
<1>3. pod[p].owner \in 1..1
  <2>1. pod[p].owner \in 1..made[pod[p].label]
    BY <1>1, Zenon DEF RestoreInv, UIDsOfMade
  <2> QED BY <1>1, <1>2, <2>1
<1>4. pod[p].owner = 1
  BY <1>3
<1> QED BY <1>1, <1>2, <1>4 DEF RestoreInv, AgentsWrite

\* A user makes a restore; it is sound in the first use of its name.
LEMMA CreateKeepsPromise ==
  ASSUME RestoreInv, NEW r \in Restores, create(r)
  PROVE  Promise!make(r)
<1>1. TypeOK /\ restore[r] = None /\ made[r] \in 0..MaxUID /\ made[r] < MaxUID
  BY DEF RestoreInv, TypeOK, create
<1>2. /\ restore' = [restore EXCEPT ![r] = [uid |-> made[r] + 1, phase |-> ""]]
      /\ UNCHANGED <<pvc, data, cluster, lost>>
  BY DEF create, writeRestore, volumeVars
<1>3. made[r] \in Nat /\ made[r] + 1 \in UIDs
  BY <1>1, Constants DEF UIDs
<1>4. \A q \in Restores \ {r} : undisturbed(q)' <=> undisturbed(q)
  BY <1>1, <1>2 DEF undisturbed, isRestore, TypeOK
<1>5. ~undisturbed(r)
  BY <1>1 DEF undisturbed, isRestore
<1>6. undisturbed(r)' => made[r] = 0
  <2>1. restore'[r].uid = made[r] + 1
    BY <1>1, <1>2 DEF TypeOK
  <2> QED BY <1>3, <2>1 DEF undisturbed, isRestore
<1>7. undisturbed(r)' => cluster # [label |-> r]
  <2>1. [label |-> r] \in Cluster /\ [label |-> r].label = r
    BY DEF Cluster, Labels
  <2> QED BY <1>6, <2>1, Constants DEF RestoreInv, UIDsOfMade
<1>8. \/ cluster # [label |-> r] /\ Sound' = Sound \cup {r}
      \/ Sound' = Sound
  BY <1>4, <1>5, <1>7 DEF Sound
<1>9. \E u \in UIDs : restore' = [restore EXCEPT ![r] = [uid |-> u, phase |-> ""]]
  BY <1>2, <1>3
<1> QED BY <1>1, <1>2, <1>8, <1>9 DEF Promise!make, Sound

\* UpdateStatus brings a restore to the phase that follows the one it has, and to
\* Completed only when the cluster is there.
LEMMA UpdateKeepsPromise ==
  ASSUME RestoreInv, execute, NEW r \in Restores, action.name = r, UpdateStatus(r)
  PROVE  Promise!Next \/ UNCHANGED Promise!promiseVars
<1>1. /\ TypeOK /\ action # None /\ action.seen \in Restore /\ action.op \in Ops
      /\ action.op \in Phases
  BY WellFormed DEF RestoreInv, TypeOK, execute, UpdateStatus
<1>2. UNCHANGED <<pvc, data, cluster, lost>>
  BY DEF execute, UpdateStatus
<1>3. CASE UNCHANGED restore
  BY <1>2, <1>3, PromiseStutters
<1>4. CASE /\ restore[r] = action.seen
           /\ restore' = [restore EXCEPT ![r] = [action.seen EXCEPT !.phase = action.op]]
  <2>1. restore[r] # None
    BY <1>1, <1>4, Constants
  <2>2. restore' = [restore EXCEPT ![r].phase = action.op]
    BY <1>4
  <2>3. /\ [action.seen EXCEPT !.phase = action.op].uid = restore[r].uid
        /\ [action.seen EXCEPT !.phase = action.op] # None
    <3>1. LET y == [action.seen EXCEPT !.phase = action.op] IN
            y \in Restore /\ y.uid = action.seen.uid /\ y.phase = action.op
      BY <1>1, WellFormed, Zenon
    <3>2. None \notin Restore
      BY Constants
    <3> QED BY <1>4, <3>1, <3>2, Zenon
  <2>4. restore'[r].uid = restore[r].uid /\ restore'[r] # None
    BY <1>1, <1>4, <2>3 DEF TypeOK
  <2>5. \A q \in Restores : isRestore(q, 1)' <=> isRestore(q, 1)
    BY <1>1, <1>4, <2>1, <2>4 DEF isRestore, TypeOK
  <2>6. Sound' = Sound
    BY <1>2, <2>5, SoundKept
  <2>7. Promise!enter(r, action.op)
    BY <1>2, <2>2, <2>6 DEF Promise!enter, Sound
  <2>8. restore[r].phase = (IF action.op = "Pending" THEN "" ELSE "Pending")
    BY <1>1, <1>4, Zenon DEF RestoreInv, DecidedInPhase
  <2>9. CASE action.op = "Pending"
    <3>1. Promise!begin(r)
      BY <2>1, <2>7, <2>8, <2>9, Zenon DEF Promise!begin
    <3> QED BY <3>1 DEF Promise!Next
  <2>10. CASE action.op = "Failed"
    <3>1. Promise!fail(r)
      BY <2>1, <2>7, <2>8, <2>10, Zenon DEF Promise!fail
    <3> QED BY <3>1 DEF Promise!Next
  <2>11. CASE action.op = "Completed"
    <3>1. claimed(r) /\ cluster # None
      BY <1>1, <2>11 DEF RestoreInv, ClaimsStand
    <3>2. undisturbed(r) => \A p \in Peers : data[p] = restore[r].uid
      BY <1>1, <2>11, SoundIsWhole DEF RestoreInv, SuccessStands
    <3>3. Promise!isClaimed(r)
      BY <3>1 DEF Promise!isClaimed, claimed
    <3>4. r \in {q \in Restores : undisturbed(q)} => Promise!isWhole(r)
      BY <3>2 DEF Promise!isWhole
    <3>5. restore[r].phase = "Pending"
      BY <2>8, <2>11, Zenon
    <3>6. Promise!complete(r)
      BY <2>1, <2>7, <2>11, <3>1, <3>3, <3>4, <3>5 DEF Promise!complete
    <3> QED BY <3>6 DEF Promise!Next
  <2> QED BY <1>1, <2>9, <2>10, <2>11, Zenon DEF Ops, Phases, Ended
<1> QED BY <1>3, <1>4 DEF UpdateStatus, writeRestore

\* An agent writes to a volume of its restore, and not to one that a sound restore
\* is done with.
LEMMA AgentKeepsPromise ==
  ASSUME RestoreInv, NEW p \in Peers, beginCopy(p) \/ finishCopy(p)
  PROVE  Promise!write(p)
<1>1. /\ TypeOK /\ runs(p) /\ pod[p] \in Pod /\ pod[p].label \in Restores
      /\ UNCHANGED <<restore, pvc, cluster, lost>>
  BY DEF RestoreInv, TypeOK, beginCopy, finishCopy, runs, Pod, Labels, apiVars, boundVars
<1>2. \E u \in UIDs \cup {None} : data' = [data EXCEPT ![p] = u]
  BY <1>1 DEF beginCopy, finishCopy, Pod
<1>3. pvc[p] = [label |-> pod[p].label]
  BY <1>1 DEF RestoreInv, ClaimsStand, claimed, runs
<1>4. ASSUME NEW r \in Restores, undisturbed(r) PROVE ~Promise!isDone(r)
  <2>1. ~succeeded(r)
    BY <1>1 DEF succeeded, runs
  <2> QED BY <1>4, <2>1 DEF Promise!isDone, RestoreInv, SuccessStands
<1>5. Sound' = Sound
  BY <1>1, SoundKept DEF isRestore
<1>6. \A r \in Sound : ~Promise!isDone(r)
  BY <1>4 DEF Sound
<1>7. \E r \in Restores : pvc[p] = [label |-> r]
  BY <1>1, <1>3
<1> QED BY <1>1, <1>2, <1>5, <1>6, <1>7 DEF Promise!write, Sound

\* Reconcile makes the cluster on volumes that are all claimed, and whole if the
\* restore is sound.
LEMMA ClusterKeepsPromise ==
  ASSUME RestoreInv, execute, CreateCluster(action.name)
  PROVE  Promise!form \/ UNCHANGED Promise!promiseVars
<1>1. action # None /\ action.name \in Restores /\ action.op = "EtcdCluster"
  BY WellFormed DEF RestoreInv, TypeOK, execute, CreateCluster
<1>2. UNCHANGED <<restore, pvc, data, lost>>
  BY DEF execute, CreateCluster
<1>3. CASE UNCHANGED cluster
  BY <1>2, <1>3, PromiseStutters
<1>4. CASE cluster = None /\ cluster' = [label |-> action.name]
  <2>1. claimed(action.name)
    BY <1>1 DEF RestoreInv, ClaimsStand
  <2>2. undisturbed(action.name) => \A p \in Peers : data[p] = restore[action.name].uid
    BY <1>1, SoundIsWhole DEF RestoreInv, SuccessStands
  <2>3. Promise!isClaimed(action.name)
    BY <2>1 DEF Promise!isClaimed, claimed
  <2>4. action.name \in Sound => Promise!isWhole(action.name)
    BY <2>2 DEF Promise!isWhole, Sound
  <2>5. Sound' = Sound
    BY <1>2, SoundKept DEF isRestore
  <2> QED BY <1>1, <1>2, <1>4, <2>3, <2>4, <2>5 DEF Promise!form, Sound
<1> QED BY <1>3, <1>4 DEF CreateCluster, createCluster

\* Every step of users, API server, controller and agents keeps the promise.
LEMMA StepKeepsPromise ==
  ASSUME RestoreInv, [Next]_vars
  PROVE  [Promise!Next]_Promise!promiseVars
<1>0. TypeOK
  BY DEF RestoreInv
<1>1. ASSUME NEW r \in Restores, create(r) PROVE Promise!Next
  BY <1>1, CreateKeepsPromise DEF Promise!Next
<1>2. ASSUME NEW r \in Restores, delete(r) PROVE Promise!Next
  <2>1. /\ restore[r] # None /\ restore' = [restore EXCEPT ![r] = None]
        /\ UNCHANGED <<pvc, data, cluster, lost>>
    BY <1>2 DEF delete, writeRestore, volumeVars
  <2>2. ~undisturbed(r)' /\ \A q \in Restores \ {r} : undisturbed(q)' <=> undisturbed(q)
    BY <1>0, <2>1 DEF undisturbed, isRestore, TypeOK
  <2>3. Sound' = Sound \ {r}
    BY <2>2 DEF Sound
  <2>4. Promise!remove(r)
    BY <2>1, <2>3 DEF Promise!remove, Sound
  <2> QED BY <2>4 DEF Promise!Next
<1>3. ASSUME NEW p \in Peers, NEW l \in Labels, pvc[p] = None, createPVC(p, l),
             UNCHANGED <<restore, data, cluster, lost>>
      PROVE  Promise!Next
  <2>1. Sound' = Sound
    BY <1>3, SoundKept DEF isRestore
  <2>2. Promise!take(p)
    BY <1>3, <2>1 DEF Promise!take, Sound, createPVC, Labels
  <2> QED BY <2>2 DEF Promise!Next
<1>4. CASE execute
  <2>1. /\ action # None /\ action.name \in Restores /\ action.peer \in Peers
        /\ UNCHANGED lost
    BY <1>0, <1>4, WellFormed DEF TypeOK, execute
  <2>2. CASE CreatePVC(action.name, action.peer)
    <3>1. CASE UNCHANGED pvc
      BY <2>1, <2>2, <3>1, PromiseStutters DEF CreatePVC
    <3>2. CASE pvc[action.peer] = None /\ createPVC(action.peer, action.name)
      BY <1>3, <2>1, <2>2, <3>2 DEF CreatePVC, Labels
    <3> QED BY <2>2, <3>1, <3>2 DEF CreatePVC
  <2>3. CASE CreatePod(action.name, action.peer)
    BY <2>1, <2>3, PromiseStutters DEF CreatePod
  <2>4. CASE CreateCluster(action.name)
    BY <1>4, <2>4, ClusterKeepsPromise DEF Promise!Next
  <2>5. CASE UpdateStatus(action.name)
    BY <1>4, <2>1, <2>5, UpdateKeepsPromise
  <2> QED BY <1>4, <2>2, <2>3, <2>4, <2>5 DEF execute
<1>5. ASSUME NEW p \in Peers, beginCopy(p) \/ finishCopy(p) PROVE Promise!Next
  BY <1>5, AgentKeepsPromise DEF Promise!Next
<1>6. ASSUME NEW p \in Peers, losePod(p) PROVE Promise!Next
  <2>1. UNCHANGED <<restore, pvc, data, cluster>> /\ lost'
    BY <1>6 DEF losePod
  <2>2. Sound' = {}
    BY <2>1 DEF Sound, undisturbed
  <2>3. Promise!loseTrack
    BY <2>1, <2>2 DEF Promise!loseTrack, Sound
  <2> QED BY <2>3 DEF Promise!Next
<1>7. ASSUME NEW p \in Peers, createOtherPVC(p) PROVE Promise!Next
  <2>1. /\ pvc[p] = None /\ createPVC(p, None) /\ None \in Labels
        /\ UNCHANGED <<restore, data, cluster, lost>>
    BY <1>7 DEF createOtherPVC, volumeVars, boundVars, Labels
  <2> QED BY <1>3, <2>1
<1>8. CASE createOtherCluster
  <2>1. /\ cluster = None /\ cluster' = [label |-> None]
        /\ UNCHANGED <<restore, pvc, data, lost>>
    BY <1>8 DEF createOtherCluster, createCluster, volumeVars
  <2>2. Sound' = Sound
    BY <2>1, SoundKept DEF isRestore
  <2>3. Promise!form
    BY <2>1, <2>2 DEF Promise!form, Sound
  <2> QED BY <2>3 DEF Promise!Next
<1>9. ASSUME NEW p \in Peers, fail(p) \/ collectPod(p) \/ loseNode(p)
      PROVE  UNCHANGED <<restore, pvc, data, cluster, lost>>
  BY <1>9 DEF fail, collectPod, loseNode, volumeVars, boundVars
<1>10. ASSUME \/ restart \/ UNCHANGED vars
              \/ \E r \in Restores : Reconcile(r)
              \/ \E kind \in Kinds : sync(kind)
       PROVE  UNCHANGED <<restore, pvc, data, cluster, lost>>
  BY <1>10 DEF restart, vars, Reconcile, ignore, decide, begin, sync, apiVars, volumeVars, boundVars
<1> QED BY <1>1, <1>2, <1>4, <1>5, <1>6, <1>7, <1>8, <1>9, <1>10, PromiseStutters DEF Next, Agent

\* For any number of restores and any size of the cluster, whoever competes and
\* whatever is lost, controller and agents implement RestorePromise.
THEOREM PromiseTheorem == Spec => KeepsPromise
<1>1. Init => Promise!Init
  <2> SUFFICES ASSUME Init PROVE Promise!Init
    OBVIOUS
  <2>1. /\ restore = [r \in Restores |-> None] /\ cluster = None
        /\ data = [p \in Peers |-> None]
    BY DEF Init
  <2>2. pvc \in [Peers -> {None, [label |-> None]}]
    BY DEF Init, foreignPVC
  <2>3. Sound = {}
    BY <2>1 DEF Sound, undisturbed, isRestore
  <2> QED BY <2>1, <2>2, <2>3 DEF Promise!Init, Sound
<1>2. RestoreInv /\ [Next]_vars => [Promise!Next]_Promise!promiseVars
  BY StepKeepsPromise
<1>3. Spec => Promise!Spec
  BY <1>1, <1>2, RestoreInvariant, PTL DEF Spec, Promise!Spec
<1> QED BY <1>3 DEF KeepsPromise
=============================================================================
