---------------------------- MODULE BackupProofs ----------------------------
(***************************************************************************)
(* BackupInv is an invariant of EtcdBackup, for any names, UIDs and faults; *)
(* it entails that a backup that is Completed has a snapshot, that its      *)
(* phase does not go back, and that EtcdBackup implements BackupPromise.    *)
(***************************************************************************)
EXTENDS EtcdBackup, TLAPS

\* None is no object of any kind, and the bounds are numbers.
LEMMA Constants ==
  /\ MaxUID \in Nat /\ MaxFaults \in Nat
  /\ None \notin EtcdBackup /\ None \notin Action /\ None \notin UIDs /\ None \notin Pod
BY BackupAssumption

\* What is written of a backup and of a pod is well formed.
LEMMA WellFormed ==
  /\ \A x \in EtcdBackup, phase \in Phases : [x EXCEPT !.phase = phase] \in EtcdBackup
  /\ \A x \in EtcdBackup : [x EXCEPT !.deleting = TRUE] \in EtcdBackup
  /\ \A u \in UIDs, parses \in BOOLEAN :
       [uid |-> u, parses |-> parses, phase |-> "", deleting |-> FALSE] \in EtcdBackup
  /\ \A x \in Pod, state \in {"running", "succeeded", "failed"} :
       [x EXCEPT !.state = state] \in Pod
<1>1. \A x \in EtcdBackup, phase \in Phases : [x EXCEPT !.phase = phase] \in EtcdBackup
  BY DEF EtcdBackup
<1>2. \A x \in EtcdBackup : [x EXCEPT !.deleting = TRUE] \in EtcdBackup
  BY DEF EtcdBackup
<1>3. \A u \in UIDs, parses \in BOOLEAN :
        [uid |-> u, parses |-> parses, phase |-> "", deleting |-> FALSE] \in EtcdBackup
  BY DEF EtcdBackup, Phases
<1>4. \A x \in Pod, state \in {"running", "succeeded", "failed"} :
        [x EXCEPT !.state = state] \in Pod
  BY DEF Pod
<1> QED BY <1>1, <1>2, <1>3, <1>4

\* A step writes well-formed objects only.
LEMMA TypeStep == TypeOK /\ CallOfRunningPod /\ [Next]_vars => TypeOK'
<1> SUFFICES ASSUME TypeOK, CallOfRunningPod, [Next]_vars PROVE TypeOK'
  OBVIOUS
<1> USE Constants DEF TypeOK
<1>1. ASSUME NEW b \in Names, create(b) PROVE TypeOK'
  <2>1. made[b] \in 0..MaxUID /\ made[b] < MaxUID /\ made' = [made EXCEPT ![b] = made[b] + 1]
    BY <1>1 DEF create
  <2>2. made[b] + 1 \in UIDs /\ made' \in [Names -> 0..MaxUID]
    BY <2>1 DEF UIDs
  <2>3. PICK parses \in BOOLEAN :
          writeBackup(b, [uid |-> made[b] + 1, parses |-> parses, phase |-> "", deleting |-> FALSE])
    BY <1>1, Zenon DEF create
  <2> DEFINE new == [uid |-> made[b] + 1, parses |-> parses, phase |-> "", deleting |-> FALSE]
  <2>4. new \in EtcdBackup
    BY <2>2, WellFormed, Zenon
  <2>5. writeBackup(b, new)
    BY <2>3
  <2> HIDE DEF new
  <2>6. backup' \in [Names -> EtcdBackup \cup {None}] /\ unseen' \subseteq Kinds \X Names
    BY <2>4, <2>5 DEF writeBackup, Kinds
  <2>7. UNCHANGED faults \/ (faults < MaxFaults /\ faults' = faults + 1)
    BY <1>1, Zenon DEF create
  <2>8. faults' \in 0..MaxFaults
    BY <2>7
  <2>9. UNCHANGED <<serviceAccount, pod, cacheVars, queued, action, storeVars>>
    BY <1>1, Zenon DEF create
  <2> QED BY <2>2, <2>6, <2>8, <2>9 DEF cacheVars, storeVars
<1>2. ASSUME NEW b \in Names, delete(b) PROVE TypeOK'
  <2>1. [backup[b] EXCEPT !.deleting = TRUE] \in EtcdBackup
    BY <1>2, WellFormed DEF delete
  <2>2. backup' \in [Names -> EtcdBackup \cup {None}] /\ unseen' \subseteq Kinds \X Names
    BY <1>2, <2>1 DEF delete, writeBackup, Kinds
  <2> QED BY <1>2, <2>2 DEF delete, cacheVars, storeVars, boundVars
<1>3. ASSUME NEW b \in Names, Collect(b) PROVE TypeOK'
  <2>1. hangUp(b) \subseteq Upload
    BY DEF hangUp, Upload
  <2> QED BY <1>3, <2>1 DEF Collect, collectBackup, collectServiceAccount, collectPod, Kinds,
             writeBackup, writeServiceAccount, writePod, cacheVars, storeVars, boundVars
<1>4. ASSUME NEW b \in Names, Sync(b) PROVE TypeOK'
  BY <1>4 DEF Sync, syncBackup, syncServiceAccount, syncPod, storeVars, boundVars
<1>5. ASSUME NEW b \in Names, Reconcile(b) PROVE TypeOK'
  <2> USE DEF apiVars, cacheVars, storeVars, boundVars
  <2>1. CASE failGetState(b) \/ ignore(b)
    BY <2>1 DEF failGetState, ignore, begin
  <2>2. CASE decide(b)
    <3>1. cachedBackup[b] # None
      BY <2>2 DEF decide, planned, inPhase, hasPod, hasState
    <3>2. cachedBackup[b] \in EtcdBackup
      BY <3>1
    <3>3. \A op \in Ops : plan(b, op) \in Action
      BY <3>2 DEF plan, Action, EtcdBackup
    <3> QED BY <2>2, <3>3 DEF decide, begin
  <2> QED BY <1>5, <2>1, <2>2 DEF Reconcile
<1>6. CASE Execute
  <2>1. action \in Action
    BY <1>6 DEF Execute
  <2>2. action.name \in Names /\ action.uid \in UIDs /\ action.op \in Ops
    BY <2>1 DEF Action
  <2>3. UNCHANGED <<cacheVars, storeVars, made>> /\ action' = None
    BY <1>6 DEF Execute
  <2>4. succeeds \/ isRefused \/ isLost => queued' \subseteq Names /\ faults' \in 0..MaxFaults
    BY <2>2 DEF succeeds, isRefused, isLost, retry
  <2>5. CASE CreateServiceAccount(action.name)
    <3>1. serviceAccount' \in [Names -> UIDs \cup {None}] /\ unseen' \subseteq Kinds \X Names
      BY <2>2, <2>5 DEF CreateServiceAccount, writeServiceAccount, Kinds, isRefused
    <3> QED BY <2>3, <2>4, <2>5, <3>1 DEF CreateServiceAccount, cacheVars, storeVars
  <2>6. CASE CreatePod(action.name)
    <3>1. [owner |-> action.uid, state |-> "running"] \in Pod
      BY <2>2 DEF Pod
    <3>2. pod' \in [Names -> Pod \cup {None}] /\ unseen' \subseteq Kinds \X Names
      BY <2>2, <2>6, <3>1 DEF CreatePod, writePod, Kinds, isRefused
    <3> QED BY <2>3, <2>4, <2>6, <3>2 DEF CreatePod, cacheVars, storeVars
  <2>7. CASE PatchStatus(action.name)
    <3>1. backup[action.name] # None => [backup[action.name] EXCEPT !.phase = action.op] \in EtcdBackup
      BY <2>2, <2>7, WellFormed DEF PatchStatus
    <3>2. backup' \in [Names -> EtcdBackup \cup {None}] /\ unseen' \subseteq Kinds \X Names
      BY <2>2, <2>7, <3>1 DEF PatchStatus, writeBackup, Kinds, isRefused
    <3> QED BY <2>3, <2>4, <2>7, <3>2 DEF PatchStatus, cacheVars, storeVars
  <2> QED BY <1>6, <2>5, <2>6, <2>7 DEF Execute
<1>7. ASSUME NEW b \in Names, Agent(b) \/ losePod(b) PROVE TypeOK'
  <2> USE DEF cacheVars, boundVars
  <2>1. hangUp(b) \subseteq Upload
    BY DEF hangUp, Upload
  <2>2. CASE saveAndUpload(b)
    <3>1. pod[b].owner \in UIDs
      BY <2>2 DEF saveAndUpload, Pod
    <3>2. [name |-> b, uid |-> pod[b].owner, agent |-> TRUE] \in Upload
      BY <3>1 DEF Upload
    <3> QED BY <2>2, <3>2 DEF saveAndUpload, apiVars
  <2>3. CASE fail(b)
    <3>1. [pod[b] EXCEPT !.state = "failed"] \in Pod
      BY <2>3, WellFormed DEF fail
    <3> QED BY <2>1, <2>3, <3>1 DEF fail, setState, writePod, Kinds
  <2>4. CASE losePod(b)
    BY <2>1, <2>4 DEF losePod, writePod, Kinds
  <2> QED BY <1>7, <2>2, <2>3, <2>4 DEF Agent
<1>8. ASSUME NEW r \in uploads, storeObject(r) \/ refuseObject(r) PROVE TypeOK'
  <2>1. r.name \in Names /\ r.uid \in UIDs
    BY DEF Upload
  <2>2. ASSUME NEW state \in {"running", "succeeded", "failed"}, answer(r, state)
        PROVE  pod' \in [Names -> Pod \cup {None}] /\ unseen' \subseteq Kinds \X Names
    <3>1. CASE ~r.agent
      BY <2>2, <3>1 DEF answer
    <3>2. CASE r.agent
      <4>1. pod[r.name] \in Pod
        BY <2>1, <3>2 DEF CallOfRunningPod
      <4>2. [pod[r.name] EXCEPT !.state = state] \in Pod
        BY <4>1, WellFormed
      <4> QED BY <2>1, <2>2, <3>2, <4>2 DEF answer, setState, writePod, Kinds
    <3> QED BY <3>1, <3>2
  <2> QED BY <1>8, <2>1, <2>2 DEF storeObject, refuseObject, cacheVars, boundVars
<1>9. CASE restart
  BY <1>9 DEF restart, storeVars
<1>10. CASE UNCHANGED vars
  BY <1>10 DEF vars, apiVars, cacheVars, storeVars, boundVars
<1> QED BY <1>1, <1>2, <1>3, <1>4, <1>5, <1>6, <1>7, <1>8, <1>9, <1>10 DEF Next, Proxy

\* What create does, for the provers that do not deal with BOOLEAN.
LEMMA CreateEffect ==
  ASSUME TypeOK, NEW b \in Names, create(b)
  PROVE  /\ backup[b] = None
         /\ made' = [made EXCEPT ![b] = made[b] + 1]
         /\ \E new \in EtcdBackup :
              new.uid = made[b] + 1 /\ new.phase = "" /\ backup' = [backup EXCEPT ![b] = new]
         /\ UNCHANGED <<pod, cachedBackup, cachedPod, action, uploads, bucket>>
<1>1. made[b] + 1 \in UIDs
  <2>1. made[b] \in 0..MaxUID /\ made[b] < MaxUID
    BY DEF create, TypeOK
  <2> QED BY <2>1, Constants DEF UIDs
<1>2. PICK parses \in BOOLEAN :
        writeBackup(b, [uid |-> made[b] + 1, parses |-> parses, phase |-> "", deleting |-> FALSE])
  BY Zenon DEF create
<1> DEFINE new == [uid |-> made[b] + 1, parses |-> parses, phase |-> "", deleting |-> FALSE]
<1>3. new \in EtcdBackup
  BY <1>1, WellFormed, Zenon
<1>4. new.uid = made[b] + 1 /\ new.phase = ""
  OBVIOUS
<1>5. backup' = [backup EXCEPT ![b] = new]
  BY <1>2, Zenon DEF writeBackup
<1>6. made' = [made EXCEPT ![b] = made[b] + 1] /\ backup[b] = None
  BY Zenon DEF create
<1>7. UNCHANGED <<pod, cachedBackup, cachedPod, action, uploads, bucket>>
  BY Zenon DEF create, cacheVars, storeVars
<1> HIDE DEF new
<1> QED BY <1>3, <1>4, <1>5, <1>6, <1>7

\* An answer of the proxy ends the pod that waits for it, if there is one.
LEMMA AnswerEffect ==
  ASSUME TypeOK, CallOfRunningPod, NEW r \in uploads, NEW state, answer(r, state)
  PROVE  \/ ~r.agent /\ UNCHANGED pod
         \/ /\ r.agent /\ pod[r.name] = [owner |-> r.uid, state |-> "running"]
            /\ pod' = [pod EXCEPT ![r.name] = [owner |-> r.uid, state |-> state]]
<1>1. CASE ~r.agent
  BY <1>1 DEF answer
<1>2. CASE r.agent
  <2>1. pod[r.name] = [owner |-> r.uid, state |-> "running"]
    BY <1>2 DEF CallOfRunningPod
  <2>2. [pod[r.name] EXCEPT !.state = state] = [owner |-> r.uid, state |-> state]
    BY <2>1
  <2> QED BY <1>2, <2>1, <2>2 DEF answer, setState, writePod
<1> QED BY <1>1, <1>2

\* A step keeps to the backups that have been made.
LEMMA UIDsStep ==
  TypeOK /\ CallOfRunningPod /\ UIDsOfMade /\ [Next]_vars => UIDsOfMade'
<1> SUFFICES ASSUME TypeOK, CallOfRunningPod, UIDsOfMade, [Next]_vars PROVE UIDsOfMade'
  OBVIOUS
<1> USE Constants DEF TypeOK, UIDsOfMade
<1>0. \A b \in Names :
        made[b] \in Nat /\ (backup[b] # None => backup[b].uid \in 1..made[b])
  BY DEF EtcdBackup, UIDs
<1>1. ASSUME NEW b \in Names, create(b) PROVE UIDsOfMade'
  <2>1. PICK new \in EtcdBackup :
          new.uid = made[b] + 1 /\ backup' = [backup EXCEPT ![b] = new]
    BY <1>1, CreateEffect
  <2>2. /\ made' = [made EXCEPT ![b] = made[b] + 1]
        /\ UNCHANGED <<pod, cachedBackup, action, uploads, bucket>>
    BY <1>1, CreateEffect
  <2>3. \A c \in Names : made'[c] \in Nat /\ made'[c] >= made[c]
    BY <1>0, <2>2
  <2>4. \A r \in uploads : r.name \in Names
    BY DEF Upload
  <2>5. action # None => action.name \in Names
    BY DEF Action
  <2>6. \A c \in Names : backup'[c] # None => backup'[c].uid = made'[c]
    BY <2>1, <2>2
  <2> QED BY <2>2, <2>3, <2>4, <2>5, <2>6
<1>2. ASSUME NEW b \in Names, delete(b) PROVE UIDsOfMade'
  BY <1>2 DEF delete, writeBackup, cacheVars, storeVars, boundVars
<1>3. ASSUME NEW b \in Names, Collect(b) PROVE UIDsOfMade'
  <2>1. \A r \in hangUp(b) : \E q \in uploads : r.uid = q.uid /\ r.name = q.name
    BY DEF hangUp, Upload
  <2> QED BY <1>3, <2>1 DEF Collect, collectBackup, collectServiceAccount, collectPod,
             writeBackup, writeServiceAccount, writePod, cacheVars, storeVars, boundVars
<1>4. ASSUME NEW b \in Names, Sync(b) PROVE UIDsOfMade'
  BY <1>0, <1>4 DEF Sync, syncBackup, syncServiceAccount, syncPod, storeVars, boundVars
<1>5. ASSUME NEW b \in Names, Reconcile(b) PROVE UIDsOfMade'
  <2> USE DEF apiVars, cacheVars, storeVars, boundVars
  <2>1. CASE failGetState(b) \/ ignore(b)
    BY <2>1 DEF failGetState, ignore, begin
  <2>2. CASE decide(b)
    <3>1. cachedBackup[b] # None
      BY <2>2 DEF decide, planned, inPhase, hasPod, hasState
    <3>2. \A op \in Ops : plan(b, op).uid = cachedBackup[b].uid /\ plan(b, op).name = b
      BY DEF plan
    <3> QED BY <2>2, <3>1, <3>2 DEF decide, begin
  <2> QED BY <1>5, <2>1, <2>2 DEF Reconcile
<1>6. CASE Execute
  <2>1. action # None /\ action.name \in Names /\ action.uid \in 1..made[action.name]
    BY <1>6 DEF Execute, Action
  <2>2. UNCHANGED <<cacheVars, storeVars, made>> /\ action' = None
    BY <1>6 DEF Execute
  <2>3. CASE CreateServiceAccount(action.name)
    BY <2>2, <2>3 DEF CreateServiceAccount, cacheVars, storeVars
  <2>4. CASE CreatePod(action.name)
    BY <2>1, <2>2, <2>4 DEF CreatePod, writePod, cacheVars, storeVars
  <2>5. CASE PatchStatus(action.name)
    BY <2>1, <2>2, <2>5 DEF PatchStatus, writeBackup, cacheVars, storeVars, EtcdBackup
  <2> QED BY <1>6, <2>3, <2>4, <2>5 DEF Execute
<1>7. ASSUME NEW b \in Names, Agent(b) \/ losePod(b) PROVE UIDsOfMade'
  <2>1. \A r \in hangUp(b) : \E q \in uploads : r.uid = q.uid /\ r.name = q.name
    BY DEF hangUp, Upload
  <2> QED BY <1>7, <2>1 DEF Agent, saveAndUpload, fail, losePod, setState, writePod, Pod,
             apiVars, cacheVars, storeVars, boundVars
<1>8. ASSUME NEW r \in uploads, storeObject(r) \/ refuseObject(r) PROVE UIDsOfMade'
  <2>1. r.name \in Names /\ r.uid \in UIDs /\ r.uid \in 1..made[r.name]
    BY DEF Upload
  <2>2. \A b \in Names : pod'[b] # None => pod[b] # None /\ pod'[b].owner = pod[b].owner
    <3>1. PICK state : answer(r, state)
      BY <1>8 DEF storeObject, refuseObject
    <3>2. CASE UNCHANGED pod
      BY <3>2
    <3>3. CASE /\ pod[r.name] = [owner |-> r.uid, state |-> "running"]
               /\ pod' = [pod EXCEPT ![r.name] = [owner |-> r.uid, state |-> state]]
      <4>1. pod[r.name] \in Pod
        BY <2>1, <3>3 DEF Pod
      <4> QED BY <2>1, <3>3, <4>1
    <3> QED BY <3>1, <3>2, <3>3, AnswerEffect
  <2> QED BY <1>8, <2>1, <2>2 DEF storeObject, refuseObject, cacheVars, boundVars
<1>9. CASE restart
  BY <1>0, <1>9 DEF restart, storeVars
<1>10. CASE UNCHANGED vars
  BY <1>10 DEF vars, apiVars, cacheVars, storeVars, boundVars
<1> QED BY <1>1, <1>2, <1>3, <1>4, <1>5, <1>6, <1>7, <1>8, <1>9, <1>10 DEF Next, Proxy

\* Hanging up leaves the calls of the other names.
LEMMA HangUpEffect ==
  ASSUME TypeOK, NEW b \in Names, NEW r \in hangUp(b)
  PROVE  \E q \in uploads : r.uid = q.uid /\ r.name = q.name /\ (r.agent => q.agent /\ r.name # b)
<1>1. PICK q \in uploads : r = [q EXCEPT !.agent = q.agent /\ q.name # b]
  BY DEF hangUp
<1>2. r.uid = q.uid /\ r.name = q.name /\ r.agent = (q.agent /\ q.name # b)
  BY <1>1 DEF TypeOK, Upload
<1> QED BY <1>2

\* A step leaves no agent waiting that does not run.
LEMMA CallStep ==
  TypeOK /\ CallOfRunningPod /\ [Next]_vars => CallOfRunningPod'
<1> SUFFICES ASSUME TypeOK, CallOfRunningPod, [Next]_vars PROVE CallOfRunningPod'
  OBVIOUS
<1> USE Constants DEF TypeOK
<1>1. CASE UNCHANGED <<pod, uploads>>
  BY <1>1 DEF CallOfRunningPod
<1>2. ASSUME NEW b \in Names, create(b) PROVE CallOfRunningPod'
  BY <1>1, <1>2, CreateEffect
<1>3. ASSUME NEW b \in Names, delete(b) \/ Sync(b) \/ Reconcile(b) PROVE UNCHANGED <<pod, uploads>>
  BY <1>3 DEF delete, Sync, syncBackup, syncServiceAccount, syncPod, Reconcile, failGetState,
              ignore, decide, begin, apiVars, storeVars
<1>4. ASSUME NEW b \in Names, pod' = [pod EXCEPT ![b] = None] \/ setState(b, "failed"),
             uploads' = hangUp(b)
      PROVE  CallOfRunningPod'
  <2> SUFFICES ASSUME NEW r \in hangUp(b), r.agent
               PROVE  pod'[r.name] # None /\ pod'[r.name] = [owner |-> r.uid, state |-> "running"]
    BY <1>4 DEF CallOfRunningPod
  <2>1. PICK q \in uploads : r.uid = q.uid /\ r.name = q.name /\ q.agent /\ r.name # b
    BY HangUpEffect
  <2>2. pod'[r.name] = pod[r.name]
    BY <1>4, <2>1 DEF setState, writePod, Upload
  <2> QED BY <2>1, <2>2 DEF CallOfRunningPod
<1>5. ASSUME NEW b \in Names, Collect(b) PROVE CallOfRunningPod'
  BY <1>1, <1>4, <1>5 DEF Collect, collectBackup, collectServiceAccount, collectPod,
                          writePod, storeVars
<1>6. CASE Execute
  <2>1. action.name \in Names /\ UNCHANGED uploads
    BY <1>6 DEF Execute, Action, storeVars
  <2>2. CASE CreatePod(action.name)
    <3>1. CASE UNCHANGED pod
      BY <1>1, <2>1, <3>1
    <3>2. CASE pod[action.name] = None /\ writePod(action.name, [owner |-> action.uid, state |-> "running"])
      <4>1. \A r \in uploads : r.agent => pod'[r.name] = pod[r.name]
        BY <2>1, <3>2 DEF CallOfRunningPod, writePod, Upload
      <4> QED BY <2>1, <4>1 DEF CallOfRunningPod
    <3> QED BY <2>2, <3>1, <3>2 DEF CreatePod
  <2>3. CASE CreateServiceAccount(action.name) \/ PatchStatus(action.name)
    BY <1>1, <2>1, <2>3 DEF CreateServiceAccount, PatchStatus
  <2> QED BY <1>6, <2>2, <2>3 DEF Execute
<1>7. ASSUME NEW b \in Names, saveAndUpload(b) PROVE CallOfRunningPod'
  <2>1. pod[b] \in Pod /\ pod[b].state = "running"
    BY <1>7 DEF saveAndUpload
  <2>2. pod[b] = [owner |-> pod[b].owner, state |-> "running"]
    BY <2>1 DEF Pod
  <2> QED BY <1>7, <2>1, <2>2 DEF saveAndUpload, CallOfRunningPod, apiVars
<1>8. ASSUME NEW b \in Names, fail(b) \/ losePod(b) PROVE CallOfRunningPod'
  BY <1>4, <1>8 DEF fail, losePod, writePod
<1>9. ASSUME NEW r \in uploads, storeObject(r) \/ refuseObject(r) PROVE CallOfRunningPod'
  <2>1. PICK state : answer(r, state)
    BY <1>9 DEF storeObject, refuseObject
  <2> SUFFICES ASSUME NEW q \in uploads, q # r, q.agent
               PROVE  pod'[q.name] # None /\ pod'[q.name] = [owner |-> q.uid, state |-> "running"]
    BY <1>9 DEF storeObject, refuseObject, CallOfRunningPod
  <2>2. pod[q.name] # None /\ pod[q.name] = [owner |-> q.uid, state |-> "running"]
    BY DEF CallOfRunningPod
  <2>3. CASE UNCHANGED pod
    BY <2>2, <2>3
  <2>4. CASE /\ r.agent /\ pod[r.name] = [owner |-> r.uid, state |-> "running"]
             /\ pod' = [pod EXCEPT ![r.name] = [owner |-> r.uid, state |-> state]]
    <3>1. q.name # r.name
      <4>1. CASE q.name = r.name
        <5>1. q.uid = r.uid
          BY <2>2, <2>4, <4>1
        <5>2. q = r
          BY <2>4, <4>1, <5>1 DEF Upload
        <5> QED BY <5>2
      <4> QED BY <4>1
    <3> QED BY <2>2, <2>4, <3>1 DEF Upload
  <2> QED BY <2>1, <2>3, <2>4, AnswerEffect
<1>10. CASE restart \/ UNCHANGED vars
  BY <1>1, <1>10 DEF restart, storeVars, vars, apiVars
<1> QED BY <1>1, <1>2, <1>3, <1>5, <1>6, <1>7, <1>8, <1>9, <1>10 DEF Next, Proxy, Agent

\* A step claims no success of a snapshot that is not stored.
LEMMA SuccessStep ==
  TypeOK /\ UIDsOfMade /\ CallOfRunningPod /\ SuccessIsStored /\ [Next]_vars => SuccessIsStored'
<1> SUFFICES ASSUME TypeOK, UIDsOfMade, CallOfRunningPod, SuccessIsStored, [Next]_vars
             PROVE  SuccessIsStored'
  OBVIOUS
<1> USE Constants DEF TypeOK
<1>0. \A b \in Names : pod[b] # None /\ pod[b].state = "succeeded" => isStored(b)
  BY DEF SuccessIsStored, isStored, Pod
<1>1. ASSUME NEW b \in Names, create(b) PROVE SuccessIsStored'
  <2>1. PICK new \in EtcdBackup : new.phase = "" /\ backup' = [backup EXCEPT ![b] = new]
    BY <1>1, CreateEffect
  <2>2. UNCHANGED <<pod, cachedPod, action, bucket>>
    BY <1>1, CreateEffect
  <2> QED BY <2>1, <2>2 DEF SuccessIsStored, isStored
<1>2. ASSUME NEW b \in Names, delete(b) PROVE SuccessIsStored'
  <2>1. backup[b] \in EtcdBackup
    BY <1>2 DEF delete
  <2>2. [backup[b] EXCEPT !.deleting = TRUE].phase = backup[b].phase
    BY <2>1 DEF EtcdBackup
  <2> QED BY <1>2, <2>1, <2>2
          DEF delete, writeBackup, SuccessIsStored, isStored, cacheVars, storeVars
<1>3. ASSUME NEW b \in Names, Collect(b) PROVE SuccessIsStored'
  BY <1>3 DEF Collect, collectBackup, collectServiceAccount, collectPod, writeBackup,
              writeServiceAccount, writePod, SuccessIsStored, isStored, cacheVars, storeVars
<1>4. ASSUME NEW b \in Names, Sync(b) PROVE SuccessIsStored'
  BY <1>0, <1>4 DEF Sync, syncBackup, syncServiceAccount, syncPod, SuccessIsStored, isStored, storeVars
<1>5. ASSUME NEW b \in Names, Reconcile(b) PROVE SuccessIsStored'
  <2> USE DEF apiVars, cacheVars, storeVars, SuccessIsStored, isStored
  <2>1. CASE failGetState(b) \/ ignore(b)
    BY <2>1 DEF failGetState, ignore, begin
  <2>2. CASE decide(b)
    <3>1. PICK op \in Ops : planned(b, op) /\ action' = plan(b, op)
      BY <2>2 DEF decide
    <3>2. action'.op = op /\ action'.name = b
      BY <3>1 DEF plan
    <3>3. op = "Completed" => isStored(b)
      BY <3>1 DEF planned, hasPod
    <3> QED BY <2>2, <3>2, <3>3 DEF decide, begin
  <2> QED BY <1>5, <2>1, <2>2 DEF Reconcile
<1>6. CASE Execute
  <2>1. action # None /\ action.name \in Names
    BY <1>6 DEF Execute, Action
  <2>2. UNCHANGED <<cachedPod, bucket>> /\ action' = None
    BY <1>6 DEF Execute, cacheVars, storeVars
  <2>3. CASE CreateServiceAccount(action.name)
    BY <2>2, <2>3 DEF CreateServiceAccount, SuccessIsStored, isStored
  <2>4. CASE CreatePod(action.name)
    <3>1. \A b \in Names : pod'[b] # None /\ pod'[b].state = "succeeded" => pod'[b] = pod[b]
      BY <2>1, <2>4 DEF CreatePod, writePod
    <3> QED BY <2>2, <2>4, <3>1 DEF CreatePod, SuccessIsStored, isStored
  <2>5. CASE PatchStatus(action.name)
    <3>1. backup[action.name] # None =>
            backup[action.name] \in EtcdBackup /\ [backup[action.name] EXCEPT !.phase = action.op].phase = action.op
      BY <2>1 DEF EtcdBackup
    <3>2. \A b \in Names :
            \/ backup'[b] = backup[b]
            \/ b = action.name /\ backup'[b].phase = action.op
      BY <2>1, <2>5, <3>1 DEF PatchStatus, writeBackup
    <3> QED BY <2>1, <2>2, <2>5, <3>2 DEF PatchStatus, SuccessIsStored, isStored
  <2> QED BY <1>6, <2>3, <2>4, <2>5 DEF Execute
<1>7. ASSUME NEW b \in Names, Agent(b) \/ losePod(b) PROVE SuccessIsStored'
  <2>1. pod[b] # None => [pod[b] EXCEPT !.state = "failed"].state = "failed"
    BY DEF Pod
  <2> QED BY <1>7, <2>1 DEF Agent, saveAndUpload, fail, losePod, setState, writePod,
             SuccessIsStored, isStored, apiVars, cacheVars
<1>8. ASSUME NEW r \in uploads, storeObject(r) \/ refuseObject(r) PROVE SuccessIsStored'
  <2>1. r.name \in Names /\ r.uid \in UIDs
    BY DEF Upload
  <2>2. bucket \subseteq bucket' /\ UNCHANGED <<backup, cachedPod, action>>
    BY <1>8 DEF storeObject, refuseObject, cacheVars
  <2>3. \A b \in Names :
          pod'[b] # None /\ pod'[b].state = "succeeded" => <<b, pod'[b].owner>> \in bucket'
    <3>1. CASE storeObject(r)
      <4>1. <<r.name, r.uid>> \in bucket' /\ answer(r, "succeeded")
        BY <3>1 DEF storeObject
      <4>2. CASE UNCHANGED pod
        BY <2>2, <4>2 DEF SuccessIsStored
      <4>3. CASE pod' = [pod EXCEPT ![r.name] = [owner |-> r.uid, state |-> "succeeded"]]
        BY <2>1, <2>2, <4>1, <4>3 DEF SuccessIsStored
      <4> QED BY <4>1, <4>2, <4>3, AnswerEffect
    <3>2. CASE refuseObject(r)
      <4>1. answer(r, "failed")
        BY <3>2 DEF refuseObject
      <4>2. CASE UNCHANGED pod
        BY <2>2, <4>2 DEF SuccessIsStored
      <4>3. CASE pod' = [pod EXCEPT ![r.name] = [owner |-> r.uid, state |-> "failed"]]
        BY <2>1, <2>2, <4>1, <4>3 DEF SuccessIsStored
      <4> QED BY <4>1, <4>2, <4>3, AnswerEffect
    <3> QED BY <1>8, <3>1, <3>2
  <2> QED BY <2>2, <2>3 DEF SuccessIsStored, isStored
<1>9. CASE restart
  BY <1>0, <1>9 DEF restart, storeVars, SuccessIsStored, isStored
<1>10. CASE UNCHANGED vars
  BY <1>10 DEF vars, apiVars, cacheVars, storeVars, SuccessIsStored, isStored
<1> QED BY <1>1, <1>2, <1>3, <1>4, <1>5, <1>6, <1>7, <1>8, <1>9, <1>10 DEF Next, Proxy

\* A step leaves the cache near the phase.
LEMMA PhaseStep ==
  TypeOK /\ UIDsOfMade /\ CallOfRunningPod /\ CacheNearPhase /\ [Next]_vars => CacheNearPhase'
<1> SUFFICES ASSUME TypeOK, UIDsOfMade, CallOfRunningPod, CacheNearPhase, [Next]_vars
             PROVE  CacheNearPhase'
  OBVIOUS
<1> USE Constants DEF TypeOK
<1>1. ASSUME NEW b \in Names, create(b) PROVE CacheNearPhase'
  <2>1. PICK new \in EtcdBackup : new.phase = "" /\ backup' = [backup EXCEPT ![b] = new]
    BY <1>1, CreateEffect
  <2>2. UNCHANGED <<cachedBackup, action>> /\ made' = [made EXCEPT ![b] = made[b] + 1]
    BY <1>1, CreateEffect
  <2>3. made'[b] = 1 =>
          cachedBackup[b] = None /\ (action # None => action.name # b)
    <3>1. made'[b] = 1 => made[b] = 0
      BY <2>2
    <3> QED BY <3>1 DEF UIDsOfMade
  <2> QED BY <2>1, <2>2, <2>3 DEF CacheNearPhase, Ended
<1>2. ASSUME NEW b \in Names, delete(b) PROVE CacheNearPhase'
  <2>1. backup[b] \in EtcdBackup
    BY <1>2 DEF delete
  <2>2. [backup[b] EXCEPT !.deleting = TRUE].phase = backup[b].phase
    BY <2>1 DEF EtcdBackup
  <2> QED BY <1>2, <2>1, <2>2 DEF delete, writeBackup, CacheNearPhase, cacheVars, boundVars
<1>3. ASSUME NEW b \in Names, Collect(b) PROVE CacheNearPhase'
  BY <1>3 DEF Collect, collectBackup, collectServiceAccount, collectPod, writeBackup,
              writeServiceAccount, writePod, CacheNearPhase, cacheVars, boundVars
<1>4. ASSUME NEW b \in Names, Sync(b) PROVE CacheNearPhase'
  <2>1. CASE UNCHANGED cachedBackup
    BY <1>4, <2>1 DEF Sync, syncBackup, syncServiceAccount, syncPod, CacheNearPhase, boundVars
  <2>2. CASE syncBackup(b)
    <3>1. /\ cachedBackup' = [cachedBackup EXCEPT ![b] = backup[b]]
          /\ UNCHANGED <<backup, action, made>>
      BY <2>2 DEF syncBackup, boundVars
    <3> SUFFICES ASSUME NEW c \in Names, backup[c] # None, made[c] = 1, c = b
                 PROVE  /\ backup[c].phase = "" => backup[c].phase \notin Ended
                        /\ action # None /\ action.name = c /\ action.op = "BackingUp"
                             => backup[c].phase \notin Ended
                        /\ action # None /\ action.name = c /\ action.op \in Ended
                             => backup[c].phase # ""
      BY <3>1 DEF CacheNearPhase
    <3> QED BY DEF CacheNearPhase, Ended
  <2> QED BY <1>4, <2>1, <2>2 DEF Sync, syncServiceAccount, syncPod
<1>5. ASSUME NEW b \in Names, Reconcile(b) PROVE CacheNearPhase'
  <2> USE DEF apiVars, cacheVars, boundVars, CacheNearPhase
  <2>1. CASE failGetState(b) \/ ignore(b)
    BY <2>1 DEF failGetState, ignore, begin
  <2>2. CASE decide(b)
    <3>1. PICK op \in Ops : planned(b, op) /\ action' = plan(b, op)
      BY <2>2 DEF decide
    <3>2. action'.op = op /\ action'.name = b
      BY <3>1 DEF plan
    <3>3. op = "BackingUp" => cachedBackup[b] # None /\ cachedBackup[b].phase = ""
      BY <3>1 DEF planned, inPhase, hasState
    <3>4. op \in Ended => cachedBackup[b] # None /\ cachedBackup[b].phase = "BackingUp"
      BY <3>1 DEF planned, inPhase, hasPod, hasState, Ended
    <3> QED BY <2>2, <3>2, <3>3, <3>4 DEF decide, begin
  <2> QED BY <1>5, <2>1, <2>2 DEF Reconcile
<1>6. CASE Execute
  <2>1. action # None /\ action.name \in Names /\ action.op \in Ops
    BY <1>6 DEF Execute, Action
  <2>2. UNCHANGED <<cachedBackup, made>> /\ action' = None
    BY <1>6 DEF Execute, cacheVars
  <2>3. CASE UNCHANGED backup
    BY <2>2, <2>3 DEF CacheNearPhase
  <2>4. CASE PatchStatus(action.name) /\ backup' # backup
    <3>1. backup[action.name] # None => 
            backup[action.name] \in EtcdBackup /\ [backup[action.name] EXCEPT !.phase = action.op].phase = action.op
      BY <2>1 DEF EtcdBackup
    <3>2. /\ backup[action.name] # None /\ backup'[action.name].phase = action.op
          /\ \A b \in Names \ {action.name} : backup'[b] = backup[b]
      BY <2>1, <2>4, <3>1 DEF PatchStatus, writeBackup
    <3>3. action.op \in {"BackingUp"} \cup Ended
      BY <2>1, <2>4 DEF PatchStatus, Phases, Ops, Ended
    <3>4. made[action.name] = 1 /\ cachedBackup[action.name] # None =>
            (cachedBackup[action.name].phase = "" => action.op \notin Ended)
      BY <2>1, <3>2 DEF CacheNearPhase
    <3> QED BY <2>1, <2>2, <3>2, <3>3, <3>4 DEF CacheNearPhase, Ended
  <2> QED BY <1>6, <2>3, <2>4 DEF Execute, CreateServiceAccount, CreatePod
<1>7. ASSUME NEW b \in Names, Agent(b) \/ losePod(b) PROVE CacheNearPhase'
  BY <1>7 DEF Agent, saveAndUpload, fail, losePod, CacheNearPhase, apiVars, cacheVars, boundVars
<1>8. ASSUME NEW r \in uploads, storeObject(r) \/ refuseObject(r) PROVE CacheNearPhase'
  BY <1>8 DEF storeObject, refuseObject, CacheNearPhase, cacheVars, boundVars
<1>9. CASE restart
  BY <1>9 DEF restart, CacheNearPhase, Ended
<1>10. CASE UNCHANGED vars
  BY <1>10 DEF vars, apiVars, cacheVars, boundVars, CacheNearPhase
<1> QED BY <1>1, <1>2, <1>3, <1>4, <1>5, <1>6, <1>7, <1>8, <1>9, <1>10 DEF Next, Proxy

\* The controller, agents and proxy keep BackupInv, whatever stops between any two
\* of their steps, and however old the cache is that the controller reads.
THEOREM BackupInvariant == Spec => []BackupInv
<1>1. Init => BackupInv
  <2> SUFFICES ASSUME Init PROVE BackupInv
    OBVIOUS
  <2>1. TypeOK
    BY Constants DEF Init, TypeOK, nothing
  <2>2. UIDsOfMade /\ CallOfRunningPod /\ SuccessIsStored /\ CacheNearPhase
    BY DEF Init, nothing, UIDsOfMade, CallOfRunningPod, SuccessIsStored, CacheNearPhase
  <2> QED BY <2>1, <2>2 DEF BackupInv
<1>2. BackupInv /\ [Next]_vars => BackupInv'
  BY TypeStep, UIDsStep, CallStep, SuccessStep, PhaseStep DEF BackupInv
<1> QED BY <1>1, <1>2, PTL DEF Spec

\* PatchStatus makes a backup Completed only if there is a snapshot in the bucket.
THEOREM CompletedTheorem == Spec => []CompletedHasSnapshot
<1>1. BackupInv => CompletedHasSnapshot
  <2> SUFFICES ASSUME BackupInv, NEW b \in Names, backup[b] # None, backup[b].phase = "Completed"
               PROVE  \E u \in 1..backup[b].uid : <<b, u>> \in bucket
    BY DEF CompletedHasSnapshot
  <2>1. PICK u \in UIDs : <<b, u>> \in bucket
    BY DEF BackupInv, SuccessIsStored, isStored
  <2>2. u \in 1..made[b] /\ backup[b].uid = made[b]
    BY <2>1 DEF BackupInv, UIDsOfMade
  <2> QED BY <2>1, <2>2
<1> QED BY <1>1, BackupInvariant, PTL

\* PatchStatus never takes the phase back, on a name in its first use.
THEOREM PhaseTheorem == Spec => PhaseAdvances
<1>1. BackupInv /\ [Next]_vars =>
        [\A b \in Names :
           isBackup(b, 1) /\ isBackup(b, 1)' =>
             \/ backup'[b].phase = backup[b].phase
             \/ backup[b].phase = "" /\ backup'[b].phase = "BackingUp"
             \/ backup[b].phase # "" /\ backup'[b].phase \in Ended]_vars
  <2> SUFFICES ASSUME BackupInv, Next, NEW b \in Names, isBackup(b, 1), isBackup(b, 1)'
               PROVE  \/ backup'[b].phase = backup[b].phase
                      \/ backup[b].phase = "" /\ backup'[b].phase = "BackingUp"
                      \/ backup[b].phase # "" /\ backup'[b].phase \in Ended
    OBVIOUS
  <2> USE Constants DEF BackupInv, TypeOK
  <2>1. backup[b] \in EtcdBackup /\ backup[b] # None /\ made[b] = 1
    BY DEF isBackup, UIDsOfMade
  <2>2. CASE backup'[b] = backup[b]
    BY <2>2
  <2>3. ASSUME NEW c \in Names, create(c) PROVE backup'[b] = backup[b]
    BY <2>1, <2>3, CreateEffect
  <2>4. ASSUME NEW c \in Names, delete(c) PROVE backup'[b].phase = backup[b].phase
    <3>1. [backup[b] EXCEPT !.deleting = TRUE].phase = backup[b].phase
      BY <2>1 DEF EtcdBackup
    <3> QED BY <2>4, <3>1 DEF delete, writeBackup
  <2>5. ASSUME NEW c \in Names, Collect(c) PROVE backup'[b] = backup[b]
    BY <2>5 DEF Collect, collectBackup, collectServiceAccount, collectPod, writeBackup, isBackup
  <2>6. ASSUME NEW c \in Names, Reconcile(c) \/ Sync(c) \/ Agent(c) \/ losePod(c)
        PROVE  UNCHANGED backup
    BY <2>6 DEF Reconcile, failGetState, ignore, decide, begin, Sync, syncBackup,
                syncServiceAccount, syncPod, Agent, saveAndUpload, fail, losePod, apiVars
  <2>7. ASSUME NEW r \in uploads, storeObject(r) \/ refuseObject(r) PROVE UNCHANGED backup
    BY <2>7 DEF storeObject, refuseObject
  <2>8. CASE Execute
    <3>1. action # None /\ action.name \in Names /\ action.op \in Ops
      BY <2>8 DEF Execute, Action
    <3>2. CASE PatchStatus(action.name) /\ backup'[b] # backup[b]
      <4>1. b = action.name /\ backup'[b] = [backup[b] EXCEPT !.phase = action.op]
        BY <2>1, <3>1, <3>2 DEF PatchStatus, writeBackup
      <4>2. backup'[b].phase = action.op
        BY <2>1, <4>1 DEF EtcdBackup
      <4>3. CASE action.op = "BackingUp"
        BY <2>1, <3>1, <4>1, <4>2, <4>3 DEF CacheNearPhase, EtcdBackup, Phases
      <4>4. CASE action.op \in Ended
        BY <2>1, <3>1, <4>1, <4>2, <4>4 DEF CacheNearPhase
      <4> QED BY <3>1, <3>2, <4>3, <4>4 DEF PatchStatus, Phases, Ops, Ended
    <3> QED BY <2>2, <2>8, <3>2 DEF Execute, CreateServiceAccount, CreatePod
  <2> QED BY <2>2, <2>3, <2>4, <2>5, <2>6, <2>7, <2>8 DEF Next, Proxy, restart
<1> QED BY <1>1, BackupInvariant, PTL DEF Spec, PhaseAdvances
-----------------------------------------------------------------------------
(* What Reconcile decides. *)

\* Reconcile always knows what to do, and it is one thing: for every content of the
\* three caches either the template does not parse, or it has nothing to do, or one
\* operation is next.
THEOREM ReconcileDecides ==
  TypeOK => \A b \in Names :
    /\ \/ cachedBackup[b] # None /\ ~cachedBackup[b].parses
       \/ isIdle(b)
       \/ \E op \in Ops : planned(b, op)
    /\ \A op \in Ops : planned(b, op) => cachedBackup[b].parses /\ ~isIdle(b)
    /\ \A op1, op2 \in Ops : planned(b, op1) /\ planned(b, op2) => op1 = op2
<1> SUFFICES ASSUME TypeOK, NEW b \in Names
             PROVE  /\ \/ cachedBackup[b] # None /\ ~cachedBackup[b].parses
                       \/ isIdle(b)
                       \/ \E op \in Ops : planned(b, op)
                    /\ \A op \in Ops : planned(b, op) => cachedBackup[b].parses /\ ~isIdle(b)
                    /\ \A op1, op2 \in Ops : planned(b, op1) /\ planned(b, op2) => op1 = op2
  OBVIOUS
<1>1. cachedBackup[b] # None => cachedBackup[b].phase \in {"", "BackingUp", "Failed", "Completed"}
  BY Zenon DEF TypeOK, EtcdBackup, Phases, Ended
<1>2. cachedPod[b] # None => cachedPod[b].state \in {"running", "succeeded", "failed"}
  BY DEF TypeOK, Pod
<1>3. \/ cachedBackup[b] # None /\ ~cachedBackup[b].parses
      \/ isIdle(b)
      \/ \E op \in Ops : planned(b, op)
  <2>1. CASE inPhase(b, "")
    BY <2>1, Zenon DEF planned, Ops
  <2>2. CASE inPhase(b, "BackingUp") /\ cachedServiceAccount[b] = None
    BY <2>2, Zenon DEF planned, Ops
  <2>3. CASE inPhase(b, "BackingUp") /\ cachedServiceAccount[b] # None /\ cachedPod[b] = None
    BY <2>3, Zenon DEF planned, Ops
  <2>4. CASE hasPod(b)
    <3>1. cachedPod[b].state \in {"running", "succeeded", "failed"}
      BY <1>2, <2>4, Zenon DEF hasPod
    <3> QED BY <2>4, <3>1, Zenon DEF planned, Ops, isIdle
  <2> QED BY <1>1, <2>1, <2>2, <2>3, <2>4, Zenon DEF isIdle, inPhase, hasState, hasPod, Ended
<1>4. ASSUME NEW op \in Ops, planned(b, op) PROVE cachedBackup[b].parses /\ ~isIdle(b)
  <2>1. inPhase(b, "") \/ inPhase(b, "BackingUp")
    BY <1>4, Zenon DEF planned, hasPod
  <2>2. /\ cachedBackup[b] # None /\ cachedBackup[b].parses /\ ~cachedBackup[b].deleting
        /\ cachedBackup[b].phase \notin Ended
    BY <2>1, Zenon DEF inPhase, hasState, Ended
  <2>3. hasPod(b) => ~inPhase(b, "") /\ cachedServiceAccount[b] # None /\ cachedPod[b] # None
    BY Zenon DEF hasPod, inPhase
  <2>4. hasPod(b) => cachedPod[b].state # "running"
    BY <1>4, <2>3, Zenon DEF planned
  <2> QED BY <2>2, <2>4, Zenon DEF isIdle
<1>5. ASSUME NEW op1 \in Ops, NEW op2 \in Ops, planned(b, op1), planned(b, op2) PROVE op1 = op2
  <2>1. ~(inPhase(b, "") /\ inPhase(b, "BackingUp"))
    BY Zenon DEF inPhase
  <2>2. CASE inPhase(b, "")
    BY <1>5, <2>1, <2>2, Zenon DEF planned, hasPod
  <2>3. CASE ~inPhase(b, "") /\ ~hasPod(b)
    <3>1. CASE cachedServiceAccount[b] = None
      BY <1>5, <2>3, <3>1, Zenon DEF planned
    <3>2. CASE cachedServiceAccount[b] # None
      BY <1>5, <2>3, <3>2, Zenon DEF planned
    <3> QED BY <3>1, <3>2
  <2>4. CASE hasPod(b)
    <3>1. ~inPhase(b, "") /\ cachedServiceAccount[b] # None /\ cachedPod[b] # None
      BY <2>1, <2>4, Zenon DEF hasPod
    <3> QED BY <1>5, <3>1, Zenon DEF planned
  <2> QED BY <2>2, <2>3, <2>4
<1> QED BY <1>3, <1>4, <1>5
-----------------------------------------------------------------------------
(* The promise. *)

\* The phase of the backup of a name, as BackupPromise has it.
PhaseOf(x) == IF x = None THEN "absent" ELSE x.phase

\* One backup changes: that is one change of the phases.
LEMMA PhaseChange ==
  ASSUME TypeOK, NEW b \in Names, NEW x, backup' = [backup EXCEPT ![b] = x]
  PROVE  [c \in Names |-> IF backup'[c] = None THEN "absent" ELSE backup'[c].phase]
           = [[c \in Names |-> IF backup[c] = None THEN "absent" ELSE backup[c].phase]
               EXCEPT ![b] = PhaseOf(x)]
BY DEF TypeOK, PhaseOf

\* What does not touch backups, bucket and the count of backups keeps the promise.
LEMMA PromiseStutters ==
  ASSUME UNCHANGED <<backup, made, bucket>>
  PROVE  UNCHANGED Promise!promiseVars
BY DEF Promise!promiseVars

\* PatchStatus starts or ends the backup that has the name, and completes it only
\* when there is a snapshot.
LEMMA PatchKeepsPromise ==
  ASSUME BackupInv, Execute, NEW b \in Names, action.name = b, PatchStatus(b)
  PROVE  Promise!Next \/ UNCHANGED Promise!promiseVars
<1>1. action # None /\ action.op \in Ops /\ TypeOK
  BY DEF Execute, BackupInv, TypeOK, Action
<1>2. UNCHANGED <<made, bucket>>
  BY DEF Execute, storeVars
<1>3. CASE UNCHANGED backup
  BY <1>2, <1>3, PromiseStutters
<1>4. CASE backup[b] # None /\ backup' = [backup EXCEPT ![b] = [backup[b] EXCEPT !.phase = action.op]]
  <2> DEFINE x == [backup[b] EXCEPT !.phase = action.op]
             phases == [c \in Names |-> IF backup[c] = None THEN "absent" ELSE backup[c].phase]
  <2>1. action.op \in {"BackingUp", "Failed", "Completed"}
    BY <1>1 DEF PatchStatus, Phases, Ops, Ended
  <2>2. backup[b] \in EtcdBackup /\ x \in EtcdBackup /\ x.phase = action.op
    <3>1. backup[b] \in EtcdBackup /\ action.op \in Phases
      BY <1>1, <1>4 DEF TypeOK, PatchStatus
    <3>2. x \in EtcdBackup
      BY <3>1, WellFormed
    <3>3. x.phase = action.op
      BY <3>1 DEF EtcdBackup
    <3> QED BY <3>1, <3>2, <3>3
  <2>3. PhaseOf(x) = action.op
    BY <2>2, Constants DEF PhaseOf
  <2>4. phases[b] = backup[b].phase /\ phases[b] \in Phases
    BY <1>1, <1>4, <2>2 DEF EtcdBackup
  <2>5. /\ made[b] = 1 /\ action.op = "BackingUp" => phases[b] \in {"", "BackingUp"}
        /\ made[b] = 1 /\ action.op \in Ended => phases[b] # ""
    BY <1>1, <1>4, <2>4 DEF BackupInv, CacheNearPhase, Phases, Ended
  <2>6. made[b] \in Nat /\ made[b] # 0
    <3>1. made[b] \in Nat /\ backup[b].uid = made[b] /\ backup[b].uid \in 1..MaxUID
      BY <1>1, <1>4, <2>2, Constants DEF BackupInv, TypeOK, UIDsOfMade, EtcdBackup, UIDs
    <3> QED BY <3>1
  <2>7. made[b] # 1 => made[b] > 1
    BY <2>6
  <2>8. phases[b] # "absent"
    BY <2>4, Zenon DEF Phases, Ended
  <2>9. [c \in Names |-> IF backup'[c] = None THEN "absent" ELSE backup'[c].phase]
          = [phases EXCEPT ![b] = action.op]
    <3>1. backup' = [backup EXCEPT ![b] = x]
      BY <1>4
    <3> HIDE DEF x
    <3>2. [c \in Names |-> IF backup'[c] = None THEN "absent" ELSE backup'[c].phase]
            = [phases EXCEPT ![b] = PhaseOf(x)]
      BY <1>1, <3>1, PhaseChange
    <3> QED BY <2>3, <3>2
  <2>10. action.op = "Completed" => \E u \in 1..made[b] : <<b, u>> \in bucket
    BY <1>1 DEF BackupInv, SuccessIsStored, isStored, UIDsOfMade
  <2> HIDE DEF x
  <2>11. CASE action.op = "BackingUp" /\ phases[b] = "BackingUp" /\ made[b] = 1
    <3>1. [phases EXCEPT ![b] = "BackingUp"] = phases
      BY <1>1, <2>11
    <3> QED BY <1>2, <2>9, <2>11, <3>1 DEF Promise!promiseVars
  <2>12. CASE action.op = "BackingUp" /\ (phases[b] = "" \/ made[b] # 1)
    <3>1. phases[b] = "" \/ (phases[b] # "absent" /\ made[b] > 1)
      BY <2>7, <2>8, <2>12, Zenon
    <3>2. Promise!start(b)
      BY <1>2, <2>9, <2>12, <3>1 DEF Promise!start, Promise!enter
    <3> QED BY <1>1, <3>2 DEF Promise!Next
  <2>13. CASE action.op \in Ended
    <3>1. phases[b] \in {"BackingUp", "Failed", "Completed"}
            \/ (phases[b] # "absent" /\ made[b] > 1)
      BY <2>4, <2>5, <2>7, <2>8, <2>13, Zenon DEF Phases, Ended
    <3>2. Promise!mayEnd(b)
      BY <3>1 DEF Promise!mayEnd
    <3>3. Promise!fail(b) \/ Promise!complete(b)
      BY <1>2, <2>9, <2>10, <2>13, <3>2 DEF Promise!fail, Promise!complete, Promise!enter, Ended
    <3> QED BY <1>1, <3>3 DEF Promise!Next
  <2> QED BY <2>1, <2>5, <2>11, <2>12, <2>13 DEF Ended
<1> QED BY <1>3, <1>4 DEF PatchStatus, writeBackup

\* Every step of users, API server, controller, agents and proxy keeps the promise.
LEMMA StepKeepsPromise ==
  ASSUME BackupInv, [Next]_vars
  PROVE  [Promise!Next]_Promise!promiseVars
<1> USE DEF BackupInv
<1>1. ASSUME NEW b \in Names, create(b) PROVE Promise!Next
  <2>1. PICK new \in EtcdBackup : new.phase = "" /\ backup' = [backup EXCEPT ![b] = new]
    BY <1>1, CreateEffect
  <2>2. /\ backup[b] = None /\ made' = [made EXCEPT ![b] = made[b] + 1] /\ UNCHANGED bucket
    BY <1>1, CreateEffect
  <2>3. PhaseOf(new) = ""
    BY <2>1, Constants DEF PhaseOf
  <2>4. Promise!make(b)
    BY <2>1, <2>2, <2>3, PhaseChange DEF Promise!make, Promise!enter
  <2> QED BY <2>4 DEF Promise!Next
<1>2. ASSUME NEW b \in Names, delete(b) PROVE UNCHANGED Promise!promiseVars
  <2>1. /\ backup' = [backup EXCEPT ![b] = [backup[b] EXCEPT !.deleting = TRUE]]
        /\ backup[b] # None /\ UNCHANGED <<made, bucket>>
    BY <1>2 DEF delete, writeBackup, storeVars, boundVars
  <2>2. backup[b] \in EtcdBackup
    BY <2>1 DEF TypeOK
  <2>3. /\ [backup[b] EXCEPT !.deleting = TRUE] \in EtcdBackup
        /\ [backup[b] EXCEPT !.deleting = TRUE].phase = backup[b].phase
    BY <2>2, WellFormed DEF EtcdBackup
  <2>4. PhaseOf([backup[b] EXCEPT !.deleting = TRUE]) = backup[b].phase
    BY <2>3, Constants DEF PhaseOf
  <2> DEFINE phases == [c \in Names |-> IF backup[c] = None THEN "absent" ELSE backup[c].phase]
  <2>5. [c \in Names |-> IF backup'[c] = None THEN "absent" ELSE backup'[c].phase]
          = [phases EXCEPT ![b] = backup[b].phase]
    BY <2>1, <2>4, PhaseChange
  <2>6. [phases EXCEPT ![b] = backup[b].phase] = phases
    BY <2>1
  <2> QED BY <2>1, <2>5, <2>6 DEF Promise!promiseVars
<1>3. ASSUME NEW b \in Names, collectBackup(b) PROVE Promise!Next
  <2>1. /\ backup' = [backup EXCEPT ![b] = None] /\ backup[b] # None
        /\ UNCHANGED <<made, bucket>>
    BY <1>3 DEF collectBackup, writeBackup, storeVars, boundVars
  <2>2. PhaseOf(None) = "absent"
    BY DEF PhaseOf
  <2>3. backup[b].phase # "absent"
    BY <2>1 DEF TypeOK, EtcdBackup, Phases, Ended
  <2>4. Promise!remove(b)
    BY <2>1, <2>2, <2>3, PhaseChange DEF Promise!remove, Promise!enter
  <2> QED BY <2>4 DEF Promise!Next
<1>4. ASSUME NEW b \in Names,
             collectServiceAccount(b) \/ collectPod(b) \/ Sync(b) \/ Reconcile(b) \/ Agent(b)
               \/ losePod(b)
      PROVE  UNCHANGED <<backup, made, bucket>>
  BY <1>4 DEF collectServiceAccount, collectPod, Sync, syncBackup, syncServiceAccount, syncPod,
              Reconcile, failGetState, ignore, decide, begin, Agent, saveAndUpload, fail, losePod,
              apiVars, storeVars, boundVars
<1>5. CASE Execute
  <2>1. CASE CreateServiceAccount(action.name) \/ CreatePod(action.name)
    BY <1>5, <2>1, PromiseStutters DEF Execute, CreateServiceAccount, CreatePod, storeVars
  <2>2. action.name \in Names
    BY <1>5 DEF Execute, TypeOK, Action
  <2> QED BY <1>5, <2>1, <2>2, PatchKeepsPromise DEF Execute
<1>6. ASSUME NEW r \in uploads, storeObject(r) PROVE Promise!Next
  <2>1. /\ r.name \in Names /\ r.uid \in 1..made[r.name]
        /\ bucket' = bucket \cup {<<r.name, r.uid>>} /\ UNCHANGED <<backup, made>>
    BY <1>6 DEF storeObject, boundVars, TypeOK, Upload, UIDsOfMade
  <2>2. Promise!store(r.name)
    BY <2>1 DEF Promise!store
  <2> QED BY <2>1, <2>2 DEF Promise!Next
<1>7. ASSUME NEW r \in uploads, refuseObject(r) PROVE UNCHANGED <<backup, made, bucket>>
  BY <1>7 DEF refuseObject, boundVars
<1>8. CASE restart \/ UNCHANGED vars
  BY <1>8, PromiseStutters DEF restart, vars, apiVars, storeVars, boundVars
<1> QED BY <1>1, <1>2, <1>3, <1>4, <1>5, <1>6, <1>7, <1>8, PromiseStutters DEF Next, Collect, Proxy

\* For any number of names, backups and faults, the controller, the agents and the
\* proxy implement BackupPromise.
THEOREM PromiseTheorem == Spec => KeepsPromise
<1>1. Init => Promise!Init
  BY DEF Init, nothing, Promise!Init
<1>2. BackupInv /\ [Next]_vars => [Promise!Next]_Promise!promiseVars
  BY StepKeepsPromise
<1>3. Spec => Promise!Spec
  BY <1>1, <1>2, BackupInvariant, PTL DEF Spec, Promise!Spec
<1> QED BY <1>3 DEF KeepsPromise
=============================================================================
