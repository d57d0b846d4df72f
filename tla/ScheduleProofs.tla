--------------------------- MODULE ScheduleProofs ---------------------------
(***************************************************************************)
(* ScheduleInv is an invariant of EtcdBackupSchedule, for any number of     *)
(* schedules, edits, faults and restarts.                                   *)
(***************************************************************************)
EXTENDS EtcdBackupSchedule, SequenceTheorems, TLAPS

Versions == EtcdBackupSchedule \cup {None}

\* None is no object, and the bounds are numbers.
LEMMA Constants ==
  /\ MaxUID \in Nat /\ MaxEdits \in Nat /\ MaxFaults \in Nat /\ MaxRestarts \in Nat
  /\ None \notin EtcdBackupSchedule /\ None \notin Specs /\ None \notin EntryIDs
BY ScheduleAssumption

\* The fields of what create, edit, delete and addFinalizer write.
LEMMA WellFormed ==
  ASSUME NEW x \in EtcdBackupSchedule
  PROVE  /\ x.uid \in UIDs /\ x.spec \in Specs /\ x # None
         /\ \A s \in Specs : LET y == [x EXCEPT !.spec = s] IN
              y \in EtcdBackupSchedule /\ y.uid = x.uid
                /\ y.finalizer = x.finalizer /\ y.deleting = x.deleting
         /\ LET y == [x EXCEPT !.deleting = TRUE] IN
              y \in EtcdBackupSchedule /\ y.uid = x.uid
                /\ y.finalizer = x.finalizer /\ y.deleting = TRUE
         /\ LET y == [x EXCEPT !.finalizer = TRUE] IN
              y \in EtcdBackupSchedule /\ y.uid = x.uid
                /\ y.finalizer = TRUE /\ y.deleting = x.deleting
<1>1. x.uid \in UIDs /\ x.spec \in Specs /\ x # None
  BY Constants DEF EtcdBackupSchedule
<1>2. \A s \in Specs : LET y == [x EXCEPT !.spec = s] IN
        y \in EtcdBackupSchedule /\ y.uid = x.uid
          /\ y.finalizer = x.finalizer /\ y.deleting = x.deleting
  BY DEF EtcdBackupSchedule
<1>3. LET y == [x EXCEPT !.deleting = TRUE] IN
        y \in EtcdBackupSchedule /\ y.uid = x.uid
          /\ y.finalizer = x.finalizer /\ y.deleting = TRUE
  BY DEF EtcdBackupSchedule
<1>4. LET y == [x EXCEPT !.finalizer = TRUE] IN
        y \in EtcdBackupSchedule /\ y.uid = x.uid
          /\ y.finalizer = TRUE /\ y.deleting = x.deleting
  BY DEF EtcdBackupSchedule
<1> QED BY <1>1, <1>2, <1>3, <1>4

\* obj may follow the schedule there is: it is a new one, or has all its marks.
Follows(obj) ==
  obj # None =>
    /\ obj.uid <= made'
    /\ isSchedule(schedule, obj.uid) \/ made < obj.uid
    /\ isSchedule(schedule, obj.uid) /\ schedule.finalizer => obj.finalizer
    /\ isSchedule(schedule, obj.uid) /\ schedule.deleting => obj.deleting

\* What create does, in terms of what it writes.
LEMMA CreateEffect ==
  ASSUME TypeOK, create
  PROVE  \E obj \in EtcdBackupSchedule :
           /\ write(obj) /\ Follows(obj) /\ obj.uid = made + 1
           /\ schedule = None /\ made' = made + 1 /\ made' \in 0..MaxUID
           /\ UNCHANGED <<queueVars, memoryVars, backups, edits, faults, restarts>>
<1>1. PICK s \in Specs :
        write([uid |-> made + 1, spec |-> s, finalizer |-> FALSE, deleting |-> FALSE])
  BY Zenon DEF create
<1>2. schedule = None /\ made' = made + 1 /\ made \in 0..MaxUID /\ made < MaxUID
  BY DEF create, TypeOK
<1> DEFINE new == [uid |-> made + 1, spec |-> s, finalizer |-> FALSE, deleting |-> FALSE]
<1>3. made + 1 \in UIDs /\ made' \in 0..MaxUID
  BY <1>2, Constants DEF UIDs
<1>4. new \in EtcdBackupSchedule /\ new.uid = made + 1
  BY <1>3 DEF EtcdBackupSchedule
<1>5. write(new)
  BY <1>1
<1> HIDE DEF new
<1>6. Follows(new)
  BY <1>2, <1>3, <1>4 DEF Follows, isSchedule, UIDs
<1> QED BY <1>2, <1>3, <1>4, <1>5, <1>6 DEF create

\* The administrator's edit and delete write what may follow.
LEMMA EditEffect ==
  ASSUME ScheduleInv, edit \/ delete
  PROVE  \E obj \in Versions :
           /\ write(obj) /\ Follows(obj) /\ edits' \in 0..MaxEdits
           /\ UNCHANGED <<queueVars, memoryVars, backups, made, faults, restarts>>
<1> USE DEF ScheduleInv, TypeOK
<1>1. schedule \in EtcdBackupSchedule /\ schedule.uid <= made
  BY DEF edit, delete, VersionsPrecede, Precedes
<1>2. CASE edit
  <2>1. PICK s \in Specs : write([schedule EXCEPT !.spec = s])
    BY <1>2 DEF edit
  <2>2. /\ edits' \in 0..MaxEdits
        /\ UNCHANGED <<queueVars, memoryVars, backups, made, faults, restarts>>
    BY <1>2, Constants DEF edit
  <2> DEFINE new == [schedule EXCEPT !.spec = s]
  <2>3. /\ new \in EtcdBackupSchedule /\ new.uid = schedule.uid
        /\ new.finalizer = schedule.finalizer /\ new.deleting = schedule.deleting
    BY <1>1, WellFormed, Zenon
  <2>4. write(new)
    BY <2>1
  <2> HIDE DEF new
  <2>5. Follows(new)
    BY <1>1, <2>2, <2>3, Constants DEF Follows, isSchedule
  <2> QED BY <2>2, <2>3, <2>4, <2>5 DEF Versions
<1>3. CASE delete
  <2> DEFINE new == [schedule EXCEPT !.deleting = TRUE]
  <2>1. /\ new \in EtcdBackupSchedule /\ new.uid = schedule.uid
        /\ new.finalizer = schedule.finalizer /\ new.deleting = TRUE
    BY <1>1, WellFormed, Zenon
  <2>2. write(new) \/ write(None)
    BY <1>3 DEF delete
  <2> HIDE DEF new
  <2>3. UNCHANGED <<queueVars, memoryVars, backups, boundVars>>
    BY <1>3 DEF delete
  <2>4. Follows(new) /\ Follows(None)
    BY <1>1, <2>1, <2>3, Constants DEF Follows, isSchedule, boundVars
  <2> QED BY <2>1, <2>2, <2>3, <2>4 DEF Versions, boundVars
<1> QED BY <1>2, <1>3

\* An Update is the write of a version that may follow, or nothing.
LEMMA UpdateEffect ==
  ASSUME ScheduleInv, NEW obj \in Versions, Update(obj), UNCHANGED <<cached, made>>,
         obj # None => /\ cached # None /\ obj.uid = cached.uid
                       /\ cached.finalizer => obj.finalizer
                       /\ cached.deleting => obj.deleting
  PROVE  /\ queued' \in BOOLEAN /\ faults' \in 0..MaxFaults
         /\ UNCHANGED apiVars \/ (write(obj) /\ Follows(obj))
<1> USE DEF ScheduleInv, TypeOK
<1>1. queued' \in BOOLEAN
  BY DEF Update
<1>2. faults' \in 0..MaxFaults
  BY Constants DEF Update
<1>3. UNCHANGED apiVars \/ (write(obj) /\ watch = <<>>)
  BY DEF Update
<1>4. ASSUME watch = <<>> PROVE Follows(obj)
  <2>1. cached = schedule
    BY <1>4 DEF WatchEndsAtSchedule
  <2> QED BY <2>1, Constants DEF Follows, isSchedule, VersionsPrecede, Precedes
<1> QED BY <1>1, <1>2, <1>3, <1>4
\* After a write the informer's versions end with it and precede it.
LEMMA WriteStep ==
  ASSUME ScheduleInv, NEW obj \in Versions, write(obj), Follows(obj), UNCHANGED cached,
         made' \in 0..MaxUID, made <= made'
  PROVE  /\ schedule' \in Versions /\ watch' \in Seq(Versions)
         /\ WatchEndsAtSchedule' /\ VersionsPrecede'
<1> USE DEF ScheduleInv, TypeOK
<1>1. watch \in Seq(Versions) /\ watch' = Append(watch, obj) /\ schedule' = obj
  BY DEF write, Versions
<1>2. /\ watch' \in Seq(Versions) /\ Len(watch') = Len(watch) + 1
      /\ watch'[Len(watch')] = obj
      /\ \A i \in 1..Len(watch) : watch'[i] = watch[i]
  BY <1>1, AppendProperties
<1>3. WatchEndsAtSchedule'
  BY <1>1, <1>2 DEF WatchEndsAtSchedule
<1>4. ASSUME NEW v \in Versions, Precedes(v) PROVE Precedes(v)'
  <2> SUFFICES ASSUME v # None
               PROVE  /\ v.uid <= made'
                      /\ isSchedule(obj, v.uid) /\ v.finalizer => obj.finalizer
                      /\ isSchedule(obj, v.uid) /\ v.deleting => obj.deleting
    BY <1>1 DEF Precedes
  <2>1. v.uid \in UIDs /\ v.uid <= made
    BY <1>4, WellFormed DEF Precedes, Versions
  <2>2. v.uid <= made'
    BY <2>1, Constants DEF UIDs
  <2>3. obj # None /\ obj.uid = v.uid => isSchedule(schedule, v.uid)
    BY <2>1, Constants DEF Follows, UIDs
  <2> QED BY <1>4, <2>2, <2>3 DEF Follows, Precedes, isSchedule
<1>5. Precedes(schedule)'
  BY <1>1 DEF Follows, Precedes, isSchedule
<1>6. ASSUME NEW i \in 1..Len(watch) PROVE watch[i] \in Versions /\ Precedes(watch[i])
  BY <1>1 DEF VersionsPrecede
<1>7. Precedes(cached)'
  BY <1>4 DEF VersionsPrecede, Versions, Precedes
<1>8. ASSUME NEW i \in 1..Len(watch') PROVE Precedes(watch[i])'
  <2>1. CASE i \in 1..Len(watch)
    <3>1. Precedes(watch[i])'  \/ watch'[i] # watch[i]
      BY <2>1, <1>4, <1>6 DEF Precedes
    <3> QED BY <3>1, <2>1, <1>2
  <2>2. CASE i = Len(watch')
    BY <2>2, <1>1, <1>2, <1>5 DEF Precedes
  <2> QED BY <1>2, <1>1, <2>1, <2>2, LenProperties
<1>9. VersionsPrecede'
  BY <1>5, <1>7, <1>8 DEF VersionsPrecede
<1> QED BY <1>1, <1>2, <1>3, <1>9
\* The informer applies the versions in order.
LEMMA DeliverStep == ScheduleInv /\ deliver => ScheduleInv'
<1> SUFFICES ASSUME ScheduleInv, deliver PROVE ScheduleInv'
  OBVIOUS
<1> USE DEF ScheduleInv, TypeOK
<1>1. watch \in Seq(Versions) /\ watch # <<>>
  BY DEF deliver, Versions
<1>2. /\ cached' = watch[1] /\ watch' = Tail(watch) /\ watch' \in Seq(Versions)
      /\ Len(watch) \in Nat \ {0} /\ Len(watch') = Len(watch) - 1
      /\ \A i \in 1..Len(watch') : watch'[i] = watch[i + 1]
  BY <1>1, HeadTailProperties, EmptySeq DEF deliver
<1>3. watch[1] \in Versions
  BY <1>1, <1>2
<1>4. UNCHANGED <<schedule, working, memoryVars, backups, boundVars>> /\ queued' \in BOOLEAN
  BY DEF deliver
<1>5. TypeOK'
  BY <1>2, <1>3, <1>4 DEF memoryVars, boundVars, Versions
<1>6. WatchEndsAtSchedule'
  <2>1. watch[Len(watch)] = schedule
    BY <1>1 DEF WatchEndsAtSchedule
  <2>2. CASE watch' = <<>>
    <3>1. Len(watch') = 0
      BY <2>2
    <3>2. Len(watch) = 1
      BY <1>2, <3>1
    <3> QED BY <1>2, <1>4, <2>1, <2>2, <3>2 DEF WatchEndsAtSchedule
  <2>3. CASE watch' # <<>>
    <3>1. Len(watch') \in 1..Len(watch') /\ Len(watch') + 1 = Len(watch)
      BY <1>2, <2>3, EmptySeq
    <3>2. watch'[Len(watch')] = watch[Len(watch)]
      BY <1>2, <3>1
    <3> QED BY <1>4, <2>1, <2>3, <3>2 DEF WatchEndsAtSchedule
  <2> QED BY <2>2, <2>3
<1>7. VersionsPrecede'
  <2>1. Precedes(schedule)' /\ Precedes(cached)'
    BY <1>2, <1>4 DEF VersionsPrecede, Precedes, boundVars
  <2>2. ASSUME NEW i \in 1..Len(watch') PROVE Precedes(watch[i])'
    <3>1. watch'[i] = watch[i + 1] /\ i + 1 \in 1..Len(watch)
      BY <1>2
    <3>2. Precedes(watch[i + 1])
      BY <3>1 DEF VersionsPrecede
    <3> QED BY <1>4, <3>1, <3>2 DEF Precedes, boundVars
  <2> QED BY <2>1, <2>2 DEF VersionsPrecede
<1>8. (EveryEntryRecorded /\ EntryNeedsFinalizer /\ EntriesOfMadeUIDs)'
  BY <1>4 DEF EveryEntryRecorded, EntryNeedsFinalizer, EntriesOfMadeUIDs, found, memoryVars,
              boundVars
<1> QED BY <1>5, <1>6, <1>7, <1>8

\* A step that leaves the memory of the operator as it is, and writes a version
\* that may follow or nothing.
LEMMA SameMemoryStep ==
  ASSUME ScheduleInv, UNCHANGED <<cached, memoryVars, backups, restarts>>,
         queued' \in BOOLEAN, working' \in BOOLEAN,
         edits' \in 0..MaxEdits, faults' \in 0..MaxFaults,
         made' \in 0..MaxUID, made <= made',
         \/ UNCHANGED <<apiVars, made>>
         \/ \E obj \in Versions :
              write(obj) /\ Follows(obj)
  PROVE  ScheduleInv'
<1> USE DEF ScheduleInv, TypeOK, memoryVars
<1>1. CASE UNCHANGED <<apiVars, made>>
  <2>1. WatchEndsAtSchedule' /\ VersionsPrecede'
    BY <1>1 DEF WatchEndsAtSchedule, VersionsPrecede, Precedes, apiVars
  <2>2. TypeOK'
    BY <1>1 DEF apiVars
  <2>3. (EveryEntryRecorded /\ EntryNeedsFinalizer /\ EntriesOfMadeUIDs)'
    BY <1>1 DEF EveryEntryRecorded, EntryNeedsFinalizer, EntriesOfMadeUIDs, found, apiVars
  <2> QED BY <2>1, <2>2, <2>3
<1>2. ASSUME NEW obj \in Versions, write(obj), Follows(obj) PROVE ScheduleInv'
  <2>1. /\ schedule' \in Versions /\ watch' \in Seq(Versions) /\ schedule' = obj
        /\ WatchEndsAtSchedule' /\ VersionsPrecede'
    BY <1>2, WriteStep DEF write
  <2>2. TypeOK'
    BY <2>1 DEF Versions
  <2>3. EveryEntryRecorded' /\ EntriesOfMadeUIDs'
    BY Constants DEF EveryEntryRecorded, EntriesOfMadeUIDs, found, UIDs
  <2>4. EntryNeedsFinalizer'
    <3> SUFFICES ASSUME NEW u \in UIDs, found(u), isSchedule(obj, u) PROVE obj.finalizer
      BY <2>1 DEF EntryNeedsFinalizer, found, isSchedule
    <3>1. u <= made
      BY DEF EntriesOfMadeUIDs
    <3>2. isSchedule(schedule, u)
      BY <1>2, <3>1, Constants DEF Follows, isSchedule, UIDs
    <3>3. schedule.finalizer
      BY <3>2 DEF EntryNeedsFinalizer
    <3> QED BY <1>2, <3>2, <3>3 DEF Follows, isSchedule
  <2> QED BY <2>1, <2>2, <2>3, <2>4
<1> QED BY <1>1, <1>2
\* Reconcile adds an entry for the cached UID, under a number that is free, or
\* removes the one it has.
LEMMA EntryStep ==
  ASSUME ScheduleInv, NEW u \in UIDs,
         \/ \E id \in EntryIDs, s \in Specs :
              /\ ~found(u) /\ pool[id] = None /\ pool' = [pool EXCEPT ![id] = s]
              /\ Schedules' = [Schedules EXCEPT ![u] = id]
         \/ /\ found(u) /\ pool' = [pool EXCEPT ![Schedules[u]] = None]
            /\ Schedules' = [Schedules EXCEPT ![u] = None]
  PROVE  /\ Schedules' \in [UIDs -> EntryIDs \cup {None}]
         /\ pool' \in [EntryIDs -> Specs \cup {None}]
         /\ EveryEntryRecorded'
<1> USE Constants DEF ScheduleInv, TypeOK, EveryEntryRecorded, found
<1>1. ASSUME NEW id \in EntryIDs, NEW s \in Specs,
             ~found(u), pool[id] = None, pool' = [pool EXCEPT ![id] = s],
             Schedules' = [Schedules EXCEPT ![u] = id]
      PROVE  /\ Schedules' \in [UIDs -> EntryIDs \cup {None}]
             /\ pool' \in [EntryIDs -> Specs \cup {None}]
             /\ EveryEntryRecorded'
  BY <1>1
<1>2. ASSUME found(u), pool' = [pool EXCEPT ![Schedules[u]] = None],
             Schedules' = [Schedules EXCEPT ![u] = None]
      PROVE  /\ Schedules' \in [UIDs -> EntryIDs \cup {None}]
             /\ pool' \in [EntryIDs -> Specs \cup {None}]
             /\ EveryEntryRecorded'
  BY <1>2
<1> QED BY <1>1, <1>2

\* Adding an entry: the cached schedule has the finalizer, so the current one has.
LEMMA AddStep == ScheduleInv /\ addCronEntry => ScheduleInv'
<1> SUFFICES ASSUME ScheduleInv, addCronEntry PROVE ScheduleInv'
  OBVIOUS
<1> USE DEF ScheduleInv, TypeOK
<1>1. /\ cached \in EtcdBackupSchedule /\ cached.finalizer /\ ~found(cached.uid)
      /\ UNCHANGED <<apiVars, queued, faults, cached, backups, made, edits, restarts>>
      /\ working' = FALSE
  BY DEF addCronEntry, begin
<1>2. cached.uid \in UIDs /\ cached.spec \in Specs /\ cached # None
  BY <1>1, WellFormed
<1>3. PICK id \in EntryIDs :
        /\ pool[id] = None /\ pool' = [pool EXCEPT ![id] = cached.spec]
        /\ Schedules' = [Schedules EXCEPT ![cached.uid] = id]
  BY DEF addCronEntry
<1>4. /\ Schedules' \in [UIDs -> EntryIDs \cup {None}]
      /\ pool' \in [EntryIDs -> Specs \cup {None}]
      /\ EveryEntryRecorded'
  BY <1>1, <1>2, <1>3, EntryStep
<1>5. TypeOK'
  BY <1>1, <1>4 DEF apiVars
<1>6. WatchEndsAtSchedule' /\ VersionsPrecede'
  BY <1>1 DEF WatchEndsAtSchedule, VersionsPrecede, Precedes, apiVars
<1>7. \A u \in UIDs : found(u)' => found(u) \/ u = cached.uid
  BY <1>2, <1>3 DEF found
<1>8. EntryNeedsFinalizer'
  BY <1>1, <1>2, <1>7 DEF EntryNeedsFinalizer, VersionsPrecede, Precedes, apiVars
<1>9. EntriesOfMadeUIDs'
  BY <1>1, <1>2, <1>7 DEF EntriesOfMadeUIDs, VersionsPrecede, Precedes
<1> QED BY <1>4, <1>5, <1>6, <1>8, <1>9

\* Removing an entry, whether or not the Update that follows succeeds.
LEMMA CleanUpStep == ScheduleInv /\ cleanUp => ScheduleInv'
<1> SUFFICES ASSUME ScheduleInv, cleanUp PROVE ScheduleInv'
  OBVIOUS
<1> USE DEF ScheduleInv, TypeOK
<1>1. /\ cached \in EtcdBackupSchedule /\ found(cached.uid) /\ Update(None)
      /\ UNCHANGED <<cached, backups, made, edits, restarts>> /\ working' = FALSE
      /\ pool' = [pool EXCEPT ![Schedules[cached.uid]] = None]
      /\ Schedules' = [Schedules EXCEPT ![cached.uid] = None]
  BY DEF cleanUp, begin
<1>2. cached.uid \in UIDs
  BY <1>1, WellFormed
<1>3. /\ queued' \in BOOLEAN /\ faults' \in 0..MaxFaults
      /\ UNCHANGED apiVars \/ (write(None) /\ Follows(None))
  BY <1>1, UpdateEffect DEF Versions
<1>4. /\ schedule' \in Versions /\ watch' \in Seq(Versions)
      /\ WatchEndsAtSchedule' /\ VersionsPrecede'
  <2>1. CASE UNCHANGED apiVars
    BY <1>1, <2>1 DEF WatchEndsAtSchedule, VersionsPrecede, Precedes, apiVars, Versions
  <2>2. CASE write(None) /\ Follows(None)
    BY <1>1, <2>2, WriteStep, Constants DEF Versions
  <2> QED BY <1>3, <2>1, <2>2
<1>5. /\ Schedules' \in [UIDs -> EntryIDs \cup {None}]
      /\ pool' \in [EntryIDs -> Specs \cup {None}]
      /\ EveryEntryRecorded'
  BY <1>1, <1>2, EntryStep
<1>6. TypeOK'
  BY <1>1, <1>3, <1>4, <1>5 DEF Versions
<1>7. \A u \in UIDs : found(u)' => found(u)
  BY <1>1, <1>2 DEF found
<1>8. EntryNeedsFinalizer' /\ EntriesOfMadeUIDs'
  BY <1>1, <1>3, <1>7 DEF EntryNeedsFinalizer, EntriesOfMadeUIDs, apiVars, write, isSchedule
<1> QED BY <1>4, <1>5, <1>6, <1>8
\* Every step of the administrator, the informer and the operator keeps ScheduleInv.
LEMMA InvStep == ScheduleInv /\ [Next]_vars => ScheduleInv'
<1> SUFFICES ASSUME ScheduleInv, [Next]_vars PROVE ScheduleInv'
  OBVIOUS
<1>1. CASE create
  <2>1. PICK obj \in EtcdBackupSchedule :
          /\ write(obj) /\ Follows(obj) /\ made' = made + 1 /\ made' \in 0..MaxUID
          /\ UNCHANGED <<queueVars, memoryVars, backups, edits, faults, restarts>>
    BY <1>1, CreateEffect DEF ScheduleInv
  <2>2. obj \in Versions /\ made <= made'
    BY <2>1, Constants DEF Versions, ScheduleInv, TypeOK
  <2>3. UNCHANGED <<cached, queued, working>>
    BY <2>1 DEF queueVars
  <2>4. /\ queued' \in BOOLEAN /\ working' \in BOOLEAN
        /\ edits' \in 0..MaxEdits /\ faults' \in 0..MaxFaults
    BY <2>1, <2>3 DEF ScheduleInv, TypeOK
  <2> QED BY <2>1, <2>2, <2>3, <2>4, SameMemoryStep
<1>2. CASE edit \/ delete
  <2>1. PICK obj \in Versions :
          /\ write(obj) /\ Follows(obj) /\ edits' \in 0..MaxEdits
          /\ UNCHANGED <<queueVars, memoryVars, backups, made, faults, restarts>>
    BY <1>2, EditEffect
  <2>2. UNCHANGED <<cached, queued, working>>
    BY <2>1 DEF queueVars
  <2>3. /\ queued' \in BOOLEAN /\ working' \in BOOLEAN
        /\ made' \in 0..MaxUID /\ made <= made' /\ faults' \in 0..MaxFaults
    BY <2>1, <2>2, Constants DEF ScheduleInv, TypeOK
  <2> QED BY <2>1, <2>2, <2>3, SameMemoryStep
<1>3. CASE addFinalizer
  <2> DEFINE new == [cached EXCEPT !.finalizer = TRUE]
  <2>1. cached \in EtcdBackupSchedule
    BY <1>3 DEF addFinalizer, ScheduleInv, TypeOK
  <2>2. /\ new \in EtcdBackupSchedule /\ new.uid = cached.uid
        /\ new.finalizer = TRUE /\ new.deleting = cached.deleting
    BY <2>1, WellFormed, Zenon
  <2>3. /\ Update(new) /\ working' = FALSE
        /\ UNCHANGED <<cached, memoryVars, backups, made, edits, restarts>>
    BY <1>3 DEF addFinalizer, begin
  <2> HIDE DEF new
  <2>4. cached # None /\ new \in Versions
    BY <2>1, <2>2, Constants DEF Versions
  <2>5. /\ queued' \in BOOLEAN /\ faults' \in 0..MaxFaults
        /\ UNCHANGED apiVars \/ (write(new) /\ Follows(new))
    BY <2>2, <2>3, <2>4, UpdateEffect
  <2>6. made' \in 0..MaxUID /\ made <= made' /\ edits' \in 0..MaxEdits
    BY <2>3, Constants DEF ScheduleInv, TypeOK
  <2>7. working' \in BOOLEAN
    BY <2>3
  <2> QED BY <2>3, <2>4, <2>5, <2>6, <2>7, SameMemoryStep
<1>4. CASE resync \/ dequeue \/ ignoreNotFound \/ rejectCronEntry \/ keepCronEntry
  <2>1. UNCHANGED <<apiVars, made, cached, memoryVars, backups, edits, faults, restarts>>
    BY <1>4 DEF resync, dequeue, ignoreNotFound, rejectCronEntry, keepCronEntry, begin, boundVars
  <2>2. /\ queued' = queued \/ queued' = TRUE \/ queued' = FALSE
        /\ working' = working \/ working' = TRUE \/ working' = FALSE
    BY <1>4, Zenon DEF resync, dequeue, ignoreNotFound, rejectCronEntry, keepCronEntry, begin
  <2>3. queued' \in BOOLEAN /\ working' \in BOOLEAN
    BY <2>2 DEF ScheduleInv, TypeOK
  <2>4. /\ made' \in 0..MaxUID /\ made <= made'
        /\ edits' \in 0..MaxEdits /\ faults' \in 0..MaxFaults
    BY <2>1, Constants DEF ScheduleInv, TypeOK
  <2> QED BY <2>1, <2>3, <2>4, SameMemoryStep
<1>5. CASE fireAny \/ UNCHANGED vars
  <2>1. UNCHANGED <<apiVars, queueVars, memoryVars, boundVars>>
    BY <1>5 DEF fireAny, fire, vars
  <2>2. backups' \subseteq UIDs
    <3>1. cached # None => cached.uid \in UIDs
      BY WellFormed DEF ScheduleInv, TypeOK
    <3> QED BY <1>5, <3>1 DEF fireAny, fire, vars, ScheduleInv, TypeOK
  <2>3. TypeOK'
    BY <2>1, <2>2 DEF ScheduleInv, TypeOK, apiVars, queueVars, memoryVars, boundVars
  <2>4. (WatchEndsAtSchedule /\ VersionsPrecede)'
    BY <2>1 DEF ScheduleInv, WatchEndsAtSchedule, VersionsPrecede, Precedes,
                apiVars, queueVars, boundVars
  <2>5. (EveryEntryRecorded /\ EntryNeedsFinalizer /\ EntriesOfMadeUIDs)'
    BY <2>1 DEF ScheduleInv, EveryEntryRecorded, EntryNeedsFinalizer, EntriesOfMadeUIDs, found,
                apiVars, memoryVars, boundVars
  <2> QED BY <2>3, <2>4, <2>5 DEF ScheduleInv
<1>6. CASE restart
  <2>1. /\ Schedules' = [u \in UIDs |-> None] /\ pool' = [id \in EntryIDs |-> None]
        /\ cached' = schedule /\ watch' = <<>> /\ backups' = {}
        /\ UNCHANGED <<schedule, made, edits, faults>>
    BY <1>6 DEF restart, NewScheduleMap, emptyPool
  <2>2. restarts' \in 0..MaxRestarts
    BY <1>6, Constants DEF restart, ScheduleInv, TypeOK
  <2>3. TypeOK'
    <3>1. queued' \in BOOLEAN /\ working' \in BOOLEAN
      BY <1>6 DEF restart
    <3> QED BY <2>1, <2>2, <3>1 DEF ScheduleInv, TypeOK
  <2>4. (WatchEndsAtSchedule /\ VersionsPrecede)'
    BY <2>1 DEF ScheduleInv, WatchEndsAtSchedule, VersionsPrecede, Precedes
  <2>5. (EveryEntryRecorded /\ EntryNeedsFinalizer /\ EntriesOfMadeUIDs)'
    BY <2>1, Constants DEF EveryEntryRecorded, EntryNeedsFinalizer, EntriesOfMadeUIDs, found
  <2> QED BY <2>3, <2>4, <2>5 DEF ScheduleInv
<1> QED BY <1>1, <1>2, <1>3, <1>4, <1>5, <1>6, DeliverStep, AddStep, CleanUpStep
        DEF Next, Reconcile

\* Map, pool, finalizer and informer stay in step, whatever fails or restarts.
THEOREM ScheduleInvariant == Spec => []ScheduleInv
<1>1. Init => ScheduleInv
  <2> SUFFICES ASSUME Init PROVE ScheduleInv
    OBVIOUS
  <2>1. TypeOK
    <3>1. queued \in BOOLEAN /\ working \in BOOLEAN
      BY DEF Init
    <3>2. /\ made \in 0..MaxUID /\ edits \in 0..MaxEdits
          /\ faults \in 0..MaxFaults /\ restarts \in 0..MaxRestarts
      BY Constants DEF Init
    <3>3. /\ schedule = None /\ cached = None /\ watch = <<>> /\ backups = {}
          /\ Schedules = NewScheduleMap /\ pool = emptyPool
      BY DEF Init
    <3> QED BY <3>1, <3>2, <3>3 DEF TypeOK, NewScheduleMap, emptyPool
  <2>2. WatchEndsAtSchedule /\ VersionsPrecede
    BY DEF Init, WatchEndsAtSchedule, VersionsPrecede, Precedes
  <2>3. EveryEntryRecorded /\ EntryNeedsFinalizer /\ EntriesOfMadeUIDs
    BY Constants DEF Init, NewScheduleMap, emptyPool, EveryEntryRecorded, EntryNeedsFinalizer,
                     EntriesOfMadeUIDs, found
  <2> QED BY <2>1, <2>2, <2>3 DEF ScheduleInv
<1> QED BY <1>1, InvStep, PTL DEF Spec

\* Every entry that Reconcile adds to the cron pool can be found again and removed.
THEOREM RecordedTheorem == Spec => []EveryEntryRecorded
<1>1. ScheduleInv => EveryEntryRecorded
  BY DEF ScheduleInv
<1> QED BY <1>1, ScheduleInvariant, PTL

\* A schedule that has an entry has the finalizer that Reconcile adds first.
THEOREM FinalizerTheorem == Spec => []EntryNeedsFinalizer
<1>1. ScheduleInv => EntryNeedsFinalizer
  BY DEF ScheduleInv
<1> QED BY <1>1, ScheduleInvariant, PTL

\* Reconcile removes the entry of no schedule that is not being deleted: the cached
\* version it goes by may be old, but then the mark is on the current one as well.
THEOREM LiveTheorem == Spec => LiveStaysScheduled
<1>1. ScheduleInv /\ [Next]_vars =>
        [\A u \in UIDs : Live(u) /\ found(u) => found(u)' \/ restarts' # restarts]_vars
  <2> SUFFICES ASSUME ScheduleInv, Next, NEW u \in UIDs, Live(u), found(u)
               PROVE  found(u)' \/ restarts' # restarts
    OBVIOUS
  <2>1. CASE UNCHANGED memoryVars
    BY <2>1 DEF memoryVars, found
  <2>2. CASE restart
    BY <2>2 DEF restart, ScheduleInv, TypeOK
  <2>3. CASE addCronEntry
    <3>1. PICK id \in EntryIDs : Schedules' = [Schedules EXCEPT ![cached.uid] = id]
      BY <2>3 DEF addCronEntry
    <3> QED BY <3>1, Constants DEF found, ScheduleInv, TypeOK
  <2>4. CASE cleanUp
    <3>1. cached # None /\ cached.deleting /\ Precedes(cached)
      BY <2>4 DEF cleanUp, ScheduleInv, VersionsPrecede
    <3>2. u # cached.uid
      BY <3>1 DEF Precedes, Live
    <3> QED BY <2>4, <3>2 DEF cleanUp, found, ScheduleInv, TypeOK
  <2> QED BY <2>1, <2>2, <2>3, <2>4 DEF Next, Reconcile, deliver, resync, dequeue, fireAny, fire,
             create, edit, delete, ignoreNotFound, addFinalizer, rejectCronEntry, keepCronEntry
<1> QED BY <1>1, ScheduleInvariant, PTL DEF Spec, LiveStaysScheduled
=============================================================================
