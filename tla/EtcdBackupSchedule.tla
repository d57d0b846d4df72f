------------------------- MODULE EtcdBackupSchedule -------------------------
(***************************************************************************)
(* The controller of the EtcdBackupSchedules of one name, with the cron     *)
(* pool it keeps.  The pool and the map that leads to its entries live in   *)
(* the memory of the operator, the schedule in the API server, and the      *)
(* controller reads it from an informer cache.  A schedule that is deleted  *)
(* and made again under the same name has another UID.                      *)
(***************************************************************************)
EXTENDS Naturals, Sequences

CONSTANTS Specs,       \* cron expressions
          Unparsable,  \* those that AddFunc rejects
          MaxUID,      \* bound: schedules made under the name
          MaxEdits,    \* bound: edits of spec.schedule
          MaxFaults,   \* bound: calls to the API server that fail
          MaxRestarts, \* bound: restarts of the operator
          None         \* no object, no entry

UIDs == 1..MaxUID
\* cron numbers its entries; a free number stands for the next one.
EntryIDs == 1..(MaxUID + 1)

EtcdBackupSchedule == [uid : UIDs, spec : Specs, finalizer : BOOLEAN, deleting : BOOLEAN]

ASSUME ScheduleAssumption ==
  /\ MaxUID \in Nat /\ MaxEdits \in Nat /\ MaxFaults \in Nat /\ MaxRestarts \in Nat
  /\ Unparsable \subseteq Specs
  /\ None \notin EtcdBackupSchedule /\ None \notin Specs /\ None \notin EntryIDs

VARIABLES
  schedule,   \* the EtcdBackupSchedule in the API server
  watch,      \* the versions of it that the informer has yet to see, in order
  cached,     \* the version in the informer cache
  queued,     \* whether the name is in the work queue of the controller
  working,    \* whether the worker has taken it from the queue
  Schedules,  \* ScheduleMap: the entry of each UID
  pool,       \* the entries of the cron pool, each with its expression
  backups,    \* the UIDs that this process has created EtcdBackups for
  made, edits, faults, restarts  \* what has been used of the bounds

apiVars == <<schedule, watch>>
queueVars == <<cached, queued, working>>
memoryVars == <<Schedules, pool>>
boundVars == <<made, edits, faults, restarts>>
vars == <<apiVars, queueVars, memoryVars, backups, boundVars>>

\* Type correctness of the schedule, its versions, the map and the pool.
TypeOK ==
  /\ schedule \in EtcdBackupSchedule \cup {None}
  /\ cached \in EtcdBackupSchedule \cup {None}
  /\ watch \in Seq(EtcdBackupSchedule \cup {None})
  /\ queued \in BOOLEAN /\ working \in BOOLEAN
  /\ Schedules \in [UIDs -> EntryIDs \cup {None}]
  /\ pool \in [EntryIDs -> Specs \cup {None}]
  /\ backups \subseteq UIDs
  /\ made \in 0..MaxUID /\ edits \in 0..MaxEdits
  /\ faults \in 0..MaxFaults /\ restarts \in 0..MaxRestarts

\* NewScheduleMap and cron.New.
NewScheduleMap == [u \in UIDs |-> None]
emptyPool == [id \in EntryIDs |-> None]

Init ==
  /\ schedule = None /\ watch = <<>> /\ cached = None
  /\ queued = FALSE /\ working = FALSE
  /\ Schedules = NewScheduleMap /\ pool = emptyPool
  /\ backups = {}
  /\ made = 0 /\ edits = 0 /\ faults = 0 /\ restarts = 0
-----------------------------------------------------------------------------
(* The API server, the informer and the work queue. *)

\* A write leaves obj in the API server and sends it to the informer.
write(obj) == schedule' = obj /\ watch' = Append(watch, obj)

\* The informer applies the next version and queues the name.
deliver ==
  /\ watch # <<>>
  /\ cached' = Head(watch) /\ watch' = Tail(watch) /\ queued' = TRUE
  /\ UNCHANGED <<schedule, working, memoryVars, backups, boundVars>>

\* The informer's periodic resync queues what is in the cache.
resync ==
  /\ cached # None /\ queued' = TRUE
  /\ UNCHANGED <<apiVars, cached, working, memoryVars, backups, boundVars>>

\* The worker takes the name.  It is queued again by what happens from here on.
dequeue ==
  /\ queued /\ ~working
  /\ queued' = FALSE /\ working' = TRUE
  /\ UNCHANGED <<apiVars, cached, memoryVars, backups, boundVars>>

\* r.Update of the cached version to obj, when the controller is at its end.  The
\* API server takes it only if the cached version is the current one.  A failed
\* call may have had its effect.  Reconcile is called again after an error.
Update(obj) ==
  \/ /\ watch = <<>> /\ write(obj)
     /\ UNCHANGED <<queued, faults>>
  \/ /\ watch # <<>> /\ queued' = TRUE
     /\ UNCHANGED <<apiVars, faults>>
  \/ /\ faults < MaxFaults /\ faults' = faults + 1 /\ queued' = TRUE
     /\ \/ UNCHANGED apiVars
        \/ watch = <<>> /\ write(obj)
-----------------------------------------------------------------------------
(* The administrator. *)

create ==
  /\ schedule = None /\ made < MaxUID /\ made' = made + 1
  /\ \E s \in Specs :
       write([uid |-> made + 1, spec |-> s, finalizer |-> FALSE, deleting |-> FALSE])
  /\ UNCHANGED <<queueVars, memoryVars, backups, edits, faults, restarts>>

edit ==
  /\ schedule # None /\ edits < MaxEdits /\ edits' = edits + 1
  /\ \E s \in Specs \ {schedule.spec} : write([schedule EXCEPT !.spec = s])
  /\ UNCHANGED <<queueVars, memoryVars, backups, made, faults, restarts>>

\* A finalizer keeps the object, marked as deleting.
delete ==
  /\ schedule # None /\ ~schedule.deleting
  /\ write(IF schedule.finalizer THEN [schedule EXCEPT !.deleting = TRUE] ELSE None)
  /\ UNCHANGED <<queueVars, memoryVars, backups, boundVars>>
-----------------------------------------------------------------------------
(* Reconcile, one action for each way through it. *)

begin == working /\ working' = FALSE /\ UNCHANGED <<cached, backups, made, edits, restarts>>

\* The object is gone.
ignoreNotFound ==
  /\ begin /\ cached = None
  /\ UNCHANGED <<apiVars, queued, memoryVars, faults>>

\* Mutant: the finalizer is added to the copy in memory only.
addFinalizerUnsaved ==
  /\ begin /\ cached # None /\ ~cached.finalizer
  /\ UNCHANGED <<apiVars, queued, memoryVars, faults>>

addFinalizer ==
  /\ begin /\ cached # None /\ ~cached.finalizer
  /\ Update([cached EXCEPT !.finalizer = TRUE])
  /\ UNCHANGED memoryVars

found(u) == Schedules[u] # None

\* Mutant: the finalizer is not awaited.
addCronEntryAtOnce ==
  /\ begin /\ cached # None /\ ~found(cached.uid) /\ cached.spec \notin Unparsable
  /\ \E id \in EntryIDs :
       /\ pool[id] = None
       /\ pool' = [pool EXCEPT ![id] = cached.spec]
       /\ Schedules' = [Schedules EXCEPT ![cached.uid] = id]
  /\ UNCHANGED <<apiVars, queued, faults>>

\* Mutant: the entry's number is not recorded.
addCronEntryUnrecorded ==
  /\ begin /\ cached # None /\ cached.finalizer /\ ~found(cached.uid)
  /\ cached.spec \notin Unparsable
  /\ \E id \in EntryIDs :
       /\ pool[id] = None
       /\ pool' = [pool EXCEPT ![id] = cached.spec]
  /\ UNCHANGED <<apiVars, queued, Schedules, faults>>

\* No entry is recorded for the UID: one is added, whether or not the schedule
\* is being deleted, and that is all.
addCronEntry ==
  /\ begin /\ cached # None /\ cached.finalizer /\ ~found(cached.uid)
  /\ cached.spec \notin Unparsable
  /\ \E id \in EntryIDs :
       /\ pool[id] = None
       /\ pool' = [pool EXCEPT ![id] = cached.spec]
       /\ Schedules' = [Schedules EXCEPT ![cached.uid] = id]
  /\ UNCHANGED <<apiVars, queued, faults>>

\* AddFunc does not parse the expression; the error leads to another try.
rejectCronEntry ==
  /\ begin /\ cached # None /\ cached.finalizer /\ ~found(cached.uid)
  /\ cached.spec \in Unparsable
  /\ queued' = TRUE
  /\ UNCHANGED <<apiVars, memoryVars, faults>>

\* The entry exists and the schedule is not being deleted: an edit of the
\* expression changes nothing.
keepCronEntry ==
  /\ begin /\ cached # None /\ cached.finalizer /\ found(cached.uid) /\ ~cached.deleting
  /\ UNCHANGED <<apiVars, queued, memoryVars, faults>>

\* Mutant: the map keeps the number of the removed entry.
cleanUpPoolOnly ==
  /\ begin /\ cached # None /\ cached.finalizer /\ found(cached.uid) /\ cached.deleting
  /\ pool' = [pool EXCEPT ![Schedules[cached.uid]] = None]
  /\ Update(None)
  /\ UNCHANGED Schedules

\* Mutant: an entry is also given up when the expression was edited.
cleanUpEdited ==
  /\ begin /\ cached # None /\ cached.finalizer /\ found(cached.uid)
  /\ cached.deleting \/ cached.spec # pool[Schedules[cached.uid]]
  /\ pool' = [pool EXCEPT ![Schedules[cached.uid]] = None]
  /\ Schedules' = [Schedules EXCEPT ![cached.uid] = None]
  /\ Update(IF cached.deleting THEN None ELSE cached)

\* Mutant: the finalizer is removed from the copy in memory only.
cleanUpUnsaved ==
  /\ begin /\ cached # None /\ cached.finalizer /\ found(cached.uid) /\ cached.deleting
  /\ pool' = [pool EXCEPT ![Schedules[cached.uid]] = None]
  /\ Schedules' = [Schedules EXCEPT ![cached.uid] = None]
  /\ UNCHANGED <<apiVars, queued, faults>>

\* The entry leaves the pool and the map, then the finalizer the object, with
\* which the object goes.
cleanUp ==
  /\ begin /\ cached # None /\ cached.finalizer /\ found(cached.uid) /\ cached.deleting
  /\ pool' = [pool EXCEPT ![Schedules[cached.uid]] = None]
  /\ Schedules' = [Schedules EXCEPT ![cached.uid] = None]
  /\ Update(None)

Reconcile ==
  \/ ignoreNotFound \/ addFinalizer \/ addCronEntry \/ rejectCronEntry
  \/ keepCronEntry \/ cleanUp

\* An entry of the pool fires: an EtcdBackup for the schedule that now has the
\* name.
fire(id) ==
  /\ pool[id] # None /\ cached # None
  /\ backups' = backups \cup {cached.uid}
  /\ UNCHANGED <<apiVars, queueVars, memoryVars, boundVars>>

fireAny == \E id \in EntryIDs : fire(id)

\* The operator starts anew: empty memory, and an event for every object.
restart ==
  /\ restarts < MaxRestarts /\ restarts' = restarts + 1
  /\ Schedules' = NewScheduleMap /\ pool' = emptyPool
  /\ cached' = schedule /\ watch' = <<>>
  /\ queued' = (schedule # None) /\ working' = FALSE /\ backups' = {}
  /\ UNCHANGED <<schedule, made, edits, faults>>
-----------------------------------------------------------------------------
Next ==
  \/ deliver \/ resync \/ dequeue \/ Reconcile \/ fireAny \/ restart
  \/ create \/ edit \/ delete

Spec == Init /\ [][Next]_vars

\* The informer keeps up and resyncs every ten hours, the worker goes on, and cron
\* fires its entries.  Nothing is assumed of the administrator, of failed calls
\* and of restarts.
Fairness ==
  /\ WF_vars(deliver) /\ WF_vars(resync) /\ WF_vars(dequeue) /\ WF_vars(Reconcile)
  /\ WF_vars(fireAny)

FairSpec == Spec /\ Fairness
-----------------------------------------------------------------------------
isSchedule(obj, u) == obj # None /\ obj.uid = u
Live(u) == isSchedule(schedule, u) /\ ~schedule.deleting
Parses == schedule.spec \notin Unparsable

\* The map and the pool agree: the entry of each UID is its own and in the pool,
\* and every entry of the pool can be found through the map, so that it can be
\* removed.
EveryEntryRecorded ==
  /\ \A u \in UIDs : found(u) => pool[Schedules[u]] # None
  /\ \A u, v \in UIDs : found(u) /\ Schedules[u] = Schedules[v] => u = v
  /\ \A id \in EntryIDs : pool[id] # None => \E u \in UIDs : Schedules[u] = id

\* A schedule with an entry in the pool cannot disappear unnoticed: as long as it
\* exists it has the finalizer.
EntryNeedsFinalizer ==
  \A u \in UIDs : found(u) /\ isSchedule(schedule, u) => schedule.finalizer

\* The parts of an inductive invariant that implies the two above.

\* What the informer has yet to see ends with what the API server has.
WatchEndsAtSchedule ==
  IF watch = <<>> THEN cached = schedule ELSE watch[Len(watch)] = schedule

\* A version that is seen late is one of a UID that has been given out, and the
\* marks it has are still on the schedule of that UID.
Precedes(v) ==
  v # None =>
    /\ v.uid <= made
    /\ isSchedule(schedule, v.uid) /\ v.finalizer => schedule.finalizer
    /\ isSchedule(schedule, v.uid) /\ v.deleting => schedule.deleting

VersionsPrecede ==
  Precedes(schedule) /\ Precedes(cached) /\ \A i \in 1..Len(watch) : Precedes(watch[i])

EntriesOfMadeUIDs == \A u \in UIDs : found(u) => u <= made

ScheduleInv ==
  /\ TypeOK /\ EveryEntryRecorded /\ EntryNeedsFinalizer
  /\ WatchEndsAtSchedule /\ VersionsPrecede /\ EntriesOfMadeUIDs

\* Only a restart takes the entry of a schedule that nobody has deleted.
LiveStaysScheduled ==
  [][\A u \in UIDs : Live(u) /\ found(u) => found(u)' \/ restarts' # restarts]_vars

\* A schedule that stays, with an expression that cron accepts, is put into the
\* pool and backed up, after every restart again.
BackupsHappen ==
  \A u \in UIDs :
    (Live(u) /\ Parses /\ u \notin backups) ~> (u \in backups \/ ~Live(u) \/ ~Parses)

\* A deleted schedule goes, although a reconciliation that finds no entry for it
\* adds one and leaves the finalizer to the next.  An expression that cron does
\* not accept is the exception: the finalizer then stays for good.
DeletionCompletes ==
  \A u \in UIDs :
    (isSchedule(schedule, u) /\ schedule.deleting /\ Parses)
      ~> (~isSchedule(schedule, u) \/ ~Parses)

\* "Routines will be ... deleted when a resource is removed": the entry of a
\* schedule that is gone does not stay in the pool.
RemovedFromPool ==
  \A u \in UIDs : (u <= made /\ ~isSchedule(schedule, u)) ~> ~found(u)
=============================================================================
