--------------------------- MODULE RestorePromise ---------------------------
(***************************************************************************)
(* What the restores into one cluster name promise, without caches, pods    *)
(* and agents: a volume is claimed once and written to only while it is     *)
(* claimed for a restore; the cluster is made once, on volumes that are all *)
(* claimed for the restore that makes it; an end state is final.  For a     *)
(* sound restore, in the first use of its name and without a pod lost, the  *)
(* volumes hold its whole snapshot when the cluster is made or the restore  *)
(* is Completed, and are not written to afterwards.                         *)
(***************************************************************************)
CONSTANTS Restores, Volumes, UIDs,
          None       \* no object, no restore, no data

VARIABLES restore,   \* UID and phase of each restore there is
          claim,     \* the restore each volume is claimed for; None is somebody else
          holds,     \* the restore whose snapshot a volume holds entirely
          cluster,   \* the restore that made the cluster; None is somebody else
          sound      \* the restores of which nothing has been lost

promiseVars == <<restore, claim, holds, cluster, sound>>

Init ==
  /\ restore = [r \in Restores |-> None]
  /\ claim \in [Volumes -> {None, [label |-> None]}]
  /\ holds = [v \in Volumes |-> None]
  /\ cluster = None /\ sound = {}

make(r) ==
  /\ restore[r] = None
  /\ \E u \in UIDs : restore' = [restore EXCEPT ![r] = [uid |-> u, phase |-> ""]]
  /\ \/ cluster # [label |-> r] /\ sound' = sound \cup {r}
     \/ UNCHANGED sound
  /\ UNCHANGED <<claim, holds, cluster>>

remove(r) ==
  /\ restore[r] # None
  /\ restore' = [restore EXCEPT ![r] = None] /\ sound' = sound \ {r}
  /\ UNCHANGED <<claim, holds, cluster>>

loseTrack == sound' = {} /\ UNCHANGED <<restore, claim, holds, cluster>>

take(v) ==
  /\ claim[v] = None
  /\ \E l \in Restores \cup {None} : claim' = [claim EXCEPT ![v] = [label |-> l]]
  /\ UNCHANGED <<restore, holds, cluster, sound>>

isDone(r) == cluster = [label |-> r] \/ restore[r].phase = "Completed"
isClaimed(r) == \A v \in Volumes : claim[v] = [label |-> r]
isWhole(r) == \A v \in Volumes : holds[v] = restore[r].uid

write(v) ==
  /\ \E r \in Restores : claim[v] = [label |-> r]
  /\ \A r \in sound : ~isDone(r)
  /\ \E u \in UIDs \cup {None} : holds' = [holds EXCEPT ![v] = u]
  /\ UNCHANGED <<restore, claim, cluster, sound>>

form ==
  /\ cluster = None
  /\ \/ cluster' = [label |-> None]
     \/ \E r \in Restores :
          isClaimed(r) /\ (r \in sound => isWhole(r)) /\ cluster' = [label |-> r]
  /\ UNCHANGED <<restore, claim, holds, sound>>

enter(r, phase) ==
  /\ restore' = [restore EXCEPT ![r].phase = phase]
  /\ UNCHANGED <<claim, holds, cluster, sound>>

begin(r) == restore[r] # None /\ restore[r].phase = "" /\ enter(r, "Pending")

fail(r) == restore[r] # None /\ restore[r].phase = "Pending" /\ enter(r, "Failed")

complete(r) ==
  /\ restore[r] # None /\ restore[r].phase = "Pending"
  /\ cluster # None /\ isClaimed(r) /\ (r \in sound => isWhole(r))
  /\ enter(r, "Completed")

Next ==
  \/ \E r \in Restores : make(r) \/ remove(r) \/ begin(r) \/ fail(r) \/ complete(r)
  \/ \E v \in Volumes : take(v) \/ write(v)
  \/ form \/ loseTrack

Spec == Init /\ [][Next]_promiseVars
=============================================================================
