--------------------------- MODULE BackupPromise ---------------------------
(***************************************************************************)
(* What the owner of an EtcdBackup may rely on, without caches, pods, agent *)
(* and proxy: its phase goes "", BackingUp and then an end state, it is      *)
(* Completed only when there is a snapshot, and snapshots are kept.  The    *)
(* controller knows its objects by name, so of a name that has been used    *)
(* before less is promised: a step meant for an earlier backup may reach    *)
(* the one there is.                                                        *)
(***************************************************************************)
EXTENDS Naturals

CONSTANTS Names      \* names of EtcdBackups

VARIABLES used,      \* how many backups have been made under each name
          phase,     \* the phase of the backup there is, or "absent"
          stored     \* the name and the number of each backup with a snapshot

promiseVars == <<used, phase, stored>>

Init ==
  /\ used = [b \in Names |-> 0]
  /\ phase = [b \in Names |-> "absent"]
  /\ stored = {}

enter(b, new) == phase' = [phase EXCEPT ![b] = new]

make(b) ==
  /\ phase[b] = "absent" /\ enter(b, "")
  /\ used' = [used EXCEPT ![b] = @ + 1] /\ UNCHANGED stored

remove(b) == phase[b] # "absent" /\ enter(b, "absent") /\ UNCHANGED <<used, stored>>

\* A backup is started once.
start(b) ==
  /\ phase[b] = "" \/ (phase[b] # "absent" /\ used[b] > 1)
  /\ enter(b, "BackingUp") /\ UNCHANGED <<used, stored>>

\* It may be taken again, and then end otherwise, if its pod is lost before the
\* result is seen.
mayEnd(b) ==
  phase[b] \in {"BackingUp", "Failed", "Completed"} \/ (phase[b] # "absent" /\ used[b] > 1)

fail(b) == mayEnd(b) /\ enter(b, "Failed") /\ UNCHANGED <<used, stored>>

complete(b) ==
  /\ mayEnd(b) /\ \E u \in 1..used[b] : <<b, u>> \in stored
  /\ enter(b, "Completed") /\ UNCHANGED <<used, stored>>

\* The proxy may store a snapshot long after its backup has ended.
store(b) ==
  /\ \E u \in 1..used[b] : stored' = stored \cup {<<b, u>>}
  /\ UNCHANGED <<used, phase>>

Next ==
  \E b \in Names : make(b) \/ remove(b) \/ start(b) \/ fail(b) \/ complete(b) \/ store(b)

Spec == Init /\ [][Next]_promiseVars
=============================================================================
