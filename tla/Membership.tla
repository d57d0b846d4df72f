----------------------------- MODULE Membership -----------------------------
(***************************************************************************)
(* What the operator promises of etcd membership, without Kubernetes: the   *)
(* runtime reconfiguration discipline of etcd's operations guide, which the *)
(* comments of reconcile describe.  A cluster is formed once, and then       *)
(* changes by one member at a time, each change waiting until every member  *)
(* of the one before has started.                                           *)
(***************************************************************************)
EXTENDS PeerNames

CONSTANTS Clusters,  \* the clusters that may form, each its initial members
          Names      \* ordinals a member's name may have

VARIABLES listed,    \* the member list of each cluster, empty until it forms
          named      \* the members that have a name, hence have started

memberVars == <<listed, named>>

Init ==
  /\ listed = [c \in Clusters |-> {}]
  /\ named = [c \in Clusters |-> {}]

\* The first members form the cluster they were configured with.
bootstrap(c) ==
  /\ listed[c] = {}
  /\ listed' = [listed EXCEPT ![c] = c]
  /\ \E S \in SUBSET c : named' = [named EXCEPT ![c] = S]

stable(c) == listed[c] # {} /\ listed[c] \subseteq named[c]

\* The new member is announced before it is started.
addMember(c) ==
  /\ stable(c)
  /\ \E p \in Names \ listed[c] : listed' = [listed EXCEPT ![c] = @ \cup {p}]
  /\ UNCHANGED named

start(c) ==
  /\ \E p \in listed[c] \ named[c] : named' = [named EXCEPT ![c] = @ \cup {p}]
  /\ UNCHANGED listed

\* removeMember takes the head of the members sorted by name in reverse.  The
\* last member stays: a cluster has one replica at least.
dropMember(c) ==
  /\ stable(c) /\ listed[c] # {LastByName(listed[c])}
  /\ listed' = [listed EXCEPT ![c] = @ \ {LastByName(@)}]
  /\ named' = [named EXCEPT ![c] = @ \ {LastByName(listed[c])}]

Next == \E c \in Clusters : bootstrap(c) \/ addMember(c) \/ start(c) \/ dropMember(c)

Spec == Init /\ [][Next]_memberVars
=============================================================================
