----------------------------- MODULE PeerNames -----------------------------
(***************************************************************************)
(* Names of EtcdPeers.  nthPeerName formats ordinal i of a cluster as      *)
(* "<cluster>-<i>".  The prefix is common to all peers of a cluster, so a   *)
(* name is represented by its ordinal, and what the formatting does to the  *)
(* order of names is kept: the controllers sort names as strings, and       *)
(* "c-10" sorts before "c-9".                                               *)
(***************************************************************************)
EXTENDS Naturals, FiniteSets

\* A number has at most n decimal digits when it is less than Pow10[n].
Pow10[n \in Nat] == IF n = 0 THEN 1 ELSE 10 * Pow10[n - 1]

\* The number of decimal digits that %d prints for i.
Digits(i) ==
  CHOOSE k \in 1..(i + 1) : i < Pow10[k] /\ \A l \in 1..(k - 1) : i >= Pow10[l]

\* strings.Compare(nthPeerName(i), nthPeerName(j)) < 0: the decimal strings
\* are compared digit by digit, and a proper prefix is the lesser one.
NameLess(i, j) ==
  LET di == Digits(i)
      dj == Digits(j)
  IN  \/ di = dj /\ i < j
      \/ di < dj /\ i * Pow10[dj - di] <= j
      \/ di > dj /\ i \div Pow10[di - dj] < j

\* The last name of S in string order: the head of the reverse-sorted list.
LastByName(S) == CHOOSE p \in S : \A q \in S \ {p} : NameLess(q, p)

\* The least ordinal whose name no peer of S has.
nextAvailablePeerName(S) ==
  CHOOSE i \in 0..Cardinality(S) : i \notin S /\ \A j \in 0..(i - 1) : j \in S

\* The names a cluster of r replicas bootstraps with.
expectedPeerNamesForCluster(r) == 0..(r - 1)
=============================================================================
