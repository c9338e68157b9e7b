------------------------------- MODULE Volume -------------------------------
(***************************************************************************)
(* The clusters of one volume and the chains the FAT makes of them.        *)
(***************************************************************************)
EXTENDS Integers

CONSTANTS
  Spc,              \* bpb_spc: sectors per cluster
  LastCluster       \* bpb_max_clust

ASSUME VolumeConstants ==
  Spc \in Nat \ {0} /\ LastCluster \in Nat /\ LastCluster >= 2

Clusters == 2 .. LastCluster
Eoc == LastCluster + 1           \* FAT_EOC: above every cluster number
Links == {0} \cup Clusters \cup {Eoc}       \* 0: the cluster is free

\* The FAT entries 0 and 1 do not belong to a cluster.
Link(table, c) == IF c \in Clusters THEN table[c] ELSE Eoc

\* The cluster n links after c.
Nth(table, c, n) ==
  LET nth[i \in 0 .. n] == IF i = 0 THEN c ELSE Link(table, nth[i - 1])
  IN  nth[n]
=============================================================================
