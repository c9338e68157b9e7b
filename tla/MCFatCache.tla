----------------------------- MODULE MCFatCache -----------------------------
(* Instances of FatCache for TLC: two volumes of different sizes, on two   *)
(* drives, with FAT16 entries (a sector each) or FAT12 entries (the entry  *)
(* of cluster 2 straddles two sectors).                                    *)
EXTENDS FatCache, TLC

MCMaxClust == [p |-> 3, q |-> 2]        \* bpb_max_clust of volumes p and q

Fat16Lo == 2 :> 0 @@ 3 :> 1
Fat12Lo == 2 :> 0 @@ 3 :> 1
Fat12Hi == 2 :> 1 @@ 3 :> 1

MCFreeOrEnd == {Free, Eoc}
MCBootTable == [C |-> "p", D |-> "q"]

\* A bound: one failing transfer or restart, and nothing after Trouble.
OneMishap == faults.read + faults.write + faults.crash <= 1 /\ ~Trouble
=============================================================================
