------------------------------ MODULE FatStore ------------------------------
(***************************************************************************)
(* What the FAT layer of the kernel promises the file and directory code   *)
(* above it, with no cache, no drives and no FAT copies in sight.          *)
(*                                                                         *)
(* Every volume has a FAT, a map from cells to digits (a cell is one half  *)
(* of a FAT entry: see FatCache).  The FAT the kernel works on is volatile *)
(* and changes only by what fat_set, or fat_alloc's claim, is asked to     *)
(* store, one cell at a time.  The FAT a restart would find is durable,    *)
(* and is only ever replaced by the volatile one as a whole: a restart     *)
(* finds a FAT the kernel really had at some earlier moment, never a       *)
(* mixture of two, so updates reach the disk in the order they were made.  *)
(***************************************************************************)
EXTENDS Naturals

CONSTANTS Vols,    \* the volumes (partitions) that exist
          Cells,   \* the cells of one FAT
          Digits,  \* what a cell can hold
          NoReq    \* no entry is being stored

VARIABLES vol,     \* vol[p]: the FAT of volume p as fat_get shows it
          dur,     \* dur[p]: the FAT of volume p as the disk has it
          req,     \* the entry being stored: [p |-> volume, c |-> cluster, v]
          epoch,   \* the number of restarts so far
          trouble  \* an update was lost, or a foreign sector used

Init == /\ dur \in [Vols -> [Cells -> Digits]]
        /\ vol = dur
        /\ req = NoReq
        /\ epoch = 0
        /\ trouble = FALSE

Ask == /\ req = NoReq /\ req' # NoReq
       /\ UNCHANGED <<vol, dur, epoch>>

Put(h) == /\ req # NoReq
          /\ req.p \in Vols /\ <<req.c, h>> \in Cells
          /\ vol' = [vol EXCEPT ![req.p][<<req.c, h>>] = req.v[h + 1]]
          /\ req' \in {req, NoReq}
          /\ UNCHANGED <<dur, epoch>>

\* The last cell has been stored, or the call has failed.
Done == /\ req # NoReq /\ req' = NoReq
        /\ UNCHANGED <<vol, dur, epoch>>

Sync(p) == /\ dur' = [dur EXCEPT ![p] = vol[p]]
           /\ UNCHANGED <<vol, req, epoch>>

Restart == /\ epoch' = epoch + 1
           /\ vol' = dur /\ req' = NoReq
           /\ UNCHANGED dur

\* From then on nothing is promised.
Astray == trouble' = TRUE

Next == \/ Astray
        \/ /\ \/ Ask \/ Done \/ Restart
              \/ \E h \in {0, 1} : Put(h)
              \/ \E p \in Vols : Sync(p)
           /\ UNCHANGED trouble

Spec == Init /\ [][Next]_<<vol, dur, req, epoch, trouble>>
=============================================================================
