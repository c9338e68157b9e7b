------------------------------ MODULE NameSpace ------------------------------
(***************************************************************************)
(* What the directory calls of the kernel promise: a tree of directories,  *)
(* each a set of named entries, in which every call makes one change, all  *)
(* at once.  Only file_rename makes two, the new name first, so that what  *)
(* it names is never lost.                                                 *)
(***************************************************************************)
EXTENDS Integers

CONSTANTS Dirs, Root,      \* Root \in Dirs
          Names

VARIABLES
  tree,     \* tree[d]: the entries [name, dir, ro, clust] of directory d
  pending,  \* the second half of a rename: <<directory, old name, new name>>
  trouble   \* restarts so far, or -1: a directory cannot be read, or not as written

Named(d, n) == {e \in tree[d] : e.name = n}
NoRename == <<>>

Init == tree = [d \in Dirs |-> {}] /\ pending = NoRename /\ trouble = 0

Create(d, n) ==
  /\ Named(d, n) = {}
  /\ tree' = [tree EXCEPT ![d] =
                @ \cup {[name |-> n, dir |-> FALSE, ro |-> FALSE, clust |-> 0]}]

\* The new directory is empty, and is no other directory.
MakeDir(d, n, c) ==
  /\ Named(d, n) = {} /\ c # Root /\ tree[c] = {}
  /\ \A p \in Dirs : \A e \in tree[p] : e.clust # c
  /\ tree' = [tree EXCEPT ![d] =
                @ \cup {[name |-> n, dir |-> TRUE, ro |-> FALSE, clust |-> c]}]

Delete(d, e) == /\ ~e.dir /\ ~e.ro
                /\ tree' = [tree EXCEPT ![d] = @ \ {e}]

RemoveDir(d, e) == /\ e.dir /\ tree[e.clust] = {}
                   /\ tree' = [tree EXCEPT ![d] = @ \ {e}]

SetAttr(d, e) == tree' = [tree EXCEPT ![d] = (@ \ {e})
                                       \cup {[e EXCEPT !.ro = ~@]}]

AddName(d, e, n) == /\ Named(d, n) = {}
                    /\ tree' = [tree EXCEPT ![d] =
                                  @ \cup {[e EXCEPT !.name = n]}]
                    /\ pending' = <<d, e.name, n>>

DropName == /\ pending # NoRename
            /\ LET d == pending[1] IN
                 /\ Named(d, pending[3]) # {}
                 /\ tree' = [tree EXCEPT ![d] = @ \ Named(d, pending[2])]
            /\ pending' = NoRename

\* A rename that fails half way, or a restart, leaves both names.
GiveUp == pending # NoRename /\ pending' = NoRename /\ UNCHANGED trouble
Restart == trouble >= 0 /\ trouble' = trouble + 1 /\ pending' = NoRename

\* A directory that cannot be read counts as one that ends there, and one with
\* sectors that were never cleared holds anything: from then on, nothing is
\* promised.
Astray == trouble' = -1

Next ==
  \/ Astray
  \/ /\ UNCHANGED tree
     /\ UNCHANGED <<pending, trouble>> \/ GiveUp \/ Restart
  \/ /\ \E d \in Dirs, n \in Names :
          \/ Create(d, n)
          \/ \E c \in Dirs : MakeDir(d, n, c)
          \/ \E e \in tree[d] : Delete(d, e) \/ RemoveDir(d, e) \/ SetAttr(d, e)
     /\ pending = NoRename
     /\ UNCHANGED <<pending, trouble>>
  \/ /\ pending' # pending
     /\ \E d \in Dirs, n \in Names : \E e \in tree[d] : AddName(d, e, n)
     /\ UNCHANGED trouble
  \/ DropName /\ UNCHANGED trouble

Spec == Init /\ [][Next]_<<tree, pending, trouble>>
=============================================================================
