------------------------------ MODULE ByteFile ------------------------------
(***************************************************************************)
(* What the file calls of the kernel promise a program: a file is a        *)
(* sequence of bytes, an open file a position in it.  No clusters, no      *)
(* sectors, no directory and no buffers.                                   *)
(*                                                                         *)
(* A read or a write moves some bytes at a time; no step changes a file    *)
(* other than the one it works on.  Closing a file keeps it as it is,      *)
(* unless a transfer fails, and even then no other file suffers.           *)
(***************************************************************************)
EXTENDS Integers, Sequences

CONSTANTS Files, Fcbs, NoFile,
          Bytes

VARIABLES content,    \* content[f]: {bytes}, or {} when there is no file f
          handle,     \* handle[k]: [file, pos]
          got,        \* what the read in progress has delivered
          todo,       \* what the write in progress has yet to write
          trouble     \* the number of failed reads, or -1

vars == <<content, handle, got, todo, trouble>>

Unused == [file |-> NoFile, pos |-> 0]

Init == /\ content = [f \in Files |-> {}]
        /\ handle = [k \in Fcbs |-> Unused]
        /\ got = <<>> /\ todo = <<>>
        /\ trouble = 0

InUse == {k \in Fcbs : handle[k] # Unused}

Quiet == got = <<>> /\ todo = <<>>

Replace(f, s) == content' = [content EXCEPT ![f] = {s}]

At(k, pos) == handle' = [handle EXCEPT ![k].pos = pos]

\* The bytes of s from position pos on replaced by b.
Overwritten(s, pos, b) ==
  [i \in 1 .. IF pos + Len(b) > Len(s) THEN pos + Len(b) ELSE Len(s) |->
     IF i \in pos + 1 .. pos + Len(b) THEN b[i - pos] ELSE s[i]]

Open(k, f) ==
  /\ Quiet /\ handle[k] = Unused
  /\ \/ content[f] # {} /\ UNCHANGED content       \* to read or to append
     \/ Replace(f, <<>>)                           \* new, or truncated
  /\ \E s \in content'[f] : \E pos \in {0, Len(s)} :
       handle' = [handle EXCEPT ![k] = [file |-> f, pos |-> pos]]
  /\ UNCHANGED <<got, todo>>

Seek(k) == /\ Quiet
           /\ \E s \in content[handle[k].file] :
                \E pos \in 0 .. Len(s) : At(k, pos)
           /\ UNCHANGED <<content, got, todo>>

Read(k) ==
  \E s \in content[handle[k].file] :
    \E end \in handle[k].pos + 1 .. Len(s) :
      /\ got' = got \o SubSeq(s, handle[k].pos + 1, end)
      /\ At(k, end)
      /\ UNCHANGED <<content, todo>>

Ask == /\ Quiet
       /\ todo' # <<>>
       /\ UNCHANGED <<content, handle, got>>

Write(k) ==
  \E s \in content[handle[k].file], n \in 1 .. Len(todo) :
    /\ Replace(handle[k].file,
               Overwritten(s, handle[k].pos, SubSeq(todo, 1, n)))
    /\ At(k, handle[k].pos + n)
    /\ todo' = SubSeq(todo, n + 1, Len(todo))
    /\ UNCHANGED got

\* The call returns, with all or some of the bytes moved.
Done == /\ got' = <<>> /\ todo' = <<>>
        /\ UNCHANGED <<content, handle>>

Close(k) == /\ Quiet /\ handle' = [handle EXCEPT ![k] = Unused]
            /\ UNCHANGED <<content, got, todo>>

Lose(k) == /\ Quiet /\ trouble' > trouble
           /\ \A f \in Files \ {handle[k].file} : content'[f] = content[f]
           /\ UNCHANGED <<handle, got, todo>>

Delete(f) == /\ Quiet /\ \A k \in Fcbs : handle[k].file # f
             /\ content' = [content EXCEPT ![f] = {}]
             /\ UNCHANGED <<handle, got, todo>>

\* A sector that cannot be written, or a restart: nothing is promised here.
Astray == trouble' = -1

Next ==
  \/ Astray
  \/ /\ trouble' >= trouble
     /\ \/ UNCHANGED <<content, handle, got, todo>>
        \/ \E k \in InUse : Seek(k) \/ Read(k) \/ Write(k) \/ Close(k) \/ Lose(k)
        \/ \E k \in Fcbs, f \in Files : Open(k, f)
        \/ \E f \in Files : Delete(f)
        \/ Ask \/ Done

Spec == Init /\ [][Next]_vars
=============================================================================
