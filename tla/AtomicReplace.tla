---------------------------- MODULE AtomicReplace ----------------------------
(***************************************************************************)
(* How agents.json and aimee.yaml are rewritten: a temporary file named    *)
(* after the process, then rename over the target (the end of              *)
(* agent_save_config_impl, of config_save and of config_write_doc).        *)
(*                                                                         *)
(* The file system is modelled by what POSIX promises of it: names lead to *)
(* inodes, an open file keeps its inode, rename swaps a name in one step,  *)
(* and a crash leaves of each inode and of the directory what had reached  *)
(* the disk, in any order except that fsync waits for its inode.           *)
(***************************************************************************)
EXTENDS Integers, FiniteSets

CONSTANTS
    Threads,  \* threads that save the file, in one process or in several
    Pid,      \* thread -> process: the temporary file is <path>.tmp.<pid>
    Old,      \* the writer of the file that is there at the start
    NChunks,  \* a save is written in this many pieces
    Inodes,   \* bound on the inodes that exist at a time
    Nil,      \* no inode; no bytes
    Fsync,    \* the writer calls fsync before rename (agents.json does)
    Checked   \* the writer looks at the results of its writes (agents.json does)

ASSUME ReplaceAssumption ==
    /\ Old \notin Threads /\ Nil \notin Inodes \cup Threads \cup {Old}
    /\ \A t \in Threads : Pid[t] # "target"
    /\ {Fsync, Checked} \subseteq BOOLEAN
    /\ NChunks \in Nat \ {0}

Chunks == 1..NChunks
Procs == {Pid[t] : t \in Threads}
Names == Procs \cup {"target"}      \* the temporary name of a process, the target
Empty == [k \in Chunks |-> Nil]
By(t) == [k \in Chunks |-> t]

VARIABLES
    dir,   \* name -> inode
    data,  \* inode -> chunk -> who wrote it
    ddir,  \* dir and data as they are on the disk
    ddata,
    pc,    \* thread -> where its save is
    fd,    \* thread -> inode it has open
    off    \* thread -> chunks it has written

vars == <<dir, data, ddir, ddata, pc, fd, off>>

Init ==
    /\ \E i \in Inodes :
          /\ dir = [n \in Names |-> IF n = "target" THEN i ELSE Nil]
          /\ data = [j \in Inodes |-> IF j = i THEN By(Old) ELSE Empty]
    /\ ddir = dir
    /\ ddata = data
    /\ pc = [t \in Threads |-> "idle"]
    /\ fd = [t \in Threads |-> Nil]
    /\ off = [t \in Threads |-> 0]

Goto(t, l) == pc' = [pc EXCEPT ![t] = l]

\* An inode nothing refers to.
Free(i) == /\ \A n \in Names : dir[n] # i /\ ddir[n] # i
           /\ \A t \in Threads : fd[t] # i

\* open(O_CREAT | O_TRUNC), or fopen "w", of a name: what is there is emptied,
\* a new inode has no old bytes on the disk either.
OpenName(t, n) ==
    /\ pc[t] = "idle"
    /\ \E i \in Inodes :
          /\ IF dir[n] # Nil THEN i = dir[n] /\ UNCHANGED ddata
                            ELSE Free(i) /\ ddata' = [ddata EXCEPT ![i] = Empty]
          /\ dir' = [dir EXCEPT ![n] = i]
          /\ data' = [data EXCEPT ![i] = Empty]
          /\ fd' = [fd EXCEPT ![t] = i]
    /\ off' = [off EXCEPT ![t] = 0]
    /\ Goto(t, "write")
    /\ UNCHANGED ddir

\* Mutant: the target itself is opened for writing.
OpenTarget(t) == OpenName(t, "target")
Open(t) == OpenName(t, Pid[t])

\* Mutant: one write too many.
WritePastEnd(t) ==
    /\ pc[t] = "write"
    /\ off[t] \in Chunks \cup {0}
    /\ off' = [off EXCEPT ![t] = @ + 1]
    /\ data' = [data EXCEPT ![fd[t]] = [k \in Chunks |-> IF k = off'[t] THEN t ELSE @[k]]]
    /\ UNCHANGED <<dir, ddir, ddata, pc, fd>>

\* Each descriptor has its own offset.
Write(t) ==
    /\ pc[t] = "write"
    /\ off[t] + 1 \in Chunks
    /\ data' = [data EXCEPT ![fd[t]][off[t] + 1] = t]
    /\ off' = [off EXCEPT ![t] = @ + 1]
    /\ UNCHANGED <<dir, ddir, ddata, pc, fd>>

Written(t) ==
    /\ pc[t] = "write"
    /\ off[t] + 1 \notin Chunks
    /\ Goto(t, IF Fsync THEN "sync" ELSE "rename")
    /\ UNCHANGED <<dir, data, ddir, ddata, fd, off>>

Sync(t) ==
    /\ pc[t] = "sync"
    /\ ddata' = [ddata EXCEPT ![fd[t]] = data[fd[t]]]
    /\ Goto(t, "rename")
    /\ UNCHANGED <<dir, data, ddir, fd, off>>

Close(t) ==
    /\ Goto(t, "idle")
    /\ fd' = [fd EXCEPT ![t] = Nil]
    /\ off' = [off EXCEPT ![t] = 0]

\* unlink(tmp); the save returns -1.
GiveUp(t) == Close(t) /\ dir' = [dir EXCEPT ![Pid[t]] = Nil]

\* Mutant: nobody looks at the results of the writes.
FailsUnseen(t) ==
    /\ pc[t] \in {"write", "sync"}
    /\ Goto(t, "rename")
    /\ UNCHANGED <<dir, data, ddir, ddata, fd, off>>

\* A full disk, an I/O error.  Whoever does not look at the result goes on to
\* rename what was written.
Fails(t) ==
    /\ pc[t] \in {"write", "sync"}
    /\ IF Checked THEN GiveUp(t) ELSE Goto(t, "rename") /\ UNCHANGED <<dir, fd, off>>
    /\ UNCHANGED <<data, ddir, ddata>>

\* rename(tmp, path); the save returns 0.
Rename(t) ==
    /\ pc[t] = "rename"
    /\ dir[Pid[t]] # Nil
    /\ dir' = [dir EXCEPT !["target"] = dir[Pid[t]], ![Pid[t]] = Nil]
    /\ Close(t)
    /\ UNCHANGED <<data, ddir, ddata>>

\* An error of rename; ENOENT if another thread has taken the temporary file away.
RenameFails(t) ==
    /\ pc[t] = "rename"
    /\ GiveUp(t)
    /\ UNCHANGED <<data, ddir, ddata>>

\* Write-back, at the kernel's leisure.
FlushInode(i) == /\ ddata' = [ddata EXCEPT ![i] = data[i]]
                 /\ UNCHANGED <<dir, data, ddir, pc, fd, off>>
FlushDir == /\ ddir' = dir
            /\ UNCHANGED <<dir, data, ddata, pc, fd, off>>

Crash ==
    /\ dir' = ddir
    /\ data' = ddata
    /\ pc' = [t \in Threads |-> "idle"]
    /\ fd' = [t \in Threads |-> Nil]
    /\ off' = [t \in Threads |-> 0]
    /\ UNCHANGED <<ddir, ddata>>

Next ==
    \/ \E t \in Threads : \/ Open(t) \/ Write(t) \/ Written(t) \/ Sync(t) \/ Fails(t)
                          \/ Rename(t) \/ RenameFails(t)
    \/ \E i \in Inodes : FlushInode(i)
    \/ FlushDir
    \/ Crash

Spec == Init /\ [][Next]_vars
-----------------------------------------------------------------------------

TypeOK ==
    /\ dir \in [Names -> Inodes \cup {Nil}]
    /\ data \in [Inodes -> [Chunks -> Threads \cup {Old, Nil}]]
    /\ ddir \in [Names -> Inodes \cup {Nil}]
    /\ ddata \in [Inodes -> [Chunks -> Threads \cup {Old, Nil}]]
    /\ pc \in [Threads -> {"idle", "write", "sync", "rename"}]
    /\ fd \in [Threads -> Inodes \cup {Nil}]
    /\ off \in [Threads -> Chunks \cup {0}]

Whole(i) == \E t \in Threads \cup {Old} : data[i] = By(t)

(***************************************************************************)
(* "An interrupted or failed write can NEVER leave a truncated or empty    *)
(* agents.json": at every instant, also right after a crash, the target is *)
(* one save, whole.                                                        *)
(***************************************************************************)
TargetIsWhole == dir["target"] # Nil /\ Whole(dir["target"])

(***************************************************************************)
(* A save that returns success has installed exactly what it was given     *)
(* ("failed save/set returns an error").                                   *)
(***************************************************************************)
SuccessIsReal ==
    [][\A t \in Threads : pc[t] = "rename" /\ dir[Pid[t]] # Nil /\ pc'[t] = "idle"
                          /\ dir'["target"] = dir[Pid[t]]
            => data[dir'["target"]] = By(t)]_vars
=============================================================================
