------------------------ MODULE AtomicReplace_proofs ------------------------
(***************************************************************************)
(* agents.json is replaced atomically, for any number of processes, pieces *)
(* and inodes, whatever fails and whenever the machine stops.  The         *)
(* hypotheses, of all but the types, are the writer's: every writer is a   *)
(* process of its own, it calls fsync and it looks at its results.  With   *)
(* threads that share a process the theorem is false (run replace_shared). *)
(***************************************************************************)
EXTENDS AtomicReplace, TLAPS
-----------------------------------------------------------------------------
(* Types, of any writers.                                                  *)

Contents == [Chunks -> Threads \cup {Old, Nil}]

\* What is emptied and what is saved are contents, and a temporary file has a name.
LEMMA Pieces == /\ Empty \in Contents
                /\ \A t \in Threads \cup {Old} : By(t) \in Contents
                /\ \A t \in Threads : Pid[t] \in Names /\ Pid[t] # "target"
BY ReplaceAssumption DEF Empty, By, Contents, Names, Procs

LEMMA InitType == Init => TypeOK
<1> SUFFICES ASSUME Init PROVE TypeOK OBVIOUS
<1>1. PICK i \in Inodes :
         /\ dir = [n \in Names |-> IF n = "target" THEN i ELSE Nil]
         /\ data = [j \in Inodes |-> IF j = i THEN By(Old) ELSE Empty]
  BY DEF Init
<1>2. dir \in [Names -> Inodes \cup {Nil}]
  BY <1>1
<1>3. data \in [Inodes -> Contents]
  BY <1>1, Pieces
<1> QED
  BY <1>2, <1>3 DEF Init, TypeOK, Contents

\* A save that ends, however it does, takes its name away.
LEMMA EndType ==
  ASSUME TypeOK, NEW t \in Threads, Close(t),
         dir' \in [Names -> Inodes \cup {Nil}], UNCHANGED <<data, ddir, ddata>>
  PROVE  TypeOK'
<1>1. pc' \in [Threads -> {"idle", "write", "sync", "rename"}]
  BY DEF Close, Goto, TypeOK
<1>2. fd' \in [Threads -> Inodes \cup {Nil}] /\ off' \in [Threads -> Chunks \cup {0}]
  BY DEF Close, TypeOK
<1> QED
  BY <1>1, <1>2 DEF TypeOK

LEMMA NextType == TypeOK /\ [Next]_vars => TypeOK'
<1> SUFFICES ASSUME TypeOK, [Next]_vars PROVE TypeOK' OBVIOUS
<1>1. ASSUME NEW t \in Threads, Open(t) PROVE TypeOK'
  <2>1. PICK i \in Inodes :
           /\ ddata' = ddata \/ ddata' = [ddata EXCEPT ![i] = Empty]
           /\ dir' = [dir EXCEPT ![Pid[t]] = i]
           /\ data' = [data EXCEPT ![i] = Empty]
           /\ fd' = [fd EXCEPT ![t] = i]
    BY <1>1 DEF Open, OpenName
  <2>2. data' \in [Inodes -> Contents] /\ ddata' \in [Inodes -> Contents]
    BY <2>1, Pieces DEF TypeOK, Contents
  <2>3. dir' \in [Names -> Inodes \cup {Nil}] /\ fd' \in [Threads -> Inodes \cup {Nil}]
    BY <2>1 DEF TypeOK
  <2>4. pc' \in [Threads -> {"idle", "write", "sync", "rename"}]
    BY <1>1 DEF Open, OpenName, Goto, TypeOK
  <2>5. off' \in [Threads -> Chunks \cup {0}] /\ ddir' = ddir
    BY <1>1 DEF Open, OpenName, TypeOK
  <2> QED
    BY <2>2, <2>3, <2>4, <2>5 DEF TypeOK, Contents
<1>2. ASSUME NEW t \in Threads, Write(t) PROVE TypeOK'
  <2>1. data' \in [Inodes -> Contents]
    <3>1. data' = [data EXCEPT ![fd[t]][off[t] + 1] = t] /\ data \in [Inodes -> Contents]
      BY <1>2 DEF Write, TypeOK, Contents
    <3>2. CASE fd[t] \in Inodes
      <4>1. [data[fd[t]] EXCEPT ![off[t] + 1] = t] \in Contents
        BY <3>1, <3>2 DEF Contents
      <4> QED
        BY <3>1, <4>1
    <3>3. CASE fd[t] \notin Inodes
      BY <3>1, <3>3
    <3> QED
      BY <3>2, <3>3
  <2>2. off' \in [Threads -> Chunks \cup {0}]
    BY <1>2 DEF Write, TypeOK
  <2> QED
    BY <1>2, <2>1, <2>2 DEF Write, TypeOK, Contents
<1>3. ASSUME NEW t \in Threads, Written(t) PROVE TypeOK'
  BY <1>3 DEF Written, Goto, TypeOK
<1>4. ASSUME NEW t \in Threads, Sync(t) PROVE TypeOK'
  <2>1. ddata' = [ddata EXCEPT ![fd[t]] = data[fd[t]]]
    BY <1>4 DEF Sync
  <2>2. ddata' \in [Inodes -> Contents]
    <3>1. CASE fd[t] \in Inodes
      BY <2>1, <3>1 DEF TypeOK, Contents
    <3>2. CASE fd[t] \notin Inodes
      BY <2>1, <3>2 DEF TypeOK, Contents
    <3> QED
      BY <3>1, <3>2
  <2> QED
    BY <1>4, <2>2 DEF Sync, Goto, TypeOK, Contents
<1>5. ASSUME NEW t \in Threads, Fails(t) PROVE TypeOK'
  <2>1. CASE Checked
    <3>1. Close(t) /\ dir' \in [Names -> Inodes \cup {Nil}]
      BY <1>5, <2>1 DEF Fails, GiveUp, TypeOK
    <3> QED
      BY <1>5, <3>1, EndType DEF Fails
  <2>2. CASE ~Checked
    BY <1>5, <2>2 DEF Fails, Goto, TypeOK
  <2> QED
    BY <2>1, <2>2
<1>6. ASSUME NEW t \in Threads, Rename(t) PROVE TypeOK'
  <2>1. dir' \in [Names -> Inodes \cup {Nil}]
    BY <1>6, Pieces DEF Rename, TypeOK
  <2> QED
    BY <1>6, <2>1, EndType DEF Rename
<1>7. ASSUME NEW t \in Threads, RenameFails(t) PROVE TypeOK'
  <2>1. Close(t) /\ dir' \in [Names -> Inodes \cup {Nil}]
    BY <1>7 DEF RenameFails, GiveUp, TypeOK
  <2> QED
    BY <1>7, <2>1, EndType DEF RenameFails
<1>8. ASSUME NEW i \in Inodes, FlushInode(i) PROVE TypeOK'
  BY <1>8 DEF FlushInode, TypeOK
<1>9. CASE FlushDir
  BY <1>9 DEF FlushDir, TypeOK
<1>10. CASE Crash
  BY <1>10 DEF Crash, TypeOK
<1>11. CASE UNCHANGED vars
  BY <1>11 DEF vars, TypeOK
<1> QED
  BY <1>1, <1>2, <1>3, <1>4, <1>5, <1>6, <1>7, <1>8, <1>9, <1>10, <1>11 DEF Next

(***************************************************************************)
(* The file system and the writers stay in their types for agents.json and *)
(* for aimee.yaml, with threads that share a temporary name too: nothing   *)
(* is assumed of the writers.                                              *)
(***************************************************************************)
THEOREM TypeCorrect == Spec => []TypeOK
  BY InitType, NextType, PTL DEF Spec
-----------------------------------------------------------------------------
(* One save, whole, of writers that are processes, sync and check.         *)

\* What the theorems assume of the writers.
AgentsWriter ==
    /\ Fsync = TRUE /\ Checked = TRUE
    /\ \A t, u \in Threads : Pid[t] = Pid[u] => t = u

\* No inode has two names, in memory or on the disk.
OneName == \A m, n \in Names : m # n =>
               /\ dir[m] = dir[n] => dir[m] = Nil
               /\ ddir[m] = ddir[n] => ddir[m] = Nil

\* The target of the disk is nobody's temporary file.
TargetNotTemp == \A n \in Procs : dir[n] # ddir["target"]

\* An inode that is one save, whole, and all of it on the disk.
Solid(i) == i # Nil /\ \E u \in Threads \cup {Old} : data[i] = By(u) /\ ddata[i] = By(u)
TargetsSolid == Solid(dir["target"]) /\ Solid(ddir["target"])

\* A writer has its own temporary file open, and is as far as its pc says.
WriterAt(t) ==
    /\ pc[t] # "idle" => fd[t] # Nil /\ fd[t] = dir[Pid[t]]
    /\ pc[t] = "idle" => fd[t] = Nil
    /\ pc[t] = "write" => \A k \in Chunks : k <= off[t] => data[fd[t]][k] = t
    /\ pc[t] = "sync" => data[fd[t]] = By(t)
    /\ pc[t] = "rename" => data[fd[t]] = By(t) /\ ddata[fd[t]] = By(t)

Inv == TypeOK /\ OneName /\ TargetNotTemp /\ TargetsSolid /\ \A t \in Threads : WriterAt(t)
-----------------------------------------------------------------------------

LEMMA InvInit == Init => Inv
<1> SUFFICES ASSUME Init PROVE Inv
  OBVIOUS
<1>1. PICK i \in Inodes :
         /\ dir = [n \in Names |-> IF n = "target" THEN i ELSE Nil]
         /\ data = [j \in Inodes |-> IF j = i THEN By(Old) ELSE Empty]
  BY DEF Init
<1>2. TypeOK
  BY InitType
<1>3. OneName /\ TargetNotTemp
  BY <1>1, ReplaceAssumption DEF Init, OneName, TargetNotTemp, Names, Procs
<1>4. TargetsSolid
  BY <1>1, ReplaceAssumption DEF Init, TargetsSolid, Solid, Names
<1>5. \A t \in Threads : WriterAt(t)
  BY DEF Init, WriterAt
<1> QED
  BY <1>2, <1>3, <1>4, <1>5 DEF Inv

\* Opening the temporary file empties an inode that is neither the target, here
\* or on the disk, nor open in another process.
LEMMA OpenStep ==
  ASSUME AgentsWriter, Inv, NEW t \in Threads, Open(t)
  PROVE  Inv'
<1> USE DEF Inv
<1>1. PICK i \in Inodes :
         /\ IF dir[Pid[t]] # Nil THEN i = dir[Pid[t]] /\ UNCHANGED ddata
                                 ELSE Free(i) /\ ddata' = [ddata EXCEPT ![i] = Empty]
         /\ dir' = [dir EXCEPT ![Pid[t]] = i]
         /\ data' = [data EXCEPT ![i] = Empty]
         /\ fd' = [fd EXCEPT ![t] = i]
  BY DEF Open, OpenName
<1>2. Pid[t] \in Names /\ Pid[t] # "target" /\ "target" \in Names /\ i # Nil
  BY ReplaceAssumption DEF Names, Procs
<1>3. i # dir["target"] /\ i # ddir["target"]
  BY <1>1, <1>2 DEF OneName, TargetNotTemp, Free, Procs
<1>4. \A n \in Names : n # Pid[t] => dir[n] # i
  BY <1>1, <1>2 DEF OneName, Free
<1>5. \A u \in Threads : u # t => fd[u] # i
  <2> SUFFICES ASSUME NEW u \in Threads, u # t PROVE fd[u] # i
    OBVIOUS
  <2>1. Pid[u] \in Names /\ Pid[u] # Pid[t]
    BY DEF AgentsWriter, Names, Procs
  <2> QED
    BY <1>2, <1>4, <2>1 DEF WriterAt
<1>6. /\ pc' = [pc EXCEPT ![t] = "write"]
      /\ off' = [off EXCEPT ![t] = 0]
      /\ ddir' = ddir
  BY DEF Open, OpenName, Goto
<1>7. \A j \in Inodes : j # i => data'[j] = data[j] /\ ddata'[j] = ddata[j]
  BY <1>1 DEF TypeOK
<1>8. TypeOK'
  BY NextType DEF Next
<1>9. OneName' /\ TargetNotTemp'
  <2>1. /\ dir'[Pid[t]] = i /\ ddir' = ddir
        /\ \A n \in Names : n # Pid[t] => dir'[n] = dir[n]
    BY <1>1, <1>2, <1>6 DEF TypeOK
  <2>2. OneName'
    BY <1>4, <2>1 DEF OneName
  <2>3. TargetNotTemp'
    BY <1>3, <2>1 DEF TargetNotTemp, Names
  <2> QED
    BY <2>2, <2>3
<1>10. TargetsSolid'
  <2>1. dir'["target"] = dir["target"]
    BY <1>1, <1>2 DEF TypeOK
  <2>2. dir["target"] \in Inodes /\ ddir["target"] \in Inodes
    BY <1>2 DEF TypeOK, TargetsSolid, Solid
  <2>3. /\ data'[dir["target"]] = data[dir["target"]]
        /\ ddata'[dir["target"]] = ddata[dir["target"]]
        /\ data'[ddir["target"]] = data[ddir["target"]]
        /\ ddata'[ddir["target"]] = ddata[ddir["target"]]
    BY <1>3, <1>7, <2>2
  <2> QED
    BY <1>6, <2>1, <2>3 DEF TargetsSolid, Solid
<1>11. ASSUME NEW u \in Threads PROVE WriterAt(u)'
  <2>1. CASE u = t
    BY <1>1, <1>2, <1>6, <2>1 DEF TypeOK, WriterAt, Chunks
  <2>2. CASE u # t
    <3>1. Pid[u] # Pid[t] /\ pc'[u] = pc[u] /\ fd'[u] = fd[u] /\ off'[u] = off[u]
      BY <1>1, <1>6, <2>2 DEF AgentsWriter, TypeOK
    <3>2. dir'[Pid[u]] = dir[Pid[u]]
      BY <1>1, <3>1 DEF TypeOK, Names, Procs
    <3>3. fd[u] # Nil => data'[fd[u]] = data[fd[u]] /\ ddata'[fd[u]] = ddata[fd[u]]
      BY <1>5, <1>7, <2>2 DEF TypeOK
    <3> QED
      BY <3>1, <3>2, <3>3 DEF WriterAt
  <2> QED
    BY <2>1, <2>2
<1> QED
  BY <1>8, <1>9, <1>10, <1>11

\* What a writer has open is neither target, nor open in another process.
LEMMA OwnInode ==
  ASSUME AgentsWriter, Inv, NEW t \in Threads, pc[t] # "idle"
  PROVE  /\ fd[t] \in Inodes /\ fd[t] = dir[Pid[t]]
         /\ Pid[t] \in Names /\ Pid[t] # "target" /\ "target" \in Names
         /\ fd[t] # dir["target"] /\ fd[t] # ddir["target"]
         /\ \A u \in Threads : u # t => fd[u] # fd[t] /\ Pid[u] # Pid[t] /\ Pid[u] \in Names
<1>1. fd[t] \in Inodes /\ fd[t] # Nil /\ fd[t] = dir[Pid[t]]
  BY DEF Inv, TypeOK, WriterAt
<1>2. Pid[t] \in Names /\ Pid[t] # "target" /\ "target" \in Names /\ Pid[t] \in Procs
  BY ReplaceAssumption DEF Names, Procs
<1>3. fd[t] # dir["target"] /\ fd[t] # ddir["target"]
  BY <1>1, <1>2 DEF Inv, OneName, TargetNotTemp
<1>4. ASSUME NEW u \in Threads, u # t
      PROVE  fd[u] # fd[t] /\ Pid[u] # Pid[t] /\ Pid[u] \in Names
  <2>1. Pid[u] \in Names /\ Pid[u] # Pid[t]
    BY <1>4 DEF AgentsWriter, Names, Procs
  <2> QED
    BY <1>1, <1>2, <2>1 DEF Inv, OneName, WriterAt
<1> QED
  BY <1>1, <1>2, <1>3, <1>4

LEMMA WriterStep ==
  ASSUME AgentsWriter, Inv, NEW t \in Threads,
         Write(t) \/ Written(t) \/ Sync(t)
  PROVE  Inv'
<1> USE DEF Inv
<1>1. /\ fd[t] \in Inodes /\ fd[t] = dir[Pid[t]]
      /\ fd[t] # dir["target"] /\ fd[t] # ddir["target"]
      /\ \A u \in Threads : u # t => fd[u] # fd[t]
  BY OwnInode DEF Write, Written, Sync
<1>2. dir' = dir /\ ddir' = ddir /\ fd' = fd
  BY DEF Write, Written, Sync
<1>3. OneName' /\ TargetNotTemp'
  BY <1>2 DEF OneName, TargetNotTemp
<1>4. \A j \in Inodes : j # fd[t] => data'[j] = data[j] /\ ddata'[j] = ddata[j]
  BY DEF Write, Written, Sync, TypeOK
<1>5. TargetsSolid'
  <2>1. dir["target"] \in Inodes /\ ddir["target"] \in Inodes
    BY ReplaceAssumption DEF TypeOK, TargetsSolid, Solid, Names
  <2>2. /\ data'[dir["target"]] = data[dir["target"]]
        /\ ddata'[dir["target"]] = ddata[dir["target"]]
        /\ data'[ddir["target"]] = data[ddir["target"]]
        /\ ddata'[ddir["target"]] = ddata[ddir["target"]]
    BY <1>1, <1>4, <2>1
  <2> QED
    BY <1>2, <2>2 DEF TargetsSolid, Solid
<1>6. ASSUME NEW u \in Threads, u # t PROVE WriterAt(u)'
  <2>1. pc'[u] = pc[u] /\ off'[u] = off[u]
    BY <1>6 DEF Write, Written, Sync, Goto, TypeOK
  <2>2. fd[u] # Nil => data'[fd[u]] = data[fd[u]] /\ ddata'[fd[u]] = ddata[fd[u]]
    BY <1>1, <1>4, <1>6 DEF TypeOK
  <2> QED
    BY <1>2, <2>1, <2>2 DEF WriterAt
<1>7. CASE Write(t)
  <2>1. TypeOK'
    BY <1>1, <1>7 DEF Write, TypeOK, Chunks
  <2>2. /\ pc'[t] = "write" /\ off[t] \in Nat /\ off'[t] = off[t] + 1
        /\ data'[fd[t]] = [data[fd[t]] EXCEPT ![off[t] + 1] = t]
    BY <1>1, <1>7 DEF Write, TypeOK, Chunks
  <2>3. data[fd[t]] \in [Chunks -> Threads \cup {Old, Nil}] /\ off[t] + 1 \in Chunks
    BY <1>1, <1>7 DEF Write, TypeOK
  <2>4. ASSUME NEW k \in Chunks, k <= off'[t] PROVE data'[fd[t]][k] = t
    <3>1. CASE k = off[t] + 1
      BY <2>2, <2>3, <3>1
    <3>2. CASE k # off[t] + 1
      <4>1. k <= off[t]
        BY <2>2, <2>4, <3>2 DEF Chunks
      <4>2. data[fd[t]][k] = t
        BY <1>7, <4>1 DEF Write, WriterAt
      <4> QED
        BY <2>2, <2>3, <3>2, <4>2
    <3> QED
      BY <3>1, <3>2
  <2>5. WriterAt(t)'
    <3>1. fd'[t] # Nil /\ fd'[t] = dir'[Pid[t]]
      BY <1>1, <1>2, ReplaceAssumption
    <3> QED
      BY <1>2, <2>2, <2>4, <3>1 DEF WriterAt
  <2> QED
    BY <1>3, <1>5, <1>6, <2>1, <2>5
<1>8. CASE Written(t)
  <2>1. TypeOK'
    BY <1>8 DEF Written, Goto, TypeOK, AgentsWriter
  <2>2. off[t] = NChunks
    BY <1>8, ReplaceAssumption DEF Written, TypeOK, Chunks
  <2>3. data[fd[t]] = By(t)
    <3>1. data[fd[t]] \in [Chunks -> Threads \cup {Old, Nil}]
      BY <1>1 DEF TypeOK
    <3>2. \A k \in Chunks : data[fd[t]][k] = t
      BY <1>8, <2>2, ReplaceAssumption DEF Written, WriterAt, Chunks
    <3> QED
      BY <3>1, <3>2 DEF By
  <2>4. WriterAt(t)'
    BY <1>1, <1>8, <2>3 DEF Written, Goto, WriterAt, TypeOK, AgentsWriter
  <2> QED
    BY <1>3, <1>5, <1>6, <2>1, <2>4
<1>9. CASE Sync(t)
  <2>1. TypeOK'
    BY <1>1, <1>9 DEF Sync, Goto, TypeOK
  <2>2. WriterAt(t)'
    BY <1>1, <1>9 DEF Sync, Goto, WriterAt, TypeOK
  <2> QED
    BY <1>3, <1>5, <1>6, <2>1, <2>2
<1> QED
  BY <1>7, <1>8, <1>9

\* Giving up takes the temporary name away; renaming moves a whole save, all of
\* it on the disk, to the target.
LEMMA EndStep ==
  ASSUME AgentsWriter, Inv, NEW t \in Threads,
         Fails(t) \/ Rename(t) \/ RenameFails(t)
  PROVE  Inv'
<1> USE DEF Inv
<1>1. /\ fd[t] \in Inodes /\ fd[t] = dir[Pid[t]]
      /\ Pid[t] \in Names /\ Pid[t] # "target" /\ "target" \in Names
      /\ \A u \in Threads : u # t => Pid[u] # Pid[t] /\ Pid[u] \in Names
  BY OwnInode DEF Fails, Rename, RenameFails
<1>2. data' = data /\ ddata' = ddata /\ ddir' = ddir
  BY DEF Fails, Rename, RenameFails
<1>3. /\ pc' = [pc EXCEPT ![t] = "idle"]
      /\ fd' = [fd EXCEPT ![t] = Nil]
      /\ off' = [off EXCEPT ![t] = 0]
  BY DEF Fails, Rename, RenameFails, GiveUp, Close, Goto, AgentsWriter
<1>4. /\ dir' \in [Names -> Inodes \cup {Nil}]
      /\ dir'[Pid[t]] = Nil
      /\ \A n \in Names \ {Pid[t], "target"} : dir'[n] = dir[n]
      /\ dir'["target"] = IF Rename(t) THEN fd[t] ELSE dir["target"]
  <2>1. CASE Rename(t)
    BY <1>1, <2>1 DEF Rename, TypeOK
  <2>2. CASE ~Rename(t)
    <3>1. dir' = [dir EXCEPT ![Pid[t]] = Nil]
      BY <2>2 DEF Fails, RenameFails, GiveUp, AgentsWriter
    <3> QED
      BY <1>1, <2>2, <3>1 DEF TypeOK
  <2> QED
    BY <2>1, <2>2
<1>5. TypeOK'
  BY <1>2, <1>3, <1>4 DEF TypeOK
<1>6. OneName'
  BY <1>1, <1>2, <1>4 DEF OneName
<1>7. TargetNotTemp'
  BY <1>1, <1>2, <1>4, ReplaceAssumption DEF TargetNotTemp, TargetsSolid, Solid, Names, Procs
<1>8. TargetsSolid'
  <2>1. Rename(t) => Solid(fd[t])
    BY <1>1, ReplaceAssumption DEF Rename, WriterAt, Solid
  <2> QED
    BY <1>2, <1>4, <2>1 DEF TargetsSolid, Solid
<1>9. ASSUME NEW u \in Threads PROVE WriterAt(u)'
  <2>1. CASE u = t
    BY <1>3, <2>1 DEF WriterAt, TypeOK
  <2>2. CASE u # t
    <3>1. pc'[u] = pc[u] /\ fd'[u] = fd[u] /\ off'[u] = off[u]
      BY <1>3, <2>2 DEF TypeOK
    <3>2. Pid[u] # "target" /\ dir'[Pid[u]] = dir[Pid[u]]
      BY <1>1, <1>4, <2>2, ReplaceAssumption
    <3> QED
      BY <1>2, <3>1, <3>2 DEF WriterAt
  <2> QED
    BY <2>1, <2>2
<1> QED
  BY <1>5, <1>6, <1>7, <1>8, <1>9

\* Write-back in any order, and a crash that leaves what was written back.
LEMMA DiskStep ==
  ASSUME AgentsWriter, Inv, (\E i \in Inodes : FlushInode(i)) \/ FlushDir \/ Crash
  PROVE  Inv'
<1> USE DEF Inv
<1>0. Procs \subseteq Names /\ "target" \in Names /\ "target" \notin Procs
  BY ReplaceAssumption DEF Names, Procs
<1>1. ASSUME NEW i \in Inodes, FlushInode(i) PROVE Inv'
  <2>1. TypeOK' /\ OneName' /\ TargetNotTemp'
    BY <1>1 DEF FlushInode, TypeOK, OneName, TargetNotTemp
  <2>2. \A j \in Inodes : ddata'[j] \in {ddata[j], data[j]} /\ data'[j] = data[j]
    BY <1>1 DEF FlushInode, TypeOK
  <2>3. TargetsSolid'
    BY <1>1, <1>0, <2>2 DEF FlushInode, TypeOK, TargetsSolid, Solid
  <2>4. ASSUME NEW t \in Threads PROVE WriterAt(t)'
    BY <1>1, <2>2 DEF FlushInode, TypeOK, WriterAt
  <2> QED
    BY <2>1, <2>3, <2>4
<1>2. CASE FlushDir
  <2>1. TypeOK' /\ OneName' /\ TargetsSolid'
    BY <1>2 DEF FlushDir, TypeOK, OneName, TargetsSolid, Solid
  <2>2. TargetNotTemp'
    BY <1>0, <1>2 DEF FlushDir, OneName, TargetNotTemp, TargetsSolid, Solid
  <2>3. ASSUME NEW t \in Threads PROVE WriterAt(t)'
    BY <1>2 DEF FlushDir, WriterAt
  <2> QED
    BY <2>1, <2>2, <2>3
<1>3. CASE Crash
  <2>1. TypeOK' /\ OneName' /\ TargetsSolid'
    BY <1>3 DEF Crash, TypeOK, OneName, TargetsSolid, Solid
  <2>2. TargetNotTemp'
    BY <1>0, <1>3 DEF Crash, OneName, TargetNotTemp, TargetsSolid, Solid
  <2>3. ASSUME NEW t \in Threads PROVE WriterAt(t)'
    BY <1>3 DEF Crash, WriterAt
  <2> QED
    BY <2>1, <2>2, <2>3
<1> QED
  BY <1>1, <1>2, <1>3

LEMMA InvNext == ASSUME AgentsWriter, Inv, [Next]_vars PROVE Inv'
<1>1. CASE Next
  BY <1>1, OpenStep, WriterStep, EndStep, DiskStep DEF Next
<1>2. CASE UNCHANGED vars
  BY <1>2 DEF vars, Inv, TypeOK, OneName, TargetNotTemp, TargetsSolid, Solid, WriterAt
<1> QED
  BY <1>1, <1>2

LEMMA Invariance == ASSUME AgentsWriter PROVE Spec => []Inv
  BY InvInit, InvNext, PTL DEF Spec
-----------------------------------------------------------------------------

(***************************************************************************)
(* agents.json is one save, whole, at every instant, right after a crash   *)
(* included, however many processes rewrite it.                            *)
(***************************************************************************)
THEOREM TargetStaysWhole == ASSUME AgentsWriter PROVE Spec => []TargetIsWhole
<1>1. Inv => TargetIsWhole
  BY DEF Inv, TargetsSolid, Solid, TargetIsWhole, Whole
<1> QED
  BY <1>1, Invariance, PTL

(***************************************************************************)
(* A save that returns success has installed all of what it was given.     *)
(***************************************************************************)
THEOREM SuccessIsInstalled == ASSUME AgentsWriter PROVE Spec => SuccessIsReal
<1>1. ASSUME Inv, [Next]_vars
      PROVE  [\A t \in Threads : pc[t] = "rename" /\ dir[Pid[t]] # Nil /\ pc'[t] = "idle"
                                 /\ dir'["target"] = dir[Pid[t]]
                  => data[dir'["target"]] = By(t)]_vars
  BY <1>1 DEF Inv, WriterAt
<1> QED
  BY <1>1, Invariance, PTL DEF Spec, SuccessIsReal
=============================================================================
