---------------------------- MODULE AtomicWrite ----------------------------
(***************************************************************************)
(* One path in a directory, the processes that write it and the processes  *)
(* that read it.  The same function is written out three times in this     *)
(* repository (gatewayctl/internal/atomicwrite, config_server/main.go and  *)
(* fetcher/main.go): create a temporary file beside the target, write it,  *)
(* close it, rename it over the target.                                    *)
(*                                                                         *)
(* A file's data is the content it was meant to hold and how many of its   *)
(* chunks have reached it.  An open file descriptor keeps its inode, so a  *)
(* reader that opened the path before a rename goes on reading the old     *)
(* file.                                                                   *)
(***************************************************************************)
EXTENDS Naturals, FiniteSets

CONSTANTS
  Inode,         \* the files the directory can hold; a bound on leftovers
  Content,       \* what writers write
  Chunks,        \* number of write calls that make a file complete
  Writer,        \* processes that write the path with atomicWrite
  Reader,        \* processes that read the path: Envoy, config_server's GET
  Seed,          \* the inode the path names at the start
  SeedContent,   \* its content
  Nothing        \* no file open, nothing read yet

ASSUME ConstantsAssumption ==
  /\ Seed \in Inode /\ SeedContent \in Content
  /\ Chunks \in Nat \ {0}
  /\ Nothing \notin Inode /\ Nothing \notin Content

File == [of : Content, len : 0..Chunks]

VARIABLES
  name,    \* the inode the path names
  data,    \* the data of every inode
  temps,   \* inodes with a ".tmp-" name in the directory
  pc, fd,  \* where each writer is, and its temporary file
  opened,  \* the file each reader holds open
  result   \* what each reader read last

vars == <<name, data, temps, pc, fd, opened, result>>

Init ==
  /\ name = Seed
  /\ data = [n \in Inode |-> [of |-> SeedContent, len |-> Chunks]]
  /\ temps = {}
  /\ pc = [w \in Writer |-> "idle"]
  /\ fd = [w \in Writer |-> Nothing]
  /\ opened = [r \in Reader |-> Nothing]
  /\ result = [r \in Reader |-> Nothing]

Complete(n) == data[n].len = Chunks

\* An inode is free when no name and no descriptor refers to it.
Free ==
  Inode \ ({name} \cup temps \cup {fd[w] : w \in Writer} \cup {opened[r] : r \in Reader})

\* A plausible bug: the descriptor is never closed.
ReturnUnclosed(w) ==
  /\ pc' = [pc EXCEPT ![w] = "idle"]
  /\ UNCHANGED fd

\* Between CreateTemp and the end.
Midway(w) == pc[w] \in {"writing", "closed", "failed"}

\* The writer returns to its caller; its descriptor is closed.
Return(w) ==
  /\ pc' = [pc EXCEPT ![w] = "idle"]
  /\ fd' = [fd EXCEPT ![w] = Nothing]
-----------------------------------------------------------------------------
(* atomicWrite(path, data)                                                 *)

\* os.CreateTemp(dir, ".tmp-"): a fresh, empty file under a name of its own.
CreateTemp(w, c) ==
  /\ pc[w] = "idle"
  /\ \E n \in Free :
       /\ fd' = [fd EXCEPT ![w] = n]
       /\ data' = [data EXCEPT ![n] = [of |-> c, len |-> 0]]
       /\ temps' = temps \cup {n}
  /\ pc' = [pc EXCEPT ![w] = "writing"]
  /\ UNCHANGED <<name, opened, result>>

\* Part of tmp.Write reaches the file.
WriteChunk(w) ==
  /\ pc[w] = "writing" /\ ~Complete(fd[w])
  /\ data' = [data EXCEPT ![fd[w]].len = @ + 1]
  /\ UNCHANGED <<name, temps, pc, fd, opened, result>>

\* A plausible bug: the error is dropped and the rename goes ahead.
WriteErrorIgnored(w) ==
  /\ pc[w] = "writing"
  /\ pc' = [pc EXCEPT ![w] = "closed"]
  /\ UNCHANGED <<name, data, temps, fd, opened, result>>

\* A plausible bug: the temporary file is not removed.
WriteFailsUnremoved(w) ==
  /\ pc[w] = "writing"
  /\ Return(w)
  /\ UNCHANGED <<name, data, temps, opened, result>>

\* tmp.Write or tmp.Close returns an error: the temporary file is to be removed.
WriteFails(w) ==
  /\ pc[w] = "writing"
  /\ pc' = [pc EXCEPT ![w] = "failed"]
  /\ UNCHANGED <<name, data, temps, fd, opened, result>>

\* os.Remove(tmpPath), and the error of the write is returned.
Remove(w) ==
  /\ pc[w] = "failed"
  /\ temps' = temps \ {fd[w]}
  /\ Return(w)
  /\ UNCHANGED <<name, data, opened, result>>

\* os.Remove fails as well (the file system has gone read-only, say): nobody looks
\* at its error, and the temporary file stays.
RemoveFails(w) ==
  /\ pc[w] = "failed"
  /\ Return(w)
  /\ UNCHANGED <<name, data, temps, opened, result>>

\* A plausible bug: the file is renamed into place before it is written out.
CloseTempEarly(w) ==
  /\ pc[w] = "writing"
  /\ pc' = [pc EXCEPT ![w] = "closed"]
  /\ UNCHANGED <<name, data, temps, fd, opened, result>>

\* tmp.Write has returned without error, so has tmp.Close.
CloseTemp(w) ==
  /\ pc[w] = "writing" /\ Complete(fd[w])
  /\ pc' = [pc EXCEPT ![w] = "closed"]
  /\ UNCHANGED <<name, data, temps, fd, opened, result>>

\* os.Rename(tmpPath, path)
Rename(w) ==
  /\ pc[w] = "closed"
  /\ name' = fd[w]
  /\ temps' = temps \ {fd[w]}
  /\ Return(w)
  /\ UNCHANGED <<data, opened, result>>

\* os.Rename fails: its error is returned and the temporary file stays.
RenameFails(w) ==
  /\ pc[w] = "closed"
  /\ Return(w)
  /\ UNCHANGED <<name, data, temps, opened, result>>
-----------------------------------------------------------------------------
\* A writer's process dies: its descriptor is gone, its files stay.
Crash(w) ==
  /\ Midway(w)
  /\ pc' = [pc EXCEPT ![w] = "dead"]
  /\ fd' = [fd EXCEPT ![w] = Nothing]
  /\ UNCHANGED <<name, data, temps, opened, result>>

\* Another process takes its place.
Restart(w) ==
  /\ pc[w] = "dead"
  /\ pc' = [pc EXCEPT ![w] = "idle"]
  /\ UNCHANGED <<name, data, temps, fd, opened, result>>
-----------------------------------------------------------------------------
(* Readers, as os.ReadFile and Envoy's file loader do it: open, then read. *)

Open(r) ==
  /\ opened[r] = Nothing
  /\ opened' = [opened EXCEPT ![r] = name]
  /\ UNCHANGED <<name, data, temps, pc, fd, result>>

Read(r) ==
  /\ opened[r] # Nothing
  /\ result' = [result EXCEPT ![r] = data[opened[r]]]
  /\ opened' = [opened EXCEPT ![r] = Nothing]
  /\ UNCHANGED <<name, data, temps, pc, fd>>

Next ==
  \/ \E w \in Writer :
       \/ \E c \in Content : CreateTemp(w, c)
       \/ WriteChunk(w) \/ CloseTemp(w) \/ Rename(w) \/ RenameFails(w)
       \/ WriteFails(w) \/ Remove(w) \/ RemoveFails(w)
       \/ Crash(w) \/ Restart(w)
  \/ \E r \in Reader : Open(r) \/ Read(r)

Spec == Init /\ [][Next]_vars
-----------------------------------------------------------------------------
\* Type invariant of the directory, its writers and its readers.
TypeOK ==
  /\ name \in Inode
  /\ data \in [Inode -> File]
  /\ temps \subseteq Inode
  /\ pc \in [Writer -> {"idle", "writing", "closed", "failed", "dead"}]
  /\ fd \in [Writer -> Inode \cup {Nothing}]
  /\ \A w \in Writer : fd[w] = Nothing <=> pc[w] \in {"idle", "dead"}
  /\ opened \in [Reader -> Inode \cup {Nothing}]
  /\ result \in [Reader -> File \cup {Nothing}]

\* "A reader never observes a missing or partial file mid-swap"
\* (docs/architecture.md:25-27): whatever a reader read is complete, whichever
\* writers ran, failed or crashed between its open and its read.
ReadsComplete ==
  \A r \in Reader : result[r] # Nothing => result[r].len = Chunks

\* Temporary files nobody is writing any more.
Orphans == temps \ {fd[w] : w \in Writer}

\* A temporary file is left behind by a rename that fails, a removal that fails
\* after a failed write, or a writer that dies, one by each, and by nothing else:
\* nothing ever removes it, but a write that fails and can clean up leaves none, and
\* the directory fills up no faster than that (atomicwrite.go:19-28).
OrphansExplained ==
  [][\/ Orphans' = Orphans
     \/ \E w \in Writer :
          /\ RenameFails(w) \/ RemoveFails(w) \/ Crash(w)
          /\ Orphans' = Orphans \cup {fd[w]}]_vars

\* The path as AtomicCell's cell - what a reader that came now would find - and
\* the writers' requests, from the temporary file to the rename.
Shown == IF Complete(name) THEN data[name].of ELSE Nothing
Requested ==
  [w \in Writer |-> IF Midway(w) THEN data[fd[w]].of ELSE Nothing]

Cell == INSTANCE AtomicCell WITH
          Value <- Content, Initial <- SeedContent, Client <- Writer,
          NoRequest <- Nothing, cell <- Shown, pending <- Requested

\* The path implements AtomicCell: it goes from one whole content to another,
\* each the request of a writer that was writing it, and a write that fails or
\* dies leaves it as it was.
ImplementsCell == Cell!Spec
=============================================================================
