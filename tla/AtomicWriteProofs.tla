------------------------- MODULE AtomicWriteProofs -------------------------
(***************************************************************************)
(* Proofs about atomicWrite, for any number of writers, readers, files and *)
(* chunks.                                                                 *)
(***************************************************************************)
EXTENDS AtomicWrite, TLAPS

\* The directory and its users keep their types.
THEOREM TypeCorrect == Spec => []TypeOK
<1> USE ConstantsAssumption
<1>1. Init => TypeOK
  BY DEF Init, TypeOK, File
<1>2. TypeOK /\ [Next]_vars => TypeOK'
  <2> SUFFICES ASSUME TypeOK, [Next]_vars PROVE TypeOK'
    OBVIOUS
  <2> USE DEF TypeOK
  <2>1. ASSUME NEW w \in Writer, NEW c \in Content, CreateTemp(w, c) PROVE TypeOK'
    <3> PICK n \in Free : /\ fd' = [fd EXCEPT ![w] = n]
                          /\ data' = [data EXCEPT ![n] = [of |-> c, len |-> 0]]
                          /\ temps' = temps \cup {n}
      BY <2>1 DEF CreateTemp
    <3>1. n \in Inode
      BY DEF Free
    <3>2. [of |-> c, len |-> 0] \in File
      BY DEF File
    <3> QED
      BY <2>1, <3>1, <3>2 DEF CreateTemp
  <2>2. ASSUME NEW w \in Writer, WriteChunk(w) PROVE TypeOK'
    <3>1. fd[w] \in Inode /\ data[fd[w]] \in File
      BY <2>2 DEF WriteChunk
    <3>2. [data[fd[w]] EXCEPT !.len = @ + 1] \in File
      <4>1. data[fd[w]].len \in 0..Chunks /\ data[fd[w]].len # Chunks
        BY <2>2, <3>1 DEF WriteChunk, File, Complete
      <4>2. data[fd[w]].len + 1 \in 0..Chunks
        BY <4>1
      <4> QED
        BY <3>1, <4>2 DEF File
    <3>3. data' = [data EXCEPT ![fd[w]] = [data[fd[w]] EXCEPT !.len = @ + 1]]
      BY <2>2, <3>1 DEF WriteChunk
    <3> QED
      BY <2>2, <3>1, <3>2, <3>3 DEF WriteChunk
  <2>5. ASSUME NEW w \in Writer, CloseTemp(w) PROVE TypeOK'
    BY <2>5 DEF CloseTemp
  <2>6. ASSUME NEW w \in Writer,
               \/ Rename(w) \/ RenameFails(w) \/ Crash(w) \/ Restart(w)
               \/ WriteFails(w) \/ Remove(w) \/ RemoveFails(w)
        PROVE  TypeOK'
    BY <2>6 DEF WriteFails, Remove, RemoveFails, Rename, RenameFails, Crash, Midway, Restart, Return
  <2>7. ASSUME NEW r \in Reader, Open(r) PROVE TypeOK'
    BY <2>7 DEF Open
  <2>8. ASSUME NEW r \in Reader, Read(r) PROVE TypeOK'
    BY <2>8 DEF Read
  <2>9. CASE UNCHANGED vars
    BY <2>9 DEF vars
  <2> QED
    BY <2>1, <2>2, <2>5, <2>6, <2>7, <2>8, <2>9 DEF Next
<1> QED
  BY <1>1, <1>2, PTL DEF Spec
-----------------------------------------------------------------------------
\* A temporary file is its writer's alone - no reader, no other writer and not
\* the path refer to it - and it is complete before it is renamed.
TempsPrivate ==
  /\ name \notin temps
  /\ \A r \in Reader : opened[r] \notin temps
  /\ \A w \in Writer : Midway(w) => fd[w] \in temps
  /\ \A v, w \in Writer : v # w /\ Midway(v) /\ Midway(w) => fd[v] # fd[w]
  /\ \A w \in Writer : pc[w] = "closed" => Complete(fd[w])

LEMMA TempsPrivateInductive ==
  ASSUME TypeOK, TempsPrivate, [Next]_vars
  PROVE  TempsPrivate'
<1> USE ConstantsAssumption DEF TypeOK, TempsPrivate, Midway
<1>1. ASSUME NEW w \in Writer, NEW c \in Content, CreateTemp(w, c) PROVE TempsPrivate'
  <2> PICK n \in Free : /\ fd' = [fd EXCEPT ![w] = n]
                        /\ data' = [data EXCEPT ![n] = [of |-> c, len |-> 0]]
                        /\ temps' = temps \cup {n}
    BY <1>1 DEF CreateTemp
  <2>1. /\ n \in Inode /\ n \notin temps /\ n # name
        /\ \A v \in Writer : fd[v] # n
        /\ \A r \in Reader : opened[r] # n
    BY DEF Free
  <2>2. \A m \in Inode : m # n => data'[m] = data[m]
    OBVIOUS
  <2>3. \A v \in Writer : pc[v] = "closed" => fd[v] \in Inode /\ fd[v] # n
    BY <2>1
  <2> QED
    BY <1>1, <2>1, <2>2, <2>3 DEF CreateTemp, Complete
<1>3. ASSUME NEW w \in Writer, WriteChunk(w) PROVE TempsPrivate'
  <2>1. \A m \in Inode : m # fd[w] => data'[m] = data[m]
    BY <1>3 DEF WriteChunk
  <2>2. \A v \in Writer : pc[v] = "closed" => fd[v] \in Inode /\ fd[v] # fd[w]
    BY <1>3 DEF WriteChunk
  <2> QED
    BY <1>3, <2>1, <2>2 DEF WriteChunk, Complete
<1>4. ASSUME NEW w \in Writer, CloseTemp(w) \/ WriteFails(w) PROVE TempsPrivate'
  BY <1>4 DEF CloseTemp, WriteFails, Complete
<1>5. ASSUME NEW w \in Writer, Remove(w) \/ Rename(w) PROVE TempsPrivate'
  BY <1>5 DEF Remove, Rename, Return, Complete
<1>6. ASSUME NEW w \in Writer, RenameFails(w) \/ RemoveFails(w) \/ Crash(w) \/ Restart(w)
      PROVE  TempsPrivate'
  BY <1>6 DEF RenameFails, RemoveFails, Crash, Restart, Return, Complete
<1>7. ASSUME NEW r \in Reader, Open(r) PROVE TempsPrivate'
  BY <1>7 DEF Open, Complete
<1>8. ASSUME NEW r \in Reader, Read(r) PROVE TempsPrivate'
  <2>1. Nothing \notin temps
    OBVIOUS
  <2> QED
    BY <1>8, <2>1 DEF Read, Complete
<1>9. CASE UNCHANGED vars
  BY <1>9 DEF vars, Complete
<1> QED
  BY <1>1, <1>3, <1>4, <1>5, <1>6, <1>7, <1>8, <1>9 DEF Next

LEMMA TempsAlwaysPrivate == Spec => [](TypeOK /\ TempsPrivate)
<1>1. Init => TempsPrivate
  BY DEF Init, TempsPrivate, Midway
<1>2. TypeOK /\ TempsPrivate /\ [Next]_vars => TempsPrivate'
  BY TempsPrivateInductive
<1> QED
  BY <1>1, <1>2, TypeCorrect, PTL DEF Spec

\* Every temporary file that is left behind has a failed rename, a failed removal
\* or a dead writer to blame, and that takes one file with it.
THEOREM OrphansAccounted == Spec => OrphansExplained
<1>1. TypeOK /\ TempsPrivate /\ [Next]_vars
        => [\/ Orphans' = Orphans
            \/ \E w \in Writer :
                 /\ RenameFails(w) \/ RemoveFails(w) \/ Crash(w)
                 /\ Orphans' = Orphans \cup {fd[w]}]_vars
  <2> SUFFICES ASSUME TypeOK, TempsPrivate, [Next]_vars
               PROVE  \/ Orphans' = Orphans
                      \/ \E w \in Writer :
                           /\ RenameFails(w) \/ RemoveFails(w) \/ Crash(w)
                           /\ Orphans' = Orphans \cup {fd[w]}
    OBVIOUS
  <2> USE ConstantsAssumption DEF Orphans, Midway
  <2>0. Nothing \notin temps
    BY DEF TypeOK
  <2>1. ASSUME NEW w \in Writer, NEW c \in Content, CreateTemp(w, c) PROVE Orphans' = Orphans
    <3> PICK n \in Free : fd' = [fd EXCEPT ![w] = n] /\ temps' = temps \cup {n}
      BY <2>1 DEF CreateTemp
    <3>1. n \notin temps /\ fd[w] = Nothing
      BY <2>1 DEF Free, CreateTemp, TypeOK
    <3> QED
      BY <2>0, <3>1 DEF TypeOK
  <2>2. ASSUME NEW w \in Writer, Remove(w) \/ Rename(w) PROVE Orphans' = Orphans
    <3>1. /\ temps' = temps \ {fd[w]} /\ fd' = [fd EXCEPT ![w] = Nothing]
          /\ \A v \in Writer : v # w => fd'[v] = fd[v]
      BY <2>2 DEF Remove, Rename, Return, TypeOK
    <3> QED
      BY <2>0, <3>1 DEF TypeOK
  <2>3. ASSUME NEW w \in Writer, RenameFails(w) \/ RemoveFails(w) \/ Crash(w)
        PROVE  Orphans' = Orphans \cup {fd[w]}
    <3>1. temps' = temps /\ fd' = [fd EXCEPT ![w] = Nothing]
      BY <2>3 DEF RenameFails, RemoveFails, Crash, Return
    <3>2. fd[w] \in temps /\ \A v \in Writer : v # w => fd[v] # fd[w]
      BY <2>0, <2>3 DEF RenameFails, RemoveFails, Crash, TypeOK, TempsPrivate
    <3> QED
      BY <2>0, <3>1, <3>2 DEF TypeOK
  <2>4. ASSUME UNCHANGED <<temps, fd>> PROVE Orphans' = Orphans
    BY <2>4
  <2> QED
    BY <2>1, <2>2, <2>3, <2>4 DEF Next, WriteChunk, WriteFails, CloseTemp, Restart, Open, Read, vars
<1> QED
  BY <1>1, TempsAlwaysPrivate, PTL DEF Spec, OrphansExplained
-----------------------------------------------------------------------------
\* Everything a reader can reach is whole.
Whole ==
  /\ Complete(name)
  /\ \A r \in Reader : opened[r] # Nothing => Complete(opened[r])
  /\ ReadsComplete

LEMMA WholeInductive ==
  ASSUME TypeOK, TempsPrivate, Whole, [Next]_vars
  PROVE  Whole'
<1> USE ConstantsAssumption DEF TypeOK, Whole, ReadsComplete
\* A step that writes only to a file nobody else can reach.
<1>1. ASSUME NEW n \in Inode, n # name, \A r \in Reader : opened[r] # n,
             \A m \in Inode : m # n => data'[m] = data[m],
             UNCHANGED <<name, opened, result>>
      PROVE  Whole'
  BY <1>1 DEF Complete
<1>2. ASSUME NEW w \in Writer, NEW c \in Content, CreateTemp(w, c) PROVE Whole'
  <2> PICK n \in Free : data' = [data EXCEPT ![n] = [of |-> c, len |-> 0]]
    BY <1>2 DEF CreateTemp
  <2>1. n \in Inode /\ n # name /\ \A r \in Reader : opened[r] # n
    BY DEF Free
  <2>2. \A m \in Inode : m # n => data'[m] = data[m]
    OBVIOUS
  <2> QED
    BY <1>1, <1>2, <2>1, <2>2 DEF CreateTemp
<1>3. ASSUME NEW w \in Writer, WriteChunk(w) PROVE Whole'
  <2>1. fd[w] \in temps /\ fd[w] \in Inode
    BY <1>3 DEF WriteChunk, TempsPrivate, Midway
  <2>2. fd[w] # name /\ \A r \in Reader : opened[r] # fd[w]
    BY <2>1 DEF TempsPrivate
  <2>3. \A m \in Inode : m # fd[w] => data'[m] = data[m]
    BY <1>3 DEF WriteChunk
  <2> QED
    BY <1>1, <1>3, <2>1, <2>2, <2>3 DEF WriteChunk
<1>4. ASSUME NEW w \in Writer,
             \/ WriteFails(w) \/ Remove(w) \/ RemoveFails(w)
             \/ CloseTemp(w) \/ RenameFails(w) \/ Crash(w) \/ Restart(w)
      PROVE  Whole'
  BY <1>4 DEF WriteFails, Remove, RemoveFails, CloseTemp, RenameFails, Crash, Restart, Complete
<1>5. ASSUME NEW w \in Writer, Rename(w) PROVE Whole'
  BY <1>5 DEF Rename, TempsPrivate, Complete
<1>6. ASSUME NEW r \in Reader, Open(r) PROVE Whole'
  BY <1>6 DEF Open, Complete
<1>7. ASSUME NEW r \in Reader, Read(r) PROVE Whole'
  BY <1>7 DEF Read, Complete
<1>9. CASE UNCHANGED vars
  BY <1>9 DEF vars, Complete
<1> QED
  BY <1>2, <1>3, <1>4, <1>5, <1>6, <1>7, <1>9 DEF Next

LEMMA AlwaysWhole == Spec => [](TypeOK /\ TempsPrivate /\ Whole)
<1>1. Init => Whole
  BY ConstantsAssumption DEF Init, Whole, ReadsComplete, Complete
<1>2. TypeOK /\ TempsPrivate /\ Whole /\ [Next]_vars => Whole'
  BY WholeInductive
<1> QED
  BY <1>1, <1>2, TempsAlwaysPrivate, PTL DEF Spec

\* No reader ever gets a partial file.
THEOREM NoTornRead == Spec => []ReadsComplete
<1>1. Whole => ReadsComplete
  BY DEF Whole
<1> QED
  BY <1>1, AlwaysWhole, PTL

\* The path is an AtomicCell: its content goes from one whole request to
\* another, at a rename, and a write that fails or dies changes nothing.
THEOREM PathIsAtomic == Spec => ImplementsCell
<1> USE ConstantsAssumption DEF Midway
<1>1. Init => Cell!Init
  BY DEF Init, Cell!Init, Complete, Shown, Requested
<1>2. TypeOK /\ TempsPrivate /\ Whole /\ Whole' /\ [Next]_vars => [Cell!Next]_(Cell!vars)
  <2> SUFFICES ASSUME TypeOK, TempsPrivate, Whole, Whole', [Next]_vars
               PROVE  Cell!Next \/ UNCHANGED <<Shown, Requested>>
    BY DEF Cell!vars
  <2>0. /\ Shown = data[name].of /\ Shown' = data'[name'].of
        /\ \A w \in Writer : Midway(w) => fd[w] \in Inode /\ data[fd[w]].of \in Content
    BY DEF Whole, Shown, Complete, TypeOK, File
  \* A writer's turn ends without a rename.
  <2>1. ASSUME NEW w \in Writer, Midway(w), UNCHANGED <<name, data>>,
               \E q \in {"idle", "dead"} : pc' = [pc EXCEPT ![w] = q],
               fd' = [fd EXCEPT ![w] = Nothing]
        PROVE  Cell!Next
    <3>1. Requested' = [Requested EXCEPT ![w] = Nothing]
      BY <2>1 DEF Requested, TypeOK
    <3>2. Requested[w] # Nothing
      BY <2>0, <2>1 DEF Requested
    <3> QED
      BY <2>0, <2>1, <3>1, <3>2 DEF Cell!Next, Cell!Abort
  <2>2. ASSUME NEW w \in Writer, Remove(w) \/ RemoveFails(w) \/ RenameFails(w) \/ Crash(w)
        PROVE  Cell!Next
    BY <2>1, <2>2 DEF Remove, RemoveFails, RenameFails, Crash, Return, TypeOK, TempsPrivate
  <2>3. ASSUME NEW w \in Writer, Rename(w) PROVE Cell!Next
    <3>1. Requested' = [Requested EXCEPT ![w] = Nothing]
      BY <2>3 DEF Requested, Rename, Return, TypeOK
    <3>2. Requested[w] # Nothing /\ Requested[w] = data[fd[w]].of
      BY <2>0, <2>3 DEF Requested, Rename
    <3>3. Shown' = data[fd[w]].of
      BY <2>0, <2>3 DEF Rename
    <3> QED
      BY <3>1, <3>2, <3>3 DEF Cell!Next, Cell!Commit
  <2>4. ASSUME NEW w \in Writer, NEW c \in Content, CreateTemp(w, c) PROVE Cell!Next
    <3> PICK n \in Free : /\ fd' = [fd EXCEPT ![w] = n]
                          /\ data' = [data EXCEPT ![n] = [of |-> c, len |-> 0]]
      BY <2>4 DEF CreateTemp
    <3>1. n \in Inode /\ n # name /\ \A v \in Writer : fd[v] # n
      BY DEF Free
    <3>2. \A v \in Writer : v # w => Requested'[v] = Requested[v]
      BY <2>0, <2>4, <3>1 DEF CreateTemp, Requested, TypeOK
    <3>3. Requested'[w] = c /\ Requested[w] = Nothing
      BY <2>4, <3>1 DEF CreateTemp, Requested, TypeOK
    <3>4. Requested' = [Requested EXCEPT ![w] = c]
      BY <3>2, <3>3 DEF Requested
    <3>5. Shown' = Shown
      BY <2>0, <2>4, <3>1 DEF CreateTemp, TypeOK
    <3> QED
      BY <3>3, <3>4, <3>5 DEF Cell!Next, Cell!Begin
  <2>5. ASSUME NEW w \in Writer, WriteChunk(w) PROVE UNCHANGED <<Shown, Requested>>
    <3>1. \A n \in Inode : data'[n].of = data[n].of
      BY <2>5 DEF WriteChunk, TypeOK, File
    <3>2. \A v \in Writer : Requested'[v] = Requested[v]
      BY <2>0, <2>5, <3>1 DEF WriteChunk, Requested
    <3> QED
      BY <2>0, <2>5, <3>1, <3>2 DEF WriteChunk, Requested, TypeOK
  <2>6. ASSUME NEW w \in Writer, CloseTemp(w) \/ WriteFails(w) PROVE UNCHANGED <<Shown, Requested>>
    BY <2>0, <2>6 DEF CloseTemp, WriteFails, Requested, TypeOK
  <2>7. ASSUME UNCHANGED <<name, data, pc, fd>> PROVE UNCHANGED <<Shown, Requested>>
    BY <2>7 DEF Shown, Complete, Requested
  <2>9. ASSUME NEW w \in Writer, Restart(w) PROVE UNCHANGED <<Shown, Requested>>
    BY <2>0, <2>9 DEF Restart, Requested, TypeOK
  <2>8. CASE (\E r \in Reader : Open(r) \/ Read(r)) \/ UNCHANGED vars
    BY <2>7, <2>8 DEF Open, Read, vars
  <2> QED
    BY <2>2, <2>3, <2>4, <2>5, <2>6, <2>8, <2>9 DEF Next
<1> QED
  BY <1>1, <1>2, AlwaysWhole, PTL DEF Spec, ImplementsCell, Cell!Spec
=============================================================================
