--------------------------- MODULE FetcherProofs ---------------------------
(***************************************************************************)
(* Proofs about the poll loop, for every list of files and every set of    *)
(* contents.                                                               *)
(***************************************************************************)
EXTENDS Fetcher, TLAPS

\* The positions of Files this pass is done with.
Done(n) ==
  \/ pc \in {"fetch", "lost", "apply"} /\ n < i
  \/ pc = "settle" /\ n <= i
  \/ pc = "end"

\* The strengthening of CleanPassReflects: it holds of the files done so far,
\* and what waits to be applied is what the source holds, unless that moved.
PassReflects ==
  /\ pc = "apply" => got = remote[file] \/ file \in moved
  /\ cleanPass => \A n \in 1..Len(Files) : Done(n) => Reflects(Files[n])

LEMMA FileAt == \A n \in 1..Len(Files) : Files[n] \in File
  BY DEF File

LEMMA FirstFile == 1 \in 1..Len(Files) /\ File # {}
  BY ConstantsAssumption DEF File

\* NextFile stays inside Files, and ends the pass only after the last of them.
LEMMA NextFileBounds ==
  ASSUME i \in 1..Len(Files), NextFile
  PROVE  /\ i' \in 1..Len(Files)
         /\ pc' \in {"fetch", "end"}
         /\ pc' = "fetch" => i' = i + 1
         /\ pc' = "end" => i = Len(Files)
  BY ConstantsAssumption DEF NextFile

\* The loop, its flags and its records keep their types.
THEOREM TypeCorrect == Spec => []TypeOK
<1>1. Init => TypeOK
  BY ConstantsAssumption, FirstFile DEF Init, TypeOK
<1>2. TypeOK /\ [Next]_vars => TypeOK'
  <2> SUFFICES ASSUME TypeOK, [Next]_vars PROVE TypeOK'
    OBVIOUS
  <2> USE ConstantsAssumption DEF TypeOK
  <2>0. i \in 1..Len(Files) /\ file \in File
    BY FileAt DEF file
  <2>1. CASE FetchFails
    BY <2>0, <2>1, NextFileBounds DEF FetchFails, env
  <2>2. CASE FetchFindsNothing
    BY <2>0, <2>2, NextFileBounds DEF FetchFindsNothing, env
  <2>3. CASE FetchUnchanged
    BY <2>0, <2>3, NextFileBounds DEF FetchUnchanged, env
  <2>4. CASE FetchChanged
    BY <2>0, <2>4 DEF FetchChanged, env
  <2>5. CASE Apply
    <3>1. got \in Content
      BY <2>5 DEF Apply
    <3>2. pc' \in {"fetch", "settle", "end"} /\ i' \in 1..Len(Files)
      BY <2>0, <2>5, NextFileBounds DEF Apply
    <3> QED
      BY <2>0, <2>5, <3>1, <3>2 DEF Apply, env
  <2>6. CASE ApplyFails
    BY <2>0, <2>6, NextFileBounds DEF ApplyFails, env
  <2>7. CASE Settle
    BY <2>0, <2>7, NextFileBounds DEF Settle, env
  <2>8. CASE EndPass
    BY <2>8 DEF EndPass, env
  <2>9. CASE BeginPass
    BY <2>9 DEF BeginPass, env
  <2>10. CASE FetchLost
    BY <2>10 DEF FetchLost, env
  <2>11. ASSUME NEW d \in [File -> Content], Start(d) PROVE TypeOK'
    BY <2>11, FirstFile DEF Start, env
  <2>12. CASE Restart
    BY <2>11, <2>12 DEF Restart
  <2>13. CASE Trouble
    BY <2>13 DEF Trouble, loop
  <2>14. ASSUME NEW f \in File, NEW c \in Content \cup {NotPushed}, Push(f, c)
         PROVE  TypeOK'
    BY <2>14 DEF Push, loop
  <2>15. CASE UNCHANGED vars
    BY <2>15 DEF vars, env, loop
  <2> QED
    BY <2>1, <2>2, <2>3, <2>4, <2>5, <2>6, <2>7, <2>8, <2>9, <2>10, <2>12,
       <2>13, <2>14, <2>15 DEF Next, FetcherStep, Environment
<1> QED
  BY <1>1, <1>2, PTL DEF Spec
-----------------------------------------------------------------------------
\* A recorded digest is always that of the file on disk.
THEOREM HashesApplied == Spec => []HashMeansApplied
<1>1. Init => HashMeansApplied
  BY DEF Init, HashMeansApplied
<1>2. TypeOK /\ HashMeansApplied /\ [Next]_vars => HashMeansApplied'
  <2> SUFFICES ASSUME TypeOK, HashMeansApplied, [Next]_vars
               PROVE  HashMeansApplied'
    OBVIOUS
  <2> USE DEF HashMeansApplied
  <2>1. CASE Apply
    <3>1. disk' = [disk EXCEPT ![file] = got] /\ lastHash' = [lastHash EXCEPT ![file] = got]
      BY <2>1 DEF Apply
    <3>2. disk \in [File -> Content] /\ lastHash \in [File -> Content \cup {None}]
      BY DEF TypeOK
    <3> QED
      BY <3>1, <3>2
  <2>2. CASE Restart
    <3>1. lastHash' = [f \in File |-> None]
      BY <2>2 DEF Restart, Start
    <3> QED
      BY <3>1
  <2>3. CASE UNCHANGED <<disk, lastHash>>
    BY <2>3
  <2>4. \/ Apply \/ Restart \/ UNCHANGED <<disk, lastHash>>
    BY DEF Next, FetcherStep, Environment, FetchLost, FetchFails,
           FetchFindsNothing, FetchUnchanged, FetchChanged, ApplyFails, Settle, EndPass, BeginPass,
           Trouble, Push, vars
  <2> QED
    BY <2>1, <2>2, <2>3, <2>4
<1> QED
  BY <1>1, <1>2, TypeCorrect, PTL DEF Spec

\* When NextFile moves on from a file it is done with, the files done are the
\* ones before and that one.
LEMMA NextFileDone ==
  ASSUME i \in 1..Len(Files), NextFile, pc \in {"fetch", "lost", "apply", "settle"},
         NEW n \in 1..Len(Files), Done(n)'
  PROVE  Done(n) \/ n = i
  BY ConstantsAssumption, NextFileBounds DEF Done

\* PassReflects is inductive when a failed read is not taken for "not pushed".
LEMMA PassReflectsInductive ==
  ASSUME ~ReadErrorIsNotFound, TypeOK, HashMeansApplied, PassReflects, [Next]_vars
  PROVE  PassReflects'
<1> USE DEF PassReflects
<1>0. i \in 1..Len(Files) /\ file \in File /\ \A n \in 1..Len(Files) : Files[n] \in File
  BY FileAt DEF file, TypeOK
\* A step that only moves on: nothing is fetched, the source and the disk stay.
<1>1. ASSUME NextFile, pc \in {"fetch", "settle"}, UNCHANGED <<env, disk, cleanPass, moved>>,
             cleanPass => Reflects(file)
      PROVE  PassReflects'
  <2>1. pc' # "apply"
    BY <1>0, <1>1, NextFileBounds
  <2>2. ASSUME cleanPass', NEW n \in 1..Len(Files), Done(n)' PROVE Reflects(Files[n])'
    <3>1. Done(n) \/ n = i
      BY <1>0, <1>1, <2>2, NextFileDone
    <3>2. Reflects(Files[n])
      BY <1>1, <2>2, <3>1 DEF file
    <3> QED
      BY <1>1, <3>2 DEF Reflects, env
  <2> QED
    BY <2>1, <2>2
<1>2. CASE FetchFails \/ ApplyFails
  BY <1>0, <1>2, NextFileBounds DEF FetchFails, ApplyFails
<1>3. CASE FetchLost
  BY <1>3 DEF FetchLost, Done, Reflects, env
<1>4. CASE FetchFindsNothing
  BY <1>1, <1>4 DEF FetchFindsNothing, Reflects
<1>5. CASE FetchUnchanged
  <2>1. disk[file] = remote[file]
    <3>1. remote[file] \in Content
      BY <1>0, <1>5 DEF FetchUnchanged, TypeOK
    <3> QED
      BY <1>0, <1>5, <3>1, ConstantsAssumption DEF FetchUnchanged, HashMeansApplied
  <2> QED
    BY <1>1, <1>5, <2>1 DEF FetchUnchanged, Reflects
<1>6. CASE FetchChanged
  <2>1. \A n \in 1..Len(Files) : Done(n)' => Done(n)
    BY <1>0, <1>6 DEF FetchChanged, Done
  <2>2. \A n \in 1..Len(Files) : Reflects(Files[n]) => Reflects(Files[n])'
    BY <1>6 DEF FetchChanged, Reflects, env
  <2>3. got' = remote'[file']
    BY <1>6 DEF FetchChanged, env, file
  <2>4. cleanPass' = cleanPass
    BY <1>6 DEF FetchChanged
  <2> QED
    BY <2>1, <2>2, <2>3, <2>4
<1>7. CASE Apply
  <2>0. pc = "apply" /\ pc' # "apply" /\ UNCHANGED <<remote, cleanPass, moved>>
    BY <1>0, <1>7, NextFileBounds DEF Apply, env
  <2>1. disk' = [disk EXCEPT ![file] = got] /\ disk \in [File -> Content]
    BY <1>7 DEF Apply, TypeOK
  <2>2. ASSUME NEW n \in 1..Len(Files), Done(n)' PROVE Done(n) \/ n = i
    <3>1. CASE i < Len(Files)
      BY <1>0, <1>7, <2>2, <3>1, ConstantsAssumption DEF Apply, Done
    <3>2. CASE ~(i < Len(Files))
      BY <1>0, <1>7, <2>2, <3>2, NextFileDone DEF Apply
    <3> QED
      BY <3>1, <3>2
  <2>3. ASSUME NEW f \in File, f # file, Reflects(f) PROVE Reflects(f)'
    BY <2>0, <2>1, <2>3 DEF Reflects
  <2>4. \A f \in File : f = file => (f \in moved' \/ disk'[f] = remote'[f])
    BY <1>0, <2>0, <2>1
  <2>5. ASSUME cleanPass', NEW n \in 1..Len(Files), Done(n)' PROVE Reflects(Files[n])'
    <3>1. CASE Files[n] = file
      BY <1>0, <2>4, <3>1 DEF Reflects
    <3>2. CASE Files[n] # file
      <4>1. Done(n)
        BY <2>2, <2>5, <3>2 DEF file
      <4> QED
        BY <1>0, <2>0, <2>3, <2>5, <3>2, <4>1
    <3> QED
      BY <3>1, <3>2
  <2> QED
    BY <2>0, <2>5
<1>8. CASE Settle
  <2>1. cleanPass => Reflects(file)
    BY <1>0, <1>8, ConstantsAssumption DEF Settle, Done, file
  <2> QED
    BY <1>1, <1>8, <2>1 DEF Settle
<1>9. CASE EndPass \/ BeginPass \/ Restart
  BY <1>0, <1>9 DEF EndPass, BeginPass, Restart, Start, Done
<1>10. CASE Trouble
  BY <1>10 DEF Trouble, loop, Done, Reflects, file
<1>11. ASSUME NEW f \in File, NEW c \in Content \cup {NotPushed}, Push(f, c)
       PROVE  PassReflects'
  <2>1. /\ remote' = [remote EXCEPT ![f] = c] /\ remote \in [File -> Content \cup {NotPushed}]
        /\ moved' = moved \cup {f} /\ UNCHANGED <<disk, loop>>
    BY <1>11 DEF Push, TypeOK
  <2>2. \A g \in File : Reflects(g) => Reflects(g)'
    BY <2>1 DEF Reflects
  <2>3. pc = "apply" => got' = remote'[file] \/ file \in moved'
    BY <1>0, <2>1 DEF loop
  <2> QED
    BY <1>0, <2>1, <2>2, <2>3 DEF loop, Done, file
<1>12. CASE UNCHANGED vars
  BY <1>12 DEF vars, env, loop, Done, Reflects, file
<1> QED
  BY <1>2, <1>3, <1>4, <1>5, <1>6, <1>7, <1>8, <1>9, <1>10, <1>11, <1>12
     DEF Next, FetcherStep, Environment

LEMMA PassAlwaysReflects ==
  ASSUME ~ReadErrorIsNotFound
  PROVE  Spec => [](TypeOK /\ PassReflects)
<1>1. Init => PassReflects
  BY ConstantsAssumption DEF Init, PassReflects, Done
<1>2. TypeOK /\ HashMeansApplied /\ PassReflects /\ [Next]_vars => PassReflects'
  BY PassReflectsInductive
<1> QED
  BY <1>1, <1>2, TypeCorrect, HashesApplied, PTL DEF Spec

LEMMA PassReflectsImplies == PassReflects => CleanPassReflects
  BY DEF PassReflects, CleanPassReflects, Done, File

\* A clean pass leaves every file as the source has it, for a source that tells
\* a failed read from a file nobody pushed.
THEOREM CleanPassCurrent ==
  ASSUME ~ReadErrorIsNotFound
  PROVE  Spec => []CleanPassReflects
  BY PassAlwaysReflects, PassReflectsImplies, PTL

\* A file that is not pushed meanwhile stays as the source has it while the loop
\* sleeps after such a pass.
AsleepReflects == pc = "sleep" /\ cleanPass => \A f \in File : Reflects(f)

LEMMA AsleepAlwaysReflects ==
  ASSUME ~ReadErrorIsNotFound
  PROVE  Spec => []AsleepReflects
<1>1. Init => AsleepReflects
  BY DEF Init, AsleepReflects
<1>2. TypeOK /\ CleanPassReflects /\ AsleepReflects /\ [Next]_vars => AsleepReflects'
  <2> SUFFICES ASSUME TypeOK, CleanPassReflects, AsleepReflects, [Next]_vars,
                      pc' = "sleep", cleanPass'
               PROVE  \A f \in File : Reflects(f)'
    BY DEF AsleepReflects
  <2>1. CASE EndPass
    BY <2>1 DEF EndPass, env, CleanPassReflects, Reflects
  <2>2. ASSUME NEW g \in File, NEW c \in Content \cup {NotPushed}, Push(g, c)
        PROVE  \A f \in File : Reflects(f)'
    BY <2>2 DEF Push, loop, AsleepReflects, Reflects, TypeOK
  <2>3. CASE Trouble \/ UNCHANGED vars
    BY <2>3 DEF Trouble, loop, vars, env, AsleepReflects, Reflects
  <2>4. ~(\/ FetchLost \/ FetchFails \/ FetchFindsNothing \/ FetchUnchanged \/ FetchChanged
          \/ Apply \/ ApplyFails \/ Settle \/ BeginPass \/ Restart)
    BY NextFileBounds DEF TypeOK, FetchLost, FetchFails, FetchFindsNothing,
       FetchUnchanged, FetchChanged, Apply, ApplyFails, Settle, BeginPass, Restart, Start
  <2> QED
    BY <2>1, <2>2, <2>3, <2>4 DEF Next, FetcherStep, Environment
<1> QED
  BY <1>1, <1>2, TypeCorrect, CleanPassCurrent, PTL DEF Spec

\* For such a source, readiness is only ever reported over files that are as the
\* source has them.
THEOREM ReadyEarned ==
  ASSUME ~ReadErrorIsNotFound
  PROVE  Spec => ReadyIsEarned
<1>1. CleanPassReflects /\ [Next]_vars
        => [~synced /\ synced' => \A f \in File : Reflects(f)]_vars
  BY DEF Next, FetcherStep, Environment, FetchLost, FetchFails, FetchFindsNothing,
         FetchUnchanged, FetchChanged, Apply, ApplyFails, Settle, EndPass,
         BeginPass, Restart, Start, Trouble, Push, CleanPassReflects
<1> QED
  BY <1>1, CleanPassCurrent, PTL DEF Spec, ReadyIsEarned

\* Readiness is withdrawn by nothing but a restart of the process, for any source.
THEOREM ReadyPersists == Spec => ReadyStays
<1>1. [Next]_vars => [synced => synced' \/ Restart]_vars
  BY DEF Next, FetcherStep, Environment, FetchLost, FetchFails, FetchFindsNothing,
         FetchUnchanged, FetchChanged, Apply, ApplyFails, Settle, EndPass,
         BeginPass, Trouble, Push
<1> QED
  BY <1>1, PTL DEF Spec, ReadyStays
=============================================================================
