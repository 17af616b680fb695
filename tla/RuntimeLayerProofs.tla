------------------------- MODULE RuntimeLayerProofs -------------------------
(***************************************************************************)
(* Proofs about expandRuntimeLayer, for every set of manifests, keys and   *)
(* values, and whatever a manifest decodes to.                             *)
(***************************************************************************)
EXTENDS RuntimeLayer, TLAPS

\* What each program point knows of the directories, which is what makes
\* CurrentComplete inductive.  A directory never holds anything but its own
\* manifest's keys; the one being written holds all but those still to do; the
\* one about to be swapped in holds them all; the one being removed is not the
\* one that is live.
Directories ==
  /\ \A m \in Manifest : \A k \in Key : files[m][k] \in {Absent, Desired[m][k]}
  /\ job # None => job \in exists
  /\ pc = "write" => \A k \in Key \ todo : files[job][k] = Desired[job][k]
  /\ pc = "swap" => tmpLink = job /\ prev = current /\ files[job] = Desired[job]
  /\ pc = "clean" => current = job /\ prev \notin {None, job}
  /\ pc \in {"idle", "write"} => prev = None
  /\ CurrentComplete

LEMMA KeysAreKeys == \A m : Keys(m) \subseteq Key
  BY DEF Keys

\* One entry of the previous directory goes, and nothing else changes.
LEMMA RemoveEntryEffect ==
  ASSUME TypeOK, RemoveEntry
  PROVE  /\ prev \in Manifest
         /\ files' \in [Manifest -> [Key -> Value \cup {Absent}]]
         /\ \A m \in Manifest : m # prev => files'[m] = files[m]
         /\ \A m \in Manifest : \A j \in Key : files'[m][j] \in {Absent, files[m][j]}
<1>1. prev \in Manifest /\ files \in [Manifest -> [Key -> Value \cup {Absent}]]
  BY DEF RemoveEntry, TypeOK
<1>2. CASE UNCHANGED files
  BY <1>1, <1>2
<1>3. CASE \E k \in Keys(prev) : files' = [files EXCEPT ![prev][k] = Absent]
  <2> PICK k \in Key : files' = [files EXCEPT ![prev][k] = Absent]
    BY <1>3, KeysAreKeys
  <2>1. files' = [files EXCEPT ![prev] = [files[prev] EXCEPT ![k] = Absent]]
    BY <1>1
  <2>2. [files[prev] EXCEPT ![k] = Absent] \in [Key -> Value \cup {Absent}]
    BY <1>1
  <2>3. \A j \in Key : [files[prev] EXCEPT ![k] = Absent][j] \in {Absent, files[prev][j]}
    BY <1>1
  <2> QED
    BY <1>1, <2>1, <2>2, <2>3
<1> QED
  BY <1>1, <1>2, <1>3 DEF RemoveEntry

\* Every component keeps its type and every program point its bookkeeping.
THEOREM TypeCorrect == Spec => []TypeOK
<1> USE ConstantsAssumption
<1>1. Init => TypeOK
  <2>1. Nothing \in [Key -> Value \cup {Absent}]
    BY DEF Nothing
  <2> QED
    BY <2>1 DEF Init, TypeOK
<1>2. TypeOK /\ [Next]_vars => TypeOK'
  <2> SUFFICES ASSUME TypeOK, [Next]_vars PROVE TypeOK'
    OBVIOUS
  <2> USE DEF TypeOK, disk, fetcher, envoy
  <2>1. ASSUME NEW m \in Manifest, Expand(m) PROVE TypeOK'
    BY <2>1, KeysAreKeys DEF Expand
  <2>2. ASSUME NEW k \in Key, WriteKey(k) PROVE TypeOK'
    <3>1. job \in Manifest /\ Desired[job][k] \in Value \cup {Absent}
      BY <2>2 DEF WriteKey
    <3> QED
      BY <2>2, <3>1 DEF WriteKey
  <2>3. ASSUME NEW k \in Key, RefuseKey(k) PROVE TypeOK'
    BY <2>3 DEF RefuseKey, Fail
  <2>4. CASE WriteFails
    BY <2>4 DEF WriteFails, Fail
  <2>5. CASE MakeLink
    BY <2>5 DEF MakeLink
  <2>6. CASE LinkFails
    BY <2>6 DEF LinkFails, Fail
  <2>7. CASE Swap
    BY <2>7 DEF Swap, Succeed
  <2>8. CASE SwapFails
    BY <2>8 DEF SwapFails, Fail
  <2>9. CASE RemoveEntry
    BY <2>9, RemoveEntryEffect DEF RemoveEntry
  <2>10. CASE RemoveDir
    BY <2>10 DEF RemoveDir, Succeed
  <2>11. CASE RemoveFails
    BY <2>11 DEF RemoveFails, Succeed
  <2>12. CASE Crash
    BY <2>12 DEF Crash
  <2>13. CASE EnvoyOpen
    BY <2>13 DEF EnvoyOpen
  <2>14. CASE EnvoyRead
    BY <2>14 DEF EnvoyRead
  <2>15. CASE EnvoyRestart
    BY <2>15 DEF EnvoyRestart, Nothing
  <2>16. CASE UNCHANGED vars
    BY <2>16 DEF vars
  <2> QED
    BY <2>1, <2>2, <2>3, <2>4, <2>5, <2>6, <2>7, <2>8, <2>9, <2>10, <2>11,
       <2>12, <2>13, <2>14, <2>15, <2>16 DEF Next
<1> QED
  BY <1>1, <1>2, PTL DEF Spec
-----------------------------------------------------------------------------
\* A directory whose keys are all written is the manifest.
LEMMA WrittenOut ==
  ASSUME TypeOK, Directories, pc = "write", todo = {}
  PROVE  files[job] = Desired[job]
<1>1. job \in Manifest
  BY DEF TypeOK
<1>2. /\ files[job] \in [Key -> Value \cup {Absent}]
      /\ Desired[job] \in [Key -> Value \cup {Absent}]
  BY <1>1, ConstantsAssumption DEF TypeOK
<1>3. \A k \in Key : files[job][k] = Desired[job][k]
  BY DEF Directories
<1> QED
  BY <1>2, <1>3

LEMMA DirectoriesInductive ==
  ASSUME TypeOK, Directories, [Next]_vars
  PROVE  Directories'
<1> USE ConstantsAssumption DEF Directories, CurrentComplete, disk, fetcher, envoy
<1>1. ASSUME NEW m \in Manifest, Expand(m) PROVE Directories'
  <2>1. job' = m /\ m \in exists' /\ pc' = "write" /\ prev = None
    BY <1>1 DEF Expand
  <2>2. \A k \in Key \ todo' : files[m][k] = Desired[m][k]
    BY <1>1 DEF Expand, Keys
  <2> QED
    BY <1>1, <2>1, <2>2 DEF Expand
<1>2. ASSUME NEW k \in Key, WriteKey(k) PROVE Directories'
  <2>1. job \in Manifest /\ files \in [Manifest -> [Key -> Value \cup {Absent}]]
    BY <1>2 DEF WriteKey, TypeOK
  <2>2. /\ files' = [files EXCEPT ![job][k] = Desired[job][k]] /\ todo' = todo \ {k}
        /\ pc = "write" /\ UNCHANGED <<exists, current, tmpLink, pc, job, prev>>
    BY <1>2 DEF WriteKey
  <2>3. \A m \in Manifest : \A j \in Key :
          files'[m][j] = IF m = job /\ j = k THEN Desired[job][k] ELSE files[m][j]
    BY <2>1, <2>2
  <2>4. \A m \in Manifest : \A j \in Key : files'[m][j] \in {Absent, Desired[m][j]}
    BY <2>3
  <2>5. \A j \in Key \ todo' : files'[job'][j] = Desired[job'][j]
    BY <2>1, <2>2, <2>3
  <2>6. current' # None => current' \in exists' /\ files'[current'] = Desired[current']
    <3> SUFFICES ASSUME current # None PROVE files'[current] = Desired[current]
      BY <2>2
    <3>1. current \in Manifest /\ files[current] = Desired[current]
      BY DEF TypeOK
    <3>2. CASE current = job
      BY <2>1, <2>2, <3>1, <3>2
    <3>3. CASE current # job
      BY <2>1, <2>2, <3>1, <3>3
    <3> QED
      BY <3>2, <3>3
  <2> QED
    BY <2>2, <2>4, <2>5, <2>6
<1>3. ASSUME Fail, UNCHANGED <<exists, files, current>> PROVE Directories'
  BY <1>3 DEF Fail
<1>4. CASE WriteFails \/ LinkFails \/ SwapFails \/ \E k \in Key : RefuseKey(k)
  BY <1>3, <1>4 DEF WriteFails, LinkFails, SwapFails, RefuseKey
<1>5. CASE MakeLink
  BY <1>5, WrittenOut DEF MakeLink
<1>6. CASE Swap
  BY <1>6 DEF Swap, Succeed, TypeOK
<1>7. CASE RemoveEntry
  <2>1. prev # current /\ current = job /\ pc = "clean"
    BY <1>7 DEF RemoveEntry
  <2>2. \A m \in Manifest : m # prev => files'[m] = files[m]
    BY <1>7, RemoveEntryEffect
  <2>3. \A m \in Manifest : \A j \in Key : files'[m][j] \in {Absent, files[m][j]}
    BY <1>7, RemoveEntryEffect
  <2>4. UNCHANGED <<exists, current, tmpLink, pc, job, todo, prev>>
    BY <1>7 DEF RemoveEntry
  <2> QED
    BY <2>1, <2>2, <2>3, <2>4 DEF TypeOK
<1>8. CASE RemoveDir \/ RemoveFails
  BY <1>8 DEF RemoveDir, RemoveFails, Succeed
<1>9. CASE Crash
  BY <1>9 DEF Crash
<1>10. CASE EnvoyOpen \/ EnvoyRead \/ EnvoyRestart \/ UNCHANGED vars
  BY <1>10 DEF EnvoyOpen, EnvoyRead, EnvoyRestart, vars
<1> QED
  BY <1>1, <1>2, <1>4, <1>5, <1>6, <1>7, <1>8, <1>9, <1>10 DEF Next

LEMMA DirectoriesInvariant == Spec => [](TypeOK /\ Directories)
<1>1. Init => Directories
  BY DEF Init, Directories, CurrentComplete, Nothing
<1>2. TypeOK /\ Directories /\ [Next]_vars => Directories'
  BY DirectoriesInductive
<1> QED
  BY <1>1, <1>2, TypeCorrect, PTL DEF Spec

\* The directory Envoy is pointed at always holds exactly one manifest.
THEOREM LiveComplete == Spec => []CurrentComplete
<1>1. Directories => CurrentComplete
  BY DEF Directories
<1> QED
  BY <1>1, DirectoriesInvariant, PTL
-----------------------------------------------------------------------------
\* What the process remembers as applied is what current points to.
THEOREM AppliedCurrent == Spec => []AppliedIsCurrent
<1>1. Init => AppliedIsCurrent
  BY DEF Init, AppliedIsCurrent
<1>2. TypeOK /\ Directories /\ AppliedIsCurrent /\ [Next]_vars => AppliedIsCurrent'
  <2> SUFFICES ASSUME TypeOK, Directories, AppliedIsCurrent, [Next]_vars
               PROVE  AppliedIsCurrent'
    OBVIOUS
  <2> USE DEF AppliedIsCurrent
  <2>1. CASE Swap
    BY <2>1 DEF Swap, Succeed, Directories
  <2>2. CASE RemoveDir \/ RemoveFails
    BY <2>2 DEF RemoveDir, RemoveFails, Succeed, Directories, disk
  <2>3. ASSUME Fail, pc # "clean", UNCHANGED current PROVE AppliedIsCurrent'
    BY <2>3 DEF Fail
  <2>4. CASE WriteFails \/ LinkFails \/ SwapFails \/ \E k \in Key : RefuseKey(k)
    BY <2>3, <2>4 DEF WriteFails, LinkFails, SwapFails, RefuseKey, disk
  <2>5. CASE MakeLink \/ RemoveEntry \/ (\E m \in Manifest : Expand(m))
             \/ (\E k \in Key : WriteKey(k))
    BY <2>5 DEF MakeLink, RemoveEntry, Expand, WriteKey, fetcher
  <2>6. CASE Crash
    BY <2>6 DEF Crash
  <2>7. CASE EnvoyOpen \/ EnvoyRead \/ EnvoyRestart \/ UNCHANGED vars
    BY <2>7 DEF EnvoyOpen, EnvoyRead, EnvoyRestart, vars, disk, fetcher
  <2> QED
    BY <2>1, <2>2, <2>4, <2>5, <2>6, <2>7 DEF Next
<1> QED
  BY <1>1, <1>2, DirectoriesInvariant, PTL DEF Spec
-----------------------------------------------------------------------------
\* Envoy's side: with no event pending, the directory it is reading is the live
\* one, and what it has loaded otherwise is the live manifest.
Caught ==
  /\ ~event /\ opened # None => opened = current
  /\ QuiescentLoad

\* The live directory changes only with the symlink.
LEMMA LiveStays ==
  ASSUME Directories, Directories', UNCHANGED current
  PROVE  Live' = Live
  BY DEF Live, Directories, CurrentComplete

\* Once Envoy has caught up with the symlink it runs the live manifest.
THEOREM EnvoyCatchesUp == Spec => []QuiescentLoad
<1>1. Init => Caught
  BY DEF Init, Caught, QuiescentLoad
<1>2. TypeOK /\ Directories /\ Directories' /\ Caught /\ [Next]_vars => Caught'
  <2> SUFFICES ASSUME TypeOK, Directories, Directories', Caught, [Next]_vars
               PROVE  Caught'
    OBVIOUS
  <2> USE DEF Caught, QuiescentLoad
  <2>1. CASE Swap
    BY <2>1 DEF Swap
  <2>2. CASE EnvoyOpen
    BY <2>2 DEF EnvoyOpen, disk
  <2>3. CASE EnvoyRead
    <3>1. opened # None /\ UNCHANGED <<event, disk>> /\ opened' = None
      BY <2>3 DEF EnvoyRead
    <3>2. ASSUME current # None, ~event PROVE loaded' = Desired[current]
      BY <2>3, <3>1, <3>2 DEF EnvoyRead, Directories, CurrentComplete
    <3> QED
      BY <3>1, <3>2 DEF disk
  <2>4. CASE EnvoyRestart
    BY <2>4 DEF EnvoyRestart, disk, TypeOK
  <2>5. CASE UNCHANGED <<current, envoy>>
    BY <2>5 DEF envoy
  <2>6. Swap \/ EnvoyOpen \/ EnvoyRead \/ EnvoyRestart \/ UNCHANGED <<current, envoy>>
    BY DEF Next, Expand, WriteKey, RefuseKey, WriteFails, MakeLink, LinkFails,
           SwapFails, RemoveEntry, RemoveDir, RemoveFails, Crash, vars, disk
  <2> QED
    BY <2>1, <2>2, <2>3, <2>4, <2>5, <2>6
<1>3. Caught => QuiescentLoad
  BY DEF Caught
<1> QED
  BY <1>1, <1>2, <1>3, DirectoriesInvariant, PTL DEF Spec
-----------------------------------------------------------------------------
\* Every data directory is live, in use, or was left by a failure or a crash.
THEOREM LeftoversAccounted == Spec => []LeftoversExplained
<1>1. Init => LeftoversExplained
  BY DEF Init, LeftoversExplained
<1>2. TypeOK /\ Directories /\ LeftoversExplained /\ [Next]_vars => LeftoversExplained'
  <2> SUFFICES ASSUME TypeOK, Directories, LeftoversExplained, [Next]_vars
               PROVE  LeftoversExplained'
    OBVIOUS
  <2> USE DEF LeftoversExplained
  <2>0. None \notin exists
    BY ConstantsAssumption DEF TypeOK
  <2>1. ASSUME NEW m \in Manifest, Expand(m) PROVE LeftoversExplained'
    BY <2>0, <2>1 DEF Expand, TypeOK
  <2>2. ASSUME Fail, UNCHANGED <<exists, current>>, prev \in {None, current}
        PROVE  LeftoversExplained'
    BY <2>0, <2>2 DEF Fail
  <2>3. CASE WriteFails \/ LinkFails \/ SwapFails \/ \E k \in Key : RefuseKey(k)
    BY <2>2, <2>3 DEF WriteFails, LinkFails, SwapFails, RefuseKey, disk, Directories
  <2>4. CASE MakeLink
    BY <2>0, <2>4 DEF MakeLink, Directories
  <2>5. CASE Swap
    BY <2>0, <2>5 DEF Swap, Succeed, Directories
  <2>6. CASE RemoveDir \/ RemoveFails
    BY <2>0, <2>6 DEF RemoveDir, RemoveFails, Succeed, Directories, disk
  <2>7. CASE Crash
    BY <2>0, <2>7 DEF Crash
  <2>8. CASE UNCHANGED <<exists, current, job, prev, blamed>>
    BY <2>8
  <2>9. CASE RemoveEntry \/ (\E k \in Key : WriteKey(k)) \/ EnvoyOpen \/ EnvoyRead
             \/ EnvoyRestart \/ UNCHANGED vars
    BY <2>8, <2>9 DEF RemoveEntry, WriteKey, EnvoyOpen, EnvoyRead, EnvoyRestart,
                      vars, disk, fetcher
  <2> QED
    BY <2>1, <2>3, <2>4, <2>5, <2>6, <2>7, <2>9 DEF Next
<1> QED
  BY <1>1, <1>2, DirectoriesInvariant, PTL DEF Spec
-----------------------------------------------------------------------------
\* The one client's request, and how it changes.
LEMMA OneClient ==
  ASSUME NEW v, Requested' = [c \in {"fetcher"} |-> v]
  PROVE  Requested' = [Requested EXCEPT !["fetcher"] = v]
  BY DEF Requested

\* The symlink is an AtomicCell: a reader that follows it finds one whole
\* manifest after another, and a failed expansion changes nothing.
THEOREM SymlinkIsAtomic == Spec => ImplementsCell
<1> USE ConstantsAssumption
<1>1. Init => Cell!Init
  BY DEF Init, Cell!Init, Live, Requested
<1>2. TypeOK /\ Directories /\ Directories' /\ [Next]_vars => [Cell!Next]_(Cell!vars)
  <2> SUFFICES ASSUME TypeOK, Directories, Directories', [Next]_vars
               PROVE  Cell!Next \/ UNCHANGED <<Live, Requested>>
    BY DEF Cell!vars
  <2> DEFINE asked == Requested["fetcher"]
  <2>0. asked = IF pc \in {"write", "swap"} THEN Desired[job] ELSE None
    BY DEF Requested
  <2>1. pc \in {"write", "swap"} => job \in Manifest /\ asked = Desired[job] /\ asked # None
    BY <2>0 DEF TypeOK
  <2> HIDE DEF asked
  \* An expansion begins.
  <2>2. ASSUME NEW m \in Manifest, Expand(m) PROVE Cell!Next
    <3>1. asked = None /\ UNCHANGED current
      BY <2>0, <2>2 DEF Expand
    <3>2. Requested' = [c \in {"fetcher"} |-> Desired[m]]
      BY <2>2 DEF Expand, Requested
    <3>3. Requested' = [Requested EXCEPT !["fetcher"] = Desired[m]]
      BY <3>2, OneClient
    <3>4. Live' = Live
      BY <3>1, LiveStays
    <3>5. Cell!Begin("fetcher", Desired[m])
      BY <3>1, <3>3, <3>4 DEF Cell!Begin, asked
    <3> QED
      BY <3>5 DEF Cell!Next
  \* It ends, in an error or with the process.
  <2>3. ASSUME pc \in {"write", "swap"}, pc' = "idle", UNCHANGED current PROVE Cell!Next
    <3>1. Requested' = [c \in {"fetcher"} |-> None]
      BY <2>3 DEF Requested
    <3>2. Requested' = [Requested EXCEPT !["fetcher"] = None]
      BY <3>1, OneClient
    <3> QED
      BY <2>1, <2>3, <3>2, LiveStays DEF Cell!Next, Cell!Abort, asked
  <2>4. CASE WriteFails \/ LinkFails \/ SwapFails \/ \E k \in Key : RefuseKey(k)
    BY <2>3, <2>4 DEF WriteFails, LinkFails, SwapFails, RefuseKey, Fail, disk
  \* It takes effect.
  <2>5. CASE Swap
    <3>1. job \in Manifest /\ current' = job /\ job # None /\ pc = "swap"
      BY <2>5 DEF Swap, Directories, TypeOK
    <3>2. Live' = Desired[job]
      BY <3>1 DEF Live, Directories, CurrentComplete
    <3>3. pc' \in {"idle", "clean"}
      BY <2>5 DEF Swap, Succeed
    <3>4. Requested' = [c \in {"fetcher"} |-> None]
      BY <3>3 DEF Requested
    <3>5. Requested' = [Requested EXCEPT !["fetcher"] = None]
      BY <3>4, OneClient
    <3> QED
      BY <2>1, <3>1, <3>2, <3>5 DEF Cell!Next, Cell!Commit, asked
  \* Everything else is a stutter.
  <2>6. ASSUME UNCHANGED <<current, job>>, UNCHANGED pc \/ (pc = "write" /\ pc' = "swap")
        PROVE  UNCHANGED <<Live, Requested>>
    BY <2>6, LiveStays DEF Requested
  <2>7. ASSUME UNCHANGED current, {pc, pc'} \cap {"write", "swap"} = {}
        PROVE  UNCHANGED <<Live, Requested>>
    BY <2>7, LiveStays DEF Requested
  <2>8. CASE Crash
    <3>1. pc' = "idle" /\ UNCHANGED current
      BY <2>8 DEF Crash
    <3> QED
      BY <2>3, <2>7, <3>1
  <2>9. CASE RemoveDir \/ RemoveFails
    BY <2>7, <2>9 DEF RemoveDir, RemoveFails, Succeed, disk
  <2>10. CASE MakeLink \/ RemoveEntry \/ (\E k \in Key : WriteKey(k))
    BY <2>6, <2>10 DEF MakeLink, RemoveEntry, WriteKey, fetcher
  <2>11. CASE EnvoyOpen \/ EnvoyRead \/ EnvoyRestart \/ UNCHANGED vars
    BY <2>6, <2>11 DEF EnvoyOpen, EnvoyRead, EnvoyRestart, vars, disk, fetcher
  <2> QED
    BY <2>2, <2>4, <2>5, <2>8, <2>9, <2>10, <2>11 DEF Next
<1> QED
  BY <1>1, <1>2, DirectoriesInvariant, PTL DEF Spec, ImplementsCell, Cell!Spec
=============================================================================
