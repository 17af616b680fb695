--------------------------- MODULE GatewayProofs ---------------------------
(***************************************************************************)
(* Proofs about a push reaching Envoy, for any number of operators and any *)
(* set of configurations that has the empty one.                           *)
(***************************************************************************)
EXTENDS Gateway, FetcherProofs

LEMMA TwoFiles ==
  /\ Len(Files) = 2 /\ Files[1] = CDS /\ Files[2] = LDS
  /\ File = {CDS, LDS} /\ CDS # LDS
<1>1. Len(Files) = 2 /\ Files[1] = CDS /\ Files[2] = LDS
  BY GatewayAssumption
<1>2. CDS # LDS
  BY <1>1, ConstantsAssumption
<1>3. 1..2 = {1, 2}
  OBVIOUS
<1> QED
  BY <1>1, <1>2, <1>3 DEF File
-----------------------------------------------------------------------------
(* The poll loop inside the composition                                    *)

\* What the operators know of their own pushes.
PushersOK ==
  /\ job \in [Operator -> Content \cup {None}]
  /\ sent \in [Operator -> 0..Len(Files) - 1]
  /\ \A o \in Operator : job[o] = None => sent[o] = 0

LEMMA PushersTyped == GatewaySpec => []PushersOK
<1>1. GatewayInit => PushersOK
  BY TwoFiles DEF GatewayInit, PushersOK
<1>2. PushersOK /\ [GatewayNext]_gatewayVars => PushersOK'
  <2> SUFFICES ASSUME PushersOK, [GatewayNext]_gatewayVars PROVE PushersOK'
    OBVIOUS
  <2> USE TwoFiles DEF PushersOK
  <2>1. ASSUME NEW o \in Operator, Upload(o) PROVE PushersOK'
    BY <2>1 DEF Upload
  <2>2. ASSUME NEW o \in Operator, UploadFails(o) PROVE PushersOK'
    BY <2>2 DEF UploadFails
  <2>3. ASSUME NEW o \in Operator, NEW c \in Content, StartPush(o, c) PROVE PushersOK'
    BY <2>3, ConstantsAssumption DEF StartPush
  <2>4. CASE UNCHANGED pushers
    BY <2>4 DEF pushers
  <2>5. LoopStep \/ EnvoyStep \/ AnyRestart => UNCHANGED pushers
    BY DEF LoopStep, ApplyFile, SettleStep, NextPass, OtherStep, EnvoyStep,
           LoadClusters, LoadListener, AnyRestart, EnvoyRestart, FetcherRestart,
           ContainerRestart, pushers
  <2>6. UNCHANGED gatewayVars => UNCHANGED pushers
    BY DEF gatewayVars
  <2> QED
    BY <2>1, <2>2, <2>3, <2>4, <2>5, <2>6 DEF GatewayNext
<1> QED
  BY <1>1, <1>2, PTL DEF GatewaySpec

\* Whatever operators, Envoy and restarts do, the loop and its source do nothing
\* Fetcher does not know: what is proved of Fetcher holds here.
THEOREM GatewayContainsLoop == GatewaySpec => Spec
<1>1. GatewayInit => Init
  BY DEF GatewayInit
<1>2. PushersOK /\ [GatewayNext]_gatewayVars => [Next]_vars
  <2> SUFFICES ASSUME PushersOK, [GatewayNext]_gatewayVars PROVE [Next]_vars
    OBVIOUS
  <2>1. ASSUME NEW o \in Operator, Upload(o) PROVE Next
    <3>1. Files[sent[o] + 1] \in File /\ job[o] \in Content
      BY <2>1, FileAt, TwoFiles DEF Upload, PushersOK
    <3> QED
      BY <2>1, <3>1 DEF Upload, Next, Environment
  <2>2. ASSUME NEW o \in Operator, UploadFails(o) \/ \E c \in Content : StartPush(o, c)
        PROVE  UNCHANGED vars
    BY <2>2 DEF UploadFails, StartPush
  <2>3. LoopStep => FetcherStep
    BY DEF LoopStep, ApplyFile, SettleStep, NextPass, OtherStep, FetcherStep
  <2>4. EnvoyStep \/ EnvoyRestart => UNCHANGED vars
    BY DEF EnvoyStep, LoadClusters, LoadListener, EnvoyRestart
  <2>5. FetcherRestart \/ ContainerRestart => Restart
    BY DEF FetcherRestart, ContainerRestart, Restart
  <2>6. UNCHANGED gatewayVars => UNCHANGED vars
    BY DEF gatewayVars
  <2> QED
    BY <2>1, <2>2, <2>3, <2>4, <2>5, <2>6
       DEF GatewayNext, AnyRestart, Next, Environment
<1> QED
  BY <1>1, <1>2, PushersTyped, PTL DEF GatewaySpec, Spec
-----------------------------------------------------------------------------
(* Types                                                                   *)

EnvoyOK ==
  /\ watchesDirectory \in BOOLEAN /\ calm \in BOOLEAN /\ rejected \in BOOLEAN
  /\ woken \subseteq File /\ clusters \in Content /\ routes \in Content

\* The history, the operators' pushes and Envoy keep their types.
THEOREM GatewayTypeCorrect == GatewaySpec => []GatewayTypeOK
<1>1. GatewayInit => EnvoyOK
  BY ConstantsAssumption DEF GatewayInit, EnvoyOK
<1>2. TypeOK /\ EnvoyOK /\ [GatewayNext]_gatewayVars => EnvoyOK'
  <2> SUFFICES ASSUME TypeOK, EnvoyOK, [GatewayNext]_gatewayVars PROVE EnvoyOK'
    OBVIOUS
  <2> USE TwoFiles DEF EnvoyOK
  <2>0. disk[CDS] \in Content /\ disk[LDS] \in Content /\ file \in File
    BY FileAt DEF TypeOK, file
  <2>1. CASE LoopStep
    <3>1. CASE ApplyFile
      BY <2>0, <3>1 DEF ApplyFile, Wake
    <3>2. CASE SettleStep \/ OtherStep
      BY <3>2 DEF SettleStep, OtherStep, envoy
    <3>3. CASE NextPass
      BY <3>3 DEF NextPass, envoy, Coherent
    <3> QED
      BY <2>1, <3>1, <3>2, <3>3 DEF LoopStep
  <2>2. CASE LoadClusters
    BY <2>0, <2>2 DEF LoadClusters
  <2>3. CASE LoadListener
    BY <2>0, <2>3 DEF LoadListener
  <2>4. ASSUME NEW d, d[CDS] \in Content, d[LDS] \in Content, Boot(d), calm' \in BOOLEAN
        PROVE  EnvoyOK'
    BY <2>4, GatewayAssumption DEF Boot
  <2>5. CASE EnvoyRestart
    BY <2>0, <2>4, <2>5 DEF EnvoyRestart
  <2>6. CASE FetcherRestart
    BY <2>6 DEF FetcherRestart, envoy
  <2>7. CASE ContainerRestart
    <3> DEFINE image == [f \in File |-> Seed]
    <3>1. image[CDS] \in Content /\ image[LDS] \in Content
      BY ConstantsAssumption
    <3>2. Boot(image) /\ calm' \in BOOLEAN
      BY <2>7 DEF ContainerRestart, Coherent
    <3> HIDE DEF image
    <3> QED
      BY <2>4, <3>1, <3>2
  <2>8. CASE UNCHANGED <<calm, envoy>>
    BY <2>8 DEF envoy
  <2>9. ASSUME NEW o \in Operator,
               Upload(o) \/ UploadFails(o) \/ \E c \in Content : StartPush(o, c)
        PROVE  UNCHANGED <<calm, envoy>>
    BY <2>9 DEF Upload, UploadFails, StartPush
  <2> QED
    BY <2>1, <2>2, <2>3, <2>5, <2>6, <2>7, <2>8, <2>9
       DEF GatewayNext, EnvoyStep, AnyRestart, gatewayVars
<1>3. TypeOK /\ PushersOK /\ EnvoyOK => GatewayTypeOK
  BY DEF PushersOK, EnvoyOK, GatewayTypeOK
<1> QED
  BY <1>1, <1>2, <1>3, GatewayContainsLoop, TypeCorrect, PushersTyped, PTL
     DEF GatewaySpec
-----------------------------------------------------------------------------
(* Envoy and the disk                                                      *)

\* A file Envoy has no event pending for is the one it runs, unless it refused
\* it; and if one event wakes both subscriptions, a listener that stays refused
\* does not fit the clusters on disk.
EnvoyTracks ==
  /\ CDS \notin woken => clusters = disk[CDS]
  /\ LDS \notin woken /\ ~rejected => routes = disk[LDS]
  /\ watchesDirectory =>
       /\ CDS \in woken => LDS \in woken
       /\ LDS \notin woken /\ rejected => ~(disk[LDS] \subseteq disk[CDS])

LEMMA EnvoyTracksInductive ==
  ASSUME TypeOK, EnvoyOK, EnvoyTracks, [GatewayNext]_gatewayVars
  PROVE  EnvoyTracks'
<1> USE TwoFiles DEF EnvoyTracks
<1>0. disk \in [File -> Content] /\ file \in File /\ woken \subseteq File
  BY FileAt DEF TypeOK, EnvoyOK, file
<1>1. CASE ApplyFile
  <2>1. disk' = [disk EXCEPT ![file] = got] /\ Wake(file)
        /\ UNCHANGED <<watchesDirectory, clusters, routes, rejected>>
    BY <1>1 DEF ApplyFile, Apply
  <2>2. watchesDirectory => woken' = File
    BY <1>0, <2>1 DEF Wake
  <2>3. ~watchesDirectory => woken' = woken \cup {file}
    BY <2>1 DEF Wake
  <2> QED
    BY <1>0, <2>1, <2>2, <2>3
<1>2. CASE LoadClusters
  BY <1>2 DEF LoadClusters, vars
<1>3. CASE LoadListener
  BY <1>3 DEF LoadListener, vars
<1>4. ASSUME NEW d, Boot(d), disk' = d PROVE EnvoyTracks'
  BY <1>4 DEF Boot
<1>5. CASE EnvoyRestart
  BY <1>4, <1>5 DEF EnvoyRestart, vars
<1>6. CASE ContainerRestart
  <2> DEFINE image == [f \in File |-> Seed]
  <2>1. Boot(image) /\ disk' = image
    BY <1>6 DEF ContainerRestart, Start
  <2> HIDE DEF image
  <2> QED
    BY <1>4, <2>1
<1>7. CASE UNCHANGED <<disk, envoy>>
  BY <1>7 DEF envoy
<1>8. ASSUME NEW o \in Operator,
             Upload(o) \/ UploadFails(o) \/ \E c \in Content : StartPush(o, c)
      PROVE  UNCHANGED <<disk, envoy>>
  BY <1>8 DEF Upload, UploadFails, StartPush, Push, vars
<1>9. SettleStep \/ NextPass \/ OtherStep \/ FetcherRestart => UNCHANGED <<disk, envoy>>
  BY DEF SettleStep, NextPass, OtherStep, FetcherRestart, Settle, BeginPass, FetchLost,
         FetchFails, FetchFindsNothing, FetchUnchanged, FetchChanged, ApplyFails, EndPass, Start
<1> QED
  BY <1>1, <1>2, <1>3, <1>5, <1>6, <1>7, <1>8, <1>9
     DEF GatewayNext, LoopStep, EnvoyStep, AnyRestart, Trouble, gatewayVars, vars

LEMMA EnvoyAlwaysTracks == GatewaySpec => []EnvoyTracks
<1>1. GatewayInit => EnvoyTracks
  BY TwoFiles DEF GatewayInit, Init, EnvoyTracks
<1>2. GatewayTypeOK => TypeOK /\ EnvoyOK
  BY DEF GatewayTypeOK, EnvoyOK
<1> QED
  BY <1>1, <1>2, EnvoyTracksInductive, GatewayTypeCorrect, PTL DEF GatewaySpec
-----------------------------------------------------------------------------
(* A pass that begins with a coherent source and an idle Envoy             *)

\* While the source is left alone it stays coherent; Envoy is idle whenever the
\* loop is at a file; an event for lds.yaml means that the pass is done with
\* cds.yaml, and, if each file has its own, that cds.yaml's has been handled.
CalmPass ==
  calm =>
    /\ moved = {} => Coherent
    /\ pc \in {"fetch", "lost", "apply"} => woken = {}
    /\ LDS \in woken => Done(1) \/ pc = "sleep"
    /\ watchesDirectory \/ {CDS, LDS} # woken

LEMMA CalmPassInductive ==
  ASSUME TypeOK, EnvoyOK, PushersOK, CalmPass, [GatewayNext]_gatewayVars
  PROVE  CalmPass'
<1> SUFFICES ASSUME calm'
             PROVE  /\ moved' = {} => Coherent'
                    /\ pc' \in {"fetch", "lost", "apply"} => woken' = {}
                    /\ LDS \in woken' => Done(1)' \/ pc' = "sleep"
                    /\ watchesDirectory' \/ {CDS, LDS} # woken'
  BY DEF CalmPass
<1> USE TwoFiles
<1>0. i \in {1, 2} /\ woken \subseteq {CDS, LDS} /\ file = Files[i]
  BY DEF TypeOK, EnvoyOK, file
<1>1. CASE ApplyFile
  <2>1. /\ calm /\ woken = {} /\ UNCHANGED <<remote, moved, watchesDirectory>>
        /\ pc' \in {"settle", "end"} /\ (pc' = "settle" => i' = i) /\ Wake(file)
    BY <1>0, <1>1 DEF ApplyFile, Apply, NextFile, env, CalmPass
  <2>2. Done(1)'
    BY <1>0, <1>1, <2>1 DEF ApplyFile, Apply, NextFile, Done
  <2>3. ~watchesDirectory => woken' = {file}
    BY <2>1 DEF Wake
  <2> QED
    BY <2>1, <2>2, <2>3 DEF CalmPass, Coherent
<1>2. CASE SettleStep
  BY <1>0, <1>2 DEF SettleStep, Settle, env, pushers, envoy, CalmPass, Coherent
<1>3. CASE NextPass
  BY <1>3 DEF NextPass, BeginPass, env, envoy, Coherent
<1>4. CASE OtherStep
  <2>1. UNCHANGED <<remote, moved, calm, woken, watchesDirectory>>
    BY <1>4 DEF OtherStep, FetchLost, FetchFails, FetchFindsNothing, FetchUnchanged,
                FetchChanged, ApplyFails, EndPass, env, envoy
  <2>2. CASE EndPass
    BY <2>1, <2>2 DEF EndPass, CalmPass, Coherent
  <2>3. CASE ~EndPass
    <3>1. woken = {}
      BY <1>4, <2>1, <2>3 DEF OtherStep, FetchLost, FetchFails, FetchFindsNothing,
                              FetchUnchanged, FetchChanged, ApplyFails, CalmPass
    <3> QED
      BY <2>1, <3>1 DEF CalmPass, Coherent
  <2> QED
    BY <2>2, <2>3
<1>5. CASE EnvoyStep
  <2>1. UNCHANGED <<vars, calm, watchesDirectory>> /\ woken' \subseteq woken
        /\ woken' # {CDS, LDS}
    BY <1>0, <1>5 DEF EnvoyStep, LoadClusters, LoadListener
  <2> QED
    BY <2>1 DEF CalmPass, Coherent, Done, vars, env, loop
<1>6. CASE EnvoyRestart \/ ContainerRestart
  BY <1>6 DEF EnvoyRestart, ContainerRestart, Boot, Start, vars, env, loop, CalmPass, Coherent
<1>7. CASE FetcherRestart
  BY <1>7 DEF FetcherRestart, Start, env, envoy, Coherent
<1>8. ASSUME NEW o \in Operator, Upload(o) PROVE CalmPass'
  BY <1>8 DEF Upload, Push, loop, envoy, CalmPass, Done
<1>9. CASE UNCHANGED <<remote, moved, loop, calm, envoy>>
  BY <1>9 DEF loop, envoy, CalmPass, Coherent, Done
<1>10. ASSUME NEW o \in Operator, UploadFails(o) \/ \E c \in Content : StartPush(o, c)
       PROVE  UNCHANGED <<remote, moved, loop, calm, envoy>>
  BY <1>10 DEF UploadFails, StartPush, vars, env
<1> QED
  BY <1>1, <1>2, <1>3, <1>4, <1>5, <1>6, <1>7, <1>8, <1>9, <1>10
     DEF GatewayNext, LoopStep, AnyRestart, Trouble, gatewayVars, vars, env, CalmPass

LEMMA PassesAreCalm == GatewaySpec => []CalmPass
<1>1. GatewayInit => CalmPass
  BY DEF GatewayInit, CalmPass
<1>2. GatewayTypeOK => TypeOK /\ EnvoyOK /\ PushersOK
  BY DEF GatewayTypeOK, EnvoyOK, PushersOK
<1> QED
  BY <1>1, <1>2, CalmPassInductive, GatewayTypeCorrect, PTL DEF GatewaySpec
-----------------------------------------------------------------------------
\* A calm and clean pass over a source that is left alone brings Envoy to what
\* the source holds, for a source that tells a failed read from a missing file.
THEOREM CalmPassAlwaysHeals ==
  ASSUME ~ReadErrorIsNotFound
  PROVE  GatewaySpec => []CalmPassHeals
<1>1. EnvoyTracks /\ CalmPass /\ AsleepReflects => CalmPassHeals
  BY TwoFiles DEF EnvoyTracks, CalmPass, AsleepReflects, CalmPassHeals, Reflects,
                  Coherent, Serving
<1> QED
  BY <1>1, EnvoyAlwaysTracks, PassesAreCalm, GatewayContainsLoop,
     AsleepAlwaysReflects, PTL

\* Nor is Envoy led to refuse the listener such a pass is heading for, whichever
\* way it watches the files.
THEOREM CalmPassNeverRefused ==
  ASSUME ~ReadErrorIsNotFound
  PROVE  GatewaySpec => CalmPassNotRefused
<1> DEFINE Inv == TypeOK /\ EnvoyOK /\ EnvoyTracks /\ CalmPass /\ PassReflects /\ AsleepReflects
<1>1. ASSUME Inv, LoadListener, cleanPass, calm, moved = {}, disk[LDS] = remote[LDS]
      PROVE  ~rejected'
  <2> USE TwoFiles
  <2>1. Coherent /\ (Done(1) \/ pc = "sleep")
    BY <1>1 DEF LoadListener, CalmPass
  <2>2. Reflects(CDS)
    BY <1>1, <2>1 DEF PassReflects, AsleepReflects
  <2>3. disk[CDS] = remote[CDS]
    BY <1>1, <2>1, <2>2 DEF Reflects, Coherent
  <2>4. clusters = disk[CDS]
    BY <1>1 DEF LoadListener, EnvoyTracks, EnvoyOK, CalmPass
  <2> QED
    BY <1>1, <2>1, <2>3, <2>4 DEF LoadListener, Coherent
<1>2. Inv /\ [GatewayNext]_gatewayVars =>
        [LoadListener /\ cleanPass /\ calm /\ moved = {} /\ disk[LDS] = remote[LDS]
           => ~rejected']_gatewayVars
  BY <1>1
<1>3. GatewayTypeOK => TypeOK /\ EnvoyOK
  BY DEF GatewayTypeOK, EnvoyOK
<1>4. GatewaySpec => []Inv
  BY <1>3, GatewayTypeCorrect, EnvoyAlwaysTracks, PassesAreCalm, GatewayContainsLoop,
     PassAlwaysReflects, AsleepAlwaysReflects, PTL
<1> QED
  BY <1>2, <1>4, PTL DEF GatewaySpec, CalmPassNotRefused
=============================================================================
