------------------------- MODULE DistributionProofs -------------------------
(***************************************************************************)
(* Proofs about operators, sources and pods, for any number of each, any   *)
(* settings and any files.                                                 *)
(***************************************************************************)
EXTENDS Distribution, FiniteSetTheorems, TLAPS

-----------------------------------------------------------------------------
(* Types                                                                   *)

\* What a client may hear of a request.
Answer == [status : {200, 400, 401, 404, 500}, body : Version \cup {NotPushed}]

Call == [from : Client \cup {Nobody}, place : Place, token : Value,
         file : Name, content : Version \cup {NotPushed}]

Job == [version : Version, place : Place, token : Value, n : 1..Len(Files)]

\* The settings file and the commands at it.
SettingsTyped ==
  /\ settings \in [Key -> Value] /\ app \in [Operator -> [Key -> Value]]
  /\ at \in [Operator -> {"idle", "changed", "truncated", "push"}]
  /\ left \in [Operator -> 0..MaxCommands]

\* The sources, the requests and the answers.
SourcesTyped ==
  /\ source \in [Place -> [Name -> Version \cup {NotPushed}]]
  /\ wire \subseteq Call
  /\ inbox \in [Client -> Answer \cup {Silence}]
  /\ \A r \in wire : Posts(r) \/ r.from \in Pod

\* An operator that pushes waits for one upload, or has its answer.
PushTyped(o) ==
  /\ push[o] \in Job \cup {NoPush}
  /\ push[o] # NoPush <=> o \in Pushing
  /\ inbox[o] # Silence => o \in Pushing
  /\ \A r \in wire : r.from = o =>
       o \in Pushing /\ inbox[o] = Silence /\ r = Upload(o, push[o], push[o].n)

PushesTyped == push \in [Operator -> Job \cup {NoPush}] /\ \A o \in Operator : PushTyped(o)

\* A pod waits for one fetch, or has its answer, and only while it asks.
PodTyped(p) ==
  /\ inbox[p] # Silence =>
       loop[p].pc = "asked" /\ (inbox[p].status = 200 => inbox[p].body \in Version)
  /\ \A r \in wire : r.from = p =>
       loop[p].pc = "asked" /\ inbox[p] = Silence /\ r = Fetch(p, loop[p].i)

Loops == [Pod -> [pc : {"asked", "settle", "end", "sleep"}, i : 1..Len(Files),
                  clean : BOOLEAN, ready : BOOLEAN]]

PodsTyped ==
  /\ login \in [Pod -> Login]
  /\ loop \in Loops
  /\ disk \in [Pod -> [Name -> Version \cup {Image}]]
  /\ digest \in [Pod -> [Name -> Version \cup {NotPushed}]]
  /\ moved \in [Pod -> SUBSET Name]
  /\ \A p \in Pod : PodTyped(p)

Typed == SettingsTyped /\ SourcesTyped /\ PushesTyped /\ PodsTyped

LEMMA FirstFile == 1 \in 1..Len(Files) /\ Len(Files) \in Nat
  BY DistributionAssumption

LEMMA FileAt == \A n \in 1..Len(Files) : Files[n] \in Name
  BY DistributionAssumption

LEMMA Unmistakable ==
  /\ NotPushed \notin Version /\ Image \notin Version /\ Unknown \notin Version
  /\ NotPushed # Image /\ Unknown # Image
  /\ Silence \notin Answer
<1>1. Answer \subseteq [status : Nat, body : Version \cup {NotPushed}]
  BY DEF Answer
<1> QED
  BY <1>1, DistributionAssumption

LEMMA Clients ==
  /\ Operator \subseteq Client /\ Pod \subseteq Client /\ Operator \cap Pod = {}
  /\ Nobody \notin Client /\ Nobody \notin Operator /\ Nobody \notin Pod
  BY DistributionAssumption

LEMMA NoSettingsType == NoSettings \in [Key -> Value]
  BY SettingsAssumption DEF NoSettings

LEMMA ResolveType ==
  ASSUME SettingsTyped, NEW o \in Operator, NEW key \in Key
  PROVE  Resolve(o, key) \in Value
<1>1. Env[o][key] \in Value /\ settings[key] \in Value
  BY SettingsAssumption DEF SettingsTyped
<1> QED
  BY <1>1, SettingsAssumption DEF Resolve

\* Where a push goes and what it carries.
LEMMA DestinationType ==
  ASSUME SettingsTyped, NEW o \in Operator, NEW mode, left[o] > 0,
         Destination(o, mode).place \in Place
  PROVE  Destination(o, mode) \in Job /\ Destination(o, mode).n = 1
<1>1. Resolve(o, "http.api-token") \in Value /\ Unset \in Value
  BY ResolveType, SettingsAssumption DEF Key
<1>2. <<o, left[o]>> \in Version
  BY SettingsAssumption DEF SettingsTyped, Version
<1> QED
  BY <1>1, <1>2, FirstFile DEF Destination, Job

LEMMA UploadType ==
  ASSUME NEW o \in Operator, NEW job \in Job, NEW n \in 1..Len(Files)
  PROVE  /\ Upload(o, job, n) \in Call /\ Posts(Upload(o, job, n))
         /\ Upload(o, job, n).from = o /\ Upload(o, job, n).content = job.version
         /\ Upload(o, job, n).place = job.place /\ Upload(o, job, n).file = Files[n]
  BY FileAt, Clients, Unmistakable DEF Upload, Request, Call, Job, Posts

LEMMA FetchType ==
  ASSUME NEW p \in Pod, login \in [Pod -> Login], NEW n \in 1..Len(Files)
  PROVE  /\ Fetch(p, n) \in Call /\ ~Posts(Fetch(p, n)) /\ Fetch(p, n).from = p
         /\ Fetch(p, n).place = login[p].place /\ Fetch(p, n).token = login[p].token
         /\ Fetch(p, n).file = Files[n]
<1>1. login[p].place \in Place /\ login[p].token \in Value
  BY DistributionAssumption
<1> QED
  BY <1>1, FileAt, Clients DEF Fetch, Request, Call, Posts

LEMMA TypedInit == Init => Typed
<1> SUFFICES ASSUME Init PROVE Typed
  OBVIOUS
<1>1. SettingsTyped
  BY NoSettingsType, SettingsAssumption DEF Init, SettingsInit, SettingsTyped
<1>2. \A p \in Pod : Fetch(p, 1) \in Call /\ Fetch(p, 1).from = p
  BY FetchType, FirstFile DEF Init
<1>3. SourcesTyped
  BY <1>2, Clients DEF Init, SourceInit, SourcesTyped
<1>4. PushesTyped
  <2>1. Pushing = {}
    BY DEF Init, SettingsInit, Pushing
  <2>2. \A o \in Operator : inbox[o] = Silence
    BY Clients DEF Init, SourceInit
  <2>3. \A r \in wire : r.from \in Pod
    BY <1>2 DEF Init
  <2> QED
    BY <2>1, <2>2, <2>3, Clients DEF Init, PushesTyped, PushTyped
<1>5. PodsTyped
  <2>1. \A p \in Pod : inbox[p] = Silence
    BY Clients DEF Init, SourceInit
  <2>2. \A p \in Pod, r \in wire : r.from = p => r = Fetch(p, 1)
    BY <1>2 DEF Init
  <2>3. loop \in Loops /\ \A p \in Pod : loop[p].pc = "asked" /\ loop[p].i = 1
    BY FirstFile DEF Init, Loops
  <2> QED
    BY <2>1, <2>2, <2>3 DEF Init, PodsTyped, PodTyped
<1> QED
  BY <1>1, <1>3, <1>4, <1>5 DEF Typed
-----------------------------------------------------------------------------
(* What the steps of pods, sources and operators do to each other          *)

\* The requests once p waits for nothing but the fetch its loop is at.
Sends(p) ==
  wire' = {r \in wire : r.from # p}
            \cup IF loop'[p].pc = "asked" THEN {Fetch(p, loop'[p].i)} ELSE {}

\* All that a step of pod p may do: take its answer, and go on in its loop.
PodMoves(p) ==
  /\ UNCHANGED <<settingsVars, source, trouble, uploads, login>>
  /\ inbox' = [inbox EXCEPT ![p] = Silence]
  /\ loop' \in Loops /\ Sends(p)
  /\ disk' \in [Pod -> [Name -> Version \cup {Image}]]
  /\ digest' \in [Pod -> [Name -> Version \cup {NotPushed}]]
  /\ moved' \in [Pod -> SUBSET Name]
  /\ \A q \in Pod \ {p} :
       /\ loop'[q] = loop[q] /\ disk'[q] = disk[q]
       /\ digest'[q] = digest[q] /\ moved'[q] = moved[q]

LEMMA AskEffect ==
  ASSUME NEW p \in Pod, NEW n \in 1..Len(Files), NEW clean \in BOOLEAN, NEW ready \in BOOLEAN,
         loop \in Loops, UNCHANGED login, Ask(p, n, clean, ready)
  PROVE  /\ loop' \in Loops /\ Sends(p)
         /\ \A q \in Pod \ {p} : loop'[q] = loop[q]
         /\ loop'[p] = [pc |-> "asked", i |-> n, clean |-> clean, ready |-> ready]
<1>1. loop' = [loop EXCEPT ![p] = [pc |-> "asked", i |-> n, clean |-> clean, ready |-> ready]]
      /\ wire' = {r \in wire : r.from # p} \cup {Fetch(p, n)}
  BY DEF Ask
<1>2. /\ loop' \in Loops /\ \A q \in Pod \ {p} : loop'[q] = loop[q]
      /\ loop'[p] = [pc |-> "asked", i |-> n, clean |-> clean, ready |-> ready]
  BY <1>1 DEF Loops
<1> QED
  BY <1>1, <1>2 DEF Sends

\* The loop goes on to the next file, or to the end of the pass after the last.
LEMMA NextFileEffect ==
  ASSUME NEW p \in Pod, NEW clean \in BOOLEAN, loop \in Loops, UNCHANGED login,
         NextFile(p, clean)
  PROVE  /\ loop' \in Loops /\ Sends(p)
         /\ \A q \in Pod \ {p} : loop'[q] = loop[q]
         /\ loop'[p].clean = clean /\ loop'[p].ready = loop[p].ready
         /\ loop[p].i < Len(Files) => loop'[p].pc = "asked" /\ loop'[p].i = loop[p].i + 1
         /\ ~(loop[p].i < Len(Files)) => loop'[p].pc = "end" /\ loop'[p].i = loop[p].i
<1>0. /\ loop[p].i \in 1..Len(Files) /\ Len(Files) \in Nat /\ loop[p].ready \in BOOLEAN
      /\ loop[p] \in [pc : {"asked", "settle", "end", "sleep"}, i : 1..Len(Files),
                     clean : BOOLEAN, ready : BOOLEAN]
  BY FirstFile DEF Loops
<1>1. CASE loop[p].i < Len(Files)
  <2>1. loop[p].i + 1 \in 1..Len(Files)
    BY <1>0, <1>1
  <2>2. Ask(p, loop[p].i + 1, clean, loop[p].ready)
    BY <1>1 DEF NextFile
  <2>3. /\ loop' \in Loops /\ Sends(p) /\ \A q \in Pod \ {p} : loop'[q] = loop[q]
        /\ loop'[p] = [pc |-> "asked", i |-> loop[p].i + 1, clean |-> clean,
                       ready |-> loop[p].ready]
    BY <1>0, <2>1, <2>2, AskEffect
  <2> QED
    BY <1>1, <2>3
<1>2. CASE ~(loop[p].i < Len(Files))
  <2>1. /\ loop' = [loop EXCEPT ![p].pc = "end", ![p].clean = clean]
        /\ wire' = {r \in wire : r.from # p}
    BY <1>2 DEF NextFile
  <2>2. /\ loop'[p] = [pc |-> "end", i |-> loop[p].i, clean |-> clean, ready |-> loop[p].ready]
        /\ \A q \in Pod \ {p} : loop'[q] = loop[q]
    BY <1>0, <2>1 DEF Loops
  <2>3. loop' \in Loops
    BY <1>0, <2>1, <2>2 DEF Loops
  <2>4. Sends(p)
    BY <2>1, <2>2 DEF Sends
  <2> QED
    BY <1>2, <2>2, <2>3, <2>4
<1> QED
  BY <1>1, <1>2

LEMMA PodTypes ==
  ASSUME PodsTyped, NEW p \in Pod
  PROVE  /\ login[p] \in Login /\ login[p].place \in Place /\ login[p].token \in Value
         /\ loop[p] \in [pc : {"asked", "settle", "end", "sleep"}, i : 1..Len(Files),
                         clean : BOOLEAN, ready : BOOLEAN]
         /\ Position(p) \in Name
         /\ disk[p] \in [Name -> Version \cup {Image}]
         /\ digest[p] \in [Name -> Version \cup {NotPushed}]
         /\ moved[p] \subseteq Name
<1>1. login[p] \in Login
  BY DEF PodsTyped
<1>2. login[p].place \in Place /\ login[p].token \in Value
  BY <1>1, DistributionAssumption
<1>3. loop[p] \in [pc : {"asked", "settle", "end", "sleep"}, i : 1..Len(Files),
                  clean : BOOLEAN, ready : BOOLEAN]
  BY DEF PodsTyped, Loops
<1>4. Position(p) \in Name
  BY <1>3, FileAt DEF Position
<1>5. /\ disk[p] \in [Name -> Version \cup {Image}]
      /\ digest[p] \in [Name -> Version \cup {NotPushed}]
      /\ moved[p] \subseteq Name
  BY DEF PodsTyped
<1> QED
  BY <1>1, <1>2, <1>3, <1>4, <1>5

\* Nothing p has sent is under way when it has an answer, or does not ask.
LEMMA NothingUnderway ==
  ASSUME PodsTyped, NEW p \in Pod, inbox[p] # Silence \/ loop[p].pc # "asked"
  PROVE  wire = {r \in wire : r.from # p}
  BY DEF PodsTyped, PodTyped

LEMMA PodStepMoves ==
  ASSUME Typed, NEW p \in Pod, PodStep(p) \/ Restart(p)
  PROVE  PodMoves(p)
<1>0. /\ SourcesTyped /\ PodsTyped /\ PodTyped(p) /\ p \in Client /\ loop \in Loops
      /\ inbox \in [Client -> Answer \cup {Silence}]
  BY Clients DEF Typed, SourcesTyped, PodsTyped
<1>1. /\ Position(p) \in Name /\ loop[p].clean \in BOOLEAN /\ loop[p].ready \in BOOLEAN
      /\ loop[p].i \in 1..Len(Files)
  BY <1>0, PodTypes
<1>2. inbox[p] = Silence => inbox = [inbox EXCEPT ![p] = Silence]
  BY <1>0
<1>3. loop[p].pc # "asked" => inbox[p] = Silence
  BY <1>0 DEF PodTyped
<1>t. /\ disk \in [Pod -> [Name -> Version \cup {Image}]]
      /\ digest \in [Pod -> [Name -> Version \cup {NotPushed}]]
      /\ moved \in [Pod -> SUBSET Name]
  BY <1>0 DEF PodsTyped
<1>4. ASSUME NEW clean \in BOOLEAN, NextFile(p, clean),
             UNCHANGED <<settingsVars, source, trouble, uploads, login, disk, digest, moved>>,
             inbox' = [inbox EXCEPT ![p] = Silence]
      PROVE  PodMoves(p)
  BY <1>0, <1>t, <1>4, NextFileEffect DEF PodMoves
<1>5. CASE FetchFails(p)
  BY <1>2, <1>4, <1>5 DEF FetchFails, Asking
<1>6. CASE FetchFindsNothing(p)
  BY <1>1, <1>4, <1>6 DEF FetchFindsNothing, Heard
<1>7. CASE FetchRefused(p)
  BY <1>4, <1>7 DEF FetchRefused, Heard
<1>8. CASE FetchUnchanged(p)
  BY <1>1, <1>4, <1>8 DEF FetchUnchanged, Heard
<1>9. CASE Apply(p)
  <2>1. inbox[p] # Silence /\ inbox[p].status = 200 /\ Heard(p)
    BY <1>9 DEF Apply, Answered
  <2>2. inbox[p].body \in Version
    BY <1>0, <2>1 DEF PodTyped
  <2>3. /\ disk' = [disk EXCEPT ![p][Position(p)] = inbox[p].body]
        /\ digest' = [digest EXCEPT ![p][Position(p)] = inbox[p].body]
    BY <1>9 DEF Apply
  <2>4. /\ disk' \in [Pod -> [Name -> Version \cup {Image}]]
        /\ digest' \in [Pod -> [Name -> Version \cup {NotPushed}]]
        /\ \A q \in Pod \ {p} : disk'[q] = disk[q] /\ digest'[q] = digest[q]
    BY <1>t, <1>1, <2>2, <2>3
  <2>5. loop' \in Loops /\ Sends(p) /\ \A q \in Pod \ {p} : loop'[q] = loop[q]
    <3>1. CASE loop[p].i < Len(Files)
      <4>1. loop' = [loop EXCEPT ![p].pc = "settle"] /\ UNCHANGED wire
        BY <1>9, <3>1 DEF Apply
      <4>2. loop' \in Loops /\ loop'[p].pc = "settle" /\ \A q \in Pod \ {p} : loop'[q] = loop[q]
        BY <1>0, <4>1 DEF Loops
      <4> QED
        BY <1>0, <2>1, <4>1, <4>2, NothingUnderway DEF Sends
    <3>2. CASE ~(loop[p].i < Len(Files))
      <4>1. NextFile(p, loop[p].clean)
        BY <1>9, <3>2 DEF Apply
      <4>2. UNCHANGED login
        BY <2>1 DEF Heard
      <4> QED
        BY <1>0, <1>1, <4>1, <4>2, NextFileEffect
    <3> QED
      BY <3>1, <3>2
  <2> QED
    BY <1>t, <2>1, <2>4, <2>5 DEF PodMoves, Heard
<1>10. CASE ApplyFails(p)
  BY <1>4, <1>10 DEF ApplyFails, Heard
<1>11. CASE Settle(p)
  BY <1>1, <1>2, <1>3, <1>4, <1>11 DEF Settle
<1>12. CASE EndPass(p)
  <2>1. loop' = [loop EXCEPT ![p].ready = @ \/ loop[p].clean, ![p].pc = "sleep"]
    BY <1>12 DEF EndPass
  <2>2. loop' \in Loops /\ loop'[p].pc = "sleep" /\ \A q \in Pod \ {p} : loop'[q] = loop[q]
    BY <1>0, <2>1 DEF Loops
  <2>3. loop[p].pc = "end" /\ UNCHANGED <<settingsVars, sourceVars, uploads, login, disk, digest, moved>>
    BY <1>12 DEF EndPass
  <2> QED
    BY <1>0, <1>2, <1>3, <1>t, <2>2, <2>3, NothingUnderway DEF PodMoves, Sends, sourceVars
<1>13. CASE BeginPass(p)
  <2>1. /\ loop[p].pc = "sleep" /\ Ask(p, 1, TRUE, loop[p].ready)
        /\ moved' = [moved EXCEPT ![p] = {}]
        /\ UNCHANGED <<settingsVars, source, inbox, trouble, uploads, login, disk, digest>>
    BY <1>13 DEF BeginPass
  <2>2. loop' \in Loops /\ Sends(p) /\ \A q \in Pod \ {p} : loop'[q] = loop[q]
    BY <1>0, <1>1, <2>1, FirstFile, AskEffect
  <2> QED
    BY <1>2, <1>3, <1>t, <2>1, <2>2 DEF PodMoves
<1>14. CASE Restart(p)
  <2>1. /\ disk' \in {disk, [disk EXCEPT ![p] = [f \in Name |-> Image]]}
        /\ digest' = [digest EXCEPT ![p] = [f \in Name |-> NotPushed]]
        /\ moved' = [moved EXCEPT ![p] = {}]
        /\ Ask(p, 1, TRUE, FALSE)
        /\ inbox' = [inbox EXCEPT ![p] = Silence]
        /\ UNCHANGED <<settingsVars, source, trouble, uploads, login>>
    BY <1>14 DEF Restart
  <2>2. loop' \in Loops /\ Sends(p) /\ \A q \in Pod \ {p} : loop'[q] = loop[q]
    BY <1>0, <2>1, FirstFile, AskEffect
  <2>3. /\ disk' \in [Pod -> [Name -> Version \cup {Image}]]
        /\ digest' \in [Pod -> [Name -> Version \cup {NotPushed}]]
        /\ \A q \in Pod \ {p} : disk'[q] = disk[q] /\ digest'[q] = digest[q]
    BY <1>t, <2>1
  <2> QED
    BY <1>t, <2>1, <2>2, <2>3 DEF PodMoves
<1> QED
  BY <1>5, <1>6, <1>7, <1>8, <1>9, <1>10, <1>11, <1>12, <1>13, <1>14 DEF PodStep
\* All that the handling of request r, or its loss, may do.
SourceMoves(r) ==
  /\ r \in wire /\ wire' = wire \ {r}
  /\ UNCHANGED <<settingsVars, trouble, uploads, login, disk, digest, loop>>
  /\ source' \in [Place -> [Name -> Version \cup {NotPushed}]]
  /\ moved' \in [Pod -> SUBSET Name]
  /\ inbox' \in [Client -> Answer \cup {Silence}]
  /\ \A c \in Client \ {r.from} : inbox'[c] = inbox[c]
  /\ \A p \in Pod : p = r.from /\ inbox'[p] # Silence /\ inbox'[p].status = 200 =>
       inbox'[p].body \in Version

\* A reply reaches the client that waits for it, or nobody.
LEMMA ReplyReaches ==
  ASSUME SourcesTyped, NEW r \in wire, NEW status, NEW body, Reply(r, status, body),
         r.from \in Client
  PROVE  \/ inbox'[r.from] = [status |-> status, body |-> body]
         \/ trouble /\ inbox'[r.from] = inbox[r.from]
  BY DEF SourcesTyped, Reply

LEMMA ReplyEffect ==
  ASSUME SourcesTyped, NEW r \in wire, NEW status \in {200, 400, 401, 404, 500},
         NEW body \in Version \cup {NotPushed}, Reply(r, status, body)
  PROVE  /\ wire' = wire \ {r} /\ UNCHANGED trouble
         /\ inbox' \in [Client -> Answer \cup {Silence}]
         /\ \A c \in Client \ {r.from} : inbox'[c] = inbox[c]
<1>1. [status |-> status, body |-> body] \in Answer
  BY DEF Answer
<1>2. inbox \in [Client -> Answer \cup {Silence}]
  BY DEF SourcesTyped
<1>3. CASE inbox' = [c \in Client |->
                       IF c = r.from THEN [status |-> status, body |-> body] ELSE inbox[c]]
  BY <1>1, <1>2, <1>3 DEF Reply
<1>4. CASE trouble /\ UNCHANGED inbox
  BY <1>2, <1>4 DEF Reply
<1> QED
  BY <1>3, <1>4 DEF Reply

\* A request is for a file of a place, and carries a version or nothing.
LEMMA CallTypes ==
  ASSUME SourcesTyped, NEW r \in wire
  PROVE  /\ r \in Call /\ r.place \in Place /\ r.file \in Name
         /\ r.content \in Version \cup {NotPushed} /\ r.from \in Client \cup {Nobody}
         /\ source[r.place][r.file] \in Version \cup {NotPushed}
         /\ Posts(r) => r.content \in Version
         /\ ~Posts(r) => r.from \in Pod
<1>1. r \in Call
  BY DEF SourcesTyped
<1>2. /\ r.place \in Place /\ r.file \in Name
      /\ r.content \in Version \cup {NotPushed} /\ r.from \in Client \cup {Nobody}
  BY <1>1 DEF Call
<1> QED
  BY <1>1, <1>2 DEF SourcesTyped, Posts

LEMMA SourceStepMoves ==
  ASSUME Typed, NEW r \in wire,
         \/ Store(r)
         \/ (Serve(r) \/ Lose(r)) /\ UNCHANGED <<settingsVars, uploads, pods>>
  PROVE  SourceMoves(r)
<1>0. /\ SourcesTyped /\ PodsTyped /\ moved \in [Pod -> SUBSET Name]
      /\ source \in [Place -> [Name -> Version \cup {NotPushed}]]
      /\ inbox \in [Client -> Answer \cup {Silence}]
  BY DEF Typed, SourcesTyped, PodsTyped
<1>1. /\ r.place \in Place /\ r.file \in Name
      /\ r.content \in Version \cup {NotPushed}
      /\ source[r.place][r.file] \in Version \cup {NotPushed}
      /\ Posts(r) => r.content \in Version
  BY <1>0, CallTypes
<1>2. ASSUME NEW p \in Pod, p = r.from PROVE inbox[p] = Silence /\ ~Posts(r) /\ p \in Client
  BY <1>0, <1>2, FetchType, Clients DEF PodsTyped, PodTyped, Loops
<1>3. CASE Store(r)
  <2>1. /\ source' = [source EXCEPT ![r.place][r.file] = r.content] /\ Posts(r)
        /\ Reply(r, 200, NotPushed)
        /\ moved' = [p \in Pod |-> IF login[p].place = r.place THEN moved[p] \cup {r.file}
                                                              ELSE moved[p]]
        /\ UNCHANGED <<settingsVars, uploads, login, disk, digest, loop>>
    BY <1>3 DEF Store, Post
  <2>2. source' \in [Place -> [Name -> Version \cup {NotPushed}]] /\ moved' \in [Pod -> SUBSET Name]
    BY <1>0, <1>1, <2>1
  <2>3. /\ wire' = wire \ {r} /\ UNCHANGED trouble
        /\ inbox' \in [Client -> Answer \cup {Silence}]
        /\ \A c \in Client \ {r.from} : inbox'[c] = inbox[c]
    <3>1. Reply(r, 200, NotPushed) /\ SourcesTyped
      BY <1>0, <2>1
    <3> QED
      BY <3>1, ReplyEffect
  <2>4. \A p \in Pod : p # r.from
    BY <1>2, <2>1
  <2> QED
    BY <2>1, <2>2, <2>3, <2>4 DEF SourceMoves
<1>4. ASSUME NEW status \in {200, 400, 401, 404, 500}, NEW body \in Version \cup {NotPushed},
             Reply(r, status, body), UNCHANGED <<settingsVars, source, uploads, pods>>,
             status = 200 => body \in Version
      PROVE  SourceMoves(r)
  <2>1. UNCHANGED <<login, disk, digest, loop, moved>>
    BY <1>4 DEF pods
  <2>2. ASSUME NEW p \in Pod, p = r.from, inbox'[p] # Silence
        PROVE  inbox'[p] = [status |-> status, body |-> body]
    BY <1>0, <1>2, <1>4, <2>2, ReplyReaches
  <2> QED
    BY <1>0, <1>4, <2>1, <2>2, ReplyEffect DEF SourceMoves
<1>5. CASE Serve(r) /\ UNCHANGED <<settingsVars, uploads, pods>>
  <2>1. CASE Unauthorized(r)
    BY <1>4, <1>5, <2>1 DEF Unauthorized
  <2>2. CASE Get(r)
    <3>1. CASE source[r.place][r.file] = NotPushed
      BY <1>4, <1>5, <2>2, <3>1 DEF Get
    <3>2. CASE source[r.place][r.file] # NotPushed
      BY <1>1, <1>4, <1>5, <2>2, <3>2 DEF Get
    <3> QED
      BY <3>1, <3>2
  <2>3. CASE GetFails(r)
    BY <1>4, <1>5, <2>3 DEF GetFails
  <2>4. CASE PostFails(r)
    BY <1>4, <1>5, <2>4 DEF PostFails
  <2> QED
    BY <1>5, <2>1, <2>2, <2>3, <2>4 DEF Serve
<1>6. CASE Lose(r) /\ UNCHANGED <<settingsVars, uploads, pods>>
  <2>1. UNCHANGED <<settingsVars, uploads, login, disk, digest, loop, moved>>
    BY <1>6 DEF pods
  <2>2. wire' = wire \ {r} /\ UNCHANGED <<source, inbox, trouble>>
    BY <1>6 DEF Lose
  <2> QED
    BY <1>0, <1>2, <2>1, <2>2 DEF SourceMoves
<1> QED
  BY <1>3, <1>5, <1>6
\* All that a step of operator o may do: to its own place, push and answer, and to
\* what it has sent, which others only lose sight of.
OperatorMoves(o) ==
  /\ UNCHANGED <<source, trouble, pods>>
  /\ inbox' = [inbox EXCEPT ![o] = Silence]
  /\ SettingsTyped' /\ push' \in [Operator -> Job \cup {NoPush}]
  /\ push'[o] # NoPush <=> at'[o] = "push"
  /\ \A q \in Operator \ {o} : at'[q] = at[q] /\ push'[q] = push[q]
  /\ \A r \in wire : r.from # o => r \in wire'
  /\ \A r \in wire' :
       \/ r \in wire /\ r.from # o
       \/ \E w \in wire : w.from = o /\ r = [w EXCEPT !.from = Nobody]
       \/ at'[o] = "push" /\ r = Upload(o, push'[o], push'[o].n)

LEMMA NoPushIsNoJob == NoPush \notin Job
  BY Unmistakable DEF NoPush, Job

\* The commands that set a key, begin or end keep the settings' types.
LEMMA SetStepTyped ==
  ASSUME SettingsTyped, NEW o \in Operator, SetStep(o)
  PROVE  /\ SettingsTyped' /\ at[o] # "push" /\ at'[o] # "push"
         /\ \A q \in Operator \ {o} : at'[q] = at[q]
<1> USE DEF SettingsTyped
<1>1. ASSUME NEW arg \in Argument, StartSet(o, arg[1], arg[2])
      PROVE  SettingsTyped' /\ at[o] # "push" /\ at'[o] # "push"
             /\ \A q \in Operator \ {o} : at'[q] = at[q]
  <2>1. arg[1] \in Key /\ arg[2] \in Value
    BY SettingsAssumption
  <2>2. /\ at[o] = "idle" /\ left[o] > 0 /\ at' = [at EXCEPT ![o] = "changed"]
        /\ left' = [left EXCEPT ![o] = @ - 1] /\ UNCHANGED settings
        /\ app' = [app EXCEPT ![o] = [settings EXCEPT ![arg[1]] = arg[2]]]
    BY <1>1 DEF StartSet, Begin
  <2>3. [settings EXCEPT ![arg[1]] = arg[2]] \in [Key -> Value]
    BY <2>1
  <2>4. left[o] - 1 \in 0..MaxCommands
    BY <2>2, SettingsAssumption
  <2> QED
    BY <2>2, <2>3, <2>4
<1>2. CASE TruncateSettings(o)
  BY <1>2, NoSettingsType DEF TruncateSettings
<1>3. CASE SaveSettings(o)
  BY <1>3, NoSettingsType DEF SaveSettings
<1> QED
  BY <1>1, <1>2, <1>3 DEF SetStep

LEMMA OperatorStepMoves ==
  ASSUME Typed, NEW o \in Operator, OperatorStep(o)
  PROVE  OperatorMoves(o)
<1>0. /\ SettingsTyped /\ SourcesTyped /\ PushTyped(o) /\ o \in Client
      /\ push \in [Operator -> Job \cup {NoPush}]
      /\ inbox \in [Client -> Answer \cup {Silence}]
      /\ \A r \in wire : r \in Call
  BY Clients DEF Typed, SourcesTyped, PushesTyped
<1>1. ASSUME at[o] # "push"
      PROVE  /\ inbox = [inbox EXCEPT ![o] = Silence] /\ push[o] = NoPush
             /\ \A r \in wire : r.from # o
  BY <1>0, <1>1 DEF PushTyped, Pushing
<1>2. CASE SetStep(o) /\ UNCHANGED <<sourceVars, uploads, pods>>
  <2>1. UNCHANGED <<source, trouble, pods, inbox, push, wire>>
    BY <1>2 DEF sourceVars, uploads
  <2>2. /\ SettingsTyped' /\ at[o] # "push" /\ at'[o] # "push"
        /\ \A q \in Operator \ {o} : at'[q] = at[q]
    BY <1>0, <1>2, SetStepTyped
  <2> QED
    BY <1>0, <1>1, <2>1, <2>2 DEF OperatorMoves
<1>3. ASSUME NEW mode \in {Resolve(o, "mode"), "http", "s3"}, StartPush(o, mode)
      PROVE  OperatorMoves(o)
  <2> DEFINE job == Destination(o, mode)
  <2>1. /\ at[o] = "idle" /\ left[o] > 0 /\ job.place \in Place
        /\ at' = [at EXCEPT ![o] = "push"] /\ left' = [left EXCEPT ![o] = @ - 1]
        /\ push' = [push EXCEPT ![o] = job] /\ wire' = wire \cup {Upload(o, job, 1)}
        /\ UNCHANGED <<settings, app, source, inbox, trouble, pods>>
    BY <1>3 DEF StartPush, Begin
  <2>2. job \in Job /\ job.n = 1
    BY <1>0, <2>1, DestinationType
  <2> HIDE DEF job
  <2>3. left[o] - 1 \in 0..MaxCommands
    BY <1>0, <2>1, SettingsAssumption DEF SettingsTyped
  <2>4. SettingsTyped'
    BY <1>0, <2>1, <2>3 DEF SettingsTyped
  <2>5. push'[o] = job /\ at'[o] = "push"
    BY <1>0, <2>1 DEF SettingsTyped
  <2>6. /\ \A q \in Operator \ {o} : at'[q] = at[q] /\ push'[q] = push[q]
        /\ push' \in [Operator -> Job \cup {NoPush}]
    BY <1>0, <2>1, <2>2 DEF SettingsTyped
  <2> QED
    BY <1>0, <1>1, <2>1, <2>2, <2>4, <2>5, <2>6, NoPushIsNoJob DEF OperatorMoves
<1>4. CASE Receive(o)
  <2>1. /\ at[o] = "push" /\ inbox[o] # Silence
        /\ inbox' = [inbox EXCEPT ![o] = Silence]
        /\ UNCHANGED <<settings, app, left, source, trouble, pods>>
    BY <1>4 DEF Receive
  <2>2. push[o] # NoPush /\ push[o] \in Job /\ \A r \in wire : r.from # o
    BY <1>0, <2>1 DEF PushTyped, Pushing
  <2>3. CASE Successful(inbox[o]) /\ push[o].n < Len(Files)
    <3>1. /\ push' = [push EXCEPT ![o].n = @ + 1]
          /\ wire' = wire \cup {Upload(o, push[o], push[o].n + 1)} /\ UNCHANGED at
      BY <1>4, <2>3 DEF Receive
    <3>2. push[o].n + 1 \in 1..Len(Files)
      BY <2>2, <2>3, FirstFile DEF Job
    <3>3. push'[o] = [push[o] EXCEPT !.n = push[o].n + 1]
          /\ \A q \in Operator \ {o} : push'[q] = push[q]
      BY <1>0, <3>1
    <3>4. /\ push'[o] \in Job /\ push'[o].n = push[o].n + 1 /\ push'[o].place = push[o].place
          /\ push'[o].token = push[o].token /\ push'[o].version = push[o].version
      BY <2>2, <3>2, <3>3 DEF Job
    <3>5. push' \in [Operator -> Job \cup {NoPush}]
      BY <1>0, <3>1, <3>3, <3>4
    <3>6. Upload(o, push'[o], push'[o].n) = Upload(o, push[o], push[o].n + 1)
      BY <3>4 DEF Upload
    <3>7. SettingsTyped'
      BY <1>0, <2>1, <3>1 DEF SettingsTyped
    <3> QED
      BY <2>1, <2>2, <3>1, <3>3, <3>4, <3>5, <3>6, <3>7, NoPushIsNoJob DEF OperatorMoves
  <2>4. CASE ~(Successful(inbox[o]) /\ push[o].n < Len(Files))
    <3>1. at' = [at EXCEPT ![o] = "idle"] /\ push' = [push EXCEPT ![o] = NoPush] /\ UNCHANGED wire
      BY <1>4, <2>4 DEF Receive, EndPush
    <3>2. SettingsTyped' /\ at'[o] = "idle" /\ \A q \in Operator \ {o} : at'[q] = at[q]
      BY <1>0, <2>1, <3>1 DEF SettingsTyped
    <3>3. /\ push' \in [Operator -> Job \cup {NoPush}] /\ push'[o] = NoPush
          /\ \A q \in Operator \ {o} : push'[q] = push[q]
      BY <1>0, <3>1
    <3> QED
      BY <2>1, <2>2, <3>1, <3>2, <3>3 DEF OperatorMoves
  <2> QED
    BY <2>3, <2>4
<1>5. CASE Stops(o)
  <2>1. /\ at' = [at EXCEPT ![o] = "idle"] /\ app' = [app EXCEPT ![o] = NoSettings]
        /\ UNCHANGED <<settings, left, source, trouble, pods>>
        /\ push' = [push EXCEPT ![o] = NoPush]
        /\ inbox' = [inbox EXCEPT ![o] = Silence]
        /\ wire' = {[r EXCEPT !.from = IF @ = o THEN Nobody ELSE @] : r \in wire}
    BY <1>5 DEF Stops, Quits, EndPush
  <2>2. SettingsTyped' /\ at'[o] = "idle" /\ \A q \in Operator \ {o} : at'[q] = at[q]
    BY <1>0, <2>1, NoSettingsType DEF SettingsTyped
  <2>3. /\ push' \in [Operator -> Job \cup {NoPush}] /\ push'[o] = NoPush
        /\ \A q \in Operator \ {o} : push'[q] = push[q]
    BY <1>0, <2>1
  <2>4. \A r \in wire : r.from # o => r = [r EXCEPT !.from = r.from]
    BY <1>0 DEF Call
  <2>5. \A r \in wire : r.from # o => r \in wire'
    BY <2>1, <2>4
  <2>6. \A r \in wire' :
          \/ r \in wire /\ r.from # o
          \/ \E w \in wire : w.from = o /\ r = [w EXCEPT !.from = Nobody]
    BY <2>1, <2>4
  <2> QED
    BY <2>1, <2>2, <2>3, <2>5, <2>6 DEF OperatorMoves
<1> QED
  BY <1>2, <1>3, <1>4, <1>5 DEF OperatorStep
\* Every step is one of an operator, a pod, a source or the network.
Movement ==
  \/ \E o \in Operator : OperatorMoves(o)
  \/ \E p \in Pod : PodMoves(p)
  \/ \E r \in wire : SourceMoves(r)
  \/ Trouble /\ UNCHANGED <<settingsVars, uploads, pods>>

LEMMA NextMoves ==
  ASSUME Typed, Next
  PROVE  Movement
<1>1. CASE \E o \in Operator : OperatorStep(o)
  BY <1>1, OperatorStepMoves DEF Movement
<1>2. CASE \E p \in Pod : PodStep(p) \/ Restart(p)
  BY <1>2, PodStepMoves DEF Movement
<1>3. CASE SourceStep
  BY <1>3, SourceStepMoves DEF SourceStep, Movement
<1>4. CASE Network
  BY <1>4, SourceStepMoves DEF Network, Movement
<1> QED
  BY <1>1, <1>2, <1>3, <1>4 DEF Next

\* What a dead command has sent is an upload all the same.
LEMMA OrphanType ==
  ASSUME SourcesTyped, NEW o \in Operator, NEW w \in wire, w.from = o,
         NEW r, r = [w EXCEPT !.from = Nobody]
  PROVE  /\ r \in Call /\ Posts(r) /\ r.from = Nobody
         /\ r.content = w.content /\ Posts(w)
<1>1. w \in Call /\ Posts(w)
  BY CallTypes, Clients DEF SourcesTyped
<1> QED
  BY <1>1 DEF Call, Posts

LEMMA OperatorMovesTyped ==
  ASSUME Typed, NEW o \in Operator, OperatorMoves(o)
  PROVE  Typed'
<1>0. /\ SettingsTyped /\ SourcesTyped /\ PushesTyped /\ PodsTyped
      /\ UNCHANGED <<source, trouble, login, disk, digest, loop, moved>> /\ SettingsTyped'
      /\ inbox \in [Client -> Answer \cup {Silence}] /\ o \in Client
      /\ inbox' = [inbox EXCEPT ![o] = Silence]
      /\ push' \in [Operator -> Job \cup {NoPush}]
  BY Clients DEF Typed, OperatorMoves, pods, SourcesTyped
<1>1. /\ inbox' \in [Client -> Answer \cup {Silence}] /\ inbox'[o] = Silence
      /\ \A c \in Client \ {o} : inbox'[c] = inbox[c]
  BY <1>0
<1>2. at'[o] = "push" => push'[o] \in Job /\ push'[o].n \in 1..Len(Files)
  BY <1>0 DEF OperatorMoves, Job
<1>3. \A r \in wire' :
        /\ r \in Call /\ (Posts(r) \/ r.from \in Pod)
        /\ \/ r \in wire /\ r.from # o
           \/ r.from = Nobody
           \/ at'[o] = "push" /\ r.from = o /\ r = Upload(o, push'[o], push'[o].n)
  <2> TAKE r \in wire'
  <2>1. CASE r \in wire /\ r.from # o
    BY <1>0, <2>1, CallTypes
  <2>2. ASSUME NEW w \in wire, w.from = o, r = [w EXCEPT !.from = Nobody]
        PROVE  r \in Call /\ Posts(r) /\ r.from = Nobody
    BY <1>0, <2>2, OrphanType
  <2>3. CASE at'[o] = "push" /\ r = Upload(o, push'[o], push'[o].n)
    BY <1>2, <2>3, UploadType
  <2> QED
    BY <2>1, <2>2, <2>3 DEF OperatorMoves
<1>4. SourcesTyped'
  <2>1. source' \in [Place -> [Name -> Version \cup {NotPushed}]]
    BY <1>0 DEF SourcesTyped
  <2>2. \A r \in wire' : Posts(r) \/ r.from \in Pod
    BY <1>3
  <2> QED
    BY <1>1, <1>3, <2>1, <2>2 DEF SourcesTyped, Posts
<1>5. PushesTyped'
  <2>1. ASSUME NEW q \in Operator, q # o PROVE PushTyped(q)'
    <3>1. /\ PushTyped(q) /\ at'[q] = at[q] /\ push'[q] = push[q] /\ inbox'[q] = inbox[q]
      BY <1>0, <1>1, <2>1, Clients DEF PushesTyped, OperatorMoves
    <3>2. \A r \in wire' : r.from = q => r \in wire
      BY <1>3, <2>1, Clients
    <3>3. UNCHANGED Upload(q, push[q], push[q].n)
      BY <3>1 DEF Upload
    <3> QED
      BY <3>1, <3>2, <3>3 DEF PushTyped, Pushing
  <2>2. PushTyped(o)'
    <3>1. (push[o] # NoPush <=> o \in Pushing)' /\ (push'[o] \in Job \cup {NoPush})
      BY <1>0 DEF OperatorMoves, Pushing
    <3>2. \A r \in wire' : r.from = o => at'[o] = "push" /\ r = Upload(o, push'[o], push'[o].n)
      BY <1>3, Clients
    <3> QED
      BY <1>1, <3>1, <3>2 DEF PushTyped, Pushing
  <2> QED
    BY <1>0, <2>1, <2>2 DEF PushesTyped
<1>6. PodsTyped'
  <2>1. ASSUME NEW p \in Pod PROVE PodTyped(p)'
    <3>1. PodTyped(p) /\ inbox'[p] = inbox[p] /\ p # o
      BY <1>0, <1>1, Clients DEF PodsTyped
    <3>2. \A r \in wire' : r.from = p => r \in wire
      BY <1>3, Clients
    <3>3. UNCHANGED Fetch(p, loop[p].i)
      BY <1>0 DEF Fetch
    <3> QED
      BY <1>0, <3>1, <3>2, <3>3 DEF PodTyped
  <2> QED
    BY <1>0, <2>1 DEF PodsTyped
<1> QED
  BY <1>0, <1>4, <1>5, <1>6 DEF Typed

LEMMA PodMovesTyped ==
  ASSUME Typed, NEW p \in Pod, PodMoves(p)
  PROVE  Typed'
<1>0. /\ SettingsTyped /\ SourcesTyped /\ PushesTyped /\ PodsTyped
      /\ UNCHANGED <<settings, at, app, left, source, trouble, push, login>>
      /\ inbox \in [Client -> Answer \cup {Silence}] /\ p \in Client
      /\ inbox' = [inbox EXCEPT ![p] = Silence] /\ loop' \in Loops
  BY Clients DEF Typed, PodMoves, SourcesTyped, settingsVars, uploads
<1>1. /\ inbox' \in [Client -> Answer \cup {Silence}] /\ inbox'[p] = Silence
      /\ \A c \in Client \ {p} : inbox'[c] = inbox[c]
  BY <1>0
<1>2. loop'[p].i \in 1..Len(Files) /\ login \in [Pod -> Login]
  BY <1>0 DEF Loops, PodsTyped
<1>3. \A r \in wire' :
        /\ r \in Call /\ (Posts(r) \/ r.from \in Pod)
        /\ \/ r \in wire /\ r.from # p
           \/ loop'[p].pc = "asked" /\ r.from = p /\ r = Fetch(p, loop'[p].i)
  <2> TAKE r \in wire'
  <2>1. CASE r \in wire /\ r.from # p
    BY <1>0, <2>1, CallTypes
  <2>2. CASE loop'[p].pc = "asked" /\ r = Fetch(p, loop'[p].i)
    BY <1>2, <2>2, FetchType
  <2> QED
    BY <2>1, <2>2 DEF PodMoves, Sends
<1>4. SourcesTyped'
  <2>1. source' \in [Place -> [Name -> Version \cup {NotPushed}]]
    BY <1>0 DEF SourcesTyped
  <2> QED
    BY <1>1, <1>3, <2>1 DEF SourcesTyped, Posts
<1>5. PushesTyped'
  <2>1. ASSUME NEW q \in Operator PROVE PushTyped(q)'
    <3>1. PushTyped(q) /\ inbox'[q] = inbox[q] /\ q # p
      BY <1>0, <1>1, Clients DEF PushesTyped
    <3>2. \A r \in wire' : r.from = q => r \in wire
      BY <1>3, <3>1
    <3>3. UNCHANGED Upload(q, push[q], push[q].n)
      BY <1>0 DEF Upload
    <3> QED
      BY <1>0, <3>1, <3>2, <3>3 DEF PushTyped, Pushing
  <2> QED
    BY <1>0, <2>1 DEF PushesTyped
<1>6. PodsTyped'
  <2>1. ASSUME NEW q \in Pod, q # p PROVE PodTyped(q)'
    <3>1. PodTyped(q) /\ inbox'[q] = inbox[q] /\ loop'[q] = loop[q]
      BY <1>0, <1>1, <2>1, Clients DEF PodsTyped, PodMoves
    <3>2. \A r \in wire' : r.from = q => r \in wire
      BY <1>3, <2>1
    <3>3. UNCHANGED Fetch(q, loop[q].i)
      BY <1>0, <3>1 DEF Fetch
    <3> QED
      BY <3>1, <3>2, <3>3 DEF PodTyped
  <2>2. PodTyped(p)'
    <3>1. Fetch(p, loop[p].i)' = Fetch(p, loop'[p].i)
      BY <1>0 DEF Fetch
    <3> QED
      BY <1>1, <1>3, <3>1 DEF PodTyped
  <2> QED
    BY <1>0, <2>1, <2>2 DEF PodsTyped, PodMoves
<1>7. SettingsTyped'
  BY <1>0 DEF SettingsTyped
<1> QED
  BY <1>4, <1>5, <1>6, <1>7 DEF Typed

LEMMA SourceMovesTyped ==
  ASSUME Typed, NEW r \in wire, SourceMoves(r)
  PROVE  Typed'
<1>0. /\ SettingsTyped /\ SourcesTyped /\ PushesTyped /\ PodsTyped
      /\ UNCHANGED <<settings, at, app, left, push, login, disk, digest, loop>>
      /\ wire' = wire \ {r}
      /\ \A c \in Client \ {r.from} : inbox'[c] = inbox[c]
  BY DEF Typed, SourceMoves, settingsVars, uploads
<1>1. SettingsTyped'
  BY <1>0 DEF SettingsTyped
<1>2. SourcesTyped'
  BY <1>0 DEF SourcesTyped, SourceMoves, Posts
<1>3. PushesTyped'
  <2>1. ASSUME NEW q \in Operator PROVE PushTyped(q)'
    <3>1. PushTyped(q) /\ q \in Client
      BY <1>0, Clients DEF PushesTyped
    <3>2. UNCHANGED Upload(q, push[q], push[q].n)
      BY <1>0 DEF Upload
    <3>3. CASE r.from = q
      BY <1>0, <3>1, <3>3 DEF PushTyped, Pushing
    <3>4. CASE r.from # q
      BY <1>0, <3>1, <3>2, <3>4 DEF PushTyped, Pushing
    <3> QED
      BY <3>3, <3>4
  <2> QED
    BY <1>0, <2>1 DEF PushesTyped
<1>4. PodsTyped'
  <2>1. ASSUME NEW p \in Pod PROVE PodTyped(p)'
    <3>1. PodTyped(p) /\ p \in Client
      BY <1>0, Clients DEF PodsTyped
    <3>2. UNCHANGED Fetch(p, loop[p].i)
      BY <1>0 DEF Fetch
    <3>3. CASE r.from = p
      BY <1>0, <3>1, <3>3 DEF PodTyped, SourceMoves
    <3>4. CASE r.from # p
      BY <1>0, <3>1, <3>2, <3>4 DEF PodTyped
    <3> QED
      BY <3>3, <3>4
  <2> QED
    BY <1>0, <2>1 DEF PodsTyped, SourceMoves
<1> QED
  BY <1>1, <1>2, <1>3, <1>4 DEF Typed

\* What does not read trouble keeps its type when it comes or goes.
LEMMA UnchangedTyped ==
  ASSUME Typed, UNCHANGED <<settingsVars, source, wire, inbox, uploads, pods>>
  PROVE  Typed'
<1>0. UNCHANGED <<settings, at, app, left, source, wire, inbox, push,
                  login, disk, digest, loop, moved>>
  BY DEF settingsVars, uploads, pods
<1>1. \A o \in Operator : UNCHANGED Upload(o, push[o], push[o].n)
  BY <1>0 DEF Upload
<1>2. \A p \in Pod : UNCHANGED Fetch(p, loop[p].i)
  BY <1>0 DEF Fetch
<1>3. PushesTyped'
  BY <1>0, <1>1 DEF Typed, PushesTyped, PushTyped, Pushing
<1>4. PodsTyped'
  BY <1>0, <1>2 DEF Typed, PodsTyped, PodTyped
<1> QED
  BY <1>0, <1>3, <1>4 DEF Typed, SettingsTyped, SourcesTyped, Posts

LEMMA TypedInductive == Typed /\ [Next]_vars => Typed'
<1> SUFFICES ASSUME Typed, [Next]_vars PROVE Typed'
  OBVIOUS
<1>1. CASE Next
  <2>1. Movement
    BY <1>1, NextMoves
  <2> QED
    BY <2>1, OperatorMovesTyped, PodMovesTyped, SourceMovesTyped, UnchangedTyped
       DEF Movement, Trouble
<1>2. CASE UNCHANGED vars
  BY <1>2, UnchangedTyped DEF vars, sourceVars
<1> QED
  BY <1>1, <1>2

LEMMA AlwaysTyped == Spec => []Typed
  BY TypedInit, TypedInductive, PTL DEF Spec

\* No client has two requests under way, or one beside its answer; what is under
\* way is an upload or a pod's fetch; and every part keeps its type.
THEOREM TypeCorrect == Spec => []TypeOK
<1>1. Typed => TypeOK
  <2> SUFFICES ASSUME Typed PROVE TypeOK
    OBVIOUS
  <2>1. ASSUME NEW c \in Client, NEW r \in wire, NEW s \in wire, r.from = c, s.from = c
        PROVE  r = s /\ inbox[c] = Silence
    <3>1. c \in Operator \/ c \in Pod
      BY DistributionAssumption
    <3> QED
      BY <2>1, <3>1 DEF Typed, PushesTyped, PushTyped, PodsTyped, PodTyped
  <2>2. ASSUME NEW c \in Client PROVE Cardinality({r \in wire : r.from = c}) <= 1
    <3>1. CASE {r \in wire : r.from = c} = {}
      BY <3>1, FS_EmptySet
    <3>2. ASSUME NEW r \in wire, r.from = c PROVE Cardinality({s \in wire : s.from = c}) <= 1
      <4>1. {s \in wire : s.from = c} = {r}
        BY <2>1, <3>2
      <4>2. Cardinality({r}) = 1
        BY FS_Singleton
      <4> QED
        BY <4>1, <4>2
    <3> QED
      BY <3>1, <3>2
  <2>3. \A s \in Place, f \in Name : source[s][f] \in Version \cup {NotPushed}
    BY DEF Typed, SourcesTyped
  <2>4. \A p \in Pod : loop[p] \in
          [pc : {"asked", "settle", "end", "sleep"}, i : 1..Len(Files),
           clean : BOOLEAN, ready : BOOLEAN]
    BY PodTypes DEF Typed
  <2> QED
    BY <2>1, <2>2, <2>3, <2>4
       DEF TypeOK, Typed, SettingsTyped, SourcesTyped, PushesTyped, PushTyped
<1> QED
  BY <1>1, AlwaysTyped, PTL
-----------------------------------------------------------------------------
(* The settings file                                                       *)

\* The strengthening of SettingsAsSet: while the history counts, at most one config
\* set is under way, and it is about to save what the file is expected to hold.
SettingsInOrder ==
  /\ expected \in [Key -> Value] \cup {Unknown}
  /\ expected # Unknown =>
       /\ \A o, q \in Operator : Setting(o) /\ Setting(q) => o = q
       /\ \A o \in Operator : Setting(o) => app[o] = expected
       /\ (\A o \in Operator : ~Setting(o)) => settings = expected

LEMMA SettingsInOrderInit == Init => SettingsInOrder
<1> SUFFICES ASSUME Init PROVE SettingsInOrder
  OBVIOUS
<1>1. /\ settings \in [Key -> Value] /\ expected = settings
      /\ \A o \in Operator : at[o] = "idle"
  BY SettingsAssumption DEF Init, SettingsInit
<1> QED
  BY <1>1 DEF SettingsInOrder, Setting

\* A config set that begins beside another one, or after the history was given up,
\* is out of order; a first one is about to save what is expected of it.
LEMMA SetStepInOrder ==
  ASSUME SettingsTyped, SettingsInOrder, NEW o \in Operator, SetStep(o)
  PROVE  SettingsInOrder'
<1>0. /\ at \in [Operator -> {"idle", "changed", "truncated", "push"}]
      /\ app \in [Operator -> [Key -> Value]] /\ settings \in [Key -> Value]
      /\ expected \in [Key -> Value] \cup {Unknown}
  BY DEF SettingsTyped, SettingsInOrder
<1>1. ASSUME NEW arg \in Argument, StartSet(o, arg[1], arg[2])
      PROVE  SettingsInOrder'
  <2>1. arg[1] \in Key /\ arg[2] \in Value
    BY SettingsAssumption
  <2>2. /\ at[o] = "idle" /\ at' = [at EXCEPT ![o] = "changed"] /\ UNCHANGED settings
        /\ app' = [app EXCEPT ![o] = [settings EXCEPT ![arg[1]] = arg[2]]]
        /\ expected' = IF expected = Unknown \/ \E q \in Operator : Setting(q) THEN Unknown
                         ELSE [expected EXCEPT ![arg[1]] = arg[2]]
    BY <1>1 DEF StartSet, Begin
  <2>3. CASE expected = Unknown \/ \E q \in Operator : Setting(q)
    BY <2>2, <2>3 DEF SettingsInOrder
  <2>4. CASE expected # Unknown /\ \A q \in Operator : ~Setting(q)
    <3>1. settings = expected /\ expected' = [settings EXCEPT ![arg[1]] = arg[2]]
      BY <2>2, <2>4 DEF SettingsInOrder
    <3>2. expected' \in [Key -> Value] /\ app'[o] = expected'
      BY <1>0, <2>1, <2>2, <3>1
    <3>3. \A q \in Operator : q # o => at'[q] = at[q]
      BY <1>0, <2>2
    <3>4. \A q \in Operator : Setting(q)' => q = o
      BY <2>4, <3>3 DEF Setting
    <3>5. Setting(o)'
      BY <1>0, <2>2 DEF Setting
    <3> QED
      BY <3>2, <3>4, <3>5 DEF SettingsInOrder
  <2> QED
    BY <2>3, <2>4
<1>2. CASE TruncateSettings(o)
  <2>1. /\ at[o] = "changed" /\ at' = [at EXCEPT ![o] = "truncated"]
        /\ UNCHANGED <<app, expected>>
    BY <1>2 DEF TruncateSettings
  <2>2. \A q \in Operator : Setting(q)' = Setting(q)
    BY <1>0, <2>1 DEF Setting
  <2>3. Setting(o)
    BY <2>1 DEF Setting
  <2> QED
    BY <2>1, <2>2, <2>3 DEF SettingsInOrder
<1>3. CASE SaveSettings(o)
  <2>1. /\ at[o] = "truncated" /\ at' = [at EXCEPT ![o] = "idle"]
        /\ settings' = app[o] /\ app' = [app EXCEPT ![o] = NoSettings]
        /\ UNCHANGED expected
    BY <1>3 DEF SaveSettings
  <2>2. \A q \in Operator : q # o => (Setting(q)' <=> Setting(q)) /\ app'[q] = app[q]
    BY <1>0, <2>1 DEF Setting
  <2>3. Setting(o) /\ ~Setting(o)'
    BY <1>0, <2>1 DEF Setting
  <2>4. expected # Unknown => app[o] = expected
    BY <2>3 DEF SettingsInOrder
  <2> QED
    BY <2>1, <2>2, <2>3, <2>4 DEF SettingsInOrder
<1> QED
  BY <1>1, <1>2, <1>3 DEF SetStep

LEMMA SettingsInOrderInductive ==
  ASSUME Typed, SettingsInOrder, [Next]_vars
  PROVE  SettingsInOrder'
<1>0. /\ SettingsTyped /\ at \in [Operator -> {"idle", "changed", "truncated", "push"}]
      /\ app \in [Operator -> [Key -> Value]]
  BY DEF Typed, SettingsTyped
<1>1. ASSUME UNCHANGED settingsVars PROVE SettingsInOrder'
  BY <1>1 DEF settingsVars, SettingsInOrder, Setting
<1>2. ASSUME NEW o \in Operator, ~Setting(o), UNCHANGED <<settings, app, expected>>,
             at' = [at EXCEPT ![o] = "push"] \/ at' = [at EXCEPT ![o] = "idle"]
      PROVE  SettingsInOrder'
  <2>1. \A q \in Operator : Setting(q)' <=> Setting(q)
    BY <1>0, <1>2 DEF Setting
  <2> QED
    BY <1>2, <2>1 DEF SettingsInOrder
<1>3. ASSUME NEW o \in Operator, OperatorStep(o) PROVE SettingsInOrder'
  <2>1. CASE SetStep(o)
    BY <1>0, <2>1, SetStepInOrder
  <2>2. ASSUME NEW mode \in {Resolve(o, "mode"), "http", "s3"}, StartPush(o, mode)
        PROVE  SettingsInOrder'
    <3>1. /\ at[o] = "idle" /\ at' = [at EXCEPT ![o] = "push"]
          /\ UNCHANGED <<settings, app, expected>>
      BY <2>2 DEF StartPush, Begin
    <3> QED
      BY <1>2, <3>1 DEF Setting
  <2>3. CASE Receive(o)
    <3>1. at[o] = "push" /\ UNCHANGED <<settings, app, expected, left>>
      BY <2>3 DEF Receive
    <3>2. at' = [at EXCEPT ![o] = "idle"] \/ UNCHANGED at
      BY <2>3 DEF Receive
    <3> QED
      BY <1>1, <1>2, <3>1, <3>2 DEF Setting, settingsVars
  <2>4. CASE Stops(o)
    <3>1. /\ at' = [at EXCEPT ![o] = "idle"] /\ app' = [app EXCEPT ![o] = NoSettings]
          /\ expected' = (IF Setting(o) THEN Unknown ELSE expected) /\ UNCHANGED settings
      BY <2>4 DEF Stops, Quits
    <3>2. CASE Setting(o)
      BY <3>1, <3>2 DEF SettingsInOrder
    <3>3. CASE ~Setting(o)
      <4>1. \A q \in Operator : (Setting(q)' <=> Setting(q)) /\ (Setting(q) => app'[q] = app[q])
        BY <1>0, <3>1, <3>3 DEF Setting
      <4> QED
        BY <3>1, <3>3, <4>1 DEF SettingsInOrder
    <3> QED
      BY <3>2, <3>3
  <2> QED
    BY <1>3, <2>1, <2>2, <2>3, <2>4 DEF OperatorStep
<1>4. ASSUME ~\E o \in Operator : OperatorStep(o) PROVE UNCHANGED settingsVars
  <2>1. CASE \E p \in Pod : PodStep(p) \/ Restart(p)
    BY <2>1, PodStepMoves DEF PodMoves
  <2>2. CASE SourceStep
    BY <2>2, SourceStepMoves DEF SourceStep, SourceMoves
  <2>3. CASE Network
    BY <2>3 DEF Network
  <2>4. CASE UNCHANGED vars
    BY <2>4 DEF vars
  <2> QED
    BY <1>4, <2>1, <2>2, <2>3, <2>4 DEF Next
<1> QED
  BY <1>1, <1>3, <1>4

\* When no config set is under way the settings file holds, for every key, what was
\* last set for it, unless two of them overlapped or one died.
THEOREM SettingsAlwaysAsSet == Spec => []SettingsAsSet
<1>1. Typed /\ SettingsInOrder /\ [Next]_vars => SettingsInOrder'
  BY SettingsInOrderInductive
<1>2. SettingsInOrder => SettingsAsSet
  BY DEF SettingsInOrder, SettingsAsSet
<1> QED
  BY <1>1, <1>2, SettingsInOrderInit, AlwaysTyped, PTL DEF Spec
-----------------------------------------------------------------------------
(* Tokens                                                                  *)

Mismatched(p) == login[p].place \in Server /\ login[p].token # ApiToken

\* The strengthening of MismatchedNeverReady: a pod with the wrong token has only
\* ever been refused, and a pass that has come past a file is not clean.
OnlyRefused(p) ==
  /\ ~loop[p].ready /\ loop[p].pc # "settle"
  /\ disk[p] = [f \in Name |-> Image] /\ digest[p] = [f \in Name |-> NotPushed]
  /\ inbox[p] # Silence => inbox[p].status = 401
  /\ loop[p].pc = "end" => ~loop[p].clean
  /\ loop[p].pc = "asked" /\ loop[p].i > 1 => ~loop[p].clean

MismatchedOnlyRefused == \A p \in Pod : Mismatched(p) => OnlyRefused(p)

LEMMA MismatchedInit == Init => MismatchedOnlyRefused
<1> SUFFICES ASSUME Init, NEW p \in Pod PROVE OnlyRefused(p)
  BY DEF MismatchedOnlyRefused
<1>1. inbox[p] = Silence
  BY Clients DEF Init, SourceInit
<1>2. loop[p] = [pc |-> "asked", i |-> 1, clean |-> TRUE, ready |-> FALSE]
  BY DEF Init
<1> QED
  BY <1>1, <1>2 DEF Init, OnlyRefused

\* A pod with the wrong token that goes on to the next file does so after an error.
LEMMA MismatchedPodStep ==
  ASSUME Typed, NEW p \in Pod, OnlyRefused(p), PodStep(p) \/ Restart(p)
  PROVE  OnlyRefused(p)'
<1>0. /\ PodsTyped /\ loop \in Loops /\ login' = login /\ inbox'[p] = Silence
      /\ loop[p].i \in 1..Len(Files) /\ loop[p].clean \in BOOLEAN /\ loop[p].ready \in BOOLEAN
  BY PodStepMoves, PodTypes, Clients DEF Typed, PodsTyped, SourcesTyped, PodMoves
<1>1. ASSUME NextFile(p, FALSE), UNCHANGED <<disk, digest>> PROVE OnlyRefused(p)'
  <2>1. /\ loop'[p].ready = loop[p].ready /\ loop'[p].clean = FALSE
        /\ loop'[p].pc \in {"asked", "end"}
    BY <1>0, <1>1, NextFileEffect
  <2> QED
    BY <1>0, <1>1, <2>1 DEF OnlyRefused
<1>2. ASSUME NEW ready \in BOOLEAN, Ask(p, 1, TRUE, ready), ~ready,
             disk'[p] = [f \in Name |-> Image], digest'[p] = [f \in Name |-> NotPushed]
      PROVE  OnlyRefused(p)'
  <2>1. loop'[p] = [pc |-> "asked", i |-> 1, clean |-> TRUE, ready |-> ready]
    BY <1>0, <1>2, FirstFile, AskEffect
  <2> QED
    BY <1>0, <1>2, <2>1 DEF OnlyRefused
<1>3. ~Answered(p, 200) /\ ~Answered(p, 404) /\ loop[p].pc # "settle"
  BY DEF OnlyRefused, Answered
<1>4. CASE FetchFails(p)
  BY <1>1, <1>4 DEF FetchFails
<1>5. CASE FetchRefused(p)
  BY <1>1, <1>5 DEF FetchRefused
<1>6. CASE EndPass(p)
  <2>1. /\ loop[p].pc = "end" /\ ~loop[p].clean /\ ~loop[p].ready
        /\ loop' = [loop EXCEPT ![p].ready = @ \/ loop[p].clean, ![p].pc = "sleep"]
        /\ UNCHANGED <<disk, digest>>
    BY <1>6 DEF EndPass, OnlyRefused
  <2>2. loop'[p].pc = "sleep" /\ ~loop'[p].ready
    BY <1>0, <2>1 DEF Loops
  <2> QED
    BY <1>0, <2>1, <2>2 DEF OnlyRefused
<1>7. CASE BeginPass(p)
  BY <1>0, <1>2, <1>7 DEF BeginPass, OnlyRefused
<1>8. CASE Restart(p)
  <2>1. /\ disk' \in {disk, [disk EXCEPT ![p] = [f \in Name |-> Image]]}
        /\ digest' = [digest EXCEPT ![p] = [f \in Name |-> NotPushed]]
        /\ Ask(p, 1, TRUE, FALSE)
    BY <1>8 DEF Restart
  <2>2. disk'[p] = [f \in Name |-> Image]
    <3>1. disk \in [Pod -> [Name -> Version \cup {Image}]] /\ disk[p] = [f \in Name |-> Image]
      BY <1>0 DEF PodsTyped, OnlyRefused
    <3> QED
      BY <2>1, <3>1
  <2>3. digest'[p] = [f \in Name |-> NotPushed]
    BY <1>0, <2>1 DEF PodsTyped
  <2> QED
    BY <1>2, <2>1, <2>2, <2>3
<1> QED
  BY <1>3, <1>4, <1>5, <1>6, <1>7, <1>8
     DEF PodStep, FetchFindsNothing, FetchUnchanged, Apply, ApplyFails, Settle

\* Nothing but a 401 answers a fetch that shows the wrong token.
LEMMA MismatchedServed ==
  ASSUME Typed, NEW p \in Pod, Mismatched(p), NEW r \in wire, r.from = p,
         Serve(r) \/ Store(r) \/ Lose(r)
  PROVE  inbox'[p] = inbox[p] \/ inbox'[p].status = 401
<1>1. r = Fetch(p, loop[p].i) /\ loop[p].i \in 1..Len(Files) /\ login \in [Pod -> Login]
  BY PodTypes DEF Typed, PodsTyped, PodTyped
<1>2. ~CheckAuth(r)
  BY <1>1, FetchType DEF Mismatched, CheckAuth
<1>3. CASE Lose(r)
  BY <1>3 DEF Lose
<1>4. CASE Unauthorized(r)
  <2>1. Reply(r, 401, NotPushed) /\ SourcesTyped /\ r.from \in Client
    BY <1>4, Clients DEF Unauthorized, Typed
  <2>2. \/ inbox'[p] = [status |-> 401, body |-> NotPushed]
        \/ inbox'[p] = inbox[p]
    BY <2>1, ReplyReaches
  <2> QED
    BY <2>2
<1> QED
  BY <1>2, <1>3, <1>4 DEF Serve, Store, Get, GetFails, Post, PostFails

LEMMA MismatchedInductive ==
  ASSUME Typed, MismatchedOnlyRefused, [Next]_vars
  PROVE  MismatchedOnlyRefused'
<1> SUFFICES ASSUME NEW p \in Pod, Mismatched(p)' PROVE OnlyRefused(p)'
  BY DEF MismatchedOnlyRefused
<1>0. p \in Client /\ inbox \in [Client -> Answer \cup {Silence}]
  BY Clients DEF Typed, SourcesTyped
<1>1. ASSUME UNCHANGED <<login, disk, digest, loop>>, inbox'[p] = inbox[p] \/ inbox'[p].status = 401
      PROVE  OnlyRefused(p)'
  BY <1>1 DEF MismatchedOnlyRefused, Mismatched, OnlyRefused
<1>2. CASE \E o \in Operator : OperatorStep(o)
  <2>1. PICK o \in Operator : OperatorMoves(o)
    BY <1>2, OperatorStepMoves
  <2>2. inbox'[p] = inbox[p]
    BY <1>0, <2>1, Clients DEF OperatorMoves
  <2> QED
    BY <1>1, <2>1, <2>2 DEF OperatorMoves, pods
<1>3. ASSUME NEW q \in Pod, PodStep(q) \/ Restart(q) PROVE OnlyRefused(p)'
  <2>1. PodMoves(q)
    BY <1>3, PodStepMoves
  <2>2. OnlyRefused(p)
    BY <2>1 DEF PodMoves, MismatchedOnlyRefused, Mismatched
  <2>3. CASE q = p
    BY <1>3, <2>2, <2>3, MismatchedPodStep
  <2>4. CASE q # p
    <3>1. /\ inbox'[p] = inbox[p] /\ loop'[p] = loop[p]
          /\ disk'[p] = disk[p] /\ digest'[p] = digest[p]
      BY <1>0, <2>1, <2>4 DEF PodMoves
    <3> QED
      BY <2>2, <3>1 DEF OnlyRefused
  <2> QED
    BY <2>3, <2>4
<1>4. ASSUME NEW r \in wire,
             \/ Store(r)
             \/ (Serve(r) \/ Lose(r)) /\ UNCHANGED <<settingsVars, uploads, pods>>
      PROVE  OnlyRefused(p)'
  <2>1. SourceMoves(r)
    BY <1>4, SourceStepMoves
  <2>2. UNCHANGED <<login, disk, digest, loop>> /\ Mismatched(p)
    BY <2>1 DEF SourceMoves, Mismatched
  <2>3. inbox'[p] = inbox[p] \/ inbox'[p].status = 401
    <3>1. CASE r.from = p
      BY <1>4, <2>2, <3>1, MismatchedServed
    <3>2. CASE r.from # p
      BY <1>0, <2>1, <3>2 DEF SourceMoves
    <3> QED
      BY <3>1, <3>2
  <2> QED
    BY <1>1, <2>2, <2>3
<1>5. CASE SourceStep
  BY <1>4, <1>5 DEF SourceStep
<1>6. CASE Network
  <2>1. CASE Trouble
    BY <1>1, <1>6, <2>1 DEF Network, Trouble, pods
  <2> QED
    BY <1>4, <1>6, <2>1 DEF Network
<1>7. CASE UNCHANGED vars
  BY <1>1, <1>7 DEF vars, sourceVars, pods
<1> QED
  BY <1>2, <1>3, <1>5, <1>6, <1>7 DEF Next

\* A pod whose token is not its server's never becomes ready and never applies
\* anything, whatever operators, the network and restarts do.
THEOREM MismatchedIsNeverReady == Spec => []MismatchedNeverReady
<1>1. Typed /\ MismatchedOnlyRefused /\ [Next]_vars => MismatchedOnlyRefused'
  BY MismatchedInductive
<1>2. MismatchedOnlyRefused => MismatchedNeverReady
  BY DEF MismatchedOnlyRefused, Mismatched, OnlyRefused, MismatchedNeverReady
<1> QED
  BY <1>1, <1>2, MismatchedInit, AlwaysTyped, PTL DEF Spec
-----------------------------------------------------------------------------
(* Pushes                                                                  *)

\* What may reach the destination of o while it pushes.
Meanwhile(o) == {push[o].version} \cup rivals[o]

\* The positions o knows to be uploaded.
Uploaded(o, m) == m < push[o].n \/ (m = push[o].n /\ inbox[o] # Silence /\ Successful(inbox[o]))

\* The strengthening of SuccessPrevails: every upload under way and every push is
\* one of those the history has, and what o has uploaded so far is at its
\* destination unless one of them replaced it.
PushPrevails(o) ==
  /\ \A r \in wire : Posts(r) => r.content \in Meanwhile(o)
  /\ \A q \in Pushing : push[q].version \in Meanwhile(o)
  /\ \A m \in 1..Len(Files) :
       Uploaded(o, m) => source[push[o].place][Files[m]] \in Meanwhile(o)

PushesPrevail ==
  /\ rivals \in [Operator -> SUBSET Version]
  /\ \A o \in Pushing : PushPrevails(o)

\* Nothing is lost of what holds for a push while its place, its file and its
\* answer stay, the source too, and the history only grows.
LEMMA PrevailsKept ==
  ASSUME NEW o \in Pushing, PushPrevails(o), UNCHANGED source,
         push'[o] = push[o], rivals[o] \subseteq rivals'[o],
         inbox'[o] = inbox[o] \/ inbox'[o] = Silence \/ ~Successful(inbox'[o]),
         \A r \in wire' : Posts(r) => r.content \in Meanwhile(o)',
         \A q \in Pushing' : push'[q].version \in Meanwhile(o)'
  PROVE  PushPrevails(o)'
<1>1. Meanwhile(o) \subseteq Meanwhile(o)'
  BY DEF Meanwhile
<1>2. \A m \in 1..Len(Files) : Uploaded(o, m)' => Uploaded(o, m)
  BY DEF Uploaded, Successful
<1>3. \A m \in 1..Len(Files) :
        Uploaded(o, m)' => source'[push'[o].place][Files[m]] \in Meanwhile(o)'
  BY <1>1, <1>2 DEF PushPrevails
<1> QED
  BY <1>3 DEF PushPrevails, Posts

\* A push knows the uploads under way and the other pushes when it begins, and
\* those that begin later join its history.
LEMMA StartPrevails ==
  ASSUME Typed, PushesPrevail, NEW b \in Operator, NEW mode, StartPush(b, mode)
  PROVE  PushesPrevail'
<1> DEFINE job == Destination(b, mode)
<1>0. /\ at[b] = "idle" /\ left[b] > 0 /\ job.place \in Place
      /\ at' = [at EXCEPT ![b] = "push"]
      /\ push' = [push EXCEPT ![b] = job] /\ wire' = wire \cup {Upload(b, job, 1)}
      /\ rivals' = [q \in Operator |->
                     IF q = b THEN {r.content : r \in {w \in wire : Posts(w)}}
                                     \cup {push[a].version : a \in Pushing}
                     ELSE IF q \in Pushing THEN rivals[q] \cup {job.version} ELSE {}]
      /\ UNCHANGED <<source, inbox>>
  BY DEF StartPush, Begin
<1>1. /\ SettingsTyped /\ PushTyped(b) /\ b \in Client
      /\ at \in [Operator -> {"idle", "changed", "truncated", "push"}]
      /\ push \in [Operator -> Job \cup {NoPush}]
  BY Clients DEF Typed, SettingsTyped, PushesTyped
<1>2. job \in Job /\ job.n = 1
  BY <1>0, <1>1, DestinationType
<1> HIDE DEF job
<1>3. Upload(b, job, 1).content = job.version
  BY <1>2, FirstFile, UploadType
<1>4. /\ push'[b] = job /\ \A q \in Operator \ {b} : push'[q] = push[q]
      /\ Pushing' = Pushing \cup {b} /\ b \notin Pushing
  BY <1>0, <1>1 DEF Pushing
<1>5. ASSUME NEW o \in Pushing PROVE PushPrevails(o)'
  <2>1. PushPrevails(o) /\ o # b /\ o \in Operator /\ push'[o] = push[o]
    BY <1>4, <1>5 DEF PushesPrevail, Pushing
  <2>2. rivals'[o] = rivals[o] \cup {job.version}
    BY <1>0, <1>5, <2>1
  <2>3. Meanwhile(o)' = Meanwhile(o) \cup {job.version}
    BY <2>1, <2>2 DEF Meanwhile
  <2>4. \A r \in wire' : Posts(r) => r.content \in Meanwhile(o)'
    BY <1>0, <1>3, <2>1, <2>3 DEF PushPrevails
  <2>5. \A q \in Pushing' : push'[q].version \in Meanwhile(o)'
    BY <1>4, <2>1, <2>3 DEF PushPrevails, Pushing
  <2> QED
    BY <1>0, <2>1, <2>2, <2>4, <2>5, PrevailsKept
<1>6. PushPrevails(b)'
  <2>1. Meanwhile(b)' = {job.version} \cup {r.content : r \in {w \in wire : Posts(w)}}
                          \cup {push[a].version : a \in Pushing}
    BY <1>0, <1>4 DEF Meanwhile
  <2>2. \A r \in wire' : Posts(r) => r.content \in Meanwhile(b)'
    BY <1>0, <1>3, <2>1
  <2>3. \A q \in Pushing' : push'[q].version \in Meanwhile(b)'
    BY <1>4, <2>1 DEF Pushing
  <2>4. inbox'[b] = Silence
    BY <1>0, <1>1 DEF PushTyped, Pushing
  <2>5. \A m \in 1..Len(Files) : ~Uploaded(b, m)'
    BY <1>2, <1>4, <2>4 DEF Uploaded
  <2> QED
    BY <2>2, <2>3, <2>5 DEF PushPrevails, Posts
<1>7. rivals' \in [Operator -> SUBSET Version]
  <2>1. \A r \in {w \in wire : Posts(w)} : r.content \in Version
    BY CallTypes DEF Typed
  <2>2. \A a \in Pushing : push[a].version \in Version
    BY DEF Typed, PushesTyped, PushTyped, Pushing, Job
  <2>3. job.version \in Version
    BY <1>2 DEF Job
  <2>4. rivals \in [Operator -> SUBSET Version]
    BY DEF PushesPrevail
  <2> QED
    BY <1>0, <2>1, <2>2, <2>3, <2>4
<1> QED
  BY <1>4, <1>5, <1>6, <1>7 DEF PushesPrevail

\* The end of a push, or of another command, leaves the others' histories alone.
LEMMA EndPrevails ==
  ASSUME Typed, PushesPrevail, NEW b \in Operator, OperatorMoves(b), at'[b] # "push",
         rivals' = rivals \/ rivals' = [rivals EXCEPT ![b] = {}]
  PROVE  PushesPrevail'
<1>0. /\ SourcesTyped /\ UNCHANGED source
      /\ inbox \in [Client -> Answer \cup {Silence}]
      /\ \A o \in Operator \ {b} : at'[o] = at[o] /\ push'[o] = push[o]
  BY DEF Typed, SourcesTyped, OperatorMoves
<1>1. Pushing' \subseteq Pushing /\ \A o \in Pushing' : o # b /\ o \in Operator
  BY <1>0 DEF Pushing
<1>r. rivals \in [Operator -> SUBSET Version]
  BY DEF PushesPrevail
<1>s. /\ rivals' \in [Operator -> SUBSET Version]
      /\ \A o \in Operator \ {b} : rivals'[o] = rivals[o]
  BY <1>r
<1> SUFFICES ASSUME NEW o \in Pushing' PROVE PushPrevails(o)'
  BY <1>s DEF PushesPrevail
<1>2. /\ PushPrevails(o) /\ o \in Pushing /\ push'[o] = push[o] /\ rivals'[o] = rivals[o]
      /\ Meanwhile(o)' = Meanwhile(o)
  BY <1>0, <1>1, <1>s DEF PushesPrevail, Meanwhile
<1>3. inbox'[o] = inbox[o]
  BY <1>0, <1>1, Clients DEF OperatorMoves
<1>4. ASSUME NEW r \in wire', Posts(r) PROVE r.content \in Meanwhile(o)'
  <2>1. CASE r \in wire
    BY <1>2, <1>4, <2>1 DEF PushPrevails
  <2>2. ASSUME NEW w \in wire, w.from = b, r = [w EXCEPT !.from = Nobody]
        PROVE  r.content \in Meanwhile(o)'
    BY <1>0, <1>2, <2>2, OrphanType DEF PushPrevails
  <2> QED
    BY <2>1, <2>2 DEF OperatorMoves
<1>5. \A q \in Pushing' : push'[q].version \in Meanwhile(o)'
  BY <1>0, <1>1, <1>2 DEF PushPrevails
<1> QED
  BY <1>0, <1>2, <1>3, <1>4, <1>5, PrevailsKept

\* A successful answer makes the file one of those uploaded.
LEMMA ReceivePrevails ==
  ASSUME Typed, PushesPrevail, NEW b \in Operator, Receive(b),
         Successful(inbox[b]), push[b].n < Len(Files)
  PROVE  PushesPrevail'
<1>0. /\ at[b] = "push" /\ inbox[b] # Silence /\ inbox' = [inbox EXCEPT ![b] = Silence]
      /\ push' = [push EXCEPT ![b].n = @ + 1]
      /\ wire' = wire \cup {Upload(b, push[b], push[b].n + 1)}
      /\ UNCHANGED <<at, rivals, source>>
  BY DEF Receive
<1>1. /\ PushTyped(b) /\ b \in Client /\ push \in [Operator -> Job \cup {NoPush}]
      /\ inbox \in [Client -> Answer \cup {Silence}]
  BY Clients DEF Typed, PushesTyped, SourcesTyped
<1>2. push[b] \in Job /\ push[b].n + 1 \in 1..Len(Files) /\ push[b].n \in 1..Len(Files)
  BY <1>0, <1>1, FirstFile DEF PushTyped, Pushing, Job
<1>3. /\ push'[b] = [push[b] EXCEPT !.n = push[b].n + 1]
      /\ \A q \in Operator \ {b} : push'[q] = push[q]
  BY <1>0, <1>1
<1>4. /\ push'[b].n = push[b].n + 1 /\ push'[b].place = push[b].place
      /\ push'[b].version = push[b].version
  BY <1>2, <1>3 DEF Job
<1>5. /\ \A q \in Operator : push'[q].version = push[q].version /\ push'[q].place = push[q].place
      /\ Pushing' = Pushing /\ Pushing \subseteq Operator /\ b \in Pushing
  BY <1>0, <1>3, <1>4 DEF Pushing
<1>6. \A o \in Operator : Meanwhile(o)' = Meanwhile(o)
  BY <1>0, <1>5 DEF Meanwhile
<1>7. Upload(b, push[b], push[b].n + 1).content = push[b].version
  BY <1>2, UploadType
<1> SUFFICES ASSUME NEW o \in Pushing PROVE PushPrevails(o)'
  BY <1>0, <1>5 DEF PushesPrevail
<1>8. PushPrevails(o) /\ o \in Operator /\ Meanwhile(o)' = Meanwhile(o)
  BY <1>5, <1>6 DEF PushesPrevail
<1>9. \A r \in wire' : Posts(r) => r.content \in Meanwhile(o)'
  BY <1>0, <1>5, <1>7, <1>8 DEF PushPrevails
<1>10. \A q \in Pushing' : push'[q].version \in Meanwhile(o)'
  BY <1>5, <1>8 DEF PushPrevails
<1>11. \A m \in 1..Len(Files) : Uploaded(o, m)' => Uploaded(o, m)
  <2>1. CASE o = b
    <3>1. inbox'[b] = Silence
      BY <1>0, <1>1
    <3>2. ASSUME NEW m \in 1..Len(Files), m < push[b].n + 1 PROVE m < push[b].n \/ m = push[b].n
      BY <1>2, <3>2
    <3> QED
      BY <1>0, <1>4, <2>1, <3>1, <3>2 DEF Uploaded
  <2>2. CASE o # b
    BY <1>0, <1>1, <1>3, <1>8, <2>2, Clients DEF Uploaded, Successful
  <2> QED
    BY <2>1, <2>2
<1> QED
  BY <1>0, <1>5, <1>8, <1>9, <1>10, <1>11 DEF PushPrevails, Posts

\* An upload that arrives is one of those the history has, and a successful answer
\* to a push says that its own has.
LEMMA SourcePrevails ==
  ASSUME Typed, PushesPrevail, NEW r \in wire,
         \/ Store(r)
         \/ (Serve(r) \/ Lose(r)) /\ UNCHANGED <<settingsVars, uploads, pods>>
  PROVE  PushesPrevail'
<1>0. SourceMoves(r) /\ SourcesTyped /\ inbox \in [Client -> Answer \cup {Silence}]
  BY SourceStepMoves DEF Typed, SourcesTyped
<1>1. /\ UNCHANGED <<push, rivals, at>> /\ wire' = wire \ {r}
      /\ \A c \in Client \ {r.from} : inbox'[c] = inbox[c]
  BY <1>0 DEF SourceMoves, settingsVars, uploads
<1>2. /\ Pushing' = Pushing /\ Pushing \subseteq Operator
      /\ \A o \in Operator : Meanwhile(o)' = Meanwhile(o)
  BY <1>1 DEF Pushing, Meanwhile
<1> SUFFICES ASSUME NEW o \in Pushing PROVE PushPrevails(o)'
  BY <1>1, <1>2 DEF PushesPrevail
<1>3. /\ PushPrevails(o) /\ o \in Operator /\ o \in Client /\ Meanwhile(o)' = Meanwhile(o)
      /\ PushTyped(o)
  BY <1>2, Clients DEF PushesPrevail, Typed, PushesTyped
<1>4. \A s \in wire' : Posts(s) => s.content \in Meanwhile(o)'
  BY <1>1, <1>3 DEF PushPrevails
<1>5. \A q \in Pushing' : push'[q].version \in Meanwhile(o)'
  BY <1>1, <1>2, <1>3 DEF PushPrevails
<1>6. r.from = o => r = Upload(o, push[o], push[o].n) /\ push[o] \in Job /\ push[o].n \in 1..Len(Files)
  BY <1>3 DEF PushTyped, Job
<1>7. r.from = o => /\ Posts(r) /\ r.place = push[o].place /\ r.file = Files[push[o].n]
                    /\ inbox[o] = Silence
  BY <1>3, <1>6, UploadType DEF PushTyped
<1>8. CASE Store(r)
  <2>1. source' = [source EXCEPT ![r.place][r.file] = r.content] /\ Posts(r)
    BY <1>8 DEF Store, Post
  <2>2. r.content \in Meanwhile(o)
    BY <1>3, <2>1 DEF PushPrevails
  <2>3. ASSUME NEW m \in 1..Len(Files), Uploaded(o, m)'
        PROVE  source'[push[o].place][Files[m]] \in Meanwhile(o)
    <3>1. push[o] \in Job /\ push[o].place \in Place /\ Files[m] \in Name
      BY <1>3, FileAt DEF PushTyped, Pushing, Job
    <3>2. source'[push[o].place][Files[m]] =
            IF push[o].place = r.place /\ Files[m] = r.file THEN r.content
              ELSE source[push[o].place][Files[m]]
      BY <1>0, <2>1, <3>1 DEF SourcesTyped
    <3>3. CASE Uploaded(o, m)
      BY <1>3, <2>2, <3>2, <3>3 DEF PushPrevails
    <3>4. CASE ~Uploaded(o, m)
      <4>1. m = push[o].n /\ r.from = o
        BY <1>1, <1>3, <2>3, <3>4 DEF Uploaded
      <4> QED
        BY <1>7, <2>2, <3>2, <4>1
    <3> QED
      BY <3>3, <3>4
  <2> QED
    BY <1>1, <1>3, <1>4, <1>5, <2>3 DEF PushPrevails, Posts
<1>9. CASE Serve(r) \/ Lose(r)
  <2>1. UNCHANGED source
    BY <1>9 DEF Serve, Lose, Unauthorized, Get, GetFails, PostFails
  <2>2. ASSUME r.from = o, NEW status \in {400, 401, 500}, Reply(r, status, NotPushed)
        PROVE  inbox'[o] = inbox[o] \/ ~Successful(inbox'[o])
    <3>1. \/ inbox'[o] = [status |-> status, body |-> NotPushed]
          \/ inbox'[o] = inbox[o]
      BY <1>0, <1>3, <2>2, ReplyReaches
    <3>2. inbox'[o] # inbox[o] => inbox'[o].status = status
      BY <3>1
    <3> QED
      BY <3>2 DEF Successful
  <2>3. inbox'[o] = inbox[o] \/ ~Successful(inbox'[o])
    <3>1. CASE r.from # o
      BY <1>1, <1>3, <3>1
    <3>2. CASE r.from = o /\ Lose(r)
      BY <3>2 DEF Lose
    <3>3. CASE r.from = o /\ Unauthorized(r)
      BY <2>2, <3>3 DEF Unauthorized
    <3>4. CASE r.from = o /\ PostFails(r)
      <4>1. PICK status \in {400, 500} : Reply(r, status, NotPushed)
        BY <3>4 DEF PostFails
      <4> QED
        BY <2>2, <3>4, <4>1
    <3> QED
      BY <1>7, <1>9, <3>1, <3>2, <3>3, <3>4 DEF Serve, Get, GetFails
  <2> QED
    BY <1>1, <1>3, <1>4, <1>5, <2>1, <2>3, PrevailsKept
<1> QED
  BY <1>8, <1>9

LEMMA PushesPrevailInductive ==
  ASSUME Typed, PushesPrevail, [Next]_vars
  PROVE  PushesPrevail'
<1>0. inbox \in [Client -> Answer \cup {Silence}]
  BY DEF Typed, SourcesTyped
<1>1. ASSUME UNCHANGED <<at, push, rivals, source>>,
             \A o \in Operator : inbox'[o] = inbox[o],
             \A r \in wire' : Posts(r) => r \in wire
      PROVE  PushesPrevail'
  <2>1. Pushing' = Pushing /\ \A o \in Operator : Meanwhile(o)' = Meanwhile(o)
    BY <1>1 DEF Pushing, Meanwhile
  <2> SUFFICES ASSUME NEW o \in Pushing PROVE PushPrevails(o)'
    BY <1>1, <2>1 DEF PushesPrevail
  <2>2. PushPrevails(o) /\ o \in Operator
    BY DEF PushesPrevail, Pushing
  <2> QED
    BY <1>1, <2>1, <2>2, PrevailsKept DEF PushPrevails
<1>2. ASSUME NEW b \in Operator, OperatorStep(b) PROVE PushesPrevail'
  <2>0. OperatorMoves(b)
    BY <1>2, OperatorStepMoves
  <2>1. CASE SetStep(b) /\ UNCHANGED <<sourceVars, uploads, pods>>
    BY <2>0, <2>1, EndPrevails, SetStepTyped DEF Typed, uploads
  <2>2. ASSUME NEW mode, StartPush(b, mode) PROVE PushesPrevail'
    BY <2>2, StartPrevails
  <2>3. CASE Receive(b) /\ Successful(inbox[b]) /\ push[b].n < Len(Files)
    BY <2>3, ReceivePrevails
  <2>4. CASE \/ Stops(b)
             \/ Receive(b) /\ ~(Successful(inbox[b]) /\ push[b].n < Len(Files))
    <3>1. at' = [at EXCEPT ![b] = "idle"] /\ rivals' = [rivals EXCEPT ![b] = {}]
      BY <2>4 DEF Stops, Quits, Receive, EndPush
    <3>2. at'[b] # "push"
      BY <3>1 DEF Typed, SettingsTyped
    <3> QED
      BY <2>0, <3>1, <3>2, EndPrevails
  <2> QED
    BY <1>2, <2>1, <2>2, <2>3, <2>4 DEF OperatorStep
<1>3. ASSUME NEW p \in Pod, PodStep(p) \/ Restart(p) PROVE PushesPrevail'
  <2>1. PodMoves(p)
    BY <1>3, PodStepMoves
  <2>2. UNCHANGED <<at, push, rivals, source, login>> /\ loop'[p].i \in 1..Len(Files)
    BY <2>1 DEF PodMoves, settingsVars, uploads, Loops
  <2>3. \A o \in Operator : inbox'[o] = inbox[o]
    BY <1>0, <2>1, Clients DEF PodMoves
  <2>4. ~Posts(Fetch(p, loop'[p].i))
    BY <2>2, FetchType DEF Typed, PodsTyped
  <2>5. \A r \in wire' : Posts(r) => r \in wire
    BY <2>1, <2>4 DEF PodMoves, Sends
  <2> QED
    BY <1>1, <2>2, <2>3, <2>5
<1>4. CASE SourceStep
  BY <1>4, SourcePrevails DEF SourceStep
<1>5. CASE Network
  <2>1. CASE Trouble
    BY <1>1, <1>5, <2>1 DEF Network, Trouble, settingsVars, uploads
  <2> QED
    BY <1>5, <2>1, SourcePrevails DEF Network
<1>6. CASE UNCHANGED vars
  BY <1>1, <1>6 DEF vars, settingsVars, sourceVars, uploads
<1> QED
  BY <1>2, <1>3, <1>4, <1>5, <1>6 DEF Next

LEMMA PushesPrevailInit == Init => PushesPrevail
  BY DEF Init, SettingsInit, PushesPrevail, Pushing

\* When a push reports success, every file at its destination is its own or that of
\* a push under way meanwhile, however many operators push and whatever is lost.
THEOREM SuccessAlwaysPrevails == Spec => SuccessPrevails
<1>1. ASSUME Typed, PushesPrevail, NEW o \in Operator,
             Receive(o), Successful(inbox[o]), push[o].n = Len(Files), NEW f \in Name
      PROVE  source[push[o].place][f] \in {push[o].version} \cup rivals[o]
  <2>1. PushPrevails(o) /\ inbox[o] # Silence
    BY <1>1 DEF Receive, PushesPrevail, Pushing
  <2>2. PICK m \in 1..Len(Files) : f = Files[m]
    BY DistributionAssumption
  <2>3. Uploaded(o, m)
    BY <1>1, <2>1, <2>2, FirstFile DEF Uploaded
  <2> QED
    BY <2>1, <2>2, <2>3 DEF PushPrevails, Meanwhile
<1>2. Typed /\ PushesPrevail =>
        \A o \in Operator : Receive(o) /\ Successful(inbox[o]) /\ push[o].n = Len(Files) =>
          \A f \in Name : source[push[o].place][f] \in {push[o].version} \cup rivals[o]
  BY <1>1
<1>3. Typed /\ PushesPrevail /\ [Next]_vars => PushesPrevail'
  BY PushesPrevailInductive
<1> QED
  BY <1>2, <1>3, PushesPrevailInit, AlwaysTyped, PTL DEF Spec, SuccessPrevails
-----------------------------------------------------------------------------
(* The loop of a pod is Fetcher's                                          *)

Hash(p) == [f \in Name |-> IF digest[p][f] = NotPushed THEN Unknown ELSE digest[p][f]]
Faulty(p) == IF trouble \/ ~CheckAuth(Fetch(p, 1)) THEN Name ELSE {}

\* What Fetcher has for the loop of p: its place and position, whether the pass is
\* clean so far, and the content it is about to apply.
LoopPc(p) == IF Fetched(p) THEN "apply"
             ELSE IF Decided(p) /\ loop[p].i = Len(Files) THEN "end"
             ELSE IF loop[p].pc = "asked" THEN "fetch" ELSE loop[p].pc
LoopI(p) == IF Decided(p) /\ loop[p].i < Len(Files) THEN loop[p].i + 1 ELSE loop[p].i
LoopClean(p) == loop[p].clean /\ ~Refused(p)
LoopGot(p) == IF Fetched(p) THEN inbox[p].body ELSE Unknown

Seen(p, place, n, clean, content) ==
  /\ LoopPc(p) = place /\ LoopI(p) = n
  /\ LoopClean(p) = clean /\ LoopGot(p) = content

\* The rest of what Fetcher has for p.
LoopEnv(p) == <<source[login[p].place], Faulty(p)>>
LoopDisk(p) == <<disk[p], Hash(p)>>

LoopState(p) == <<LoopPc(p), LoopI(p), LoopClean(p), LoopGot(p)>>

LEMMA LoopStutters ==
  ASSUME NEW p \in Pod,
         UNCHANGED <<LoopState(p), LoopEnv(p), LoopDisk(p), loop[p].ready, moved[p]>>
  PROVE  UNCHANGED Loop(p)!vars
  BY DEF LoopState, LoopPc, LoopI, LoopClean, LoopGot, LoopEnv, LoopDisk, Faulty, Hash,
         Loop!vars, Loop!env, Loop!loop

LEMMA LoopFetchFails ==
  ASSUME NEW p \in Pod, NEW n \in 1..Len(Files), NEW clean \in BOOLEAN,
         Seen(p, "fetch", n, clean, Unknown), Files[n] \in Faulty(p),
         \/ n < Len(Files) /\ Seen(p, "fetch", n + 1, FALSE, Unknown)'
         \/ ~(n < Len(Files)) /\ Seen(p, "end", n, FALSE, Unknown)',
         UNCHANGED <<LoopEnv(p), LoopDisk(p), loop[p].ready, moved[p]>>
  PROVE  Loop(p)!FetchFails
  BY DEF Seen, LoopPc, LoopI, LoopClean, LoopGot, LoopEnv, LoopDisk, Faulty, Hash,
         Loop!FetchFails, Loop!NextFile, Loop!file, Loop!env
LEMMA LoopFetchFindsNothing ==
  ASSUME NEW p \in Pod, NEW n \in 1..Len(Files), NEW clean \in BOOLEAN,
         Seen(p, "fetch", n, clean, Unknown),
         source[login[p].place][Files[n]] = NotPushed \/ Files[n] \in Faulty(p),
         \/ n < Len(Files) /\ Seen(p, "fetch", n + 1, clean, Unknown)'
         \/ ~(n < Len(Files)) /\ Seen(p, "end", n, clean, Unknown)',
         UNCHANGED <<LoopEnv(p), LoopDisk(p), loop[p].ready, moved[p]>>
  PROVE  Loop(p)!FetchFindsNothing
  BY DEF Seen, LoopPc, LoopI, LoopClean, LoopGot, LoopEnv, LoopDisk, Faulty, Hash,
         Loop!FetchFindsNothing, Loop!NextFile, Loop!file, Loop!env

LEMMA LoopFetchUnchanged ==
  ASSUME NEW p \in Pod, NEW n \in 1..Len(Files), NEW clean \in BOOLEAN,
         Seen(p, "fetch", n, clean, Unknown),
         source[login[p].place][Files[n]] # NotPushed,
         Hash(p)[Files[n]] = source[login[p].place][Files[n]],
         \/ n < Len(Files) /\ Seen(p, "fetch", n + 1, clean, Unknown)'
         \/ ~(n < Len(Files)) /\ Seen(p, "end", n, clean, Unknown)',
         UNCHANGED <<LoopEnv(p), LoopDisk(p), loop[p].ready, moved[p]>>
  PROVE  Loop(p)!FetchUnchanged
  BY DEF Seen, LoopPc, LoopI, LoopClean, LoopGot, LoopEnv, LoopDisk, Faulty, Hash,
         Loop!FetchUnchanged, Loop!NextFile, Loop!file, Loop!env

LEMMA LoopFetchChanged ==
  ASSUME NEW p \in Pod, NEW n \in 1..Len(Files), NEW clean \in BOOLEAN, NEW content,
         Seen(p, "fetch", n, clean, Unknown),
         source[login[p].place][Files[n]] = content, content # NotPushed,
         Hash(p)[Files[n]] # content,
         Seen(p, "apply", n, clean, content)',
         UNCHANGED <<LoopEnv(p), LoopDisk(p), loop[p].ready, moved[p]>>
  PROVE  Loop(p)!FetchChanged
  BY DEF Seen, LoopPc, LoopI, LoopClean, LoopGot, LoopEnv, LoopDisk, Faulty, Hash,
         Loop!FetchChanged, Loop!file, Loop!env

LEMMA LoopApply ==
  ASSUME NEW p \in Pod, NEW n \in 1..Len(Files), NEW clean \in BOOLEAN, NEW content,
         Seen(p, "apply", n, clean, content),
         disk'[p] = [disk[p] EXCEPT ![Files[n]] = content],
         Hash(p)' = [Hash(p) EXCEPT ![Files[n]] = content],
         \/ n < Len(Files) /\ Seen(p, "settle", n, clean, Unknown)'
         \/ ~(n < Len(Files)) /\ Seen(p, "end", n, clean, Unknown)',
         UNCHANGED <<LoopEnv(p), loop[p].ready, moved[p]>>
  PROVE  Loop(p)!Apply
  BY DEF Seen, LoopPc, LoopI, LoopClean, LoopGot, LoopEnv, Faulty, Hash,
         Loop!Apply, Loop!NextFile, Loop!file, Loop!env

LEMMA LoopApplyFails ==
  ASSUME NEW p \in Pod, NEW n \in 1..Len(Files), NEW clean \in BOOLEAN, NEW content,
         Seen(p, "apply", n, clean, content), Files[n] \in Faulty(p),
         \/ n < Len(Files) /\ Seen(p, "fetch", n + 1, FALSE, Unknown)'
         \/ ~(n < Len(Files)) /\ Seen(p, "end", n, FALSE, Unknown)',
         UNCHANGED <<LoopEnv(p), LoopDisk(p), loop[p].ready, moved[p]>>
  PROVE  Loop(p)!ApplyFails
  BY DEF Seen, LoopPc, LoopI, LoopClean, LoopGot, LoopEnv, LoopDisk, Faulty, Hash,
         Loop!ApplyFails, Loop!NextFile, Loop!file, Loop!env

LEMMA LoopSettle ==
  ASSUME NEW p \in Pod, NEW n \in 1..Len(Files), NEW clean \in BOOLEAN,
         Seen(p, "settle", n, clean, Unknown),
         \/ n < Len(Files) /\ Seen(p, "fetch", n + 1, clean, Unknown)'
         \/ ~(n < Len(Files)) /\ Seen(p, "end", n, clean, Unknown)',
         UNCHANGED <<LoopEnv(p), LoopDisk(p), loop[p].ready, moved[p]>>
  PROVE  Loop(p)!Settle
  BY DEF Seen, LoopPc, LoopI, LoopClean, LoopGot, LoopEnv, LoopDisk, Faulty, Hash,
         Loop!Settle, Loop!NextFile, Loop!env

LEMMA LoopEndPass ==
  ASSUME NEW p \in Pod, NEW n \in 1..Len(Files), NEW clean \in BOOLEAN,
         Seen(p, "end", n, clean, Unknown), Seen(p, "sleep", n, clean, Unknown)',
         loop'[p].ready = (loop[p].ready \/ clean),
         UNCHANGED <<LoopEnv(p), LoopDisk(p), moved[p]>>
  PROVE  Loop(p)!EndPass
  BY DEF Seen, LoopPc, LoopI, LoopClean, LoopGot, LoopEnv, LoopDisk, Faulty, Hash,
         Loop!EndPass, Loop!env

LEMMA LoopBeginPass ==
  ASSUME NEW p \in Pod, NEW n \in 1..Len(Files), NEW clean \in BOOLEAN,
         Seen(p, "sleep", n, clean, Unknown), Seen(p, "fetch", 1, TRUE, Unknown)',
         moved'[p] = {}, UNCHANGED <<LoopEnv(p), LoopDisk(p), loop[p].ready>>
  PROVE  Loop(p)!BeginPass
  BY DEF Seen, LoopPc, LoopI, LoopClean, LoopGot, LoopEnv, LoopDisk, Faulty, Hash,
         Loop!BeginPass, Loop!env

LEMMA LoopRestart ==
  ASSUME NEW p \in Pod, disk'[p] = disk[p] \/ disk'[p] = [f \in Name |-> Image],
         Hash(p)' = [f \in Name |-> Unknown], loop'[p].ready = FALSE, moved'[p] = {},
         Seen(p, "fetch", 1, TRUE, Unknown)', UNCHANGED LoopEnv(p)
  PROVE  Loop(p)!Restart
<1>1. Loop(p)!File = Name
  BY DistributionAssumption DEF Loop!File
<1> QED
  BY <1>1 DEF Seen, LoopPc, LoopI, LoopClean, LoopGot, LoopEnv, Faulty, Hash,
              Loop!Restart, Loop!Start, Loop!env

\* A file that reaches the source of p.
LEMMA LoopPush ==
  ASSUME NEW p \in Pod, NEW f \in Name, NEW content \in Version,
         source[login[p].place]' = [source[login[p].place] EXCEPT ![f] = content],
         moved'[p] = moved[p] \cup {f},
         UNCHANGED <<LoopState(p), Faulty(p), LoopDisk(p), loop[p].ready>>
  PROVE  Loop(p)!Environment
<1>1. Loop(p)!File = Name
  BY DistributionAssumption DEF Loop!File
<1>2. Loop(p)!Push(f, content)
  BY DEF LoopState, LoopPc, LoopI, LoopClean, LoopGot, LoopDisk, Faulty, Hash,
         Loop!Push, Loop!loop
<1> QED
  BY <1>1, <1>2 DEF Loop!Environment

LEMMA LoopTrouble ==
  ASSUME NEW p \in Pod,
         UNCHANGED <<LoopState(p), source[login[p].place], LoopDisk(p), loop[p].ready, moved[p]>>
  PROVE  Loop(p)!Trouble
<1>1. Loop(p)!File = Name
  BY DistributionAssumption DEF Loop!File
<1>2. Faulty(p)' \subseteq Name
  BY DEF Faulty
<1> QED
  BY <1>1, <1>2 DEF LoopState, LoopPc, LoopI, LoopClean, LoopGot, LoopDisk, Faulty, Hash,
                    Loop!Trouble, Loop!loop
NextI(p) == IF loop[p].i < Len(Files) THEN loop[p].i + 1 ELSE loop[p].i
NextPc(p) == IF loop[p].i < Len(Files) THEN "fetch" ELSE "end"

\* What Fetcher has for p while p waits for a fetch, when the fetch is decided but p
\* has not gone on, when it has content to apply, and otherwise.
Views ==
  \A p \in Pod :
    /\ Asking(p) /\ Underway(p) => Seen(p, "fetch", loop[p].i, loop[p].clean, Unknown)
    /\ Lost(p) \/ Denied(p) => Seen(p, NextPc(p), NextI(p), FALSE, Unknown)
    /\ Answered(p, 404) \/ (Answered(p, 200) /\ ~Fetched(p)) =>
         Seen(p, NextPc(p), NextI(p), loop[p].clean, Unknown)
    /\ Fetched(p) => Seen(p, "apply", loop[p].i, loop[p].clean, inbox[p].body)
    /\ loop[p].pc # "asked" => Seen(p, loop[p].pc, loop[p].i, loop[p].clean, Unknown)

LEMMA TypedViews == Typed => Views
<1> SUFFICES ASSUME Typed, NEW p \in Pod
             PROVE  /\ Asking(p) /\ Underway(p) =>
                         Seen(p, "fetch", loop[p].i, loop[p].clean, Unknown)
                    /\ Lost(p) \/ Denied(p) => Seen(p, NextPc(p), NextI(p), FALSE, Unknown)
                    /\ Answered(p, 404) \/ (Answered(p, 200) /\ ~Fetched(p)) =>
                         Seen(p, NextPc(p), NextI(p), loop[p].clean, Unknown)
                    /\ Fetched(p) => Seen(p, "apply", loop[p].i, loop[p].clean, inbox[p].body)
                    /\ loop[p].pc # "asked" =>
                         Seen(p, loop[p].pc, loop[p].i, loop[p].clean, Unknown)
  BY DEF Views
<1>1. /\ loop[p].i \in 1..Len(Files) /\ Len(Files) \in Nat /\ loop[p].clean \in BOOLEAN
      /\ inbox[p] # Silence => ~Underway(p)
  BY PodTypes, FirstFile DEF Typed, PodsTyped, PodTyped, Underway
<1>2. loop[p].i < Len(Files) \/ loop[p].i = Len(Files)
  BY <1>1
<1>3. ASSUME Asking(p), Underway(p)
      PROVE  Seen(p, "fetch", loop[p].i, loop[p].clean, Unknown)
  <2>1. ~Fetched(p) /\ ~Decided(p) /\ ~Refused(p)
    BY <1>3 DEF Asking, Fetched, Answered, Decided, Refused, Lost, Denied
  <2> QED
    BY <1>1, <1>3, <2>1 DEF Seen, LoopPc, LoopI, LoopClean, LoopGot, Asking
<1>4. ASSUME Decided(p)
      PROVE  Seen(p, NextPc(p), NextI(p), loop[p].clean /\ ~Refused(p), Unknown)
  <2>1. ~Fetched(p) /\ loop[p].pc = "asked"
    BY <1>4 DEF Decided
  <2> QED
    BY <1>1, <1>2, <1>4, <2>1 DEF Seen, LoopPc, LoopI, LoopClean, LoopGot, NextPc, NextI
<1>5. ASSUME Lost(p) \/ Denied(p) PROVE Seen(p, NextPc(p), NextI(p), FALSE, Unknown)
  <2>1. Decided(p) /\ Refused(p)
    BY <1>1, <1>5 DEF Lost, Denied, Asking, Decided, Fetched, Answered, Refused
  <2> QED
    BY <1>4, <2>1 DEF Seen
<1>6. ASSUME Answered(p, 404) \/ (Answered(p, 200) /\ ~Fetched(p))
      PROVE  Seen(p, NextPc(p), NextI(p), loop[p].clean, Unknown)
  <2>1. Decided(p) /\ ~Refused(p)
    BY <1>1, <1>6 DEF Lost, Denied, Asking, Decided, Fetched, Answered, Refused
  <2> QED
    BY <1>1, <1>4, <2>1 DEF Seen
<1>7. ASSUME Fetched(p) PROVE Seen(p, "apply", loop[p].i, loop[p].clean, inbox[p].body)
  <2>1. ~Decided(p) /\ ~Refused(p)
    BY <1>7 DEF Lost, Denied, Asking, Decided, Fetched, Answered, Refused
  <2> QED
    BY <1>1, <1>7, <2>1 DEF Seen, LoopPc, LoopI, LoopClean, LoopGot
<1>8. ASSUME loop[p].pc # "asked"
      PROVE  Seen(p, loop[p].pc, loop[p].i, loop[p].clean, Unknown)
  <2>1. ~Fetched(p) /\ ~Decided(p) /\ ~Refused(p)
    BY <1>8 DEF Lost, Denied, Asking, Decided, Fetched, Answered, Refused
  <2> QED
    BY <1>1, <1>8, <2>1 DEF Seen, LoopPc, LoopI, LoopClean, LoopGot
<1> QED
  BY <1>3, <1>5, <1>6, <1>7, <1>8

\* The views of the state a step leads to.
LEMMA ViewsAfter == Typed /\ Next => Views /\ Views' /\ Typed'
<1>1. Typed' => Views'
  BY TypedViews, PTL
<1> QED
  BY <1>1, TypedViews, TypedInductive

\* Once p goes on to the next file, or to the end, so does Fetcher's loop.
LEMMA NextFileSeen ==
  ASSUME Typed, Next, NEW p \in Pod, NEW clean \in BOOLEAN, NextFile(p, clean),
         PodMoves(p), NEW n \in 1..Len(Files), n = loop[p].i
  PROVE  \/ n < Len(Files) /\ Seen(p, "fetch", n + 1, clean, Unknown)'
         \/ ~(n < Len(Files)) /\ Seen(p, "end", n, clean, Unknown)'
<1>0. /\ p \in Client /\ inbox'[p] = Silence /\ Views' /\ loop \in Loops /\ UNCHANGED login
      /\ Sends(p)
  BY ViewsAfter, Clients DEF Typed, SourcesTyped, PodsTyped, PodMoves
<1>1. /\ loop'[p].clean = clean
      /\ loop[p].i < Len(Files) => loop'[p].pc = "asked" /\ loop'[p].i = loop[p].i + 1
      /\ ~(loop[p].i < Len(Files)) => loop'[p].pc = "end" /\ loop'[p].i = loop[p].i
  BY <1>0, NextFileEffect
<1>2. CASE loop[p].i < Len(Files)
  <2>1. loop'[p].i \in 1..Len(Files) /\ login \in [Pod -> Login]
    BY <1>1, <1>2 DEF PodMoves, Loops, Typed, PodsTyped
  <2>2. Fetch(p, loop'[p].i) \in wire' /\ Fetch(p, loop'[p].i).from = p
    BY <1>0, <1>1, <1>2, <2>1, FetchType DEF Sends
  <2>3. Asking(p)' /\ Underway(p)'
    BY <1>0, <1>1, <1>2, <2>2 DEF Asking, Underway
  <2>4. Seen(p, "fetch", loop[p].i, loop[p].clean, Unknown)'
    BY <1>0, <2>3 DEF Views
  <2> QED
    BY <1>1, <1>2, <2>4 DEF Seen
<1>3. CASE ~(loop[p].i < Len(Files))
  <2>1. Seen(p, loop[p].pc, loop[p].i, loop[p].clean, Unknown)'
    BY <1>0, <1>1, <1>3 DEF Views
  <2> QED
    BY <1>1, <1>3, <2>1 DEF Seen
<1> QED
  BY <1>2, <1>3

\* The first fetch of a pass.
LEMMA FirstSeen ==
  ASSUME Typed, Next, NEW p \in Pod, NEW ready \in BOOLEAN, Ask(p, 1, TRUE, ready),
         PodMoves(p)
  PROVE  loop'[p].ready = ready /\ Seen(p, "fetch", 1, TRUE, Unknown)'
<1>0. /\ p \in Client /\ inbox'[p] = Silence /\ Views' /\ loop \in Loops /\ UNCHANGED login
      /\ Sends(p) /\ login \in [Pod -> Login]
  BY ViewsAfter, Clients DEF Typed, SourcesTyped, PodsTyped, PodMoves
<1>1. loop'[p] = [pc |-> "asked", i |-> 1, clean |-> TRUE, ready |-> ready]
  BY <1>0, FirstFile, AskEffect
<1>2. Fetch(p, 1) \in wire' /\ Fetch(p, 1).from = p
  BY <1>0, <1>1, FirstFile, FetchType DEF Sends
<1>3. Asking(p)' /\ Underway(p)'
  BY <1>0, <1>1, <1>2 DEF Asking, Underway
<1>4. Seen(p, "fetch", loop[p].i, loop[p].clean, Unknown)'
  BY <1>0, <1>3 DEF Views
<1> QED
  BY <1>1, <1>4 DEF Seen
\* A pod that goes on from a decided fetch does what Fetcher's loop has done already.
LEMMA DecidedStutters ==
  ASSUME Typed, Next, NEW p \in Pod, NEW clean \in BOOLEAN, NextFile(p, clean), PodMoves(p),
         Seen(p, NextPc(p), NextI(p), clean, Unknown),
         UNCHANGED <<LoopEnv(p), LoopDisk(p), moved[p]>>
  PROVE  UNCHANGED Loop(p)!vars
<1>0. loop[p].i \in 1..Len(Files) /\ loop'[p].ready = loop[p].ready
  BY PodTypes, NextFileEffect DEF Typed, PodsTyped, PodMoves
<1>1. PICK n \in 1..Len(Files) : n = loop[p].i
  BY <1>0
<1>2. CASE n < Len(Files)
  <2>1. Seen(p, "fetch", n + 1, clean, Unknown)'
    BY <1>1, <1>2, NextFileSeen
  <2>2. Seen(p, "fetch", n + 1, clean, Unknown)
    BY <1>1, <1>2 DEF NextPc, NextI
  <2>3. UNCHANGED LoopState(p)
    BY <2>1, <2>2 DEF Seen, LoopState
  <2> QED
    BY <1>0, <2>3, LoopStutters
<1>3. CASE ~(n < Len(Files))
  <2>1. Seen(p, "end", n, clean, Unknown)'
    BY <1>1, <1>3, NextFileSeen
  <2>2. Seen(p, "end", n, clean, Unknown)
    BY <1>1, <1>3 DEF NextPc, NextI
  <2>3. UNCHANGED LoopState(p)
    BY <2>1, <2>2 DEF Seen, LoopState
  <2> QED
    BY <1>0, <2>3, LoopStutters
<1> QED
  BY <1>2, <1>3

\* An answer that is applied, in Fetcher's terms.
LEMMA ApplySimulates ==
  ASSUME Typed, Next, NEW p \in Pod, Apply(p), PodMoves(p), UNCHANGED LoopEnv(p)
  PROVE  Loop(p)!Apply
<1>0. /\ loop \in Loops /\ loop[p].i \in 1..Len(Files) /\ loop[p].clean \in BOOLEAN
      /\ Position(p) \in Name
      /\ disk \in [Pod -> [Name -> Version \cup {Image}]]
      /\ digest \in [Pod -> [Name -> Version \cup {NotPushed}]]
      /\ Views /\ Views' /\ UNCHANGED login
  BY PodTypes, ViewsAfter DEF Typed, PodsTyped, PodMoves
<1>1. /\ Answered(p, 200) /\ Heard(p) /\ digest[p][Position(p)] # inbox[p].body
      /\ disk' = [disk EXCEPT ![p][Position(p)] = inbox[p].body]
      /\ digest' = [digest EXCEPT ![p][Position(p)] = inbox[p].body]
  BY DEF Apply
<1>2. PICK n \in 1..Len(Files) : n = loop[p].i
  BY <1>0
<1>3. PICK clean \in BOOLEAN : clean = loop[p].clean
  BY <1>0
<1>4. PICK content \in Version : content = inbox[p].body
  BY <1>1 DEF Answered, Typed, PodsTyped, PodTyped
<1>5. Seen(p, "apply", n, clean, content)
  BY <1>0, <1>1, <1>2, <1>3, <1>4 DEF Views, Fetched
<1>6. Position(p) = Files[n]
  BY <1>2 DEF Position
<1>7. /\ disk'[p] = [disk[p] EXCEPT ![Files[n]] = content]
      /\ digest'[p] = [digest[p] EXCEPT ![Files[n]] = content]
  BY <1>0, <1>1, <1>4, <1>6
<1>8. Hash(p)' = [Hash(p) EXCEPT ![Files[n]] = content]
  <2>1. digest[p] \in [Name -> Version \cup {NotPushed}] /\ Files[n] \in Name
    BY <1>0, FileAt
  <2>2. content # NotPushed
    BY <1>4, Unmistakable
  <2>3. Hash(p)' = [f \in Name |-> IF digest'[p][f] = NotPushed THEN Unknown ELSE digest'[p][f]]
    BY DEF Hash
  <2>4. \A f \in Name : digest'[p][f] = IF f = Files[n] THEN content ELSE digest[p][f]
    BY <1>7, <2>1
  <2>5. Hash(p)' = [f \in Name |-> IF f = Files[n] THEN content ELSE Hash(p)[f]]
    BY <2>2, <2>3, <2>4 DEF Hash
  <2> QED
    BY <2>5 DEF Hash
<1>9. moved'[p] = moved[p]
  BY <1>1 DEF Heard
<1>10. CASE n < Len(Files)
  <2>1. loop' = [loop EXCEPT ![p].pc = "settle"]
    BY <1>2, <1>10 DEF Apply
  <2>2. /\ loop'[p].pc = "settle" /\ loop'[p].i = n /\ loop'[p].clean = clean
        /\ loop'[p].ready = loop[p].ready
    BY <1>0, <1>2, <1>3, <2>1 DEF Loops
  <2>3. Seen(p, loop[p].pc, loop[p].i, loop[p].clean, Unknown)'
    BY <1>0, <2>2 DEF Views
  <2>4. Seen(p, "settle", n, clean, Unknown)'
    BY <2>2, <2>3 DEF Seen
  <2> QED
    BY <1>5, <1>7, <1>8, <1>9, <1>10, <2>2, <2>4, LoopApply
<1>11. CASE ~(n < Len(Files))
  <2>1. NextFile(p, clean)
    BY <1>2, <1>3, <1>11 DEF Apply
  <2>2. Seen(p, "end", n, clean, Unknown)' /\ loop'[p].ready = loop[p].ready
    BY <1>0, <1>2, <1>11, <2>1, NextFileSeen, NextFileEffect
  <2> QED
    BY <1>5, <1>7, <1>8, <1>9, <1>11, <2>2, LoopApply
<1> QED
  BY <1>10, <1>11

LEMMA PodSimulates ==
  ASSUME Typed, Next, NEW p \in Pod, PodStep(p) \/ Restart(p)
  PROVE  UNCHANGED Loop(p)!vars \/ Loop(p)!Next
<1>0. /\ PodMoves(p) /\ loop \in Loops /\ loop[p].i \in 1..Len(Files)
      /\ loop[p].clean \in BOOLEAN /\ loop[p].ready \in BOOLEAN
      /\ Position(p) \in Name /\ login \in [Pod -> Login]
      /\ disk \in [Pod -> [Name -> Version \cup {Image}]]
      /\ digest \in [Pod -> [Name -> Version \cup {NotPushed}]]
      /\ moved \in [Pod -> SUBSET Name]
      /\ Views /\ Views'
  BY PodStepMoves, PodTypes, ViewsAfter DEF Typed, PodsTyped
<1>1. UNCHANGED <<source, trouble, login>>
  BY <1>0 DEF PodMoves
<1>2. UNCHANGED LoopEnv(p)
  BY <1>1 DEF LoopEnv, Faulty, CheckAuth, Fetch, Request
<1>3. UNCHANGED <<disk, digest>> => UNCHANGED LoopDisk(p)
  BY DEF LoopDisk, Hash
<1>4. PICK n \in 1..Len(Files) : n = loop[p].i
  BY <1>0
<1>5. PICK clean \in BOOLEAN : clean = loop[p].clean
  BY <1>0
<1>6. trouble => Files[n] \in Faulty(p)
  BY FileAt DEF Faulty
<1>7. ASSUME NEW c \in BOOLEAN, NextFile(p, c)
      PROVE  /\ loop'[p].ready = loop[p].ready
             /\ \/ n < Len(Files) /\ Seen(p, "fetch", n + 1, c, Unknown)'
                \/ ~(n < Len(Files)) /\ Seen(p, "end", n, c, Unknown)'
  BY <1>0, <1>1, <1>4, <1>7, NextFileSeen, NextFileEffect
<1>8. CASE FetchFails(p)
  <2>1. /\ Asking(p) /\ NextFile(p, FALSE) /\ UNCHANGED <<disk, digest, moved>>
        /\ Underway(p) => trouble
    BY <1>8 DEF FetchFails
  <2>2. CASE Underway(p)
    <3>1. Seen(p, "fetch", n, clean, Unknown)
      BY <1>0, <1>4, <1>5, <2>1, <2>2 DEF Views
    <3> QED
      BY <1>2, <1>3, <1>6, <1>7, <2>1, <2>2, <3>1, LoopFetchFails DEF Loop!Next, Loop!FetcherStep
  <2>3. CASE ~Underway(p)
    <3>1. Seen(p, NextPc(p), NextI(p), FALSE, Unknown)
      BY <1>0, <2>1, <2>3 DEF Views, Lost
    <3> QED
      BY <1>0, <1>2, <1>3, <2>1, <3>1, DecidedStutters
  <2> QED
    BY <2>2, <2>3
<1>9. CASE FetchFindsNothing(p)
  <2>1. Answered(p, 404) /\ NextFile(p, clean) /\ UNCHANGED <<disk, digest, moved>>
    BY <1>5, <1>9 DEF FetchFindsNothing, Heard
  <2>2. Seen(p, NextPc(p), NextI(p), clean, Unknown)
    BY <1>0, <1>5, <2>1 DEF Views
  <2> QED
    BY <1>0, <1>2, <1>3, <2>1, <2>2, DecidedStutters
<1>10. CASE FetchRefused(p)
  <2>1. Denied(p) /\ NextFile(p, FALSE) /\ UNCHANGED <<disk, digest, moved>>
    BY <1>10 DEF FetchRefused, Heard
  <2>2. Seen(p, NextPc(p), NextI(p), FALSE, Unknown)
    BY <1>0, <2>1 DEF Views
  <2> QED
    BY <1>0, <1>2, <1>3, <2>1, <2>2, DecidedStutters
<1>11. CASE FetchUnchanged(p)
  <2>1. /\ Answered(p, 200) /\ digest[p][Position(p)] = inbox[p].body
        /\ NextFile(p, clean) /\ UNCHANGED <<disk, digest, moved>>
    BY <1>5, <1>11 DEF FetchUnchanged, Heard
  <2>2. Seen(p, NextPc(p), NextI(p), clean, Unknown)
    BY <1>0, <1>5, <2>1 DEF Views, Fetched
  <2> QED
    BY <1>0, <1>2, <1>3, <2>1, <2>2, DecidedStutters
<1>12. CASE Apply(p)
  BY <1>0, <1>2, <1>12, ApplySimulates DEF Loop!Next, Loop!FetcherStep
<1>13. CASE ApplyFails(p)
  <2>1. /\ Fetched(p) /\ trouble /\ NextFile(p, FALSE) /\ UNCHANGED <<disk, digest, moved>>
    BY <1>13 DEF ApplyFails, Heard, Fetched
  <2>2. PICK content : content = inbox[p].body
    OBVIOUS
  <2>3. Seen(p, "apply", n, clean, content)
    BY <1>0, <1>4, <1>5, <2>1, <2>2 DEF Views
  <2> QED
    BY <1>2, <1>3, <1>6, <1>7, <2>1, <2>3, LoopApplyFails DEF Loop!Next, Loop!FetcherStep
<1>14. CASE Settle(p)
  <2>1. loop[p].pc = "settle" /\ NextFile(p, clean) /\ UNCHANGED <<disk, digest, moved>>
    BY <1>5, <1>14 DEF Settle
  <2>2. Seen(p, "settle", n, clean, Unknown)
    BY <1>0, <1>4, <1>5, <2>1 DEF Views
  <2> QED
    BY <1>2, <1>3, <1>7, <2>1, <2>2, LoopSettle DEF Loop!Next, Loop!FetcherStep
<1>15. CASE EndPass(p)
  <2>1. /\ loop[p].pc = "end" /\ UNCHANGED <<disk, digest, moved>>
        /\ loop' = [loop EXCEPT ![p].ready = @ \/ loop[p].clean, ![p].pc = "sleep"]
    BY <1>15 DEF EndPass
  <2>2. Seen(p, "end", n, clean, Unknown)
    BY <1>0, <1>4, <1>5, <2>1 DEF Views
  <2>3. /\ loop'[p].pc = "sleep" /\ loop'[p].i = n /\ loop'[p].clean = clean
        /\ loop'[p].ready = (loop[p].ready \/ clean)
    BY <1>0, <1>4, <1>5, <2>1 DEF Loops
  <2>4. Seen(p, loop[p].pc, loop[p].i, loop[p].clean, Unknown)'
    BY <1>0, <2>3 DEF Views
  <2>5. Seen(p, "sleep", n, clean, Unknown)'
    BY <2>3, <2>4 DEF Seen
  <2> QED
    BY <1>2, <1>3, <2>1, <2>2, <2>3, <2>5, LoopEndPass DEF Loop!Next, Loop!FetcherStep
<1>16. CASE BeginPass(p)
  <2>1. /\ loop[p].pc = "sleep" /\ Ask(p, 1, TRUE, loop[p].ready)
        /\ moved' = [moved EXCEPT ![p] = {}] /\ UNCHANGED <<disk, digest>>
    BY <1>16 DEF BeginPass
  <2>2. Seen(p, "sleep", n, clean, Unknown)
    BY <1>0, <1>4, <1>5, <2>1 DEF Views
  <2>3. loop'[p].ready = loop[p].ready /\ Seen(p, "fetch", 1, TRUE, Unknown)'
    BY <1>0, <2>1, FirstSeen
  <2>4. moved'[p] = {}
    BY <1>0, <2>1
  <2> QED
    BY <1>2, <1>3, <2>1, <2>2, <2>3, <2>4, LoopBeginPass DEF Loop!Next, Loop!FetcherStep
<1>17. CASE Restart(p)
  <2>1. /\ disk' \in {disk, [disk EXCEPT ![p] = [f \in Name |-> Image]]}
        /\ digest' = [digest EXCEPT ![p] = [f \in Name |-> NotPushed]]
        /\ moved' = [moved EXCEPT ![p] = {}]
        /\ Ask(p, 1, TRUE, FALSE)
    BY <1>17 DEF Restart
  <2>2. loop'[p].ready = FALSE /\ Seen(p, "fetch", 1, TRUE, Unknown)'
    BY <1>0, <2>1, FirstSeen
  <2>3. disk'[p] = disk[p] \/ disk'[p] = [f \in Name |-> Image]
    BY <1>0, <2>1
  <2>4. digest'[p] = [f \in Name |-> NotPushed] /\ moved'[p] = {}
    BY <1>0, <2>1
  <2>5. Hash(p)' = [f \in Name |-> Unknown]
    BY <2>4 DEF Hash
  <2> QED
    BY <1>2, <2>2, <2>3, <2>4, <2>5, LoopRestart DEF Loop!Next, Loop!Environment
<1> QED
  BY <1>8, <1>9, <1>10, <1>11, <1>12, <1>13, <1>14, <1>15, <1>16, <1>17 DEF PodStep
\* What p has in view of its loop stays when neither its answer nor whether its
\* request is under way changes.
LEMMA StateKept ==
  ASSUME NEW p \in Pod, UNCHANGED <<login, loop[p], inbox[p], digest[p]>>,
         Underway(p)' <=> Underway(p)
  PROVE  UNCHANGED LoopState(p)
<1>1. /\ Fetched(p)' <=> Fetched(p)
      /\ Asking(p)' <=> Asking(p)
      /\ Denied(p)' <=> Denied(p)
  BY DEF Fetched, Answered, Position, Asking, Denied
<1>2. (Decided(p)' <=> Decided(p)) /\ (Refused(p)' <=> Refused(p))
  BY <1>1 DEF Decided, Refused, Lost
<1> QED
  BY <1>1, <1>2 DEF LoopState, LoopPc, LoopI, LoopClean, LoopGot

\* The request of p under way is for the file p is at.
LEMMA RequestAt ==
  ASSUME Typed, NEW p \in Pod, NEW r \in wire, r.from = p,
         NEW n \in 1..Len(Files), n = loop[p].i, NEW clean \in BOOLEAN, clean = loop[p].clean
  PROVE  /\ loop[p].pc = "asked" /\ inbox[p] = Silence /\ r = Fetch(p, n)
         /\ \A s \in wire : s.from = p => s = r
         /\ Seen(p, "fetch", n, clean, Unknown)
<1>1. PodTyped(p) /\ Views
  BY TypedViews DEF Typed, PodsTyped
<1>2. /\ loop[p].pc = "asked" /\ inbox[p] = Silence /\ r = Fetch(p, n)
      /\ \A s \in wire : s.from = p => s = r
  BY <1>1 DEF PodTyped
<1>3. Asking(p) /\ Underway(p)
  BY <1>2 DEF Asking, Underway
<1> QED
  BY <1>1, <1>2, <1>3 DEF Views

\* Once a source or the network has it, it is gone, and the pod is where it was.
LEMMA RequestGone ==
  ASSUME Typed, Next, NEW p \in Pod, NEW r \in wire, r.from = p, SourceMoves(r),
         NEW n \in 1..Len(Files), n = loop[p].i
  PROVE  /\ Views' /\ ~Underway(p)' /\ Position(p)' = Files[n]
         /\ loop'[p].pc = "asked" /\ loop'[p].i = n /\ loop'[p].clean = loop[p].clean
         /\ digest'[p] = digest[p]
         /\ NextPc(p)' = (IF n < Len(Files) THEN "fetch" ELSE "end")
         /\ NextI(p)' = (IF n < Len(Files) THEN n + 1 ELSE n)
<1>1. PodTyped(p) /\ Views'
  BY ViewsAfter DEF Typed, PodsTyped
<1>2. loop[p].pc = "asked" /\ \A s \in wire : s.from = p => s = r
  BY <1>1 DEF PodTyped
<1>3. UNCHANGED <<loop, digest, login>> /\ wire' = wire \ {r}
  BY DEF SourceMoves
<1> QED
  BY <1>1, <1>2, <1>3 DEF Underway, Position, NextPc, NextI

\* Lost or refused, it is a fetch that failed.
LEMMA RequestFails ==
  ASSUME Typed, Next, NEW p \in Pod, NEW r \in wire, r.from = p, SourceMoves(r),
         NEW n \in 1..Len(Files), n = loop[p].i,
         inbox'[p] = Silence \/ inbox'[p].status \notin {200, 404}
  PROVE  \/ n < Len(Files) /\ Seen(p, "fetch", n + 1, FALSE, Unknown)'
         \/ ~(n < Len(Files)) /\ Seen(p, "end", n, FALSE, Unknown)'
<1>1. /\ Views' /\ ~Underway(p)' /\ loop'[p].pc = "asked"
      /\ NextPc(p)' = (IF n < Len(Files) THEN "fetch" ELSE "end")
      /\ NextI(p)' = (IF n < Len(Files) THEN n + 1 ELSE n)
  BY RequestGone
<1>2. Lost(p)' \/ Denied(p)'
  BY <1>1 DEF Lost, Asking, Denied
<1>3. Seen(p, NextPc(p), NextI(p), FALSE, Unknown)'
  BY <1>1, <1>2 DEF Views
<1> QED
  BY <1>1, <1>3 DEF Seen

\* Answered with nothing, or with what the pod has, it is done with.
LEMMA RequestSettled ==
  ASSUME Typed, Next, NEW p \in Pod, NEW r \in wire, r.from = p, SourceMoves(r),
         NEW n \in 1..Len(Files), n = loop[p].i, NEW clean \in BOOLEAN, clean = loop[p].clean,
         inbox'[p] # Silence,
         \/ inbox'[p].status = 404
         \/ inbox'[p].status = 200 /\ digest[p][Files[n]] = inbox'[p].body
  PROVE  \/ n < Len(Files) /\ Seen(p, "fetch", n + 1, clean, Unknown)'
         \/ ~(n < Len(Files)) /\ Seen(p, "end", n, clean, Unknown)'
<1>1. /\ Views' /\ loop'[p].pc = "asked" /\ Position(p)' = Files[n]
      /\ digest'[p] = digest[p] /\ loop'[p].clean = clean
      /\ NextPc(p)' = (IF n < Len(Files) THEN "fetch" ELSE "end")
      /\ NextI(p)' = (IF n < Len(Files) THEN n + 1 ELSE n)
  BY RequestGone
<1>2. Answered(p, 404)' \/ (Answered(p, 200)' /\ ~Fetched(p)')
  BY <1>1 DEF Answered, Fetched
<1>3. Seen(p, NextPc(p), NextI(p), loop[p].clean, Unknown)'
  BY <1>1, <1>2 DEF Views
<1> QED
  BY <1>1, <1>3 DEF Seen

\* Answered with something else, that is to be applied.
LEMMA RequestFetched ==
  ASSUME Typed, Next, NEW p \in Pod, NEW r \in wire, r.from = p, SourceMoves(r),
         NEW n \in 1..Len(Files), n = loop[p].i, NEW clean \in BOOLEAN, clean = loop[p].clean,
         NEW content, inbox'[p] # Silence, inbox'[p].status = 200,
         inbox'[p].body = content, digest[p][Files[n]] # content
  PROVE  Seen(p, "apply", n, clean, content)'
<1>1. /\ Views' /\ loop'[p].pc = "asked" /\ Position(p)' = Files[n]
      /\ digest'[p] = digest[p] /\ loop'[p].i = n /\ loop'[p].clean = clean
  BY RequestGone
<1>2. Fetched(p)'
  BY <1>1 DEF Answered, Fetched
<1>3. Seen(p, "apply", loop[p].i, loop[p].clean, inbox[p].body)'
  BY <1>1, <1>2 DEF Views
<1> QED
  BY <1>1, <1>3 DEF Seen

\* A GET is answered, or it or its answer is lost.
LEMMA ServedSimulates ==
  ASSUME Typed, Next, NEW p \in Pod, NEW r \in wire, r.from = p,
         Serve(r) \/ Lose(r), UNCHANGED <<settingsVars, uploads, pods>>
  PROVE  Loop(p)!Next
<1>0. /\ SourceMoves(r) /\ p \in Client /\ p # Nobody /\ login \in [Pod -> Login]
      /\ loop[p].i \in 1..Len(Files) /\ loop[p].clean \in BOOLEAN
      /\ digest[p] \in [Name -> Version \cup {NotPushed}] /\ SourcesTyped
  BY SourceStepMoves, PodTypes, Clients DEF Typed, PodsTyped
<1>1. PICK n \in 1..Len(Files) : n = loop[p].i
  BY <1>0
<1>2. PICK clean \in BOOLEAN : clean = loop[p].clean
  BY <1>0
<1>3. r = Fetch(p, n) /\ Seen(p, "fetch", n, clean, Unknown) /\ inbox[p] = Silence
  BY <1>1, <1>2, RequestAt
<1>4. /\ ~Posts(r) /\ r.place = login[p].place /\ r.token = login[p].token
      /\ r.file = Files[n] /\ Files[n] \in Name
  BY <1>0, <1>3, FetchType, FileAt
<1>5. UNCHANGED <<source, trouble, login, disk, digest, loop, moved>>
  BY <1>0 DEF SourceMoves, Serve, Lose, Unauthorized, Get, GetFails, PostFails, pods
<1>6. UNCHANGED <<LoopEnv(p), LoopDisk(p), loop[p].ready, moved[p]>>
  BY <1>5 DEF LoopEnv, LoopDisk, Faulty, Hash, CheckAuth, Fetch, Request
<1>7. CheckAuth(r) <=> CheckAuth(Fetch(p, 1))
  BY <1>0, <1>4, FirstFile, FetchType DEF CheckAuth
<1>8. trouble \/ ~CheckAuth(r) => Files[n] \in Faulty(p)
  BY <1>4, <1>7 DEF Faulty
<1>9. ASSUME inbox'[p] = Silence \/ inbox'[p].status \notin {200, 404},
             trouble \/ ~CheckAuth(r)
      PROVE  Loop(p)!Next
  <2>1. \/ n < Len(Files) /\ Seen(p, "fetch", n + 1, FALSE, Unknown)'
        \/ ~(n < Len(Files)) /\ Seen(p, "end", n, FALSE, Unknown)'
    BY <1>0, <1>1, <1>9, RequestFails
  <2> QED
    BY <1>3, <1>6, <1>8, <1>9, <2>1, LoopFetchFails DEF Loop!Next, Loop!FetcherStep
<1>10. ASSUME inbox'[p] # Silence, inbox'[p].status = 404,
              trouble \/ source[login[p].place][Files[n]] = NotPushed
       PROVE  Loop(p)!Next
  <2>1. \/ n < Len(Files) /\ Seen(p, "fetch", n + 1, clean, Unknown)'
        \/ ~(n < Len(Files)) /\ Seen(p, "end", n, clean, Unknown)'
    BY <1>0, <1>1, <1>2, <1>10, RequestSettled
  <2> QED
    BY <1>3, <1>6, <1>8, <1>10, <2>1, LoopFetchFindsNothing DEF Loop!Next, Loop!FetcherStep
<1>11. ASSUME NEW content \in Version, content = source[login[p].place][Files[n]],
              inbox'[p] # Silence, inbox'[p].status = 200, inbox'[p].body = content
       PROVE  Loop(p)!Next
  <2>1. content # NotPushed /\ content # Unknown
    BY Unmistakable
  <2>2. CASE digest[p][Files[n]] = content
    <3>1. \/ n < Len(Files) /\ Seen(p, "fetch", n + 1, clean, Unknown)'
          \/ ~(n < Len(Files)) /\ Seen(p, "end", n, clean, Unknown)'
      BY <1>0, <1>1, <1>2, <1>11, <2>2, RequestSettled
    <3>2. Hash(p)[Files[n]] = content
      BY <1>4, <2>1, <2>2 DEF Hash
    <3> QED
      BY <1>3, <1>6, <1>11, <2>1, <3>1, <3>2, LoopFetchUnchanged DEF Loop!Next, Loop!FetcherStep
  <2>3. CASE digest[p][Files[n]] # content
    <3>1. Seen(p, "apply", n, clean, content)'
      BY <1>0, <1>1, <1>2, <1>11, <2>3, RequestFetched
    <3>2. Hash(p)[Files[n]] # content
      BY <1>4, <2>1, <2>3 DEF Hash
    <3> QED
      BY <1>3, <1>6, <1>11, <2>1, <3>1, <3>2, LoopFetchChanged DEF Loop!Next, Loop!FetcherStep
  <2> QED
    BY <2>2, <2>3
<1>12. ASSUME NEW status \in {200, 400, 401, 404, 500}, NEW body \in Version \cup {NotPushed},
              Reply(r, status, body)
       PROVE  \/ inbox'[p] = Silence /\ trouble
              \/ inbox'[p] # Silence /\ inbox'[p].status = status /\ inbox'[p].body = body
  <2>1. \/ inbox'[p] = [status |-> status, body |-> body]
        \/ trouble /\ inbox'[p] = inbox[p]
    BY <1>0, <1>12, ReplyReaches
  <2>2. CASE inbox'[p] = [status |-> status, body |-> body]
    <3>1. inbox'[p] # Silence
      <4>1. inbox'[p] \in Answer
        BY <1>12, <2>2 DEF Answer
      <4> QED
        BY <4>1, Unmistakable
    <3> QED
      BY <2>2, <3>1
  <2> QED
    BY <1>3, <2>1, <2>2
<1>13. CASE Lose(r)
  <2>1. trouble /\ inbox'[p] = Silence
    BY <1>0, <1>3, <1>13 DEF Lose
  <2> QED
    BY <1>9, <2>1
<1>14. CASE Unauthorized(r)
  <2>1. Reply(r, 401, NotPushed) /\ ~CheckAuth(r)
    BY <1>14 DEF Unauthorized
  <2>2. inbox'[p] = Silence \/ inbox'[p].status = 401
    BY <1>12, <2>1
  <2> QED
    BY <1>9, <2>1, <2>2
<1>15. CASE Get(r) /\ source[r.place][r.file] = NotPushed
  <2>1. Reply(r, 404, NotPushed)
    BY <1>15 DEF Get
  <2>2. \/ inbox'[p] = Silence /\ trouble
        \/ inbox'[p] # Silence /\ inbox'[p].status = 404
    BY <1>12, <2>1
  <2> QED
    BY <1>4, <1>9, <1>10, <1>15, <2>2
<1>16. CASE Get(r) /\ source[r.place][r.file] # NotPushed
  <2>1. PICK content \in Version : content = source[login[p].place][Files[n]]
    BY <1>0, <1>4, <1>16, CallTypes
  <2>2. Reply(r, 200, content)
    BY <1>4, <1>16, <2>1 DEF Get
  <2>3. \/ inbox'[p] = Silence /\ trouble
        \/ inbox'[p] # Silence /\ inbox'[p].status = 200 /\ inbox'[p].body = content
    BY <1>12, <2>2
  <2> QED
    BY <1>9, <1>11, <2>1, <2>3
<1>17. CASE GetFails(r)
  <2>1. trouble /\ Reply(r, IF r.place \in Server THEN 404 ELSE 500, NotPushed)
    BY <1>17 DEF GetFails
  <2>2. \/ inbox'[p] = Silence
        \/ inbox'[p] # Silence /\ inbox'[p].status = (IF r.place \in Server THEN 404 ELSE 500)
    BY <1>12, <2>1
  <2>3. CASE inbox'[p] # Silence /\ inbox'[p].status = 404
    BY <1>10, <2>1, <2>3
  <2>4. CASE inbox'[p] = Silence \/ inbox'[p].status = 500
    BY <1>9, <2>1, <2>4
  <2> QED
    BY <2>2, <2>3, <2>4
<1> QED
  BY <1>4, <1>13, <1>14, <1>15, <1>16, <1>17 DEF Serve, PostFails

\* An upload that is stored moves a file of Fetcher's source, for the pods that poll
\* the place; to the others nothing happens.
LEMMA SourceSimulates ==
  ASSUME Typed, Next, NEW p \in Pod, NEW r \in wire,
         \/ Store(r)
         \/ (Serve(r) \/ Lose(r)) /\ UNCHANGED <<settingsVars, uploads, pods>>
  PROVE  UNCHANGED Loop(p)!vars \/ Loop(p)!Next
<1>0. /\ SourceMoves(r) /\ p \in Client /\ SourcesTyped /\ PodTyped(p)
      /\ login[p].place \in Place /\ login \in [Pod -> Login] /\ loop[p].i \in 1..Len(Files)
      /\ source \in [Place -> [Name -> Version \cup {NotPushed}]]
      /\ moved \in [Pod -> SUBSET Name]
      /\ r.place \in Place /\ r.file \in Name /\ (Posts(r) => r.content \in Version)
  BY SourceStepMoves, PodTypes, Clients, CallTypes DEF Typed, PodsTyped, SourcesTyped
<1>1. CASE r.from = p /\ (Serve(r) \/ Lose(r)) /\ UNCHANGED <<settingsVars, uploads, pods>>
  BY <1>1, ServedSimulates
<1>2. Store(r) => r.from # p
  BY <1>0, FetchType DEF PodTyped, Store, Post
<1>3. CASE r.from # p
  <2>1. /\ UNCHANGED <<trouble, login, loop, digest, disk>> /\ inbox'[p] = inbox[p]
        /\ wire' = wire \ {r}
    BY <1>0, <1>3 DEF SourceMoves
  <2>2. Underway(p)' <=> Underway(p)
    BY <1>3, <2>1 DEF Underway
  <2>3. UNCHANGED <<LoopState(p), Faulty(p), LoopDisk(p), loop[p].ready>>
    BY <2>1, <2>2, StateKept DEF Faulty, CheckAuth, Fetch, Request, LoopDisk, Hash
  <2>4. CASE Store(r)
    <3>1. /\ source' = [source EXCEPT ![r.place][r.file] = r.content] /\ Posts(r)
          /\ moved' = [q \in Pod |-> IF login[q].place = r.place THEN moved[q] \cup {r.file}
                                                                ELSE moved[q]]
      BY <2>4 DEF Store, Post
    <3>2. CASE login[p].place = r.place
      <4>1. source[login[p].place]' = [source[login[p].place] EXCEPT ![r.file] = r.content]
        BY <1>0, <2>1, <3>1, <3>2
      <4>2. moved'[p] = moved[p] \cup {r.file}
        BY <3>1, <3>2
      <4> QED
        BY <1>0, <2>3, <3>1, <4>1, <4>2, LoopPush DEF Loop!Next
    <3>3. CASE login[p].place # r.place
      <4>1. UNCHANGED <<source[login[p].place], moved[p]>>
        BY <1>0, <2>1, <3>1, <3>3
      <4> QED
        BY <2>3, <4>1, LoopStutters DEF LoopEnv
    <3> QED
      BY <3>2, <3>3
  <2>5. CASE (Serve(r) \/ Lose(r)) /\ UNCHANGED <<settingsVars, uploads, pods>>
    <3>1. UNCHANGED <<source, moved, login>>
      BY <2>5 DEF Serve, Lose, Unauthorized, Get, GetFails, PostFails, pods
    <3> QED
      BY <2>3, <3>1, LoopStutters DEF LoopEnv
  <2> QED
    BY <2>4, <2>5
<1> QED
  BY <1>1, <1>2, <1>3

\* Operators and other pods do nothing that p sees.
LEMMA OthersSimulate ==
  ASSUME Typed, Next, NEW p \in Pod,
         \/ \E o \in Operator : OperatorMoves(o)
         \/ \E q \in Pod \ {p} : PodMoves(q)
  PROVE  UNCHANGED Loop(p)!vars
<1>0. inbox \in [Client -> Answer \cup {Silence}] /\ p \in Client /\ login \in [Pod -> Login]
  BY Clients DEF Typed, SourcesTyped, PodsTyped
<1>1. /\ UNCHANGED <<source, trouble, login, loop[p], disk[p], digest[p], moved[p], inbox[p]>>
      /\ Underway(p)' <=> Underway(p)
  <2>1. ASSUME NEW o \in Operator, OperatorMoves(o)
        PROVE  /\ UNCHANGED <<source, trouble, login, loop[p], disk[p], digest[p], moved[p],
                              inbox[p]>>
               /\ Underway(p)' <=> Underway(p)
    <3>1. UNCHANGED <<source, trouble, login, loop, disk, digest, moved>>
      BY <2>1 DEF OperatorMoves, pods
    <3>2. inbox'[p] = inbox[p] /\ p # o /\ p # Nobody
      BY <1>0, <2>1, Clients DEF OperatorMoves
    <3>3. \A r \in wire : r.from = p => r \in wire'
      BY <2>1, <3>2 DEF OperatorMoves
    <3>4. ASSUME NEW r \in wire', r.from = p PROVE r \in wire
      <4>1. ASSUME NEW w \in wire, w.from = o, r = [w EXCEPT !.from = Nobody] PROVE FALSE
        BY <2>1, <3>2, <3>4, <4>1, OrphanType DEF Typed
      <4>2. CASE at'[o] = "push" /\ r = Upload(o, push'[o], push'[o].n)
        BY <3>2, <3>4, <4>2 DEF Upload, Request
      <4> QED
        BY <2>1, <4>1, <4>2 DEF OperatorMoves
    <3> QED
      BY <3>1, <3>2, <3>3, <3>4 DEF Underway
  <2>2. ASSUME NEW q \in Pod \ {p}, PodMoves(q)
        PROVE  /\ UNCHANGED <<source, trouble, login, loop[p], disk[p], digest[p], moved[p],
                              inbox[p]>>
               /\ Underway(p)' <=> Underway(p)
    <3>1. /\ UNCHANGED <<source, trouble, login, loop[p], disk[p], digest[p], moved[p]>>
          /\ inbox'[p] = inbox[p]
      BY <1>0, <2>2 DEF PodMoves
    <3>2. \A r : r.from = p => (r \in wire' <=> r \in wire)
      BY <2>2 DEF PodMoves, Sends, Fetch, Request
    <3> QED
      BY <3>1, <3>2 DEF Underway
  <2> QED
    BY <2>1, <2>2
<1>2. UNCHANGED LoopState(p)
  BY <1>1, StateKept
<1>3. UNCHANGED <<LoopEnv(p), LoopDisk(p)>>
  BY <1>1 DEF LoopEnv, Faulty, CheckAuth, Fetch, Request, LoopDisk, Hash
<1> QED
  BY <1>1, <1>2, <1>3, LoopStutters

LEMMA StepSimulates ==
  ASSUME Typed, [Next]_vars, NEW p \in Pod
  PROVE  UNCHANGED Loop(p)!vars \/ Loop(p)!Next
<1>1. CASE Next /\ \E o \in Operator : OperatorStep(o)
  BY <1>1, OperatorStepMoves, OthersSimulate
<1>2. ASSUME Next, NEW q \in Pod, PodStep(q) \/ Restart(q)
      PROVE  UNCHANGED Loop(p)!vars \/ Loop(p)!Next
  <2>1. CASE q = p
    BY <1>2, <2>1, PodSimulates
  <2>2. CASE q # p
    BY <1>2, <2>2, PodStepMoves, OthersSimulate
  <2> QED
    BY <2>1, <2>2
<1>3. CASE Next /\ SourceStep
  BY <1>3, SourceSimulates DEF SourceStep
<1>4. CASE Next /\ Network
  <2>1. CASE Trouble
    <3>1. UNCHANGED <<source, wire, inbox, login, disk, digest, loop, moved>>
      BY <1>4, <2>1 DEF Network, Trouble, pods
    <3>2. UNCHANGED <<LoopState(p), source[login[p].place], LoopDisk(p), loop[p].ready, moved[p]>>
      BY <3>1, StateKept DEF Underway, LoopDisk, Hash
    <3> QED
      BY <3>2, LoopTrouble DEF Loop!Next, Loop!Environment
  <2> QED
    BY <1>4, <2>1, SourceSimulates DEF Network
<1>5. CASE UNCHANGED vars
  <2>1. UNCHANGED <<source, wire, inbox, trouble, login, disk, digest, loop, moved>>
    BY <1>5 DEF vars, sourceVars, pods
  <2>2. UNCHANGED <<LoopState(p), LoopEnv(p), LoopDisk(p), loop[p].ready, moved[p]>>
    BY <2>1, StateKept
       DEF Underway, LoopEnv, Faulty, CheckAuth, Fetch, Request, LoopDisk, Hash
  <2> QED
    BY <2>2, LoopStutters
<1> QED
  BY <1>1, <1>2, <1>3, <1>4, <1>5 DEF Next

LEMMA InitSimulates ==
  ASSUME Init, NEW p \in Pod
  PROVE  Loop(p)!Init
<1>0. /\ Typed /\ Views /\ p \in Client
  BY TypedInit, TypedViews, Clients
<1>1. /\ loop[p].pc = "asked" /\ loop[p].i = 1 /\ loop[p].clean = TRUE /\ loop[p].ready = FALSE
      /\ inbox[p] = Silence /\ moved[p] = {} /\ Fetch(p, 1) \in wire
      /\ disk[p] = [f \in Name |-> Image] /\ digest[p] = [f \in Name |-> NotPushed]
  BY <1>0 DEF Init, SourceInit
<1>2. Asking(p) /\ Underway(p)
  BY <1>1 DEF Asking, Underway, Fetch, Request
<1>3. Seen(p, "fetch", 1, TRUE, Unknown)
  BY <1>0, <1>1, <1>2 DEF Views
<1>4. Loop(p)!File = Name
  BY DistributionAssumption DEF Loop!File
<1>5. source[login[p].place] \in [Name -> Version \cup {Image} \cup {NotPushed}]
  <2>1. login[p].place \in Place /\ source \in [Place -> [Name -> Version \cup {NotPushed}]]
    BY <1>0, PodTypes DEF Typed, SourcesTyped
  <2> QED
    BY <2>1
<1>6. Hash(p) = [f \in Name |-> Unknown] /\ Faulty(p) \subseteq Name
  BY <1>1 DEF Hash, Faulty
<1> QED
  BY <1>1, <1>3, <1>4, <1>5, <1>6
     DEF Seen, LoopPc, LoopI, LoopClean, LoopGot, Hash, Faulty, Loop!Init

\* Requests and answers that are lost, late or never decided are, to each pod, fetches
\* that fail: with a network and a source between them, operators and pods still do
\* what Fetcher allows, step by step.
THEOREM LoopsImplementFetcher == Spec => ImplementsFetcher
<1>1. Init => \A p \in Pod : Loop(p)!Init
  BY InitSimulates
<1>2. Typed /\ [Next]_vars => \A p \in Pod : UNCHANGED Loop(p)!vars \/ Loop(p)!Next
  BY StepSimulates
<1> QED
  BY <1>1, <1>2, AlwaysTyped, PTL DEF Spec, ImplementsFetcher
=============================================================================
