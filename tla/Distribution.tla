---------------------------- MODULE Distribution ----------------------------
(***************************************************************************)
(* From gatewayctl to the gateways' disks, request by request: operators   *)
(* whose settings say where a push goes (Settings), the sources and the    *)
(* network (ConfigServer), and pods whose fetcher polls a source of one    *)
(* kind.  Fetcher has a fetch as one step; here its request and its answer *)
(* travel, are lost or come too late, and the loop still implements it.    *)
(*                                                                         *)
(* A push uploads the files rendered when it began: its name stands for    *)
(* the content.  A fetch that has its answer goes on with what it says.    *)
(***************************************************************************)
EXTENDS Settings, ConfigServer, Sequences, FiniteSets

CONSTANTS
  Pod,
  Image, \* the files baked into the image
  Login, \* a place to poll and a token to show there
  Files  \* the names of the files, in the order they are handled

\* A push, by its operator and the commands left to it when it began.
Version == Operator \X (1..MaxCommands)

ASSUME DistributionAssumption ==
  /\ Client = Operator \cup Pod /\ Operator \cap Pod = {} /\ Nobody \notin Client
  /\ Name = {Files[n] : n \in 1..Len(Files)} /\ Len(Files) \in Nat \ {0}
  /\ \A m, n \in 1..Len(Files) : Files[m] = Files[n] => m = n
  /\ ApiToken \in Value \ {Unset}
  /\ Login \subseteq [place : Place, token : Value]
  /\ {NotPushed, Image, Unknown} \cap Version = {}
  /\ NotPushed # Image /\ Unknown # Image
  /\ Silence \notin [status : Nat, body : Version \cup {NotPushed}]

VARIABLES
  push,    \* what each operator uploads, where to, and the file it is at
  rivals,  \* history: the pushes under way at some time since that one began
  login,   \* the place each pod polls and the token it has
  disk,    \* what a pod has applied; Image is the image's
  digest,  \* and recorded since its fetcher started
  loop,    \* the fetcher's place in the loop, position, cleanPass and synced
  moved    \* history: the files stored at a pod's source since its pass began

pods == <<login, disk, digest, loop, moved>>
uploads == <<push, rivals>>
vars == <<settingsVars, sourceVars, uploads, pods>>

NoPush == [version |-> Image, place |-> Nobody, token |-> Unset, n |-> 1]

\* The GET of the ith file, by the fetcher of pod p.
Fetch(p, i) == Request(p, login[p].place, login[p].token, Files[i], NotPushed)

Init ==
  /\ SettingsInit /\ SourceInit
  /\ push = [o \in Operator |-> NoPush]
  /\ rivals = [o \in Operator |-> {}]
  /\ login \in [Pod -> Login]
  /\ disk = [p \in Pod |-> [f \in Name |-> Image]]
  /\ digest = [p \in Pod |-> [f \in Name |-> NotPushed]]
  /\ loop = [p \in Pod |-> [pc |-> "asked", i |-> 1, clean |-> TRUE, ready |-> FALSE]]
  /\ wire = {Fetch(p, 1) : p \in Pod}
  /\ moved = [p \in Pod |-> {}]
-----------------------------------------------------------------------------
(* autoPushIfConfigured, push-http and push-s3                             *)

Pushing == {o \in Operator : at[o] = "push"}

\* The upload of the nth file of a push.
Upload(o, job, n) == Request(o, job.place, job.token, Files[n], job.version)

\* Where a push goes, with the settings as they are when the command starts; the
\* mode of push-http and push-s3 is their own.
Destination(o, mode) ==
  [version |-> <<o, left[o]>>, n |-> 1,
   place |-> IF mode = "http" THEN Resolve(o, "http.server-url")
             ELSE <<Resolve(o, "s3.bucket"), Resolve(o, "s3.prefix")>>,
   token |-> IF mode = "http" THEN Resolve(o, "http.api-token") ELSE Unset]

\* No mode is no push, and no bucket or nobody at that URL an error.
StartPush(o, mode) ==
  LET job == Destination(o, mode) IN
  /\ mode \in {"http", "s3"} /\ job.place \in Place
  /\ Begin(o, "push")
  /\ push' = [push EXCEPT ![o] = job]
  /\ wire' = wire \cup {Upload(o, job, 1)}
  /\ rivals' = [q \in Operator |->
                  IF q = o THEN {r.content : r \in {w \in wire : Posts(w)}}
                                  \cup {push[b].version : b \in Pushing}
                  ELSE IF q \in Pushing THEN rivals[q] \cup {job.version} ELSE {}]
  /\ UNCHANGED <<app, expected, source, inbox, trouble, pods>>

\* A plausible bug: only a server error is an error.
SuccessfulUnlessServerError(answer) == answer.status < 500

Successful(answer) == answer.status < 300

\* The push of o is over, however it ended.
EndPush(o) ==
  /\ push' = [push EXCEPT ![o] = NoPush]
  /\ rivals' = [rivals EXCEPT ![o] = {}]

\* A file is answered for: the next one, until the last or the first that fails.
Receive(o) ==
  /\ at[o] = "push" /\ inbox[o] # Silence
  /\ inbox' = [inbox EXCEPT ![o] = Silence]
  /\ IF Successful(inbox[o]) /\ push[o].n < Len(Files)
       THEN /\ push' = [push EXCEPT ![o].n = @ + 1]
            /\ wire' = wire \cup {Upload(o, push[o], push[o].n + 1)}
            /\ UNCHANGED <<at, rivals>>
       ELSE /\ at' = [at EXCEPT ![o] = "idle"]
            /\ EndPush(o) /\ UNCHANGED wire
  /\ UNCHANGED <<settings, app, expected, left, source, trouble, pods>>

\* A plausible bug: the request a command gave up keeps its client.
StopsStillListening(o) ==
  /\ Quits(o) /\ EndPush(o)
  /\ UNCHANGED <<sourceVars, pods>>

\* A command ends in the middle: the client's timeout, any other error, a signal.
\* What it sent is on its own.
Stops(o) ==
  /\ Quits(o) /\ EndPush(o)
  /\ wire' = {[r EXCEPT !.from = IF @ = o THEN Nobody ELSE @] : r \in wire}
  /\ inbox' = [inbox EXCEPT ![o] = Silence]
  /\ UNCHANGED <<source, trouble, pods>>

OperatorStep(o) ==
  \/ SetStep(o) /\ UNCHANGED <<sourceVars, uploads, pods>>
  \/ \E mode \in {Resolve(o, "mode"), "http", "s3"} : StartPush(o, mode)
  \/ Receive(o) \/ Stops(o)
-----------------------------------------------------------------------------
(* The fetcher of pod p                                                    *)

Position(p) == Files[loop[p].i]

\* The fetch of the ith file goes out.
Ask(p, i, clean, ready) ==
  /\ loop' = [loop EXCEPT ![p] = [pc |-> "asked", i |-> i, clean |-> clean, ready |-> ready]]
  /\ wire' = {r \in wire : r.from # p} \cup {Fetch(p, i)}

\* The next file of the pass, which has gone well so far if clean says so.
NextFile(p, clean) ==
  IF loop[p].i < Len(Files) THEN Ask(p, loop[p].i + 1, clean, loop[p].ready)
    ELSE /\ loop' = [loop EXCEPT ![p].pc = "end", ![p].clean = clean]
         /\ wire' = {r \in wire : r.from # p}

\* p is waiting, and has no answer.
Asking(p) == loop[p].pc = "asked" /\ inbox[p] = Silence
Underway(p) == \E r \in wire : r.from = p

\* A plausible bug: an http.Client without a timeout.
FetchFailsUntimed(p) ==
  /\ Asking(p)
  /\ trouble
  /\ NextFile(p, FALSE)
  /\ UNCHANGED <<settingsVars, source, inbox, trouble, uploads, login, disk, digest, moved>>

\* The call returns an error.  The http client's does 5 s after a request or an
\* answer was lost, at the latest; GetObject has no deadline.
FetchFails(p) ==
  /\ Asking(p)
  /\ trouble \/ (login[p].place \in Server /\ ~Underway(p))
  /\ NextFile(p, FALSE)
  /\ UNCHANGED <<settingsVars, source, inbox, trouble, uploads, login, disk, digest, moved>>

\* p has an answer, and of which status.
Answered(p, status) == loop[p].pc = "asked" /\ inbox[p] # Silence /\ inbox[p].status = status
Denied(p) == loop[p].pc = "asked" /\ inbox[p] # Silence /\ inbox[p].status \notin {200, 404}

Heard(p) ==
  /\ inbox' = [inbox EXCEPT ![p] = Silence]
  /\ UNCHANGED <<settingsVars, source, trouble, uploads, login, moved>>

FetchFindsNothing(p) ==
  /\ Answered(p, 404) /\ Heard(p)
  /\ NextFile(p, loop[p].clean)
  /\ UNCHANGED <<disk, digest>>

FetchRefused(p) ==
  /\ Denied(p) /\ Heard(p)
  /\ NextFile(p, FALSE)
  /\ UNCHANGED <<disk, digest>>

FetchUnchanged(p) ==
  /\ Answered(p, 200) /\ Heard(p)
  /\ digest[p][Position(p)] = inbox[p].body
  /\ NextFile(p, loop[p].clean)
  /\ UNCHANGED <<disk, digest>>

Apply(p) ==
  /\ Answered(p, 200) /\ Heard(p)
  /\ digest[p][Position(p)] # inbox[p].body
  /\ disk' = [disk EXCEPT ![p][Position(p)] = inbox[p].body]
  /\ digest' = [digest EXCEPT ![p][Position(p)] = inbox[p].body]
  /\ IF loop[p].i < Len(Files)
       THEN loop' = [loop EXCEPT ![p].pc = "settle"] /\ UNCHANGED wire
       ELSE NextFile(p, loop[p].clean)

\* A plausible bug: the digest is recorded before the write's error is seen.
ApplyFailsRecorded(p) ==
  /\ Answered(p, 200) /\ Heard(p) /\ trouble
  /\ digest[p][Position(p)] # inbox[p].body
  /\ digest' = [digest EXCEPT ![p][Position(p)] = inbox[p].body]
  /\ NextFile(p, FALSE)
  /\ UNCHANGED disk

ApplyFails(p) ==
  /\ Answered(p, 200) /\ Heard(p) /\ trouble
  /\ digest[p][Position(p)] # inbox[p].body
  /\ NextFile(p, FALSE)
  /\ UNCHANGED <<disk, digest>>

\* The pause after a write, the end of a pass and the sleep after it.
Settle(p) ==
  /\ loop[p].pc = "settle"
  /\ NextFile(p, loop[p].clean)
  /\ UNCHANGED <<settingsVars, source, inbox, trouble, uploads, login, disk, digest, moved>>

EndPass(p) ==
  /\ loop[p].pc = "end"
  /\ loop' = [loop EXCEPT ![p].ready = @ \/ loop[p].clean, ![p].pc = "sleep"]
  /\ UNCHANGED <<settingsVars, sourceVars, uploads, login, disk, digest, moved>>

BeginPass(p) ==
  /\ loop[p].pc = "sleep"
  /\ Ask(p, 1, TRUE, loop[p].ready)
  /\ moved' = [moved EXCEPT ![p] = {}]
  /\ UNCHANGED <<settingsVars, source, inbox, trouble, uploads, login, disk, digest>>

PodStep(p) ==
  \/ FetchFails(p) \/ FetchFindsNothing(p) \/ FetchRefused(p)
  \/ FetchUnchanged(p) \/ Apply(p) \/ ApplyFails(p)
  \/ Settle(p) \/ EndPass(p) \/ BeginPass(p)

\* The fetcher is restarted over its disk, or in a new container.
Restart(p) ==
  /\ disk' \in {disk, [disk EXCEPT ![p] = [f \in Name |-> Image]]}
  /\ digest' = [digest EXCEPT ![p] = [f \in Name |-> NotPushed]]
  /\ moved' = [moved EXCEPT ![p] = {}]
  /\ Ask(p, 1, TRUE, FALSE)
  /\ inbox' = [inbox EXCEPT ![p] = Silence]
  /\ UNCHANGED <<settingsVars, source, trouble, uploads, login>>
-----------------------------------------------------------------------------
Store(r) ==
  /\ Post(r)
  /\ moved' = [p \in Pod |-> IF login[p].place = r.place THEN moved[p] \cup {r.file} ELSE moved[p]]
  /\ UNCHANGED <<settingsVars, uploads, login, disk, digest, loop>>

SourceStep ==
  \E r \in wire : Store(r) \/ (Serve(r) /\ UNCHANGED <<settingsVars, uploads, pods>>)

Network ==
  /\ Trouble \/ \E r \in wire : Lose(r)
  /\ UNCHANGED <<settingsVars, uploads, pods>>

Next ==
  \/ \E o \in Operator : OperatorStep(o)
  \/ \E p \in Pod : PodStep(p) \/ Restart(p)
  \/ SourceStep \/ Network

Spec == Init /\ [][Next]_vars

\* The sources handle the requests that reach them, and the pods go on unless
\* they wait for an answer.  Nothing is assumed of operators and the network.
Fairness == WF_vars(SourceStep) /\ \A p \in Pod : WF_vars(PodStep(p))

FairSpec == Spec /\ Fairness
-----------------------------------------------------------------------------
\* Type invariant.
TypeOK ==
  /\ settings \in [Key -> Value] /\ app \in [Operator -> [Key -> Value]]
  /\ at \in [Operator -> {"idle", "changed", "truncated", "push"}]
  /\ \A o \in Operator : push[o] # NoPush <=> o \in Pushing
  /\ \A s \in Place, f \in Name : source[s][f] \in Version \cup {NotPushed}
  /\ \A r \in wire : Posts(r) \/ r.from \in Pod
  /\ \A c \in Client : Cardinality({r \in wire : r.from = c}) <= 1
  /\ \A c \in Client : inbox[c] # Silence => ~\E r \in wire : r.from = c
  /\ \A p \in Pod : loop[p] \in
       [pc : {"asked", "settle", "end", "sleep"}, i : 1..Len(Files),
        clean : BOOLEAN, ready : BOOLEAN]

\* When a push reports success, every file at its destination is its own or that
\* of a push that was under way meanwhile: nothing older stays or comes back,
\* but an upload abandoned earlier may still land ("Uploaded %s -> %s",
\* push_http.go:56).
SuccessPrevails ==
  [][\A o \in Operator : Receive(o) /\ Successful(inbox[o]) /\ push[o].n = Len(Files) =>
       \A f \in Name : source[push[o].place][f] \in {push[o].version} \cup rivals[o]]_vars

\* A pod whose token is not the server's never becomes ready and never applies
\* anything, whatever else happens: configApiToken "must match the config
\* server's token" (docs/index.html:685).
MismatchedNeverReady ==
  \A p \in Pod : login[p].place \in Server /\ login[p].token # ApiToken =>
    ~loop[p].ready /\ \A f \in Name : disk[p][f] = Image

\* What Fetcher has for a pod.  A fetch is decided when the source answers it or
\* its request or answer is lost; what the pod does next is then a stutter.
Lost(p) == Asking(p) /\ ~Underway(p)
Fetched(p) == Answered(p, 200) /\ digest[p][Position(p)] # inbox[p].body
Decided(p) == loop[p].pc = "asked" /\ ~Underway(p) /\ ~Fetched(p)
Refused(p) == Lost(p) \/ Denied(p)

Loop(p) == INSTANCE Fetcher WITH
  Content <- Version \cup {Image}, Seed <- Image, None <- Unknown, ReadErrorIsNotFound <- TRUE,
  remote <- source[login[p].place],
  faulty <- IF trouble \/ ~CheckAuth(Fetch(p, 1))
              THEN Name ELSE {},
  disk <- disk[p],
  lastHash <- [f \in Name |-> IF digest[p][f] = NotPushed THEN Unknown ELSE digest[p][f]],
  synced <- loop[p].ready,
  cleanPass <- loop[p].clean /\ ~Refused(p),
  pc <- IF Fetched(p) THEN "apply"
        ELSE IF Decided(p) /\ loop[p].i = Len(Files) THEN "end"
        ELSE IF loop[p].pc = "asked" THEN "fetch" ELSE loop[p].pc,
  i <- IF Decided(p) /\ loop[p].i < Len(Files) THEN loop[p].i + 1 ELSE loop[p].i,
  got <- IF Fetched(p) THEN inbox[p].body ELSE Unknown,
  moved <- moved[p]

\* Every pod's loop is Fetcher's: a lost request or answer is a fetch that fails.
ImplementsFetcher ==
  /\ \A p \in Pod : Loop(p)!Init
  /\ [][\A p \in Pod : UNCHANGED Loop(p)!vars \/ Loop(p)!Next]_vars

\* A pod that waits for GetObject, and nothing is on its way.
Stuck(p) == login[p].place \in Bucket /\ Lost(p)

\* When the network is well again and nothing more reaches its source, every pod
\* ends up with what the source has, so all replicas of one source end up alike
\* ("every replica of the gateway converges", fault.go:26): unless its token is
\* wrong, or GetObject never returns.
ReplicasConverge ==
  \A p \in Pod :
    /\ <>[](~trouble) /\ <>[][~Restart(p) /\ UNCHANGED source]_vars
    /\ login[p].place \in Server => login[p].token = ApiToken
    /\ ~<>[]Stuck(p)
    => <>[]\A f \in Name :
             LET held == source[login[p].place][f] IN held # NotPushed => disk[p][f] = held
=============================================================================
