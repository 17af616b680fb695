------------------------------ MODULE Gateway ------------------------------
(***************************************************************************)
(* A push reaching live traffic: operators whose gatewayctl uploads        *)
(* cds.yaml and then lds.yaml to the config source, the poll loop of one   *)
(* gateway container (Fetcher), and the Envoy beside it, which loads the   *)
(* two files when they are renamed into the directory it watches.          *)
(*                                                                         *)
(* A configuration is a set of backends.  cds.yaml defines a cluster for   *)
(* each, lds.yaml a listener with a route to each; Envoy rejects a         *)
(* listener that routes to a cluster it does not have ("unknown cluster")  *)
(* and keeps the one it had.                                               *)
(***************************************************************************)
EXTENDS Fetcher

CONSTANTS
  Operator,   \* people and jobs that run gatewayctl push
  CDS, LDS    \* the two names in Files

\* No backends is one of the configurations: an Envoy without a listener has no routes.
ASSUME GatewayAssumption == Files = <<CDS, LDS>> /\ {} \in Content

VARIABLES
  watchesDirectory,
    \* TRUE: a rename in the directory wakes both of Envoy's subscriptions, as
    \* the watched_directory of config/envoy.yaml:44-56 asks for;
    \* FALSE: "Envoy reloads each file independently on its own inotify event",
    \* as the comment in the poll loop has it (fetcher/main.go:328-329)
  job,       \* the configuration an operator is pushing
  sent,      \* how many of Files it has uploaded
  calm,      \* history: this pass began with a coherent source and an idle Envoy
  woken,     \* files Envoy has yet to load after a rename
  clusters,  \* Envoy's clusters
  routes,    \* the backends its active listener routes to
  rejected   \* the last lds.yaml it loaded was refused

pushers == <<job, sent>>
envoy == <<watchesDirectory, woken, clusters, routes, rejected>>
gatewayVars == <<vars, pushers, calm, envoy>>

\* Every route of lds.yaml has its cluster in cds.yaml.
Coherent ==
  /\ remote[CDS] # NotPushed /\ remote[LDS] # NotPushed
  /\ remote[LDS] \subseteq remote[CDS]

GatewayInit ==
  /\ Init /\ remote = [f \in File |-> NotPushed]
  /\ job = [o \in Operator |-> None] /\ sent = [o \in Operator |-> 0]
  /\ calm = FALSE
  /\ watchesDirectory \in BOOLEAN
  /\ woken = {} /\ clusters = Seed /\ routes = Seed /\ rejected = FALSE
-----------------------------------------------------------------------------
(* pushHTTPFiles and pushS3Files: each file in turn, stop at the first error *)

StartPush(o, c) ==
  /\ job[o] = None
  /\ job' = [job EXCEPT ![o] = c] /\ sent' = [sent EXCEPT ![o] = 0]
  /\ UNCHANGED <<vars, calm, envoy>>

\* A plausible bug: the next push starts where this one ended.
UploadUnreset(o) ==
  /\ job[o] # None
  /\ Push(Files[sent[o] + 1], job[o])
  /\ IF sent[o] + 1 = Len(Files)
       THEN job' = [job EXCEPT ![o] = None] /\ UNCHANGED sent
       ELSE sent' = [sent EXCEPT ![o] = @ + 1] /\ UNCHANGED job
  /\ UNCHANGED <<calm, envoy>>

Upload(o) ==
  /\ job[o] # None
  /\ Push(Files[sent[o] + 1], job[o])
  /\ IF sent[o] + 1 = Len(Files)
       THEN job' = [job EXCEPT ![o] = None] /\ sent' = [sent EXCEPT ![o] = 0]
       ELSE sent' = [sent EXCEPT ![o] = @ + 1] /\ UNCHANGED job
  /\ UNCHANGED <<calm, envoy>>

\* The upload is refused, or the operator stops gatewayctl: the files sent so
\* far stay, the others are never sent.
UploadFails(o) ==
  /\ job[o] # None
  /\ job' = [job EXCEPT ![o] = None] /\ sent' = [sent EXCEPT ![o] = 0]
  /\ UNCHANGED <<vars, calm, envoy>>
-----------------------------------------------------------------------------
(* The fetcher beside Envoy                                                *)

\* A plausible bug: config/envoy.yaml without watched_directory.
WakeOnlyOne(f) == woken' = woken \cup {f}

\* The rename of f into place, as Envoy sees it.
Wake(f) == woken' = woken \cup (IF watchesDirectory THEN File ELSE {f})

ApplyFile == Apply /\ Wake(file) /\ UNCHANGED <<pushers, calm, watchesDirectory, clusters, routes, rejected>>

\* A plausible bug: no settle delay.
SettleAtOnce == Settle /\ UNCHANGED <<pushers, calm, envoy>>

\* 300 ms are assumed to be enough for Envoy to load what was written, and so
\* is the poll interval.
SettleStep == Settle /\ woken = {} /\ UNCHANGED <<pushers, calm, envoy>>

NextPass ==
  /\ BeginPass /\ woken = {}
  /\ calm' = Coherent
  /\ UNCHANGED <<pushers, envoy>>

OtherStep ==
  /\ \/ FetchLost \/ FetchFails \/ FetchFindsNothing \/ FetchUnchanged
     \/ FetchChanged \/ ApplyFails \/ EndPass
  /\ UNCHANGED <<pushers, calm, envoy>>

LoopStep == ApplyFile \/ SettleStep \/ NextPass \/ OtherStep
-----------------------------------------------------------------------------
(* Envoy (external).  One event that wakes both subscriptions reaches them *)
(* in the order they were registered, the clusters first.                  *)

LoadClusters ==
  /\ CDS \in woken
  /\ clusters' = disk[CDS] /\ woken' = woken \ {CDS}
  /\ UNCHANGED <<vars, pushers, calm, watchesDirectory, routes, rejected>>

\* A listener equal to the active one is not looked at again.
LoadListener ==
  /\ LDS \in woken /\ (watchesDirectory => CDS \notin woken)
  /\ woken' = woken \ {LDS}
  /\ rejected' = (disk[LDS] # routes /\ ~(disk[LDS] \subseteq clusters))
  /\ routes' = IF rejected' THEN routes ELSE disk[LDS]
  /\ UNCHANGED <<vars, pushers, calm, watchesDirectory, clusters>>

EnvoyStep == LoadClusters \/ LoadListener

\* A new Envoy has no listener to keep when it refuses the one on disk.
Boot(d) ==
  /\ woken' = {} /\ clusters' = d[CDS]
  /\ rejected' = ~(d[LDS] \subseteq d[CDS])
  /\ routes' = IF rejected' THEN {} ELSE d[LDS]
  /\ UNCHANGED watchesDirectory

EnvoyRestart == Boot(disk) /\ UNCHANGED <<vars, pushers, calm>>

FetcherRestart ==
  Start(disk) /\ calm' = (Coherent /\ woken = {}) /\ UNCHANGED <<pushers, envoy>>

\* A new container: the image's files, a new fetcher and a new Envoy.
ContainerRestart ==
  LET image == [f \in File |-> Seed] IN
  Start(image) /\ Boot(image) /\ calm' = Coherent /\ UNCHANGED pushers

AnyRestart == EnvoyRestart \/ FetcherRestart \/ ContainerRestart

GatewayNext ==
  \/ \E o \in Operator :
       Upload(o) \/ UploadFails(o) \/ \E c \in Content : StartPush(o, c)
  \/ LoopStep \/ EnvoyStep \/ AnyRestart
  \/ Trouble /\ UNCHANGED <<pushers, calm, envoy>>

GatewaySpec == GatewayInit /\ [][GatewayNext]_gatewayVars

\* The loop goes on unless a fetch is lost (FairSpec of Fetcher) and Envoy gets round
\* to its events.
FairGatewaySpec ==
  GatewaySpec /\ WF_gatewayVars(LoopStep /\ pc # "lost") /\ WF_gatewayVars(EnvoyStep)
-----------------------------------------------------------------------------
\* Type invariant of the composition.
GatewayTypeOK ==
  /\ TypeOK
  /\ job \in [Operator -> Content \cup {None}]
  /\ sent \in [Operator -> 0..Len(Files) - 1]
  /\ \A o \in Operator : job[o] = None => sent[o] = 0
  /\ watchesDirectory \in BOOLEAN /\ calm \in BOOLEAN /\ rejected \in BOOLEAN
  /\ woken \subseteq File /\ clusters \in Content /\ routes \in Content

\* Envoy serves what the source holds.
Serving == clusters = remote[CDS] /\ routes = remote[LDS] /\ ~rejected

\* One clean pass over a coherent source that nobody pushes to meanwhile is
\* enough to bring Envoy there, whatever went before: a torn pass, a pass that
\* missed cds.yaml, a listener refused for an unknown cluster, restarts of
\* either process, if Envoy watches the directory.  ("Eventually consistent
\* within one poll interval", scripts/integration-test.sh:273-274.)
CalmPassHeals ==
  watchesDirectory /\ pc = "sleep" /\ cleanPass /\ calm /\ moved = {} /\ woken = {}
    => Serving

\* What the order of the files and the settle delay are for: in such a pass
\* Envoy is never led to refuse the listener it is heading for, even if it
\* reloads each file on its own event (fetcher/main.go:327-337).
CalmPassNotRefused ==
  [][LoadListener /\ cleanPass /\ calm /\ moved = {} /\ disk[LDS] = remote[LDS]
       => ~rejected']_gatewayVars

\* When pushes end with a coherent source, failures and restarts stop, Envoy
\* ends up serving it for good, unless a fetch that was lost never returns.
GatewayConverges ==
  /\ watchesDirectory /\ FetchesReturn
  /\ <>[][~AnyRestart]_gatewayVars
  /\ <>[](faulty = {})
  /\ <>[](Coherent /\ \A o \in Operator : job[o] = None)
  => <>[]Serving

\* The claim of deployment.yaml:101-102: readiness "keeps a pod out of rotation
\* until it's actually serving current config".
ReadyMeansServing == [][~synced /\ synced' => ~rejected]_gatewayVars
=============================================================================
