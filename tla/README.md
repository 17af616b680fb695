# A verification of envoy-perf-gateway

This directory holds TLA+ models of envoy-perf-gateway, the TLC configurations
that check them on small instances, and TLAPS proofs of what they state for any
instance. `PROJECT.json` lists the components, the runs, a mutant for every
property, the source lines behind every definition, the hazards, the findings
and the theorems.

## The system

An operator describes backends and faults with `gatewayctl`; a load-test gateway
(Envoy) somewhere else must end up routing and faulting accordingly, without a
restart.

```
values.yaml --render--> rendered/{cds,lds,runtime}.yaml --push--> config_server or S3
 (gatewayctl)              (gatewayctl)                                |  poll
                                                                       v
        Envoy <--file watches, disk_layer-- /etc/envoy/dynamic <-- fetcher
```

| component | state | operations | talks to |
|---|---|---|---|
| gatewayctl (`src/gatewayctl`) | values.yaml, rendered/, a settings file | add-backend, remove-backend, fault abort/delay/reset, render, push-http, push-s3, fetch, generate-values, list-backends, config | the file system, the source |
| render, envoyconfig | none: pure functions | BuildCDS, BuildLDS, BuildRuntime | - |
| config_server (`src/config_server`) | a file per name | GET, POST /config/{name} | gatewayctl, fetchers |
| fetcher (`src/fetcher`) | digests of what it applied, `synced` | the poll loop, atomicWrite, expandRuntimeLayer, /ready | the source, the directory Envoy watches, the pod's readiness probe |
| atomicWrite (three copies) | temporary files beside the target | create, write, close, rename, clean up | its readers |
| Envoy (external) | clusters, a listener, runtime entries | reload on a file event, restart | clients |
| default_app, charts, scripts | - | - | - |

What is hard here: nobody holds a lock anywhere. A push is three uploads, a pass
of the fetcher three downloads, an expansion of the runtime manifest a dozen
file-system calls; every process can die between any two of them and comes back
knowing nothing (supervisord restarts it); a source can be unreadable for one
file and fine for the next; and Envoy validates one file against another that
arrives separately. What should come out all the same:

- a reader of a file or of the runtime directory gets one whole version of it;
- the fetcher never takes for applied what is not, retries what failed, and
  reports readiness when a whole pass went well and not before;
- Envoy ends up with the source's configuration after any mixture of torn
  pushes, torn passes, failures and restarts, as soon as things calm down;
- what a command renders says what the user guide says of it, and no command
  changes what clients of other backends see;
- a command that has the checkout to itself leaves values.yaml, rendered/ and
  the source in agreement, whatever the ones before it left.

## The modules

| module | models | extends / instantiates |
|---|---|---|
| `AtomicCell` | abstract: a value that requests replace at one instant, or not at all | |
| `AtomicWrite` | atomicWrite against concurrent writers, readers, failures and crashes | implements `AtomicCell` |
| `RuntimeLayer` | expandRuntimeLayer and Envoy's disk_layer behind the symlink | implements `AtomicCell` |
| `Fetcher` | the poll loop, digests and readiness, the source, restarts | |
| `Gateway` | operators pushing, the poll loop, Envoy's two subscriptions | extends `Fetcher` |
| `Values` | what the commands write into values.yaml, the renderer, generate-values' way back, what Envoy does with the result | |
| `Gatewayctl` | the commands as processes over values.yaml, rendered/ and the source | |
| `Settings` | the settings file, config set, the resolvers' precedence | |
| `ConfigServer` | the sources, config_server's handler and S3, request by request, and the network | |
| `Distribution` | pushes and fetches as requests, from operators' settings to the pods' disks | extends `Settings`, `ConfigServer`; implements `Fetcher` |
| `MC*` | constants for TLC | extend their module |
| `*Proofs` | theorems | extend their module |

Each layer takes the one below as one step, and the run or theorem of the lower
module is what justifies it: `Fetcher.Apply` and `RuntimeLayer.WriteKey` are one
step because `AtomicWrite` and `RuntimeLayer` implement `AtomicCell`;
`Gatewayctl` treats content as a set of parts because `Values` shows what the
parts say; `Gateway` begins where a push begins to upload; and a fetch is one step
of `Fetcher` because `Distribution`, where it is a request and an answer,
implements `Fetcher` pod by pod.

**AtomicWrite.** A file is an inode with the content it is of and the number of
chunks written; `name` is the inode behind the path. `CreateTemp`, `WriteChunk`,
`CloseTemp`, `Rename` are the calls of `atomicwrite.Write`, `WriteFails` and
`RenameFails` its error paths. After a failed write or close comes the clean-up,
`Remove`, or `RemoveFails`: nobody looks at the error of `os.Remove` (lines 21 and
25), so the temporary file may stay, as it does after a failed rename (line 28). A
writer that dies is `dead` until another process takes its place. A reader opens the path once and
reads that inode until it is at the end.

**RuntimeLayer.** The disk (`exists`, `files`, `current`, `tmpLink`), the
fetcher's local variables (`pc`, `job`, `todo`, `prev`) and `lastHash`
(`applied`), and Envoy, which is told that the symlink changed, resolves it and then
reads the directory it found (in one step; the fetcher's calls come between the two,
and what changes under Envoy's hands comes with an event of its own). The ".tmp-"
files a failed write leaves there count as leftovers (`stray`), not among what Envoy
reads: they would be entries no route asks for. A directory is identified with the manifest whose digest names
it, so a second expansion of a manifest finds the first one's directory. Every
call of the function has its failing twin, and `Crash` may come anywhere.

**Fetcher.** One position per branch of the loop body: `FetchLost`, `FetchFails`,
`FetchFindsNothing`, `FetchUnchanged`, `FetchChanged`, `Apply`, `ApplyFails`,
`Settle`, `EndPass`, `BeginPass`. `faulty` is the set of files whose fetch or
write may fail at the moment; `Trouble`, `Push` and `Restart` are the
environment's. `ReadErrorIsNotFound` tells the http source (404 for any read
error, `config_server/main.go:87`) from S3, and with it an HTTP client that gives up
after 5 s (`main.go:104`) from a GetObject that has no deadline (`main.go:79`): a
fetch from S3 can be `lost`, and then returns an error at some time or never.

**Gateway.** A configuration is a set of backends; cds.yaml and lds.yaml each
hold one, and Envoy refuses a listener that routes to a cluster it lacks.
Operators upload cds.yaml, then lds.yaml, and may stop in between. Envoy's part
is external: if `watchesDirectory`, which never changes, a rename in the directory
wakes both subscriptions, clusters first, as `config/envoy.yaml:44-56` configures
it; if not, each file has its own event, which is how the comment in the poll loop
(`fetcher/main.go:328-329`) explains the settle delay. `CalmPassHeals` and
`GatewayConverges` are about the first, `CalmPassNotRefused` about the second.

**Values.** `backends` is the ordered list and `faults` the map of values.yaml.
`BuildCDS`, `BuildLDS`, `BuildRuntime` are the renderer's functions on the fields
that differ between backends, `FindRemoteRoute`, `Recovered` and
`ParseRemoteFaults` the functions generate-values uses, `ListLocal` and `ListRemote`
the tables of list-backends. Of the validators of `cmd/root.go`, those of the fault
commands' arguments and of durations are guards; what validateName, validatePort and
validateCompression refuse is not in `Offer`, where a host stands for host and port
and `gzip` for the compression. Envoy's side is external:
`Accepts` (unique cluster, virtual-host and domain names, known clusters),
`Matching` (own domain, else `*`; the first route whose prefix matches) and
`Suffers` (a runtime key if there is one, else the route's own setting).
The loops that filter or split the list are `Select`, which is SequencesExt's
SelectSeq over a recursive function, so that the provers can reason about it.
`Offer` is the set of backends add-backend may be given, names included, and
`ValuesAssumption` says of the constants what the flags' checks do: an offer is a
backend with a name, a host and a timeout (validateName, validatePort,
validateCompression, `--host` required), requests have a host, and arguments are integers.

**Gatewayctl.** Every operator's command is at a place in its code (`at`, `n`)
with what it has read (`mem`). Save and fetch's writeLocal are os.WriteFile, in
two steps: truncate, then write; regenerate's three files go through atomicWrite
and are one step each. A backend is a part of cds.yaml and a part of lds.yaml, a
target's faults a part of runtime.yaml. `Stops` is any error return or signal.
An upload (`Send`) is stored at once, or not by its command: one that times out at
the client and lands later is an upload from `Elsewhere` here, and a request of its
own in `Distribution`.
`alone` and `start` are history: the command that nobody has interfered with, and
the values.yaml it found.

**Settings.** Every command loads the file when it starts (`Begin`); `StartSet`
changes a key of what was loaded, `TruncateSettings` and `SaveSettings` are the two
steps of os.WriteFile, `Quits` an error or a signal. `Resolve` is the five
resolvers. `expected` is history: what the file should be as long as no two
config sets overlapped and none died.

**ConfigServer.** `source` is what each config_server has, and each bucket under
each prefix (a place of S3 is the pair of the two),
`wire` the requests nobody has handled, `inbox` the answers that have arrived.
`Unauthorized`, `Get`, `GetFails`, `Post`, `PostFails` are the branches of
`handleConfig`, and of S3 where it differs (its own credentials, a read error that
is not a 404). While there is `trouble`, requests and answers are lost and storage
fails; a request whose client is gone may be handled at any later time, or never.

**Distribution.** `StartPush` is autoPushIfConfigured, push-http or push-s3 with
the settings as they are at that moment (`Destination`: a URL and a token, or a
bucket and a prefix, each resolved by itself); `Receive` an answer and the next upload,
or the end; `Stops` the client's timeout, any error or a signal, after which the
upload under way belongs to `Nobody`. A push's version stands for the content it
uploads; rendering is `Gatewayctl`'s. A pod polls a place with a token (`login`).
Its fetch is out (`asked`) until an answer is in its inbox or the call fails:
after 5 s at the latest for the HTTP client, at any time or never for GetObject
once its request or its answer is lost. `Loop(p)` maps a pod's state to `Fetcher`'s:
a fetch counts as done there when the source has answered it or it can no longer be
answered, and what the pod then does with it is a stutter; a lost request and a
refused token are the `faulty` of `Fetcher`. The mapping has `ReadErrorIsNotFound`
TRUE for every pod: that is the source that may also answer 404 to a read that fails,
so for a pod of S3, which never gets that answer, it is the weaker specification.

## The runs

| run | instance | what it shows |
|---|---|---|
| `atomic_write` | 4 inodes, 2 writers, 1 reader, 2 chunks | readers get whole files; a temporary file stays only after a failed rename, a failed removal or a death; refinement of `AtomicCell` |
| `runtime_layer` | 4 manifests over 3 keys (one refused), 2 values | the live directory is one whole manifest; a recorded digest is the live one; an Envoy that has caught up runs it; directories left over are explained by a failure; refinement of `AtomicCell` |
| `fetcher` | 2 files, 2 contents and "not pushed", S3-like source | digests, clean passes and readiness mean what they say; unless a fetch never returns, each file converges by itself and a process left alone becomes ready |
| `fetcher_read_error` (violation) | the same, http-like source | readiness without a file that was pushed |
| `gateway` | configurations {} and {a}, 1 operator, both readings of Envoy's watches | one calm clean pass repairs everything; the order of the files and the settle delay keep such a pass from being refused; convergence, unless a fetch never returns |
| `gateway_ready` (violation) | as `gateway` | ready although Envoy refused the listener |
| `distribution` | 2 operators, 1 config_server, 1 bucket with and without a prefix, 1 pod, 2 files | see below |
| `values` | 3 names (one built in, one the catch-all virtual host's), 7 kinds of backend and an invalid one, at most 3 backends and faulted targets together | see below |
| `values_zero_delay` (violation) | the same | a delay of 0 ms becomes 2 s |
| `values_not_exact` (violation) | the same | generate-values loses HTTP/2 and compression |
| `gatewayctl` | 2 operators, 1 name, 3 files, 3 commands or foreign uploads | see below |
| `gatewayctl_torn` (violation) | the same | values.yaml read while it is truncated |

`values` checks that the rendered files are accepted by Envoy exactly if the
operator minded what no command checks (`AcceptedIfDisciplined`: built-in names,
the domain `*`, the name of the catch-all virtual host, one backend per domain);
that a request goes where the user guide says (`RoutesAsDocumented`); that what
was asked of the fault commands is what requests suffer (`FaultsTakeEffect`,
except for the 0 ms delay of the finding); that adding, replacing or removing one
backend, or faulting one target, leaves the others' requests alone
(`NeighboursKeepTraffic`, `FaultIsolation`); and that generate-values yields a
values.yaml that renders to what was pushed, apart from HTTP/2 and compression
(`GenerateRestores`).

It also checks that list-backends prints one table for values.yaml and for what was
pushed from it (`ListsAgree`).

`distribution` checks that a push that reports success is what its destination has,
but for the files of pushes that were under way meanwhile or given up before and
still on their way (`SuccessPrevails`); that a pod with a wrong token never becomes
ready and never applies anything, whatever the server has or fails to read
(`MismatchedNeverReady`: 401 comes before 404); that the settings file has what was
last set for every key (`SettingsAsSet`); that each pod's loop is `Fetcher`'s
(`ImplementsFetcher`); and that once the network is well and the source is left
alone every pod ends up with its files, unless its token is wrong or its GetObject
never returns (`ReplicasConverge`). That last exception is real: one lost answer to
an S3 client without a deadline stops the loop for good, and the mutant that drops
the HTTP client's timeout breaks the property.

`gatewayctl` checks, for a command that has everything to itself from start to
end, in any state that commands which overlapped, failed or were killed can
leave: values.yaml is what it found, edited, and rendered/ what that renders to
(`InSync`); if it pushes and succeeds, the source too (`Delivers`); fetch and
generate-values copy what the source has and nothing else (`FetchCopies`,
`GenerateCopies`); and an add-backend or remove-backend without `--force` that found
no values.yaml uploads nothing (`MissingIsSafe`; it says nothing of the fault
commands and of push-http and push-s3, which have no such check, nor of writing
values.yaml). Nothing of the kind holds for commands that overlap: a second Save
drops the first one's change, and two renderings or two pushes can leave some files
of each. The comment on regenerate, "the rendered output is always in sync with
values.yaml on disk" (`root.go:158-160`), is true only of commands that do not
overlap, which is how `InSync` reads it. The hazards list these cases without a
property: what the models show of them is that the next command to run alone repairs
rendered/ and the source, while the dropped change stays lost.

The violation runs each show a sentence of the repository that the code does not
live up to; `findings` quotes them. The trace TLC prints is the explanation.

### Why the bounds are enough

- `AtomicWrite`: two writers suffice for one to rename over the other's file and
  for a temporary inode to be reused while a reader holds it; two chunks give one
  partial state; four inodes are the live file, one temporary per writer and one
  leaked. `NoTornRead` proves it without bounds.
- `RuntimeLayer`: four manifests are the empty one, two that share a key with
  different values, and one with a key the code refuses; the proofs have no bound.
- `Fetcher`: two files are one that fails and one that must not suffer from it.
- `Gateway`: with {} and {a} a listener can be ahead of the clusters or behind
  them. One operator who stops half way reaches every combination of cds.yaml and
  lds.yaml that several operators can leave.
- `Distribution`: `MaxCommands` is two and `MCInit` says what is there together:
  one operator with two commands beside any pod (two pushes, so that the first one's
  late upload meets the second; or a config set and a push), and a second operator
  with one command beside a pod that is refused, where the pod's own state is small
  and the two operators' pushes to one config_server (the second operator's
  environment sends its own pushes to the bucket, but push-http goes to the default
  URL), and their config sets, overlap in every order. A bucket is there with the
  prefix the pod polls and without one, and the operator may unset `s3.prefix`: then
  the push succeeds where no pod looks. One pod, because pods share nothing but the source. Two files are
  one that is done and one still to come.
- `Values`: two backends on one domain, a domain with and without a prefix and
  with the prefix "/", two shared prefixes one of which contains the other, a
  backend without a route, each name that can clash. Three backends show
  reordering around a third. `Small` bounds the lists and names the bound.
- `Gatewayctl`: `MaxCommands` is three, so that two commands can overlap, or one
  die and another machine push, before a third runs alone. Operators are
  interchangeable (`SYMMETRY`); that run states no liveness property. After the
  last command nothing need happen, hence its `CHECK_DEADLOCK FALSE`.

### Fairness

`FairSpec` of `Fetcher` assumes weak fairness of the poll loop's own steps: its
sleeps end, its writes return, and so does a fetch whose request or answer is not
lost. Of a fetch that is lost (`pc = "lost"`, which only S3 can reach: the HTTP client
gives up after 5 s, `fetcher/main.go:104`, but GetObject is called with
`context.Background()`, `main.go:79`) nothing is assumed. It may have been lost long
before things calmed down and block the loop for good, so `FileConverges`,
`BecomesReady` and `GatewayConverges` have the premise `FetchesReturn`: no fetch stays
lost for ever. Without it all three are false of the S3 source; of the http source it
always holds. `FairSpec` of `Distribution` assumes less: of the
sources, that they handle some request while there is one, and of each pod that it
goes on when it can, which it cannot while it waits for an answer, until the HTTP
client's 5 seconds are over (`fetcher/main.go:104`). Nothing is assumed of a
GetObject whose answer is lost (its context has no deadline).
`FairGatewaySpec` adds Envoy's handling of a file event it has received. Nothing
is assumed of pushes, failures and restarts, and no run assumes that a fetch or a
write ever succeeds: the liveness properties say what follows once failures and
restarts have stopped, for the file in question (`FileConverges`) or altogether.

## The proofs

For every value of the constants, under the named assumptions of each module
(that the sentinels are distinct from the values, that files are listed once, ...):

- `AtomicWriteProofs`: `TypeCorrect`, `NoTornRead`, `OrphansAccounted`,
  `PathIsAtomic`. Readers are
  safe because a file is only written while nobody can reach it: `TempsPrivate`
  says that neither the path nor a reader refers to a temporary file, that no two
  writers share one, and that it is complete once it is closed. It is inductive by
  itself; with it `Whole` is (what the path and the readers refer to is complete),
  and `ReadsComplete` is a part of `Whole`. The refinement follows: only `Rename`
  changes what the path shows, and shows all of what its writer was asked for.
- `RuntimeLayerProofs`: `TypeCorrect`, `LiveComplete`, `AppliedCurrent`,
  `EnvoyCatchesUp`, `LeftoversAccounted`, `SymlinkIsAtomic`. `Directories` adds to
  `CurrentComplete` what each directory and each place in the code may rely on
  (what has been written of `job`, what `prev` and the link name); `Caught` adds to
  `QuiescentLoad` that a directory being read with no event pending is the live
  one, without which a removal under Envoy's hands could not be excluded.
- `FetcherProofs`: `TypeCorrect`, `HashesApplied`, `CleanPassCurrent`,
  `ReadyEarned`, `ReadyPersists` (readiness is withdrawn by a restart only, which
  no run checks because it is one guard's doing). `HashMeansApplied` is inductive; `PassReflects`
  extends `CleanPassReflects` to the middle of a pass: each file done so far is as
  the source has it or was pushed to since. The two theorems about passes assume a
  source that tells read errors from missing files (`~ReadErrorIsNotFound`), and
  `fetcher_read_error` shows that they must.

- `GatewayProofs`: `GatewayContainsLoop` says that whatever operators, Envoy and
  restarts do, the poll loop and its source take steps of `Fetcher` only, so
  `FetcherProofs` holds of the composition; it is an ordinary step simulation, from
  `PushersOK` (an operator sends configurations, from a position in the list).
  `GatewayTypeCorrect` is the type invariant. `CalmPassAlwaysHeals` and
  `CalmPassNeverRefused` rest on two more invariants: `EnvoyTracks` (a subscription
  with no event pending has loaded what is on disk, and a listener that is not the
  disk's was refused for clusters it lacks) and `CalmPass` (during a calm pass the
  source stays coherent, and Envoy is awake only for files the pass has done). With
  `PassReflects` of `FetcherProofs` they say that the clusters are already the
  source's when the listener of the same pass is loaded. Both assume
  `~ReadErrorIsNotFound`, as the theorems about passes do.
- `GatewayctlProofs`: `TypeCorrect`, `MissingNeverUploaded`, `RenderedInSync`,
  `PushDelivers`, `FetchAlwaysCopies`, `GenerateAlwaysCopies`. `Placed` says which
  kind of command is at which place, and that next to a command that is `alone` all
  others are idle; `Undisturbed` says of such a command what it has done so far:
  `Publishes` (values.yaml is what was found, edited; the files before the `n`th are
  rendered, or sent, from it; `mem` holds what the next one gets), `Retrieves` (the
  files before the `n`th are the source's; `mem` is what was gathered of them) and
  `Guarded` (a command let past a missing values.yaml does not push). None of this
  holds without "alone", and the properties speak of the last step only, so neither
  is inductive without the other.
- `DistributionProofs`: `TypeCorrect`, `SettingsAlwaysAsSet`, `MismatchedIsNeverReady`,
  `SuccessAlwaysPrevails`, `LoopsImplementFetcher`, for any operators, pods, sources,
  files and tokens. `Typed` adds to `TypeOK` that a client has one request under way
  or one answer, that it is the one its place in the code waits for, and that a 200
  has content. Every action is first shown to be a *movement*: `OperatorMoves`,
  `PodMoves` or `SourceMoves`, which say what one party can at most do to the shared
  wire, inboxes and sources; the invariants are proved against these four cases
  instead of eighteen actions.
  `SettingsInOrder` strengthens `SettingsAsSet`: while the history counts, one config
  set at most is under way and what it loaded, changed, is what the file should be.
  `MismatchedOnlyRefused` strengthens `MismatchedNeverReady`: a refused pod never
  got anything but a 401, and no pass that has come past a file is clean (a pass over
  no file would be, which `Len(Files) # 0` excludes). `PushesPrevail` strengthens
  `SuccessPrevails`: every upload under way and every push is known to each push's
  history, so what is at its destination for the files it has sent can only have been
  replaced by one of those.
  The refinement has a lemma per action of `Fetcher` (`LoopFetchFails`, ...), which
  says when a change of what `Loop(p)` shows is that action, and a lemma `Views` that
  says what it shows in each state of a request: under way, lost, refused, answered
  with nothing, with what the pod has, with something else. Each step of a pod, of the
  sources or of the network then moves from one view to another.

- `ValuesProofs`: `ValuesWellFormed`, `ValuesTypeCorrect`, `ValuesAcceptance`,
  `ValuesRouting`, `ValuesFaultsTakeEffect`, `ValuesFaultIsolation`,
  `ValuesListsAgree`, `ValuesGenerateRestores`, `ValuesNeighbours`, for any names,
  offers, requests and fault arguments and lists of any length. The inductive
  invariant is `WellFormed`: the names of the list differ, and no fault has an abort
  percentage without a status. `FaultsTakeEffect` needs the second half, which
  `TypeOK` lacks: zeros are left out of runtime.yaml, and such an abort would have the
  route's own status, 503. generate-values keeps it, because it reads back what was
  left out as zero. Everything else about the list follows from `WellFormed` and from what Envoy accepts, state by state.
  What carries the proofs is a description of a selection that needs no recursion:
  `Orders(f, m, P)` says that `f` lists the positions `P` in increasing order, and
  `PickLists` that `Pick(s, P)` is `s` at those positions. `ListenerOf`, `ClustersOf`,
  `RuntimeOf`, `MineOf` and `ParsedFaults` then say what each rendered file and each
  way back holds, in terms of positions in the list; `RegularLists` says what Envoy's
  acceptance means there; `ReachesOwner`, `ReachesSharer` and `ReachesFallback` where
  a request goes. For `NeighboursKeepTraffic`, `EditKeepsTraffic` compares two lists
  that agree, in order, on all backends but those of one name. `PickLists` is by
  induction on the length, from `NaturalInduction`, which is stated about a set
  instead of a predicate and follows from the well-foundedness of < on the naturals
  (the library's own induction theorems have an operator parameter).

Proved of every invariant, every action property and every refinement that the
passing runs check, then. Only model-checked are:

- liveness (`FileConverges`, `BecomesReady`, `GatewayConverges`,
  `ReplicasConverge`): the prover has no ENABLED;
- the counterexamples of the violation runs, which are behaviours of an instance.

## What is not modelled

- The content of files below the parts the properties tell apart; YAML; the format
  of requests; log lines; `config get` and `config path`, which only print, and the
  redaction of what they print; `/healthz`.
- Flags: a flag of push-http or push-s3 acts as the environment variable of its
  setting does, `--values` and its like choose other files.
- The AWS client's own retries: a PutObject it sent twice may land twice.
- A config_server whose storage is lost when it restarts: `Fetcher` has it (a push
  of `NotPushed`), `Distribution` does not.
- Errors of loading a settings file that is not YAML or cannot be read: the command
  ends before it has done anything.
- Fields every backend has the same in cds.yaml and lds.yaml, and the compressor's
  and the listener's own settings, which are constants of `envoyconfig`.
- Two manifests with one 64-bit digest.
- A file cut short in the middle of os.WriteFile's single write; the truncated,
  empty file stands for it.
- default_app, charts and scripts; `config-fetcher`'s readiness as the charts use
  it is a property of `Fetcher` and `Gateway`.

Two things seen on the way that no run is about: after a restart the fetcher
writes the current manifest again into the directory Envoy reads, with the same
values (`config/envoy.yaml:19-21` speaks of a fresh directory), and a temporary
file of a write that died there stays. And a torn pass may make Envoy refuse a
listener for a while, which `scripts/integration-test.sh:266-274` knows;
`CalmPassHeals` says how long.

## Plan

1. Done: the modules above, their runs, and proofs of every invariant, action
   property and refinement the passing runs check.
2. Left: leads-to steps under fairness stay with TLC until the prover has ENABLED. A
   storage that is lost when config_server restarts is in `Fetcher` only, and could be
   an action of `ConfigServer`.
