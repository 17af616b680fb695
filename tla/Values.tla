------------------------------- MODULE Values -------------------------------
(***************************************************************************)
(* values.yaml, the commands that edit it, the three files rendered from   *)
(* it, what Envoy makes of those files, and the way back from them that    *)
(* generate-values takes.  One operator runs one command after another     *)
(* with every command succeeding; Gatewayctl is about commands that        *)
(* overlap, fail and die.                                                  *)
(*                                                                         *)
(* A path is the sequence of its characters after the first "/", so "/" is *)
(* << >> and a route's prefix match is IsPrefix.  A backend's host stands  *)
(* for host and port, and gzip for its compression: an Offer has passed    *)
(* validateName, validatePort and validateCompression.  Fields every       *)
(* backend has the same are left out.                                      *)
(***************************************************************************)
EXTENDS Integers, Sequences, SequencesExt, TLC

CONSTANTS
  Name,        \* names that pass validateName
  Offer,       \* the backends add-backend may be given
  Path, Host,  \* of the requests clients send
  Percent, Status, Millis,  \* arguments of the fault commands
  None,        \* an empty string
  Star,        \* the domain "*"
  EnvoyAdmin, DefaultApp,  \* the two clusters that are always there
  CatchAll,    \* the name of the catch-all virtual host, "backend"
  DefaultTimeout  \* "15s", in milliseconds as every duration

Root == << >>

Backend ==
  [name : Name, host : {b.host : b \in Offer}, tls : BOOLEAN,
   domain : {b.domain : b \in Offer} \cup {None},
   prefix : {b.prefix : b \in Offer} \cup {None, Root},
   rewrite : {b.rewrite : b \in Offer} \cup {None}, http2 : BOOLEAN, gzip : BOOLEAN,
   connect : {b.connect : b \in Offer},
   timeout : {b.timeout : b \in Offer} \cup {DefaultTimeout}]

ASSUME ValuesAssumption ==
  /\ Offer \subseteq Backend
  /\ None \notin Name \cup Host \cup {Star, EnvoyAdmin, DefaultApp, DefaultTimeout}
  /\ \A b \in Offer : None \notin {b.host, b.timeout}
  /\ EnvoyAdmin # DefaultApp
  /\ \A path \in Path : Len(path) \in Nat
  /\ Percent \cup Status \cup Millis \subseteq Int

Dimension == {"abort_percent", "abort_status", "delay_percent", "delay_duration"}

NoFault == [d \in Dimension |-> 0]

\* root.go's validators of the fault commands' arguments and of durations.
ValidPercent(p) == p \in 0..100
ValidNonNegative(d) == d >= 0
ValidHTTPStatus(s) == s \in 100..599
ValidDuration(d) == d > 0

Target == Name \cup {DefaultApp}

\* The elements of s at some of its positions, in their order.
Pick(s, positions) ==
  LET F[n \in 0..Len(s)] ==
        IF n = 0 THEN << >> ELSE IF n \in positions THEN Append(F[n - 1], s[n]) ELSE F[n - 1]
  IN  F[Len(s)]

\* Those that pass a test, as SelectSeq has them; its definition is out of the
\* provers' reach.
Select(s, Test(_)) == Pick(s, {n \in 1..Len(s) : Test(s[n])})

VARIABLES
  backends,  \* values.yaml's list
  faults     \* values.yaml's map from targets to what is set for them

vars == <<backends, faults>>

Init == backends = << >> /\ faults = << >>
-----------------------------------------------------------------------------
(* internal/render                                                         *)

Cluster(b) ==
  [name |-> b.name, host |-> b.host, connect |-> b.connect,
   sni |-> IF b.tls THEN b.host ELSE None,
   alpn |-> b.tls /\ b.http2, http2 |-> b.http2]

\* A plausible bug: the backends' clusters only.
BuildCDSBackendsOnly(bs) == [n \in 1..Len(bs) |-> Cluster(bs[n])]

\* The clusters of a list of backends, after the two built-in ones.
BuildCDS(bs) ==
  LET builtin(n) == [name |-> n, host |-> n, connect |-> None,
                     sni |-> None, alpn |-> FALSE, http2 |-> FALSE]
  IN  <<builtin(EnvoyAdmin), builtin(DefaultApp)>> \o [n \in 1..Len(bs) |-> Cluster(bs[n])]

\* A plausible bug: one set of runtime keys for every route.
RouteSharedKeys(b) ==
  [prefix |-> IF b.prefix = None THEN Root ELSE b.prefix,
   cluster |-> b.name, slash |-> b.prefix # None,
   rewrite |-> b.rewrite, timeout |-> b.timeout,
   fault |-> DefaultApp, gzip |-> b.gzip]

\* A plausible bug: no rewrite for a backend with a domain.
RouteUnrewritten(b) ==
  [prefix |-> IF b.prefix = None THEN Root ELSE b.prefix,
   cluster |-> b.name, slash |-> b.prefix # None /\ b.domain = None,
   rewrite |-> b.rewrite, timeout |-> b.timeout,
   fault |-> b.name, gzip |-> b.gzip]

\* A backend's route; slash: the prefix is rewritten to "/", fault: the target
\* its runtime keys are named for.
Route(b) ==
  [prefix |-> IF b.prefix = None THEN Root ELSE b.prefix,
   cluster |-> b.name, slash |-> b.prefix # None,
   rewrite |-> b.rewrite, timeout |-> b.timeout,
   fault |-> b.name, gzip |-> b.gzip]

Fallback ==
  [prefix |-> Root, cluster |-> DefaultApp, slash |-> FALSE,
   rewrite |-> None, timeout |-> DefaultTimeout, fault |-> DefaultApp, gzip |-> FALSE]

\* A plausible bug: the fallback comes before the backends' prefixes.
BuildLDSFallbackFirst(bs) ==
  LET owning == Select(bs, LAMBDA b : b.domain # None)
      shared == Select(bs, LAMBDA b : b.domain = None /\ b.prefix # None)
  IN  Append([n \in 1..Len(owning) |->
                [name |-> owning[n].name, domain |-> owning[n].domain,
                 routes |-> <<Route(owning[n])>>]],
             [name |-> CatchAll, domain |-> Star,
              routes |-> <<Fallback>> \o [n \in 1..Len(shared) |-> Route(shared[n])]])

\* The virtual hosts: one for each backend with a domain, then the catch-all
\* one with the routes of those with only a prefix, in order, and the fallback.
BuildLDS(bs) ==
  LET owning == Select(bs, LAMBDA b : b.domain # None)
      shared == Select(bs, LAMBDA b : b.domain = None /\ b.prefix # None)
  IN  Append([n \in 1..Len(owning) |->
                [name |-> owning[n].name, domain |-> owning[n].domain,
                 routes |-> <<Route(owning[n])>>]],
             [name |-> CatchAll, domain |-> Star,
              routes |-> Append([n \in 1..Len(shared) |-> Route(shared[n])], Fallback)])

FaultRuntimeKeys(target) == Dimension \X {target}

\* A plausible bug: the four tests are one chain of alternatives.
BuildRuntimeChained(fs) ==
  LET keys == UNION {FaultRuntimeKeys(t) : t \in DOMAIN fs}
      isSet(k) == fs[k[2]][k[1]] # 0 /\ (k[1] = "delay_percent" => fs[k[2]]["abort_percent"] = 0)
  IN  [k \in {k \in keys : isSet(k)} |-> fs[k[2]][k[1]]]

\* The keys of a target's dimensions that are not zero.
BuildRuntime(fs) ==
  LET keys == UNION {FaultRuntimeKeys(t) : t \in DOMAIN fs}
  IN  [k \in {k \in keys : fs[k[2]][k[1]] # 0} |-> fs[k[2]][k[1]]]
-----------------------------------------------------------------------------
(* generate-values, and the tables of list-backends                        *)

NoRoute == [domain |-> None, prefix |-> None, rewrite |-> None, timeout |-> None]

\* A plausible bug: the prefix is a backend's own whatever is rewritten.
FindRemoteRouteAnyPrefix(vhosts, c) ==
  LET hits == {n \in 1..Len(vhosts) :
                 \E r \in 1..Len(vhosts[n].routes) : vhosts[n].routes[r].cluster = c}
      vh == vhosts[CHOOSE n \in hits : \A m \in hits : n <= m]
      r == Select(vh.routes, LAMBDA q : q.cluster = c)[1]
  IN  IF hits = {} THEN NoRoute
      ELSE [domain |-> IF vh.domain = Star THEN None ELSE vh.domain,
            prefix |-> r.prefix, rewrite |-> r.rewrite, timeout |-> r.timeout]

\* The first route to cluster c, and the domain and the prefix it was given: a
\* prefix of its own is rewritten, the "/" of a domain is not.
FindRemoteRoute(vhosts, c) ==
  LET hits == {n \in 1..Len(vhosts) :
                 \E r \in 1..Len(vhosts[n].routes) : vhosts[n].routes[r].cluster = c}
      vh == vhosts[CHOOSE n \in hits : \A m \in hits : n <= m]
      r == Select(vh.routes, LAMBDA q : q.cluster = c)[1]
  IN  IF hits = {} THEN NoRoute
      ELSE [domain |-> IF vh.domain = Star THEN None ELSE vh.domain,
            prefix |-> IF vh.domain = Star \/ r.slash THEN r.prefix ELSE None,
            rewrite |-> r.rewrite, timeout |-> r.timeout]

Mine(clusters) == Select(clusters, LAMBDA c : c.name \notin {EnvoyAdmin, DefaultApp})

\* A backend as its cluster and its route show it.
Recovered(c, info) ==
  [name |-> c.name, host |-> c.host, tls |-> c.sni # None, connect |-> c.connect,
   domain |-> info.domain, prefix |-> info.prefix, rewrite |-> info.rewrite,
   timeout |-> IF info = NoRoute THEN DefaultTimeout ELSE info.timeout,
   http2 |-> FALSE, gzip |-> FALSE]

RecoveredBackends(clusters, vhosts) ==
  LET mine == Mine(clusters)
  IN  [n \in 1..Len(mine) |-> Recovered(mine[n], FindRemoteRoute(vhosts, mine[n].name))]

\* A line of the table, its route as domain and prefix.
Line(name, host, tls, route) ==
  [name |-> name, host |-> host, tls |-> tls, route |-> <<route.domain, route.prefix>>]

ListLocal(bs) == [n \in 1..Len(bs) |-> Line(bs[n].name, bs[n].host, bs[n].tls, bs[n])]

ListRemote(clusters, vhosts) ==
  LET mine == Mine(clusters)
  IN  [n \in 1..Len(mine) |->
         Line(mine[n].name, mine[n].host, mine[n].sni # None, FindRemoteRoute(vhosts, mine[n].name))]

ParseRemoteFaults(runtime) ==
  [t \in {k[2] : k \in DOMAIN runtime} |->
     [d \in Dimension |-> IF <<d, t>> \in DOMAIN runtime THEN runtime[<<d, t>>] ELSE 0]]
-----------------------------------------------------------------------------
(* The commands                                                            *)

\* A plausible bug: the list is not the one in the file.
AddBackendAlone(b) ==
  /\ backends' = <<b>>
  /\ UNCHANGED faults

\* A plausible bug: the entry of that name stays.
AddBackendTwice(b) ==
  /\ backends' = Append(backends, b)
  /\ UNCHANGED faults

\* add-backend: a backend of that name is replaced, and moves to the end.
AddBackend(b) ==
  /\ ValidDuration(b.connect) /\ ValidDuration(b.timeout)
  /\ backends' = Append(Select(backends, LAMBDA c : c.name # b.name), b)
  /\ UNCHANGED faults

\* remove-backend: refused unless there is one of that name.
RemoveBackend(n) ==
  /\ \E m \in 1..Len(backends) : backends[m].name = n
  /\ backends' = Select(backends, LAMBDA c : c.name # n)
  /\ UNCHANGED faults

Faults(t) == IF t \in DOMAIN faults THEN faults[t] ELSE NoFault

WithFault(t, f) == [u \in DOMAIN faults \cup {t} |-> IF u = t THEN f ELSE faults[u]]

FaultAbort(t, p, s) ==
  /\ ValidPercent(p) /\ ValidHTTPStatus(s)
  /\ faults' = WithFault(t, [Faults(t) EXCEPT !["abort_percent"] = p, !["abort_status"] = s])
  /\ UNCHANGED backends

FaultDelay(t, p, d) ==
  /\ ValidPercent(p) /\ ValidNonNegative(d)
  /\ faults' = WithFault(t, [Faults(t) EXCEPT !["delay_percent"] = p, !["delay_duration"] = d])
  /\ UNCHANGED backends

FaultReset(t) ==
  /\ faults' = [u \in DOMAIN faults \ {t} |-> faults[u]]
  /\ UNCHANGED backends

Fault(t) ==
  \/ \E p \in Percent, s \in Status : FaultAbort(t, p, s)
  \/ \E p \in Percent, d \in Millis : FaultDelay(t, p, d)
  \/ FaultReset(t)

\* generate-values --force, when what was last pushed is what values.yaml says.
GenerateValues ==
  /\ backends' = RecoveredBackends(BuildCDS(backends), BuildLDS(backends))
  /\ faults' = ParseRemoteFaults(BuildRuntime(faults))

Next ==
  \/ (\E n \in Name : RemoveBackend(n)) \/ \E b \in Offer : AddBackend(b)
  \/ \E t \in Target : Fault(t)
  \/ GenerateValues

Spec == Init /\ [][Next]_vars
-----------------------------------------------------------------------------
(* Envoy (external)                                                        *)

Distinct(s) == \A m, n \in 1..Len(s) : s[m] = s[n] => m = n

\* Envoy takes the clusters if their names differ, and the listener if the names
\* and the domains of its virtual hosts do and every route has its cluster.
Accepts(clusters, vhosts) ==
  /\ Distinct([n \in 1..Len(clusters) |-> clusters[n].name])
  /\ Distinct([n \in 1..Len(vhosts) |-> vhosts[n].name])
  /\ Distinct([n \in 1..Len(vhosts) |-> vhosts[n].domain])
  /\ \A n \in 1..Len(vhosts) : \A r \in 1..Len(vhosts[n].routes) :
       \E m \in 1..Len(clusters) : clusters[m].name = vhosts[n].routes[r].cluster

\* The routes that match a request, best first: those of the virtual host with
\* the request's host, or of the one for "*".
Matching(vhosts, host, path) ==
  LET own == Select(vhosts, LAMBDA v : v.domain = host)
      any == Select(vhosts, LAMBDA v : v.domain = Star)
      vh == IF own # << >> THEN own[1] ELSE any[1]
  IN  Select(vh.routes, LAMBDA r : IsPrefix(r.prefix, path))

\* The cluster a request reaches; None is a 404.
Reaches(vhosts, host, path) ==
  LET rs == Matching(vhosts, host, path) IN IF rs = << >> THEN None ELSE rs[1].cluster

\* What the fault filter does to a request: the share it aborts and the status,
\* the share it delays and for how long.  A key that is not there leaves the
\* route's own setting: 0%, 503, 0%, 2s.
Default == [abort_percent |-> 0, abort_status |-> 503, delay_percent |-> 0, delay_duration |-> 2000]

Suffers(vhosts, runtime, host, path) ==
  LET rs == Matching(vhosts, host, path)
      get(d) == IF <<d, rs[1].fault>> \in DOMAIN runtime
                  THEN runtime[<<d, rs[1].fault>>] ELSE Default[d]
      aborts == IF get("abort_percent") = 0 THEN << >>
                  ELSE <<get("abort_percent"), get("abort_status")>>
      delays == IF get("delay_percent") = 0 \/ get("delay_duration") = 0 THEN << >>
                  ELSE <<get("delay_percent"), get("delay_duration")>>
  IN  IF rs = << >> THEN <<<< >>, << >>>> ELSE <<aborts, delays>>
-----------------------------------------------------------------------------
\* Type invariant; names are unique (add_backend.go, "must be unique").
TypeOK ==
  /\ \A n \in 1..Len(backends) : backends[n] \in Backend
  /\ Distinct([n \in 1..Len(backends) |-> backends[n].name])
  /\ DOMAIN faults \subseteq Target
  /\ \A t \in DOMAIN faults :
       /\ DOMAIN faults[t] = Dimension
       /\ \A d \in {"abort_percent", "delay_percent"} : ValidPercent(faults[t][d])
       /\ faults[t]["abort_status"] = 0 \/ ValidHTTPStatus(faults[t]["abort_status"])
       /\ ValidNonNegative(faults[t]["delay_duration"])

\* What is rendered from these backends is taken.
Accepted(bs) == Accepts(BuildCDS(bs), BuildLDS(bs))

\* Where each request goes, and what the fault filter does to it.
Request == Host \X Path

Traffic(bs) ==
  LET vhosts == BuildLDS(bs) IN [q \in Request |-> Reaches(vhosts, q[1], q[2])]

Behaviour(bs, fs) ==
  LET vhosts == BuildLDS(bs)
      runtime == BuildRuntime(fs)
  IN  [q \in Request |-> Suffers(vhosts, runtime, q[1], q[2])]

\* What an operator has to mind, because no command does: the built-in names,
\* the name of the catch-all virtual host, "*", and one domain per backend.
Disciplined ==
  /\ \A n \in 1..Len(backends) :
       /\ backends[n].name \notin {EnvoyAdmin, DefaultApp}
       /\ backends[n].domain # Star
       /\ backends[n].domain # None => backends[n].name # CatchAll
  /\ \A m, n \in 1..Len(backends) :
       backends[m].domain = backends[n].domain /\ backends[m].domain # None => m = n

\* Envoy takes the rendered files exactly if the operator kept to that.
AcceptedIfDisciplined == Accepted(backends) <=> Disciplined

\* Where the user guide says a request goes (docs/index.html:517-534): to the
\* backend that has its host for a domain, or nowhere if that backend also has a
\* prefix and the path is outside it; else to the first backend without a domain
\* whose prefix it is under; else to default_app.
Documented(host, path) ==
  LET owners == Select(backends, LAMBDA b : b.domain = host)
      under == Select(backends, LAMBDA b :
                 b.domain = None /\ b.prefix # None /\ IsPrefix(b.prefix, path))
  IN  CASE owners # << >> -> IF owners[1].prefix = None \/ IsPrefix(owners[1].prefix, path)
                               THEN owners[1].name ELSE None
        [] owners = << >> /\ under # << >> -> under[1].name
        [] OTHER -> DefaultApp

\* Every request goes where the user guide says, whatever commands led here.
RoutesAsDocumented ==
  Accepted(backends) => \A q \in Request : Traffic(backends)[q] = Documented(q[1], q[2])

\* list-backends --remote, run on what was pushed, prints the table that
\* list-backends does: the drift it shows is real (list_backends.go:54-59).
ListsAgree ==
  Accepted(backends) => ListRemote(BuildCDS(backends), BuildLDS(backends)) = ListLocal(backends)

\* Adding, replacing or removing a backend moves only requests that go to it
\* before or after, or whose host is its domain, although it reorders the list.
NeighboursKeepTraffic ==
  [][LET before == Traffic(backends)
         after == Traffic(backends')
         own(n) == {b.domain : b \in {b \in ToSet(backends) \cup ToSet(backends') : b.name = n}}
         edits(n) == RemoveBackend(n) \/ \E b \in Offer : b.name = n /\ AddBackend(b)
     IN  backends' # backends /\ Accepted(backends) /\ Accepted(backends') /\ before # after =>
           \A n \in Name : edits(n) =>
             \A q \in Request :
               before[q] = after[q] \/ n \in {before[q], after[q]} \/ q[1] \in own(n)]_vars

\* "Faulting one backend does not affect any other's traffic" (docs/index.html:581).
FaultIsolation ==
  [][LET before == Behaviour(backends, faults)
         after == Behaviour(backends, faults')
     IN  faults' # faults /\ UNCHANGED backends /\ Accepted(backends) /\ before # after =>
           \A t \in Target : Fault(t) =>
             \A q \in Request : before[q] = after[q] \/ Traffic(backends)[q] = t]_vars

\* What the fault commands asked for t.
Commanded(t) ==
  LET f == Faults(t) IN
  <<IF f["abort_percent"] = 0 THEN << >> ELSE <<f["abort_percent"], f["abort_status"]>>,
    IF f["delay_percent"] = 0 \/ f["delay_duration"] = 0 THEN << >>
      ELSE <<f["delay_percent"], f["delay_duration"]>>>>

\* A target without a route has no traffic; every other one gets what was asked
\* for it, "--duration-ms 0 ... the CLI's own way of expressing no delay"
\* (root.go:66-69) included.
FaultsAsCommanded ==
  Accepted(backends) => \A q \in Request :
    LET t == Traffic(backends)[q] IN t # None => Behaviour(backends, faults)[q] = Commanded(t)

\* The same, but for a share of requests to be delayed by 0 ms.
FaultsTakeEffect ==
  Accepted(backends) => \A q \in Request :
    LET t == Traffic(backends)[q]
    IN  t # None /\ ~(Faults(t)["delay_percent"] # 0 /\ Faults(t)["delay_duration"] = 0)
          => Behaviour(backends, faults)[q] = Commanded(t)

\* What the rendered files are, but for the protocol to the upstream and the
\* compression of responses.
Plain(bs) == [n \in 1..Len(bs) |-> [bs[n] EXCEPT !.http2 = FALSE, !.gzip = FALSE]]

\* generate-values, run on what was pushed, yields a values.yaml from which the
\* same files would be pushed again, but for those two.
GenerateRestores ==
  [][Accepted(backends) /\ GenerateValues =>
       /\ BuildCDS(backends') = BuildCDS(Plain(backends))
       /\ BuildLDS(backends') = BuildLDS(Plain(backends))
       /\ BuildRuntime(faults') = BuildRuntime(faults)]_vars

\* "It's the same backend list and fault state you'd get by re-running the
\* add-backend/fault commands that produced it" (generate_values.go:23-27).
GenerateIsExact ==
  [][Accepted(backends) /\ GenerateValues =>
       /\ BuildCDS(backends') = BuildCDS(backends)
       /\ BuildLDS(backends') = BuildLDS(backends)]_vars
=============================================================================
