------------------------------ MODULE MCValues ------------------------------
(* Values with three names, one of them built in, and seven kinds of backend.  *)
EXTENDS Values, FiniteSets

CONSTANTS n1, host, site, other

Kind(n, domain, prefix, http2) ==
  [name |-> n, host |-> host, tls |-> http2, domain |-> domain, prefix |-> prefix,
   rewrite |-> IF domain = None THEN None ELSE host, http2 |-> http2,
   gzip |-> domain = None /\ http2, connect |-> 5000, timeout |-> 30000]

MCName == {n1, CatchAll, DefaultApp}
MCOffer ==
  UNION {{Kind(n, site, None, TRUE), Kind(n, site, <<"a">>, FALSE), Kind(n, site, Root, FALSE),
          Kind(n, Star, None, FALSE),
          Kind(n, None, <<"a">>, TRUE), Kind(n, None, Root, FALSE), Kind(n, None, None, FALSE),
          [Kind(n, site, None, TRUE) EXCEPT !.timeout = 0]} : n \in MCName}
MCMillis == {-1, 0, 1}
MCPath == {Root, <<"a", "b">>}
MCHost == {site, other}

\* The bound: three backends and faulted targets together.
Small == Len(backends) + Cardinality(DOMAIN faults) <= 3
=============================================================================
