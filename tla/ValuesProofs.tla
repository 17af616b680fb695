---------------------------- MODULE ValuesProofs ----------------------------
(***************************************************************************)
(* Proofs about values.yaml, what is rendered from it and what Envoy does  *)
(* with that, for any names, backends and requests and lists of any        *)
(* length.                                                                 *)
(***************************************************************************)
EXTENDS Values, SequenceTheorems, WellFoundedInduction, TLAPS

-----------------------------------------------------------------------------
(* Induction, and what Pick picks                                          *)

\* Of the naturals in a set one is the least.
LEMMA LeastNatural ==
  ASSUME NEW T \in SUBSET Nat, T # {}
  PROVE  \E x \in T : \A y \in T : x <= y
<1> DEFINE R == {pair \in Nat \X Nat : pair[1] < pair[2]}
<1>1. IsWellFoundedOn(R, Nat)
  BY NatLessThanWellFounded DEF OpToRel
<1>2. PICK x \in T : \A y \in T : <<y, x>> \notin R
  <2> HIDE DEF R
  <2> QED
    BY <1>1, WFMin
<1>3. \A y \in T : ~(y < x)
  BY <1>2
<1>4. \A y \in T : x <= y
  BY <1>3
<1> QED
  BY <1>4

LEMMA NaturalInduction ==
  ASSUME NEW T, 0 \in T, \A n \in Nat : n \in T => n + 1 \in T
  PROVE  Nat \subseteq T
<1> SUFFICES ASSUME Nat \ T # {} PROVE FALSE
  OBVIOUS
<1>1. PICK x \in Nat \ T : \A y \in Nat \ T : x <= y
  BY LeastNatural
<1>2. x # 0 /\ x - 1 \in Nat /\ x = (x - 1) + 1
  BY <1>1
<1>3. x - 1 \in T
  BY <1>1, <1>2
<1> QED
  BY <1>1, <1>2, <1>3

\* The function that Pick is defined by, up to N.
Steps(F, s, P, N) ==
  F = [n \in 0..N |->
         IF n = 0 THEN << >> ELSE IF n \in P THEN Append(F[n - 1], s[n]) ELSE F[n - 1]]

LEMMA StepsExist ==
  ASSUME NEW s, NEW P, NEW N \in Nat
  PROVE  \E F : Steps(F, s, P, N)
<1> DEFINE T == {M \in Nat : \E F : Steps(F, s, P, M)}
<1>1. 0 \in T
  <2>1. Steps([n \in 0..0 |-> << >>], s, P, 0)
    BY DEF Steps
  <2> QED
    BY <2>1
<1>2. ASSUME NEW M \in Nat, M \in T PROVE M + 1 \in T
  <2>1. PICK F : Steps(F, s, P, M)
    BY <1>2
  <2> DEFINE last == IF M + 1 \in P THEN Append(F[M], s[M + 1]) ELSE F[M]
             G == [n \in 0..M + 1 |-> IF n = M + 1 THEN last ELSE F[n]]
  <2>2. Steps(G, s, P, M + 1)
    <3>1. \A n \in 0..M + 1 : n # M + 1 => n \in 0..M /\ (n # 0 => n - 1 \in 0..M)
      OBVIOUS
    <3>2. \A n \in 0..M :
            F[n] = IF n = 0 THEN << >> ELSE IF n \in P THEN Append(F[n - 1], s[n]) ELSE F[n - 1]
      BY <2>1 DEF Steps
    <3>3. ASSUME NEW n \in 0..M + 1
          PROVE  G[n] = IF n = 0 THEN << >>
                        ELSE IF n \in P THEN Append(G[n - 1], s[n]) ELSE G[n - 1]
      BY <3>1, <3>2
    <3> QED
      BY <3>3 DEF Steps
  <2> QED
    BY <2>2
<1> HIDE DEF T
<1>3. Nat \subseteq T
  BY <1>1, <1>2, NaturalInduction
<1> QED
  BY <1>3 DEF T

LEMMA PickSteps ==
  ASSUME NEW s, NEW P, Len(s) \in Nat
  PROVE  \E F : Steps(F, s, P, Len(s)) /\ Pick(s, P) = F[Len(s)]
<1> DEFINE F == CHOOSE G : G = [n \in 0..Len(s) |->
                                  IF n = 0 THEN << >> ELSE IF n \in P THEN Append(G[n - 1], s[n])
                                                      ELSE G[n - 1]]
<1>1. \E G : G = [n \in 0..Len(s) |->
                    IF n = 0 THEN << >> ELSE IF n \in P THEN Append(G[n - 1], s[n]) ELSE G[n - 1]]
  <2>1. PICK G : Steps(G, s, P, Len(s))
    BY StepsExist
  <2> QED
    BY <2>1, Zenon DEF Steps
<1>2. F = [n \in 0..Len(s) |->
             IF n = 0 THEN << >> ELSE IF n \in P THEN Append(F[n - 1], s[n]) ELSE F[n - 1]]
  BY <1>1, Zenon
<1>3. Pick(s, P) = F[Len(s)]
  BY DEF Pick
<1> HIDE DEF F
<1> QED
  BY <1>2, <1>3 DEF Steps

LEMMA StepsSay ==
  ASSUME NEW s, NEW P, NEW N \in Nat, NEW F, Steps(F, s, P, N)
  PROVE  /\ F[0] = << >>
         /\ \A n \in 1..N : F[n] = IF n \in P THEN Append(F[n - 1], s[n]) ELSE F[n - 1]
<1>1. \A n \in 0..N :
        F[n] = IF n = 0 THEN << >> ELSE IF n \in P THEN Append(F[n - 1], s[n]) ELSE F[n - 1]
  BY DEF Steps
<1>2. 0 \in 0..N /\ \A n \in 1..N : n \in 0..N /\ n # 0
  OBVIOUS
<1> QED
  BY <1>1, <1>2

\* f goes through the m numbers of P, from the least to the greatest.
Orders(f, m, P) ==
  /\ m \in Nat /\ f \in [1..m -> P]
  /\ \A j, k \in 1..m : j < k => f[j] < f[k]
  /\ \A n \in P : \E k \in 1..m : f[k] = n

\* t lists the elements of s at the positions in P, and f says where each is from.
Lists(t, s, P, f) == Orders(f, Len(t), P) /\ \A k \in 1..Len(t) : t[k] = s[f[k]]

LEMMA PickLists ==
  ASSUME NEW S, NEW s \in Seq(S), NEW P \in SUBSET (1..Len(s))
  PROVE  Pick(s, P) \in Seq(S) /\ \E f : Lists(Pick(s, P), s, P, f)
<1>0. Len(s) \in Nat
  BY LenProperties
<1>1. PICK F : Steps(F, s, P, Len(s)) /\ Pick(s, P) = F[Len(s)]
  BY <1>0, PickSteps
<1>2. /\ F[0] = << >>
      /\ \A n \in 1..Len(s) : F[n] = IF n \in P THEN Append(F[n - 1], s[n]) ELSE F[n - 1]
  BY <1>0, <1>1, StepsSay
<1> DEFINE Good(M) == F[M] \in Seq(S) /\ \E f : Lists(F[M], s, P \cap (1..M), f)
           T == {M \in Nat : M <= Len(s) => Good(M)}
<1> HIDE DEF T, Good
<1>3. 0 \in T
  <2>1. Lists(<< >>, s, {}, << >>)
    BY DEF Lists, Orders
  <2>2. P \cap (1..0) = {}
    OBVIOUS
  <2>3. << >> \in Seq(S)
    BY EmptySeq
  <2>4. Good(0)
    BY <1>2, <2>1, <2>2, <2>3 DEF Good
  <2> QED
    BY <2>4 DEF T
<1>4. ASSUME NEW M \in Nat, M \in T PROVE M + 1 \in T
  <2> SUFFICES ASSUME M + 1 <= Len(s) PROVE Good(M + 1)
    BY DEF T
  <2>0. Good(M) /\ M + 1 \in 1..Len(s) /\ M = (M + 1) - 1
    BY <1>0, <1>4 DEF T
  <2>1. F[M] \in Seq(S) /\ s[M + 1] \in S
    BY <2>0, ElementOfSeq DEF Good
  <2>2. PICK f : Lists(F[M], s, P \cap (1..M), f)
    BY <2>0 DEF Good
  <2>3. CASE M + 1 \notin P
    <3>1. F[M + 1] = F[M]
      BY <1>2, <2>0, <2>3
    <3>2. P \cap (1..M + 1) = P \cap (1..M)
      BY <2>3
    <3> QED
      BY <2>1, <2>2, <3>1, <3>2 DEF Good
  <2>4. CASE M + 1 \in P
    <3> DEFINE t == F[M]
               u == Append(t, s[M + 1])
               g == [k \in 1..Len(u) |-> IF k = Len(u) THEN M + 1 ELSE f[k]]
    <3>1. F[M + 1] = u
      BY <1>2, <2>0, <2>4
    <3>2. /\ u \in Seq(S) /\ Len(u) = Len(t) + 1 /\ Len(t) \in Nat
          /\ u[Len(u)] = s[M + 1] /\ \A k \in 1..Len(t) : u[k] = t[k]
      BY <2>1, AppendProperties
    <3>3. P \cap (1..M + 1) = (P \cap (1..M)) \cup {M + 1}
      BY <2>4
    <3>4. /\ f \in [1..Len(t) -> P \cap (1..M)]
          /\ \A k \in 1..Len(t) : t[k] = s[f[k]]
          /\ \A j, k \in 1..Len(t) : j < k => f[j] < f[k]
          /\ \A n \in P \cap (1..M) : \E k \in 1..Len(t) : f[k] = n
      BY <2>2 DEF Lists, Orders
    <3> HIDE DEF u, t
    <3>5. Lists(u, s, P \cap (1..M + 1), g)
      <4>1. \A k \in 1..Len(u) : k # Len(u) => k \in 1..Len(t)
        BY <3>2
      <4>2. g \in [1..Len(u) -> P \cap (1..M + 1)]
        BY <3>3, <3>4, <4>1
      <4>3. \A k \in 1..Len(u) : u[k] = s[g[k]]
        BY <3>2, <3>4, <4>1
      <4>4. \A j, k \in 1..Len(u) : j < k => g[j] < g[k]
        <5> SUFFICES ASSUME NEW j \in 1..Len(u), NEW k \in 1..Len(u), j < k PROVE g[j] < g[k]
          OBVIOUS
        <5>1. j \in 1..Len(t) /\ f[j] \in 1..M
          BY <3>2, <3>4
        <5> QED
          BY <3>2, <3>4, <4>1, <5>1
      <4>5. \A n \in P \cap (1..M + 1) : \E k \in 1..Len(u) : g[k] = n
        <5>1. Len(u) \in 1..Len(u) /\ g[Len(u)] = M + 1
          BY <3>2
        <5>2. ASSUME NEW n \in P \cap (1..M) PROVE \E k \in 1..Len(u) : g[k] = n
          <6>1. PICK k \in 1..Len(t) : f[k] = n
            BY <3>4
          <6>2. k \in 1..Len(u) /\ g[k] = n
            BY <3>2, <6>1
          <6> QED
            BY <6>2
        <5> QED
          BY <3>3, <5>1, <5>2
      <4> QED
        BY <3>2, <4>2, <4>3, <4>4, <4>5 DEF Lists, Orders
    <3> QED
      BY <3>1, <3>2, <3>5 DEF Good
  <2> QED
    BY <2>3, <2>4
<1>5. Nat \subseteq T
  BY <1>3, <1>4, NaturalInduction
<1>7. Good(Len(s))
  BY <1>0, <1>5 DEF T
<1>6. P \cap (1..Len(s)) = P
  OBVIOUS
<1> QED
  BY <1>1, <1>6, <1>7 DEF Good

LEMMA PickNone == ASSUME NEW S, NEW s \in Seq(S) PROVE Pick(s, {}) = << >>
<1>1. PICK f : Pick(s, {}) \in Seq(S) /\ Lists(Pick(s, {}), s, {}, f)
  BY PickLists
<1> DEFINE t == Pick(s, {})
<1>2. Len(t) \in Nat /\ f \in [1..Len(t) -> {}]
  BY <1>1 DEF Lists, Orders
<1>3. Len(t) = 0
  <2>1. 1 \notin 1..Len(t)
    BY <1>2
  <2> QED
    BY <1>2, <2>1
<1> QED
  BY <1>1, <1>3, EmptySeq

LEMMA PickFirst ==
  ASSUME NEW S, NEW s \in Seq(S), NEW P \in SUBSET (1..Len(s)),
         NEW m \in P, \A n \in P : m <= n
  PROVE  Pick(s, P) # << >> /\ 1 \in 1..Len(Pick(s, P)) /\ Pick(s, P)[1] = s[m]
<1> DEFINE t == Pick(s, P)
<1>1. PICK f : t \in Seq(S) /\ Lists(t, s, P, f)
  BY PickLists
<1> HIDE DEF t
<1>2. /\ Len(t) \in Nat /\ f \in [1..Len(t) -> P] /\ \A k \in 1..Len(t) : t[k] = s[f[k]]
      /\ \A j, k \in 1..Len(t) : j < k => f[j] < f[k]
  BY <1>1 DEF Lists, Orders
<1>3. PICK k \in 1..Len(t) : f[k] = m
  BY <1>1 DEF Lists, Orders
<1>4. k = 1
  <2> SUFFICES ASSUME k # 1 PROVE FALSE
    OBVIOUS
  <2>1. 1 \in 1..Len(t) /\ 1 < k
    BY <1>2, <1>3
  <2>2. f[1] < m /\ m <= f[1]
    BY <1>2, <1>3, <2>1
  <2>3. m \in Int /\ f[1] \in Int
    <3>1. Len(s) \in Nat
      BY LenProperties
    <3>2. P \subseteq Int
      BY <3>1
    <3>3. f[1] \in P
      BY <1>2, <2>1
    <3> QED
      BY <3>2, <3>3
  <2> QED
    BY <2>2, <2>3
<1>5. t # << >>
  BY <1>1, <1>3, EmptySeq
<1> QED
  BY <1>2, <1>3, <1>4, <1>5 DEF t

\* There is one way only to go through a set of numbers.
LEMMA OrdersAgree ==
  ASSUME NEW P \in SUBSET Nat, NEW f, NEW g, NEW m, NEW n, Orders(f, m, P), Orders(g, n, P)
  PROVE  m <= n /\ \A k \in 1..m : f[k] = g[k]
<1>0. /\ m \in Nat /\ f \in [1..m -> P] /\ \A j, k \in 1..m : j < k => f[j] < f[k]
      /\ n \in Nat /\ g \in [1..n -> P] /\ \A j, k \in 1..n : j < k => g[j] < g[k]
  BY DEF Orders
<1>1. ASSUME NEW k \in 1..m PROVE k \in 1..n /\ f[k] = g[k]
  <2> DEFINE T == {j \in 1..m : ~(j \in 1..n /\ f[j] = g[j])}
  <2> SUFFICES ASSUME T # {} PROVE FALSE
    OBVIOUS
  <2>1. T \in SUBSET Nat
    BY <1>0
  <2>2. PICK x \in T : \A y \in T : x <= y
    BY <2>1, LeastNatural
  <2>3. x \in 1..m /\ \A j \in 1..m : j < x => j \in 1..n /\ f[j] = g[j]
    BY <1>0, <2>2
  <2>4. PICK i \in 1..n : g[i] = f[x]
    BY <2>3, <1>0 DEF Orders
  <2>5. ~(i < x)
    <3> SUFFICES ASSUME i < x PROVE FALSE
      OBVIOUS
    <3>1. i \in 1..m
      BY <1>0, <2>3
    <3>2. f[i] < f[x] /\ f[i] = g[i] /\ f[x] \in Nat
      BY <1>0, <2>3, <3>1
    <3> QED
      BY <2>4, <3>2
  <2>6. x \in 1..n /\ x < i
    <3>1. x \in Nat /\ i \in Nat /\ x <= i /\ x \in 1..n
      BY <1>0, <2>3, <2>4, <2>5
    <3>2. x # i
      BY <2>2, <2>4, <3>1
    <3> QED
      BY <3>1, <3>2
  <2>7. g[x] < f[x] /\ g[x] \in P /\ f[x] \in Nat
    BY <1>0, <2>3, <2>4, <2>6
  <2>8. PICK j \in 1..m : f[j] = g[x]
    BY <2>7 DEF Orders
  <2>9. j < x
    <3>0. j \in Nat /\ x \in Nat
      BY <1>0, <2>3, <2>8
    <3>5. f[j] \in Nat /\ f[j] < f[x]
      BY <2>7, <2>8
    <3>1. j \in Nat /\ x \in Nat /\ f[j] < f[x] /\ f[x] \in Nat /\ f[j] \in Nat
      BY <2>7, <3>0, <3>5
    <3>2. x < j => f[x] < f[j]
      BY <1>0, <2>3, <2>8
    <3>3. x # j
      BY <3>1
    <3>4. ~(x < j)
      BY <3>1, <3>2
    <3> QED
      BY <3>1, <3>3, <3>4
  <2>10. g[j] < g[x] /\ g[j] = g[x] /\ g[x] \in Nat
    BY <1>0, <2>3, <2>6, <2>8, <2>9
  <2> QED
    BY <2>10
<1>2. m <= n
  <2>1. CASE m = 0
    BY <1>0, <2>1
  <2>2. CASE m # 0
    <3>1. m \in 1..m
      BY <1>0, <2>2
    <3>2. m \in 1..n
      BY <1>1, <3>1
    <3> QED
      BY <1>0, <3>2
  <2> QED
    BY <2>1, <2>2
<1> QED
  BY <1>1, <1>2
-----------------------------------------------------------------------------
(* What the rendered listener consists of                                  *)

\* The positions of the backends with a domain, and of those with a prefix only.
Owning(bs) == {n \in 1..Len(bs) : bs[n].domain # None}
Shared(bs) == {n \in 1..Len(bs) : bs[n].domain = None /\ bs[n].prefix # None}

HostOf(b) == [name |-> b.name, domain |-> b.domain, routes |-> <<Route(b)>>]

RouteSet == {Route(b) : b \in Backend} \cup {Fallback}

\* Hosts f[1] to f[a] of their own, and a catch-all one with routes g[1] to g[c].
Listener(v, bs, f, a, g, c) ==
  /\ Orders(f, a, Owning(bs)) /\ Orders(g, c, Shared(bs))
  /\ Len(v) = a + 1 /\ (\E S : v \in Seq(S)) /\ \A k \in 1..a : v[k] = HostOf(bs[f[k]])
  /\ v[a + 1].name = CatchAll /\ v[a + 1].domain = Star
  /\ v[a + 1].routes \in Seq(RouteSet) /\ Len(v[a + 1].routes) = c + 1
  /\ \A k \in 1..c : v[a + 1].routes[k] = Route(bs[g[k]])
  /\ v[a + 1].routes[c + 1] = Fallback

\* A sequence made of the images of another, with one more at the end.
LEMMA AppendImages ==
  ASSUME NEW S, NEW m \in Nat, NEW s \in [1..m -> S], NEW e \in S
  PROVE  /\ Append(s, e) \in Seq(S) /\ Len(Append(s, e)) = m + 1
         /\ \A k \in 1..m : Append(s, e)[k] = s[k]
         /\ Append(s, e)[m + 1] = e
<1>1. s \in Seq(S)
  BY SeqDef
<1>2. DOMAIN s = 1..m
  OBVIOUS
<1>3. Len(s) = m
  BY <1>1, <1>2, LenProperties
<1> QED
  BY <1>1, <1>3, AppendProperties

LEMMA ListenerOf ==
  ASSUME NEW bs \in Seq(Backend)
  PROVE  \E f, a, g, c : Listener(BuildLDS(bs), bs, f, a, g, c)
<1> DEFINE owning == Pick(bs, Owning(bs))
           shared == Pick(bs, Shared(bs))
           hosts == [n \in 1..Len(owning) |-> HostOf(owning[n])]
           routes == [n \in 1..Len(shared) |-> Route(shared[n])]
           last == [name |-> CatchAll, domain |-> Star, routes |-> Append(routes, Fallback)]
<1>1. BuildLDS(bs) = Append(hosts, last)
  BY Zenon DEF BuildLDS, Select, Owning, Shared, HostOf
<1>2. PICK f : owning \in Seq(Backend) /\ Lists(owning, bs, Owning(bs), f)
  BY PickLists DEF Owning
<1>3. PICK g : shared \in Seq(Backend) /\ Lists(shared, bs, Shared(bs), g)
  BY PickLists DEF Shared
<1> HIDE DEF owning, shared
<1>4. Len(owning) \in Nat /\ Len(shared) \in Nat
  BY <1>2, <1>3, LenProperties
<1>5. \A n \in 1..Len(shared) : shared[n] \in Backend
  BY <1>3, ElementOfSeq
<1>6. routes \in [1..Len(shared) -> RouteSet] /\ Fallback \in RouteSet
  BY <1>5 DEF RouteSet
<1>7. /\ last.routes \in Seq(RouteSet) /\ Len(last.routes) = Len(shared) + 1
      /\ \A k \in 1..Len(shared) : last.routes[k] = routes[k]
      /\ last.routes[Len(shared) + 1] = Fallback
  <2> HIDE DEF routes
  <2> QED
    BY <1>4, <1>6, AppendImages
<1>8. \A k \in 1..Len(shared) : routes[k] = Route(bs[g[k]])
  BY <1>3 DEF Lists
<1>9. \A k \in 1..Len(owning) : hosts[k] = HostOf(bs[f[k]])
  BY <1>2 DEF Lists
<1>10. last.name = CatchAll /\ last.domain = Star
  OBVIOUS
<1> DEFINE S == {hosts[k] : k \in 1..Len(owning)} \cup {last}
           v == Append(hosts, last)
<1>11. hosts \in [1..Len(owning) -> S] /\ last \in S
  OBVIOUS
<1> HIDE DEF hosts, last, S
<1>12. /\ Len(v) = Len(owning) + 1 /\ \A k \in 1..Len(owning) : v[k] = hosts[k]
       /\ v[Len(owning) + 1] = last /\ v \in Seq(S)
  BY <1>4, <1>11, AppendImages
<1> HIDE DEF v, routes
<1>13. Listener(v, bs, f, Len(owning), g, Len(shared))
  BY <1>2, <1>3, <1>7, <1>8, <1>9, <1>10, <1>12 DEF Listener, Lists
<1> QED
  BY <1>1, <1>13 DEF v
\* Every virtual host has a domain of a backend or "*", and a list of routes.
LEMMA HostsTyped ==
  ASSUME NEW bs \in Seq(Backend), NEW n \in 1..Len(BuildLDS(bs))
  PROVE  /\ Len(BuildLDS(bs)) \in Nat
         /\ BuildLDS(bs)[n].routes \in Seq(RouteSet)
         /\ BuildLDS(bs)[n].domain \in {b.domain : b \in Offer} \cup {Star}
<1> DEFINE v == BuildLDS(bs)
<1>1. PICK f, a, g, c : Listener(v, bs, f, a, g, c)
  BY ListenerOf
<1> HIDE DEF v
<1>2. /\ a \in Nat /\ Len(v) = a + 1 /\ n \in 1..Len(v)
      /\ f \in [1..a -> Owning(bs)]
      /\ \A k \in 1..a : v[k] = HostOf(bs[f[k]])
  BY <1>1 DEF Listener, Orders, v
<1>3. CASE n = a + 1
  BY <1>1, <1>2, <1>3 DEF Listener, v
<1>4. CASE n # a + 1
  <2>1. n \in 1..a
    BY <1>2, <1>4
  <2>2. f[n] \in 1..Len(bs) /\ bs[f[n]].domain # None
    BY <1>2, <2>1 DEF Owning
  <2> DEFINE b == bs[f[n]]
  <2>3. b \in Backend /\ b.domain # None
    BY <2>2, ElementOfSeq
  <2> HIDE DEF b
  <2>4. b.domain \in {o.domain : o \in Offer} /\ Route(b) \in RouteSet
    BY <2>3 DEF Backend, RouteSet
  <2>5. <<Route(b)>> \in Seq(RouteSet)
    BY <2>4
  <2>6. v[n] = HostOf(b)
    BY <1>2, <2>1 DEF b
  <2> QED
    BY <1>2, <2>4, <2>5, <2>6 DEF HostOf, v
<1> QED
  BY <1>3, <1>4

-----------------------------------------------------------------------------
(* What generate-values and list-backends find                             *)

\* What FindRemoteRoute makes of route r in virtual host vh.
Found(vh, r) ==
  [domain |-> IF vh.domain = Star THEN None ELSE vh.domain,
   prefix |-> IF vh.domain = Star \/ r.slash THEN r.prefix ELSE None,
   rewrite |-> r.rewrite, timeout |-> r.timeout]

RoutedTo(vh, c) == {r \in 1..Len(vh.routes) : vh.routes[r].cluster = c}

LEMMA RouteMissing ==
  ASSUME NEW v, NEW c, \A n \in 1..Len(v) : RoutedTo(v[n], c) = {}
  PROVE  FindRemoteRoute(v, c) = NoRoute
<1>1. {n \in 1..Len(v) : \E r \in 1..Len(v[n].routes) : v[n].routes[r].cluster = c} = {}
  BY DEF RoutedTo
<1> QED
  BY <1>1, Zenon DEF FindRemoteRoute

LEMMA RouteTaken ==
  ASSUME NEW v, NEW c, Len(v) \in Nat, NEW h \in 1..Len(v),
         v[h].routes \in Seq(RouteSet), NEW j \in RoutedTo(v[h], c),
         \A i \in RoutedTo(v[h], c) : j <= i,
         \A n \in 1..Len(v) : RoutedTo(v[n], c) # {} => h <= n
  PROVE  FindRemoteRoute(v, c) = Found(v[h], v[h].routes[j])
<1> DEFINE hits == {n \in 1..Len(v) : \E r \in 1..Len(v[n].routes) : v[n].routes[r].cluster = c}
           x == CHOOSE n \in hits : \A m \in hits : n <= m
           r == Select(v[x].routes, LAMBDA q : q.cluster = c)[1]
<1>1. hits = {n \in 1..Len(v) : RoutedTo(v[n], c) # {}}
  BY DEF RoutedTo
<1>2. h \in hits /\ \A m \in hits : h <= m
  BY <1>1
<1>3. x \in hits /\ \A m \in hits : x <= m
  <2> HIDE DEF hits
  <2> QED
    BY <1>2
<1>4. x = h
  <2>1. hits \subseteq Int
    OBVIOUS
  <2> HIDE DEF hits, x
  <2>2. x <= h /\ h <= x /\ x \in Int /\ h \in Int
    BY <1>2, <1>3, <2>1
  <2> QED
    BY <2>2
<1>5. r = Pick(v[x].routes, RoutedTo(v[x], c))[1]
  BY DEF Select, RoutedTo
<1>6. Pick(v[h].routes, RoutedTo(v[h], c))[1] = v[h].routes[j]
  BY PickFirst DEF RoutedTo
<1>7. FindRemoteRoute(v, c) =
        IF hits = {} THEN NoRoute
        ELSE [domain |-> IF v[x].domain = Star THEN None ELSE v[x].domain,
              prefix |-> IF v[x].domain = Star \/ r.slash THEN r.prefix ELSE None,
              rewrite |-> r.rewrite, timeout |-> r.timeout]
  BY Zenon DEF FindRemoteRoute
<1> HIDE DEF hits, x, r
<1> QED
  BY <1>2, <1>4, <1>5, <1>6, <1>7 DEF Found

\* What is found is NoRoute, or a route's.
Findings ==
  [domain : {b.domain : b \in Offer} \cup {None}, prefix : {b.prefix : b \in Offer} \cup {None, Root},
   rewrite : {b.rewrite : b \in Offer} \cup {None},
   timeout : {b.timeout : b \in Offer} \cup {DefaultTimeout}]

LEMMA FindingTyped ==
  ASSUME NEW bs \in Seq(Backend), NEW c
  PROVE  FindRemoteRoute(BuildLDS(bs), c) \in Findings \cup {NoRoute}
<1> DEFINE v == BuildLDS(bs)
           T == {n \in 1..Len(v) : RoutedTo(v[n], c) # {}}
<1>1. CASE T = {}
  BY <1>1, RouteMissing
<1>2. CASE T # {}
  <2>1. Len(v) \in Nat
    BY <1>2, HostsTyped
  <2>2. T \in SUBSET Nat
    BY <2>1
  <2>3. PICK h \in T : \A n \in T : h <= n
    <3> HIDE DEF T
    <3> QED
      BY <1>2, <2>2, LeastNatural
  <2>4. v[h].routes \in Seq(RouteSet) /\ v[h].domain \in {b.domain : b \in Offer} \cup {Star}
    BY <2>3, HostsTyped
  <2>5. RoutedTo(v[h], c) \in SUBSET Nat /\ RoutedTo(v[h], c) # {}
    <3>1. Len(v[h].routes) \in Nat
      BY <2>4, LenProperties
    <3> QED
      BY <2>3, <3>1 DEF RoutedTo
  <2>6. PICK j \in RoutedTo(v[h], c) : \A i \in RoutedTo(v[h], c) : j <= i
    BY <2>5, LeastNatural
  <2> HIDE DEF v
  <2>7. FindRemoteRoute(v, c) = Found(v[h], v[h].routes[j])
    BY <2>1, <2>3, <2>4, <2>6, RouteTaken
  <2> DEFINE r == v[h].routes[j]
  <2>8. r \in RouteSet
    BY <2>4, <2>6, ElementOfSeq DEF RoutedTo
  <2> HIDE DEF r
  <2>9. /\ r.prefix \in {b.prefix : b \in Offer} \cup {None, Root}
        /\ r.rewrite \in {b.rewrite : b \in Offer} \cup {None}
        /\ r.timeout \in {b.timeout : b \in Offer} \cup {DefaultTimeout}
    <3>1. CASE r = Fallback
      BY <3>1 DEF Fallback
    <3>2. CASE r # Fallback
      <4>1. PICK b \in Backend : r = Route(b)
        BY <2>8, <3>2 DEF RouteSet
      <4> QED
        BY <4>1 DEF Route, Backend
    <3> QED
      BY <3>1, <3>2
  <2>10. Found(v[h], r) \in Findings
    BY <2>4, <2>9 DEF Found, Findings
  <2> QED
    BY <2>7, <2>10 DEF v, r
<1> QED
  BY <1>1, <1>2
LEMMA PairIsSeq ==
  ASSUME NEW S, NEW x \in S, NEW y \in S
  PROVE  <<x, y>> \in Seq(S) /\ Len(<<x, y>>) = 2
  OBVIOUS

LEMMA ClusterName == \A b : Cluster(b).name = b.name
  BY DEF Cluster

\* The clusters of a list of backends are the two built-in ones and theirs.
LEMMA ClustersOf ==
  ASSUME NEW bs \in Seq(Backend)
  PROVE  LET cs == BuildCDS(bs) IN
         /\ Len(bs) \in Nat /\ Len(cs) = Len(bs) + 2 /\ \E S : cs \in Seq(S)
         /\ cs[1].name = EnvoyAdmin /\ cs[2].name = DefaultApp
         /\ \A n \in 1..Len(bs) : cs[n + 2] = Cluster(bs[n])
<1> DEFINE builtin(n) == [name |-> n, host |-> n, connect |-> None,
                          sni |-> None, alpn |-> FALSE, http2 |-> FALSE]
           admin == builtin(EnvoyAdmin)
           default == builtin(DefaultApp)
           two == <<admin, default>>
           own == [n \in 1..Len(bs) |-> Cluster(bs[n])]
           S == {admin, default} \cup {own[n] : n \in 1..Len(bs)}
<1>1. BuildCDS(bs) = two \o own
  BY DEF BuildCDS
<1>2. Len(bs) \in Nat
  BY LenProperties
<1>3. two \in Seq(S) /\ Len(two) = 2
  <2>1. admin \in S /\ default \in S
    OBVIOUS
  <2> HIDE DEF S, admin, default
  <2> QED
    BY <2>1, PairIsSeq
<1>4. own \in Seq(S) /\ Len(own) = Len(bs)
  <2>1. DOMAIN own = 1..Len(bs)
    OBVIOUS
  <2>3. \A n \in 1..Len(bs) : own[n] \in S
    OBVIOUS
  <2>4. own \in [1..Len(bs) -> S]
    BY <2>3
  <2> HIDE DEF S, own
  <2>2. own \in Seq(S)
    BY <1>2, <2>4, SeqDef
  <2> QED
    BY <1>2, <2>1, <2>2, LenProperties
<1>5. two[1].name = EnvoyAdmin /\ two[2].name = DefaultApp
  OBVIOUS
<1>6. \A n \in 1..Len(bs) : own[n] = Cluster(bs[n])
  OBVIOUS
<1> HIDE DEF two, own, S
<1>7. /\ two \o own \in Seq(S) /\ Len(two \o own) = 2 + Len(bs)
      /\ \A n \in 1..2 + Len(bs) : (two \o own)[n] = IF n <= 2 THEN two[n] ELSE own[n - 2]
  <2>1. /\ two \o own \in Seq(S) /\ Len(two \o own) = Len(two) + Len(own)
        /\ \A n \in 1..Len(two) + Len(own) :
             (two \o own)[n] = IF n <= Len(two) THEN two[n] ELSE own[n - Len(two)]
    <3>1. two \in Seq(S) /\ own \in Seq(S)
      BY <1>3, <1>4
    <3> QED
      BY <3>1, ConcatProperties, Zenon
  <2> QED
    BY <1>3, <1>4, <2>1
<1>8. (two \o own)[1] = two[1] /\ (two \o own)[2] = two[2]
  BY <1>2, <1>7
<1>9. ASSUME NEW n \in 1..Len(bs) PROVE (two \o own)[n + 2] = Cluster(bs[n])
  <2>1. n + 2 \in 1..2 + Len(bs) /\ ~(n + 2 <= 2) /\ (n + 2) - 2 = n
    BY <1>2
  <2> QED
    BY <1>6, <1>7, <2>1
<1>10. \E X : two \o own \in Seq(X)
  BY <1>7
<1> QED
  BY <1>1, <1>2, <1>5, <1>7, <1>8, <1>9, <1>10

\* The positions of the backends that do not have a built-in name.
Foreign(bs) == {n \in 1..Len(bs) : bs[n].name \notin {EnvoyAdmin, DefaultApp}}

\* Leaving out the built-in clusters leaves those of the backends.
LEMMA MineOf ==
  ASSUME NEW bs \in Seq(Backend)
  PROVE  LET mine == Mine(BuildCDS(bs)) IN
         \E f : Orders(f, Len(mine), Foreign(bs)) /\ \A k \in 1..Len(mine) : mine[k] = Cluster(bs[f[k]])
<1> DEFINE cs == BuildCDS(bs)
           P == {n \in 1..Len(cs) : cs[n].name \notin {EnvoyAdmin, DefaultApp}}
           mine == Pick(cs, P)
<1>1. Mine(cs) = mine
  BY DEF Mine, Select
<1>2. PICK S : cs \in Seq(S)
  BY ClustersOf
<1>3. /\ Len(bs) \in Nat /\ Len(cs) = Len(bs) + 2
      /\ cs[1].name = EnvoyAdmin /\ cs[2].name = DefaultApp
      /\ \A n \in 1..Len(bs) : cs[n + 2] = Cluster(bs[n])
  BY ClustersOf
<1> HIDE DEF cs
<1>4. PICK e : Lists(mine, cs, P, e)
  BY <1>2, PickLists
<1>5. ASSUME NEW n \in P
      PROVE  n \in Int /\ n - 2 \in Foreign(bs) /\ cs[n] = Cluster(bs[n - 2])
  <2>1. n \in 1..Len(bs) + 2 /\ n # 1 /\ n # 2
    BY <1>3
  <2>2. n - 2 \in 1..Len(bs) /\ n = (n - 2) + 2
    BY <1>3, <2>1
  <2>3. cs[n] = Cluster(bs[n - 2])
    BY <1>3, <2>2
  <2>4. bs[n - 2].name = cs[n].name
    BY <2>3, ClusterName
  <2> QED
    BY <2>2, <2>3, <2>4 DEF Foreign
<1>6. ASSUME NEW n \in Foreign(bs) PROVE n \in Int /\ n + 2 \in P
  <2>1. n \in 1..Len(bs) /\ n + 2 \in 1..Len(cs)
    BY <1>3 DEF Foreign
  <2>2. cs[n + 2].name = bs[n].name
    <3>1. cs[n + 2] = Cluster(bs[n])
      BY <1>3, <2>1
    <3> QED
      BY <3>1, ClusterName
  <2> QED
    BY <2>1, <2>2 DEF Foreign
<1> HIDE DEF P, mine
<1> DEFINE f == [k \in 1..Len(mine) |-> e[k] - 2]
<1>7. /\ Len(mine) \in Nat /\ e \in [1..Len(mine) -> P]
      /\ \A j, k \in 1..Len(mine) : j < k => e[j] < e[k]
      /\ \A n \in P : \E k \in 1..Len(mine) : e[k] = n
      /\ \A k \in 1..Len(mine) : mine[k] = cs[e[k]]
  BY <1>4 DEF Lists, Orders
<1>8. f \in [1..Len(mine) -> Foreign(bs)] /\ \A k \in 1..Len(mine) : mine[k] = Cluster(bs[f[k]])
  BY <1>5, <1>7
<1>9. ASSUME NEW j \in 1..Len(mine), NEW k \in 1..Len(mine), j < k PROVE f[j] < f[k]
  <2>1. e[j] \in P /\ e[k] \in P /\ e[j] < e[k]
    BY <1>7, <1>9
  <2>2. e[j] \in Int /\ e[k] \in Int
    BY <1>5, <2>1
  <2> QED
    BY <2>1, <2>2
<1>10. ASSUME NEW n \in Foreign(bs) PROVE \E k \in 1..Len(mine) : f[k] = n
  <2>1. PICK k \in 1..Len(mine) : e[k] = n + 2
    BY <1>6, <1>7
  <2> QED
    BY <1>6, <2>1
<1>11. Orders(f, Len(mine), Foreign(bs))
  <2> HIDE DEF f
  <2> QED
    BY <1>7, <1>8, <1>9, <1>10 DEF Orders
<1> QED
  BY <1>1, <1>8, <1>11 DEF cs
-----------------------------------------------------------------------------
(* The faults that the runtime layer holds                                 *)

LEMMA RuntimeOf ==
  ASSUME NEW fs, NEW t, NEW d \in Dimension
  PROVE  /\ <<d, t>> \in DOMAIN BuildRuntime(fs) <=> t \in DOMAIN fs /\ fs[t][d] # 0
         /\ <<d, t>> \in DOMAIN BuildRuntime(fs) => BuildRuntime(fs)[<<d, t>>] = fs[t][d]
<1> DEFINE keys == UNION {FaultRuntimeKeys(u) : u \in DOMAIN fs}
           set == {k \in keys : fs[k[2]][k[1]] # 0}
<1>1. BuildRuntime(fs) = [k \in set |-> fs[k[2]][k[1]]]
  BY DEF BuildRuntime
<1>2. <<d, t>> \in keys <=> t \in DOMAIN fs
  BY DEF FaultRuntimeKeys
<1>3. <<d, t>> \in set <=> t \in DOMAIN fs /\ fs[t][d] # 0
  <2> HIDE DEF keys
  <2> QED
    BY <1>2
<1>4. DOMAIN [k \in set |-> fs[k[2]][k[1]]] = set
  <2> HIDE DEF set
  <2> QED
    OBVIOUS
<1>5. <<d, t>> \in set => [k \in set |-> fs[k[2]][k[1]]][<<d, t>>] = fs[t][d]
  <2> HIDE DEF set
  <2> QED
    OBVIOUS
<1> QED
  BY <1>1, <1>3, <1>4, <1>5

LEMMA RuntimeTargets ==
  ASSUME NEW fs, NEW k \in DOMAIN BuildRuntime(fs)
  PROVE  /\ k[2] \in DOMAIN fs /\ k[1] \in Dimension /\ k = <<k[1], k[2]>>
         /\ fs[k[2]][k[1]] # 0
<1> DEFINE keys == UNION {FaultRuntimeKeys(u) : u \in DOMAIN fs}
<1>1. k \in keys /\ fs[k[2]][k[1]] # 0
  BY DEF BuildRuntime
<1>2. PICK u \in DOMAIN fs : k \in FaultRuntimeKeys(u)
  BY <1>1
<1>3. k[2] = u /\ k[1] \in Dimension /\ k = <<k[1], k[2]>>
  BY <1>2 DEF FaultRuntimeKeys
<1> QED
  BY <1>1, <1>2, <1>3

\* What generate-values reads back: every target with a dimension that is set.
LEMMA ParsedFaults ==
  ASSUME NEW fs
  PROVE  LET parsed == ParseRemoteFaults(BuildRuntime(fs)) IN
         /\ DOMAIN parsed = {t \in DOMAIN fs : \E d \in Dimension : fs[t][d] # 0}
         /\ \A t \in DOMAIN parsed : parsed[t] = [d \in Dimension |-> fs[t][d]]
<1> DEFINE rt == BuildRuntime(fs)
           T == {k[2] : k \in DOMAIN rt}
<1>1. T = {t \in DOMAIN fs : \E d \in Dimension : fs[t][d] # 0}
  <2>1. ASSUME NEW t \in T PROVE t \in DOMAIN fs /\ \E d \in Dimension : fs[t][d] # 0
    BY RuntimeTargets
  <2>2. ASSUME NEW t \in DOMAIN fs, NEW d \in Dimension, fs[t][d] # 0 PROVE t \in T
    <3>1. <<d, t>> \in DOMAIN rt
      BY <2>2, RuntimeOf
    <3> QED
      BY <3>1
  <2> QED
    BY <2>1, <2>2
<1>2. ASSUME NEW t \in T PROVE ParseRemoteFaults(rt)[t] = [d \in Dimension |-> fs[t][d]]
  <2>1. ParseRemoteFaults(rt)[t] =
          [d \in Dimension |-> IF <<d, t>> \in DOMAIN rt THEN rt[<<d, t>>] ELSE 0]
    <3> HIDE DEF rt
    <3> QED
      BY DEF ParseRemoteFaults
  <2>2. \A d \in Dimension :
          /\ <<d, t>> \in DOMAIN rt <=> t \in DOMAIN fs /\ fs[t][d] # 0
          /\ <<d, t>> \in DOMAIN rt => rt[<<d, t>>] = fs[t][d]
    BY RuntimeOf
  <2>3. t \in DOMAIN fs
    BY <1>1
  <2> HIDE DEF rt
  <2> QED
    BY <2>1, <2>2, <2>3
<1>3. DOMAIN ParseRemoteFaults(rt) = T
  BY DEF ParseRemoteFaults
<1> HIDE DEF rt, T
<1>4. \A t \in DOMAIN ParseRemoteFaults(rt) :
        ParseRemoteFaults(rt)[t] = [d \in Dimension |-> fs[t][d]]
  BY <1>2, <1>3
<1> QED
  BY <1>1, <1>3, <1>4 DEF rt

-----------------------------------------------------------------------------
(* Types                                                                   *)

NamesDiffer(bs) == \A m, n \in 1..Len(bs) : bs[m].name = bs[n].name => m = n

LEMMA DistinctImages ==
  ASSUME NEW m \in Nat, NEW s, DOMAIN s = 1..m, s = [n \in 1..m |-> s[n]]
  PROVE  Distinct(s) <=> \A j, k \in 1..m : s[j] = s[k] => j = k
<1>1. s \in Seq({s[n] : n \in 1..m})
  BY SeqDef
<1>2. Len(s) = m
  BY <1>1, LenProperties
<1> QED
  BY <1>2 DEF Distinct

LEMMA NamesDistinct ==
  ASSUME NEW bs, Len(bs) \in Nat
  PROVE  Distinct([n \in 1..Len(bs) |-> bs[n].name]) <=> NamesDiffer(bs)
<1> DEFINE s == [n \in 1..Len(bs) |-> bs[n].name]
<1>1. DOMAIN s = 1..Len(bs) /\ s = [n \in 1..Len(bs) |-> s[n]] /\ \A n \in 1..Len(bs) : s[n] = bs[n].name
  OBVIOUS
<1> HIDE DEF s
<1>2. Distinct(s) <=> \A j, k \in 1..Len(bs) : s[j] = s[k] => j = k
  BY <1>1, DistinctImages
<1>3. Distinct(s) <=> NamesDiffer(bs)
  BY <1>1, <1>2 DEF NamesDiffer
<1> QED
  BY <1>3 DEF s

\* The faults of one target, as the commands leave them: an abort has a status.
FaultOK(f) ==
  /\ f \in [Dimension -> Int]
  /\ f["abort_percent"] \in 0..100 /\ f["delay_percent"] \in 0..100
  /\ f["abort_status"] = 0 \/ f["abort_status"] \in 100..599
  /\ f["delay_duration"] >= 0
  /\ f["abort_percent"] # 0 => f["abort_status"] # 0

\* What every command keeps: the names of the list differ, whatever is added or
\* generated, and no target has an abort without a status.
WellFormed ==
  /\ backends \in Seq(Backend) /\ NamesDiffer(backends)
  /\ DOMAIN faults \subseteq Target /\ \A t \in DOMAIN faults : FaultOK(faults[t])

LEMMA WellFormedTypes == WellFormed => TypeOK
<1> SUFFICES ASSUME WellFormed PROVE TypeOK
  OBVIOUS
<1>1. Len(backends) \in Nat /\ \A n \in 1..Len(backends) : backends[n] \in Backend
  BY LenProperties, ElementOfSeq DEF WellFormed
<1>2. Distinct([n \in 1..Len(backends) |-> backends[n].name])
  BY <1>1, NamesDistinct DEF WellFormed
<1>3. DOMAIN faults \subseteq Target
  BY DEF WellFormed
<1>4. ASSUME NEW t \in DOMAIN faults
      PROVE  /\ DOMAIN faults[t] = Dimension
             /\ \A d \in {"abort_percent", "delay_percent"} : ValidPercent(faults[t][d])
             /\ faults[t]["abort_status"] = 0 \/ ValidHTTPStatus(faults[t]["abort_status"])
             /\ ValidNonNegative(faults[t]["delay_duration"])
  <2>1. FaultOK(faults[t])
    BY DEF WellFormed
  <2> QED
    BY <2>1 DEF FaultOK, ValidPercent, ValidHTTPStatus, ValidNonNegative
<1> QED
  BY <1>1, <1>2, <1>3, <1>4 DEF TypeOK

\* A selection of a list with different names has different names.
LEMMA SelectionDiffers ==
  ASSUME NEW bs \in Seq(Backend), NamesDiffer(bs), NEW P \in SUBSET (1..Len(bs))
  PROVE  LET t == Pick(bs, P) IN
         /\ t \in Seq(Backend) /\ NamesDiffer(t)
         /\ \A k \in 1..Len(t) : \E n \in P : t[k] = bs[n]
<1> DEFINE t == Pick(bs, P)
<1>1. PICK f : t \in Seq(Backend) /\ Lists(t, bs, P, f)
  BY PickLists
<1> HIDE DEF t
<1>2. /\ f \in [1..Len(t) -> P] /\ \A k \in 1..Len(t) : t[k] = bs[f[k]]
      /\ \A j, k \in 1..Len(t) : j < k => f[j] < f[k]
      /\ Len(t) \in Nat
  BY <1>1 DEF Lists, Orders
<1>3. P \subseteq Nat
  BY LenProperties
<1>4. ASSUME NEW j \in 1..Len(t), NEW k \in 1..Len(t), t[j].name = t[k].name PROVE j = k
  <2>1. f[j] \in P /\ f[k] \in P
    BY <1>2
  <2>2. f[j] \in 1..Len(bs) /\ f[k] \in 1..Len(bs) /\ bs[f[j]].name = bs[f[k]].name
    BY <1>2, <1>4, <2>1
  <2>3. f[j] = f[k] /\ f[j] \in Nat
    BY <1>3, <2>1, <2>2 DEF NamesDiffer
  <2>4. ~(j < k) /\ ~(k < j)
    BY <1>2, <2>3
  <2> QED
    BY <1>2, <2>4
<1> QED
  BY <1>1, <1>2, <1>4 DEF NamesDiffer, t

LEMMA InitWellFormed == Init => WellFormed
<1> SUFFICES ASSUME Init PROVE WellFormed
  OBVIOUS
<1>1. << >> \in Seq(Backend) /\ Len(<< >>) = 0
  BY EmptySeq
<1>2. DOMAIN << >> = {}
  BY <1>1, LenProperties
<1>3. backends = << >> /\ faults = << >>
  BY DEF Init
<1>4. NamesDiffer(backends)
  BY <1>1, <1>3 DEF NamesDiffer
<1>5. backends \in Seq(Backend)
  BY <1>1, <1>3
<1>6. DOMAIN faults = {}
  BY <1>2, <1>3, Zenon
<1> QED
  BY <1>4, <1>5, <1>6 DEF WellFormed

LEMMA AddBackendWellFormed ==
  ASSUME WellFormed, NEW b \in Offer, AddBackend(b)
  PROVE  WellFormed'
<1> DEFINE P == {n \in 1..Len(backends) : backends[n].name # b.name}
           t == Pick(backends, P)
<1>1. backends' = Append(t, b) /\ faults' = faults
  BY DEF AddBackend, Select
<1>2. /\ t \in Seq(Backend) /\ NamesDiffer(t)
      /\ \A k \in 1..Len(t) : \E n \in P : t[k] = backends[n]
  <2>1. P \in SUBSET (1..Len(backends)) /\ backends \in Seq(Backend) /\ NamesDiffer(backends)
    BY DEF WellFormed
  <2> HIDE DEF P
  <2> QED
    BY <2>1, SelectionDiffers
<1>3. b \in Backend
  BY ValuesAssumption
<1>4. \A k \in 1..Len(t) : t[k].name # b.name
  BY <1>2
<1> HIDE DEF t, P
<1>5. /\ backends' \in Seq(Backend) /\ Len(backends') = Len(t) + 1 /\ Len(t) \in Nat
      /\ \A k \in 1..Len(t) : backends'[k] = t[k]
      /\ backends'[Len(t) + 1] = b
  BY <1>1, <1>2, <1>3, AppendProperties
<1>6. NamesDiffer(backends')
  <2> SUFFICES ASSUME NEW j \in 1..Len(t) + 1, NEW k \in 1..Len(t) + 1,
                      backends'[j].name = backends'[k].name
               PROVE  j = k
    BY <1>5 DEF NamesDiffer
  <2>1. CASE j = Len(t) + 1 /\ k # Len(t) + 1
    <3>1. k \in 1..Len(t)
      BY <1>5, <2>1
    <3> QED
      BY <1>4, <1>5, <2>1, <3>1
  <2>2. CASE j # Len(t) + 1 /\ k = Len(t) + 1
    <3>1. j \in 1..Len(t)
      BY <1>5, <2>2
    <3> QED
      BY <1>4, <1>5, <2>2, <3>1
  <2>3. CASE j # Len(t) + 1 /\ k # Len(t) + 1
    <3>1. j \in 1..Len(t) /\ k \in 1..Len(t)
      BY <1>5, <2>3
    <3> QED
      BY <1>2, <1>5, <3>1 DEF NamesDiffer
  <2> QED
    BY <2>1, <2>2, <2>3
<1> QED
  BY <1>1, <1>5, <1>6 DEF WellFormed

LEMMA RemoveBackendWellFormed ==
  ASSUME WellFormed, NEW n \in Name, RemoveBackend(n)
  PROVE  WellFormed'
<1>1. /\ backends' = Pick(backends, {m \in 1..Len(backends) : backends[m].name # n})
      /\ faults' = faults
  BY DEF RemoveBackend, Select
<1>2. backends' \in Seq(Backend) /\ NamesDiffer(backends')
  BY <1>1, SelectionDiffers DEF WellFormed
<1> QED
  BY <1>1, <1>2 DEF WellFormed

LEMMA FaultWellFormed ==
  ASSUME WellFormed, NEW t \in Target, Fault(t)
  PROVE  WellFormed'
<1>1. FaultOK(Faults(t))
  BY DEF WellFormed, Faults, NoFault, FaultOK, Dimension
<1>2. ASSUME NEW f, FaultOK(f), faults' = WithFault(t, f)
      PROVE  DOMAIN faults' \subseteq Target /\ \A u \in DOMAIN faults' : FaultOK(faults'[u])
  <2>1. DOMAIN faults' = DOMAIN faults \cup {t}
    BY <1>2 DEF WithFault
  <2>2. \A u \in DOMAIN faults' : faults'[u] = IF u = t THEN f ELSE faults[u]
    BY <1>2 DEF WithFault
  <2> QED
    BY <1>2, <2>1, <2>2 DEF WellFormed
<1>3. ASSUME NEW p \in Percent, NEW s \in Status, FaultAbort(t, p, s) PROVE WellFormed'
  <2> DEFINE f == [Faults(t) EXCEPT !["abort_percent"] = p, !["abort_status"] = s]
  <2>1. p \in 0..100 /\ s \in 100..599
    BY <1>3 DEF FaultAbort, ValidPercent, ValidHTTPStatus
  <2>2. FaultOK(f)
    BY <1>1, <2>1 DEF FaultOK, Dimension
  <2> HIDE DEF f
  <2>3. faults' = WithFault(t, f) /\ backends' = backends
    BY <1>3 DEF FaultAbort, f
  <2> QED
    BY <1>2, <2>2, <2>3 DEF WellFormed
<1>4. ASSUME NEW p \in Percent, NEW d \in Millis, FaultDelay(t, p, d) PROVE WellFormed'
  <2> DEFINE f == [Faults(t) EXCEPT !["delay_percent"] = p, !["delay_duration"] = d]
  <2>1. p \in 0..100 /\ d \in Int /\ d >= 0
    BY <1>4, ValuesAssumption DEF FaultDelay, ValidPercent, ValidNonNegative
  <2>2. FaultOK(f)
    BY <1>1, <2>1 DEF FaultOK, Dimension
  <2> HIDE DEF f
  <2>3. faults' = WithFault(t, f) /\ backends' = backends
    BY <1>4 DEF FaultDelay, f
  <2> QED
    BY <1>2, <2>2, <2>3 DEF WellFormed
<1>5. ASSUME FaultReset(t) PROVE WellFormed'
  <2>1. faults' = [u \in DOMAIN faults \ {t} |-> faults[u]] /\ backends' = backends
    BY <1>5 DEF FaultReset
  <2>2. DOMAIN faults' \subseteq DOMAIN faults /\ \A u \in DOMAIN faults' : faults'[u] = faults[u]
    BY <2>1
  <2> QED
    BY <2>1, <2>2 DEF WellFormed
<1> QED
  BY <1>3, <1>4, <1>5 DEF Fault
\* What is recovered from a backend's cluster and the finding for it is a backend.
LEMMA RecoveredTyped ==
  ASSUME NEW b \in Backend, NEW info \in Findings \cup {NoRoute}
  PROVE  Recovered(Cluster(b), info) \in Backend /\ Recovered(Cluster(b), info).name = b.name
<1> DEFINE c == Cluster(b)
           time == IF info = NoRoute THEN DefaultTimeout ELSE info.timeout
<1>1. c.name = b.name /\ c.host = b.host /\ c.connect = b.connect
  BY DEF Cluster
<1>2. /\ info.domain \in {o.domain : o \in Offer} \cup {None}
      /\ info.prefix \in {o.prefix : o \in Offer} \cup {None, Root}
      /\ info.rewrite \in {o.rewrite : o \in Offer} \cup {None}
  BY DEF Findings, NoRoute
<1>3. time \in {o.timeout : o \in Offer} \cup {DefaultTimeout}
  BY DEF Findings
<1>4. (c.sni # None) \in BOOLEAN
  OBVIOUS
<1>5. b.name \in Name /\ b.host \in {o.host : o \in Offer} /\ b.connect \in {o.connect : o \in Offer}
  BY DEF Backend
<1> DEFINE t == c.sni # None
<1>6. Recovered(c, info) = [name |-> c.name, host |-> c.host, tls |-> t, connect |-> c.connect,
         domain |-> info.domain, prefix |-> info.prefix, rewrite |-> info.rewrite,
         timeout |-> time, http2 |-> FALSE, gzip |-> FALSE]
  BY DEF Recovered
<1>7. t \in BOOLEAN
  OBVIOUS
<1> HIDE DEF c, time, t
<1> QED
  BY <1>1, <1>2, <1>3, <1>5, <1>6, <1>7 DEF Backend, c

LEMMA GenerateWellFormed ==
  ASSUME WellFormed, GenerateValues
  PROVE  WellFormed'
<1> DEFINE v == BuildLDS(backends)
           mine == Mine(BuildCDS(backends))
           rec == RecoveredBackends(BuildCDS(backends), v)
<1>0. backends \in Seq(Backend)
  BY DEF WellFormed
<1>1. PICK f : /\ Orders(f, Len(mine), Foreign(backends))
               /\ \A k \in 1..Len(mine) : mine[k] = Cluster(backends[f[k]])
  BY <1>0, MineOf
<1>2. /\ Len(mine) \in Nat /\ f \in [1..Len(mine) -> Foreign(backends)]
      /\ \A j, k \in 1..Len(mine) : j < k => f[j] < f[k]
  BY <1>1 DEF Orders
<1>3. rec = [n \in 1..Len(mine) |-> Recovered(mine[n], FindRemoteRoute(v, mine[n].name))]
  BY DEF RecoveredBackends
<1> HIDE DEF mine, rec
<1>4. ASSUME NEW k \in 1..Len(mine)
      PROVE  rec[k] \in Backend /\ rec[k].name = backends[f[k]].name /\ f[k] \in 1..Len(backends)
  <2>1. f[k] \in 1..Len(backends) /\ mine[k] = Cluster(backends[f[k]])
    BY <1>1, <1>2 DEF Foreign
  <2>2. backends[f[k]] \in Backend
    BY <1>0, <2>1, ElementOfSeq
  <2> DEFINE info == FindRemoteRoute(v, mine[k].name)
  <2>3. info \in Findings \cup {NoRoute}
    BY <1>0, FindingTyped
  <2>4. rec[k] = Recovered(mine[k], info)
    BY <1>3
  <2> HIDE DEF info
  <2> QED
    BY <2>1, <2>2, <2>3, <2>4, RecoveredTyped
<1>5. rec \in Seq(Backend) /\ Len(rec) = Len(mine)
  <2>1. rec \in [1..Len(mine) -> Backend] /\ DOMAIN rec = 1..Len(mine)
    BY <1>3, <1>4
  <2>2. rec \in Seq(Backend)
    BY <1>2, <2>1, SeqDef
  <2> QED
    BY <1>2, <2>1, <2>2, LenProperties
<1>6. NamesDiffer(rec)
  <2> SUFFICES ASSUME NEW j \in 1..Len(mine), NEW k \in 1..Len(mine), rec[j].name = rec[k].name
               PROVE  j = k
    BY <1>5 DEF NamesDiffer
  <2>1. f[j] = f[k]
    BY <1>4 DEF NamesDiffer, WellFormed
  <2>2. f[j] \in Nat
    <3>1. Len(backends) \in Nat
      BY <1>0, LenProperties
    <3> QED
      BY <1>4, <3>1
  <2>3. ~(j < k) /\ ~(k < j)
    BY <1>2, <2>1, <2>2
  <2> QED
    BY <1>2, <2>3
<1>7. backends' = rec /\ faults' = ParseRemoteFaults(BuildRuntime(faults))
  BY DEF GenerateValues, rec
<1>8. /\ DOMAIN faults' \subseteq DOMAIN faults
      /\ \A t \in DOMAIN faults' : faults'[t] = [d \in Dimension |-> faults[t][d]]
  <2> DEFINE parsed == ParseRemoteFaults(BuildRuntime(faults))
  <2>1. /\ DOMAIN parsed = {t \in DOMAIN faults : \E d \in Dimension : faults[t][d] # 0}
        /\ \A t \in DOMAIN parsed : parsed[t] = [d \in Dimension |-> faults[t][d]]
    BY ParsedFaults, Zenon
  <2>2. faults' = parsed
    BY <1>7
  <2> HIDE DEF parsed
  <2> QED
    BY <2>1, <2>2
<1>9. ASSUME NEW t \in DOMAIN faults' PROVE FaultOK(faults'[t])
  <2>1. FaultOK(faults[t])
    BY <1>8 DEF WellFormed
  <2>2. faults'[t] = faults[t]
    BY <1>8, <2>1 DEF FaultOK
  <2> QED
    BY <2>1, <2>2
<1> QED
  BY <1>5, <1>6, <1>7, <1>8, <1>9 DEF WellFormed

LEMMA NextWellFormed == WellFormed /\ [Next]_vars => WellFormed'
<1> SUFFICES ASSUME WellFormed, [Next]_vars PROVE WellFormed'
  OBVIOUS
<1>1. CASE UNCHANGED vars
  BY <1>1 DEF vars, WellFormed
<1>2. ASSUME NEW n \in Name, RemoveBackend(n) PROVE WellFormed'
  BY <1>2, RemoveBackendWellFormed
<1>3. ASSUME NEW b \in Offer, AddBackend(b) PROVE WellFormed'
  BY <1>3, AddBackendWellFormed
<1>4. ASSUME NEW t \in Target, Fault(t) PROVE WellFormed'
  BY <1>4, FaultWellFormed
<1>5. CASE GenerateValues
  BY <1>5, GenerateWellFormed
<1> QED
  BY <1>1, <1>2, <1>3, <1>4, <1>5 DEF Next

\* The inductive invariant: whatever commands run, the names of the list differ and
\* no target has an abort percentage without a status, since fault abort refuses the
\* one and add-backend replaces a backend of the same name.
THEOREM ValuesWellFormed == Spec => []WellFormed
  BY InitWellFormed, NextWellFormed, PTL DEF Spec

\* Whatever commands ran, values.yaml is a list of backends whose names differ
\* and a map of faults within the ranges the commands accept.
THEOREM ValuesTypeCorrect == Spec => []TypeOK
  BY ValuesWellFormed, WellFormedTypes, PTL
-----------------------------------------------------------------------------
(* Which lists Envoy takes                                                 *)

DomainsDiffer(vhosts) == \A m, n \in 1..Len(vhosts) : vhosts[m].domain = vhosts[n].domain => m = n

LEMMA DomainsDistinct ==
  ASSUME NEW v, Len(v) \in Nat
  PROVE  Distinct([n \in 1..Len(v) |-> v[n].domain]) <=> DomainsDiffer(v)
<1> DEFINE s == [n \in 1..Len(v) |-> v[n].domain]
<1>1. DOMAIN s = 1..Len(v) /\ s = [n \in 1..Len(v) |-> s[n]] /\ \A n \in 1..Len(v) : s[n] = v[n].domain
  OBVIOUS
<1> HIDE DEF s
<1>2. Distinct(s) <=> \A j, k \in 1..Len(v) : s[j] = s[k] => j = k
  BY <1>1, DistinctImages
<1>3. Distinct(s) <=> DomainsDiffer(v)
  BY <1>1, <1>2 DEF DomainsDiffer
<1> QED
  BY <1>3 DEF s

\* Disciplined, of any list.
Regular(bs) ==
  /\ \A n \in 1..Len(bs) :
       /\ bs[n].name \notin {EnvoyAdmin, DefaultApp}
       /\ bs[n].domain # Star
       /\ bs[n].domain # None => bs[n].name # CatchAll
  /\ \A m, n \in 1..Len(bs) : bs[m].domain = bs[n].domain /\ bs[m].domain # None => m = n

LEMMA ClusterNamesDiffer ==
  ASSUME NEW bs \in Seq(Backend), NamesDiffer(bs)
  PROVE  NamesDiffer(BuildCDS(bs)) <=> \A n \in 1..Len(bs) : bs[n].name \notin {EnvoyAdmin, DefaultApp}
<1> DEFINE cs == BuildCDS(bs)
<1>1. /\ Len(bs) \in Nat /\ Len(cs) = Len(bs) + 2
      /\ cs[1].name = EnvoyAdmin /\ cs[2].name = DefaultApp
      /\ \A n \in 1..Len(bs) : cs[n + 2].name = bs[n].name
  BY ClustersOf, ClusterName
<1> HIDE DEF cs
<1>2. ASSUME NamesDiffer(cs), NEW n \in 1..Len(bs) PROVE bs[n].name \notin {EnvoyAdmin, DefaultApp}
  <2>1. n + 2 \in 1..Len(cs) /\ 1 \in 1..Len(cs) /\ 2 \in 1..Len(cs) /\ n + 2 # 1 /\ n + 2 # 2
    BY <1>1
  <2> QED
    BY <1>1, <1>2, <2>1 DEF NamesDiffer
<1>3. ASSUME \A n \in 1..Len(bs) : bs[n].name \notin {EnvoyAdmin, DefaultApp} PROVE NamesDiffer(cs)
  <2> SUFFICES ASSUME NEW m \in 1..Len(cs), NEW n \in 1..Len(cs), cs[m].name = cs[n].name PROVE m = n
    BY DEF NamesDiffer
  <2>1. \A i \in 1..Len(cs) :
          i \notin {1, 2} => i - 2 \in 1..Len(bs) /\ i = (i - 2) + 2 /\ cs[i].name = bs[i - 2].name
    <3> SUFFICES ASSUME NEW i \in 1..Len(cs), i \notin {1, 2}
                 PROVE  i - 2 \in 1..Len(bs) /\ i = (i - 2) + 2 /\ cs[i].name = bs[i - 2].name
      OBVIOUS
    <3>1. i - 2 \in 1..Len(bs) /\ i = (i - 2) + 2
      BY <1>1
    <3> QED
      BY <1>1, <3>1
  <2>2. CASE m \in {1, 2}
    <3>1. n \in {1, 2}
      BY <1>1, <1>3, <2>1, <2>2
    <3> QED
      BY <1>1, <2>2, <3>1, ValuesAssumption
  <2>3. CASE n \in {1, 2}
    <3>1. m \in {1, 2}
      BY <1>1, <1>3, <2>1, <2>3
    <3> QED
      BY <1>1, <2>3, <3>1, ValuesAssumption
  <2>4. CASE m \notin {1, 2} /\ n \notin {1, 2}
    <3>1. m - 2 = n - 2
      BY <2>1, <2>4 DEF NamesDiffer
    <3> QED
      BY <2>1, <2>4, <3>1
  <2> QED
    BY <2>2, <2>3, <2>4
<1> QED
  BY <1>2, <1>3 DEF cs

LEMMA OrdersInjective ==
  ASSUME NEW f, NEW m, NEW P \in SUBSET Nat, Orders(f, m, P), NEW j \in 1..m, NEW k \in 1..m, f[j] = f[k]
  PROVE  j = k
<1>1. m \in Nat /\ f[j] \in Nat /\ \A x, y \in 1..m : x < y => f[x] < f[y]
  BY DEF Orders
<1>2. ~(j < k) /\ ~(k < j)
  BY <1>1
<1> QED
  BY <1>1, <1>2

\* The names and the domains of the virtual hosts, by the backends they are for.
LEMMA HostsDiffer ==
  ASSUME NEW bs \in Seq(Backend), NamesDiffer(bs)
  PROVE  /\ NamesDiffer(BuildLDS(bs)) <=> \A n \in Owning(bs) : bs[n].name # CatchAll
         /\ DomainsDiffer(BuildLDS(bs)) <=>
              /\ \A n \in Owning(bs) : bs[n].domain # Star
              /\ \A m, n \in Owning(bs) : bs[m].domain = bs[n].domain => m = n
<1> DEFINE v == BuildLDS(bs)
<1>1. PICK f, a, g, c : Listener(v, bs, f, a, g, c)
  BY ListenerOf
<1> HIDE DEF v
<1>2. /\ a \in Nat /\ Len(v) = a + 1 /\ Orders(f, a, Owning(bs)) /\ f \in [1..a -> Owning(bs)]
      /\ \A k \in 1..a : v[k].name = bs[f[k]].name /\ v[k].domain = bs[f[k]].domain
      /\ \A n \in Owning(bs) : \E k \in 1..a : f[k] = n
      /\ v[a + 1].name = CatchAll /\ v[a + 1].domain = Star
  <2>1. \A b : HostOf(b).name = b.name /\ HostOf(b).domain = b.domain
    BY DEF HostOf
  <2>2. \A k \in 1..a : v[k] = HostOf(bs[f[k]])
    BY <1>1 DEF Listener
  <2>3. \A k \in 1..a : v[k].name = bs[f[k]].name /\ v[k].domain = bs[f[k]].domain
    BY <2>1, <2>2
  <2> QED
    BY <1>1, <2>3 DEF Listener, Orders
<1>3. Owning(bs) \in SUBSET Nat /\ Owning(bs) \subseteq 1..Len(bs)
  BY LenProperties DEF Owning
<1>4. a + 1 \in 1..a + 1 /\ \A k \in 1..a + 1 : k # a + 1 => k \in 1..a
  BY <1>2
<1>5. \A k \in 1..a : k \in 1..a + 1 /\ k # a + 1
  BY <1>2
<1>6. ASSUME NEW j \in 1..a, NEW k \in 1..a, f[j] = f[k] PROVE j = k
  BY <1>2, <1>3, <1>6, OrdersInjective
<1>7. NamesDiffer(v) <=> \A n \in Owning(bs) : bs[n].name # CatchAll
  <2>1. ASSUME NamesDiffer(v), NEW n \in Owning(bs) PROVE bs[n].name # CatchAll
    <3>1. PICK k \in 1..a : f[k] = n
      BY <1>2
    <3> QED
      BY <1>2, <1>4, <1>5, <2>1, <3>1 DEF NamesDiffer
  <2>2. ASSUME \A n \in Owning(bs) : bs[n].name # CatchAll PROVE NamesDiffer(v)
    <3> SUFFICES ASSUME NEW j \in 1..a + 1, NEW k \in 1..a + 1, v[j].name = v[k].name PROVE j = k
      BY <1>2 DEF NamesDiffer
    <3>1. CASE j = a + 1 \/ k = a + 1
      <4>1. \A i \in 1..a : v[i].name # CatchAll
        BY <1>2, <2>2
      <4> QED
        BY <1>2, <1>4, <3>1, <4>1
    <3>2. CASE j \in 1..a /\ k \in 1..a
      <4>1. f[j] \in 1..Len(bs) /\ f[k] \in 1..Len(bs) /\ bs[f[j]].name = bs[f[k]].name
        BY <1>2, <1>3, <3>2
      <4>2. f[j] = f[k]
        BY <4>1 DEF NamesDiffer
      <4> QED
        BY <1>6, <3>2, <4>2
    <3> QED
      BY <1>4, <3>1, <3>2
  <2> QED
    BY <2>1, <2>2
<1>8. DomainsDiffer(v) <=> /\ \A n \in Owning(bs) : bs[n].domain # Star
                           /\ \A m, n \in Owning(bs) : bs[m].domain = bs[n].domain => m = n
  <2>1. ASSUME DomainsDiffer(v), NEW n \in Owning(bs) PROVE bs[n].domain # Star
    <3>1. PICK k \in 1..a : f[k] = n
      BY <1>2
    <3> QED
      BY <1>2, <1>4, <1>5, <2>1, <3>1 DEF DomainsDiffer
  <2>2. ASSUME DomainsDiffer(v), NEW m \in Owning(bs), NEW n \in Owning(bs), bs[m].domain = bs[n].domain
        PROVE  m = n
    <3>1. PICK j \in 1..a : f[j] = m
      BY <1>2
    <3>2. PICK k \in 1..a : f[k] = n
      BY <1>2
    <3> QED
      BY <1>2, <1>5, <2>2, <3>1, <3>2 DEF DomainsDiffer
  <2>3. ASSUME \A n \in Owning(bs) : bs[n].domain # Star,
               \A m, n \in Owning(bs) : bs[m].domain = bs[n].domain => m = n
        PROVE  DomainsDiffer(v)
    <3> SUFFICES ASSUME NEW j \in 1..a + 1, NEW k \in 1..a + 1, v[j].domain = v[k].domain PROVE j = k
      BY <1>2 DEF DomainsDiffer
    <3>1. CASE j = a + 1 \/ k = a + 1
      BY <1>2, <1>4, <2>3, <3>1
    <3>2. CASE j \in 1..a /\ k \in 1..a
      <4>1. f[j] = f[k]
        BY <1>2, <2>3, <3>2
      <4> QED
        BY <1>6, <3>2, <4>1
    <3> QED
      BY <1>4, <3>1, <3>2
  <2> QED
    BY <2>1, <2>2, <2>3
<1> QED
  BY <1>7, <1>8 DEF v
\* The hosts, routes and clusters of a route of a listener: what it was made from.
LEMMA RoutesOf ==
  ASSUME NEW bs \in Seq(Backend), NEW n \in 1..Len(BuildLDS(bs)),
         NEW r \in 1..Len(BuildLDS(bs)[n].routes)
  PROVE  \/ BuildLDS(bs)[n].routes[r] = Fallback
         \/ \E m \in 1..Len(bs) : BuildLDS(bs)[n].routes[r] = Route(bs[m])
<1> DEFINE v == BuildLDS(bs)
<1>1. PICK f, a, g, c : Listener(v, bs, f, a, g, c)
  BY ListenerOf
<1> HIDE DEF v
<1>2. /\ a \in Nat /\ c \in Nat /\ n \in 1..a + 1 /\ r \in 1..Len(v[n].routes)
      /\ f \in [1..a -> Owning(bs)] /\ g \in [1..c -> Shared(bs)]
      /\ \A k \in 1..a : v[k] = HostOf(bs[f[k]])
      /\ Len(v[a + 1].routes) = c + 1
      /\ \A k \in 1..c : v[a + 1].routes[k] = Route(bs[g[k]])
      /\ v[a + 1].routes[c + 1] = Fallback
  BY <1>1 DEF Listener, Orders, v
<1>3. CASE n = a + 1
  <2>1. CASE r = c + 1
    BY <1>2, <1>3, <2>1 DEF v
  <2>2. CASE r # c + 1
    <3>1. r \in 1..c
      BY <1>2, <1>3, <2>2
    <3>2. g[r] \in 1..Len(bs)
      BY <1>2, <3>1 DEF Shared
    <3> QED
      BY <1>2, <1>3, <3>1, <3>2 DEF v
  <2> QED
    BY <2>1, <2>2
<1>4. CASE n # a + 1
  <2>1. n \in 1..a
    BY <1>2, <1>4
  <2>2. f[n] \in 1..Len(bs) /\ v[n] = HostOf(bs[f[n]])
    BY <1>2, <2>1 DEF Owning
  <2>3. v[n].routes = <<Route(bs[f[n]])>>
    BY <2>2 DEF HostOf
  <2>4. r = 1
    BY <1>2, <2>3
  <2> QED
    BY <2>2, <2>3, <2>4 DEF v
<1> QED
  BY <1>3, <1>4

LEMMA RouteFields == \A b : Route(b).cluster = b.name /\ Route(b).fault = b.name
  BY DEF Route

LEMMA RoutesHaveClusters ==
  ASSUME NEW bs \in Seq(Backend), NEW n \in 1..Len(BuildLDS(bs)),
         NEW r \in 1..Len(BuildLDS(bs)[n].routes)
  PROVE  \E m \in 1..Len(BuildCDS(bs)) :
           BuildCDS(bs)[m].name = BuildLDS(bs)[n].routes[r].cluster
<1> DEFINE cs == BuildCDS(bs)
           q == BuildLDS(bs)[n].routes[r]
<1>1. /\ Len(bs) \in Nat /\ Len(cs) = Len(bs) + 2 /\ cs[2].name = DefaultApp
      /\ \A m \in 1..Len(bs) : cs[m + 2].name = bs[m].name
  BY ClustersOf, ClusterName
<1>2. q = Fallback \/ \E m \in 1..Len(bs) : q = Route(bs[m])
  BY RoutesOf
<1> HIDE DEF cs, q
<1>3. CASE q = Fallback
  <2>1. q.cluster = DefaultApp
    BY <1>3 DEF Fallback
  <2>2. 2 \in 1..Len(cs)
    BY <1>1
  <2> QED
    BY <1>1, <2>1, <2>2 DEF cs, q
<1>4. ASSUME NEW m \in 1..Len(bs), q = Route(bs[m]) PROVE \E k \in 1..Len(cs) : cs[k].name = q.cluster
  <2>1. q.cluster = bs[m].name
    BY <1>4, RouteFields
  <2>2. m + 2 \in 1..Len(cs)
    BY <1>1
  <2> QED
    BY <1>1, <2>1, <2>2
<1> QED
  BY <1>2, <1>3, <1>4 DEF cs, q

LEMMA RegularLists ==
  ASSUME NEW bs \in Seq(Backend), NamesDiffer(bs)
  PROVE  Accepted(bs) <=> Regular(bs)
<1> DEFINE cs == BuildCDS(bs)
           v == BuildLDS(bs)
<1>0. Len(bs) \in Nat /\ \A n \in 1..Len(bs) : bs[n] \in Backend
  BY LenProperties, ElementOfSeq
<1>1. Len(cs) \in Nat
  BY <1>0, ClustersOf
<1>2. Len(v) \in Nat
  BY ListenerOf DEF Listener, Orders
<1>3. Distinct([n \in 1..Len(cs) |-> cs[n].name]) <=> NamesDiffer(cs)
  BY <1>1, NamesDistinct
<1>4. Distinct([n \in 1..Len(v) |-> v[n].name]) <=> NamesDiffer(v)
  BY <1>2, NamesDistinct
<1>5. Distinct([n \in 1..Len(v) |-> v[n].domain]) <=> DomainsDiffer(v)
  BY <1>2, DomainsDistinct
<1>6. \A n \in 1..Len(v) : \A r \in 1..Len(v[n].routes) :
        \E m \in 1..Len(cs) : cs[m].name = v[n].routes[r].cluster
  BY RoutesHaveClusters
<1>7. NamesDiffer(cs) <=> \A n \in 1..Len(bs) : bs[n].name \notin {EnvoyAdmin, DefaultApp}
  BY ClusterNamesDiffer
<1>8. /\ NamesDiffer(v) <=> \A n \in Owning(bs) : bs[n].name # CatchAll
      /\ DomainsDiffer(v) <=> /\ \A n \in Owning(bs) : bs[n].domain # Star
                              /\ \A m, n \in Owning(bs) : bs[m].domain = bs[n].domain => m = n
  BY HostsDiffer
<1> HIDE DEF cs, v
<1>9. Accepts(cs, v) <=> NamesDiffer(cs) /\ NamesDiffer(v) /\ DomainsDiffer(v)
  BY <1>3, <1>4, <1>5, <1>6 DEF Accepts
<1>10. None # Star
  BY ValuesAssumption
<1>11. NamesDiffer(cs) /\ NamesDiffer(v) /\ DomainsDiffer(v) <=> Regular(bs)
  BY <1>7, <1>8, <1>10 DEF Regular, Owning
<1> QED
  BY <1>9, <1>11 DEF Accepted, cs, v

LEMMA AcceptedIff == WellFormed => AcceptedIfDisciplined
<1> SUFFICES ASSUME WellFormed PROVE AcceptedIfDisciplined
  OBVIOUS
<1>1. Accepted(backends) <=> Regular(backends)
  BY RegularLists DEF WellFormed
<1> QED
  BY <1>1 DEF AcceptedIfDisciplined, Disciplined, Regular

\* Envoy takes what is rendered exactly if no backend has a built-in name, the
\* name of the catch-all virtual host with a domain of its own, the domain "*",
\* or another's domain; nothing the commands do to the list adds a case.
THEOREM ValuesAcceptance == Spec => []AcceptedIfDisciplined
  BY ValuesWellFormed, AcceptedIff, PTL
-----------------------------------------------------------------------------
(* Where requests go                                                       *)

\* The routes of a virtual host that a path matches.
Under(vh, path) == {r \in 1..Len(vh.routes) : IsPrefix(vh.routes[r].prefix, path)}

LEMMA HostChosen ==
  ASSUME NEW S, NEW v \in Seq(S), NEW host, NEW path, NEW h \in 1..Len(v), DomainsDiffer(v),
         \/ v[h].domain = host
         \/ v[h].domain = Star /\ \A n \in 1..Len(v) : v[n].domain # host
  PROVE  Matching(v, host, path) = Pick(v[h].routes, Under(v[h], path))
<1> DEFINE A == {n \in 1..Len(v) : v[n].domain = host}
           B == {n \in 1..Len(v) : v[n].domain = Star}
           own == Pick(v, A)
           any == Pick(v, B)
           vh == IF own # << >> THEN own[1] ELSE any[1]
<1>1. Matching(v, host, path) = Pick(vh.routes, {r \in 1..Len(vh.routes) : IsPrefix(vh.routes[r].prefix, path)})
  BY DEF Matching, Select
<1>2. vh = v[h]
  <2>0. Len(v) \in Nat /\ h \in Nat
    BY LenProperties
  <2>1. CASE v[h].domain = host
    <3>1. A = {h}
      BY <2>1 DEF DomainsDiffer
    <3>2. own # << >> /\ own[1] = v[h]
      <4>1. A \in SUBSET (1..Len(v)) /\ h \in A /\ \A n \in A : h <= n
        BY <2>0, <3>1
      <4> HIDE DEF A
      <4> QED
        BY <4>1, PickFirst
    <3> HIDE DEF own
    <3> QED
      BY <3>2
  <2>2. CASE v[h].domain = Star /\ \A n \in 1..Len(v) : v[n].domain # host
    <3>1. A = {} /\ B = {h}
      BY <2>2 DEF DomainsDiffer
    <3>2. own = << >>
      BY <3>1, PickNone
    <3>3. any[1] = v[h]
      <4>1. B \in SUBSET (1..Len(v)) /\ h \in B /\ \A n \in B : h <= n
        BY <2>0, <3>1
      <4> HIDE DEF B
      <4> QED
        BY <4>1, PickFirst
    <3> HIDE DEF own, any
    <3> QED
      BY <3>2, <3>3
  <2> QED
    BY <2>1, <2>2
<1> HIDE DEF vh
<1> QED
  BY <1>1, <1>2 DEF Under

LEMMA EverythingUnderRoot == ASSUME NEW path, Len(path) \in Nat PROVE IsPrefix(Root, path)
<1>1. Len(Root) = 0
  BY EmptySeq DEF Root
<1>2. SubSeq(Root, 1, 0) = << >> /\ SubSeq(path, 1, 0) = << >>
  BY SubSeqEmpty
<1> QED
  BY <1>1, <1>2 DEF IsPrefix

\* The backends whose domain a host is, and those whose prefix a path is under.
Owners(bs, host) == {n \in 1..Len(bs) : bs[n].domain = host}
Sharers(bs, path) == {n \in Shared(bs) : IsPrefix(bs[n].prefix, path)}

LEMMA RegularListener ==
  ASSUME NEW bs \in Seq(Backend), NamesDiffer(bs), Regular(bs)
  PROVE  DomainsDiffer(BuildLDS(bs))
<1>1. \A n \in Owning(bs) : bs[n].domain # Star
  BY DEF Regular, Owning
<1>2. \A m, n \in Owning(bs) : bs[m].domain = bs[n].domain => m = n
  BY DEF Regular, Owning
<1> QED
  BY <1>1, <1>2, HostsDiffer

LEMMA ReachesOwner ==
  ASSUME NEW bs \in Seq(Backend), NamesDiffer(bs), Regular(bs), NEW host, host # None,
         NEW path, NEW n \in Owners(bs, host)
  PROVE  Reaches(BuildLDS(bs), host, path) =
           IF IsPrefix(Route(bs[n]).prefix, path) THEN bs[n].name ELSE None
<1> DEFINE v == BuildLDS(bs)
           route == Route(bs[n])
<1>1. PICK f, a, g, c : Listener(v, bs, f, a, g, c)
  BY ListenerOf
<1>2. DomainsDiffer(v)
  BY RegularListener
<1> HIDE DEF v
<1>3. n \in Owning(bs) /\ bs[n].domain = host
  BY DEF Owners, Owning
<1>4. PICK k \in 1..a : f[k] = n
  BY <1>1, <1>3 DEF Listener, Orders
<1>5. k \in 1..Len(v) /\ v[k] = HostOf(bs[n])
  BY <1>1, <1>4 DEF Listener, Orders
<1>6. v[k].domain = host /\ v[k].routes = <<route>>
  BY <1>3, <1>5 DEF HostOf
<1>7. PICK S : v \in Seq(S)
  BY <1>1 DEF Listener
<1>8. Matching(v, host, path) = Pick(v[k].routes, Under(v[k], path))
  BY <1>2, <1>5, <1>6, <1>7, HostChosen
<1>9. route.cluster = bs[n].name
  BY RouteFields
<1> HIDE DEF route
<1>10. <<route>> \in Seq({route}) /\ Len(<<route>>) = 1 /\ <<route>>[1] = route
  OBVIOUS
<1>11. CASE IsPrefix(route.prefix, path)
  <2>1. Under(v[k], path) = {1}
    BY <1>6, <1>10, <1>11 DEF Under
  <2>2. Matching(v, host, path) = Pick(<<route>>, {1})
    BY <1>6, <1>8, <2>1
  <2>3. {1} \in SUBSET (1..Len(<<route>>)) /\ \A m \in {1} : 1 <= m
    BY <1>10
  <2>4. Pick(<<route>>, {1}) # << >> /\ Pick(<<route>>, {1})[1] = route
    BY <1>10, <2>3, PickFirst
  <2> QED
    BY <1>9, <1>11, <2>2, <2>4 DEF Reaches, v, route
<1>12. CASE ~IsPrefix(route.prefix, path)
  <2>1. Under(v[k], path) = {}
    BY <1>6, <1>10, <1>12 DEF Under
  <2>2. Matching(v, host, path) = << >>
    BY <1>6, <1>8, <1>10, <2>1, PickNone
  <2> QED
    BY <1>12, <2>2 DEF Reaches, v, route
<1> QED
  BY <1>11, <1>12
\* The routes of the catch-all host that a path matches are those of its sharers,
\* and the fallback.
LEMMA UnderCatchAll ==
  ASSUME NEW bs \in Seq(Backend), NEW path, Len(path) \in Nat, NEW v,
         NEW f, NEW a, NEW g, NEW c, Listener(v, bs, f, a, g, c)
  PROVE  LET U == Under(v[a + 1], path) IN
         /\ c + 1 \in U
         /\ \A k \in U : k \in 1..c + 1
         /\ \A k \in 1..c : k \in U <=> g[k] \in Sharers(bs, path)
<1> DEFINE routes == v[a + 1].routes
<1>1. /\ c \in Nat /\ g \in [1..c -> Shared(bs)] /\ Len(routes) = c + 1
      /\ \A k \in 1..c : routes[k] = Route(bs[g[k]])
      /\ routes[c + 1] = Fallback
  BY DEF Listener, Orders
<1> HIDE DEF routes
<1>2. Under(v[a + 1], path) = {k \in 1..c + 1 : IsPrefix(routes[k].prefix, path)}
  BY <1>1 DEF Under, routes
<1>3. c + 1 \in 1..c + 1 /\ \A k \in 1..c : k \in 1..c + 1
  BY <1>1
<1>4. IsPrefix(routes[c + 1].prefix, path)
  <2>1. Fallback.prefix = Root
    BY DEF Fallback
  <2> QED
    BY <1>1, <2>1, EverythingUnderRoot
<1>5. ASSUME NEW k \in 1..c
      PROVE  IsPrefix(routes[k].prefix, path) <=> g[k] \in Sharers(bs, path)
  <2>1. g[k] \in Shared(bs) /\ bs[g[k]].prefix # None
    BY <1>1 DEF Shared
  <2>2. Route(bs[g[k]]).prefix = bs[g[k]].prefix
    BY <2>1 DEF Route
  <2> QED
    BY <1>1, <2>1, <2>2 DEF Sharers
<1> QED
  BY <1>2, <1>3, <1>4, <1>5

\* A host that is no backend's domain is served by the catch-all virtual host.
LEMMA CatchAllServes ==
  ASSUME NEW bs \in Seq(Backend), NamesDiffer(bs), Regular(bs), NEW host, Owners(bs, host) = {},
         NEW path, NEW f, NEW a, NEW g, NEW c, Listener(BuildLDS(bs), bs, f, a, g, c)
  PROVE  LET v == BuildLDS(bs) IN
         Matching(v, host, path) = Pick(v[a + 1].routes, Under(v[a + 1], path))
<1> DEFINE v == BuildLDS(bs)
<1>1. DomainsDiffer(v)
  BY RegularListener
<1>2. Listener(v, bs, f, a, g, c)
  OBVIOUS
<1> HIDE DEF v
<1>3. /\ a \in Nat /\ Len(v) = a + 1 /\ f \in [1..a -> Owning(bs)]
      /\ \A k \in 1..a : v[k] = HostOf(bs[f[k]])
      /\ v[a + 1].domain = Star
  BY <1>2 DEF Listener, Orders
<1>4. PICK S : v \in Seq(S)
  BY <1>2 DEF Listener
<1>5. ASSUME NEW k \in 1..a PROVE v[k].domain # host
  <2>1. f[k] \in 1..Len(bs) /\ v[k] = HostOf(bs[f[k]])
    BY <1>3 DEF Owning
  <2>2. v[k].domain = bs[f[k]].domain
    BY <2>1 DEF HostOf
  <2> QED
    BY <2>1, <2>2 DEF Owners
<1>6. v[a + 1].domain = host \/ \A k \in 1..Len(v) : v[k].domain # host
  <2>1. \A k \in 1..Len(v) : k \in 1..a \/ k = a + 1
    BY <1>3
  <2> QED
    BY <1>5, <2>1
<1>7. a + 1 \in 1..Len(v)
  BY <1>3
<1>8. Matching(v, host, path) = Pick(v[a + 1].routes, Under(v[a + 1], path))
  BY <1>1, <1>3, <1>4, <1>6, <1>7, HostChosen
<1> QED
  BY <1>8 DEF v

Least(n, T) == n \in T /\ \A m \in T : n <= m

LEMMA ReachesSharer ==
  ASSUME NEW bs \in Seq(Backend), NamesDiffer(bs), Regular(bs), NEW host, Owners(bs, host) = {},
         NEW path, Len(path) \in Nat, NEW n, Least(n, Sharers(bs, path))
  PROVE  Reaches(BuildLDS(bs), host, path) = bs[n].name
<1>0. n \in Sharers(bs, path) /\ \A m \in Sharers(bs, path) : n <= m
  BY DEF Least
<1> DEFINE v == BuildLDS(bs)
<1>1. PICK f, a, g, c : Listener(v, bs, f, a, g, c)
  BY ListenerOf
<1> DEFINE routes == v[a + 1].routes
           U == Under(v[a + 1], path)
<1>2. Matching(v, host, path) = Pick(routes, U)
  BY <1>1, CatchAllServes
<1> HIDE DEF v
<1>3. /\ c + 1 \in U /\ \A k \in U : k \in 1..c + 1
      /\ \A k \in 1..c : k \in U <=> g[k] \in Sharers(bs, path)
  BY <1>1, UnderCatchAll
<1>4. /\ c \in Nat /\ g \in [1..c -> Shared(bs)] /\ Len(routes) = c + 1 /\ routes \in Seq(RouteSet)
      /\ \A j, k \in 1..c : j < k => g[j] < g[k]
      /\ \A m \in Shared(bs) : \E k \in 1..c : g[k] = m
      /\ \A k \in 1..c : routes[k] = Route(bs[g[k]])
  BY <1>1 DEF Listener, Orders
<1> HIDE DEF routes, U
<1>5. PICK k \in 1..c : g[k] = n
  BY <1>0, <1>4 DEF Sharers
<1>6. k \in U
  BY <1>0, <1>3, <1>5
<1>7. ASSUME NEW j \in U PROVE k <= j
  <2> SUFFICES ASSUME j < k PROVE FALSE
    BY <1>3, <1>4, <1>5
  <2>1. j \in 1..c
    BY <1>3, <1>4, <1>5
  <2>2. g[j] \in Sharers(bs, path) /\ g[j] < n
    BY <1>3, <1>4, <1>5, <2>1
  <2>3. g[j] \in Int /\ n \in Int
    <3>1. Sharers(bs, path) \subseteq Int
      BY DEF Sharers, Shared
    <3> QED
      BY <1>0, <2>2, <3>1
  <2> QED
    BY <1>0, <2>2, <2>3
<1>8. U \in SUBSET (1..Len(routes))
  BY <1>3, <1>4
<1>9. Pick(routes, U) # << >> /\ Pick(routes, U)[1] = routes[k]
  BY <1>4, <1>6, <1>7, <1>8, PickFirst
<1>10. routes[k].cluster = bs[n].name
  BY <1>4, <1>5, RouteFields
<1> QED
  BY <1>2, <1>9, <1>10 DEF Reaches, v

LEMMA ReachesFallback ==
  ASSUME NEW bs \in Seq(Backend), NamesDiffer(bs), Regular(bs), NEW host, Owners(bs, host) = {},
         NEW path, Len(path) \in Nat, Sharers(bs, path) = {}
  PROVE  Reaches(BuildLDS(bs), host, path) = DefaultApp
<1> DEFINE v == BuildLDS(bs)
<1>1. PICK f, a, g, c : Listener(v, bs, f, a, g, c)
  BY ListenerOf
<1> DEFINE routes == v[a + 1].routes
           U == Under(v[a + 1], path)
<1>2. Matching(v, host, path) = Pick(routes, U)
  BY <1>1, CatchAllServes
<1> HIDE DEF v
<1>3. /\ c + 1 \in U /\ \A k \in U : k \in 1..c + 1
      /\ \A k \in 1..c : k \in U <=> g[k] \in Sharers(bs, path)
  BY <1>1, UnderCatchAll
<1>4. c \in Nat /\ Len(routes) = c + 1 /\ routes \in Seq(RouteSet) /\ routes[c + 1] = Fallback
  BY <1>1 DEF Listener, Orders
<1> HIDE DEF routes, U
<1>5. U = {c + 1}
  BY <1>3, <1>4
<1>6. U \in SUBSET (1..Len(routes)) /\ \A j \in U : c + 1 <= j
  BY <1>4, <1>5
<1>7. Pick(routes, U) # << >> /\ Pick(routes, U)[1] = Fallback
  BY <1>3, <1>4, <1>6, PickFirst
<1>8. Fallback.cluster = DefaultApp
  BY DEF Fallback
<1> QED
  BY <1>2, <1>7, <1>8 DEF Reaches, v

LEMMA SharersNumbers == ASSUME NEW bs \in Seq(Backend), NEW path PROVE Sharers(bs, path) \in SUBSET Nat
  BY LenProperties DEF Sharers, Shared

LEMMA ReachesDocumented ==
  ASSUME WellFormed, Accepted(backends), NEW host \in Host, NEW path \in Path
  PROVE  Reaches(BuildLDS(backends), host, path) = Documented(host, path)
<1> DEFINE owners == Pick(backends, Owners(backends, host))
           under == Pick(backends, Sharers(backends, path))
<1>1. backends \in Seq(Backend) /\ NamesDiffer(backends) /\ Regular(backends)
  BY RegularLists DEF WellFormed
<1>2. host # None /\ Len(path) \in Nat
  BY ValuesAssumption
<1>3. Documented(host, path) =
        CASE owners # << >> -> IF owners[1].prefix = None \/ IsPrefix(owners[1].prefix, path)
                                 THEN owners[1].name ELSE None
          [] owners = << >> /\ under # << >> -> under[1].name
          [] OTHER -> DefaultApp
  <2>1. {n \in 1..Len(backends) : /\ backends[n].domain = None /\ backends[n].prefix # None
                                  /\ IsPrefix(backends[n].prefix, path)}
          = Sharers(backends, path)
    BY DEF Sharers, Shared
  <2> QED
    BY <2>1, Zenon DEF Documented, Select, Owners
<1>4. ASSUME NEW n \in Owners(backends, host)
      PROVE  Reaches(BuildLDS(backends), host, path) = Documented(host, path)
  <2>1. Owners(backends, host) = {n}
    BY <1>1, <1>2 DEF Owners, Regular
  <2>2. /\ Owners(backends, host) \in SUBSET (1..Len(backends))
        /\ \A m \in Owners(backends, host) : n <= m
    BY <1>1, <2>1, LenProperties DEF Owners
  <2>3. owners # << >> /\ owners[1] = backends[n]
    BY <1>1, <2>2, PickFirst
  <2> HIDE DEF owners
  <2>4. Documented(host, path) = IF backends[n].prefix = None \/ IsPrefix(backends[n].prefix, path)
                                   THEN backends[n].name ELSE None
    BY <1>3, <2>3
  <2>5. IsPrefix(Route(backends[n]).prefix, path)
          <=> backends[n].prefix = None \/ IsPrefix(backends[n].prefix, path)
    <3>1. Route(backends[n]).prefix = IF backends[n].prefix = None THEN Root ELSE backends[n].prefix
      BY DEF Route
    <3> QED
      BY <1>2, <3>1, EverythingUnderRoot
  <2>6. Reaches(BuildLDS(backends), host, path) =
          IF IsPrefix(Route(backends[n]).prefix, path) THEN backends[n].name ELSE None
    BY <1>1, <1>2, ReachesOwner
  <2> QED
    BY <2>4, <2>5, <2>6
<1>5. ASSUME Owners(backends, host) = {}
      PROVE  Reaches(BuildLDS(backends), host, path) = Documented(host, path)
  <2>1. owners = << >>
    BY <1>1, <1>5, PickNone
  <2>2. CASE Sharers(backends, path) = {}
    <3>1. under = << >>
      BY <1>1, <2>2, PickNone
    <3> HIDE DEF owners, under
    <3>2. Documented(host, path) = DefaultApp
      BY <1>3, <2>1, <3>1
    <3> QED
      BY <1>1, <1>2, <1>5, <2>2, <3>2, ReachesFallback
  <2>3. CASE Sharers(backends, path) # {}
    <3>1. PICK n \in Sharers(backends, path) : \A m \in Sharers(backends, path) : n <= m
      BY <1>1, <2>3, SharersNumbers, LeastNatural
    <3>2. Sharers(backends, path) \in SUBSET (1..Len(backends))
      BY DEF Sharers, Shared
    <3>3. under # << >> /\ under[1] = backends[n]
      BY <1>1, <3>1, <3>2, PickFirst
    <3> HIDE DEF owners, under
    <3>4. Documented(host, path) = backends[n].name
      BY <1>3, <2>1, <3>3
    <3> QED
      BY <1>1, <1>2, <1>5, <3>1, <3>4, ReachesSharer DEF Least
  <2> QED
    BY <2>2, <2>3
<1> QED
  BY <1>4, <1>5

LEMMA DocumentedRoutes == WellFormed => RoutesAsDocumented
<1> SUFFICES ASSUME WellFormed, Accepted(backends), NEW q \in Request
             PROVE  Traffic(backends)[q] = Documented(q[1], q[2])
  BY DEF RoutesAsDocumented
<1>1. q[1] \in Host /\ q[2] \in Path
  BY DEF Request
<1>2. Traffic(backends)[q] = Reaches(BuildLDS(backends), q[1], q[2])
  BY DEF Traffic
<1> QED
  BY <1>1, <1>2, ReachesDocumented

\* Every request goes where the user guide says, for any list that Envoy takes:
\* to the owner of its host, else to the first prefix it is under, else nowhere
\* but default_app (BuildLDS and Envoy's matching).
THEOREM ValuesRouting == Spec => []RoutesAsDocumented
  BY ValuesWellFormed, DocumentedRoutes, PTL
-----------------------------------------------------------------------------
(* What faults do to requests                                              *)

\* The best route for a request is of a host of the listener: the faults it takes
\* are those of the cluster it goes to.
LEMMA ServingHost ==
  ASSUME NEW bs \in Seq(Backend), NamesDiffer(bs), Regular(bs), NEW host, host # None, NEW path
  PROVE  \E h \in 1..Len(BuildLDS(bs)) :
           Matching(BuildLDS(bs), host, path)
             = Pick(BuildLDS(bs)[h].routes, Under(BuildLDS(bs)[h], path))
<1> DEFINE v == BuildLDS(bs)
<1>1. PICK f, a, g, c : Listener(v, bs, f, a, g, c)
  BY ListenerOf
<1>2. DomainsDiffer(v)
  BY RegularListener
<1>3. CASE Owners(bs, host) = {}
  <2>1. Matching(v, host, path) = Pick(v[a + 1].routes, Under(v[a + 1], path))
    BY <1>1, <1>3, CatchAllServes
  <2>2. a + 1 \in 1..Len(v)
    BY <1>1 DEF Listener, Orders
  <2> QED
    BY <2>1, <2>2
<1>4. ASSUME NEW n \in Owners(bs, host)
      PROVE  \E h \in 1..Len(v) : Matching(v, host, path) = Pick(v[h].routes, Under(v[h], path))
  <2> HIDE DEF v
  <2>1. n \in Owning(bs) /\ bs[n].domain = host
    BY DEF Owners, Owning
  <2>2. PICK k \in 1..a : f[k] = n
    BY <1>1, <2>1 DEF Listener, Orders
  <2>3. k \in 1..Len(v) /\ v[k] = HostOf(bs[n])
    BY <1>1, <2>2 DEF Listener, Orders
  <2>4. v[k].domain = host
    BY <2>1, <2>3 DEF HostOf
  <2>5. PICK S : v \in Seq(S)
    BY <1>1 DEF Listener
  <2>6. Matching(v, host, path) = Pick(v[k].routes, Under(v[k], path))
    BY <1>2, <2>3, <2>4, <2>5, HostChosen
  <2> QED
    BY <2>3, <2>6
<1> QED
  BY <1>3, <1>4

LEMMA BestRoute ==
  ASSUME NEW bs \in Seq(Backend), NamesDiffer(bs), Regular(bs), NEW host, host # None, NEW path,
         Matching(BuildLDS(bs), host, path) # << >>
  PROVE  LET r == Matching(BuildLDS(bs), host, path)[1] IN
         r.fault = r.cluster /\ r.cluster \in Target
<1> DEFINE v == BuildLDS(bs)
           rs == Matching(v, host, path)
<1>1. PICK h \in 1..Len(v) : rs = Pick(v[h].routes, Under(v[h], path))
  BY ServingHost
<1>2. v[h].routes \in Seq(RouteSet) /\ Under(v[h], path) \in SUBSET (1..Len(v[h].routes))
  BY HostsTyped DEF Under
<1> HIDE DEF v, rs
<1>3. rs \in Seq(RouteSet)
  BY <1>1, <1>2, PickLists
<1>4. rs # << >>
  BY DEF rs, v
<1>5. rs[1] \in RouteSet
  <2>1. 1 \in 1..Len(rs)
    BY <1>3, <1>4, EmptySeq
  <2> QED
    BY <1>3, <2>1, ElementOfSeq
<1>6. Fallback.fault = Fallback.cluster /\ Fallback.cluster = DefaultApp
  BY DEF Fallback
<1>7. \A b \in Backend : b.name \in Name
  BY DEF Backend
<1>8. rs[1].fault = rs[1].cluster /\ rs[1].cluster \in Target
  BY <1>5, <1>6, <1>7, RouteFields DEF RouteSet, Target
<1> QED
  BY <1>8 DEF rs, v

\* What the fault filter reads for a target, from the faults themselves.
Setting(fs, t, d) == IF t \in DOMAIN fs /\ fs[t][d] # 0 THEN fs[t][d] ELSE Default[d]

Effect(fs, t) ==
  <<IF Setting(fs, t, "abort_percent") = 0 THEN << >>
      ELSE <<Setting(fs, t, "abort_percent"), Setting(fs, t, "abort_status")>>,
    IF Setting(fs, t, "delay_percent") = 0 \/ Setting(fs, t, "delay_duration") = 0 THEN << >>
      ELSE <<Setting(fs, t, "delay_percent"), Setting(fs, t, "delay_duration")>>>>

LEMMA SuffersEffect ==
  ASSUME NEW v, NEW fs, NEW host, NEW path, Matching(v, host, path) # << >>
  PROVE  Suffers(v, BuildRuntime(fs), host, path) = Effect(fs, Matching(v, host, path)[1].fault)
<1> DEFINE t == Matching(v, host, path)[1].fault
           rt == BuildRuntime(fs)
           get(d) == IF <<d, t>> \in DOMAIN rt THEN rt[<<d, t>>] ELSE Default[d]
<1>1. ASSUME NEW d \in Dimension PROVE get(d) = Setting(fs, t, d)
  <2>1. /\ <<d, t>> \in DOMAIN rt <=> t \in DOMAIN fs /\ fs[t][d] # 0
        /\ <<d, t>> \in DOMAIN rt => rt[<<d, t>>] = fs[t][d]
    BY RuntimeOf
  <2> HIDE DEF rt, t
  <2> QED
    BY <2>1 DEF Setting
<1>2. Suffers(v, rt, host, path) =
        <<IF get("abort_percent") = 0 THEN << >> ELSE <<get("abort_percent"), get("abort_status")>>,
          IF get("delay_percent") = 0 \/ get("delay_duration") = 0 THEN << >>
            ELSE <<get("delay_percent"), get("delay_duration")>>>>
  BY Zenon DEF Suffers
<1>3. /\ get("abort_percent") = Setting(fs, t, "abort_percent")
      /\ get("abort_status") = Setting(fs, t, "abort_status")
      /\ get("delay_percent") = Setting(fs, t, "delay_percent")
      /\ get("delay_duration") = Setting(fs, t, "delay_duration")
  <2> HIDE DEF get
  <2> QED
    BY <1>1 DEF Dimension
<1>4. Effect(fs, t) =
        <<IF Setting(fs, t, "abort_percent") = 0 THEN << >>
            ELSE <<Setting(fs, t, "abort_percent"), Setting(fs, t, "abort_status")>>,
          IF Setting(fs, t, "delay_percent") = 0 \/ Setting(fs, t, "delay_duration") = 0 THEN << >>
            ELSE <<Setting(fs, t, "delay_percent"), Setting(fs, t, "delay_duration")>>>>
  BY Zenon DEF Effect
<1> HIDE DEF get, t, rt
<1>5. Suffers(v, rt, host, path) = Effect(fs, t)
  BY <1>2, <1>3, <1>4
<1> QED
  BY <1>5 DEF t, rt

LEMMA EffectCommanded ==
  ASSUME NEW t, FaultOK(Faults(t)),
         ~(Faults(t)["delay_percent"] # 0 /\ Faults(t)["delay_duration"] = 0)
  PROVE  Effect(faults, t) = Commanded(t)
<1> DEFINE f == Faults(t)
<1>1. \A d \in Dimension : Setting(faults, t, d) = IF f[d] # 0 THEN f[d] ELSE Default[d]
  BY DEF Setting, Faults, NoFault
<1>2. FaultOK(f) /\ ~(f["delay_percent"] # 0 /\ f["delay_duration"] = 0)
  OBVIOUS
<1> HIDE DEF f
<1>3. /\ Default["abort_percent"] = 0 /\ Default["delay_percent"] = 0
      /\ {"abort_percent", "abort_status", "delay_percent", "delay_duration"} \subseteq Dimension
  BY DEF Default, Dimension
<1>4. /\ Setting(faults, t, "abort_percent") = f["abort_percent"]
      /\ Setting(faults, t, "delay_percent") = f["delay_percent"]
      /\ f["abort_percent"] # 0 => Setting(faults, t, "abort_status") = f["abort_status"]
      /\ f["delay_percent"] # 0 => Setting(faults, t, "delay_duration") = f["delay_duration"]
  BY <1>1, <1>2, <1>3 DEF FaultOK
<1>5. Commanded(t) =
        <<IF f["abort_percent"] = 0 THEN << >> ELSE <<f["abort_percent"], f["abort_status"]>>,
          IF f["delay_percent"] = 0 \/ f["delay_duration"] = 0 THEN << >>
            ELSE <<f["delay_percent"], f["delay_duration"]>>>>
  BY Zenon DEF Commanded, f
<1>6. (IF Setting(faults, t, "abort_percent") = 0 THEN << >>
         ELSE <<Setting(faults, t, "abort_percent"), Setting(faults, t, "abort_status")>>)
      = IF f["abort_percent"] = 0 THEN << >> ELSE <<f["abort_percent"], f["abort_status"]>>
  BY <1>4
<1>7. (IF Setting(faults, t, "delay_percent") = 0 \/ Setting(faults, t, "delay_duration") = 0 THEN << >>
         ELSE <<Setting(faults, t, "delay_percent"), Setting(faults, t, "delay_duration")>>)
      = IF f["delay_percent"] = 0 \/ f["delay_duration"] = 0 THEN << >>
          ELSE <<f["delay_percent"], f["delay_duration"]>>
  BY <1>2, <1>4
<1> QED
  BY <1>5, <1>6, <1>7, Zenon DEF Effect
LEMMA NoFaultOK == FaultOK(NoFault)
  BY DEF FaultOK, NoFault, Dimension

LEMMA EffectsTaken == WellFormed => FaultsTakeEffect
<1> SUFFICES ASSUME WellFormed, Accepted(backends), NEW q \in Request,
                    Traffic(backends)[q] # None,
                    ~(/\ Faults(Traffic(backends)[q])["delay_percent"] # 0
                      /\ Faults(Traffic(backends)[q])["delay_duration"] = 0)
             PROVE  Behaviour(backends, faults)[q] = Commanded(Traffic(backends)[q])
  BY DEF FaultsTakeEffect
<1> DEFINE v == BuildLDS(backends)
           rs == Matching(v, q[1], q[2])
           t == Traffic(backends)[q]
<1>1. backends \in Seq(Backend) /\ NamesDiffer(backends) /\ Regular(backends)
  BY RegularLists DEF WellFormed
<1>2. q[1] # None
  BY ValuesAssumption DEF Request
<1>3. t = IF rs = << >> THEN None ELSE rs[1].cluster
  BY DEF Traffic, Reaches
<1>4. rs # << >> /\ t = rs[1].cluster
  BY <1>3
<1>5. rs[1].fault = t
  BY <1>1, <1>2, <1>4, BestRoute
<1>6. Behaviour(backends, faults)[q] = Suffers(v, BuildRuntime(faults), q[1], q[2])
  BY DEF Behaviour
<1>7. Suffers(v, BuildRuntime(faults), q[1], q[2]) = Effect(faults, t)
  BY <1>4, <1>5, SuffersEffect
<1>8. FaultOK(Faults(t))
  BY NoFaultOK DEF Faults, WellFormed
<1>9. Effect(faults, t) = Commanded(t)
  BY <1>8, EffectCommanded
<1> QED
  BY <1>6, <1>7, <1>9

\* With any list that Envoy takes, a request that reaches a backend suffers what the
\* fault commands last asked for that backend, but for delays of 0 ms (BuildRuntime's
\* keys and the route's own setting).
THEOREM ValuesFaultsTakeEffect == Spec => []FaultsTakeEffect
  BY ValuesWellFormed, EffectsTaken, PTL

\* A fault command changes nothing for other targets than its own.
LEMMA FaultOnlyItsTarget ==
  ASSUME NEW t, Fault(t), NEW u, u # t
  PROVE  /\ u \in DOMAIN faults' <=> u \in DOMAIN faults
         /\ u \in DOMAIN faults => faults'[u] = faults[u]
<1>1. ASSUME NEW f, faults' = WithFault(t, f)
      PROVE  /\ u \in DOMAIN faults' <=> u \in DOMAIN faults
             /\ u \in DOMAIN faults => faults'[u] = faults[u]
  <2>1. DOMAIN faults' = DOMAIN faults \cup {t}
    BY <1>1 DEF WithFault
  <2>2. \A w \in DOMAIN faults \cup {t} : faults'[w] = IF w = t THEN f ELSE faults[w]
    BY <1>1 DEF WithFault
  <2> QED
    BY <2>1, <2>2
<1>2. CASE FaultReset(t)
  <2>1. faults' = [w \in DOMAIN faults \ {t} |-> faults[w]]
    BY <1>2 DEF FaultReset
  <2>2. DOMAIN faults' = DOMAIN faults \ {t} /\ \A w \in DOMAIN faults \ {t} : faults'[w] = faults[w]
    BY <2>1
  <2> QED
    BY <2>2
<1>3. ASSUME NEW p \in Percent, NEW s \in Status, FaultAbort(t, p, s)
      PROVE  /\ u \in DOMAIN faults' <=> u \in DOMAIN faults
             /\ u \in DOMAIN faults => faults'[u] = faults[u]
  BY <1>1, <1>3 DEF FaultAbort
<1>4. ASSUME NEW p \in Percent, NEW d \in Millis, FaultDelay(t, p, d)
      PROVE  /\ u \in DOMAIN faults' <=> u \in DOMAIN faults
             /\ u \in DOMAIN faults => faults'[u] = faults[u]
  BY <1>1, <1>4 DEF FaultDelay
<1> QED
  BY <1>2, <1>3, <1>4 DEF Fault

LEMMA IsolatedStep ==
  ASSUME WellFormed, Accepted(backends), NEW t \in Target, Fault(t), NEW q \in Request
  PROVE  \/ Behaviour(backends, faults)[q] = Behaviour(backends, faults')[q]
         \/ Traffic(backends)[q] = t
<1> DEFINE v == BuildLDS(backends)
           rs == Matching(v, q[1], q[2])
<1>1. backends \in Seq(Backend) /\ NamesDiffer(backends) /\ Regular(backends)
  BY RegularLists DEF WellFormed
<1>2. q[1] # None
  BY ValuesAssumption DEF Request
<1>3. /\ Behaviour(backends, faults)[q] = Suffers(v, BuildRuntime(faults), q[1], q[2])
      /\ Behaviour(backends, faults')[q] = Suffers(v, BuildRuntime(faults'), q[1], q[2])
  BY DEF Behaviour
<1>4. CASE rs = << >>
  <2>1. \A rt : Suffers(v, rt, q[1], q[2]) = <<<< >>, << >>>>
    BY <1>4, Zenon DEF Suffers
  <2> QED
    BY <1>3, <2>1, Zenon
<1>5. CASE rs # << >> /\ rs[1].cluster = t
  <2>1. Traffic(backends)[q] = IF rs = << >> THEN None ELSE rs[1].cluster
    BY DEF Traffic, Reaches
  <2> QED
    BY <1>5, <2>1
<1>6. CASE rs # << >> /\ rs[1].cluster # t
  <2> DEFINE u == rs[1].fault
  <2>1. u # t
    BY <1>1, <1>2, <1>6, BestRoute
  <2>2. /\ Suffers(v, BuildRuntime(faults), q[1], q[2]) = Effect(faults, u)
        /\ Suffers(v, BuildRuntime(faults'), q[1], q[2]) = Effect(faults', u)
    BY <1>6, SuffersEffect
  <2> HIDE DEF u
  <2>3. /\ u \in DOMAIN faults' <=> u \in DOMAIN faults
        /\ u \in DOMAIN faults => faults'[u] = faults[u]
    BY <2>1, FaultOnlyItsTarget
  <2>4. \A d : Setting(faults, u, d) = Setting(faults', u, d)
    BY <2>3 DEF Setting
  <2>5. Effect(faults, u) = Effect(faults', u)
    BY <2>4 DEF Effect
  <2> QED
    BY <1>3, <2>2, <2>5
<1> QED
  BY <1>4, <1>5, <1>6

LEMMA IsolationStep ==
  WellFormed =>
    [LET before == Behaviour(backends, faults)
         after == Behaviour(backends, faults')
     IN  faults' # faults /\ UNCHANGED backends /\ Accepted(backends) /\ before # after =>
           \A t \in Target : Fault(t) =>
             \A q \in Request : before[q] = after[q] \/ Traffic(backends)[q] = t]_vars
  BY IsolatedStep

\* A fault command changes what happens to the requests for its own target only,
\* with any list that Envoy takes and whatever faults the others have.
THEOREM ValuesFaultIsolation == Spec => FaultIsolation
  BY ValuesWellFormed, IsolationStep, PTL DEF FaultIsolation
-----------------------------------------------------------------------------
(* The way back                                                            *)

LEMMA HostFields == \A b : HostOf(b).domain = b.domain /\ HostOf(b).routes = <<Route(b)>>
  BY DEF HostOf

LEMMA OwnHostRoutes ==
  ASSUME NEW b, NEW c
  PROVE  /\ b.name = c => RoutedTo(HostOf(b), c) = {1}
         /\ b.name # c => RoutedTo(HostOf(b), c) = {}
<1>1. HostOf(b).routes = <<Route(b)>>
  BY HostFields
<1>2. Len(HostOf(b).routes) = 1 /\ HostOf(b).routes[1] = Route(b)
  BY <1>1
<1> QED
  BY <1>2, RouteFields DEF RoutedTo

\* The route of a backend that has one is the only one to its cluster.
LEMMA OwnerFound ==
  ASSUME NEW bs \in Seq(Backend), NamesDiffer(bs), NEW n \in Owning(bs)
  PROVE  \E h \in 1..Len(BuildLDS(bs)) :
           /\ BuildLDS(bs)[h].domain = bs[n].domain
           /\ FindRemoteRoute(BuildLDS(bs), bs[n].name) = Found(BuildLDS(bs)[h], Route(bs[n]))
<1> DEFINE v == BuildLDS(bs)
           route == Route(bs[n])
<1>1. PICK f, a, g, c : Listener(v, bs, f, a, g, c)
  BY ListenerOf
<1>0. \A k \in 1..Len(v) : v[k].routes \in Seq(RouteSet)
  BY HostsTyped
<1> HIDE DEF v
<1>2. /\ a \in Nat /\ Len(v) = a + 1 /\ f \in [1..a -> Owning(bs)]
      /\ \A j, k \in 1..a : j < k => f[j] < f[k]
      /\ \A k \in 1..a : v[k] = HostOf(bs[f[k]])
  BY <1>1 DEF Listener, Orders
<1>3. PICK k \in 1..a : f[k] = n
  BY <1>1 DEF Listener, Orders
<1>5. k \in 1..Len(v) /\ v[k].domain = bs[n].domain /\ v[k].routes = <<route>>
  BY <1>2, <1>3, HostFields
<1>6. \A j \in 1..a : RoutedTo(v[j], bs[n].name) # {} => bs[f[j]].name = bs[n].name
  BY <1>2, OwnHostRoutes
<1>7. 1 \in RoutedTo(v[k], bs[n].name) /\ \A i \in RoutedTo(v[k], bs[n].name) : 1 <= i
  <2>1. RoutedTo(v[k], bs[n].name) = {1}
    BY <1>2, <1>3, OwnHostRoutes
  <2> QED
    BY <2>1
<1>8. ASSUME NEW j \in 1..Len(v), RoutedTo(v[j], bs[n].name) # {} PROVE k <= j
  <2> SUFFICES ASSUME j < k PROVE FALSE
    BY <1>2, <1>3
  <2>1. j \in 1..a /\ f[j] < n
    BY <1>2, <1>3
  <2>2. bs[f[j]].name = bs[n].name
    BY <1>6, <1>8, <2>1
  <2>3. f[j] \in 1..Len(bs) /\ n \in 1..Len(bs)
    BY <1>2, <2>1 DEF Owning
  <2>4. f[j] = n
    BY <2>2, <2>3 DEF NamesDiffer
  <2> QED
    BY <2>1, <2>3, <2>4
<1>9. Len(v) \in Nat
  BY <1>2
<1>10. FindRemoteRoute(v, bs[n].name) = Found(v[k], v[k].routes[1])
  BY <1>0, <1>5, <1>7, <1>8, <1>9, RouteTaken
<1>11. v[k].routes[1] = route
  BY <1>5
<1> QED
  BY <1>5, <1>10, <1>11 DEF v

LEMMA SharerFound ==
  ASSUME NEW bs \in Seq(Backend), NamesDiffer(bs), Regular(bs), NEW n \in Shared(bs)
  PROVE  \E h \in 1..Len(BuildLDS(bs)) :
           /\ BuildLDS(bs)[h].domain = Star
           /\ FindRemoteRoute(BuildLDS(bs), bs[n].name) = Found(BuildLDS(bs)[h], Route(bs[n]))
<1> DEFINE v == BuildLDS(bs)
           name == bs[n].name
<1>1. PICK f, a, g, c : Listener(v, bs, f, a, g, c)
  BY ListenerOf
<1> HIDE DEF v
<1> DEFINE routes == v[a + 1].routes
<1>2. /\ a \in Nat /\ Len(v) = a + 1 /\ f \in [1..a -> Owning(bs)]
      /\ \A k \in 1..a : v[k] = HostOf(bs[f[k]])
      /\ v[a + 1].domain = Star
      /\ c \in Nat /\ g \in [1..c -> Shared(bs)] /\ routes \in Seq(RouteSet) /\ Len(routes) = c + 1
      /\ \A k \in 1..c : routes[k] = Route(bs[g[k]])
      /\ routes[c + 1] = Fallback
      /\ Orders(g, c, Shared(bs))
  BY <1>1 DEF Listener, Orders
<1>3. PICK j \in 1..c : g[j] = n
  BY <1>1 DEF Listener, Orders
<1>4. n \in 1..Len(bs) /\ Shared(bs) \in SUBSET Nat /\ name # DefaultApp
  BY LenProperties DEF Shared, Regular
<1>5. ASSUME NEW k \in 1..a PROVE RoutedTo(v[k], name) = {}
  <2>1. f[k] \in 1..Len(bs) /\ f[k] # n
    BY <1>2 DEF Owning, Shared
  <2>2. bs[f[k]].name # name
    BY <1>4, <2>1 DEF NamesDiffer
  <2> QED
    BY <1>2, <2>2, OwnHostRoutes
<1>6. RoutedTo(v[a + 1], name) = {j}
  <2>1. j \in 1..c + 1 /\ routes[j].cluster = name
    <3>1. j \in 1..c + 1
      BY <1>2, <1>3
    <3>2. routes[j] = Route(bs[n])
      BY <1>2, <1>3
    <3> QED
      BY <3>1, <3>2, RouteFields
  <2>2. ASSUME NEW i \in 1..c + 1, routes[i].cluster = name PROVE i = j
    <3>1. Fallback.cluster = DefaultApp
      BY DEF Fallback
    <3>2. i \in 1..c
      BY <1>2, <1>4, <2>2, <3>1
    <3>3. g[i] \in 1..Len(bs) /\ bs[g[i]].name = name
      BY <1>2, <2>2, <3>2, RouteFields DEF Shared
    <3>4. g[i] = g[j]
      BY <1>3, <1>4, <3>3 DEF NamesDiffer
    <3> QED
      BY <1>2, <1>4, <3>2, <3>4, OrdersInjective
  <2> HIDE DEF routes
  <2>3. RoutedTo(v[a + 1], name) = {i \in 1..c + 1 : routes[i].cluster = name}
    BY <1>2 DEF RoutedTo, routes
  <2> QED
    BY <2>1, <2>2, <2>3
<1>7. a + 1 \in 1..Len(v) /\ Len(v) \in Nat
  BY <1>2
<1>8. ASSUME NEW m \in 1..Len(v), RoutedTo(v[m], name) # {} PROVE a + 1 <= m
  <2>1. m \notin 1..a
    BY <1>5, <1>8
  <2> QED
    BY <1>2, <2>1
<1>9. j \in RoutedTo(v[a + 1], name) /\ \A i \in RoutedTo(v[a + 1], name) : j <= i
  BY <1>2, <1>6
<1>10. FindRemoteRoute(v, name) = Found(v[a + 1], v[a + 1].routes[j])
  <2>1. v[a + 1].routes \in Seq(RouteSet)
    BY <1>2
  <2> HIDE DEF name
  <2> QED
    BY <1>7, <1>8, <1>9, <2>1, RouteTaken
<1>11. v[a + 1].routes[j] = Route(bs[n])
  BY <1>2, <1>3
<1> QED
  BY <1>2, <1>7, <1>10, <1>11 DEF v

LEMMA UnroutedFound ==
  ASSUME NEW bs \in Seq(Backend), NamesDiffer(bs), Regular(bs), NEW n \in 1..Len(bs),
         bs[n].domain = None, bs[n].prefix = None
  PROVE  FindRemoteRoute(BuildLDS(bs), bs[n].name) = NoRoute
<1> DEFINE v == BuildLDS(bs)
           name == bs[n].name
<1>1. PICK f, a, g, c : Listener(v, bs, f, a, g, c)
  BY ListenerOf
<1> HIDE DEF v
<1> DEFINE routes == v[a + 1].routes
<1>2. /\ a \in Nat /\ Len(v) = a + 1 /\ f \in [1..a -> Owning(bs)]
      /\ \A k \in 1..a : v[k] = HostOf(bs[f[k]])
      /\ c \in Nat /\ g \in [1..c -> Shared(bs)] /\ Len(routes) = c + 1
      /\ \A k \in 1..c : routes[k] = Route(bs[g[k]])
      /\ routes[c + 1] = Fallback
  BY <1>1 DEF Listener, Orders
<1>3. ASSUME NEW m \in Owning(bs) \cup Shared(bs) PROVE bs[m].name # name
  BY DEF Owning, Shared, NamesDiffer
<1>4. ASSUME NEW k \in 1..a PROVE RoutedTo(v[k], name) = {}
  <2>1. bs[f[k]].name # name
    BY <1>2, <1>3
  <2> QED
    BY <1>2, <2>1, OwnHostRoutes
<1>5. RoutedTo(v[a + 1], name) = {}
  <2>1. ASSUME NEW i \in 1..c + 1 PROVE routes[i].cluster # name
    <3>1. CASE i = c + 1
      <4>1. routes[i].cluster = DefaultApp
        BY <1>2, <3>1 DEF Fallback
      <4> QED
        BY <4>1 DEF Regular
    <3>2. CASE i # c + 1
      <4>1. i \in 1..c
        BY <1>2, <3>2
      <4>2. routes[i].cluster = bs[g[i]].name
        BY <1>2, <4>1, RouteFields
      <4> QED
        BY <1>2, <1>3, <4>1, <4>2
    <3> QED
      BY <3>1, <3>2
  <2> HIDE DEF routes
  <2> QED
    BY <1>2, <2>1 DEF RoutedTo, routes
<1>6. \A k \in 1..Len(v) : RoutedTo(v[k], name) = {}
  <2>1. \A k \in 1..Len(v) : k \in 1..a \/ k = a + 1
    BY <1>2
  <2> QED
    BY <1>4, <1>5, <2>1
<1>7. FindRemoteRoute(v, name) = NoRoute
  BY <1>6, RouteMissing
<1> QED
  BY <1>7 DEF v
\* What generate-values finds for a backend of a list that Envoy takes.
LEMMA FoundFields ==
  ASSUME NEW bs \in Seq(Backend), NamesDiffer(bs), Regular(bs), NEW n \in 1..Len(bs)
  PROVE  LET info == FindRemoteRoute(BuildLDS(bs), bs[n].name) IN
         /\ info.domain = bs[n].domain /\ info.prefix = bs[n].prefix
         /\ n \in Owning(bs) \cup Shared(bs) =>
              info # NoRoute /\ info.rewrite = bs[n].rewrite /\ info.timeout = bs[n].timeout
<1> DEFINE info == FindRemoteRoute(BuildLDS(bs), bs[n].name)
           b == bs[n]
<1>1. b \in Backend
  BY ElementOfSeq
<1>2. b.domain # Star /\ None # Star
  BY ValuesAssumption DEF Regular
<1>3. /\ Route(b).slash <=> b.prefix # None
      /\ Route(b).prefix = IF b.prefix = None THEN Root ELSE b.prefix
      /\ Route(b).rewrite = b.rewrite /\ Route(b).timeout = b.timeout
  BY DEF Route
<1>4. b.timeout # None
  BY <1>1, ValuesAssumption DEF Backend
<1>5. \A vh : LET r == Found(vh, Route(b)) IN
        /\ r.domain = IF vh.domain = Star THEN None ELSE vh.domain
        /\ r.prefix = IF vh.domain = Star \/ Route(b).slash THEN Route(b).prefix ELSE None
        /\ r.rewrite = Route(b).rewrite /\ r.timeout = Route(b).timeout
  BY DEF Found
<1>6. NoRoute.domain = None /\ NoRoute.prefix = None /\ NoRoute.timeout = None
  BY DEF NoRoute
<1>7. CASE n \in Owning(bs)
  <2>1. PICK vh : vh.domain = b.domain /\ info = Found(vh, Route(b))
    BY <1>7, OwnerFound
  <2> HIDE DEF info, b
  <2>2. info.domain = b.domain /\ info.prefix = b.prefix
    BY <1>2, <1>3, <1>5, <2>1
  <2>3. info.rewrite = b.rewrite /\ info.timeout = b.timeout
    BY <1>3, <1>5, <2>1
  <2> QED
    BY <1>4, <1>6, <2>2, <2>3 DEF info, b
<1>8. CASE n \in Shared(bs)
  <2>0. b.domain = None /\ b.prefix # None
    BY <1>8 DEF Shared
  <2>1. PICK vh : vh.domain = Star /\ info = Found(vh, Route(b))
    BY <1>8, SharerFound
  <2> HIDE DEF info, b
  <2>2. info.domain = b.domain /\ info.prefix = b.prefix
    BY <1>3, <1>5, <2>0, <2>1
  <2>3. info.rewrite = b.rewrite /\ info.timeout = b.timeout
    BY <1>3, <1>5, <2>1
  <2> QED
    BY <1>4, <1>6, <2>2, <2>3 DEF info, b
<1>9. CASE n \notin Owning(bs) \cup Shared(bs)
  <2>1. b.domain = None /\ b.prefix = None
    BY <1>9 DEF Owning, Shared
  <2>2. info = NoRoute
    BY <2>1, UnroutedFound
  <2> HIDE DEF info, b
  <2> QED
    BY <1>6, <1>9, <2>1, <2>2 DEF info, b
<1> QED
  BY <1>7, <1>8, <1>9

\* There is one way only to go through all numbers up to one.
LEMMA OrdersAll ==
  ASSUME NEW n \in Nat, NEW f, NEW m, Orders(f, m, 1..n)
  PROVE  m = n /\ \A k \in 1..n : f[k] = k
<1> DEFINE P == 1..n
           id == [k \in 1..n |-> k]
<1>1. P \in SUBSET Nat /\ Orders(f, m, P)
  OBVIOUS
<1>2. Orders(id, n, P)
  BY DEF Orders
<1>3. \A k \in 1..n : id[k] = k
  OBVIOUS
<1> HIDE DEF P, id
<1>4. m <= n /\ \A k \in 1..m : f[k] = id[k]
  BY <1>1, <1>2, OrdersAgree
<1>5. n <= m
  BY <1>1, <1>2, OrdersAgree
<1>6. m \in Nat
  BY DEF Orders
<1> QED
  BY <1>3, <1>4, <1>5, <1>6

\* Of the clusters of such a list all but the first two are its backends'.
LEMMA MineRegular ==
  ASSUME NEW bs \in Seq(Backend), Regular(bs)
  PROVE  LET mine == Mine(BuildCDS(bs)) IN
         Len(mine) = Len(bs) /\ \A k \in 1..Len(bs) : mine[k] = Cluster(bs[k])
<1> DEFINE mine == Mine(BuildCDS(bs))
<1>1. PICK f : /\ Orders(f, Len(mine), Foreign(bs))
               /\ \A k \in 1..Len(mine) : mine[k] = Cluster(bs[f[k]])
  BY MineOf
<1> HIDE DEF mine
<1>2. Len(bs) \in Nat
  BY LenProperties
<1>3. Foreign(bs) = 1..Len(bs)
  BY <1>2 DEF Foreign, Regular
<1>4. Len(mine) = Len(bs) /\ \A k \in 1..Len(bs) : f[k] = k
  BY <1>1, <1>2, <1>3, OrdersAll
<1> QED
  BY <1>1, <1>4 DEF mine

LEMMA ClusterFields ==
  ASSUME NEW b \in Backend
  PROVE  /\ Cluster(b).name = b.name /\ Cluster(b).host = b.host /\ Cluster(b).connect = b.connect
         /\ Cluster(b).sni # None <=> b.tls
         /\ b.tls \in BOOLEAN
<1>1. b.host # None /\ b.tls \in BOOLEAN
  BY ValuesAssumption DEF Backend
<1> QED
  BY <1>1 DEF Cluster

LEMMA AgreeingLists == WellFormed => ListsAgree
<1> SUFFICES ASSUME WellFormed, Accepted(backends)
             PROVE  ListRemote(BuildCDS(backends), BuildLDS(backends)) = ListLocal(backends)
  BY DEF ListsAgree
<1> DEFINE mine == Mine(BuildCDS(backends))
           v == BuildLDS(backends)
<1>1. backends \in Seq(Backend) /\ NamesDiffer(backends) /\ Regular(backends)
  BY RegularLists DEF WellFormed
<1>2. Len(mine) = Len(backends) /\ \A k \in 1..Len(backends) : mine[k] = Cluster(backends[k])
  BY <1>1, MineRegular
<1>3. ListRemote(BuildCDS(backends), v) =
        [n \in 1..Len(mine) |->
           Line(mine[n].name, mine[n].host, mine[n].sni # None, FindRemoteRoute(v, mine[n].name))]
  BY DEF ListRemote
<1>4. ListLocal(backends) =
        [n \in 1..Len(backends) |->
           Line(backends[n].name, backends[n].host, backends[n].tls, backends[n])]
  BY DEF ListLocal
<1>5. ASSUME NEW n \in 1..Len(backends)
      PROVE  Line(mine[n].name, mine[n].host, mine[n].sni # None, FindRemoteRoute(v, mine[n].name))
               = Line(backends[n].name, backends[n].host, backends[n].tls, backends[n])
  <2> DEFINE b == backends[n]
             info == FindRemoteRoute(v, b.name)
  <2>1. b \in Backend
    BY <1>1, ElementOfSeq
  <2>2. mine[n].name = b.name /\ mine[n].host = b.host /\ (mine[n].sni # None) = b.tls
    <3>1. mine[n] = Cluster(b)
      BY <1>2
    <3> QED
      BY <2>1, <3>1, ClusterFields
  <2>3. info.domain = b.domain /\ info.prefix = b.prefix
    BY <1>1, FoundFields
  <2> HIDE DEF mine, b, v
  <2>4. Line(b.name, b.host, b.tls, info) = Line(b.name, b.host, b.tls, b)
    <3> HIDE DEF info
    <3> QED
      BY <2>3 DEF Line
  <2>5. Line(mine[n].name, mine[n].host, mine[n].sni # None, FindRemoteRoute(v, mine[n].name))
          = Line(b.name, b.host, b.tls, info)
    BY <2>2, Zenon
  <2> QED
    BY <2>4, <2>5 DEF b
<1> HIDE DEF mine, v
<1>6. ListRemote(BuildCDS(backends), v) = ListLocal(backends)
  BY <1>2, <1>3, <1>4, <1>5
<1> QED
  BY <1>6 DEF v

\* Without drift list-backends prints the same table from values.yaml and from
\* what was pushed, for any list that Envoy takes.
THEOREM ValuesListsAgree == Spec => []ListsAgree
  BY ValuesWellFormed, AgreeingLists, PTL
\* What Pick takes depends on the positions only.
LEMMA PicksAlign ==
  ASSUME NEW S, NEW s \in Seq(S), NEW t \in Seq(S), Len(s) = Len(t), NEW P \in SUBSET (1..Len(s))
  PROVE  \E f : Lists(Pick(s, P), s, P, f) /\ Lists(Pick(t, P), t, P, f)
<1>0. P \in SUBSET Nat /\ P \in SUBSET (1..Len(t))
  BY LenProperties
<1> DEFINE u == Pick(s, P)
           w == Pick(t, P)
<1>1. PICK f : Lists(u, s, P, f)
  BY PickLists
<1>2. PICK g : Lists(w, t, P, g)
  BY <1>0, PickLists
<1> HIDE DEF u, w
<1>3. Orders(f, Len(u), P) /\ Orders(g, Len(w), P)
  BY <1>1, <1>2 DEF Lists
<1>4. Len(u) <= Len(w) /\ \A k \in 1..Len(u) : f[k] = g[k]
  BY <1>0, <1>3, OrdersAgree
<1>5. Len(w) <= Len(u)
  BY <1>0, <1>3, OrdersAgree
<1>6. Len(u) = Len(w)
  BY <1>3, <1>4, <1>5 DEF Orders
<1>7. Lists(w, t, P, f)
  BY <1>1, <1>2, <1>4, <1>6 DEF Lists
<1> QED
  BY <1>1, <1>7 DEF u, w

\* Lists of backends with the same names, domains and prefixes, and the same
\* routes where there are any, are rendered to the same listener.
LEMMA SameListener ==
  ASSUME NEW x \in Seq(Backend), NEW y \in Seq(Backend), Len(x) = Len(y),
         \A n \in 1..Len(x) :
           x[n].name = y[n].name /\ x[n].domain = y[n].domain /\ x[n].prefix = y[n].prefix,
         \A n \in Owning(x) \cup Shared(x) : Route(x[n]) = Route(y[n])
  PROVE  BuildLDS(x) = BuildLDS(y)
<1> DEFINE P == Owning(x)
           Q == Shared(x)
           ox == Pick(x, P)
           oy == Pick(y, P)
           sx == Pick(x, Q)
           sy == Pick(y, Q)
<1>1. Owning(y) = P /\ Shared(y) = Q
  BY DEF Owning, Shared
<1>2. P \in SUBSET (1..Len(x)) /\ Q \in SUBSET (1..Len(x))
  BY DEF Owning, Shared
<1>3. BuildLDS(x) = Append([n \in 1..Len(ox) |-> HostOf(ox[n])],
                           [name |-> CatchAll, domain |-> Star,
                            routes |-> Append([n \in 1..Len(sx) |-> Route(sx[n])], Fallback)])
  BY Zenon DEF BuildLDS, Select, Owning, Shared, HostOf
<1>4. BuildLDS(y) = Append([n \in 1..Len(oy) |-> HostOf(oy[n])],
                           [name |-> CatchAll, domain |-> Star,
                            routes |-> Append([n \in 1..Len(sy) |-> Route(sy[n])], Fallback)])
  <2>1. BuildLDS(y) = Append([n \in 1..Len(Pick(y, Owning(y))) |-> HostOf(Pick(y, Owning(y))[n])],
                             [name |-> CatchAll, domain |-> Star,
                              routes |-> Append([n \in 1..Len(Pick(y, Shared(y))) |->
                                                   Route(Pick(y, Shared(y))[n])], Fallback)])
    BY Zenon DEF BuildLDS, Select, Owning, Shared, HostOf
  <2> HIDE DEF P, Q
  <2> QED
    BY <1>1, <2>1
<1> HIDE DEF P, Q
<1>5. PICK f : Lists(ox, x, P, f) /\ Lists(oy, y, P, f)
  BY <1>2, PicksAlign
<1>6. PICK g : Lists(sx, x, Q, g) /\ Lists(sy, y, Q, g)
  BY <1>2, PicksAlign
<1> HIDE DEF ox, oy, sx, sy
<1>7. Len(ox) \in Nat /\ Len(oy) \in Nat /\ Len(sx) \in Nat /\ Len(sy) \in Nat
  BY <1>5, <1>6 DEF Lists, Orders
<1>8. Len(ox) = Len(oy)
  <2>1. Orders(f, Len(ox), P) /\ Orders(f, Len(oy), P) /\ P \in SUBSET Nat
    BY <1>2, <1>5, LenProperties DEF Lists
  <2>2. Len(ox) <= Len(oy)
    BY <2>1, OrdersAgree
  <2>3. Len(oy) <= Len(ox)
    BY <2>1, OrdersAgree
  <2> QED
    BY <1>7, <2>2, <2>3
<1>9. Len(sx) = Len(sy)
  <2>1. Orders(g, Len(sx), Q) /\ Orders(g, Len(sy), Q) /\ Q \in SUBSET Nat
    BY <1>2, <1>6, LenProperties DEF Lists
  <2>2. Len(sx) <= Len(sy)
    BY <2>1, OrdersAgree
  <2>3. Len(sy) <= Len(sx)
    BY <2>1, OrdersAgree
  <2> QED
    BY <1>7, <2>2, <2>3
<1>10. ASSUME NEW n \in 1..Len(ox) PROVE HostOf(ox[n]) = HostOf(oy[n])
  <2>1. f[n] \in P /\ ox[n] = x[f[n]] /\ oy[n] = y[f[n]]
    BY <1>5, <1>8 DEF Lists, Orders
  <2>2. f[n] \in 1..Len(x)
    BY <1>2, <2>1
  <2>3. Route(x[f[n]]) = Route(y[f[n]])
    BY <2>1 DEF P
  <2> QED
    BY <2>1, <2>2, <2>3 DEF HostOf
<1>11. ASSUME NEW n \in 1..Len(sx) PROVE Route(sx[n]) = Route(sy[n])
  <2>1. g[n] \in Q /\ sx[n] = x[g[n]] /\ sy[n] = y[g[n]]
    BY <1>6, <1>9 DEF Lists, Orders
  <2> QED
    BY <2>1 DEF Q
<1>12. [n \in 1..Len(ox) |-> HostOf(ox[n])] = [n \in 1..Len(oy) |-> HostOf(oy[n])]
  BY <1>8, <1>10
<1>13. [n \in 1..Len(sx) |-> Route(sx[n])] = [n \in 1..Len(sy) |-> Route(sy[n])]
  BY <1>9, <1>11
<1> QED
  BY <1>3, <1>4, <1>12, <1>13, Zenon

\* Reading faults back from a runtime layer and rendering them yields that layer.
LEMMA SameRuntime ==
  ASSUME NEW fs
  PROVE  BuildRuntime(ParseRemoteFaults(BuildRuntime(fs))) = BuildRuntime(fs)
<1> DEFINE ps == ParseRemoteFaults(BuildRuntime(fs))
           keys(hs) == {k \in UNION {FaultRuntimeKeys(u) : u \in DOMAIN hs} : hs[k[2]][k[1]] # 0}
<1>1. /\ DOMAIN ps = {t \in DOMAIN fs : \E d \in Dimension : fs[t][d] # 0}
      /\ \A t \in DOMAIN ps : ps[t] = [d \in Dimension |-> fs[t][d]]
  BY ParsedFaults, Zenon
<1>2. BuildRuntime(ps) = [k \in keys(ps) |-> ps[k[2]][k[1]]]
  BY DEF BuildRuntime
<1>3. BuildRuntime(fs) = [k \in keys(fs) |-> fs[k[2]][k[1]]]
  BY DEF BuildRuntime
<1> HIDE DEF ps
<1>4. \A k, hs : k \in keys(hs) <=>
        /\ k \in Dimension \X DOMAIN hs
        /\ hs[k[2]][k[1]] # 0
  BY DEF FaultRuntimeKeys
<1> HIDE DEF keys
<1>5. ASSUME NEW k \in keys(ps) PROVE k \in keys(fs) /\ ps[k[2]][k[1]] = fs[k[2]][k[1]]
  <2>1. k \in Dimension \X DOMAIN ps /\ ps[k[2]][k[1]] # 0
    BY <1>4
  <2>2. k[1] \in Dimension /\ k[2] \in DOMAIN ps /\ k = <<k[1], k[2]>>
    BY <2>1
  <2>3. ps[k[2]][k[1]] = fs[k[2]][k[1]] /\ k[2] \in DOMAIN fs
    BY <1>1, <2>2
  <2> QED
    BY <1>4, <2>1, <2>2, <2>3
<1>6. ASSUME NEW k \in keys(fs) PROVE k \in keys(ps)
  <2>1. k \in Dimension \X DOMAIN fs /\ fs[k[2]][k[1]] # 0
    BY <1>4
  <2>2. k[1] \in Dimension /\ k[2] \in DOMAIN fs /\ k = <<k[1], k[2]>>
    BY <2>1
  <2>3. k[2] \in DOMAIN ps
    BY <1>1, <2>1, <2>2
  <2>4. ps[k[2]][k[1]] = fs[k[2]][k[1]]
    BY <1>1, <2>2, <2>3
  <2> QED
    BY <1>4, <2>1, <2>2, <2>3, <2>4
<1>7. keys(ps) = keys(fs)
  BY <1>5, <1>6
<1>8. BuildRuntime(ps) = BuildRuntime(fs)
  BY <1>2, <1>3, <1>5, <1>7
<1> QED
  BY <1>8 DEF ps
PlainOf(b) == [b EXCEPT !.http2 = FALSE, !.gzip = FALSE]

LEMMA PlainFields ==
  ASSUME NEW b \in Backend
  PROVE  /\ PlainOf(b) \in Backend
         /\ PlainOf(b).name = b.name /\ PlainOf(b).domain = b.domain /\ PlainOf(b).prefix = b.prefix
         /\ PlainOf(b).host = b.host /\ PlainOf(b).tls = b.tls /\ PlainOf(b).connect = b.connect
         /\ PlainOf(b).rewrite = b.rewrite /\ PlainOf(b).timeout = b.timeout
         /\ PlainOf(b).http2 = FALSE /\ PlainOf(b).gzip = FALSE
  BY DEF Backend, PlainOf

LEMMA SameCluster ==
  ASSUME NEW b, NEW c, b.name = c.name, b.host = c.host, b.tls = c.tls, b.connect = c.connect,
         b.http2 = c.http2
  PROVE  Cluster(b) = Cluster(c)
  BY DEF Cluster

LEMMA SameRoute ==
  ASSUME NEW b, NEW c, b.name = c.name, b.prefix = c.prefix, b.rewrite = c.rewrite,
         b.timeout = c.timeout, b.gzip = c.gzip
  PROVE  Route(b) = Route(c)
  BY DEF Route

\* What is recovered from a list that Envoy takes.
LEMMA RecoveredFields ==
  ASSUME NEW bs \in Seq(Backend), NamesDiffer(bs), Regular(bs)
  PROVE  LET rec == RecoveredBackends(BuildCDS(bs), BuildLDS(bs)) IN
         /\ rec \in Seq(Backend) /\ Len(rec) = Len(bs)
         /\ \A n \in 1..Len(bs) :
              rec[n] = Recovered(Cluster(bs[n]), FindRemoteRoute(BuildLDS(bs), bs[n].name))
<1> DEFINE v == BuildLDS(bs)
           mine == Mine(BuildCDS(bs))
           rec == RecoveredBackends(BuildCDS(bs), v)
<1>1. Len(mine) = Len(bs) /\ \A n \in 1..Len(bs) : mine[n] = Cluster(bs[n])
  BY MineRegular
<1>2. rec = [n \in 1..Len(mine) |-> Recovered(mine[n], FindRemoteRoute(v, mine[n].name))]
  BY DEF RecoveredBackends
<1> HIDE DEF mine, rec
<1>3. ASSUME NEW n \in 1..Len(bs)
      PROVE  rec[n] = Recovered(Cluster(bs[n]), FindRemoteRoute(v, bs[n].name)) /\ rec[n] \in Backend
  <2>1. mine[n] = Cluster(bs[n]) /\ mine[n].name = bs[n].name
    BY <1>1, ClusterName
  <2> DEFINE info == FindRemoteRoute(v, bs[n].name)
  <2>2. rec[n] = Recovered(Cluster(bs[n]), info)
    BY <1>1, <1>2, <2>1
  <2>3. info \in Findings \cup {NoRoute} /\ bs[n] \in Backend
    BY FindingTyped, ElementOfSeq
  <2> HIDE DEF info
  <2>4. rec[n] \in Backend
    BY <2>2, <2>3, RecoveredTyped
  <2> QED
    BY <2>2, <2>4 DEF info
<1>4. rec \in [1..Len(bs) -> Backend] /\ DOMAIN rec = 1..Len(bs) /\ Len(bs) \in Nat
  <2>1. Len(bs) \in Nat
    BY LenProperties
  <2> QED
    BY <1>1, <1>2, <1>3, <2>1
<1>5. rec \in Seq(Backend)
  BY <1>4, SeqDef
<1>6. Len(rec) = Len(bs)
  BY <1>4, <1>5, LenProperties
<1> QED
  BY <1>3, <1>5, <1>6 DEF rec, v

LEMMA RecoveredPlain ==
  ASSUME NEW bs \in Seq(Backend), NamesDiffer(bs), Regular(bs), NEW n \in 1..Len(bs)
  PROVE  LET b == Recovered(Cluster(bs[n]), FindRemoteRoute(BuildLDS(bs), bs[n].name)) IN
         /\ b.name = bs[n].name /\ b.domain = bs[n].domain /\ b.prefix = bs[n].prefix
         /\ Cluster(b) = Cluster(PlainOf(bs[n]))
         /\ n \in Owning(bs) \cup Shared(bs) => Route(b) = Route(PlainOf(bs[n]))
<1> DEFINE info == FindRemoteRoute(BuildLDS(bs), bs[n].name)
           o == bs[n]
           b == Recovered(Cluster(o), info)
<1>1. /\ info.domain = o.domain /\ info.prefix = o.prefix
      /\ n \in Owning(bs) \cup Shared(bs) =>
           info # NoRoute /\ info.rewrite = o.rewrite /\ info.timeout = o.timeout
  BY FoundFields
<1>2. o \in Backend
  BY ElementOfSeq
<1> HIDE DEF info, o
<1>3. /\ Cluster(o).name = o.name /\ Cluster(o).host = o.host /\ Cluster(o).connect = o.connect
      /\ Cluster(o).sni # None <=> o.tls
      /\ o.tls \in BOOLEAN
  BY <1>2, ClusterFields
<1>4. /\ b.name = o.name /\ b.host = o.host /\ b.connect = o.connect
      /\ b.domain = o.domain /\ b.prefix = o.prefix
      /\ b.rewrite = info.rewrite /\ b.http2 = FALSE /\ b.gzip = FALSE
      /\ b.timeout = IF info = NoRoute THEN DefaultTimeout ELSE info.timeout
  BY <1>1, <1>3, Zenon DEF Recovered
<1>5. b.tls = o.tls
  <2>1. b.tls \in BOOLEAN /\ (b.tls <=> Cluster(o).sni # None)
    BY Zenon DEF Recovered
  <2> HIDE DEF b
  <2> QED
    BY <1>3, <2>1
<1> HIDE DEF b
<1> DEFINE p == PlainOf(o)
<1>6. /\ p.name = o.name /\ p.domain = o.domain /\ p.prefix = o.prefix
      /\ p.host = o.host /\ p.tls = o.tls /\ p.connect = o.connect
      /\ p.rewrite = o.rewrite /\ p.timeout = o.timeout
      /\ p.http2 = FALSE /\ p.gzip = FALSE
  BY <1>2, PlainFields
<1> HIDE DEF p
<1>7. b.tls = p.tls
  BY <1>5, <1>6, Zenon
<1>8. Cluster(b) = Cluster(p)
  <2>1. b.http2 = p.http2
    BY <1>4, <1>6, Zenon
  <2> QED
    BY <1>4, <1>6, <1>7, <2>1, SameCluster
<1>9. ASSUME n \in Owning(bs) \cup Shared(bs) PROVE Route(b) = Route(p)
  <2>1. b.rewrite = o.rewrite /\ b.timeout = o.timeout
    BY <1>1, <1>4, <1>9
  <2>2. b.gzip = p.gzip
    BY <1>4, <1>6, Zenon
  <2> QED
    BY <1>4, <1>6, <2>1, <2>2, SameRoute
<1> QED
  BY <1>4, <1>8, <1>9 DEF info, o, b, p

LEMMA PlainList ==
  ASSUME NEW bs \in Seq(Backend)
  PROVE  /\ Plain(bs) \in Seq(Backend) /\ Len(Plain(bs)) = Len(bs)
         /\ \A n \in 1..Len(bs) : Plain(bs)[n] = PlainOf(bs[n])
<1>1. Plain(bs) = [n \in 1..Len(bs) |-> PlainOf(bs[n])]
  BY DEF Plain, PlainOf
<1>2. \A n \in 1..Len(bs) : PlainOf(bs[n]) \in Backend
  BY ElementOfSeq, PlainFields
<1>3. Len(bs) \in Nat
  BY LenProperties
<1>4. Plain(bs) \in [1..Len(bs) -> Backend] /\ DOMAIN Plain(bs) = 1..Len(bs)
  BY <1>1, <1>2
<1>5. Plain(bs) \in Seq(Backend)
  BY <1>3, <1>4, SeqDef
<1>6. Len(Plain(bs)) = Len(bs)
  BY <1>3, <1>4, <1>5, LenProperties
<1> QED
  BY <1>1, <1>5, <1>6
\* Lists whose backends have the same clusters are rendered to the same file.
LEMMA SameClusters ==
  ASSUME NEW x, NEW y, Len(x) = Len(y), \A n \in 1..Len(x) : Cluster(x[n]) = Cluster(y[n])
  PROVE  BuildCDS(x) = BuildCDS(y)
<1>1. [n \in 1..Len(x) |-> Cluster(x[n])] = [n \in 1..Len(y) |-> Cluster(y[n])]
  OBVIOUS
<1> QED
  BY <1>1, Zenon DEF BuildCDS

LEMMA RestoredFiles ==
  ASSUME NEW bs \in Seq(Backend), NamesDiffer(bs), Regular(bs)
  PROVE  LET rec == RecoveredBackends(BuildCDS(bs), BuildLDS(bs)) IN
         BuildCDS(rec) = BuildCDS(Plain(bs)) /\ BuildLDS(rec) = BuildLDS(Plain(bs))
<1> DEFINE rec == RecoveredBackends(BuildCDS(bs), BuildLDS(bs))
           plain == Plain(bs)
           back(n) == Recovered(Cluster(bs[n]), FindRemoteRoute(BuildLDS(bs), bs[n].name))
<1>1. rec \in Seq(Backend) /\ Len(rec) = Len(bs) /\ \A n \in 1..Len(bs) : rec[n] = back(n)
  BY RecoveredFields
<1>2. plain \in Seq(Backend) /\ Len(plain) = Len(bs) /\ \A n \in 1..Len(bs) : plain[n] = PlainOf(bs[n])
  BY PlainList
<1>3. ASSUME NEW n \in 1..Len(bs)
      PROVE  /\ back(n).name = bs[n].name /\ back(n).domain = bs[n].domain /\ back(n).prefix = bs[n].prefix
             /\ Cluster(back(n)) = Cluster(PlainOf(bs[n]))
             /\ n \in Owning(bs) \cup Shared(bs) => Route(back(n)) = Route(PlainOf(bs[n]))
  BY RecoveredPlain
<1>4. ASSUME NEW n \in 1..Len(bs)
      PROVE  PlainOf(bs[n]).name = bs[n].name /\ PlainOf(bs[n]).domain = bs[n].domain
             /\ PlainOf(bs[n]).prefix = bs[n].prefix
  <2>1. bs[n] \in Backend
    BY ElementOfSeq
  <2> QED
    BY <2>1, PlainFields
<1> HIDE DEF rec, plain, back
<1>5. BuildCDS(rec) = BuildCDS(plain)
  BY <1>1, <1>2, <1>3, SameClusters
<1>6. \A n \in 1..Len(rec) :
        rec[n].name = plain[n].name /\ rec[n].domain = plain[n].domain /\ rec[n].prefix = plain[n].prefix
  BY <1>1, <1>2, <1>3, <1>4
<1>7. Owning(rec) = Owning(bs) /\ Shared(rec) = Shared(bs)
  BY <1>1, <1>3 DEF Owning, Shared
<1>8. \A n \in Owning(rec) \cup Shared(rec) : Route(rec[n]) = Route(plain[n])
  <2> SUFFICES ASSUME NEW n \in Owning(rec) \cup Shared(rec) PROVE Route(rec[n]) = Route(plain[n])
    OBVIOUS
  <2>1. n \in 1..Len(bs) /\ n \in Owning(bs) \cup Shared(bs)
    BY <1>7 DEF Owning, Shared
  <2> QED
    BY <1>1, <1>2, <1>3, <2>1
<1>9. BuildLDS(rec) = BuildLDS(plain)
  BY <1>1, <1>2, <1>6, <1>8, SameListener
<1> QED
  BY <1>5, <1>9 DEF rec, plain

LEMMA RestoresStep ==
  WellFormed =>
    [Accepted(backends) /\ GenerateValues =>
       /\ BuildCDS(backends') = BuildCDS(Plain(backends))
       /\ BuildLDS(backends') = BuildLDS(Plain(backends))
       /\ BuildRuntime(faults') = BuildRuntime(faults)]_vars
<1> SUFFICES ASSUME WellFormed, Accepted(backends), GenerateValues
             PROVE  /\ BuildCDS(backends') = BuildCDS(Plain(backends))
                    /\ BuildLDS(backends') = BuildLDS(Plain(backends))
                    /\ BuildRuntime(faults') = BuildRuntime(faults)
  OBVIOUS
<1>1. backends \in Seq(Backend) /\ NamesDiffer(backends) /\ Regular(backends)
  BY RegularLists DEF WellFormed
<1>2. /\ backends' = RecoveredBackends(BuildCDS(backends), BuildLDS(backends))
      /\ faults' = ParseRemoteFaults(BuildRuntime(faults))
  BY DEF GenerateValues
<1>3. BuildCDS(backends') = BuildCDS(Plain(backends)) /\ BuildLDS(backends') = BuildLDS(Plain(backends))
  BY <1>1, <1>2, RestoredFiles
<1>4. BuildRuntime(faults') = BuildRuntime(faults)
  BY <1>2, SameRuntime
<1> QED
  BY <1>3, <1>4

\* What generate-values writes renders to the clusters, listener and faults it
\* was read from, but for HTTP/2 and gzip: nothing else is lost on the way.
THEOREM ValuesGenerateRestores == Spec => GenerateRestores
  BY ValuesWellFormed, RestoresStep, PTL DEF GenerateRestores
-----------------------------------------------------------------------------
(* What an edit of the list does to its other backends                     *)

Kept(bs, n) == {m \in 1..Len(bs) : bs[m].name # n}

\* y is x without the backend called n, or with one of that name at the end instead.
Edited(x, y, n, f, c) ==
  /\ Orders(f, c, Kept(x, n)) /\ \A k \in 1..c : y[k] = x[f[k]]
  /\ Len(y) = c \/ (Len(y) = c + 1 /\ y[c + 1].name = n)

LEMMA RemoveEdits ==
  ASSUME backends \in Seq(Backend), NEW n, RemoveBackend(n)
  PROVE  \E f, c : Edited(backends, backends', n, f, c)
<1> DEFINE t == Pick(backends, Kept(backends, n))
<1>1. backends' = t
  BY DEF RemoveBackend, Select, Kept
<1>2. PICK f : Lists(t, backends, Kept(backends, n), f)
  BY PickLists DEF Kept
<1> HIDE DEF t
<1>3. Edited(backends, t, n, f, Len(t))
  BY <1>2 DEF Lists, Edited
<1> QED
  BY <1>1, <1>3

LEMMA AddEdits ==
  ASSUME backends \in Seq(Backend), NEW b \in Offer, AddBackend(b)
  PROVE  \E f, c : Edited(backends, backends', b.name, f, c)
<1> DEFINE t == Pick(backends, Kept(backends, b.name))
<1>1. backends' = Append(t, b)
  BY DEF AddBackend, Select, Kept
<1>2. PICK f : t \in Seq(Backend) /\ Lists(t, backends, Kept(backends, b.name), f)
  BY PickLists DEF Kept
<1>3. b \in Backend
  BY ValuesAssumption
<1> HIDE DEF t
<1>4. /\ Len(backends') = Len(t) + 1 /\ backends'[Len(t) + 1] = b
      /\ \A k \in 1..Len(t) : backends'[k] = t[k]
  BY <1>1, <1>2, <1>3, AppendProperties
<1>5. Edited(backends, backends', b.name, f, Len(t))
  BY <1>2, <1>4 DEF Lists, Edited
<1> QED
  BY <1>5

LEMMA EditKeepsTraffic ==
  ASSUME NEW x \in Seq(Backend), NamesDiffer(x), Regular(x),
         NEW y \in Seq(Backend), NamesDiffer(y), Regular(y),
         NEW n, NEW f, NEW c, Edited(x, y, n, f, c),
         NEW host, host # None, NEW path, Len(path) \in Nat,
         \A m \in 1..Len(x) : x[m].name = n => x[m].domain # host,
         \A m \in 1..Len(y) : y[m].name = n => y[m].domain # host,
         Reaches(BuildLDS(x), host, path) # n, Reaches(BuildLDS(y), host, path) # n
  PROVE  Reaches(BuildLDS(x), host, path) = Reaches(BuildLDS(y), host, path)
<1>1. /\ c \in Nat /\ f \in [1..c -> Kept(x, n)]
      /\ \A j, k \in 1..c : j < k => f[j] < f[k]
      /\ \A m \in Kept(x, n) : \E k \in 1..c : f[k] = m
      /\ \A k \in 1..c : y[k] = x[f[k]] /\ f[k] \in 1..Len(x)
      /\ Len(y) = c \/ (Len(y) = c + 1 /\ y[c + 1].name = n)
  BY DEF Edited, Orders, Kept
<1>2. /\ \A k \in 1..c : k \in 1..Len(y)
      /\ \A k \in 1..Len(y) : k \in 1..c \/ (k = c + 1 /\ y[k].name = n)
  <2>1. CASE Len(y) = c
    BY <1>1, <2>1
  <2>2. CASE Len(y) = c + 1 /\ y[c + 1].name = n
    <3>1. \A k \in 1..c + 1 : k \in 1..c \/ k = c + 1
      BY <1>1
    <3>2. \A k \in 1..c : k \in 1..c + 1
      BY <1>1
    <3> QED
      BY <2>2, <3>1, <3>2
  <2> QED
    BY <1>1, <2>1, <2>2
<1>3. CASE \E m \in 1..Len(x) : m \in Owners(x, host)
  <2>1. PICK m \in 1..Len(x) : m \in Owners(x, host)
    BY <1>3
  <2>2. x[m].domain = host /\ m \in Kept(x, n)
    BY <2>1 DEF Owners, Kept
  <2>3. PICK k \in 1..c : f[k] = m
    BY <1>1, <2>2
  <2>4. y[k] = x[m] /\ k \in Owners(y, host)
    BY <1>1, <1>2, <2>2, <2>3 DEF Owners
  <2>5. Reaches(BuildLDS(x), host, path) = IF IsPrefix(Route(x[m]).prefix, path) THEN x[m].name ELSE None
    BY <2>1, ReachesOwner
  <2>6. Reaches(BuildLDS(y), host, path) = IF IsPrefix(Route(y[k]).prefix, path) THEN y[k].name ELSE None
    BY <2>4, ReachesOwner
  <2> QED
    BY <2>4, <2>5, <2>6
<1>4. CASE ~\E m \in 1..Len(x) : m \in Owners(x, host)
  <2>1. Owners(x, host) = {}
    BY <1>4 DEF Owners
  <2>2. Owners(y, host) = {}
    <3> SUFFICES ASSUME NEW k \in Owners(y, host) PROVE FALSE
      OBVIOUS
    <3>1. k \in 1..Len(y) /\ y[k].domain = host
      BY DEF Owners
    <3>2. k \in 1..c
      BY <1>2, <3>1
    <3>3. f[k] \in Owners(x, host)
      BY <1>1, <3>1, <3>2 DEF Owners
    <3> QED
      BY <2>1, <3>3
  <2>3. ASSUME NEW k \in 1..c PROVE k \in Sharers(y, path) <=> f[k] \in Sharers(x, path)
    BY <1>1, <1>2 DEF Sharers, Shared
  <2>4. Sharers(x, path) \in SUBSET Nat /\ Sharers(y, path) \in SUBSET Nat
    BY SharersNumbers
  <2>5. CASE Sharers(x, path) = {}
    <3>1. \A k \in Sharers(y, path) : k = c + 1 /\ y[k].name = n
      <4> SUFFICES ASSUME NEW k \in Sharers(y, path) PROVE k = c + 1 /\ y[k].name = n
        OBVIOUS
      <4>1. k \in 1..Len(y)
        BY DEF Sharers, Shared
      <4> QED
        BY <1>2, <2>3, <2>5, <4>1
    <3>2. Sharers(y, path) = {}
      <4> SUFFICES ASSUME Sharers(y, path) # {} PROVE FALSE
        OBVIOUS
      <4>1. PICK k \in Sharers(y, path) : \A m \in Sharers(y, path) : k <= m
        BY <2>4, LeastNatural
      <4>2. Reaches(BuildLDS(y), host, path) = y[k].name
        BY <2>2, <4>1, ReachesSharer, SMTT(30) DEF Least
      <4> QED
        BY <3>1, <4>2
    <3>3. Reaches(BuildLDS(x), host, path) = DefaultApp
      BY <2>1, <2>5, ReachesFallback
    <3>4. Reaches(BuildLDS(y), host, path) = DefaultApp
      BY <2>2, <3>2, ReachesFallback
    <3> QED
      BY <3>3, <3>4
  <2>6. CASE Sharers(x, path) # {}
    <3>1. PICK m \in Sharers(x, path) : \A i \in Sharers(x, path) : m <= i
      BY <2>4, <2>6, LeastNatural
    <3>2. Reaches(BuildLDS(x), host, path) = x[m].name
      BY <2>1, <3>1, ReachesSharer, SMTT(30) DEF Least
    <3>3. m \in Kept(x, n)
      BY <3>2 DEF Kept, Sharers, Shared
    <3>4. PICK k \in 1..c : f[k] = m
      BY <1>1, <3>3
    <3>5. k \in Sharers(y, path) /\ y[k] = x[m]
      BY <1>1, <2>3, <3>4
    <3>6. ASSUME NEW j \in Sharers(y, path) PROVE k <= j
      <4> SUFFICES ASSUME j < k PROVE FALSE
        BY <2>4, <3>5
      <4>1. j \in 1..c
        BY <1>1, <2>4, <3>4 DEF Sharers, Shared
      <4>2. f[j] < m /\ f[j] \in Sharers(x, path)
        BY <1>1, <2>3, <3>4, <4>1
      <4>3. f[j] \in Nat /\ m \in Nat /\ m <= f[j]
        BY <2>4, <3>1, <4>2
      <4> QED
        BY <4>2, <4>3
    <3>7. Reaches(BuildLDS(y), host, path) = y[k].name
      <4>1. Least(k, Sharers(y, path))
        BY <3>5, <3>6 DEF Least
      <4> QED
        BY <2>2, <4>1, ReachesSharer, SMTT(30)
    <3> QED
      BY <3>2, <3>5, <3>7
  <2> QED
    BY <2>5, <2>6
<1> QED
  BY <1>3, <1>4
LEMMA NeighboursStep ==
  ASSUME WellFormed, WellFormed', Accepted(backends), Accepted(backends'), NEW n,
         NEW f, NEW c, Edited(backends, backends', n, f, c), NEW q \in Request,
         q[1] \notin {b.domain : b \in {b \in ToSet(backends) \cup ToSet(backends') : b.name = n}}
  PROVE  \/ Traffic(backends)[q] = Traffic(backends')[q]
         \/ n \in {Traffic(backends)[q], Traffic(backends')[q]}
<1> DEFINE x == backends
           y == backends'
<1>1. /\ x \in Seq(Backend) /\ NamesDiffer(x) /\ Regular(x)
      /\ y \in Seq(Backend) /\ NamesDiffer(y) /\ Regular(y)
  BY RegularLists DEF WellFormed
<1>2. q[1] # None /\ Len(q[2]) \in Nat
  BY ValuesAssumption DEF Request
<1>3. /\ Traffic(x)[q] = Reaches(BuildLDS(x), q[1], q[2])
      /\ Traffic(y)[q] = Reaches(BuildLDS(y), q[1], q[2])
  BY DEF Traffic
<1>4. /\ \A m \in 1..Len(x) : x[m] \in ToSet(x)
      /\ \A m \in 1..Len(y) : y[m] \in ToSet(y)
  BY <1>1, LenProperties DEF ToSet
<1> HIDE DEF x, y
<1>5. /\ \A m \in 1..Len(x) : x[m].name = n => x[m].domain # q[1]
      /\ \A m \in 1..Len(y) : y[m].name = n => y[m].domain # q[1]
  BY <1>4 DEF x, y
<1>6. Edited(x, y, n, f, c)
  BY DEF x, y
<1>7. CASE Reaches(BuildLDS(x), q[1], q[2]) # n /\ Reaches(BuildLDS(y), q[1], q[2]) # n
  <2>1. Reaches(BuildLDS(x), q[1], q[2]) = Reaches(BuildLDS(y), q[1], q[2])
    BY <1>1, <1>2, <1>5, <1>6, <1>7, EditKeepsTraffic
  <2> QED
    BY <1>3, <2>1 DEF x, y
<1>8. CASE ~(Reaches(BuildLDS(x), q[1], q[2]) # n /\ Reaches(BuildLDS(y), q[1], q[2]) # n)
  BY <1>3, <1>8 DEF x, y
<1> QED
  BY <1>7, <1>8

LEMMA TrafficStep ==
  WellFormed /\ WellFormed' =>
    [LET before == Traffic(backends)
         after == Traffic(backends')
         own(n) == {b.domain : b \in {b \in ToSet(backends) \cup ToSet(backends') : b.name = n}}
         edits(n) == RemoveBackend(n) \/ \E b \in Offer : b.name = n /\ AddBackend(b)
     IN  backends' # backends /\ Accepted(backends) /\ Accepted(backends') /\ before # after =>
           \A n \in Name : edits(n) =>
             \A q \in Request :
               before[q] = after[q] \/ n \in {before[q], after[q]} \/ q[1] \in own(n)]_vars
<1> SUFFICES ASSUME WellFormed, WellFormed', Accepted(backends), Accepted(backends'), NEW n \in Name,
                    RemoveBackend(n) \/ \E b \in Offer : b.name = n /\ AddBackend(b), NEW q \in Request
             PROVE  \/ Traffic(backends)[q] = Traffic(backends')[q]
                    \/ n \in {Traffic(backends)[q], Traffic(backends')[q]}
                    \/ q[1] \in {b.domain : b \in {b \in ToSet(backends) \cup ToSet(backends') : b.name = n}}
  BY Zenon
<1>1. backends \in Seq(Backend)
  BY DEF WellFormed
<1>2. \E f, c : Edited(backends, backends', n, f, c)
  BY <1>1, RemoveEdits, AddEdits
<1>3. PICK f, c : Edited(backends, backends', n, f, c)
  BY <1>2
<1> QED
  BY <1>3, NeighboursStep

\* Adding, replacing or removing a backend moves no request but those it serves
\* before or after and those for its own domain, if Envoy takes the list before and after.
THEOREM ValuesNeighbours == Spec => NeighboursKeepTraffic
  BY ValuesWellFormed, TrafficStep, PTL DEF NeighboursKeepTraffic
=============================================================================
