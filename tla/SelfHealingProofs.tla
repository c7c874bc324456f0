------------------------- MODULE SelfHealingProofs -------------------------
(***************************************************************************)
(* What is proved of SelfHealing for any pages, navigations and numbers of *)
(* recordings and replays.                                                 *)
(***************************************************************************)
EXTENDS SelfHealing, NumberLemmas

AliasMap(a) ==
  DOMAIN a \subseteq PageURLs /\ \A u \in DOMAIN a : a[u] \in PageURLs

RequestMap(r) ==
  DOMAIN r \subseteq PageURLs /\ \A u \in DOMAIN r : r[u] \in Seq(BOOLEAN) \ {<<>>}

Pages == Cardinality(PageURLs)

LEMMA SomePages == Pages \in Nat /\ Pages > 0 /\ IsFiniteSet(PageURLs)
  <1>1. IsFiniteSet(PageURLs)
    BY HealingAssumption, FS_AddElement DEF PageURLs
  <1>2. PageURLs # {}
    BY DEF PageURLs
  <1> QED BY <1>1, <1>2, FS_CardinalityType, FS_EmptySet DEF Pages
-----------------------------------------------------------------------------
(***************************************************************************)
(* The chain of aliases.                                                   *)
(***************************************************************************)
\* The loop's s after round n, if it was s before.
NextInChain(start, n, s) ==
  IF start \notin DOMAIN aliases \/ (n > 1 /\ Stops(s, start)) THEN s ELSE aliases[s]

LEMMA ChainSteps ==
  ASSUME AliasMap(aliases), NEW u \in PageURLs
  PROVE  /\ Chain(u)[0] = u
         /\ \A n \in 1..Pages : Chain(u)[n] = NextInChain(u, n, Chain(u)[n - 1])
         /\ Chain(u)[Pages] \in PageURLs
  <1> DEFINE body(f) == [n \in 0..Pages |->
                           IF n = 0 THEN u
                           ELSE IF u \notin DOMAIN aliases \/ (n > 1 /\ Stops(f[n - 1], u))
                                THEN f[n - 1] ELSE aliases[f[n - 1]]]
             step == [n \in 1..Pages |-> [s \in PageURLs |->
                        IF s \notin DOMAIN aliases THEN s ELSE NextInChain(u, n, s)]]
             chain == CHOOSE f : f = body(f)
             f == Run(Pages, PageURLs, u, step)
  <1>1. Pages \in Nat
    BY SomePages
  <1>2. step \in [1..Pages -> [PageURLs -> PageURLs]]
    BY DEF AliasMap, NextInChain
  <1>3. /\ f \in [0..Pages -> PageURLs] /\ f[0] = u
        /\ \A n \in 1..Pages : f[n] = step[n][f[n - 1]]
    <2> HIDE DEF step
    <2> QED BY <1>1, <1>2, Recursion
  <1> HIDE DEF f
  <1>4. ASSUME NEW n \in 1..Pages PROVE f[n] = NextInChain(u, n, f[n - 1])
    <2>1. n - 1 \in 0..Pages /\ (n = 1 \/ n > 1) /\ 1 - 1 = 0
      BY <1>1
    <2>2. f[n - 1] \in PageURLs
      BY <1>3, <2>1
    <2>3. f[n] = IF f[n - 1] \notin DOMAIN aliases THEN f[n - 1] ELSE NextInChain(u, n, f[n - 1])
      BY <1>3, <2>2
    <2>4. CASE f[n - 1] \in DOMAIN aliases
      BY <2>3, <2>4
    <2>5. CASE f[n - 1] \notin DOMAIN aliases /\ n > 1
      BY <2>3, <2>5 DEF NextInChain, Stops
    <2>6. CASE f[n - 1] \notin DOMAIN aliases /\ n = 1
      BY <1>3, <2>1, <2>3, <2>6 DEF NextInChain
    <2> QED BY <2>1, <2>4, <2>5, <2>6
  <1>5. f = body(f)
    <2>1. \A n \in 0..Pages : n = 0 \/ n \in 1..Pages
      BY <1>1
    <2>2. \A n \in 0..Pages : f[n] = body(f)[n]
      BY <1>3, <1>4, <2>1 DEF NextInChain
    <2> QED BY <1>3, <2>2
  <1>6. chain = body(chain)
    BY <1>5
  <1>7. Chain(u) = chain
    BY DEF Chain, Pages
  <1> HIDE DEF chain
  <1>8. chain[0] = u /\ \A n \in 1..Pages : chain[n] = NextInChain(u, n, chain[n - 1])
    BY <1>1, <1>6 DEF NextInChain
  <1> DEFINE S == {n \in 0..Pages : chain[n] = f[n]}
  <1>9. 0 \in S
    BY <1>1, <1>3, <1>8
  <1>10. ASSUME NEW n \in 0..Pages, n \in S, n < Pages PROVE n + 1 \in S
    <2>1. n + 1 \in 1..Pages /\ (n + 1) - 1 = n /\ n + 1 \in 0..Pages
      BY <1>1, <1>10
    <2> QED BY <1>4, <1>8, <1>10, <2>1
  <1>11. Pages \in S
    <2> HIDE DEF S
    <2>1. \A n \in 0..Pages : n \in S /\ n < Pages => n + 1 \in S
      BY <1>10
    <2>2. 0..Pages \subseteq S
      BY <1>1, <1>9, <2>1, Induction
    <2> QED BY <1>1, <2>2
  <1>12. chain[Pages] \in PageURLs
    BY <1>1, <1>3, <1>11
  <1> QED BY <1>7, <1>8, <1>12

LEMMA RootType ==
  ASSUME AliasMap(aliases), NEW u \in PageURLs
  PROVE  findPageURLAliasChainRoot(u) \in PageURLs
  BY ChainSteps DEF findPageURLAliasChainRoot, Pages
-----------------------------------------------------------------------------
(***************************************************************************)
(* From a URL to the request its page came from: the path that the aliases *)
(* in a make from u to r, which has none.                                  *)
(***************************************************************************)
IsPath(a, n, p, u, r) ==
  /\ p[0] = u /\ p[n] = r /\ r \notin DOMAIN a
  /\ \A i \in 0..(n - 1) : p[i] \in DOMAIN a /\ p[i + 1] = a[p[i]]

Leads(a, u, r) == \E n \in Nat : \E p : IsPath(a, n, p, u, r)

LEMMA LeadsToItself ==
  ASSUME NEW a, NEW r, r \notin DOMAIN a
  PROVE  Leads(a, r, r)
  <1> DEFINE p == [i \in 0..0 |-> r]
  <1>1. p[0] = r
    OBVIOUS
  <1> HIDE DEF p
  <1>2. IsPath(a, 0, p, r, r)
    BY <1>1 DEF IsPath
  <1> QED BY <1>2 DEF Leads

\* Other aliases change nothing.
LEMMA LeadsStill ==
  ASSUME NEW a, NEW b, NEW u, NEW r,
         Leads(a, u, r), r \notin DOMAIN b,
         DOMAIN a \subseteq DOMAIN b, \A v \in DOMAIN a : b[v] = a[v]
  PROVE  Leads(b, u, r)
  <1> PICK n \in Nat : \E p : IsPath(a, n, p, u, r)
    BY DEF Leads
  <1>1. PICK p : IsPath(a, n, p, u, r)
    OBVIOUS
  <1>2. IsPath(b, n, p, u, r)
    BY <1>1 DEF IsPath
  <1> QED BY <1>2 DEF Leads

\* An alias of w leads to where w does.
LEMMA LeadsOn ==
  ASSUME NEW a, NEW u \in DOMAIN a, NEW r, Leads(a, a[u], r)
  PROVE  Leads(a, u, r)
  <1> PICK n \in Nat : \E p : IsPath(a, n, p, a[u], r)
    BY DEF Leads
  <1>1. PICK p : IsPath(a, n, p, a[u], r)
    OBVIOUS
  <1> DEFINE q == [i \in 0..(n + 1) |-> IF i = 0 THEN u ELSE p[i - 1]]
  <1>2. q[0] = u /\ q[n + 1] = r
    BY <1>1 DEF IsPath
  <1>3. ASSUME NEW i \in 0..((n + 1) - 1) PROVE q[i] \in DOMAIN a /\ q[i + 1] = a[q[i]]
    <2>1. q[i + 1] = p[i]
      BY <1>3
    <2>2. CASE i = 0
      BY <1>1, <2>1, <2>2 DEF IsPath
    <2>3. CASE i # 0
      <3>1. i - 1 \in 0..(n - 1) /\ (i - 1) + 1 = i /\ q[i] = p[i - 1]
        BY <2>3
      <3> QED BY <1>1, <2>1, <3>1 DEF IsPath
    <2> QED BY <2>2, <2>3
  <1> HIDE DEF q
  <1>4. IsPath(a, n + 1, q, u, r)
    BY <1>1, <1>2, <1>3 DEF IsPath
  <1> QED BY <1>4 DEF Leads

\* A path goes nowhere twice, or it would never end.
LEMMA NoRepeat ==
  ASSUME NEW a, NEW n \in Nat, NEW p, NEW u, NEW r, IsPath(a, n, p, u, r),
         NEW i \in 0..n, NEW j \in 0..n, i < j
  PROVE  p[i] # p[j]
  <1> SUFFICES ASSUME p[i] = p[j] PROVE FALSE
    OBVIOUS
  <1> DEFINE S == {k \in 0..(n - j) : p[i + k] = p[j + k]}
  <1>1. 0 \in S
    OBVIOUS
  <1>2. ASSUME NEW k \in 0..(n - j), k \in S, k < n - j PROVE k + 1 \in S
    <2>1. /\ i + k \in 0..(n - 1) /\ j + k \in 0..(n - 1) /\ k + 1 \in 0..(n - j)
          /\ (i + k) + 1 = i + (k + 1) /\ (j + k) + 1 = j + (k + 1)
      BY <1>2
    <2>2. p[i + (k + 1)] = a[p[i + k]] /\ p[j + (k + 1)] = a[p[j + k]]
      BY <2>1 DEF IsPath
    <2> QED BY <1>2, <2>1, <2>2
  <1>3. n - j \in S
    <2> HIDE DEF S
    <2>1. \A k \in 0..(n - j) : k \in S /\ k < n - j => k + 1 \in S
      BY <1>2
    <2>2. n - j \in Nat
      OBVIOUS
    <2>3. 0..(n - j) \subseteq S
      BY <1>1, <2>1, <2>2, Induction
    <2> QED BY <2>2, <2>3
  <1>4. /\ p[i + (n - j)] = p[j + (n - j)]
        /\ j + (n - j) = n /\ i + (n - j) \in 0..(n - 1)
    BY <1>3
  <1> QED BY <1>4 DEF IsPath

\* The loop finds the end of the path.
LEMMA RootOfPath ==
  ASSUME AliasMap(aliases), NEW u \in PageURLs, NEW r, Leads(aliases, u, r), ChainEnds(u)
  PROVE  findPageURLAliasChainRoot(u) = r
  <1> PICK n \in Nat : \E p : IsPath(aliases, n, p, u, r)
    BY DEF Leads
  <1>1. PICK p : IsPath(aliases, n, p, u, r)
    OBVIOUS
  <1>2. Pages \in Nat /\ Pages > 0
    BY SomePages
  <1> DEFINE c == Chain(u)
  <1>3. c[0] = u /\ \A i \in 1..Pages : c[i] = NextInChain(u, i, c[i - 1])
    BY ChainSteps
  <1>4. findPageURLAliasChainRoot(u) = c[Pages] /\ Stops(c[Pages], u)
    BY DEF findPageURLAliasChainRoot, ChainEnds, Pages
  <1> HIDE DEF c
  <1>5. ASSUME NEW m \in Nat, m <= n, m <= Pages PROVE c[m] = p[m]
    <2> DEFINE S == {i \in 0..m : c[i] = p[i]}
    <2>1. 0 \in S
      BY <1>1, <1>3 DEF IsPath
    <2>2. ASSUME NEW i \in 0..m, i \in S, i < m PROVE i + 1 \in S
      <3>1. /\ i + 1 \in 1..Pages /\ (i + 1) - 1 = i /\ i + 1 \in 0..m
            /\ 0 \in 0..(n - 1) /\ i \in 0..(n - 1) /\ i \in 0..n /\ i + 1 \in 0..n /\ 0 \in 0..n
            /\ i < i + 1
        BY <1>2, <1>5, <2>2
      <3>2. c[i + 1] = NextInChain(u, i + 1, p[i])
        BY <1>3, <2>2, <3>1
      <3>3. u \in DOMAIN aliases /\ p[i] \in DOMAIN aliases /\ p[i + 1] = aliases[p[i]] /\ p[0] = u
        BY <1>1, <3>1 DEF IsPath
      <3>4. p[i] # p[i + 1]
        BY <1>1, <3>1, NoRepeat
      <3>5. i + 1 > 1 => p[0] # p[i]
        <4> HAVE i + 1 > 1
        <4>1. 0 < i
          BY <3>1
        <4> QED BY <1>1, <3>1, <4>1, NoRepeat
      <3>6. NextInChain(u, i + 1, p[i]) = p[i + 1]
        BY <3>3, <3>4, <3>5 DEF NextInChain, Stops
      <3> QED BY <3>1, <3>2, <3>6
    <2>3. m \in S
      <3> HIDE DEF S
      <3>1. \A i \in 0..m : i \in S /\ i < m => i + 1 \in S
        BY <2>2
      <3>2. 0..m \subseteq S
        BY <2>1, <3>1, Induction
      <3> QED BY <3>2
    <2> QED BY <2>3
  <1>6. CASE n <= Pages
    <2> DEFINE S == {k \in 0..(Pages - n) : c[n + k] = r}
    <2>1. 0 \in S
      BY <1>1, <1>2, <1>5, <1>6 DEF IsPath
    <2>2. ASSUME NEW k \in 0..(Pages - n), k \in S, k < Pages - n PROVE k + 1 \in S
      <3>1. /\ n + (k + 1) \in 1..Pages /\ (n + (k + 1)) - 1 = n + k
            /\ k + 1 \in 0..(Pages - n) /\ (n = 0 \/ n + (k + 1) > 1)
        BY <1>2, <1>6, <2>2
      <3>2. c[n + (k + 1)] = NextInChain(u, n + (k + 1), c[n + k])
        BY <1>3, <3>1
      <3>3. NextInChain(u, n + (k + 1), r) = r
        BY <1>1, <3>1 DEF NextInChain, Stops, IsPath
      <3> QED BY <2>2, <3>1, <3>2, <3>3
    <2>3. Pages - n \in S
      <3> HIDE DEF S
      <3>1. \A k \in 0..(Pages - n) : k \in S /\ k < Pages - n => k + 1 \in S
        BY <2>2
      <3>2. Pages - n \in Nat
        BY <1>2, <1>6
      <3>3. 0..(Pages - n) \subseteq S
        BY <2>1, <3>1, <3>2, Induction
      <3> QED BY <3>2, <3>3
    <2>4. n + (Pages - n) = Pages
      BY <1>2
    <2> QED BY <1>4, <2>3, <2>4
  <1>7. CASE Pages < n
    <2>1. /\ Pages \in 0..(n - 1) /\ Pages \in 0..n /\ Pages + 1 \in 0..n /\ 0 \in 0..n
          /\ Pages < Pages + 1 /\ 0 < Pages /\ Pages <= n /\ Pages <= Pages
      BY <1>2, <1>7
    <2>2. c[Pages] = p[Pages]
      BY <1>2, <1>5, <2>1
    <2>3. p[Pages] \in DOMAIN aliases /\ p[Pages + 1] = aliases[p[Pages]] /\ p[0] = u
      BY <1>1, <2>1 DEF IsPath
    <2>4. p[Pages] # p[Pages + 1] /\ p[0] # p[Pages]
      BY <1>1, <2>1, NoRepeat
    <2> QED BY <1>4, <2>2, <2>3, <2>4 DEF Stops
  <1> QED BY <1>2, <1>6, <1>7
-----------------------------------------------------------------------------
(***************************************************************************)
(* The requests of pages.                                                  *)
(***************************************************************************)
\* b is the list a with the flag at place i set.
LEMMA SetFlag ==
  ASSUME NEW r, RequestMap(r), NEW u \in DOMAIN r, NEW i \in DOMAIN r[u]
  PROVE  /\ RequestMap(setIsConsumed(r, <<u, i>>))
         /\ DOMAIN setIsConsumed(r, <<u, i>>) = DOMAIN r
         /\ \A v \in DOMAIN r :
              /\ DOMAIN setIsConsumed(r, <<u, i>>)[v] = DOMAIN r[v]
              /\ \A j \in DOMAIN r[v] :
                   setIsConsumed(r, <<u, i>>)[v][j] <=> r[v][j] \/ <<v, j>> = <<u, i>>
  <1> DEFINE f == [r[u] EXCEPT ![i] = TRUE]
             s == [r EXCEPT ![u] = f]
  <1>1. setIsConsumed(r, <<u, i>>) = s
    BY DEF setIsConsumed
  <1>2. r[u] \in Seq(BOOLEAN) /\ r[u] # <<>>
    BY DEF RequestMap
  <1>3. f \in Seq(BOOLEAN) /\ DOMAIN f = DOMAIN r[u] /\ f # <<>>
    BY <1>2
  <1>4. \A j \in DOMAIN r[u] : f[j] = IF j = i THEN TRUE ELSE r[u][j]
    BY <1>2
  <1> HIDE DEF f
  <1>5. DOMAIN s = DOMAIN r /\ \A v \in DOMAIN r : s[v] = IF v = u THEN f ELSE r[v]
    OBVIOUS
  <1> HIDE DEF s
  <1>6. RequestMap(s)
    BY <1>3, <1>5 DEF RequestMap
  <1>7. ASSUME NEW v \in DOMAIN r
        PROVE  DOMAIN s[v] = DOMAIN r[v]
    BY <1>3, <1>5
  <1>8. ASSUME NEW v \in DOMAIN r, NEW j \in DOMAIN r[v]
        PROVE  s[v][j] <=> r[v][j] \/ <<v, j>> = <<u, i>>
    <2>1. CASE v = u
      BY <1>4, <1>5, <2>1
    <2>2. CASE v # u
      BY <1>5, <2>2
    <2> QED BY <2>1, <2>2
  <1> QED BY <1>1, <1>5, <1>6, <1>7, <1>8

LEMMA MarkFirst ==
  ASSUME NEW r, RequestMap(r), NEW u
  PROVE  /\ RequestMap(markPageURLRequestAsConsumed(r, u))
         /\ DOMAIN markPageURLRequestAsConsumed(r, u) = DOMAIN r
         /\ \A v \in DOMAIN r :
              /\ DOMAIN markPageURLRequestAsConsumed(r, u)[v] = DOMAIN r[v]
              /\ \A j \in DOMAIN r[v] :
                   markPageURLRequestAsConsumed(r, u)[v][j] <=> r[v][j] \/ <<v, j>> = <<u, 1>>
  <1>1. CASE u \in DOMAIN r
    <2>1. r[u] \in Seq(BOOLEAN) /\ r[u] # <<>>
      BY <1>1 DEF RequestMap
    <2>2. 1 \in DOMAIN r[u]
      BY <2>1
    <2>3. markPageURLRequestAsConsumed(r, u) = setIsConsumed(r, <<u, 1>>)
      BY <1>1 DEF markPageURLRequestAsConsumed
    <2> QED BY <1>1, <2>2, <2>3, SetFlag
  <1>2. CASE u \notin DOMAIN r
    BY <1>2 DEF markPageURLRequestAsConsumed
  <1> QED BY <1>1, <1>2

\* What a recorded load adds.
LEMMA OneMore ==
  ASSUME NEW r, RequestMap(r), NEW u \in PageURLs, mode = "recording", handleFrameLoad(r, u)
  PROVE  /\ RequestMap(requests') /\ u \in DOMAIN requests' /\ DOMAIN r \subseteq DOMAIN requests'
         /\ Len(requests'[u]) \in Nat /\ UNCHANGED loaded
  <1> DEFINE f == Append(IF u \in DOMAIN r THEN r[u] ELSE <<>>, FALSE)
  <1>1. requests' = addToPageURLRequestsMap(r, u) /\ UNCHANGED loaded
    BY DEF handleFrameLoad
  <1>2. f \in Seq(BOOLEAN) /\ f # <<>> /\ Len(f) \in Nat
    <2> DEFINE g == IF u \in DOMAIN r THEN r[u] ELSE <<>>
    <2>1. g \in Seq(BOOLEAN)
      <3>1. u \in DOMAIN r => r[u] \in Seq(BOOLEAN)
        BY DEF RequestMap
      <3>2. <<>> \in Seq(BOOLEAN)
        OBVIOUS
      <3>3. (u \in DOMAIN r => g = r[u]) /\ (u \notin DOMAIN r => g = <<>>)
        BY Zenon
      <3> HIDE DEF g
      <3> QED BY <3>1, <3>2, <3>3, Zenon
    <2> HIDE DEF g
    <2>2. Append(g, FALSE) \in Seq(BOOLEAN) /\ Len(Append(g, FALSE)) = Len(g) + 1 /\ Len(g) \in Nat
      BY <2>1
    <2>3. Len(Append(g, FALSE)) \in Nat /\ Len(Append(g, FALSE)) # 0 /\ Len(<<>>) = 0
      BY <2>2
    <2> QED BY <2>2, <2>3 DEF g
  <1> HIDE DEF f
  <1>3. DOMAIN requests' = DOMAIN r \cup {u} /\ requests'[u] = f
    BY <1>1 DEF addToPageURLRequestsMap, f
  <1>4. \A v \in DOMAIN r : v # u => requests'[v] = r[v]
    BY <1>1 DEF addToPageURLRequestsMap
  <1> QED BY <1>1, <1>2, <1>3, <1>4 DEF RequestMap

LEMMA LoadType ==
  ASSUME HealingTypeOK, NEW r, RequestMap(r), NEW u \in PageURLs, handleFrameLoad(r, u)
  PROVE  RequestMap(requests') /\ loaded' \subseteq PageURLs
  <1>1. CASE mode = "recording"
    BY <1>1, OneMore DEF HealingTypeOK
  <1>2. CASE mode = "replaying"
    BY <1>2, MarkFirst DEF handleFrameLoad, HealingTypeOK
  <1>3. CASE mode = "off"
    BY <1>3 DEF handleFrameLoad, HealingTypeOK
  <1> QED BY <1>1, <1>2, <1>3 DEF HealingTypeOK

LEMMA AliasType ==
  ASSUME AliasMap(aliases), NEW u \in PageURLs, NEW w \in PageURLs
  PROVE  /\ AliasMap(setURLAlias(u, w)) /\ DOMAIN setURLAlias(u, w) = DOMAIN aliases \cup {u}
         /\ setURLAlias(u, w)[u] = w
         /\ \A v \in DOMAIN aliases : v # u => setURLAlias(u, w)[v] = aliases[v]
  <1>1. /\ DOMAIN setURLAlias(u, w) = DOMAIN aliases \cup {u}
        /\ setURLAlias(u, w)[u] = w
    BY DEF setURLAlias
  <1>2. \A v \in DOMAIN aliases : v # u => setURLAlias(u, w)[v] = aliases[v]
    BY DEF setURLAlias
  <1> QED BY <1>1, <1>2 DEF AliasMap
-----------------------------------------------------------------------------
(***************************************************************************)
(* Types.                                                                  *)
(***************************************************************************)
LEMMA TypeParts ==
  HealingTypeOK <=>
    /\ mode \in {"off", "recording", "replaying"}
    /\ url \in PageURLs /\ loading \in PageURLs \cup {NoURL}
    /\ AliasMap(aliases) /\ RequestMap(requests)
    /\ events \in Seq(Events) /\ upcoming \in 1..(Len(events) + 1)
    /\ origin \in Locations /\ coming \in Locations
    /\ doubt \in {"none", "load", "aliases"}
    /\ forced \in Seq(Locations) /\ loaded \subseteq PageURLs
  BY DEF HealingTypeOK, AliasMap, RequestMap

LEMMA InitType == HealingInit => HealingTypeOK
  <1> SUFFICES ASSUME HealingInit PROVE HealingTypeOK
    OBVIOUS
  <1>1. AliasMap(aliases) /\ RequestMap(requests)
    BY DEF HealingInit, AliasMap, RequestMap
  <1>2. events \in Seq(Events) /\ upcoming \in 1..(Len(events) + 1) /\ forced \in Seq(Locations)
    BY DEF HealingInit
  <1>3. <<NoURL, 0>> \in Locations
    BY DEF Locations
  <1> QED BY <1>1, <1>2, <1>3, TypeParts DEF HealingInit, PageURLs

LEMMA PlaceType ==
  ASSUME HealingTypeOK
  PROVE  createMapLocation \in Locations
  <1> DEFINE root == findPageURLAliasChainRoot(url)
  <1>1. AliasMap(aliases) /\ RequestMap(requests) /\ url \in PageURLs
    BY TypeParts
  <1>2. root \in PageURLs
    BY <1>1, RootType
  <1>3. sizePageURLRequests(root) \in Nat
    <2>1. root \in DOMAIN requests => requests[root] \in Seq(BOOLEAN)
      BY <1>1 DEF RequestMap
    <2> HIDE DEF root
    <2> QED BY <2>1 DEF sizePageURLRequests
  <1> HIDE DEF root
  <1> QED BY <1>2, <1>3 DEF createMapLocation, Locations, root

LEMMA EventType ==
  ASSUME HealingTypeOK
  PROVE  /\ \A l \in Locations, o \in Locations, d \in {"none", "load", "aliases"} :
              PageEvent(l, o, d) \in Events
         /\ \A u \in PageURLs : LoadEvent(u) \in Events
         /\ \A u \in URLs, same \in BOOLEAN : [kind |-> "history", url |-> u, same |-> same] \in Events
  <1>1. url \in PageURLs
    BY DEF HealingTypeOK
  <1> QED BY <1>1 DEF Events, PageEvent, LoadEvent

\* Doubt yields one of its names.
LEMMA DoubtType ==
  ASSUME NEW d \in {"none", "load", "aliases"}
  PROVE  Doubt(d) \in {"none", "load", "aliases"}
  BY DEF Doubt

LEMMA SameDocumentType ==
  ASSUME HealingTypeOK, NEW u \in PageURLs, handleUpdateForSameDocumentNavigation(u)
  PROVE  AliasMap(aliases') /\ url' \in PageURLs
  BY TypeParts, AliasType DEF handleUpdateForSameDocumentNavigation

LEMMA HistoryType ==
  ASSUME HealingTypeOK, NEW u \in URLs, NEW same \in BOOLEAN, loadHistoryItem(u, same)
  PROVE  /\ AliasMap(aliases') /\ url' \in PageURLs /\ loading' \in PageURLs \cup {NoURL}
         /\ UNCHANGED requests /\ coming' \in Locations /\ doubt' \in {"none", "load", "aliases"}
  <1>1. u \in PageURLs
    BY DEF PageURLs
  <1>2. AliasMap(aliases') /\ url' \in PageURLs /\ loading' \in PageURLs \cup {NoURL}
    BY <1>1, TypeParts, SameDocumentType DEF loadHistoryItem
  <1>3. coming' \in Locations /\ doubt' \in {"none", "load", "aliases"}
    <2>1. coming \in Locations /\ doubt \in {"none", "load", "aliases"} /\ <<NoURL, 0>> \in Locations
      BY DEF HealingTypeOK, Locations
    <2>2. Doubt(IF same THEN doubt ELSE "load") \in {"none", "load", "aliases"}
      BY <2>1, DoubtType
    <2> QED BY <2>1, <2>2 DEF loadHistoryItem
  <1> QED BY <1>2, <1>3 DEF loadHistoryItem

LEMMA StepType == HealingTypeOK /\ [HealingNext]_healingVars => HealingTypeOK'
  <1> SUFFICES ASSUME HealingTypeOK, [HealingNext]_healingVars PROVE HealingTypeOK'
    OBVIOUS
  <1> DEFINE T == {"none", "load", "aliases"}
  <1>0. /\ mode \in {"off", "recording", "replaying"}
        /\ url \in PageURLs /\ loading \in PageURLs \cup {NoURL}
        /\ AliasMap(aliases) /\ RequestMap(requests)
        /\ events \in Seq(Events) /\ upcoming \in 1..(Len(events) + 1)
        /\ origin \in Locations /\ coming \in Locations
        /\ doubt \in T
        /\ forced \in Seq(Locations) /\ loaded \subseteq PageURLs
    BY TypeParts
  <1>p. \A u \in URLs : u \in PageURLs /\ u \in PageURLs \cup {NoURL}
    BY DEF PageURLs
  <1>n. NoURL \in PageURLs \cup {NoURL} /\ <<NoURL, 0>> \in Locations
    BY DEF Locations
  <1>d. \A x \in T : Doubt(x) \in T
    BY DoubtType
  <1>t. /\ mode' \in {"off", "recording", "replaying"}
        /\ url' \in PageURLs /\ loading' \in PageURLs \cup {NoURL}
        /\ AliasMap(aliases') /\ RequestMap(requests')
        /\ events' \in Seq(Events) /\ upcoming' \in 1..(Len(events') + 1)
        /\ origin' \in Locations /\ coming' \in Locations
        /\ doubt' \in T
        /\ forced' \in Seq(Locations) /\ loaded' \subseteq PageURLs
        => HealingTypeOK'
    BY DEF HealingTypeOK, AliasMap, RequestMap
  <1> USE DEF pageVars, storeVars, pastVars
  <1> HIDE DEF T
  <1>1. ASSUME NEW u \in URLs, FrameLoad(u) PROVE HealingTypeOK'
    <2>1. RequestMap(requests') /\ loaded' \subseteq PageURLs
      BY <1>0, <1>1, <1>p, LoadType DEF FrameLoad
    <2>2. coming' \in Locations /\ doubt' \in T
      <3>1. CASE mode = "recording"
        <4>1. Len(requests'[u]) \in Nat
          BY <1>0, <1>1, <1>p, <3>1, OneMore DEF FrameLoad
        <4>2. <<u, Len(requests'[u])>> \in Locations
          BY <1>p, <4>1 DEF Locations
        <4>3. "load" \in T
          BY DEF T
        <4> QED BY <1>1, <1>d, <3>1, <4>2, <4>3 DEF FrameLoad
      <3>2. CASE mode # "recording"
        BY <1>0, <1>1, <3>2 DEF FrameLoad
      <3> QED BY <3>1, <3>2
    <2>3. loading' \in PageURLs \cup {NoURL}
      BY <1>1, <1>p DEF FrameLoad
    <2> QED BY <1>0, <1>1, <2>1, <2>2, <2>3, <1>t DEF FrameLoad, T
  <1>2. ASSUME NEW u \in URLs, Redirect(u) PROVE HealingTypeOK'
    <2>1. AliasMap(aliases')
      <3>1. loading \in PageURLs
        BY <1>2, <1>p DEF Redirect
      <3> QED BY <1>0, <1>2, <1>p, <3>1, AliasType DEF Redirect
    <2>2. doubt' \in T /\ loading' \in PageURLs \cup {NoURL}
      BY <1>0, <1>2, <1>d, <1>p DEF Redirect
    <2> QED BY <1>0, <1>2, <2>1, <2>2, <1>t DEF Redirect, T
  <1>3. ASSUME NEW u \in URLs, SameDocumentNavigation(u) PROVE HealingTypeOK'
    <2>1. AliasMap(aliases') /\ url' \in PageURLs
      BY <1>3, <1>p, SameDocumentType DEF SameDocumentNavigation
    <2>2. doubt' \in T
      BY <1>0, <1>3, <1>d DEF SameDocumentNavigation
    <2> QED BY <1>0, <1>3, <2>1, <2>2, <1>t DEF SameDocumentNavigation, T
  <1>4. ASSUME NEW u \in URLs, FragmentNavigation(u) PROVE HealingTypeOK'
    <2>1. RequestMap(requests') /\ loaded' \subseteq PageURLs
      BY <1>0, <1>4, <1>p, LoadType DEF FragmentNavigation
    <2>2. AliasMap(aliases') /\ url' \in PageURLs
      BY <1>4, <1>p, SameDocumentType DEF FragmentNavigation
    <2>3. doubt' \in T /\ loading' \in PageURLs \cup {NoURL}
      BY <1>0, <1>4, <1>d, <1>n DEF FragmentNavigation
    <2> QED BY <1>0, <1>4, <2>1, <2>2, <2>3, <1>t DEF FragmentNavigation, T
  <1>5. ASSUME NEW u \in URLs, NEW same \in BOOLEAN, HistoryNavigation(u, same)
        PROVE  HealingTypeOK'
    <2>1. loadHistoryItem(u, same)
      BY <1>5 DEF HistoryNavigation
    <2>2. /\ AliasMap(aliases') /\ url' \in PageURLs /\ loading' \in PageURLs \cup {NoURL}
          /\ requests' = requests /\ coming' \in Locations /\ doubt' \in T
      BY <2>1, HistoryType DEF T
    <2> DEFINE e == [kind |-> "history", url |-> u, same |-> same]
    <2>3. e \in Events
      BY EventType
    <2>4. upcoming' = upcoming /\ (events' = Append(events, e) \/ events' = events)
      BY <1>5 DEF HistoryNavigation
    <2> HIDE DEF e
    <2>5. events' \in Seq(Events) /\ upcoming' \in 1..(Len(events') + 1)
      BY <1>0, <2>3, <2>4
    <2> QED BY <1>0, <1>5, <2>2, <2>5, <1>t DEF HistoryNavigation, T
  <1>6. CASE Commit
    <2>1. url' \in PageURLs /\ loading' \in PageURLs \cup {NoURL}
      BY <1>0, <1>6, <1>n DEF Commit
    <2>2. origin' \in Locations /\ doubt' \in T
      <3>1. "none" \in T
        BY DEF T
      <3> QED BY <1>0, <1>6, <3>1 DEF Commit
    <2> QED BY <1>0, <1>6, <2>1, <2>2, <1>t DEF Commit, T
  <1>7. CASE Cancel
    BY <1>0, <1>7, <1>n, <1>t DEF Cancel, T
  <1>8. CASE StartRecording
    <2>1. AliasMap(aliases')
      BY <1>8 DEF StartRecording, AliasMap
    <2>2. Blank \in PageURLs
      BY DEF PageURLs
    <2> DEFINE f == IF url = Blank THEN <<FALSE, FALSE>> ELSE <<FALSE>>
    <2>3. f \in Seq(BOOLEAN) \ {<<>>} /\ Len(f) \in Nat
      <3>1. <<FALSE, FALSE>> \in Seq(BOOLEAN) \ {<<>>} /\ Len(<<FALSE, FALSE>>) \in Nat
        OBVIOUS
      <3>2. <<FALSE>> \in Seq(BOOLEAN) \ {<<>>} /\ Len(<<FALSE>>) \in Nat
        OBVIOUS
      <3> QED BY <3>1, <3>2
    <2> HIDE DEF f
    <2>4. requests' = [v \in {Blank, url} |-> f]
      BY <1>8 DEF StartRecording, f
    <2>5. RequestMap(requests')
      BY <1>0, <2>2, <2>3, <2>4 DEF RequestMap
    <2>6. coming' \in Locations /\ origin' \in Locations
      <3>1. coming' = <<url, Len(f)>> /\ origin' = <<Blank, 1>>
        BY <1>8, <2>4 DEF StartRecording
      <3> QED BY <1>0, <2>2, <2>3, <3>1 DEF Locations
    <2>7. events' \in Seq(Events) /\ Len(events') = 3
      <3> DEFINE size == PageEvent(<<NoURL, 0>>, <<NoURL, 0>>, "load")
      <3>1. LoadEvent(Blank) \in Events /\ LoadEvent(url) \in Events /\ size \in Events
        BY <1>0, <1>n, <2>2, EventType
      <3>2. events' = <<LoadEvent(Blank), size, LoadEvent(url)>>
        BY <1>8 DEF StartRecording
      <3> HIDE DEF size
      <3> QED BY <3>1, <3>2
    <2>8. /\ mode' = "recording" /\ url' = Blank /\ loading' = url
          /\ upcoming' = 1 /\ doubt' = "load" /\ forced' = <<>> /\ loaded' = {}
      BY <1>8 DEF StartRecording
    <2>9. upcoming' \in 1..(Len(events') + 1) /\ forced' \in Seq(Locations)
      BY <2>7, <2>8
    <2>10. /\ mode' \in {"off", "recording", "replaying"} /\ doubt' \in T
           /\ url' \in PageURLs /\ loading' \in PageURLs \cup {NoURL} /\ loaded' \subseteq PageURLs
      BY <1>0, <2>2, <2>8 DEF T
    <2> QED BY <2>1, <2>5, <2>6, <2>7, <2>9, <2>10, <1>t
  <1>9. CASE RecordPageEvent
    <2> DEFINE e == PageEvent(createMapLocation, origin, doubt)
    <2>1. e \in Events
      BY <1>0, EventType, PlaceType DEF T
    <2>2. events' = Append(events, e) /\ upcoming' = upcoming
      BY <1>9 DEF RecordPageEvent
    <2> HIDE DEF e
    <2>3. events' \in Seq(Events) /\ upcoming' \in 1..(Len(events') + 1)
      BY <1>0, <2>1, <2>2
    <2> QED BY <1>0, <1>9, <2>3, <1>t DEF RecordPageEvent, T
  <1>10. CASE StopRecording
    <2>1. "none" \in T
      BY DEF T
    <2> QED BY <1>0, <1>10, <1>n, <2>1, <1>t DEF StopRecording, T
  <1>11. CASE StartReplay
    <2>1. RequestMap(requests')
      <3>1. requests' = resetPageURLRequestsMap
        BY <1>11 DEF StartReplay
      <3>2. ASSUME NEW u \in DOMAIN requests
            PROVE  [i \in DOMAIN requests[u] |-> FALSE] \in Seq(BOOLEAN) \ {<<>>}
        <4>1. requests[u] \in Seq(BOOLEAN) /\ requests[u] # <<>>
          BY <1>0 DEF RequestMap
        <4> DEFINE n == Len(requests[u])
        <4>2. n \in Nat /\ n # 0 /\ DOMAIN requests[u] = 1..n
          BY <4>1
        <4> HIDE DEF n
        <4>3. [i \in 1..n |-> FALSE] \in Seq(BOOLEAN)
          BY <4>2
        <4>4. [i \in 1..n |-> FALSE] # <<>>
          BY <4>2
        <4> QED BY <4>2, <4>3, <4>4
      <3> QED BY <1>0, <3>1, <3>2 DEF RequestMap, resetPageURLRequestsMap
    <2>2. upcoming' \in 1..(Len(events') + 1)
      BY <1>0, <1>11 DEF StartReplay
    <2> QED BY <1>0, <1>11, <2>1, <2>2, <1>t DEF StartReplay, T
  <1>12. CASE StopReplay
    <2>1. forced' \in Seq(Locations) /\ loaded' \subseteq PageURLs
      BY <1>12 DEF StopReplay
    <2> QED BY <1>0, <1>12, <2>1, <1>t DEF StopReplay, T
  <1>13. ASSUME Injecting
         PROVE  /\ events[upcoming] \in Events
                /\ events' = events => upcoming' \in 1..(Len(events') + 1)
    <2>1. upcoming \in 1..Len(events) /\ upcoming' = upcoming + 1
      BY <1>0, <1>13 DEF Injecting
    <2> QED BY <1>0, <2>1
  <1>14. CASE InjectLoad
    <2>1. events[upcoming].url \in PageURLs
      BY <1>13, <1>14 DEF InjectLoad, Events, Locations, PageURLs
    <2>2. RequestMap(requests') /\ loaded' \subseteq PageURLs
      BY <1>0, <1>14, <2>1, LoadType DEF InjectLoad
    <2>3. loading' \in PageURLs \cup {NoURL}
      BY <1>14, <2>1 DEF InjectLoad
    <2>4. upcoming' \in 1..(Len(events') + 1)
      BY <1>13, <1>14 DEF InjectLoad
    <2> QED BY <1>0, <1>14, <2>2, <2>3, <2>4, <1>t DEF InjectLoad, T
  <1>15. CASE InjectHistory
    <2> DEFINE e == events[upcoming]
    <2>1. e.url \in URLs /\ e.same \in BOOLEAN
      BY <1>13, <1>15 DEF InjectHistory, Events
    <2>2. loadHistoryItem(e.url, e.same)
      BY <1>15 DEF InjectHistory
    <2> HIDE DEF e
    <2>3. /\ AliasMap(aliases') /\ url' \in PageURLs /\ loading' \in PageURLs \cup {NoURL}
          /\ requests' = requests /\ coming' \in Locations /\ doubt' \in T
      BY <2>1, <2>2, HistoryType DEF T
    <2>4. upcoming' \in 1..(Len(events') + 1)
      BY <1>13, <1>15 DEF InjectHistory
    <2> QED BY <1>0, <1>15, <2>3, <2>4, <1>t DEF InjectHistory, T
  <1>16. CASE InjectPageEvent
    <2> DEFINE e == events[upcoming]
    <2>1. e.location \in Locations
      BY <1>13, <1>16 DEF InjectPageEvent, Events
    <2>2. \/ attemptReplaySelfHealing(e)
          \/ UNCHANGED <<requests, loading, forced, loaded>>
      BY <1>16 DEF InjectPageEvent
    <2>3. upcoming' \in 1..(Len(events') + 1)
      BY <1>13, <1>16 DEF InjectPageEvent
    <2> HIDE DEF e
    <2>4. /\ RequestMap(requests') /\ loaded' \subseteq PageURLs
          /\ loading' \in PageURLs \cup {NoURL} /\ forced' \in Seq(Locations)
      <3>1. CASE attemptReplaySelfHealing(e) /\ CanHeal(e)
        <4> DEFINE r == setIsConsumed(requests, e.location)
        <4>1. e.location = <<e.location[1], e.location[2]>>
          BY <2>1 DEF Locations
        <4>2. e.location[1] \in DOMAIN requests /\ e.location[2] \in DOMAIN requests[e.location[1]]
          BY <3>1 DEF CanHeal, HasRequest
        <4>3. RequestMap(r)
          <5>1. r = setIsConsumed(requests, <<e.location[1], e.location[2]>>)
            BY <4>1
          <5> HIDE DEF r
          <5> QED BY <1>0, <4>2, <5>1, SetFlag
        <4>4. e.location[1] \in PageURLs
          BY <1>0, <4>2 DEF RequestMap
        <4>5. /\ handleFrameLoad(r, e.location[1]) /\ loading' = e.location[1]
              /\ forced' = Append(forced, e.location)
          BY <3>1 DEF attemptReplaySelfHealing
        <4> HIDE DEF r
        <4> QED BY <1>0, <2>1, <4>3, <4>4, <4>5, LoadType
      <3>2. CASE UNCHANGED <<requests, loading, forced, loaded>>
        BY <1>0, <3>2
      <3> QED BY <2>2, <3>1, <3>2 DEF attemptReplaySelfHealing
    <2> QED BY <1>0, <1>16, <2>3, <2>4, <1>t DEF InjectPageEvent, T
  <1>17. CASE UNCHANGED healingVars
    BY <1>0, <1>17, <1>t DEF healingVars, T
  <1> QED BY <1>1, <1>2, <1>3, <1>4, <1>5, <1>6, <1>7, <1>8, <1>9, <1>10, <1>11, <1>12,
             <1>14, <1>15, <1>16, <1>17 DEF HealingNext

\* The values of the state, over any navigations.
THEOREM TypeCorrect == HealingSpec => []HealingTypeOK
  BY InitType, StepType, PTL DEF HealingSpec
-----------------------------------------------------------------------------
(***************************************************************************)
(* Each request is forced once.                                            *)
(***************************************************************************)
\* The flags in r are those of the requests f and of the first for the URLs l.
Marks(r, f, l) ==
  \A u \in DOMAIN r : \A i \in DOMAIN r[u] :
    r[u][i] <=> \/ i = 1 /\ u \in l
                \/ \E k \in DOMAIN f : f[k] = <<u, i>>

OnceInv ==
  /\ mode # "replaying" => forced = <<>> /\ loaded = {}
  /\ mode = "replaying" => IsInjective(forced) /\ Marks(requests, forced, loaded)

LEMMA LoadMarks ==
  ASSUME NEW r, RequestMap(r), NEW u, NEW f,
         mode = "replaying", handleFrameLoad(r, u), Marks(r, f, loaded)
  PROVE  Marks(requests', f, loaded')
  <1>1. requests' = markPageURLRequestAsConsumed(r, u) /\ loaded' = loaded \cup {u}
    BY DEF handleFrameLoad
  <1> SUFFICES ASSUME NEW v \in DOMAIN requests', NEW j \in DOMAIN requests'[v]
               PROVE  requests'[v][j] <=> \/ j = 1 /\ v \in loaded'
                                          \/ \E k \in DOMAIN f : f[k] = <<v, j>>
    BY Zenon DEF Marks
  <1>2. v \in DOMAIN r /\ j \in DOMAIN r[v]
    BY <1>1, MarkFirst
  <1>3. requests'[v][j] <=> r[v][j] \/ <<v, j>> = <<u, 1>>
    BY <1>1, <1>2, MarkFirst, Zenon
  <1>4. r[v][j] <=> \/ j = 1 /\ v \in loaded
                    \/ \E k \in DOMAIN f : f[k] = <<v, j>>
    BY <1>2, Zenon DEF Marks
  <1>5. <<v, j>> = <<u, 1>> <=> j = 1 /\ v = u
    OBVIOUS
  <1>6. v \in loaded' <=> v \in loaded \/ v = u
    BY <1>1
  <1> QED BY <1>3, <1>4, <1>5, <1>6, Zenon

LEMMA ForceMarks ==
  ASSUME NEW r, RequestMap(r), NEW u \in DOMAIN r, NEW i \in DOMAIN r[u],
         NEW S, NEW f \in Seq(S), IsInjective(f), NEW l, Marks(r, f, l), ~ r[u][i]
  PROVE  /\ IsInjective(Append(f, <<u, i>>))
         /\ Marks(setIsConsumed(r, <<u, i>>), Append(f, <<u, i>>), l)
  <1> DEFINE w == setIsConsumed(r, <<u, i>>)
             g == Append(f, <<u, i>>)
             n == Len(f) + 1
  <1>1. /\ DOMAIN g = 1..n /\ n \in DOMAIN g /\ g[n] = <<u, i>>
        /\ \A k \in DOMAIN f : k \in DOMAIN g /\ g[k] = f[k] /\ k # n
        /\ \A k \in DOMAIN g : k \in DOMAIN f \/ k = n
    OBVIOUS
  <1>2. \A k \in DOMAIN f : f[k] # <<u, i>>
    BY Zenon DEF Marks
  <1>r. /\ DOMAIN w = DOMAIN r
        /\ \A v \in DOMAIN r :
             /\ DOMAIN w[v] = DOMAIN r[v]
             /\ \A j \in DOMAIN r[v] : w[v][j] <=> r[v][j] \/ <<v, j>> = <<u, i>>
    BY SetFlag
  <1> HIDE DEF g, n, w
  <1>3. IsInjective(g)
    BY <1>1, <1>2 DEF IsInjective
  <1>4. ASSUME NEW v \in DOMAIN w, NEW j \in DOMAIN w[v]
        PROVE  w[v][j] <=> \/ j = 1 /\ v \in l
                           \/ \E k \in DOMAIN g : g[k] = <<v, j>>
    <2>1. v \in DOMAIN r /\ j \in DOMAIN r[v]
      BY <1>r, <1>4
    <2>2. w[v][j] <=> r[v][j] \/ <<v, j>> = <<u, i>>
      BY <1>r, <2>1, Zenon
    <2>3. r[v][j] <=> \/ j = 1 /\ v \in l
                      \/ \E k \in DOMAIN f : f[k] = <<v, j>>
      BY <2>1, Zenon DEF Marks
    <2>4. (\E k \in DOMAIN g : g[k] = <<v, j>>)
            <=> (\E k \in DOMAIN f : f[k] = <<v, j>>) \/ <<v, j>> = <<u, i>>
      BY <1>1, Zenon
    <2> QED BY <2>2, <2>3, <2>4, Zenon
  <1>5. Marks(w, g, l)
    BY <1>4, Zenon DEF Marks
  <1> QED BY <1>3, <1>5 DEF g, w

LEMMA InitOnce == HealingInit => OnceInv
  BY DEF HealingInit, OnceInv

\* Steps that load nothing.
LEMMA OnceKept ==
  ASSUME OnceInv, UNCHANGED <<mode, requests, forced, loaded>>
  PROVE  OnceInv'
  BY DEF OnceInv

\* Loads that are not forced.
LEMMA OnceLoaded ==
  ASSUME HealingTypeOK, OnceInv, NEW u, handleFrameLoad(requests, u), UNCHANGED <<mode, forced>>
  PROVE  OnceInv'
  <1>1. CASE mode = "replaying"
    <2>1. RequestMap(requests) /\ Marks(requests, forced, loaded) /\ IsInjective(forced)
      BY <1>1, TypeParts DEF OnceInv
    <2>2. Marks(requests', forced, loaded')
      BY <1>1, <2>1, LoadMarks
    <2> QED BY <1>1, <2>1, <2>2 DEF OnceInv
  <1>2. CASE mode # "replaying"
    BY <1>2 DEF OnceInv, handleFrameLoad
  <1> QED BY <1>1, <1>2

LEMMA StepOnce == HealingTypeOK /\ OnceInv /\ [HealingNext]_healingVars => OnceInv'
  <1> SUFFICES ASSUME HealingTypeOK, OnceInv, [HealingNext]_healingVars PROVE OnceInv'
    OBVIOUS
  <1> USE DEF pageVars, storeVars, pastVars
  <1>1. ASSUME NEW u \in URLs, FrameLoad(u) \/ FragmentNavigation(u) PROVE OnceInv'
    BY <1>1, OnceLoaded DEF FrameLoad, FragmentNavigation
  <1>2. ASSUME NEW u \in URLs, Redirect(u) \/ SameDocumentNavigation(u) PROVE OnceInv'
    BY <1>2, OnceKept DEF Redirect, SameDocumentNavigation
  <1>3. ASSUME NEW u \in URLs, NEW same \in BOOLEAN, HistoryNavigation(u, same) PROVE OnceInv'
    BY <1>3, OnceKept DEF HistoryNavigation, loadHistoryItem
  <1>4. CASE Commit \/ Cancel \/ RecordPageEvent \/ UNCHANGED healingVars
    BY <1>4, OnceKept DEF Commit, Cancel, RecordPageEvent, healingVars
  <1>5. CASE StartRecording \/ StopRecording \/ StopReplay
    BY <1>5 DEF StartRecording, StopRecording, StopReplay, OnceInv
  <1>6. CASE StartReplay
    <2>1. /\ mode' = "replaying" /\ forced' = <<>> /\ loaded' = {}
          /\ requests' = resetPageURLRequestsMap
      BY <1>6 DEF StartReplay, OnceInv
    <2>2. \A u \in DOMAIN requests' : \A i \in DOMAIN requests'[u] : requests'[u][i] = FALSE
      BY <2>1 DEF resetPageURLRequestsMap
    <2>3. Marks(requests', forced', loaded')
      BY <2>1, <2>2 DEF Marks
    <2> QED BY <2>1, <2>3 DEF OnceInv, IsInjective
  <1>7. CASE InjectLoad
    BY <1>7, OnceLoaded DEF InjectLoad, Injecting
  <1>8. CASE InjectHistory
    BY <1>8, OnceKept DEF InjectHistory, loadHistoryItem
  <1>9. CASE InjectPageEvent
    <2> DEFINE e == events[upcoming]
    <2>1. mode = "replaying" /\ mode' = mode
      BY <1>9 DEF InjectPageEvent, Injecting
    <2>2. \/ attemptReplaySelfHealing(e)
          \/ UNCHANGED <<requests, forced, loaded>>
      BY <1>9 DEF InjectPageEvent
    <2>3. e.location \in Locations
      <3>1. events \in Seq(Events) /\ upcoming \in DOMAIN events /\ e.kind = "page"
        BY <1>9 DEF InjectPageEvent, Injecting, HealingTypeOK
      <3>2. e \in Events
        BY <3>1
      <3> QED BY <3>1, <3>2 DEF Events
    <2> HIDE DEF e
    <2>4. CASE attemptReplaySelfHealing(e) /\ CanHeal(e)
      <3> DEFINE u == e.location[1]
                 i == e.location[2]
                 r == setIsConsumed(requests, <<u, i>>)
                 f == Append(forced, <<u, i>>)
      <3>1. e.location = <<u, i>>
        BY <2>3 DEF Locations
      <3>2. u \in DOMAIN requests /\ i \in DOMAIN requests[u] /\ ~ requests[u][i]
        BY <2>4, Zenon DEF CanHeal, HasRequest
      <3>3. handleFrameLoad(setIsConsumed(requests, e.location), u)
            /\ forced' = Append(forced, e.location)
        BY <2>4 DEF attemptReplaySelfHealing
      <3>4. handleFrameLoad(r, u) /\ forced' = f
        BY <3>1, <3>3
      <3>5. /\ RequestMap(requests) /\ forced \in Seq(Locations)
            /\ IsInjective(forced) /\ Marks(requests, forced, loaded)
        BY <2>1, TypeParts DEF OnceInv
      <3> HIDE DEF u, i
      <3>6. RequestMap(r) /\ IsInjective(f) /\ Marks(r, f, loaded)
        BY <3>2, <3>5, SetFlag, ForceMarks
      <3> HIDE DEF r, f
      <3>7. Marks(requests', f, loaded')
        BY <2>1, <3>4, <3>6, LoadMarks
      <3> QED BY <2>1, <3>4, <3>6, <3>7 DEF OnceInv
    <2>5. CASE UNCHANGED <<requests, forced, loaded>>
      BY <2>1, <2>5, OnceKept
    <2> QED BY <2>2, <2>4, <2>5 DEF attemptReplaySelfHealing
  <1> QED BY <1>1, <1>2, <1>3, <1>4, <1>5, <1>6, <1>7, <1>8, <1>9 DEF HealingNext
-----------------------------------------------------------------------------
(***************************************************************************)
(* A place is that of the request its page came from.                      *)
(***************************************************************************)
\* The place of the last of the requests in r for the URL that the aliases a of u lead to.
IsPlaceFor(r, a, place, u) ==
  place[1] \in DOMAIN r /\ place[2] = Len(r[place[1]]) /\ Leads(a, u, place[1])

\* No URL has both requests and an alias.
ApartInv == doubt # "aliases" => DOMAIN aliases \cap DOMAIN requests = {}

\* The page came from the request at origin, a load under way from that at coming.
OriginInv == doubt = "none" => loading = NoURL /\ IsPlaceFor(requests, aliases, origin, url)
ComingInv ==
  doubt # "aliases" /\ coming[1] # NoURL /\ loading # NoURL =>
    IsPlaceFor(requests, aliases, coming, loading)

PlaceInv == mode = "recording" => ApartInv /\ OriginInv /\ ComingInv

LEMMA NoDoubt ==
  ASSUME NEW d, Doubt(d) # "aliases"
  PROVE  /\ doubt # "aliases" /\ Doubt(d) = d
         /\ DOMAIN aliases' \cap DOMAIN requests' = {}
         /\ \A u \in DOMAIN aliases : aliases'[u] = aliases[u]
  BY DEF Doubt

\* A load under way or the page takes another URL, which becomes an alias.
LEMMA AliasAdded ==
  ASSUME HealingTypeOK, NEW u \in PageURLs, NEW w \in PageURLs,
         aliases' = setURLAlias(u, w), requests' = requests,
         NEW d, Doubt(d) # "aliases",
         NEW place, NEW v, IsPlaceFor(requests, aliases, place, v)
  PROVE  /\ IsPlaceFor(requests', aliases', place, v)
         /\ v = w => IsPlaceFor(requests', aliases', place, u)
  <1>1. /\ DOMAIN aliases \subseteq DOMAIN aliases' /\ u \in DOMAIN aliases' /\ aliases'[u] = w
        /\ \A x \in DOMAIN aliases : aliases'[x] = aliases[x]
        /\ DOMAIN aliases' \cap DOMAIN requests' = {}
    BY TypeParts, AliasType, NoDoubt
  <1>2. place[1] \notin DOMAIN aliases' /\ Leads(aliases, v, place[1])
    BY <1>1 DEF IsPlaceFor
  <1>3. Leads(aliases', v, place[1])
    BY <1>1, <1>2, LeadsStill
  <1>4. v = w => Leads(aliases', u, place[1])
    BY <1>1, <1>3, LeadsOn
  <1> QED BY <1>3, <1>4 DEF IsPlaceFor

LEMMA InitPlace == HealingInit => PlaceInv
  BY DEF HealingInit, PlaceInv

LEMMA PlaceKept ==
  ASSUME PlaceInv, UNCHANGED <<mode, url, loading, aliases, requests, origin, coming, doubt>>
  PROVE  PlaceInv'
  BY DEF PlaceInv, ApartInv, OriginInv, ComingInv

\* The URL of the page changes without a load; one under way goes on or is stopped.
LEMMA SameDocumentPlace ==
  ASSUME HealingTypeOK, PlaceInv, mode = "recording", NEW u \in PageURLs, u # url,
         handleUpdateForSameDocumentNavigation(u), doubt' = Doubt(doubt),
         loading' = loading \/ loading' = NoURL,
         UNCHANGED <<requests, origin, coming>>
  PROVE  PlaceInv'
  <1>1. CASE doubt' = "aliases"
    BY <1>1 DEF PlaceInv, ApartInv, OriginInv, ComingInv
  <1>2. CASE doubt' # "aliases"
    <2>1. /\ doubt # "aliases" /\ doubt' = doubt /\ Doubt(doubt) # "aliases"
          /\ DOMAIN aliases' \cap DOMAIN requests' = {}
      BY <1>2, NoDoubt
    <2>2. aliases' = setURLAlias(u, url) /\ url' = u /\ url \in PageURLs
      BY DEF handleUpdateForSameDocumentNavigation, HealingTypeOK
    <2>3. OriginInv'
      <3>1. SUFFICES ASSUME doubt = "none"
                     PROVE  loading' = NoURL /\ IsPlaceFor(requests', aliases', origin', url')
        BY <2>1 DEF OriginInv
      <3>2. loading = NoURL /\ IsPlaceFor(requests, aliases, origin, url)
        BY <3>1 DEF PlaceInv, OriginInv
      <3>3. IsPlaceFor(requests', aliases', origin, u)
        BY <2>1, <2>2, <3>2, AliasAdded
      <3> QED BY <2>2, <3>2, <3>3
    <2>4. ComingInv'
      <3>1. SUFFICES ASSUME coming[1] # NoURL, loading' = loading, loading # NoURL
                     PROVE  IsPlaceFor(requests', aliases', coming, loading)
        BY <2>1 DEF ComingInv
      <3>2. IsPlaceFor(requests, aliases, coming, loading)
        BY <2>1, <3>1 DEF PlaceInv, ComingInv
      <3> QED BY <2>1, <2>2, <3>2, AliasAdded
    <2> QED BY <2>1, <2>3, <2>4 DEF PlaceInv, ApartInv
  <1> QED BY <1>1, <1>2

LEMMA StepPlace == HealingTypeOK /\ PlaceInv /\ [HealingNext]_healingVars => PlaceInv'
  <1> SUFFICES ASSUME HealingTypeOK, PlaceInv, [HealingNext]_healingVars, mode' = "recording"
               PROVE  PlaceInv'
    BY DEF PlaceInv
  <1> USE DEF pageVars, storeVars, pastVars
  <1>p. \A u \in URLs : u \in PageURLs
    BY DEF PageURLs
  <1>1. ASSUME NEW u \in URLs, FrameLoad(u) PROVE PlaceInv'
    <2>1. /\ mode = "recording" /\ handleFrameLoad(requests, u) /\ loading' = u
          /\ coming' = <<u, Len(requests'[u])>> /\ doubt' = Doubt("load")
      BY <1>1 DEF FrameLoad
    <2>2. u \in DOMAIN requests'
      BY <1>p, <2>1, OneMore, TypeParts
    <2>3. CASE doubt' = "aliases"
      BY <2>3 DEF PlaceInv, ApartInv, OriginInv, ComingInv
    <2>4. CASE doubt' # "aliases"
      <3>1. doubt' = "load" /\ DOMAIN aliases' \cap DOMAIN requests' = {}
        BY <2>1, <2>4, NoDoubt
      <3>2. Leads(aliases', u, u)
        BY <2>2, <3>1, LeadsToItself
      <3>3. coming'[1] = u /\ coming'[2] = Len(requests'[u])
        BY <2>1
      <3>4. IsPlaceFor(requests', aliases', coming', loading')
        BY <2>1, <2>2, <3>2, <3>3 DEF IsPlaceFor
      <3> QED BY <3>1, <3>4 DEF PlaceInv, ApartInv, OriginInv, ComingInv
    <2> QED BY <2>3, <2>4
  <1>2. ASSUME NEW u \in URLs, Redirect(u) PROVE PlaceInv'
    <2>1. /\ mode = "recording" /\ loading \in URLs /\ loading # NoURL /\ loading' = u
          /\ aliases' = setURLAlias(u, loading) /\ doubt' = Doubt(doubt)
          /\ requests' = requests /\ coming' = coming
      BY <1>2, HealingAssumption DEF Redirect
    <2>2. CASE doubt' = "aliases"
      BY <2>2 DEF PlaceInv, ApartInv, OriginInv, ComingInv
    <2>3. CASE doubt' # "aliases"
      <3>1. /\ doubt # "aliases" /\ doubt' = doubt /\ Doubt(doubt) # "aliases"
            /\ DOMAIN aliases' \cap DOMAIN requests' = {}
        BY <2>1, <2>3, NoDoubt
      <3>2. doubt # "none"
        BY <2>1 DEF PlaceInv, OriginInv
      <3>3. ComingInv'
        <4>1. SUFFICES ASSUME coming[1] # NoURL
                       PROVE  IsPlaceFor(requests', aliases', coming, u)
          BY <2>1 DEF ComingInv
        <4>2. IsPlaceFor(requests, aliases, coming, loading)
          BY <2>1, <3>1, <4>1 DEF PlaceInv, ComingInv
        <4> QED BY <1>p, <2>1, <3>1, <4>2, AliasAdded
      <3> QED BY <3>1, <3>2, <3>3 DEF PlaceInv, ApartInv, OriginInv
    <2> QED BY <2>2, <2>3
  <1>3. ASSUME NEW u \in URLs, SameDocumentNavigation(u) PROVE PlaceInv'
    BY <1>3, <1>p, SameDocumentPlace DEF SameDocumentNavigation
  <1>4. ASSUME NEW u \in URLs, FragmentNavigation(u) PROVE PlaceInv'
    <2>1. /\ mode = "recording" /\ handleFrameLoad(requests, u) /\ u # url
          /\ aliases' = setURLAlias(u, url) /\ doubt' = Doubt(doubt)
      BY <1>4 DEF FragmentNavigation, handleUpdateForSameDocumentNavigation
    <2>2. u \in DOMAIN requests'
      BY <1>p, <2>1, OneMore, TypeParts
    <2>3. u \in DOMAIN aliases'
      BY <2>1 DEF setURLAlias
    <2>4. doubt' = "aliases"
      BY <2>1, <2>2, <2>3 DEF Doubt
    <2> QED BY <2>4 DEF PlaceInv, ApartInv, OriginInv, ComingInv
  <1>5. ASSUME NEW u \in URLs, NEW same \in BOOLEAN, HistoryNavigation(u, same) PROVE PlaceInv'
    <2>1. mode = "recording" /\ loadHistoryItem(u, same) /\ u # url /\ origin' = origin
      BY <1>5 DEF HistoryNavigation
    <2>2. CASE same
      BY <1>p, <2>1, <2>2, SameDocumentPlace DEF loadHistoryItem
    <2>3. CASE ~ same
      <3>1. coming' = <<NoURL, 0>> /\ doubt' = Doubt("load")
        BY <2>1, <2>3 DEF loadHistoryItem
      <3>2. doubt' # "aliases" => doubt' = "load" /\ DOMAIN aliases' \cap DOMAIN requests' = {}
        BY <3>1, NoDoubt
      <3>3. coming'[1] = NoURL
        BY <3>1
      <3> QED BY <3>2, <3>3 DEF PlaceInv, ApartInv, OriginInv, ComingInv
    <2> QED BY <2>2, <2>3
  <1>6. CASE Commit
    <2>1. /\ mode = "recording" /\ loading # NoURL /\ url' = loading /\ loading' = NoURL
          /\ UNCHANGED <<aliases, requests, coming>> /\ origin' = coming
          /\ doubt' = IF doubt = "load" /\ coming[1] # NoURL THEN "none" ELSE doubt
      BY <1>6 DEF Commit
    <2>2. ApartInv'
      BY <2>1 DEF PlaceInv, ApartInv
    <2>3. OriginInv'
      BY <2>1 DEF PlaceInv, OriginInv, ComingInv
    <2> QED BY <2>1, <2>2, <2>3 DEF PlaceInv, ComingInv
  <1>7. CASE Cancel
    BY <1>7 DEF Cancel, PlaceInv, ApartInv, OriginInv, ComingInv
  <1>8. CASE StartRecording
    <2>1. /\ aliases' = [u \in {} |-> NoURL] /\ doubt' = "load" /\ loading' = url
          /\ coming' = <<url, Len(requests'[url])>> /\ url \in DOMAIN requests'
      BY <1>8 DEF StartRecording
    <2>2. DOMAIN aliases' = {} /\ coming'[1] = url /\ coming'[2] = Len(requests'[url])
      BY <2>1
    <2>3. Leads(aliases', url, url)
      BY <2>2, LeadsToItself
    <2>4. IsPlaceFor(requests', aliases', coming', loading')
      BY <2>1, <2>2, <2>3 DEF IsPlaceFor
    <2> QED BY <2>1, <2>2, <2>4 DEF PlaceInv, ApartInv, OriginInv, ComingInv
  <1>9. CASE RecordPageEvent \/ UNCHANGED healingVars
    BY <1>9, PlaceKept DEF RecordPageEvent, healingVars
  <1>10. CASE StopRecording \/ StartReplay \/ StopReplay
    BY <1>10 DEF StopRecording, StartReplay, StopReplay
  <1>11. CASE InjectLoad \/ InjectHistory \/ InjectPageEvent
    BY <1>11 DEF InjectLoad, InjectHistory, InjectPageEvent, Injecting
  <1> QED BY <1>1, <1>2, <1>3, <1>4, <1>5, <1>6, <1>7, <1>8, <1>9, <1>10, <1>11 DEF HealingNext

LEMMA StepLocations ==
  HealingTypeOK /\ PlaceInv /\ LocationsAreOfTheirPages /\ [HealingNext]_healingVars
    => LocationsAreOfTheirPages'
  <1> SUFFICES ASSUME HealingTypeOK, PlaceInv, LocationsAreOfTheirPages, [HealingNext]_healingVars
               PROVE  LocationsAreOfTheirPages'
    OBVIOUS
  <1>1. ASSUME NEW e, events' = Append(events, e),
               e.kind = "page" /\ e.doubt = "none" => e.location = e.origin
        PROVE  LocationsAreOfTheirPages'
    <2>1. \A k \in DOMAIN events' :
            events'[k] = e \/ (k \in DOMAIN events /\ events'[k] = events[k])
      BY <1>1 DEF HealingTypeOK
    <2> QED BY <1>1, <2>1 DEF LocationsAreOfTheirPages
  <1>2. CASE RecordPageEvent
    <2> DEFINE e == PageEvent(createMapLocation, origin, doubt)
    <2>1. doubt = "none" => createMapLocation = origin
      <3>1. SUFFICES ASSUME doubt = "none" PROVE createMapLocation = origin
        OBVIOUS
      <3>2. IsPlaceFor(requests, aliases, origin, url) /\ ChainEnds(url)
        BY <1>2, <3>1 DEF RecordPageEvent, PlaceInv, OriginInv
      <3>3. findPageURLAliasChainRoot(url) = origin[1]
        BY <3>2, RootOfPath, TypeParts DEF IsPlaceFor
      <3>4. sizePageURLRequests(origin[1]) = origin[2]
        BY <3>2 DEF IsPlaceFor, sizePageURLRequests
      <3>5. origin = <<origin[1], origin[2]>>
        BY DEF HealingTypeOK, Locations
      <3> QED BY <3>3, <3>4, <3>5 DEF createMapLocation
    <2>2. e.doubt = doubt /\ e.location = createMapLocation /\ e.origin = origin
      BY DEF PageEvent
    <2>3. events' = Append(events, e)
      BY <1>2 DEF RecordPageEvent
    <2> HIDE DEF e
    <2> QED BY <1>1, <2>1, <2>2, <2>3
  <1>3. ASSUME NEW u \in URLs, NEW same \in BOOLEAN, HistoryNavigation(u, same)
        PROVE  LocationsAreOfTheirPages'
    <2> DEFINE e == [kind |-> "history", url |-> u, same |-> same]
    <2>1. e.kind = "history" /\ (events' = Append(events, e) \/ events' = events)
      BY <1>3 DEF HistoryNavigation
    <2> HIDE DEF e
    <2> QED BY <1>1, <2>1 DEF LocationsAreOfTheirPages
  <1>4. CASE StartRecording
    <2> DEFINE e == PageEvent(<<NoURL, 0>>, <<NoURL, 0>>, "load")
    <2>1. LoadEvent(Blank).kind = "load" /\ LoadEvent(url).kind = "load" /\ e.doubt = "load"
      BY DEF LoadEvent, PageEvent
    <2>2. events' = <<LoadEvent(Blank), e, LoadEvent(url)>>
      BY <1>4 DEF StartRecording
    <2> HIDE DEF e
    <2>3. \A k \in DOMAIN events' : events'[k] \in {LoadEvent(Blank), e, LoadEvent(url)}
      BY <2>2
    <2> QED BY <2>1, <2>3 DEF LocationsAreOfTheirPages
  <1>5. CASE UNCHANGED events
    BY <1>5 DEF LocationsAreOfTheirPages
  <1>6. ASSUME NEW u \in URLs,
               FrameLoad(u) \/ Redirect(u) \/ SameDocumentNavigation(u) \/ FragmentNavigation(u)
        PROVE  UNCHANGED events
    BY <1>6 DEF FrameLoad, Redirect, SameDocumentNavigation, FragmentNavigation
  <1>7. CASE Commit \/ Cancel \/ StopRecording \/ StartReplay \/ StopReplay
    BY <1>5, <1>7 DEF Commit, Cancel, StopRecording, StartReplay, StopReplay, storeVars
  <1>8. CASE InjectLoad \/ InjectHistory \/ InjectPageEvent \/ UNCHANGED healingVars
    BY <1>5, <1>8 DEF InjectLoad, InjectHistory, InjectPageEvent, healingVars, storeVars
  <1> QED BY <1>2, <1>3, <1>4, <1>5, <1>6, <1>7, <1>8 DEF HealingNext
-----------------------------------------------------------------------------
(***************************************************************************)
(* A page that is lost is brought back by the request it came from, once   *)
(* in each replay.                                                         *)
(***************************************************************************)
LEMMA InitLocations == HealingInit => LocationsAreOfTheirPages
  BY DEF HealingInit, LocationsAreOfTheirPages

LEMMA OnceHolds == OnceInv => HealingIsOnce
  BY Zenon DEF OnceInv, Marks, HealingIsOnce

\* An event whose page no doubt attaches to has the place of the request its page came
\* from, over any chain of redirects and changes of the URL; and a replay forces each
\* request at most once, with no flag left over from the replay before.
THEOREM HealingAlwaysSound == HealingSpec => []HealingIsSound
  <1>1. HealingInit => HealingTypeOK /\ OnceInv /\ PlaceInv /\ LocationsAreOfTheirPages
    BY InitType, InitOnce, InitPlace, InitLocations
  <1>2. HealingTypeOK /\ OnceInv /\ PlaceInv /\ LocationsAreOfTheirPages /\ [HealingNext]_healingVars
          => HealingTypeOK' /\ OnceInv' /\ PlaceInv' /\ LocationsAreOfTheirPages'
    BY StepType, StepOnce, StepPlace, StepLocations
  <1>3. OnceInv /\ LocationsAreOfTheirPages => HealingIsSound
    BY OnceHolds DEF HealingIsSound
  <1> QED BY <1>1, <1>2, <1>3, PTL DEF HealingSpec

=============================================================================
