------------------------ MODULE FaithfulReplayProofs ------------------------
(***************************************************************************)
(* A page that makes the requests of a reliable recording in their order   *)
(* is led to the same places and told the same, for any clients, requests  *)
(* and traces, and any number of loads, redirects and chunks.              *)
(*                                                                         *)
(* A load of the recording takes the two maps from the lengths they had to *)
(* those they have: these are its marks.  A replay has its cursors at the  *)
(* marks of as many loads as it has begun, and from there, the maps hold   *)
(* what the next one was told.  That the maps only grow in a recording     *)
(* keeps the marks; that a request is not redirected once and answered     *)
(* another time makes createRedirectEvents stop where the recorded load    *)
(* was answered.                                                           *)
(***************************************************************************)
EXTENDS RequestsProofs

Positions == [Requests -> Nat]

Start == [r \in Requests |-> 0]

Lens(m) == [r \in Requests |-> Len(m[r])]

\* The i-th request of a load of f that was redirected to h, and the one answered.
Visit(f, h, i) == IF i = 1 THEN f ELSE h[i - 1]

Terminal(f, h) == Visit(f, h, Len(h) + 1)

\* From the positions b in the redirect map m, a load of f is redirected to h, which
\* takes the positions to W[Len(h)].
Path(m, W, b, f, h) ==
  /\ W[0] = b
  /\ \A i \in 1..Len(h) :
       /\ W[i - 1][Visit(f, h, i)] + 1 \in DOMAIN m[Visit(f, h, i)]
       /\ m[Visit(f, h, i)][W[i - 1][Visit(f, h, i)] + 1].to = h[i]
       /\ W[i] = [W[i - 1] EXCEPT ![Visit(f, h, i)] = @ + 1]

LedTo(m, b, f, h, e) ==
  \E W \in [0..Len(h) -> Positions] : Path(m, W, b, f, h) /\ W[Len(h)] = e

\* The maps hold the logged load x between the positions a and aa in the requests, and
\* b and bb in the redirects.
Answers(rm, a, aa, l, view) ==
  /\ a[l] + 1 \in DOMAIN rm[l]
  /\ rm[l][a[l] + 1].answer = view.answer
  /\ rm[l][a[l] + 1].chunks = view.chunks
  /\ End(rm[l][a[l] + 1].failed) = view.end
  /\ aa = [a EXCEPT ![l] = @ + 1]

Kept(rm, dm, x, a, aa, b, bb) ==
  /\ Len(x.view.hops) <= MaxHops
  /\ x.sync => x.view.hops = <<>>
  /\ Answers(rm, a, aa, Terminal(x.first, x.view.hops), x.view)
  /\ LedTo(dm, b, x.first, x.view.hops, bb)

Marks(rm, dm, lg, A, B) ==
  /\ A \in [0..Len(lg) -> Positions] /\ B \in [0..Len(lg) -> Positions]
  /\ A[0] = Start /\ B[0] = Start
  /\ \A k \in 1..Len(lg) : Kept(rm, dm, lg[k], A[k - 1], A[k], B[k - 1], B[k])

Ends(rm, dm, lg, a, b) ==
  \E A, B : Marks(rm, dm, lg, A, B) /\ A[Len(lg)] = a /\ B[Len(lg)] = b

PassedBy(f, h, r) == \E i \in 1..Len(h) : Visit(f, h, i) = r

FromLogged(lg, r) == \E k \in 1..Len(lg) : PassedBy(lg[k].first, lg[k].view.hops, r)

\* The maps are those of the logged loads,
Done(rm, dm, lg) ==
  /\ Ends(rm, dm, lg, Lens(rm), Lens(dm))
  /\ \A r \in Requests : dm[r] # <<>> => FromLogged(lg, r)

\* and of a load of f that was redirected to h so far.
Doing(rm, dm, lg, f, h) ==
  /\ Len(h) <= MaxHops
  /\ \E b \in Positions : Ends(rm, dm, lg, Lens(rm), b) /\ LedTo(dm, b, f, h, Lens(dm))
  /\ \A r \in Requests : dm[r] # <<>> => FromLogged(lg, r) \/ PassedBy(f, h, r)

Grown(m, n) ==
  \A r \in Requests : \A i \in DOMAIN m[r] : i \in DOMAIN n[r] /\ n[r][i] = m[r][i]
-----------------------------------------------------------------------------
LEMMA VisitType ==
  ASSUME NEW f \in Requests, NEW h \in Seq(Requests)
  PROVE  /\ \A i \in 1..Len(h) + 1 : Visit(f, h, i) \in Requests
         /\ Terminal(f, h) \in Requests
  <1>1. ASSUME NEW i \in 1..Len(h) + 1 PROVE Visit(f, h, i) \in Requests
    <2>1. i # 1 => i - 1 \in 1..Len(h)
      OBVIOUS
    <2> QED BY <2>1 DEF Visit
  <1>2. Len(h) + 1 \in 1..Len(h) + 1
    OBVIOUS
  <1> QED BY <1>1, <1>2 DEF Terminal

LEMMA VisitsAre ==
  ASSUME NEW x, x.first \in Requests, x.view.hops \in Seq(Requests)
  PROVE  /\ Len(Visits(x)) = Len(x.view.hops) + 1
         /\ \A i \in 1..Len(x.view.hops) + 1 : Visits(x)[i] = Visit(x.first, x.view.hops, i)
         /\ Last(Visits(x)) = Terminal(x.first, x.view.hops)
  <1> DEFINE h == x.view.hops
             f == x.first
  <1> HIDE DEF h, f
  <1>1. h \in Seq(Requests) /\ f \in Requests /\ Visits(x) = <<f>> \o h
    BY DEF h, f, Visits
  <1>2. /\ Len(<<f>> \o h) = Len(h) + 1
        /\ \A i \in 1..Len(h) + 1 : (<<f>> \o h)[i] = IF i = 1 THEN f ELSE h[i - 1]
    BY <1>1
  <1>3. Len(h) + 1 \in 1..Len(h) + 1
    BY <1>1
  <1> QED BY <1>1, <1>2, <1>3 DEF Visit, Terminal, Last, h, f

LEMMA VisitAppended ==
  ASSUME NEW f \in Requests, NEW h \in Seq(Requests), NEW to \in Requests
  PROVE  /\ Len(Append(h, to)) = Len(h) + 1 /\ Append(h, to)[Len(h) + 1] = to
         /\ \A i \in 1..Len(h) : Append(h, to)[i] = h[i]
         /\ \A i \in 1..Len(h) + 1 : Visit(f, Append(h, to), i) = Visit(f, h, i)
  <1>1. /\ Len(Append(h, to)) = Len(h) + 1 /\ Append(h, to)[Len(h) + 1] = to
        /\ \A i \in 1..Len(h) : Append(h, to)[i] = h[i]
    OBVIOUS
  <1>2. \A i \in 1..Len(h) + 1 : i # 1 => i - 1 \in 1..Len(h)
    OBVIOUS
  <1> QED BY <1>1, <1>2 DEF Visit

LEMMA LedToGrown ==
  ASSUME NEW m, NEW n, Grown(m, n), NEW f \in Requests, NEW h \in Seq(Requests), NEW b, NEW e,
         LedTo(m, b, f, h, e)
  PROVE  LedTo(n, b, f, h, e)
  <1>1. PICK W \in [0..Len(h) -> Positions] : Path(m, W, b, f, h) /\ W[Len(h)] = e
    BY DEF LedTo
  <1>2. ASSUME NEW i \in 1..Len(h)
        PROVE  /\ W[i - 1][Visit(f, h, i)] + 1 \in DOMAIN n[Visit(f, h, i)]
               /\ n[Visit(f, h, i)][W[i - 1][Visit(f, h, i)] + 1].to = h[i]
               /\ W[i] = [W[i - 1] EXCEPT ![Visit(f, h, i)] = @ + 1]
    <2>1. Visit(f, h, i) \in Requests
      BY VisitType
    <2> DEFINE v == Visit(f, h, i)
               k == W[i - 1][v] + 1
    <2>2. k \in DOMAIN m[v] /\ m[v][k].to = h[i] /\ W[i] = [W[i - 1] EXCEPT ![v] = @ + 1]
      BY <1>1 DEF Path
    <2> HIDE DEF k, v
    <2>3. k \in DOMAIN n[v] /\ n[v][k] = m[v][k]
      BY <2>1, <2>2 DEF Grown, v
    <2> QED BY <2>2, <2>3 DEF k, v
  <1>3. Path(n, W, b, f, h)
    BY <1>1, <1>2 DEF Path
  <1> QED BY <1>1, <1>3 DEF LedTo

LEMMA LoggedTypes ==
  ASSUME NEW lg \in Seq(Logged), NEW k \in 1..Len(lg)
  PROVE  lg[k] \in Logged /\ lg[k].first \in Requests /\ lg[k].view.hops \in Seq(Requests)
         /\ lg[k].view \in View
  <1>1. lg[k] \in Logged
    OBVIOUS
  <1>2. \A x \in Logged : x.first \in Requests /\ x.view \in View /\ x.view.hops \in Seq(Requests)
    BY DEF Logged, View
  <1> QED BY <1>1, <1>2

LEMMA KeptGrown ==
  ASSUME NEW rm, NEW dm, NEW rn, NEW dn, Grown(rm, rn), Grown(dm, dn), NEW x \in Logged,
         NEW a, NEW aa, NEW b, NEW bb, Kept(rm, dm, x, a, aa, b, bb)
  PROVE  Kept(rn, dn, x, a, aa, b, bb)
  <1>1. x.first \in Requests /\ x.view.hops \in Seq(Requests)
    BY DEF Logged, View
  <1> DEFINE l == Terminal(x.first, x.view.hops)
             k == a[l] + 1
  <1>2. l \in Requests
    BY <1>1, VisitType
  <1>3. /\ k \in DOMAIN rm[l] /\ rm[l][k].answer = x.view.answer /\ rm[l][k].chunks = x.view.chunks
        /\ End(rm[l][k].failed) = x.view.end /\ aa = [a EXCEPT ![l] = @ + 1]
    BY DEF Kept, Answers
  <1>4. LedTo(dn, b, x.first, x.view.hops, bb)
    BY <1>1, LedToGrown DEF Kept
  <1> HIDE DEF k, l
  <1>5. k \in DOMAIN rn[l] /\ rn[l][k] = rm[l][k]
    BY <1>2, <1>3 DEF Grown
  <1>6. Answers(rn, a, aa, l, x.view)
    BY <1>3, <1>5 DEF Answers, k
  <1> QED BY <1>4, <1>6 DEF Kept, l

LEMMA MarksGrown ==
  ASSUME NEW rm, NEW dm, NEW rn, NEW dn, Grown(rm, rn), Grown(dm, dn), NEW lg \in Seq(Logged),
         NEW A, NEW B, Marks(rm, dm, lg, A, B)
  PROVE  Marks(rn, dn, lg, A, B)
  <1>1. ASSUME NEW k \in 1..Len(lg)
        PROVE  Kept(rn, dn, lg[k], A[k - 1], A[k], B[k - 1], B[k])
    <2>1. Kept(rm, dm, lg[k], A[k - 1], A[k], B[k - 1], B[k]) /\ lg[k] \in Logged
      BY DEF Marks
    <2> QED BY <2>1, KeptGrown
  <1> QED BY <1>1 DEF Marks

\* One more load is logged.
LEMMA EndsAppended ==
  ASSUME NEW rm, NEW dm, NEW lg \in Seq(Logged), NEW a, NEW b, Ends(rm, dm, lg, a, b),
         NEW x \in Logged, NEW aa \in Positions, NEW bb \in Positions,
         Kept(rm, dm, x, a, aa, b, bb)
  PROVE  Ends(rm, dm, Append(lg, x), aa, bb)
  <1>1. PICK A, B : Marks(rm, dm, lg, A, B) /\ A[Len(lg)] = a /\ B[Len(lg)] = b
    BY DEF Ends
  <1> DEFINE n == Len(lg)
             g == Append(lg, x)
             AA == [k \in 0..n + 1 |-> IF k <= n THEN A[k] ELSE aa]
             BB == [k \in 0..n + 1 |-> IF k <= n THEN B[k] ELSE bb]
  <1>2. n \in Nat /\ Len(g) = n + 1 /\ g[n + 1] = x /\ \A k \in 1..n : g[k] = lg[k]
    OBVIOUS
  <1>3. /\ A \in [0..n -> Positions] /\ B \in [0..n -> Positions]
        /\ A[0] = Start /\ B[0] = Start
        /\ \A k \in 1..n : Kept(rm, dm, lg[k], A[k - 1], A[k], B[k - 1], B[k])
    BY <1>1 DEF Marks
  <1> HIDE DEF n, g
  <1>4. AA \in [0..n + 1 -> Positions] /\ BB \in [0..n + 1 -> Positions]
    BY <1>2, <1>3
  <1>5. /\ \A k \in 0..n : AA[k] = A[k] /\ BB[k] = B[k]
        /\ AA[n + 1] = aa /\ BB[n + 1] = bb
    BY <1>2
  <1>6. AA[0] = Start /\ BB[0] = Start
    BY <1>2, <1>3, <1>5
  <1> HIDE DEF AA, BB
  <1>7. ASSUME NEW k \in 1..n + 1
        PROVE  Kept(rm, dm, g[k], AA[k - 1], AA[k], BB[k - 1], BB[k])
    <2>1. CASE k = n + 1
      <3>1. k - 1 = n /\ n \in 0..n
        BY <1>2, <2>1
      <3>2. AA[k - 1] = a /\ BB[k - 1] = b /\ AA[k] = aa /\ BB[k] = bb /\ g[k] = x
        BY <1>1, <1>2, <1>5, <2>1, <3>1 DEF n
      <3> QED BY <3>2
    <2>2. CASE k \in 1..n
      <3>1. k - 1 \in 0..n /\ k \in 0..n
        BY <1>2, <2>2
      <3>2. AA[k - 1] = A[k - 1] /\ BB[k - 1] = B[k - 1] /\ AA[k] = A[k] /\ BB[k] = B[k]
            /\ g[k] = lg[k]
        BY <1>2, <1>5, <2>2, <3>1
      <3> QED BY <1>3, <2>2, <3>2
    <2> QED BY <1>2, <2>1, <2>2
  <1>8. Marks(rm, dm, g, AA, BB)
    BY <1>2, <1>4, <1>6, <1>7 DEF Marks
  <1> QED BY <1>2, <1>5, <1>8 DEF Ends, g

LEMMA EndsGrown ==
  ASSUME NEW rm, NEW dm, NEW rn, NEW dn, Grown(rm, rn), Grown(dm, dn), NEW lg \in Seq(Logged),
         NEW a, NEW b, Ends(rm, dm, lg, a, b)
  PROVE  Ends(rn, dn, lg, a, b)
  BY MarksGrown DEF Ends

\* The map n is m with e appended to what it has for l.
Longer(m, n, l, e) ==
  /\ Grown(m, n)
  /\ \A r \in Requests \ {l} : n[r] = m[r]
  /\ Lens(m)[l] + 1 \in DOMAIN n[l] /\ n[l][Lens(m)[l] + 1] = e
  /\ Lens(n) = [Lens(m) EXCEPT ![l] = @ + 1]
  /\ Lens(m) \in Positions /\ Lens(n) \in Positions

LEMMA AppendGrows ==
  ASSUME NEW S, NEW m \in [Requests -> Seq(S)], NEW l \in Requests, NEW e \in S,
         NEW n, n = [m EXCEPT ![l] = Append(m[l], e)]
  PROVE  Longer(m, n, l, e)
  <1>1. m[l] \in Seq(S) /\ n[l] = Append(m[l], e) /\ \A r \in Requests \ {l} : n[r] = m[r]
    OBVIOUS
  <1>2. /\ Len(n[l]) = Len(m[l]) + 1 /\ n[l][Len(m[l]) + 1] = e
        /\ \A i \in 1..Len(m[l]) : n[l][i] = m[l][i]
        /\ DOMAIN m[l] = 1..Len(m[l]) /\ DOMAIN n[l] = 1..Len(m[l]) + 1 /\ Len(m[l]) \in Nat
    BY <1>1
  <1>3. Grown(m, n)
    <2> SUFFICES ASSUME NEW r \in Requests, NEW i \in DOMAIN m[r]
                 PROVE  i \in DOMAIN n[r] /\ n[r][i] = m[r][i]
      BY DEF Grown
    <2>1. CASE r = l
      <3>1. i \in 1..Len(m[l]) /\ i \in 1..Len(m[l]) + 1
        BY <1>2, <2>1
      <3> QED BY <1>2, <2>1, <3>1
    <2> QED BY <1>1, <2>1
  <1>4. n \in [Requests -> Seq(S)]
    BY <1>1
  <1>5. \A r \in Requests : Len(m[r]) \in Nat /\ Len(n[r]) \in Nat
    BY <1>4
  <1>6. Lens(m) \in Positions /\ Lens(n) \in Positions /\ Lens(m)[l] = Len(m[l])
    BY <1>5 DEF Lens, Positions
  <1>7. Lens(n) = [Lens(m) EXCEPT ![l] = @ + 1]
    BY <1>1, <1>2 DEF Lens
  <1>8. Len(m[l]) + 1 \in DOMAIN n[l]
    BY <1>2
  <1> QED BY <1>1, <1>2, <1>3, <1>6, <1>7, <1>8 DEF Longer
-----------------------------------------------------------------------------
(***************************************************************************)
(* The recording, one callback after the other.                            *)
(***************************************************************************)
LEMMA DoneNothing ==
  ASSUME NEW rm, NEW dm, rm = [r \in Requests |-> <<>>], dm = [r \in Requests |-> <<>>]
  PROVE  Done(rm, dm, <<>>)
  <1>1. Lens(rm) = Start /\ Lens(dm) = Start /\ Start \in Positions
    BY DEF Lens, Start, Positions
  <1> DEFINE A == [k \in 0..0 |-> Start]
  <1>2. /\ A \in [0..0 -> Positions] /\ A[0] = Start /\ Len(<<>>) = 0 /\ 1..0 = {}
    BY <1>1
  <1> HIDE DEF A
  <1>3. Marks(rm, dm, <<>>, A, A)
    BY <1>2 DEF Marks
  <1>4. Ends(rm, dm, <<>>, Start, Start)
    BY <1>2, <1>3 DEF Ends
  <1>5. \A r \in Requests : dm[r] = <<>>
    OBVIOUS
  <1> QED BY <1>1, <1>4, <1>5 DEF Done

LEMMA DoingBegun ==
  ASSUME NEW rm, NEW dm \in [Requests -> Seq(Redirect)], NEW lg, Done(rm, dm, lg), NEW f
  PROVE  Doing(rm, dm, lg, f, <<>>)
  <1>1. Lens(dm) \in Positions
    BY DEF Lens, Positions
  <1> DEFINE W == [i \in 0..0 |-> Lens(dm)]
  <1>2. W \in [0..0 -> Positions] /\ W[0] = Lens(dm) /\ Len(<<>>) = 0 /\ 1..0 = {}
    BY <1>1
  <1> HIDE DEF W
  <1>3. Path(dm, W, Lens(dm), f, <<>>)
    BY <1>2 DEF Path
  <1>4. LedTo(dm, Lens(dm), f, <<>>, Lens(dm))
    BY <1>2, <1>3 DEF LedTo
  <1>5. Len(<<>>) <= MaxHops
    BY RequestsAssumption
  <1> QED BY <1>1, <1>4, <1>5 DEF Done, Doing

\* addPendingRedirect
LEMMA DoingRedirected ==
  ASSUME NEW rm, NEW dm \in [Requests -> Seq(Redirect)], NEW lg \in Seq(Logged),
         NEW f \in Requests, NEW h \in Seq(Requests), Doing(rm, dm, lg, f, h), Len(h) < MaxHops,
         NEW e \in Redirect, NEW dn, dn = [dm EXCEPT ![Terminal(f, h)] = Append(@, e)]
  PROVE  Doing(rm, dn, lg, f, Append(h, e.to))
  <1> DEFINE l == Terminal(f, h)
             n == Len(h)
             g == Append(h, e.to)
             top == Lens(dn)
  <1>1. l \in Requests /\ e.to \in Requests /\ n \in Nat
    BY VisitType DEF Redirect
  <1>2. /\ Grown(dm, dn) /\ \A r \in Requests \ {l} : dn[r] = dm[r]
        /\ Lens(dm)[l] + 1 \in DOMAIN dn[l] /\ dn[l][Lens(dm)[l] + 1] = e
        /\ Lens(dn) = [Lens(dm) EXCEPT ![l] = @ + 1]
        /\ Lens(dm) \in Positions /\ Lens(dn) \in Positions
    <2>1. dn = [dm EXCEPT ![l] = Append(dm[l], e)]
      OBVIOUS
    <2> HIDE DEF l
    <2>2. Longer(dm, dn, l, e)
      BY <1>1, <2>1, AppendGrows
    <2> QED BY <2>2 DEF Longer
  <1>3. /\ Len(g) = n + 1 /\ g[n + 1] = e.to
        /\ \A i \in 1..n : g[i] = h[i]
        /\ \A i \in 1..n + 1 : Visit(f, g, i) = Visit(f, h, i)
    BY <1>1, VisitAppended
  <1>4. PICK b \in Positions : Ends(rm, dm, lg, Lens(rm), b) /\ LedTo(dm, b, f, h, Lens(dm))
    BY DEF Doing
  <1>5. Ends(rm, dn, lg, Lens(rm), b)
    <2>1. Grown(rm, rm)
      BY DEF Grown
    <2> QED BY <1>2, <1>4, <2>1, EndsGrown
  <1>6. LedTo(dn, b, f, h, Lens(dm))
    BY <1>2, <1>4, LedToGrown
  <1>7. PICK W \in [0..n -> Positions] : Path(dn, W, b, f, h) /\ W[n] = Lens(dm)
    BY <1>6 DEF LedTo
  <1> DEFINE V == [i \in 0..n + 1 |-> IF i <= n THEN W[i] ELSE top]
  <1>8. /\ V \in [0..n + 1 -> Positions] /\ V[n + 1] = top
        /\ \A i \in 0..n : V[i] = W[i]
    BY <1>1, <1>2
  <1> HIDE DEF V, top, n
  <1>9. ASSUME NEW i \in 1..n + 1
        PROVE  /\ V[i - 1][Visit(f, g, i)] + 1 \in DOMAIN dn[Visit(f, g, i)]
               /\ dn[Visit(f, g, i)][V[i - 1][Visit(f, g, i)] + 1].to = g[i]
               /\ V[i] = [V[i - 1] EXCEPT ![Visit(f, g, i)] = @ + 1]
    <2>1. CASE i = n + 1
      <3>1. i - 1 = n /\ n \in 0..n /\ V[i - 1] = Lens(dm) /\ V[i] = top
        BY <1>1, <1>7, <1>8, <2>1
      <3>2. Visit(f, g, i) = l /\ g[i] = e.to
        BY <1>1, <1>3, <2>1 DEF Terminal, n
      <3> HIDE DEF l, g
      <3>3. /\ Lens(dm)[l] + 1 \in DOMAIN dn[l]
            /\ dn[l][Lens(dm)[l] + 1].to = e.to
            /\ Lens(dn) = [Lens(dm) EXCEPT ![l] = @ + 1]
        BY <1>2
      <3> QED BY <3>1, <3>2, <3>3 DEF top
    <2>2. CASE i \in 1..n
      <3>1. i - 1 \in 0..n /\ i \in 0..n
        BY <1>1, <2>2
      <3>2. V[i - 1] = W[i - 1] /\ V[i] = W[i] /\ g[i] = h[i] /\ Visit(f, g, i) = Visit(f, h, i)
        BY <1>3, <1>8, <2>2, <3>1 DEF n
      <3> QED BY <1>7, <2>2, <3>2 DEF Path, n
    <2>3. i = n + 1 \/ i \in 1..n
      BY <1>1
    <2> QED BY <2>1, <2>2, <2>3
  <1>10. V[0] = b
    BY <1>1, <1>7, <1>8 DEF Path
  <1>11. Path(dn, V, b, f, g)
    <2> HIDE DEF g
    <2> QED BY <1>3, <1>9, <1>10 DEF Path, n
  <1>12. LedTo(dn, b, f, g, Lens(dn))
    BY <1>3, <1>8, <1>11 DEF LedTo, top, n
  <1>13. ASSUME NEW r \in Requests, dn[r] # <<>>
         PROVE  FromLogged(lg, r) \/ PassedBy(f, g, r)
    <2>1. CASE r = l
      <3>1. n + 1 \in 1..Len(g) /\ Visit(f, g, n + 1) = l
        BY <1>1, <1>3 DEF Terminal, n
      <3> QED BY <2>1, <3>1 DEF PassedBy
    <2>2. CASE r # l
      <3>1. dm[r] # <<>>
        BY <1>2, <1>13, <2>2
      <3>2. FromLogged(lg, r) \/ PassedBy(f, h, r)
        BY <3>1 DEF Doing
      <3>3. PassedBy(f, h, r) => PassedBy(f, g, r)
        <4> SUFFICES ASSUME NEW i \in 1..n, Visit(f, h, i) = r PROVE PassedBy(f, g, r)
          BY DEF PassedBy, n
        <4>1. i \in 1..n + 1 /\ i \in 1..Len(g)
          BY <1>1, <1>3 DEF n
        <4> QED BY <1>3, <4>1 DEF PassedBy, n
      <3> QED BY <3>2, <3>3
    <2> QED BY <2>1, <2>2
  <1>14. Len(g) <= MaxHops
    BY <1>1, <1>3, RequestsAssumption DEF n
  <1> QED BY <1>4, <1>5, <1>12, <1>13, <1>14 DEF Doing

\* addFinishedRequest
LEMMA DoneEnded ==
  ASSUME NEW rm \in [Requests -> Seq(Entry)], NEW dm \in [Requests -> Seq(Redirect)],
         NEW lg \in Seq(Logged), NEW x \in Logged,
         Doing(rm, dm, lg, x.first, x.view.hops), x.sync => x.view.hops = <<>>,
         NEW e \in Entry, e.answer = x.view.answer, e.chunks = x.view.chunks,
         End(e.failed) = x.view.end,
         NEW rn, rn = [rm EXCEPT ![Terminal(x.first, x.view.hops)] = Append(@, e)]
  PROVE  Done(rn, dm, Append(lg, x))
  <1> DEFINE f == x.first
             h == x.view.hops
             l == Terminal(f, h)
             g == Append(lg, x)
  <1>1. f \in Requests /\ h \in Seq(Requests)
    BY DEF Logged, View
  <1>2. l \in Requests
    BY <1>1, VisitType
  <1>3. /\ Grown(rm, rn)
        /\ Lens(rm)[l] + 1 \in DOMAIN rn[l] /\ rn[l][Lens(rm)[l] + 1] = e
        /\ Lens(rn) = [Lens(rm) EXCEPT ![l] = @ + 1]
        /\ Lens(rm) \in Positions /\ Lens(rn) \in Positions
    <2>1. rn = [rm EXCEPT ![l] = Append(rm[l], e)]
      OBVIOUS
    <2> HIDE DEF l
    <2>2. Longer(rm, rn, l, e)
      BY <1>2, <2>1, AppendGrows
    <2> QED BY <2>2 DEF Longer
  <1>4. PICK b \in Positions : Ends(rm, dm, lg, Lens(rm), b) /\ LedTo(dm, b, f, h, Lens(dm))
    BY DEF Doing
  <1>5. Ends(rn, dm, lg, Lens(rm), b)
    <2>1. Grown(dm, dm)
      BY DEF Grown
    <2> QED BY <1>3, <1>4, <2>1, EndsGrown
  <1>6. Lens(dm) \in Positions
    BY DEF Lens, Positions
  <1>7. Answers(rn, Lens(rm), Lens(rn), l, x.view)
    <2> HIDE DEF l
    <2> QED BY <1>3 DEF Answers
  <1>8. Kept(rn, dm, x, Lens(rm), Lens(rn), b, Lens(dm))
    BY <1>4, <1>7 DEF Kept, Doing
  <1>9. Ends(rn, dm, g, Lens(rn), Lens(dm))
    BY <1>3, <1>5, <1>6, <1>8, EndsAppended
  <1>10. ASSUME NEW r \in Requests, dm[r] # <<>> PROVE FromLogged(g, r)
    <2>1. FromLogged(lg, r) \/ PassedBy(f, h, r)
      BY <1>10 DEF Doing
    <2>2. /\ Len(g) = Len(lg) + 1 /\ g[Len(lg) + 1] = x
          /\ \A k \in 1..Len(lg) : g[k] = lg[k] /\ k \in 1..Len(lg) + 1
      OBVIOUS
    <2>3. Len(lg) + 1 \in 1..Len(lg) + 1
      OBVIOUS
    <2> HIDE DEF g
    <2> QED BY <2>1, <2>2, <2>3 DEF FromLogged
  <1> QED BY <1>9, <1>10 DEF Done
-----------------------------------------------------------------------------
(***************************************************************************)
(* The inductive invariant.                                                *)
(***************************************************************************)
\* A reliable recording: the maps are those of its loads, of which at most one is under
\* way; unless one was cancelled or failed to be recorded, and then it will not be.
RecordingInv ==
  mode = "recording" /\ reliable =>
    /\ Len(log) <= started
    /\ Len(log) = started => Done(requestMap, redirectMap, log)
    /\ \A c \in DOMAIN load : Counted(c) =>
         /\ Len(log) < started
         /\ \A d \in DOMAIN load : Counted(d) => d = c
         /\ Len(log) + 1 = started =>
              Doing(requestMap, redirectMap, log, load[c].first, load[c].view.hops)

RecordedInv ==
  mode # "recording" /\ reliable =>
    /\ Consistent
    /\ \E A, B : Marks(requestMap, redirectMap, log, A, B)
    /\ \A r \in Requests : redirectMap[r] # <<>> => FromLogged(log, r)

\* A replay that follows the recording is where the recording was after as many loads.
FollowingInv ==
  mode = "replaying" /\ following =>
    /\ reliable /\ started <= Len(log)
    /\ \E A, B : /\ Marks(requestMap, redirectMap, log, A, B)
                 /\ requestAt = A[started] /\ redirectAt = B[started]

\* What a client knows is part of what the recorded client was told.
Agrees(v, was) ==
  /\ IsPrefix(v.hops, was.hops)
  /\ v.answer \in {None, was.answer}
  /\ v.chunks \in {0, was.chunks}
  /\ v.end \in {"finish", "fail"} => v.end = was.end /\ v.hops = was.hops

\* And p leads it to the rest.
Leads(v, p, was) ==
  /\ \A i \in DOMAIN p :
       /\ p[i].what = "redirect" <=> Len(v.hops) + i <= Len(was.hops)
       /\ p[i].what = "redirect" => p[i].to = was.hops[Len(v.hops) + i]
       /\ p[i].what = "response" => p[i].answer = was.answer
       /\ p[i].what = "data" => p[i].chunks = was.chunks /\ v.chunks = 0
       /\ p[i].what \in {"finish", "fail"} => p[i].what = was.end
  /\ \A i, j \in DOMAIN p : p[i].what = "data" /\ p[j].what = "data" => i = j

Alike(x, was) ==
  /\ Agrees(x.view, was)
  /\ x.posted # "" => x.posted # "missing" /\ Leads(x.view, x.plan, was)

AlikeInv ==
  /\ \A c \in DOMAIN load : load[c].via = "wire" => load[c].like = 0
  /\ mode = "replaying" => \A c \in DOMAIN load : load[c].token = token /\ load[c].like > 0 =>
       load[c].like \in DOMAIN log /\ Alike(load[c], log[load[c].like].view)

FaithInv == RecordingInv /\ RecordedInv /\ FollowingInv /\ AlikeInv
-----------------------------------------------------------------------------
(***************************************************************************)
(* The steps of a recording.                                               *)
(***************************************************************************)
\* A load of a recording that ends or goes on, but is not redirected or stored.
LEMMA StaysRecording ==
  ASSUME RecordingInv, NEW c \in DOMAIN load, NEW x, load' = [load EXCEPT ![c] = x],
         UNCHANGED <<mode, token, requestMap, redirectMap, log, reliable, started>>,
         x.first = load[c].first, x.via = load[c].via, x.token = load[c].token,
         x.via = "wire" /\ x.view.end = "" =>
           load[c].view.end = "" /\ x.view.hops = load[c].view.hops
  PROVE  RecordingInv'
  <1>1. ASSUME NEW d \in DOMAIN load', Counted(d)'
        PROVE  /\ d \in DOMAIN load /\ Counted(d)
               /\ load'[d].first = load[d].first /\ load'[d].view.hops = load[d].view.hops
    BY <1>1 DEF Counted, OnWire, Open
  <1> SUFFICES ASSUME mode = "recording", reliable
               PROVE  /\ Len(log) <= started
                      /\ Len(log) = started => Done(requestMap, redirectMap, log)
                      /\ \A d \in DOMAIN load' : Counted(d)' =>
                           /\ Len(log) < started
                           /\ \A e \in DOMAIN load' : Counted(e)' => e = d
                           /\ Len(log) + 1 = started =>
                                Doing(requestMap, redirectMap, log, load'[d].first, load'[d].view.hops)
    BY DEF RecordingInv
  <1>2. ASSUME NEW d \in DOMAIN load', Counted(d)'
        PROVE  /\ Len(log) < started
               /\ \A e \in DOMAIN load' : Counted(e)' => e = d
               /\ Len(log) + 1 = started =>
                    Doing(requestMap, redirectMap, log, load'[d].first, load'[d].view.hops)
    BY <1>1, <1>2 DEF RecordingInv
  <1> QED BY <1>2 DEF RecordingInv

\* What a replay relies on stays.
LEMMA StaysRecorded ==
  ASSUME UNCHANGED mode, RecordedInv,
         mode # "recording" => UNCHANGED <<requestMap, redirectMap, log, reliable>>
  PROVE  RecordedInv'
  BY DEF RecordedInv, Consistent, Visits

LEMMA StaysFollowing ==
  ASSUME FollowingInv, mode = "replaying" =>
           UNCHANGED <<requestMap, redirectMap, requestAt, redirectAt, log, reliable, following, started>>,
         UNCHANGED mode
  PROVE  FollowingInv'
  BY DEF FollowingInv

LEMMA StaysAlike ==
  ASSUME AlikeInv, NEW c \in DOMAIN load, NEW x, load' = [load EXCEPT ![c] = x],
         UNCHANGED <<mode, token>>, mode = "replaying" => UNCHANGED log,
         x.via = load[c].via, x.token = load[c].token, x.like = load[c].like,
         mode = "replaying" /\ load[c].token = token /\ load[c].like > 0 =>
           Alike(x, log[load[c].like].view)
  PROVE  AlikeInv'
  <1>1. ASSUME NEW d \in DOMAIN load'
        PROVE  /\ d \in DOMAIN load
               /\ load'[d].via = load[d].via /\ load'[d].token = load[d].token
               /\ load'[d].like = load[d].like
               /\ d # c => load'[d] = load[d]
               /\ d = c => load'[d] = x
    OBVIOUS
  <1>2. ASSUME NEW d \in DOMAIN load', mode = "replaying", load'[d].token = token, load'[d].like > 0
        PROVE  load'[d].like \in DOMAIN log /\ Alike(load'[d], log[load'[d].like].view)
    BY <1>1, <1>2 DEF AlikeInv
  <1> QED BY <1>1, <1>2 DEF AlikeInv

LEMMA ModeFaith ==
  ASSUME TypeOK, ServedInv, FaithInv, Mode
  PROVE  FaithInv'
  <1>1. token \in Nat /\ token' = token + 1
    BY DEF TypeOK, Mode, StartRecording, StopRecording, StartReplay, StopReplay,
           Session!StartRecording, Session!StopRecording, Session!StartReplay,
           Session!StopReplay
  <1>2. /\ DOMAIN load' = DOMAIN load
        /\ \A c \in DOMAIN load : /\ load'[c].via = load[c].via /\ load'[c].like = load[c].like
                                  /\ load'[c].token = load[c].token
    <2>1. ASSUME NEW c \in DOMAIN load
          PROVE  /\ Cancelled(load[c]).via = load[c].via /\ Cancelled(load[c]).like = load[c].like
                 /\ Cancelled(load[c]).token = load[c].token
      <3>1. load[c] \in Load
        BY DEF TypeOK
      <3> QED BY <3>1 DEF Cancelled, Load
    <2> QED BY <2>1 DEF Mode, StartRecording, StopRecording, StartReplay, StopReplay, ReloadPage
  <1>3. \A c \in DOMAIN load : load[c].token # token'
    <2> SUFFICES ASSUME NEW c \in DOMAIN load PROVE load[c].token # token'
      OBVIOUS
    <2>1. load[c].token <= token /\ load[c].token \in Nat
      BY DEF ServedInv, TokensGiven, TypeOK, Load
    <2> QED BY <1>1, <2>1
  <1>4. AlikeInv'
    BY <1>2, <1>3 DEF FaithInv, AlikeInv
  <1>5. CASE StartRecording
    <2>1. /\ mode' = "recording" /\ log' = <<>> /\ started' = 0
          /\ requestMap' = [r \in Requests |-> <<>>] /\ redirectMap' = [r \in Requests |-> <<>>]
      BY <1>5 DEF StartRecording, BeginLog, Session!StartRecording
    <2>2. Done(requestMap', redirectMap', <<>>)
      BY <2>1, DoneNothing
    <2>3. \A c \in DOMAIN load' : ~Counted(c)'
      BY <1>2, <1>3 DEF Counted
    <2>4. RecordingInv'
      BY <2>1, <2>2, <2>3 DEF RecordingInv
    <2> QED BY <1>4, <2>1, <2>4 DEF FaithInv, RecordedInv, FollowingInv
  <1>6. CASE StopRecording
    <2>1. /\ mode = "recording" /\ mode' = "idle" /\ UNCHANGED <<requestMap, redirectMap>>
          /\ reliable' => reliable /\ Len(log) = started /\ Consistent /\ log' = log
      BY <1>6 DEF StopRecording, EndLog, Session!StopRecording, mapVars
    <2>2. RecordedInv'
      <3> SUFFICES ASSUME reliable' PROVE RecordedInv'
        BY DEF RecordedInv
      <3>1. Done(requestMap, redirectMap, log) /\ Consistent' /\ UNCHANGED log
        BY <2>1 DEF FaithInv, RecordingInv, Consistent, Visits
      <3>2. \E A, B : Marks(requestMap, redirectMap, log, A, B)
        BY <3>1 DEF Done, Ends
      <3> QED BY <2>1, <3>1, <3>2 DEF RecordedInv, Done
    <2> QED BY <1>4, <2>1, <2>2 DEF FaithInv, RecordingInv, FollowingInv
  <1>7. CASE StartReplay
    <2>1. /\ mode = "idle" /\ mode' = "replaying"
          /\ UNCHANGED <<requestMap, redirectMap, log, reliable>>
          /\ requestAt' = Start /\ redirectAt' = Start /\ started' = 0 /\ following' = reliable
      BY <1>7 DEF StartReplay, Session!StartReplay, mapVars, Start
    <2>2. RecordedInv'
      BY <2>1 DEF FaithInv, RecordedInv, Consistent, Visits
    <2>3. FollowingInv'
      <3> SUFFICES ASSUME reliable PROVE FollowingInv'
        BY <2>1 DEF FollowingInv
      <3>1. PICK A, B : Marks(requestMap, redirectMap, log, A, B)
        BY <2>1 DEF FaithInv, RecordedInv
      <3>2. A[0] = Start /\ B[0] = Start
        BY <3>1 DEF Marks
      <3>3. 0 <= Len(log)
        BY DEF TypeOK
      <3> QED BY <2>1, <3>1, <3>2, <3>3 DEF FollowingInv
    <2> QED BY <1>4, <2>1, <2>2, <2>3 DEF FaithInv, RecordingInv
  <1>8. CASE StopReplay
    <2>1. /\ mode = "replaying" /\ mode' = "idle"
          /\ UNCHANGED <<requestMap, redirectMap, log, reliable>>
      BY <1>8 DEF StopReplay, Session!StopReplay, mapVars, historyVars
    <2>2. RecordedInv'
      BY <2>1 DEF FaithInv, RecordedInv, Consistent, Visits
    <2> QED BY <1>4, <2>1, <2>2 DEF FaithInv, RecordingInv, FollowingInv
  <1> QED BY <1>5, <1>6, <1>7, <1>8 DEF Mode

LEMMA LoadKeeps ==
  ASSUME NEW x \in Load
  PROVE  /\ \A item : /\ Told(x, item).first = x.first /\ Told(x, item).like = x.like
                      /\ Told(x, item).sync = x.sync
         /\ Cancelled(x).first = x.first /\ Cancelled(x).like = x.like
         /\ \A i : Without(x, i).first = x.first /\ Without(x, i).like = x.like
  BY DEF Told, Cancelled, Without, Load

LEMMA WillSendFaith ==
  ASSUME TypeOK, PendingInv, ServedInv, RecordingInv, mode = "recording", reliable,
         NEW c \in DOMAIN load, NEW r \in Requests, WillSendRequest(c, r)
  PROVE  RecordingInv'
  <1> DEFINE item == [what |-> "redirect", to |-> r]
             x == Told(load[c], item)
             f == load[c].first
             h == load[c].view.hops
             e == [trace |-> pending[c].trace, to |-> r]
  <1>1. load[c] \in Load /\ f \in Requests /\ h \in Seq(Requests) /\ load[c].view \in View
    BY DEF TypeOK, Load, View
  <1>2. /\ Known(c) /\ OnWire(c) /\ load' = [load EXCEPT ![c] = x] /\ Len(h) < MaxHops
        /\ redirectMap' = [redirectMap EXCEPT ![pending[c].request] = Append(@, e)]
        /\ UNCHANGED <<mode, token, requestMap, log, reliable, started>>
    BY DEF WillSendRequest, Unrecorded, Tells, AddPendingRedirect, sessionVars, historyVars
  <1>3. Counted(c)
    BY <1>2 DEF ServedInv, KnownIsCounted
  <1>4. pending[c].request = Terminal(f, h) /\ pending[c] \in Pending
    <2>1. pending[c].request = Last(Visits(load[c]))
      BY <1>2, <1>3 DEF PendingInv, PendingIsWhatWasTold, Counted
    <2>2. pending[c] \in Pending
      BY <1>2 DEF TypeOK, Known
    <2> QED BY <1>1, <2>1, <2>2, VisitsAre
  <1>5. e \in Redirect /\ e.to = r
    BY <1>4 DEF Pending, Redirect
  <1>6. x.first = f /\ x.view.hops = Append(h, r)
    <2>1. x.view = Tell(load[c].view, item) /\ x.first = f
      BY <1>1, LoadStays, LoadKeeps
    <2>2. Tell(load[c].view, item).hops = Append(h, r)
      BY <1>1 DEF Tell, View
    <2> QED BY <2>1, <2>2
  <1> HIDE DEF x, e, item
  <1>7. /\ Len(log) < started /\ Len(log) <= started /\ Len(log) # started
        /\ \A d \in DOMAIN load : Counted(d) => d = c
        /\ Len(log) + 1 = started => Doing(requestMap, redirectMap, log, f, h)
    <2>1. /\ Len(log) < started
          /\ \A d \in DOMAIN load : Counted(d) => d = c
          /\ Len(log) + 1 = started => Doing(requestMap, redirectMap, log, f, h)
      BY <1>3 DEF RecordingInv
    <2>2. Len(log) \in Nat /\ started \in Nat
      BY DEF TypeOK
    <2> QED BY <2>1, <2>2
  <1>8. Len(log) + 1 = started => Doing(requestMap, redirectMap', log, f, Append(h, r))
    <2> SUFFICES ASSUME Len(log) + 1 = started
                 PROVE  Doing(requestMap, redirectMap', log, f, Append(h, r))
      OBVIOUS
    <2>1. redirectMap \in [Requests -> Seq(Redirect)] /\ log \in Seq(Logged)
      BY DEF TypeOK
    <2>2. redirectMap' = [redirectMap EXCEPT ![Terminal(f, h)] = Append(@, e)]
      BY <1>2, <1>4
    <2>3. Doing(requestMap, redirectMap, log, f, h)
      BY <1>7
    <2> HIDE DEF f, h
    <2> DEFINE dn == redirectMap'
    <2>4. dn = [redirectMap EXCEPT ![Terminal(f, h)] = Append(@, e)]
      BY <2>2
    <2> HIDE DEF dn
    <2>5. Doing(requestMap, dn, log, f, Append(h, e.to))
      BY <1>1, <1>2, <1>5, <2>1, <2>3, <2>4, DoingRedirected DEF f, h
    <2> QED BY <1>5, <2>5 DEF dn
  <1>9. ASSUME NEW d \in DOMAIN load', Counted(d)'
        PROVE  d = c /\ load'[d] = x
    <2>1. d \in DOMAIN load /\ (d # c => Counted(d))
      BY <1>2, <1>9 DEF Counted, OnWire, Open
    <2> QED BY <1>2, <1>7, <2>1
  <1> QED BY <1>2, <1>6, <1>7, <1>8, <1>9 DEF RecordingInv

LEMMA DidEndFaith ==
  ASSUME TypeOK, PendingInv, ServedInv, ProtocolInv, RecordingInv, mode = "recording", reliable,
         NEW c \in DOMAIN load, NEW failed \in BOOLEAN, DidEnd(c, failed)
  PROVE  RecordingInv'
  <1> DEFINE item == [what |-> End(failed)]
             x == Told(load[c], item)
             f == load[c].first
             h == load[c].view.hops
             p == pending[c]
             e == [trace |-> p.trace, answer |-> p.answer, chunks |-> p.chunks, failed |-> failed]
             was == [first |-> x.first, sync |-> x.sync, view |-> x.view]
  <1>1. load[c] \in Load /\ f \in Requests /\ h \in Seq(Requests) /\ load[c].view \in View
    BY DEF TypeOK, Load, View
  <1>2. /\ Known(c) /\ OnWire(c) /\ load' = [load EXCEPT ![c] = x]
        /\ Added(p.request, e) /\ log' = Append(log, was) /\ log \in Seq(Logged)
        /\ UNCHANGED <<mode, token, redirectMap, reliable, started>>
    <2>1. /\ Known(c) /\ OnWire(c) /\ load' = [load EXCEPT ![c] = x]
          /\ PendingRequestEnded(c, failed) /\ LogEnd(load'[c])
          /\ UNCHANGED <<mode, token, started>>
      BY DEF DidEnd, Unrecorded, Tells, sessionVars
    <2>2. load'[c] = x
      BY <2>1
    <2> QED BY <2>1, <2>2 DEF PendingRequestEnded, LogEnd, TypeOK
  <1>3. Counted(c)
    BY <1>2 DEF ServedInv, KnownIsCounted
  <1>4. /\ p.request = Terminal(f, h) /\ p \in Pending
        /\ p.answer = load[c].view.answer /\ p.chunks = load[c].view.chunks
    <2>1. /\ p.request = Last(Visits(load[c]))
          /\ p.answer = load[c].view.answer /\ p.chunks = load[c].view.chunks
      BY <1>2, <1>3 DEF PendingInv, PendingIsWhatWasTold, Counted
    <2>2. p \in Pending
      BY <1>2 DEF TypeOK, Known
    <2> QED BY <1>1, <2>1, <2>2, VisitsAre
  <1>5. /\ e \in Entry /\ e.answer = load[c].view.answer /\ e.chunks = load[c].view.chunks
        /\ e.failed = failed
    <2> HIDE DEF p
    <2> QED BY <1>4 DEF Pending, Entry
  <1>6. /\ was \in Logged /\ was.first = f /\ was.view.hops = h /\ was.sync = FALSE
        /\ was.view.answer = load[c].view.answer /\ was.view.chunks = load[c].view.chunks
        /\ was.view.end = End(failed) /\ x.view.end # ""
    <2>1. x.view = Tell(load[c].view, item) /\ x.first = f /\ x.sync = load[c].sync
      BY <1>1, LoadStays, LoadKeeps
    <2>2. load[c].sync = FALSE
      <3>1. load[c].sync \in BOOLEAN
        BY <1>1 DEF Load
      <3> QED BY <1>2, <3>1 DEF ProtocolInv, Fits, OnWire, Open
    <2> DEFINE w == Tell(load[c].view, item)
    <2>3. /\ w.hops = h /\ w.answer = load[c].view.answer /\ w.chunks = load[c].view.chunks
          /\ w.end = End(failed) /\ End(failed) # "" /\ w \in View
      BY <1>1 DEF Tell, View, End
    <2> HIDE DEF w, x
    <2>4. was = [first |-> f, sync |-> FALSE, view |-> w]
      BY <2>1, <2>2 DEF w
    <2> HIDE DEF was
    <2>5. was \in Logged
      BY <1>1, <2>3, <2>4 DEF Logged
    <2> QED BY <2>1, <2>3, <2>4, <2>5 DEF w
  <1> HIDE DEF x, e, was, item, p
  <1>7. /\ Len(log) < started /\ \A d \in DOMAIN load : Counted(d) => d = c
        /\ Len(log) + 1 = started => Doing(requestMap, redirectMap, log, f, h)
    BY <1>3 DEF RecordingInv
  <1>8. Len(log') = Len(log) + 1 /\ Len(log') <= started
    <2>1. Len(log) \in Nat /\ started \in Nat /\ Len(Append(log, was)) = Len(log) + 1
      BY <1>2 DEF TypeOK
    <2> QED BY <1>2, <1>7, <2>1
  <1>9. Len(log') = started => Done(requestMap', redirectMap, log')
    <2> SUFFICES ASSUME Len(log) + 1 = started PROVE Done(requestMap', redirectMap, log')
      BY <1>8
    <2> DEFINE rn == requestMap'
    <2>1. /\ redirectMap \in [Requests -> Seq(Redirect)]
          /\ requestMap \in [Requests -> Seq(Entry)]
      BY DEF TypeOK
    <2>2. Doing(requestMap, redirectMap, log, was.first, was.view.hops)
      BY <1>6, <1>7
    <2>3. rn = [requestMap EXCEPT ![Terminal(was.first, was.view.hops)] = Append(@, e)]
      BY <1>2, <1>4, <1>6 DEF Added
    <2>4. was.sync => was.view.hops = <<>>
      BY <1>6
    <2>5. e.answer = was.view.answer /\ e.chunks = was.view.chunks /\ End(e.failed) = was.view.end
      BY <1>5, <1>6
    <2> HIDE DEF rn, f, h
    <2>6. Done(rn, redirectMap, Append(log, was))
      BY <1>2, <1>5, <1>6, <2>1, <2>2, <2>3, <2>4, <2>5, DoneEnded
    <2> QED BY <1>2, <2>6 DEF rn
  <1>10. ASSUME NEW d \in DOMAIN load', Counted(d)' PROVE FALSE
    <2>1. d \in DOMAIN load /\ (d # c => Counted(d))
      BY <1>2, <1>10 DEF Counted, OnWire, Open
    <2>2. d = c => load'[d] = x
      BY <1>2
    <2> QED BY <1>6, <1>7, <1>10, <2>1, <2>2 DEF Counted, OnWire, Open
  <1> QED BY <1>2, <1>8, <1>9, <1>10 DEF RecordingInv

LEMMA NetworkFaith ==
  ASSUME TypeOK, PendingInv, ServedInv, ProtocolInv, FaithInv, NEW c \in DOMAIN load, Network(c)
  PROVE  FaithInv'
  <1>1. load[c] \in Load /\ OnWire(c) /\ load[c].view \in View
    BY DEF TypeOK, Network, WillSendRequest, DidReceiveResponse, DidReceiveData, DidEnd, Load
  <1>2. /\ UNCHANGED <<mode, token, requestAt, redirectAt, started, reliable, following>>
        /\ mode # "recording" => UNCHANGED <<requestMap, redirectMap, log>>
    BY DEF Network, WillSendRequest, DidReceiveResponse, DidReceiveData, DidEnd, sessionVars,
           cursorVars, historyVars, LogEnd, Unrecorded, mapVars
  <1>3. PICK item : /\ Tells(c, item)
                    /\ item.what \in {"redirect", "response", "data", "finish", "fail"}
    <2>1. CASE \E r \in Requests : WillSendRequest(c, r)
      BY <2>1 DEF WillSendRequest
    <2>2. CASE DidReceiveResponse(c)
      BY <2>2 DEF DidReceiveResponse
    <2>3. CASE DidReceiveData(c)
      BY <2>3 DEF DidReceiveData
    <2>4. CASE \E failed \in BOOLEAN : DidEnd(c, failed)
      BY <2>4 DEF DidEnd, End
    <2> QED BY <2>1, <2>2, <2>3, <2>4 DEF Network
  <1> DEFINE x == Told(load[c], item)
  <1>4. /\ load' = [load EXCEPT ![c] = x] /\ x.first = load[c].first /\ x.via = load[c].via
        /\ x.token = load[c].token /\ x.like = load[c].like
    BY <1>1, <1>3, LoadStays, LoadKeeps DEF Tells
  <1> HIDE DEF x
  <1>5. RecordedInv'
    BY <1>2, StaysRecorded DEF FaithInv
  <1>6. FollowingInv'
    BY <1>2, StaysFollowing DEF FaithInv
  <1>7. AlikeInv'
    <2>1. ~(load[c].like > 0)
      BY <1>1 DEF FaithInv, AlikeInv, OnWire
    <2>2. mode = "replaying" => UNCHANGED log
      BY <1>2
    <2> QED BY <1>2, <1>4, <2>1, <2>2, StaysAlike DEF FaithInv
  <1>8. RecordingInv'
    <2> SUFFICES ASSUME mode = "recording", reliable PROVE RecordingInv'
      BY <1>2 DEF RecordingInv
    <2>1. ASSUME NEW r \in Requests, WillSendRequest(c, r) PROVE RecordingInv'
      BY <2>1, WillSendFaith DEF FaithInv
    <2>2. ASSUME NEW failed \in BOOLEAN, DidEnd(c, failed) PROVE RecordingInv'
      BY <2>2, DidEndFaith DEF FaithInv
    <2>3. ASSUME NEW it, it.what \in {"response", "data"}, Tells(c, it),
                 UNCHANGED <<requestMap, redirectMap, log>>
          PROVE  RecordingInv'
      <3> DEFINE y == Told(load[c], it)
      <3>1. /\ load' = [load EXCEPT ![c] = y] /\ y.first = load[c].first /\ y.via = load[c].via
            /\ y.token = load[c].token /\ y.view = Tell(load[c].view, it)
        BY <1>1, <2>3, LoadStays, LoadKeeps DEF Tells
      <3>2. Tell(load[c].view, it).hops = load[c].view.hops /\ load[c].view.end = ""
        BY <1>1, <2>3 DEF Tell, View, OnWire, Open
      <3> HIDE DEF y
      <3> QED BY <1>2, <2>3, <3>1, <3>2, StaysRecording DEF FaithInv
    <2>4. CASE DidReceiveResponse(c)
      <3>1. Tells(c, [what |-> "response", answer |-> load[c].number])
            /\ UNCHANGED <<requestMap, redirectMap, log>>
        BY <2>4 DEF DidReceiveResponse, Unrecorded, mapVars, historyVars
      <3> QED BY <2>3, <3>1
    <2>5. CASE DidReceiveData(c)
      <3>1. Tells(c, [what |-> "data", chunks |-> 1])
            /\ UNCHANGED <<requestMap, redirectMap, log>>
        BY <2>5 DEF DidReceiveData, Unrecorded, mapVars, historyVars
      <3> QED BY <2>3, <3>1
    <2> QED BY <2>1, <2>2, <2>4, <2>5 DEF Network
  <1> QED BY <1>5, <1>6, <1>7, <1>8 DEF FaithInv

LEMMA LoadRecordingFaith ==
  ASSUME TypeOK, FaithInv, NEW c \in Clients, NEW r \in Requests, NEW trace \in Trace,
         LoadRecording(c, r, trace)
  PROVE  FaithInv'
  <1> DEFINE x == NewLoad(r, "wire", FALSE, 0)
  <1>1. /\ mode = "recording" /\ Begin(c, x)
        /\ UNCHANGED <<mode, token, requestMap, redirectMap>>
        /\ reliable' => reliable /\ log' = log /\ \A d \in DOMAIN load : ~Open(d)
    BY DEF LoadRecording, LogBegin, sessionVars, mapVars
  <1>2. x.first = r /\ x.view.hops = <<>> /\ x.via = "wire" /\ x.like = 0
    BY DEF NewLoad, Fresh
  <1> HIDE DEF x
  <1>3. /\ DOMAIN load' = DOMAIN load \cup {c} /\ load'[c] = x
        /\ \A d \in DOMAIN load \ {c} : load'[d] = load[d]
        /\ started' = started + 1
    BY <1>1, BegunLoads
  <1>4. RecordingInv'
    <2> SUFFICES ASSUME reliable' PROVE RecordingInv'
      BY DEF RecordingInv
    <2>1. \A d \in DOMAIN load' : Counted(d)' => d = c
      BY <1>1, <1>3 DEF Counted, OnWire, Open
    <2>2. Len(log) <= started /\ Len(log) \in Nat /\ started \in Nat
      BY <1>1 DEF FaithInv, RecordingInv, TypeOK
    <2>3. /\ Len(log) < started + 1 /\ Len(log) <= started + 1 /\ Len(log) # started + 1
          /\ Len(log) + 1 = started + 1 => Len(log) = started
      BY <2>2
    <2>4. Len(log) = started => Doing(requestMap, redirectMap, log, r, <<>>)
      <3> SUFFICES ASSUME Len(log) = started PROVE Doing(requestMap, redirectMap, log, r, <<>>)
        OBVIOUS
      <3>1. Done(requestMap, redirectMap, log) /\ redirectMap \in [Requests -> Seq(Redirect)]
        BY <1>1 DEF FaithInv, RecordingInv, TypeOK
      <3> QED BY <3>1, DoingBegun
    <2> QED BY <1>1, <1>2, <1>3, <2>1, <2>3, <2>4 DEF RecordingInv
  <1>5. RecordedInv' /\ FollowingInv'
    BY <1>1 DEF RecordedInv, FollowingInv
  <1>6. AlikeInv'
    BY <1>1, <1>2, <1>3 DEF FaithInv, AlikeInv
  <1> QED BY <1>4, <1>5, <1>6 DEF FaithInv

LEMMA SyncRecordingFaith ==
  ASSUME TypeOK, FaithInv, NEW c \in Clients, NEW r \in Requests, NEW trace \in Trace,
         SyncRecording(c, r, trace)
  PROVE  FaithInv'
  <1> DEFINE new == NewLoad(r, "wire", TRUE, 0)
             ee(chunks, failed) ==
               [trace |-> trace, answer |-> started + 1, chunks |-> chunks, failed |-> failed]
             xx(chunks, failed) == Answered(new, ee(chunks, failed))
  <1>1. /\ mode = "recording" /\ ~Open(c) /\ started < MaxLoads
        /\ UNCHANGED <<mode, token, redirectMap>>
    BY DEF SyncRecording, MayLoad, sessionVars
  <1>2. PICK chunks \in 0..MaxChunks, failed \in BOOLEAN :
          /\ Added(r, ee(chunks, failed)) /\ Begin(c, xx(chunks, failed))
          /\ reliable' => (\A d \in DOMAIN load : ~Open(d)) /\ LogEnd(xx(chunks, failed))
    BY DEF SyncRecording
  <1> DEFINE e == ee(chunks, failed)
             x == xx(chunks, failed)
             was == [first |-> x.first, sync |-> x.sync, view |-> x.view]
  <1>3. /\ e \in Entry /\ e.answer = started + 1 /\ e.chunks = chunks /\ e.failed = failed
        /\ started + 1 \in Answer /\ chunks \in Nat
    <2>1. started + 1 \in Answer /\ chunks \in Nat
      BY <1>1, RequestsAssumption DEF TypeOK, Answer
    <2> QED BY <2>1 DEF Entry
  <1>4. /\ x.first = r /\ x.sync = TRUE /\ x.via = "wire" /\ x.like = 0
        /\ x.view = [hops |-> <<>>, answer |-> started + 1, chunks |-> chunks, end |-> End(failed)]
    BY DEF NewLoad, Answered
  <1> HIDE DEF x, xx
  <1>5. x.view \in View /\ x.view.end # ""
    <2>1. End(failed) # "" /\ End(failed) \in {"", "finish", "fail", "cancel"}
      BY DEF End
    <2>2. <<>> \in Seq(Requests)
      OBVIOUS
    <2> DEFINE v == x.view
               end == End(failed)
               a == started + 1
    <2>3. v = [hops |-> <<>>, answer |-> a, chunks |-> chunks, end |-> end]
      BY <1>4
    <2>4. a \in Answer /\ chunks \in Nat
      BY <1>3
    <2> HIDE DEF v, end, a
    <2>5. v \in View /\ v.end = end
      BY <2>1, <2>2, <2>3, <2>4 DEF View, end
    <2> QED BY <2>1, <2>5 DEF v, end
  <1>6. was \in Logged /\ was.first = r /\ was.view = x.view /\ was.sync = TRUE
    BY <1>4, <1>5 DEF Logged
  <1>7. Begin(c, x) /\ (reliable' => (\A d \in DOMAIN load : ~Open(d)) /\ LogEnd(x))
    BY <1>2 DEF x
  <1>8. /\ DOMAIN load' = DOMAIN load \cup {c} /\ load'[c] = x
        /\ \A d \in DOMAIN load \ {c} : load'[d] = load[d]
        /\ started' = started + 1
    BY <1>7, BegunLoads
  <1>9. RecordingInv'
    <2> SUFFICES ASSUME reliable' PROVE RecordingInv'
      BY DEF RecordingInv
    <2>1. reliable /\ log' = Append(log, was) /\ \A d \in DOMAIN load : ~Open(d)
      BY <1>7 DEF LogEnd
    <2>2. \A d \in DOMAIN load' : ~Counted(d)'
      BY <1>4, <1>5, <1>8, <2>1 DEF Counted, OnWire, Open
    <2> HIDE DEF was, e, ee
    <2>3. /\ Len(log) <= started /\ Len(log) \in Nat /\ started \in Nat /\ log \in Seq(Logged)
          /\ Len(log') = Len(log) + 1
      BY <1>1, <2>1 DEF FaithInv, RecordingInv, TypeOK
    <2>4. Len(log') <= started' /\ (Len(log') = started' => Len(log) = started)
      BY <1>8, <2>3
    <2>5. Len(log) = started => Done(requestMap', redirectMap', log')
      <3> SUFFICES ASSUME Len(log) = started PROVE Done(requestMap', redirectMap, Append(log, was))
        BY <1>1, <2>1
      <3>1. /\ Done(requestMap, redirectMap, log) /\ redirectMap \in [Requests -> Seq(Redirect)]
            /\ requestMap \in [Requests -> Seq(Entry)]
        BY <1>1, <2>1 DEF FaithInv, RecordingInv, TypeOK
      <3>2. was.first = r /\ was.view.hops = <<>>
        BY <1>4, <1>6
      <3>3. Doing(requestMap, redirectMap, log, was.first, was.view.hops)
        BY <3>1, <3>2, DoingBegun
      <3>4. Terminal(was.first, was.view.hops) = r
        <4>1. Len(<<>>) + 1 = 1
          OBVIOUS
        <4> QED BY <3>2, <4>1 DEF Terminal, Visit
      <3> DEFINE rn == requestMap'
      <3>5. rn = [requestMap EXCEPT ![Terminal(was.first, was.view.hops)] = Append(@, e)]
        BY <1>2, <3>4 DEF Added, e
      <3>6. e.answer = was.view.answer /\ e.chunks = was.view.chunks /\ End(e.failed) = was.view.end
        BY <1>3, <1>4, <1>6
      <3> HIDE DEF rn
      <3>7. Done(rn, redirectMap, Append(log, was))
        BY <1>3, <1>6, <2>3, <3>1, <3>2, <3>3, <3>5, <3>6, DoneEnded
      <3> QED BY <3>7 DEF rn
    <2> QED BY <2>2, <2>4, <2>5 DEF RecordingInv
  <1>10. RecordedInv' /\ FollowingInv'
    BY <1>1 DEF RecordedInv, FollowingInv
  <1>11. AlikeInv'
    BY <1>1, <1>4, <1>8 DEF FaithInv, AlikeInv
  <1> QED BY <1>9, <1>10, <1>11 DEF FaithInv
-----------------------------------------------------------------------------
(***************************************************************************)
(* The steps of a replay.                                                  *)
(***************************************************************************)
LEMMA PrefixGrows ==
  ASSUME NEW S, NEW s \in Seq(S), NEW t \in Seq(S), IsPrefix(s, t)
  PROVE  /\ Len(s) <= Len(t)
         /\ Len(t) <= Len(s) => s = t
         /\ Len(s) < Len(t) => IsPrefix(Append(s, t[Len(s) + 1]), t)
  <1>1. Len(s) <= Len(t) /\ SubSeq(s, 1, Len(s)) = SubSeq(t, 1, Len(s))
    BY DEF IsPrefix
  <1>2. SubSeq(s, 1, Len(s)) = s /\ SubSeq(t, 1, Len(t)) = t
    OBVIOUS
  <1>3. Len(t) <= Len(s) => s = t
    <2> SUFFICES ASSUME Len(t) <= Len(s) PROVE s = t
      OBVIOUS
    <2>1. Len(s) = Len(t)
      BY <1>1
    <2> QED BY <1>1, <1>2, <2>1
  <1>4. ASSUME Len(s) < Len(t) PROVE IsPrefix(Append(s, t[Len(s) + 1]), t)
    <2> DEFINE n == Len(s)
               u == Append(s, t[n + 1])
               v == SubSeq(t, 1, n + 1)
    <2>1. n \in Nat /\ n + 1 <= Len(t) /\ n + 1 \in 1..Len(t) /\ t[n + 1] \in S
      BY <1>4
    <2>2. u \in Seq(S) /\ Len(u) = n + 1 /\ u[n + 1] = t[n + 1] /\ \A i \in 1..n : u[i] = s[i]
      BY <2>1
    <2>3. v \in Seq(S) /\ Len(v) = n + 1 /\ \A i \in 1..n + 1 : v[i] = t[i]
      BY <2>1
    <2>4. \A i \in 1..n : s[i] = t[i]
      <3>1. \A i \in 1..n : SubSeq(t, 1, n)[i] = t[i]
        BY <2>1
      <3> QED BY <1>1, <1>2, <3>1
    <2> HIDE DEF u, v
    <2>5. \A i \in 1..n + 1 : u[i] = v[i]
      <3>1. \A i \in 1..n + 1 : i \in 1..n \/ i = n + 1
        BY <2>1
      <3>2. n + 1 \in 1..n + 1
        BY <2>1
      <3> QED BY <2>2, <2>3, <2>4, <3>1, <3>2
    <2>6. u = v
      BY <2>2, <2>3, <2>5
    <2>7. SubSeq(u, 1, Len(u)) = u
      BY <2>2
    <2> QED BY <2>1, <2>2, <2>6, <2>7 DEF IsPrefix, u, v
  <1> QED BY <1>1, <1>3, <1>4

LEMMA BelowIndex == ASSUME NEW i \in Nat, i >= 1, i # 1 PROVE 1 \in 1..i - 1
  OBVIOUS

LEMMA Onwards ==
  ASSUME NEW n \in Nat, NEW m \in Nat
  PROVE  /\ n + 1 <= m \/ m <= n
         /\ n + 1 <= m => n < m
         /\ \A k \in Nat : (n + 1) + k = n + (k + 1)
         /\ m <= n => \A k \in Nat : k >= 1 => ~(n + k <= m)
         /\ n + 1 = m + 1 => n = m
         /\ 0 + n = n
  OBVIOUS

\* Whichever of the events that are due is told next, the others lead on.
LEMMA LeadsOn ==
  ASSUME NEW v \in View, NEW was \in View, NEW p \in Seq(Item), NEW i \in DOMAIN p,
         Begun(v), Due(p, i), Agrees(v, was), Leads(v, p, was)
  PROVE  /\ Agrees(Tell(v, p[i]), was)
         /\ p[i].what \notin {"finish", "fail"} => Leads(Tell(v, p[i]), RemoveAt(p, i), was)
  <1> DEFINE w == Tell(v, p[i])
             s == RemoveAt(p, i)
             n == Len(v.hops)
             m == Len(was.hops)
  <1>1. p[i] \in Item /\ p[i].what \in {"redirect", "response", "data", "finish", "fail"}
    BY DEF Item
  <1>2. /\ v.hops \in Seq(Requests) /\ was.hops \in Seq(Requests) /\ v.chunks \in Nat
        /\ was.chunks \in Nat /\ v.end = "" /\ IsPrefix(v.hops, was.hops)
        /\ v.answer \in {None, was.answer} /\ v.chunks \in {0, was.chunks}
        /\ n \in Nat /\ m \in Nat
    <2>1. /\ v.hops \in Seq(Requests) /\ was.hops \in Seq(Requests) /\ v.chunks \in Nat
          /\ was.chunks \in Nat
      BY DEF View
    <2>2. v.end = ""
      BY DEF Begun
    <2>3. /\ IsPrefix(v.hops, was.hops)
          /\ v.answer \in {None, was.answer} /\ v.chunks \in {0, was.chunks}
      BY DEF Agrees
    <2>4. n \in Nat /\ m \in Nat
      BY <2>1
    <2> QED BY <2>1, <2>2, <2>3, <2>4
  <1>0. n \in Nat /\ m \in Nat
    BY <1>2
  <1>3. /\ s \in Seq(Item) /\ Len(s) = Len(p) - 1
        /\ \A k \in DOMAIN s : /\ k < i => k \in DOMAIN p /\ s[k] = p[k]
                               /\ k >= i => k + 1 \in DOMAIN p /\ s[k] = p[k + 1]
    BY RemovedItems DEF Removed
  <1>4. \A j \in DOMAIN p :
          /\ p[j].what = "redirect" <=> n + j <= m
          /\ p[j].what = "redirect" => p[j].to = was.hops[n + j]
          /\ p[j].what = "response" => p[j].answer = was.answer
          /\ p[j].what = "data" => p[j].chunks = was.chunks /\ v.chunks = 0
          /\ p[j].what \in {"finish", "fail"} => p[j].what = was.end
    BY DEF Leads
  <1>5. \A j, k \in DOMAIN p : p[j].what = "data" /\ p[k].what = "data" => j = k
    BY DEF Leads
  <1> HIDE DEF s, n, m
  <1>6. 1 \in DOMAIN p /\ i \in Nat /\ i >= 1
    OBVIOUS
  <1>7. ~Delayed(p[i]) => i = 1
    <2>1. i # 1 => 1 \in 1..i - 1
      OBVIOUS
    <2> QED BY <2>1 DEF Due
  <1>8. p[i].what # "redirect" => m <= n
    <2>1. ASSUME p[i].what # "redirect", n + 1 <= m PROVE FALSE
      <3>1. p[1].what = "redirect"
        BY <1>4, <1>6, <2>1
      <3>2. ~Delayed(p[1])
        BY <3>1 DEF Delayed
      <3>3. i # 1
        BY <2>1, <3>1
      <3>4. 1 \in 1..i - 1
        BY <1>6, <3>3, BelowIndex
      <3> QED BY <3>2, <3>4 DEF Due
    <2>2. n + 1 <= m \/ m <= n
      BY <1>2, Onwards
    <2> QED BY <2>1, <2>2
  <1>9. ASSUME NEW k \in DOMAIN s
        PROVE  \E j \in DOMAIN p : j # i /\ s[k] = p[j]
    <2>1. CASE k < i
      <3>1. k \in DOMAIN p /\ s[k] = p[k] /\ k # i
        BY <1>3, <2>1
      <3> QED BY <3>1
    <2>2. CASE k >= i
      <3>1. k + 1 \in DOMAIN p /\ s[k] = p[k + 1] /\ k + 1 # i
        BY <1>3, <1>6, <2>2
      <3> QED BY <3>1
    <2>3. k \in Nat
      BY <1>3
    <2> QED BY <1>6, <2>1, <2>2, <2>3
  <1>10. CASE p[i].what = "redirect"
    <2>1. i = 1
      BY <1>7, <1>10 DEF Delayed
    <2>2. n + 1 <= m /\ p[i].to = was.hops[n + 1]
      BY <1>4, <1>10, <2>1
    <2>21. n + 1 <= m
      BY <2>2
    <2>22. n + 1 \in 1..m
      BY <1>0, <2>21
    <2>23. was.hops[n + 1] \in Requests
      <3>1. was.hops \in Seq(Requests)
        BY <1>2
      <3> QED BY <2>22, <3>1 DEF m
    <2>3. w = [v EXCEPT !.hops = Append(v.hops, was.hops[n + 1])]
      BY <1>10, <2>2 DEF Tell, View
    <2>4. /\ w.hops = Append(v.hops, was.hops[n + 1]) /\ w.answer = v.answer
          /\ w.chunks = v.chunks /\ w.end = ""
      BY <1>2, <2>3 DEF View
    <2> HIDE DEF w
    <2>5. n < m
      BY <1>0, <2>21, Onwards
    <2>6. IsPrefix(w.hops, was.hops)
      <3>1. /\ v.hops \in Seq(Requests) /\ was.hops \in Seq(Requests)
            /\ IsPrefix(v.hops, was.hops)
        BY <1>2
      <3>2. Len(v.hops) < Len(was.hops)
        BY <2>5 DEF n, m
      <3>3. IsPrefix(Append(v.hops, was.hops[Len(v.hops) + 1]), was.hops)
        BY <3>1, <3>2, PrefixGrows
      <3> QED BY <2>4, <3>3 DEF n
    <2>7. Agrees(w, was)
      BY <1>2, <2>4, <2>6 DEF Agrees
    <2>8. Len(w.hops) = n + 1
      <3>1. v.hops \in Seq(Requests)
        BY <1>2
      <3>2. Len(Append(v.hops, was.hops[n + 1])) = Len(v.hops) + 1
        BY <2>23, <3>1
      <3> QED BY <2>4, <3>2 DEF n
    <2>9. ASSUME NEW k \in DOMAIN s
          PROVE  k + 1 \in DOMAIN p /\ s[k] = p[k + 1] /\ Len(w.hops) + k = n + (k + 1)
      <3>1. k \in Nat /\ k >= i
        BY <1>3, <2>1
      <3>2. (n + 1) + k = n + (k + 1)
        BY <1>2, <3>1, Onwards
      <3> QED BY <1>3, <2>8, <3>1, <3>2
    <2>10. ASSUME NEW k \in DOMAIN s
           PROVE  /\ s[k].what = "redirect" <=> Len(w.hops) + k <= m
                  /\ s[k].what = "redirect" => s[k].to = was.hops[Len(w.hops) + k]
                  /\ s[k].what = "response" => s[k].answer = was.answer
                  /\ s[k].what = "data" => s[k].chunks = was.chunks /\ w.chunks = 0
                  /\ s[k].what \in {"finish", "fail"} => s[k].what = was.end
      BY <1>4, <2>4, <2>9
    <2>11. ASSUME NEW j \in DOMAIN s, NEW k \in DOMAIN s, s[j].what = "data", s[k].what = "data"
           PROVE  j = k
      <3>1. j + 1 = k + 1
        BY <1>5, <2>9, <2>11
      <3>2. j \in Nat /\ k \in Nat
        BY <1>3
      <3> QED BY <3>1, <3>2, Onwards
    <2>12. Leads(w, s, was)
      BY <2>10, <2>11 DEF Leads, m
    <2> QED BY <2>7, <2>12 DEF w, s
  <1>11. ASSUME NEW k \in DOMAIN s, p[i].what # "redirect"
         PROVE  /\ s[k].what # "redirect" /\ ~(n + k <= m)
                /\ s[k].what = "response" => s[k].answer = was.answer
                /\ s[k].what = "data" => s[k].chunks = was.chunks /\ v.chunks = 0 /\ p[i].what # "data"
                /\ s[k].what \in {"finish", "fail"} => s[k].what = was.end
    <2>1. PICK j \in DOMAIN p : j # i /\ s[k] = p[j]
      BY <1>9
    <2>2. ~(n + k <= m) /\ ~(n + j <= m)
      <3>1. k \in Nat /\ k >= 1 /\ j \in Nat /\ j >= 1
        BY <1>3
      <3> QED BY <1>2, <1>8, <1>11, <3>1, Onwards
    <2> QED BY <1>4, <1>5, <2>1, <2>2
  <1>12. CASE p[i].what = "response"
    <2>1. i = 1
      BY <1>7, <1>12 DEF Delayed
    <2>2. w = [v EXCEPT !.answer = was.answer]
      BY <1>4, <1>12 DEF Tell
    <2>3. w.hops = v.hops /\ w.answer = was.answer /\ w.chunks = v.chunks /\ w.end = ""
      BY <1>2, <2>2 DEF View
    <2> HIDE DEF w
    <2>4. Agrees(w, was)
      BY <1>2, <2>3 DEF Agrees
    <2>5. ASSUME NEW j \in DOMAIN s, NEW k \in DOMAIN s, s[j].what = "data", s[k].what = "data"
          PROVE  j = k
      <3>1. j + 1 \in DOMAIN p /\ s[j] = p[j + 1] /\ k + 1 \in DOMAIN p /\ s[k] = p[k + 1]
            /\ j \in Nat /\ k \in Nat
        BY <1>3, <2>1
      <3>2. j + 1 = k + 1
        BY <1>5, <2>5, <3>1
      <3> QED BY <3>1, <3>2
    <2>6. Leads(w, s, was)
      BY <1>11, <1>12, <2>3, <2>5 DEF Leads, n, m
    <2> QED BY <2>4, <2>6 DEF w, s
  <1>13. CASE p[i].what = "data"
    <2>1. p[i].chunks = was.chunks /\ v.chunks = 0
      BY <1>4, <1>13
    <2>2. w = [v EXCEPT !.chunks = v.chunks + p[i].chunks]
      BY <1>13 DEF Tell, View
    <2>3. w.hops = v.hops /\ w.answer = v.answer /\ w.chunks = v.chunks + p[i].chunks /\ w.end = ""
      BY <1>2, <2>2 DEF View
    <2> HIDE DEF w
    <2>4. w.chunks = was.chunks
      <3>1. was.chunks \in Nat
        BY <1>2
      <3>2. 0 + was.chunks = was.chunks
        BY <3>1, Onwards
      <3> QED BY <2>1, <2>3, <3>2
    <2>5. Agrees(w, was)
      BY <1>2, <2>3, <2>4 DEF Agrees
    <2>6. \A k \in DOMAIN s : s[k].what # "data"
      BY <1>11, <1>13
    <2>7. Leads(w, s, was)
      BY <1>11, <1>13, <2>3, <2>6 DEF Leads, n, m
    <2> QED BY <2>5, <2>7 DEF w, s
  <1>14. CASE p[i].what \in {"finish", "fail"}
    <2>1. m <= n
      BY <1>8, <1>14
    <2>2. v.hops = was.hops
      BY <1>2, <2>1, PrefixGrows DEF n, m
    <2>3. w = [v EXCEPT !.end = was.end] /\ p[i].what = was.end
      BY <1>4, <1>14 DEF Tell
    <2>4. w.hops = v.hops /\ w.answer = v.answer /\ w.chunks = v.chunks /\ w.end = was.end
      BY <1>2, <2>3 DEF View
    <2> HIDE DEF w
    <2>5. Agrees(w, was)
      BY <1>2, <2>2, <2>4 DEF Agrees
    <2> QED BY <1>14, <2>5 DEF w
  <1> QED BY <1>1, <1>10, <1>12, <1>13, <1>14

\* What a load is served from the entry that it left in a recording.
LEMMA ServedLeads ==
  ASSUME NEW was \in View, NEW e \in Entry, e.answer = was.answer, e.chunks = was.chunks,
         End(e.failed) = was.end
  PROVE  Agrees(Fresh, was) /\ Leads(Fresh, Redirects(was.hops) \o Served(e), was)
  <1> DEFINE h == was.hops
             rest == Served(e)
             p == Redirects(h) \o rest
  <1>1. h \in Seq(Requests) /\ rest \in Seq(Item)
    BY PlanTypes DEF View
  <1>2. PlanIs(p, h, rest)
    BY <1>1, PlanItems
  <1>3. /\ \A k \in 1..Len(rest) :
             /\ rest[k].what # "redirect"
             /\ rest[k].what = "response" => rest[k].answer = was.answer
             /\ rest[k].what = "data" => rest[k].chunks = was.chunks /\ k = 2
             /\ rest[k].what \in {"finish", "fail"} => rest[k].what = was.end
    <2>1. CASE e.failed
      <3>1. Len(rest) = 1 /\ rest[1].what = "fail"
        <4>1. Len(rest) = 1 /\ rest[1] = [what |-> "fail"]
          BY <2>1, ServedItems
        <4> HIDE DEF rest
        <4> QED BY <4>1
      <3>0. was.end = "fail"
        BY <2>1 DEF End
      <3> HIDE DEF rest
      <3>2. \A k \in 1..1 : k = 1
        OBVIOUS
      <3> QED BY <3>0, <3>1, <3>2
    <2>2. CASE ~e.failed
      <3>0. was.end = "finish"
        BY <2>2 DEF End
      <3>1. /\ rest[1].what = "response" /\ rest[1].answer = was.answer
            /\ \/ Len(rest) = 2 /\ rest[2].what = "finish"
               \/ /\ Len(rest) = 3 /\ rest[2].what = "data" /\ rest[2].chunks = was.chunks
                  /\ rest[3].what = "finish"
        <4>1. /\ rest[1] = [what |-> "response", answer |-> e.answer]
              /\ \/ Len(rest) = 2 /\ rest[2] = [what |-> "finish"]
                 \/ /\ Len(rest) = 3 /\ rest[2] = [what |-> "data", chunks |-> e.chunks]
                    /\ rest[3] = [what |-> "finish"]
          BY <2>2, ServedItems
        <4> HIDE DEF rest
        <4> QED BY <4>1
      <3> HIDE DEF rest
      <3>2. \A k \in 1..2 : k = 1 \/ k = 2
        OBVIOUS
      <3>3. \A k \in 1..3 : k = 1 \/ k = 2 \/ k = 3
        OBVIOUS
      <3> QED BY <3>0, <3>1, <3>2, <3>3
    <2> QED BY <2>1, <2>2
  <1> HIDE DEF p, rest, h
  <1>4. Len(Fresh.hops) = 0 /\ Fresh.chunks = 0
    BY DEF Fresh
  <1>5. ASSUME NEW i \in DOMAIN p
        PROVE  /\ p[i].what = "redirect" <=> Len(Fresh.hops) + i <= Len(h)
               /\ p[i].what = "redirect" => p[i].to = h[Len(Fresh.hops) + i]
               /\ p[i].what = "response" => p[i].answer = was.answer
               /\ p[i].what = "data" => p[i].chunks = was.chunks /\ i = Len(h) + 2
               /\ p[i].what \in {"finish", "fail"} => p[i].what = was.end
    <2>1. Len(Fresh.hops) + i = i /\ i \in Nat /\ Len(h) \in Nat
      BY <1>1, <1>2, <1>4 DEF PlanIs
    <2>2. CASE i \in 1..Len(h)
      <3>1. p[i].what = "redirect" /\ p[i].to = h[i] /\ i <= Len(h)
        BY <1>2, <2>2 DEF PlanIs
      <3> QED BY <2>1, <3>1
    <2>3. CASE i > Len(h) /\ i - Len(h) \in 1..Len(rest) /\ p[i] = rest[i - Len(h)]
      <3>1. ~(i <= Len(h)) /\ (i - Len(h) = 2 => i = Len(h) + 2)
        BY <2>1, <2>3
      <3> QED BY <1>3, <2>1, <2>3, <3>1
    <2> QED BY <1>2, <2>2, <2>3 DEF PlanIs
  <1>6. Leads(Fresh, p, was)
    BY <1>4, <1>5 DEF Leads, h
  <1>7. Agrees(Fresh, was)
    <2>1. IsPrefix(<<>>, h)
      BY <1>1 DEF IsPrefix
    <2> QED BY <2>1 DEF Agrees, Fresh, h
  <1> QED BY <1>6, <1>7 DEF p, h, rest

LEMMA LogTypes ==
  ASSUME TypeOK, NEW k \in DOMAIN log
  PROVE  /\ k \in 1..Len(log) /\ log[k] \in Logged /\ log[k].first \in Requests
         /\ log[k].view \in View /\ log[k].view.hops \in Seq(Requests)
  <1>1. log \in Seq(Logged)
    BY DEF TypeOK
  <1>2. k \in 1..Len(log)
    BY <1>1
  <1> QED BY <1>1, <1>2, LoggedTypes

\* A replayed load goes on.
LEMMA GoesOn ==
  ASSUME TypeOK, FaithInv, NEW c \in DOMAIN load, NEW x, load' = [load EXCEPT ![c] = x],
         UNCHANGED <<mode, token, requestMap, redirectMap, requestAt, redirectAt, log, reliable,
                     following, started>>,
         x.first = load[c].first, x.via = load[c].via, x.token = load[c].token,
         x.like = load[c].like,
         x.via = "wire" => x.view.end # "",
         ASSUME mode = "replaying", load[c].token = token, NEW was \in View, Alike(load[c], was)
         PROVE  Alike(x, was)
  PROVE  FaithInv'
  <1>1. RecordingInv'
    BY StaysRecording DEF FaithInv
  <1>2. RecordedInv' /\ FollowingInv'
    BY StaysRecorded, StaysFollowing DEF FaithInv
  <1>3. ASSUME mode = "replaying", load[c].token = token, load[c].like > 0
        PROVE  Alike(x, log[load[c].like].view)
    <2>1. load[c].like \in DOMAIN log /\ Alike(load[c], log[load[c].like].view)
      BY <1>3 DEF FaithInv, AlikeInv
    <2>2. log[load[c].like].view \in View
      BY <2>1, LogTypes
    <2> QED BY <1>3, <2>1, <2>2
  <1>4. AlikeInv'
    BY <1>3, StaysAlike DEF FaithInv
  <1> QED BY <1>1, <1>2, <1>4 DEF FaithInv

LEMMA CancelFaith ==
  ASSUME TypeOK, PendingInv, FaithInv, NEW c \in DOMAIN load, Cancel(c)
  PROVE  FaithInv'
  <1> DEFINE y == load[c]
             x == Cancelled(y)
  <1>1. y \in Load /\ y.view \in View
    BY DEF TypeOK, Load
  <1>2. /\ load' = [load EXCEPT ![c] = x]
        /\ UNCHANGED <<mode, token, requestMap, redirectMap, requestAt, redirectAt, log, reliable,
                       following, started>>
    BY DEF Cancel, sessionVars, mapVars, cursorVars, historyVars
  <1>3. /\ x.first = y.first /\ x.via = y.via /\ x.token = y.token /\ x.like = y.like
        /\ x.posted = "" /\ x.view.end = "cancel" /\ x.view.hops = y.view.hops
        /\ x.view.answer = y.view.answer /\ x.view.chunks = y.view.chunks
    BY <1>1 DEF Cancelled, Load, View
  <1> HIDE DEF x, y
  <1>4. ASSUME NEW was, Alike(y, was) PROVE Alike(x, was)
    BY <1>3, <1>4 DEF Alike, Agrees
  <1> QED BY <1>2, <1>3, <1>4, GoesOn DEF y

LEMMA RunPairInjectFaith ==
  ASSUME TypeOK, PendingInv, ProtocolInv, FaithInv, NEW c \in DOMAIN load, NEW i,
         RunPairInject(c, i)
  PROVE  FaithInv'
  <1> DEFINE y == load[c]
             item == y.plan[i]
             z == Without(y, i)
             x == Told(z, item)
  <1>1. /\ y \in Load /\ y.view \in View /\ y.plan \in Seq(Item) /\ i \in DOMAIN y.plan
        /\ y.posted = "pairs" /\ Fits(y, mode, token)
    BY DEF TypeOK, ProtocolInv, RunPairInject, Fires, Load
  <1>2. /\ load' = [load EXCEPT ![c] = x]
        /\ UNCHANGED <<mode, token, requestMap, redirectMap, requestAt, redirectAt, log, reliable,
                       following, started>>
    BY DEF RunPairInject, loopUnchanged, sessionVars, mapVars, cursorVars, historyVars
  <1>3. Begun(y.view) /\ Due(y.plan, i)
    BY <1>1 DEF Fits, Begun, RunPairInject, Fires, Due
  <1>4. y.via # "wire"
    BY <1>1 DEF PendingInv, Wire
  <1>5. /\ z.first = y.first /\ z.via = y.via /\ z.token = y.token /\ z.like = y.like
        /\ z.view = y.view /\ z.plan = RemoveAt(y.plan, i) /\ z.posted = "pairs"
    BY <1>1 DEF Without, Load
  <1>6. z \in Load
    BY <1>1, WithoutType
  <1> HIDE DEF z
  <1>7. /\ x.first = z.first /\ x.via = z.via /\ x.token = z.token /\ x.like = z.like
        /\ x.view = Tell(z.view, item)
        /\ item.what \in {"finish", "fail"} => x.posted = ""
        /\ item.what \notin {"finish", "fail"} => x.posted = z.posted /\ x.plan = z.plan
    BY <1>6 DEF Told, Load
  <1> HIDE DEF x
  <1>8. ASSUME NEW was \in View, Alike(y, was) PROVE Alike(x, was)
    <2>1. Agrees(y.view, was) /\ Leads(y.view, y.plan, was)
      BY <1>1, <1>8 DEF Alike
    <2>2. /\ Agrees(Tell(y.view, y.plan[i]), was)
          /\ y.plan[i].what \notin {"finish", "fail"} =>
               Leads(Tell(y.view, y.plan[i]), RemoveAt(y.plan, i), was)
      BY <1>1, <1>3, <2>1, LeadsOn
    <2> QED BY <1>5, <1>7, <2>2 DEF Alike
  <1> HIDE DEF y
  <1> QED BY <1>2, <1>4, <1>5, <1>7, <1>8, GoesOn DEF y

LEMMA MessageLoopFaith ==
  ASSUME TypeOK, PendingInv, ProtocolInv, FaithInv, NEW c \in DOMAIN load, MessageLoop(c)
  PROVE  FaithInv'
  <1> DEFINE y == load[c]
  <1>1. y \in Load /\ Fits(y, mode, token) /\ (y.posted # "" => y.via # "wire")
    BY DEF TypeOK, ProtocolInv, PendingInv, Wire
  <1>2. y.token \in Nat /\ y.id \in Nat /\ token \in Nat
    BY <1>1 DEF Load, TypeOK
  <1>3. /\ UNCHANGED <<mode, token, requestMap, redirectMap, requestAt, redirectAt, log, reliable,
                       following, started>>
    BY DEF MessageLoop, RunTask, RunMissing, RunPairInject, RunPairCancel, loopUnchanged,
           sessionVars, mapVars, cursorVars, historyVars
  <1>4. CASE RunTask(c)
    <2> DEFINE x == [y EXCEPT !.posted = "pairs", !.id = token]
    <2>1. load' = [load EXCEPT ![c] = x] /\ y.posted = "task"
      BY <1>4 DEF RunTask
    <2>2. /\ x.first = y.first /\ x.via = y.via /\ x.token = y.token /\ x.like = y.like
          /\ x.view = y.view /\ x.plan = y.plan /\ x.posted = "pairs"
      BY <1>1 DEF Load
    <2> HIDE DEF x, y
    <2>3. ASSUME NEW was, Alike(y, was) PROVE Alike(x, was)
      BY <2>1, <2>2, <2>3 DEF Alike
    <2> QED BY <1>1, <1>3, <2>1, <2>2, <2>3, GoesOn DEF y
  <1>5. CASE RunMissing(c)
    <2> DEFINE told(v) == [y EXCEPT !.view = v, !.plan = <<>>, !.posted = ""]
    <2>1. y.posted = "missing"
      BY <1>5 DEF RunMissing
    <2>2. PICK n \in DOMAIN y.plan :
            \/ load' = [load EXCEPT ![c] = told(Telling(y.view, y.plan)[n])]
            \/ load' = [load EXCEPT ![c] = Cancelled(told(Telling(y.view, y.plan)[n]))]
      BY <1>5 DEF RunMissing
    <2> DEFINE v == Telling(y.view, y.plan)[n]
    <2>3. /\ told(v).first = y.first /\ told(v).via = y.via /\ told(v).token = y.token
          /\ told(v).like = y.like /\ Cancelled(told(v)).first = y.first
          /\ Cancelled(told(v)).via = y.via /\ Cancelled(told(v)).token = y.token
          /\ Cancelled(told(v)).like = y.like
      BY <1>1 DEF Cancelled, Load
    <2>4. PICK x : /\ load' = [load EXCEPT ![c] = x]
                   /\ x.first = y.first /\ x.via = y.via /\ x.token = y.token /\ x.like = y.like
      <3> HIDE DEF told
      <3> QED BY <2>2, <2>3
    <2> HIDE DEF y
    <2>5. ASSUME NEW was, Alike(y, was) PROVE FALSE
      BY <2>1, <2>5 DEF Alike
    <2> QED BY <1>1, <1>3, <2>1, <2>4, <2>5, GoesOn DEF y
  <1>6. ASSUME NEW i, RunPairCancel(c, i) PROVE FaithInv'
    <2> DEFINE x == Without(y, i)
    <2>1. /\ load' = [load EXCEPT ![c] = x] /\ y.posted = "pairs"
          /\ ~(mode = "replaying" /\ token = y.id)
      BY <1>6 DEF RunPairCancel, Fires, Replaying
    <2>2. x.first = y.first /\ x.via = y.via /\ x.token = y.token /\ x.like = y.like
      BY <1>1 DEF Without, Load
    <2> HIDE DEF x, y
    <2>3. y.token <= y.id /\ y.id <= token
      BY <1>1, <2>1 DEF Fits
    <2>4. y.token = token => y.id = token
      BY <1>2, <2>3
    <2> QED BY <1>1, <1>3, <2>1, <2>2, <2>4, GoesOn DEF y
  <1> QED BY <1>4, <1>5, <1>6, RunPairInjectFaith DEF MessageLoop
-----------------------------------------------------------------------------
LEMMA Products == \A k, n \in Nat : k >= 1 => k * n >= n
  <1>1. \A n \in Nat : 0 * n = 0
    OBVIOUS
  <1>2. \A k, n \in Nat : (k + 1) * n = k * n + n
    OBVIOUS
  <1>3. \A k, n \in Nat : k * n \in Nat
    OBVIOUS
  <1> SUFFICES ASSUME NEW k \in Nat, NEW n \in Nat, k >= 1 PROVE k * n >= n
    OBVIOUS
  <1>4. k - 1 \in Nat /\ (k - 1) + 1 = k
    OBVIOUS
  <1>5. k * n = (k - 1) * n + n /\ (k - 1) * n \in Nat
    BY <1>2, <1>3, <1>4
  <1> QED BY <1>5

LEMMA SubSeqGrows ==
  ASSUME NEW S, NEW h \in Seq(S), NEW n \in 0..Len(h), n < Len(h)
  PROVE  SubSeq(h, 1, n + 1) = Append(SubSeq(h, 1, n), h[n + 1])
  <1> DEFINE a == SubSeq(h, 1, n)
             b == SubSeq(h, 1, n + 1)
             d == Append(a, h[n + 1])
  <1>1. n + 1 \in 1..Len(h) /\ h[n + 1] \in S /\ n \in Nat
    OBVIOUS
  <1>2. a \in Seq(S) /\ Len(a) = n /\ \A i \in 1..n : a[i] = h[i]
    BY <1>1
  <1>3. b \in Seq(S) /\ Len(b) = n + 1 /\ \A i \in 1..n + 1 : b[i] = h[i]
    BY <1>1
  <1> HIDE DEF a, b
  <1>4. d \in Seq(S) /\ Len(d) = n + 1 /\ d[n + 1] = h[n + 1] /\ \A i \in 1..n : d[i] = a[i]
    BY <1>1, <1>2
  <1>5. \A i \in 1..n + 1 : i \in 1..n \/ i = n + 1
    BY <1>1
  <1> HIDE DEF d
  <1>6. \A i \in 1..n + 1 : b[i] = d[i]
    BY <1>2, <1>3, <1>4, <1>5
  <1>7. b = d
    BY <1>3, <1>4, <1>6
  <1> QED BY <1>7 DEF a, b, d

\* createRedirectEvents goes the way that the recorded load went.
LEMMA ChainFollows ==
  ASSUME TypeOK, started < MaxLoads, NEW f \in Requests, NEW h \in Seq(Requests), NEW e,
         LedTo(redirectMap, redirectAt, f, h, e), Len(h) <= MaxHops,
         redirectMap[Terminal(f, h)] = <<>>
  PROVE  Chain(f).request = Terminal(f, h) /\ Chain(f).at = e /\ Chain(f).hops = h
  <1> DEFINE L == Len(h)
  <1>1. PICK W \in [0..L -> Positions] : Path(redirectMap, W, redirectAt, f, h) /\ W[L] = e
    BY DEF LedTo
  <1>2. PICK g \in [0..Bound -> Chains] :
           /\ g[0] = ChainFrom(f) /\ g[Bound] = Chain(f)
           /\ \A n \in 1..Bound : g[n] = Hop(g[n - 1])
    BY ChainSteps
  <1>3. L \in Nat /\ Bound \in Nat /\ L <= Bound
    <2>1. started \in Nat /\ MaxLoads \in Nat /\ MaxHops \in Nat /\ L \in Nat
      BY RequestsAssumption DEF TypeOK
    <2>2. MaxLoads >= 1
      BY <2>1
    <2>3. Bound >= MaxHops /\ Bound \in Nat
      BY <2>1, <2>2, Products DEF Bound
    <2> QED BY <2>1, <2>3
  <1> DEFINE Follows(n) == /\ g[n].request = Visit(f, h, n + 1) /\ g[n].at = W[n]
                           /\ g[n].hops = SubSeq(h, 1, n)
             S == {n \in 0..L : Follows(n)}
  <1> HIDE DEF L
  <1>4. 0 \in S
    <2>1. W[0] = redirectAt
      BY <1>1 DEF Path
    <2>2. g[0].request = f /\ g[0].at = redirectAt /\ g[0].hops = <<>>
      BY <1>2 DEF ChainFrom
    <2>3. Visit(f, h, 0 + 1) = f /\ SubSeq(h, 1, 0) = <<>>
      BY DEF Visit
    <2>4. Follows(0)
      BY <2>1, <2>2, <2>3
    <2>5. 0 \in 0..L
      BY <1>3
    <2> QED BY <2>4, <2>5
  <1>5. ASSUME NEW n \in 0..L, n \in S, n < L PROVE n + 1 \in S
    <2> DEFINE i == n + 1
               v == Visit(f, h, i)
               s == g[n]
               m == redirectMap[v]
               k == W[n][v]
    <2>1. /\ i \in 1..L /\ i \in 1..Bound /\ n \in 0..Bound /\ i - 1 = n /\ i \in Nat
          /\ i \in 1..L + 1 /\ i + 1 # 1 /\ (i + 1) - 1 = i /\ i \in 0..L
      BY <1>3, <1>5
    <2>2. s.request = v /\ s.at = W[n] /\ s.hops = SubSeq(h, 1, n) /\ s \in Chains
      BY <1>2, <1>5, <2>1
    <2>3. g[i] = Hop(s)
      BY <1>2, <2>1
    <2>4. k + 1 \in DOMAIN m /\ m[k + 1].to = h[i] /\ W[i] = [W[n] EXCEPT ![v] = @ + 1]
      BY <1>1, <2>1 DEF Path, L
    <2>5. v \in Requests
      BY <2>1, VisitType DEF L
    <2>6. m \in Seq(Redirect) /\ k \in Nat
      <3>1. W[n] \in [Requests -> Nat]
        BY <1>1, <2>1 DEF Positions
      <3> QED BY <2>5, <3>1 DEF TypeOK
    <2> HIDE DEF i, v, s, m, k
    <2>7. k < Len(m)
      BY <2>4, <2>6
    <2>8. s.at[s.request] < Len(redirectMap[s.request])
      BY <2>2, <2>7 DEF m, k
    <2>9. /\ Hop(s).request = m[k + 1].to /\ Hop(s).at = [s.at EXCEPT ![v] = @ + 1]
          /\ Hop(s).hops = Append(s.hops, m[k + 1].to)
      BY <2>2, <2>8, HopType DEF m, k
    <2>10. Visit(f, h, i + 1) = h[i]
      BY <2>1 DEF Visit
    <2>11. SubSeq(h, 1, i) = Append(SubSeq(h, 1, n), h[i])
      BY <1>5, SubSeqGrows DEF i, L
    <2>12. Follows(i)
      BY <2>2, <2>3, <2>4, <2>9, <2>10, <2>11
    <2> QED BY <2>1, <2>12 DEF i
  <1>6. 0..L \subseteq S
    <2> HIDE DEF S
    <2>1. \A n \in 0..L : n \in S /\ n < L => n + 1 \in S
      BY <1>5
    <2> QED BY <1>3, <1>4, <2>1, Induction
  <1>7. g[L].request = Terminal(f, h) /\ g[L].at = e /\ g[L].hops = h
    <2>1. L \in 0..L
      BY <1>3
    <2>2. SubSeq(h, 1, L) = h
      BY DEF L
    <2> QED BY <1>1, <1>6, <2>1, <2>2 DEF Terminal, L
  <1> DEFINE s == g[L]
             T == {n \in 0..Bound : n >= L => g[n] = s}
  <1>8. Hop(s) = s
    <2>1. redirectMap[s.request] = <<>> /\ Len(<<>>) = 0
      BY <1>7
    <2>2. s \in Chains
      BY <1>2, <1>3
    <2>3. s.at[s.request] \in Nat
      BY <2>2 DEF Chains
    <2> HIDE DEF s
    <2>4. ~ (s.at[s.request] < Len(redirectMap[s.request]))
      BY <2>1, <2>3
    <2> QED BY <2>4 DEF Hop
  <1> HIDE DEF s
  <1>9. 0 \in T
    <2>1. 0 >= L => L = 0
      BY <1>3
    <2> QED BY <1>3, <2>1 DEF s
  <1>10. ASSUME NEW n \in 0..Bound, n \in T, n < Bound PROVE n + 1 \in T
    <2>1. n + 1 \in 1..Bound /\ (n + 1) - 1 = n /\ n + 1 \in 0..Bound
      BY <1>3, <1>10
    <2>2. CASE n + 1 = L
      BY <2>1, <2>2 DEF s
    <2>3. CASE n >= L
      <3>1. g[n + 1] = Hop(s)
        BY <1>2, <1>10, <2>1, <2>3
      <3> QED BY <1>8, <2>1, <3>1
    <2>4. CASE ~(n + 1 >= L)
      BY <2>1, <2>4
    <2>5. n + 1 = L \/ n >= L \/ ~(n + 1 >= L)
      BY <1>3
    <2> QED BY <2>2, <2>3, <2>4, <2>5
  <1>11. 0..Bound \subseteq T
    <2> HIDE DEF T
    <2>1. \A n \in 0..Bound : n \in T /\ n < Bound => n + 1 \in T
      BY <1>10
    <2> QED BY <1>3, <1>9, <2>1, Induction
  <1>12. g[Bound] = s
    BY <1>3, <1>11
  <1> QED BY <1>2, <1>7, <1>12 DEF s
-----------------------------------------------------------------------------
\* The k-th load is the one that a replay that follows the recording is at: a request
\* of r, which the recording answered with e.
IsNext(r, k, A, B, e) ==
  LET was == log[k].view
      l   == Terminal(r, was.hops)
  IN /\ k = started + 1 /\ k \in DOMAIN log /\ reliable
     /\ was \in View /\ l \in Requests
     /\ Marks(requestMap, redirectMap, log, A, B)
     /\ requestMap[r] # <<>> \/ (was.hops # <<>> /\ redirectMap[r] # <<>>)
     /\ e \in Entry /\ Current(requestMap, requestAt, l) = {e}
     /\ e.answer = was.answer /\ e.chunks = was.chunks /\ End(e.failed) = was.end
     /\ requestAt[l] < Len(requestMap[l]) /\ A[k] = [requestAt EXCEPT ![l] = @ + 1]
     /\ log[k].sync => was.hops = <<>>
     /\ Len(was.hops) <= MaxHops
     /\ redirectMap[l] = <<>>
     /\ LedTo(redirectMap, redirectAt, r, was.hops, B[k])

LEMMA Followed ==
  ASSUME TypeOK, FaithInv, mode = "replaying", NEW r \in Requests, NEW sync,
         Like(r, sync) > 0
  PROVE  /\ Like(r, sync) = started + 1 /\ log[started + 1].sync = sync
         /\ \E A, B, e : IsNext(r, started + 1, A, B, e)
  <1> DEFINE k == started + 1
             x == log[k]
             h == x.view.hops
             l == Terminal(r, h)
  <1>1. /\ Like(r, sync) = k /\ following /\ k \in DOMAIN log /\ x.first = r /\ x.sync = sync
    BY DEF Like
  <1>2. reliable /\ started \in Nat /\ k - 1 = started
    BY <1>1 DEF FaithInv, FollowingInv, TypeOK
  <1>3. PICK A, B : /\ Marks(requestMap, redirectMap, log, A, B)
                    /\ requestAt = A[started] /\ redirectAt = B[started]
    BY <1>1 DEF FaithInv, FollowingInv
  <1>4. k \in 1..Len(log) /\ x.view \in View /\ h \in Seq(Requests)
    BY <1>1, LogTypes
  <1>5. l \in Requests
    BY <1>4, VisitType
  <1>6. Kept(requestMap, redirectMap, x, requestAt, A[k], redirectAt, B[k])
    <2>1. Kept(requestMap, redirectMap, log[k], A[k - 1], A[k], B[k - 1], B[k])
      BY <1>3, <1>4 DEF Marks
    <2> QED BY <1>2, <1>3, <2>1
  <1> DEFINE e == requestMap[l][requestAt[l] + 1]
  <1>7. /\ Len(h) <= MaxHops /\ (x.sync => h = <<>>)
        /\ LedTo(redirectMap, redirectAt, r, h, B[k])
        /\ requestAt[l] + 1 \in DOMAIN requestMap[l]
        /\ e.answer = x.view.answer /\ e.chunks = x.view.chunks /\ End(e.failed) = x.view.end
        /\ A[k] = [requestAt EXCEPT ![l] = @ + 1]
    BY <1>1, <1>6 DEF Kept, Answers
  <1> HIDE DEF l
  <1>8. requestAt[l] < Len(requestMap[l]) /\ e \in Entry
    <2>1. requestMap[l] \in Seq(Entry) /\ requestAt[l] \in Nat
      BY <1>5 DEF TypeOK
    <2>2. requestAt[l] + 1 \in DOMAIN requestMap[l]
      BY <1>7
    <2> QED BY <2>1, <2>2
  <1>9. Current(requestMap, requestAt, l) = {e}
    BY <1>8 DEF Current
  <1>10. redirectMap[l] = <<>>
    <2> SUFFICES ASSUME redirectMap[l] # <<>> PROVE FALSE
      OBVIOUS
    <2>1. FromLogged(log, l) /\ Consistent
      BY <1>2, <1>5 DEF FaithInv, RecordedInv
    <2>2. PICK j \in 1..Len(log) : PassedBy(log[j].first, log[j].view.hops, l)
      BY <2>1 DEF FromLogged
    <2>3. j \in DOMAIN log
      <3>1. log \in Seq(Logged)
        BY DEF TypeOK
      <3> QED BY <2>2, <3>1
    <2>4. PICK i \in 1..Len(log[j].view.hops) : Visit(log[j].first, log[j].view.hops, i) = l
      BY <2>2 DEF PassedBy
    <2>5. Visits(log[j])[i] # Last(Visits(x))
      BY <1>1, <2>1, <2>3, <2>4 DEF Consistent
    <2>6. Last(Visits(x)) = l
      BY <1>1, <1>4, VisitsAre DEF l
    <2>7. log[j].first \in Requests /\ log[j].view.hops \in Seq(Requests)
      BY <2>3, LogTypes
    <2>8. i \in 1..Len(log[j].view.hops) + 1
      BY <2>4, <2>7
    <2>9. Visits(log[j])[i] = l
      BY <2>4, <2>7, <2>8, VisitsAre
    <2> QED BY <2>5, <2>6, <2>9
  <1>11. requestMap[r] # <<>> \/ (h # <<>> /\ redirectMap[r] # <<>>)
    <2>1. CASE h = <<>>
      <3>1. l = r
        BY <2>1 DEF l, Terminal, Visit
      <3>2. DOMAIN requestMap[r] # {}
        BY <1>7, <3>1
      <3> QED BY <3>2
    <2>2. CASE h # <<>>
      <3>1. 1 \in 1..Len(h) /\ Len(h) \in Nat
        BY <1>4, <2>2
      <3>2. PICK W : Path(redirectMap, W, redirectAt, r, h)
        BY <1>7 DEF LedTo
      <3>3. W[1 - 1][Visit(r, h, 1)] + 1 \in DOMAIN redirectMap[Visit(r, h, 1)]
        BY <3>1, <3>2 DEF Path
      <3>4. Visit(r, h, 1) = r
        BY DEF Visit
      <3>5. DOMAIN redirectMap[r] # {}
        BY <3>3, <3>4
      <3> QED BY <2>2, <3>5
    <2> QED BY <2>1, <2>2
  <1> HIDE DEF e
  <1>12. IsNext(r, k, A, B, e)
    BY <1>1, <1>2, <1>3, <1>4, <1>5, <1>7, <1>8, <1>9, <1>10, <1>11 DEF IsNext, l
  <1> QED BY <1>1, <1>12

\* A load of a replay begins, as x.
LEMMA BeginsAlike ==
  ASSUME TypeOK, FaithInv, mode = "replaying", NEW c \in Clients, NEW x, Begin(c, x),
         NEW like \in Nat, following' = (like > 0),
         UNCHANGED <<mode, token, requestMap, redirectMap, log, reliable>>,
         x.via = "store", x.like = like,
         like > 0 => \E A, B, e, r : /\ IsNext(r, like, A, B, e)
                                     /\ requestAt' = A[like] /\ redirectAt' = B[like]
                                     /\ Alike(x, log[like].view)
  PROVE  FaithInv'
  <1>1. /\ started' = started + 1
        /\ load' = [d \in DOMAIN load \cup {c} |-> IF d = c THEN x ELSE load[d]]
    BY DEF Begin
  <1>2. RecordingInv'
    BY DEF RecordingInv
  <1>3. RecordedInv'
    BY StaysRecorded DEF FaithInv
  <1>4. FollowingInv'
    <2> SUFFICES ASSUME following' PROVE FollowingInv'
      BY DEF FollowingInv
    <2>1. PICK A, B, e, r : /\ IsNext(r, like, A, B, e)
                            /\ requestAt' = A[like] /\ redirectAt' = B[like]
      OBVIOUS
    <2>2. /\ like = started + 1 /\ like \in 1..Len(log) /\ reliable
          /\ Marks(requestMap, redirectMap, log, A, B)
      BY <2>1, LogTypes DEF IsNext
    <2>3. /\ started' = like /\ like <= Len(log)
      BY <1>1, <2>2
    <2> QED BY <2>1, <2>2, <2>3 DEF FollowingInv
  <1>5. ASSUME like > 0 PROVE like \in DOMAIN log /\ Alike(x, log[like].view)
    BY <1>5 DEF IsNext
  <1>6. ASSUME NEW d \in DOMAIN load'
        PROVE  /\ load'[d].via = "wire" => load'[d].like = 0
               /\ load'[d].token = token /\ load'[d].like > 0 =>
                    load'[d].like \in DOMAIN log /\ Alike(load'[d], log[load'[d].like].view)
    <2>1. CASE d = c
      <3>1. load'[d] = x
        BY <1>1, <1>6, <2>1
      <3> QED BY <1>5, <3>1
    <2>2. CASE d # c
      <3>1. d \in DOMAIN load /\ load'[d] = load[d]
        BY <1>1, <1>6, <2>2
      <3> QED BY <3>1 DEF FaithInv, AlikeInv
    <2> QED BY <2>1, <2>2
  <1>7. AlikeInv'
    BY <1>6 DEF AlikeInv
  <1> QED BY <1>2, <1>3, <1>4, <1>7 DEF FaithInv

LEMMA LoadReplayFaith ==
  ASSUME TypeOK, FaithInv, NEW c \in Clients, NEW r \in Requests, NEW trace \in Trace,
         LoadReplay(c, r, trace)
  PROVE  FaithInv'
  <1> DEFINE like == Like(r, FALSE)
             found(q) == Current(requestMap, requestAt, q)
             rest(q) == IF found(q) = {} THEN Missing ELSE Served(CHOOSE e \in found(q) : TRUE)
             xx(h, q) == [NewLoad(r, "store", FALSE, like) EXCEPT
                            !.plan = Redirects(h) \o rest(q),
                            !.posted = IF found(q) = {} THEN "missing" ELSE "task"]
             known == requestMap[r] # <<>> \/ redirectMap[r] # <<>>
  <1>1. /\ mode = "replaying" /\ started < MaxLoads
        /\ UNCHANGED <<mode, token, requestMap, redirectMap>>
    BY DEF LoadReplay, MayLoad, sessionVars, mapVars
  <1>2. PICK r0 \in Recognised(r, trace, known, Matching(trace)) :
          /\ redirectAt' = Chain(r0).at
          /\ NextRequestEntry(Chain(r0).request)
          /\ Begin(c, xx(Chain(r0).hops, Chain(r0).request))
          /\ Hand(found(Chain(r0).request), like)
    BY DEF LoadReplay
  <1>3. following' = (like > 0) /\ UNCHANGED <<log, reliable>> /\ like \in Nat
    BY <1>2, LikeType DEF Hand
  <1> DEFINE q == Chain(r0).request
             h == Chain(r0).hops
             x == xx(h, q)
  <1>4. /\ x.via = "store" /\ x.like = like /\ x.view = Fresh /\ x.plan = Redirects(h) \o rest(q)
        /\ x.posted = IF found(q) = {} THEN "missing" ELSE "task"
    BY DEF NewLoad
  <1>5. ASSUME like > 0
        PROVE  \E A, B, e, s : /\ IsNext(s, like, A, B, e)
                               /\ requestAt' = A[like] /\ redirectAt' = B[like]
                               /\ Alike(x, log[like].view)
    <2>1. PICK A, B, e : IsNext(r, like, A, B, e)
      BY <1>1, <1>5, Followed
    <2> DEFINE was == log[like].view
               l == Terminal(r, was.hops)
    <2>2. /\ known /\ was \in View /\ l \in Requests /\ e \in Entry /\ found(l) = {e}
          /\ e.answer = was.answer /\ e.chunks = was.chunks /\ End(e.failed) = was.end
          /\ requestAt[l] < Len(requestMap[l]) /\ A[like] = [requestAt EXCEPT ![l] = @ + 1]
          /\ Len(was.hops) <= MaxHops /\ redirectMap[l] = <<>>
          /\ LedTo(redirectMap, redirectAt, r, was.hops, B[like])
      BY <2>1 DEF IsNext
    <2>3. r0 = r
      BY <2>2 DEF Recognised
    <2>4. q = l /\ Chain(r0).at = B[like] /\ h = was.hops
      <3>1. was.hops \in Seq(Requests)
        BY <2>2 DEF View
      <3>2. /\ LedTo(redirectMap, redirectAt, r, was.hops, B[like]) /\ Len(was.hops) <= MaxHops
            /\ redirectMap[Terminal(r, was.hops)] = <<>> /\ started < MaxLoads
        BY <1>1, <2>2
      <3> HIDE DEF was
      <3>3. /\ Chain(r).request = Terminal(r, was.hops) /\ Chain(r).at = B[like]
            /\ Chain(r).hops = was.hops
        BY <3>1, <3>2, ChainFollows
      <3> QED BY <2>3, <3>3
    <2>5. redirectAt' = B[like]
      BY <1>2, <2>4
    <2>6. requestAt' = A[like]
      <3>1. NextRequestEntry(l)
        BY <1>2, <2>4
      <3> HIDE DEF l, was, q, h, x, found
      <3>2. requestAt' = [requestAt EXCEPT ![l] = requestAt[l] + 1]
        BY <2>2, <3>1 DEF NextRequestEntry
      <3> QED BY <2>2, <3>2
    <2>7. (CHOOSE d \in found(q) : TRUE) = e /\ found(q) # {}
      BY <2>2, <2>4
    <2>8. x.plan = Redirects(was.hops) \o Served(e) /\ x.posted = "task"
      BY <1>4, <2>4, <2>7
    <2> HIDE DEF x, l, was, q, h, found
    <2>9. Agrees(Fresh, was) /\ Leads(Fresh, x.plan, was)
      BY <2>2, <2>8, ServedLeads
    <2>10. Alike(x, was)
      BY <1>4, <2>8, <2>9 DEF Alike
    <2> QED BY <2>1, <2>5, <2>6, <2>10 DEF was
  <1>6. Begin(c, x)
    BY <1>2
  <1> HIDE DEF x, like
  <1> QED BY <1>1, <1>3, <1>4, <1>5, <1>6, BeginsAlike

LEMMA SyncReplayFaith ==
  ASSUME TypeOK, FaithInv, NEW c \in Clients, NEW r \in Requests, NEW trace \in Trace,
         SyncReplay(c, r, trace)
  PROVE  FaithInv'
  <1> DEFINE like == Like(r, TRUE)
             found(q) == Current(requestMap, requestAt, q)
             new == NewLoad(r, "store", TRUE, like)
             xx(q) == IF found(q) = {}
                      THEN [new EXCEPT !.view = [@ EXCEPT !.answer = NoContent, !.end = "finish"]]
                      ELSE Answered(new, CHOOSE e \in found(q) : TRUE)
  <1>1. /\ mode = "replaying"
        /\ UNCHANGED <<mode, token, requestMap, redirectMap, redirectAt>>
    BY DEF SyncReplay, sessionVars, mapVars
  <1>2. PICK r0 \in Recognised(r, trace, requestMap[r] # <<>>, MatchingTerminal(trace)) :
          NextRequestEntry(r0) /\ Begin(c, xx(r0)) /\ Hand(found(r0), like)
    BY DEF SyncReplay
  <1>3. following' = (like > 0) /\ UNCHANGED <<log, reliable>> /\ like \in Nat
    BY <1>2, LikeType DEF Hand
  <1> DEFINE x == xx(r0)
  <1>4. x.via = "store" /\ x.like = like /\ x.posted = ""
    <2>1. /\ new.via = "store" /\ new.like = like /\ new.posted = ""
          /\ \A e : /\ Answered(new, e).via = "store" /\ Answered(new, e).like = like
                    /\ Answered(new, e).posted = ""
      BY DEF NewLoad, Answered
    <2>2. [new EXCEPT !.view = [@ EXCEPT !.answer = NoContent, !.end = "finish"]].via = "store"
      BY DEF NewLoad
    <2>3. [new EXCEPT !.view = [@ EXCEPT !.answer = NoContent, !.end = "finish"]].like = like
      BY DEF NewLoad
    <2>4. [new EXCEPT !.view = [@ EXCEPT !.answer = NoContent, !.end = "finish"]].posted = ""
      BY DEF NewLoad
    <2> HIDE DEF new
    <2> QED BY <2>1, <2>2, <2>3, <2>4
  <1>5. ASSUME like > 0
        PROVE  \E A, B, e, s : /\ IsNext(s, like, A, B, e)
                               /\ requestAt' = A[like] /\ redirectAt' = B[like]
                               /\ Alike(x, log[like].view)
    <2>1. PICK A, B, e : IsNext(r, like, A, B, e)
      BY <1>1, <1>5, Followed
    <2> DEFINE was == log[like].view
    <2>2. was.hops = <<>>
      BY <1>1, <1>5, <2>1, Followed DEF IsNext
    <2>3. Terminal(r, was.hops) = r
      BY <2>2 DEF Terminal, Visit
    <2>4. /\ requestMap[r] # <<>> /\ was \in View /\ e \in Entry /\ found(r) = {e}
          /\ e.answer = was.answer /\ e.chunks = was.chunks /\ End(e.failed) = was.end
          /\ requestAt[r] < Len(requestMap[r]) /\ A[like] = [requestAt EXCEPT ![r] = @ + 1]
          /\ LedTo(redirectMap, redirectAt, r, was.hops, B[like])
      BY <2>1, <2>2, <2>3 DEF IsNext
    <2>5. r0 = r
      BY <2>4 DEF Recognised
    <2>6. redirectAt' = B[like]
      <3>1. PICK W : Path(redirectMap, W, redirectAt, r, was.hops) /\ W[Len(was.hops)] = B[like]
        BY <2>4 DEF LedTo
      <3>2. Len(was.hops) = 0
        BY <2>2
      <3> QED BY <1>1, <3>1, <3>2 DEF Path
    <2>7. requestAt' = A[like]
      <3>1. NextRequestEntry(r)
        BY <1>2, <2>5
      <3> HIDE DEF was, x, found
      <3>2. requestAt' = [requestAt EXCEPT ![r] = requestAt[r] + 1]
        BY <2>4, <3>1 DEF NextRequestEntry
      <3> QED BY <2>4, <3>2
    <2>8. x = Answered(new, e)
      BY <2>4, <2>5
    <2>9. x.view = [hops |-> <<>>, answer |-> e.answer, chunks |-> e.chunks, end |-> End(e.failed)]
      BY <2>8 DEF NewLoad, Answered
    <2> HIDE DEF x, was, found, new
    <2>10. IsPrefix(<<>>, was.hops)
      BY <2>2 DEF IsPrefix
    <2>11. Agrees(x.view, was)
      BY <2>2, <2>4, <2>9, <2>10 DEF Agrees
    <2>12. Alike(x, was)
      BY <1>4, <2>11 DEF Alike
    <2> QED BY <2>1, <2>6, <2>7, <2>12 DEF was
  <1>6. Begin(c, x)
    BY <1>2
  <1> HIDE DEF x, like
  <1> QED BY <1>1, <1>3, <1>4, <1>5, <1>6, BeginsAlike
-----------------------------------------------------------------------------
LEMMA StepFaith ==
  ASSUME TypeOK, PendingInv, ServedInv, ProtocolInv, FaithInv, [Next]_vars
  PROVE  FaithInv'
  <1>1. CASE Mode
    BY <1>1, ModeFaith
  <1>2. ASSUME NEW c \in Clients, NEW r \in Requests, NEW trace \in Trace, StartLoad(c, r, trace)
        PROVE  FaithInv'
    BY <1>2, LoadRecordingFaith, LoadReplayFaith, SyncRecordingFaith, SyncReplayFaith DEF StartLoad
  <1>3. ASSUME NEW c \in DOMAIN load, Cancel(c) \/ Network(c) \/ MessageLoop(c)
        PROVE  FaithInv'
    BY <1>3, CancelFaith, NetworkFaith, MessageLoopFaith
  <1>4. CASE UNCHANGED vars
    BY <1>4 DEF vars, sessionVars, mapVars, cursorVars, historyVars, FaithInv, RecordingInv,
                Counted, OnWire, Open, RecordedInv, Consistent, Visits, FollowingInv, AlikeInv
  <1> QED BY <1>1, <1>2, <1>3, <1>4 DEF Next

LEMMA InitFaith == Init => FaithInv
  <1> SUFFICES ASSUME Init PROVE FaithInv
    OBVIOUS
  <1>1. mode = "idle" /\ reliable = FALSE /\ load = NoClient
    BY DEF Init, Session!Init
  <1>2. DOMAIN load = {}
    BY <1>1 DEF NoClient
  <1> QED BY <1>1, <1>2 DEF FaithInv, RecordingInv, RecordedInv, FollowingInv, AlikeInv

\* A page that makes the requests of a reliable recording in their order is led to the
\* same places and told the same (createRedirectEvents, nextRequestEntry), for any
\* clients, requests, traces and numbers of loads, redirects and chunks.
THEOREM ReplaysAreFaithful == Spec => []FaithfulReplay
  <1>1. AlikeInv => FaithfulReplay
    BY DEF AlikeInv, FaithfulReplay, Alike, Agrees
  <1>2. Init => TypeOK /\ PendingInv /\ ServedInv /\ ProtocolInv /\ FaithInv
    BY InitType, InitPending, InitServed, InitProtocol, InitFaith
  <1>3. TypeOK /\ PendingInv /\ ServedInv /\ ProtocolInv /\ FaithInv /\ [Next]_vars =>
          TypeOK' /\ PendingInv' /\ ServedInv' /\ ProtocolInv' /\ FaithInv'
    BY StepType, StepPending, StepServed, StepProtocol, StepFaith
  <1>4. FaithInv => FaithfulReplay
    BY <1>1 DEF FaithInv
  <1> QED BY <1>2, <1>3, <1>4, PTL DEF Spec
=============================================================================
