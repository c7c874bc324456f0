------------------------------ MODULE V8Proofs ------------------------------
(***************************************************************************)
(* What is proved of the components of V8 that change what a script        *)
(* computes: V8Tiers for every set of closures and every bound on jobs,    *)
(* activations and codes; V8Cache for every capacity; V8Scopes for all     *)
(* names and values; V8Buffers for all bytes and every bound.              *)
(***************************************************************************)
EXTENDS V8Tiers, V8Cache, V8Scopes, V8Buffers, NumberLemmas, SequenceTheorems,
        FiniteSetTheorems, TLAPS

LEMMA MaxOf ==
  ASSUME NEW k \in Nat, NEW S, S \subseteq 0..k, S # {}
  PROVE  Max(S) \in S /\ \A m \in S : Max(S) >= m
  BY GreatestNumber DEF Max

-----------------------------------------------------------------------------
(***************************************************************************)
(* 1. V8Tiers: a function's closures, their code and the jobs that         *)
(* optimise it.                                                            *)
(***************************************************************************)
Code  == {Lazy, Full, InOptimizationQueue}
         \cup {CompileOptimizedStub(b) : b \in BOOLEAN} \cup {Optimized(k) : k \in 1..made}
Jobs  == [closure : Closures, osr : BOOLEAN, status : {"queued", "ready", "failed"}]

TypeOK ==
  /\ made \in Nat
  /\ code \in [Closures -> Code]
  /\ jobs \subseteq Jobs
  /\ frames \in Seq([closure : Closures, code : Code])
  /\ cache \subseteq 1..made /\ marked \subseteq 1..made /\ bailed \subseteq 1..made

\* Code that is marked for deoptimisation is not in the cache, or a closure would get it.
MarkedIsUncached == cache \cap marked = {}

\* The inductive invariant.
IInv == TypeOK /\ QueuedHasJob /\ GivenUpCodeIsGone /\ MarkedIsUncached

LEMMA OptimizedCodes ==
  /\ \A k, l : Optimized(k) = Optimized(l) => k = l
  /\ \A k : Optimized(k) \notin {Lazy, Full, InOptimizationQueue}
  /\ \A k : \A b \in BOOLEAN : Optimized(k) # CompileOptimizedStub(b)
  /\ \A b \in BOOLEAN : CompileOptimizedStub(b) # InOptimizationQueue
  /\ SharedCode \in {Lazy, Full}
  /\ SharedCode # InOptimizationQueue
  BY DEF Optimized, Lazy, Full, InOptimizationQueue, CompileOptimizedStub, SharedCode

LEMMA OptimizedCode ==
  ASSUME TypeOK, NEW c \in Code, IsOptimized(c)
  PROVE  \E k \in 1..made : c = Optimized(k) /\ c[2] = k
  BY DEF TypeOK, Code, IsOptimized, Optimized, Lazy, Full, InOptimizationQueue, CompileOptimizedStub

LEMMA OptimizedIs == \A k : IsOptimized(Optimized(k))
  BY DEF IsOptimized, Optimized

\* A code made by the next step, or none, is the only one that is new.
LEMMA CodeGrows ==
  ASSUME TypeOK, made' \in {made, made + 1}
  PROVE  Code \subseteq Code' /\ 1..made \subseteq 1..made' /\ SharedCode \in Code'
         /\ (made' = made + 1 => Optimized(made') \in Code' /\ made' \notin 1..made)
  <1>1. made \in Nat /\ made' \in Nat  BY DEF TypeOK
  <1>2. 1..made \subseteq 1..made'  BY <1>1
  <1>3. {Optimized(k) : k \in 1..made} \subseteq {Optimized(k) : k \in 1..made'}  BY <1>2
  <1>4. Code \subseteq Code'  BY <1>3 DEF Code
  <1>5. SharedCode \in Code'  BY OptimizedCodes DEF Code
  <1>6. ASSUME made' = made + 1 PROVE Optimized(made') \in Code' /\ made' \notin 1..made
    BY <1>1, <1>6 DEF Code
  <1> QED BY <1>2, <1>4, <1>5, <1>6

(***************************************************************************)
(* What a step keeps: it follows from how it changes a closure's code.     *)
(***************************************************************************)

\* The rest of the invariant follows if the codes a step gives to closures come from the
\* shared function, the cache or the compiler, and a queued closure keeps its job.
LEMMA Kept ==
  ASSUME IInv, made' \in {made, made + 1}, marked' = marked, cache' \subseteq cache \cup {made'},
         cache' \subseteq cache \/ made' = made + 1,
         bailed' = bailed,
         jobs' \subseteq Jobs,
         frames' \in Seq([closure : Closures, code : Code']),
         code' \in [Closures -> Code'],
         \A f \in Closures :
           \/ code'[f] = code[f]
           \/ code'[f] \in {Lazy, Full} \cup {CompileOptimizedStub(b) : b \in BOOLEAN}
           \/ \E k \in cache : code'[f] = Optimized(k)
           \/ made' = made + 1 /\ code'[f] = Optimized(made')
           \/ code'[f] = InOptimizationQueue,
         \A f \in Closures : code'[f] = InOptimizationQueue =>
           \E j \in jobs' : j.closure = f /\ ~j.osr
  PROVE  IInv'
  <1>1. /\ made \in Nat /\ made' \in Nat
        /\ cache \subseteq 1..made /\ marked \subseteq 1..made /\ bailed \subseteq 1..made
        /\ 1..made \subseteq 1..made'
        /\ made' = made + 1 => made' \notin 1..made /\ made' \in 1..made'
    BY CodeGrows DEF IInv, TypeOK
  <1>2. \A k \in cache' : k \in cache \/ (made' = made + 1 /\ k = made')
    OBVIOUS
  <1>3. cache' \subseteq 1..made' /\ marked' \subseteq 1..made' /\ bailed' \subseteq 1..made'
    BY <1>1, <1>2
  <1>4. cache' \cap marked' = {} /\ cache' \cap bailed' = {}
    BY <1>1, <1>2 DEF IInv, GivenUpCodeIsGone, MarkedIsUncached
  <1>5. ASSUME NEW f \in Closures, NEW k \in marked', code'[f] = Optimized(k) PROVE FALSE
    <2>1. k \in 1..made /\ k \notin cache /\ code[f] # Optimized(k)
      BY <1>1 DEF IInv, MarkedIsUncached, GivenUpCodeIsGone
    <2> QED BY <1>5, <2>1, <1>1, OptimizedCodes
  <1> QED BY <1>1, <1>3, <1>4, <1>5 DEF IInv, TypeOK, QueuedHasJob, GivenUpCodeIsGone, MarkedIsUncached

\* Steps that leave the codes, the jobs and the caches alone.
LEMMA FramesKept ==
  ASSUME IInv, UNCHANGED <<code, jobs, cache, marked, made, bailed>>,
         frames' \in Seq([closure : Closures, code : Code])
  PROVE  IInv'
  BY DEF IInv, TypeOK, QueuedHasJob, GivenUpCodeIsGone, MarkedIsUncached, Code

LEMMA FrontAndLast ==
  ASSUME NEW S, NEW s \in Seq(S), s # <<>>
  PROVE  Len(s) \in 1..Len(s) /\ Last(s) \in S /\ Front(s) \in Seq(S)
  <1>1. Len(s) \in Nat \ {0}
    BY EmptySeq
  <1>2. \A i \in 1..Len(s) : s[i] \in S
    BY ElementOfSeq
  <1>3. SubSeq(s, 1, Len(s) - 1) \in Seq(S)
    BY <1>1, <1>2, SubSeqProperties
  <1> QED BY <1>1, <1>2, <1>3 DEF Front, Last

LEMMA FramesGrow ==
  ASSUME IInv, made' \in {made, made + 1}
  PROVE  frames \in Seq([closure : Closures, code : Code'])
  <1>1. [closure : Closures, code : Code] \subseteq [closure : Closures, code : Code']
    BY CodeGrows DEF IInv
  <1> QED BY <1>1, SeqMonotonic DEF IInv, TypeOK

LEMMA EnterType ==
  ASSUME IInv, NEW f \in Closures, NEW c \in Code', made' \in {made, made + 1}, Enter(f, c)
  PROVE  frames' \in Seq([closure : Closures, code : Code'])
  <1>1. frames \in Seq([closure : Closures, code : Code'])
    BY FramesGrow
  <1> QED BY <1>1 DEF Enter, Frame

LEMMA ReplaceCodeKeeps ==
  ASSUME IInv, NEW f \in Closures, NEW c \in Code', made' \in {made, made + 1}, ReplaceCode(f, c)
  PROVE  /\ code' \in [Closures -> Code']
         /\ code'[f] = c
         /\ \A g \in Closures : g # f => code'[g] = code[g]
  BY CodeGrows DEF IInv, TypeOK, ReplaceCode

LEMMA InstallKeeps ==
  ASSUME IInv, InstallOptimizedFunctions
  PROVE  /\ made' \in {made, made + 1}
         /\ jobs' \subseteq Jobs
         /\ cache' \subseteq cache \cup {made'}
         /\ cache' \subseteq cache \/ made' = made + 1
         /\ code' \in [Closures -> Code']
         /\ \A f \in Closures :
              \/ code'[f] = code[f]
              \/ code'[f] \in {Lazy, Full}
              \/ made' = made + 1 /\ code'[f] = Optimized(made')
         /\ \A f \in Closures : code'[f] = InOptimizationQueue =>
              \E j \in jobs' : j.closure = f /\ ~j.osr
  <1> DEFINE used == \E f \in Closures : Installed[f] = Optimized(made + 1)
  <1>1. made' = (IF used THEN made + 1 ELSE made) /\ made \in Nat
    BY DEF InstallOptimizedFunctions, IInv, TypeOK
  <1>2. made' \in {made, made + 1}
    BY <1>1
  <1>3. /\ jobs' = jobs \ Installable
        /\ cache' = IF used THEN cache \cup {made + 1} ELSE cache
        /\ code' = Installed
    BY DEF InstallOptimizedFunctions
  <1>4. ASSUME NEW f \in Closures
        PROVE  \/ code'[f] = code[f] /\ ((\A j \in Installable : j.closure # f) \/ IsOptimized(code[f]))
               \/ code'[f] = SharedCode
               \/ code'[f] = Optimized(made + 1) /\ used
    BY <1>3 DEF Installed
  <1>5. ASSUME NEW f \in Closures
        PROVE  \/ code'[f] = code[f]
               \/ code'[f] \in {Lazy, Full}
               \/ made' = made + 1 /\ code'[f] = Optimized(made')
    BY <1>1, <1>4, OptimizedCodes
  <1>6. code' \in [Closures -> Code']
    <2>1. Code \subseteq Code' /\ {Lazy, Full} \subseteq Code'
          /\ (made' = made + 1 => Optimized(made') \in Code')
      BY <1>2, CodeGrows DEF IInv, Code
    <2>2. ASSUME NEW f \in Closures PROVE code'[f] \in Code'
      BY <2>1, <1>5 DEF IInv, TypeOK
    <2>3. code' = [f \in Closures |-> code'[f]]
      BY <1>3, Zenon DEF Installed
    <2> QED BY <2>2, <2>3
  <1>7. ASSUME NEW f \in Closures, code'[f] = InOptimizationQueue
        PROVE  \E j \in jobs' : j.closure = f /\ ~j.osr
    <2>1. code[f] = InOptimizationQueue /\ ((\A j \in Installable : j.closure # f) \/ IsOptimized(code[f]))
      BY <1>4, <1>7, OptimizedCodes
    <2>3. ~IsOptimized(InOptimizationQueue)
      BY DEF IsOptimized, InOptimizationQueue
    <2>2. PICK j \in jobs : j.closure = f /\ ~j.osr
      BY <2>1 DEF IInv, QueuedHasJob
    <2> QED BY <2>1, <2>2, <2>3, <1>3
  <1>8. jobs' \subseteq Jobs /\ cache' \subseteq cache \cup {made'} /\ (cache' \subseteq cache \/ made' = made + 1)
    BY <1>1, <1>3 DEF IInv, TypeOK
  <1> QED BY <1>2, <1>5, <1>6, <1>7, <1>8

\* Nothing is made and no job changes; a closure gets unoptimised code, or some that is
\* in the cache.
LEMMA ReplaceCodeInv ==
  ASSUME IInv, UNCHANGED <<jobs, cache, marked, made, bailed>>,
         NEW f \in Closures, NEW c, ReplaceCode(f, c),
         \/ c \in {Lazy, Full} \cup {CompileOptimizedStub(b) : b \in BOOLEAN}
         \/ \E k \in cache : c = Optimized(k),
         frames' \in Seq([closure : Closures, code : Code'])
  PROVE  IInv'
  <1>1. c \in Code'
    BY DEF IInv, TypeOK, Code
  <1>2. made' \in {made, made + 1}
    OBVIOUS
  <1>3. /\ code' \in [Closures -> Code'] /\ code'[f] = c
        /\ \A g \in Closures : g # f => code'[g] = code[g]
    BY <1>1, <1>2, ReplaceCodeKeeps
  <1>4. c # InOptimizationQueue
    BY OptimizedCodes DEF Lazy, Full, InOptimizationQueue
  <1>5. jobs' \subseteq Jobs
    BY DEF IInv, TypeOK
  <1>6. ASSUME NEW g \in Closures, code'[g] = InOptimizationQueue
        PROVE  \E j \in jobs' : j.closure = g /\ ~j.osr
    BY <1>3, <1>4, <1>6 DEF IInv, QueuedHasJob
  <1>7. cache' \subseteq cache \cup {made'} /\ cache' \subseteq cache
    OBVIOUS
  <1>8. \A g \in Closures :
          \/ code'[g] = code[g]
          \/ code'[g] \in {Lazy, Full} \cup {CompileOptimizedStub(b) : b \in BOOLEAN}
          \/ \E k \in cache : code'[g] = Optimized(k)
    BY <1>3
  <1> QED BY <1>2, <1>3, <1>5, <1>6, <1>7, <1>8, Kept

LEMMA CompilerThreadInv ==
  ASSUME IInv, CompilerThread
  PROVE  IInv'
  <1>1. PICK j \in jobs, status \in {"ready", "failed"} :
          jobs' = (jobs \ {j}) \cup {[j EXCEPT !.status = status]}
    BY DEF CompilerThread
  <1>2. UNCHANGED <<code, frames, cache, marked, made, bailed>>
    BY DEF CompilerThread
  <1>3. j \in Jobs /\ jobs \subseteq Jobs
    BY DEF IInv, TypeOK
  <1>4. /\ [j EXCEPT !.status = status] \in Jobs
        /\ [j EXCEPT !.status = status].closure = j.closure
        /\ [j EXCEPT !.status = status].osr = j.osr
    BY <1>3 DEF Jobs
  <1>5. jobs' \subseteq Jobs
    BY <1>1, <1>3, <1>4
  <1>6. ASSUME NEW f \in Closures, code'[f] = InOptimizationQueue
        PROVE  \E i \in jobs' : i.closure = f /\ ~i.osr
    <2>1. PICK i \in jobs : i.closure = f /\ ~i.osr
      BY <1>2, <1>6 DEF IInv, QueuedHasJob
    <2>2. CASE i = j  BY <2>1, <2>2, <1>1, <1>4
    <2>3. CASE i # j  BY <2>1, <2>3, <1>1
    <2> QED BY <2>2, <2>3
  <1> QED BY <1>2, <1>5, <1>6 DEF IInv, TypeOK, QueuedHasJob, GivenUpCodeIsGone,
                                 MarkedIsUncached, Code

\* Installing the jobs' codes, whatever becomes of the activations.
LEMMA InstallInv ==
  ASSUME IInv, InstallOptimizedFunctions, UNCHANGED <<marked, bailed>>,
         frames' \in Seq([closure : Closures, code : Code'])
  PROVE  IInv'
  BY InstallKeeps, Kept

LEMMA CompileOptimizedInv ==
  ASSUME IInv, NEW f \in Closures, NEW concurrent \in BOOLEAN, CompileOptimized(f, concurrent)
  PROVE  IInv'
  <1>0. UNCHANGED <<marked, bailed>>
    BY DEF CompileOptimized
  <1>1. CASE /\ ReplaceCode(f, SharedCode)
             /\ Enter(f, SharedCode)
             /\ UNCHANGED <<jobs, cache, made>>
    <2>1. SharedCode \in Code'
      BY <1>1, CodeGrows DEF IInv
    <2> QED BY <1>0, <1>1, <2>1, EnterType, ReplaceCodeInv, OptimizedCodes
  <1>2. CASE /\ \E k \in cache : ReplaceCode(f, Optimized(k)) /\ Enter(f, Optimized(k))
             /\ UNCHANGED <<jobs, cache, made>>
    <2>1. PICK k \in cache : ReplaceCode(f, Optimized(k)) /\ Enter(f, Optimized(k))
      BY <1>2
    <2>2. Optimized(k) \in Code'
      BY <1>2 DEF IInv, TypeOK, Code
    <2> QED BY <1>0, <1>2, <2>1, <2>2, EnterType, ReplaceCodeInv
  <1>3. CASE /\ ReplaceCode(f, InOptimizationQueue)
             /\ jobs' = jobs \cup {Job(f, FALSE, "queued")}
             /\ Enter(f, SharedCode)
             /\ UNCHANGED <<cache, made>>
    <2>1. SharedCode \in Code' /\ InOptimizationQueue \in Code'
      BY <1>3, CodeGrows DEF IInv, Code
    <2>2. frames' \in Seq([closure : Closures, code : Code'])
      BY <1>3, <2>1, EnterType
    <2>3. /\ code' \in [Closures -> Code'] /\ code'[f] = InOptimizationQueue
          /\ \A g \in Closures : g # f => code'[g] = code[g]
      BY <1>3, <2>1, ReplaceCodeKeeps
    <2>4. Job(f, FALSE, "queued") \in Jobs /\ Job(f, FALSE, "queued").closure = f
          /\ ~Job(f, FALSE, "queued").osr
      BY DEF Job, Jobs
    <2>5. jobs' \subseteq Jobs
      BY <1>3, <2>4 DEF IInv, TypeOK
    <2>6. \A g \in Closures : code'[g] = InOptimizationQueue =>
            \E j \in jobs' : j.closure = g /\ ~j.osr
      BY <1>3, <2>3, <2>4 DEF IInv, QueuedHasJob
    <2>7. \A g \in Closures : code'[g] = code[g] \/ code'[g] = InOptimizationQueue
      BY <2>3
    <2>8. cache' \subseteq cache /\ cache' \subseteq cache \cup {made'} /\ made' \in {made, made + 1}
      BY <1>3
    <2> QED BY <1>0, <2>2, <2>3, <2>5, <2>6, <2>7, <2>8, Kept
  <1>4. CASE /\ cache = {}
             /\ made' = made + 1
             /\ cache' = {made'}
             /\ ReplaceCode(f, Optimized(made'))
             /\ Enter(f, Optimized(made'))
             /\ UNCHANGED jobs
    <2>1. Optimized(made') \in Code'
      BY <1>4, CodeGrows DEF IInv
    <2>2. frames' \in Seq([closure : Closures, code : Code'])
      BY <1>4, <2>1, EnterType
    <2>3. /\ code' \in [Closures -> Code'] /\ code'[f] = Optimized(made')
          /\ \A g \in Closures : g # f => code'[g] = code[g]
      BY <1>4, <2>1, ReplaceCodeKeeps
    <2>4. jobs' \subseteq Jobs
      BY <1>4 DEF IInv, TypeOK
    <2>5. \A g \in Closures : code'[g] = InOptimizationQueue =>
            \E j \in jobs' : j.closure = g /\ ~j.osr
      BY <1>4, <2>3, OptimizedCodes DEF IInv, QueuedHasJob
    <2> QED BY <1>0, <1>4, <2>2, <2>3, <2>4, <2>5, Kept
  <1> QED BY <1>1, <1>2, <1>3, <1>4 DEF CompileOptimized

LEMMA CallInv ==
  ASSUME IInv, NEW f \in Closures, Call(f)
  PROVE  IInv'
  <1>1. CASE CompileUnoptimized(f)
    <2>1. /\ ReplaceCode(f, Full) /\ Enter(f, Full)
          /\ UNCHANGED <<jobs, cache, marked, made, bailed>>
      BY <1>1 DEF CompileUnoptimized
    <2>2. Full \in Code'
      BY DEF Code
    <2> QED BY <2>1, <2>2, EnterType, ReplaceCodeInv
  <1>2. CASE \E concurrent \in BOOLEAN : CompileOptimized(f, concurrent)
    BY <1>2, CompileOptimizedInv
  <1>3. CASE TryInstallOptimizedCode(f)
    <2>1. InstallOptimizedFunctions /\ UNCHANGED <<marked, bailed>>
      BY <1>3 DEF TryInstallOptimizedCode
    <2>2. made' \in {made, made + 1} /\ code'[f] \in Code'
      BY <2>1, InstallKeeps
    <2>3. SharedCode \in Code'
      BY <2>2, CodeGrows DEF IInv
    <2>4. CASE IsOptimized(code'[f])
      BY <1>3, <2>1, <2>2, <2>4, EnterType, InstallInv DEF TryInstallOptimizedCode
    <2>5. CASE ~IsOptimized(code'[f])
      BY <1>3, <2>1, <2>2, <2>3, <2>5, EnterType, InstallInv DEF TryInstallOptimizedCode
    <2> QED BY <2>4, <2>5
  <1>4. CASE /\ Enter(f, code[f])
             /\ UNCHANGED <<code, shared, jobs, cache, marked, made, bailed>>
    <2>1. made' \in {made, made + 1} /\ code[f] \in Code' /\ Code' = Code
      BY <1>4 DEF IInv, TypeOK, Code
    <2>2. frames' \in Seq([closure : Closures, code : Code])
      BY <1>4, <2>1, EnterType
    <2> QED BY <1>4, <2>2, FramesKept
  <1> QED BY <1>1, <1>2, <1>3, <1>4 DEF Call

LEMMA ReturnInv ==
  ASSUME IInv, Return
  PROVE  IInv'
  <1> DEFINE left == Front(frames)
             F    == [closure : Closures, code : Code]
  <1>1. frames \in Seq(F) /\ frames # <<>>
    BY DEF IInv, TypeOK, Return
  <1>2. left \in Seq(F)
    BY <1>1, FrontAndLast
  <1>3. CASE frames' = left
    BY <1>2, <1>3, FramesKept DEF Return
  <1>4. CASE left # <<>> /\ frames' = Append(Front(left), [Last(left) EXCEPT !.code = Full])
    <2>1. Front(left) \in Seq(F)
      BY <1>2, <1>4, FrontAndLast
    <2>2. Last(left) \in F
      BY <1>2, <1>4, FrontAndLast
    <2>3. [Last(left) EXCEPT !.code = Full] \in F
      BY <2>2 DEF Code
    <2>4. frames' \in Seq(F)
      BY <1>4, <2>1, <2>3
    <2> QED BY <2>4, FramesKept DEF Return
  <1> QED BY <1>3, <1>4 DEF Return

\* The closures that have a code lose it, and so does the cache.
LEMMA DeoptimizeInv ==
  ASSUME IInv, NEW k \in 1..made, NEW g \in Closures, code[g] = Optimized(k), Deoptimize(k),
         UNCHANGED <<jobs, made, bailed>>,
         frames' \in Seq([closure : Closures, code : Code])
  PROVE  IInv'
  <1>1. /\ marked' = marked \cup {k}
        /\ code' = [f \in Closures |-> IF code[f] = Optimized(k) THEN SharedCode ELSE code[f]]
        /\ cache' = cache \ {k}
    BY DEF Deoptimize
  <1>2. Code' = Code /\ SharedCode \in Code
    BY OptimizedCodes DEF Code
  <1>3. TypeOK'
    BY <1>1, <1>2 DEF IInv, TypeOK
  <1>4. MarkedIsUncached' /\ (cache \cap bailed = {})'
    BY <1>1 DEF IInv, MarkedIsUncached, GivenUpCodeIsGone
  <1>5. ASSUME NEW f \in Closures, NEW l \in marked' PROVE code'[f] # Optimized(l)
    BY <1>1, OptimizedCodes DEF IInv, GivenUpCodeIsGone
  <1>6. QueuedHasJob'
    BY <1>1, OptimizedCodes DEF IInv, QueuedHasJob
  <1> QED BY <1>3, <1>4, <1>5, <1>6 DEF IInv, GivenUpCodeIsGone

LEMMA NotifyDeoptimizedInv ==
  ASSUME IInv, NotifyDeoptimized
  PROVE  IInv'
  <1> DEFINE F == [closure : Closures, code : Code]
             f == Top.closure
             others(k) == \E i \in 1..Len(frames) - 1 : frames[i].code = Optimized(k)
  <1>1. PICK k \in 1..made :
          /\ frames' = [frames EXCEPT ![Len(frames)].code = Full]
          /\ IF others(k)
             THEN /\ \/ code[f] = Optimized(k) /\ Deoptimize(k)
                     \/ /\ code[f] # Optimized(k)
                        /\ IF IsOptimized(code[f]) THEN Deoptimize(code[f][2])
                           ELSE UNCHANGED <<code, cache, marked>>
                  /\ UNCHANGED bailed
             ELSE /\ IF code[f] = Optimized(k)
                     THEN ReplaceCode(f, SharedCode) /\ EvictFromOptimizedCodeMap(k)
                     ELSE UNCHANGED <<code, cache>>
                  /\ bailed' = IF code[f] = Optimized(k) THEN bailed \cup {k} ELSE bailed
                  /\ UNCHANGED marked
    BY DEF NotifyDeoptimized
  <1>2. frames \in Seq(F) /\ frames # <<>> /\ UNCHANGED <<jobs, made>>
    BY DEF IInv, TypeOK, NotifyDeoptimized
  <1>3. f \in Closures
    <2>1. Last(frames) \in F
      BY <1>2, FrontAndLast
    <2> QED BY <2>1 DEF Top
  <1>4. frames' \in Seq(F) /\ Code' = Code
    <2>1. Len(frames) \in 1..Len(frames) /\ frames[Len(frames)] \in F
      BY <1>2, FrontAndLast, ElementOfSeq
    <2>2. [frames[Len(frames)] EXCEPT !.code = Full] \in F
      BY <2>1 DEF Code
    <2> QED BY <1>1, <1>2, <2>1, <2>2 DEF Code
  <1>5. code[f] \in Code
    BY <1>3 DEF IInv, TypeOK
  <1>6. CASE code[f] = Optimized(k) /\ Deoptimize(k) /\ UNCHANGED bailed
    BY <1>2, <1>3, <1>4, <1>6, DeoptimizeInv
  <1>7. CASE IsOptimized(code[f]) /\ Deoptimize(code[f][2]) /\ UNCHANGED bailed
    <2>1. PICK l \in 1..made : code[f] = Optimized(l) /\ code[f][2] = l
      BY <1>5, <1>7, OptimizedCode DEF IInv
    <2> QED BY <1>2, <1>3, <1>4, <1>7, <2>1, DeoptimizeInv
  <1>8. CASE UNCHANGED <<code, cache, marked, bailed>>
    BY <1>2, <1>4, <1>8, FramesKept
  <1>9. CASE /\ code[f] = Optimized(k)
             /\ ReplaceCode(f, SharedCode) /\ EvictFromOptimizedCodeMap(k)
             /\ bailed' = bailed \cup {k}
             /\ UNCHANGED marked
    <2>1. cache' = cache \ {k} /\ SharedCode \in Code' /\ made' \in {made, made + 1}
      BY <1>2, <1>4, <1>9, OptimizedCodes DEF EvictFromOptimizedCodeMap, Code
    <2>2. /\ code' \in [Closures -> Code'] /\ code'[f] = SharedCode
          /\ \A g \in Closures : g # f => code'[g] = code[g]
      BY <1>3, <1>9, <2>1, ReplaceCodeKeeps
    <2>3. TypeOK'
      BY <1>2, <1>4, <1>9, <2>1, <2>2 DEF IInv, TypeOK
    <2>4. QueuedHasJob'
      BY <1>2, <1>3, <2>2, OptimizedCodes DEF IInv, QueuedHasJob
    <2>5. GivenUpCodeIsGone' /\ MarkedIsUncached'
      BY <1>3, <1>9, <2>1, <2>2, OptimizedCodes DEF IInv, GivenUpCodeIsGone, MarkedIsUncached
    <2> QED BY <2>3, <2>4, <2>5 DEF IInv
  <1> QED BY <1>1, <1>6, <1>7, <1>8, <1>9

LEMMA OnStackReplacementInv ==
  ASSUME IInv, NEW concurrent \in BOOLEAN, CompileForOnStackReplacement(concurrent)
  PROVE  IInv'
  <1> DEFINE F == [closure : Closures, code : Code]
             f == Top.closure
  <1>1. /\ frames \in Seq(F) /\ frames # <<>> /\ UNCHANGED <<marked, bailed, cache>>
        /\ jobs \subseteq Jobs
    BY DEF IInv, TypeOK, CompileForOnStackReplacement
  <1>2. f \in Closures /\ Len(frames) \in 1..Len(frames) /\ frames[Len(frames)] \in F
    <2>1. Last(frames) \in F /\ Len(frames) \in 1..Len(frames)
      BY <1>1, FrontAndLast
    <2> QED BY <1>1, <2>1, ElementOfSeq DEF Top
  \* The jobs that may be taken are those of a loop.
  <1>3. ASSUME NEW others \in SUBSET jobs, \A j \in jobs \ others : j.osr, OsrSucceeds(f, others)
        PROVE  IInv'
    <2>1. made' = made + 1 /\ made' \in {made, made + 1}
      BY <1>3 DEF OsrSucceeds
    <2>2. Optimized(made') \in Code'
      BY <2>1, CodeGrows DEF IInv
    <2>3. /\ code' \in [Closures -> Code'] /\ code'[f] = Optimized(made')
          /\ \A g \in Closures : g # f => code'[g] = code[g]
      BY <1>2, <1>3, <2>1, <2>2, ReplaceCodeKeeps DEF OsrSucceeds
    <2>4. frames' \in Seq([closure : Closures, code : Code'])
      <3>1. frames \in Seq([closure : Closures, code : Code'])
        BY <2>1, FramesGrow
      <3>2. [frames[Len(frames)] EXCEPT !.code = Optimized(made')] \in [closure : Closures, code : Code']
        BY <1>2, <2>2
      <3> QED BY <1>2, <1>3, <3>1, <3>2, ExceptSeq DEF OsrSucceeds
    <2>5. jobs' = others /\ jobs' \subseteq Jobs
      BY <1>1, <1>3 DEF OsrSucceeds
    <2>6. \A g \in Closures : code'[g] = InOptimizationQueue =>
            \E j \in jobs' : j.closure = g /\ ~j.osr
      BY <1>2, <1>3, <2>3, <2>5, OptimizedCodes DEF IInv, QueuedHasJob
    <2>7. cache' \subseteq cache /\ cache' \subseteq cache \cup {made'}
      BY <1>1
    <2> QED BY <1>1, <2>1, <2>3, <2>4, <2>5, <2>6, <2>7, Kept
  <1>4. ASSUME NEW others \in SUBSET jobs, \A j \in jobs \ others : j.osr, OsrFails(f, others)
        PROVE  IInv'
    <2>1. UNCHANGED <<frames, made>> /\ jobs' = others /\ made' \in {made, made + 1} /\ Code' = Code
      BY <1>4 DEF OsrFails, Code
    <2>2. frames' \in Seq([closure : Closures, code : Code'])
      BY <1>1, <2>1
    <2>3. SharedCode \in {Lazy, Full} /\ SharedCode \in Code'
      BY <2>1, OptimizedCodes, CodeGrows DEF IInv
    <2>4. /\ code' \in [Closures -> Code']
          /\ \A g \in Closures : code'[g] = code[g] \/ code'[g] = SharedCode
      BY <1>4, <2>1, <2>3 DEF OsrFails, IInv, TypeOK
    <2>5. \A g \in Closures : code'[g] = InOptimizationQueue =>
            \E j \in jobs' : j.closure = g /\ ~j.osr
      BY <1>4, <2>1, <2>4, OptimizedCodes DEF IInv, QueuedHasJob
    <2>6. /\ cache' \subseteq cache /\ cache' \subseteq cache \cup {made'}
          /\ jobs' \subseteq Jobs
      BY <1>1, <1>4, <2>1
    <2> QED BY <1>1, <2>1, <2>2, <2>3, <2>4, <2>5, <2>6, Kept
  <1>5. CASE \E j \in OsrJobs(f) : OsrSucceeds(f, jobs \ {j}) \/ OsrFails(f, jobs \ {j})
    <2>1. PICK j \in OsrJobs(f) : OsrSucceeds(f, jobs \ {j}) \/ OsrFails(f, jobs \ {j})
      BY <1>5
    <2>2. j.osr /\ jobs \ {j} \in SUBSET jobs /\ \A i \in jobs \ (jobs \ {j}) : i.osr
      BY DEF OsrJobs
    <2> QED BY <1>3, <1>4, <2>1, <2>2
  <1>6. CASE jobs' = jobs \cup {Job(f, TRUE, "queued")} /\ UNCHANGED <<code, frames, made>>
    <2>1. Job(f, TRUE, "queued") \in Jobs
      BY <1>2 DEF Job, Jobs
    <2> QED BY <1>1, <1>6, <2>1 DEF IInv, TypeOK, QueuedHasJob, GivenUpCodeIsGone,
                                    MarkedIsUncached, Code
  <1>7. CASE OsrSucceeds(f, jobs) \/ OsrFails(f, jobs)
    <2>1. jobs \in SUBSET jobs /\ \A i \in jobs \ jobs : i.osr
      OBVIOUS
    <2> QED BY <1>3, <1>4, <1>7, <2>1
  <1> QED BY <1>5, <1>6, <1>7 DEF CompileForOnStackReplacement

(***************************************************************************)
(* The invariant.                                                          *)
(***************************************************************************)
LEMMA InitInv == TiersInit => IInv
  <1> SUFFICES ASSUME TiersInit PROVE IInv
    OBVIOUS
  <1>1. made = 0 /\ 1..made = {} /\ <<>> \in Seq([closure : Closures, code : Code])
    BY DEF TiersInit
  <1>2. TypeOK
    BY <1>1 DEF TiersInit, TypeOK, Code
  <1>3. QueuedHasJob
    BY DEF TiersInit, QueuedHasJob, Lazy, InOptimizationQueue
  <1> QED BY <1>2, <1>3 DEF TiersInit, IInv, GivenUpCodeIsGone, MarkedIsUncached

LEMMA StepInv == IInv /\ [TiersNext]_tierVars => IInv'
  <1> SUFFICES ASSUME IInv, [TiersNext]_tierVars PROVE IInv'
    OBVIOUS
  <1>1. CASE CompilerThread
    BY <1>1, CompilerThreadInv
  <1>2. ASSUME NEW f \in Closures, Call(f) PROVE IInv'
    BY <1>2, CallInv
  <1>3. ASSUME NEW f \in Closures, NEW concurrent \in BOOLEAN, OptimizeFunctionOnNextCall(f, concurrent)
        PROVE  IInv'
    <2>1. /\ ReplaceCode(f, CompileOptimizedStub(concurrent))
          /\ UNCHANGED <<frames, jobs, cache, marked, made, bailed>>
      BY <1>3 DEF OptimizeFunctionOnNextCall
    <2>2. frames' \in Seq([closure : Closures, code : Code'])
      BY <2>1, FramesGrow
    <2> QED BY <2>1, <2>2, ReplaceCodeInv
  <1>4. ASSUME NEW f \in Closures, GetOptimizationStatus(f) PROVE IInv'
    <2>1. InstallOptimizedFunctions /\ UNCHANGED <<frames, marked, bailed>>
      BY <1>4 DEF GetOptimizationStatus
    <2>2. frames' \in Seq([closure : Closures, code : Code'])
      BY <2>1, InstallKeeps, FramesGrow
    <2> QED BY <2>1, <2>2, InstallInv
  <1>5. ASSUME NEW f \in Closures, NewClosure(f) PROVE IInv'
    <2>1. /\ (\E k \in cache : ReplaceCode(f, Optimized(k))) \/ ReplaceCode(f, SharedCode)
          /\ UNCHANGED <<frames, jobs, cache, marked, made, bailed>>
      BY <1>5 DEF NewClosure
    <2>2. frames' \in Seq([closure : Closures, code : Code'])
      BY <2>1, FramesGrow
    <2> QED BY <2>1, <2>2, ReplaceCodeInv, OptimizedCodes
  <1>6. ASSUME NEW f \in Closures, DeoptimizeFunction(f) PROVE IInv'
    <2>1. frames' \in Seq([closure : Closures, code : Code])
      BY <1>6 DEF DeoptimizeFunction, IInv, TypeOK
    <2> QED BY <1>6, <2>1, DeoptimizeInv DEF DeoptimizeFunction
  <1>7. CASE NeverOptimizeFunction
    BY <1>7, FramesKept DEF NeverOptimizeFunction, IInv, TypeOK
  <1>8. CASE Return
    BY <1>8, ReturnInv
  <1>9. CASE NotifyDeoptimized
    BY <1>9, NotifyDeoptimizedInv
  <1>10. ASSUME NEW concurrent \in BOOLEAN, CompileForOnStackReplacement(concurrent) PROVE IInv'
    BY <1>10, OnStackReplacementInv
  <1>11. CASE UNCHANGED tierVars
    BY <1>11, FramesKept DEF tierVars, IInv, TypeOK
  <1> QED BY <1>1, <1>2, <1>3, <1>4, <1>5, <1>6, <1>7, <1>8, <1>9, <1>10, <1>11 DEF TiersNext

\* A closure in the optimisation queue has a job that will give it code: nobody who waits
\* for the queue (GetOptimizationStatus) waits for nothing.
THEOREM QueueHasJobs == TiersSpec => []QueuedHasJob
  <1>1. IInv => QueuedHasJob
    BY DEF IInv
  <1> QED BY InitInv, StepInv, <1>1, PTL DEF TiersSpec

\* Code that bailed out is not in the cache, and no closure has code marked for
\* deoptimisation.
THEOREM GivenUpCodeStaysGone == TiersSpec => []GivenUpCodeIsGone
  <1>1. IInv => GivenUpCodeIsGone
    BY DEF IInv
  <1> QED BY InitInv, StepInv, <1>1, PTL DEF TiersSpec

-----------------------------------------------------------------------------
(***************************************************************************)
(* 2. V8Cache: the cache of results.                                       *)
(***************************************************************************)
Entry == [key : Keys, value : 1..Len(values)]

CacheType ==
  /\ entries \in [1..Capacity -> {Hole} \cup Entry]
  /\ size \in 0..Capacity
  /\ finger \in 1..Capacity
  /\ asking \in Seq([key : Keys, size : 0..Capacity, finger : 1..Capacity])
  /\ answer \in {Hole} \cup Entry
  /\ values \in Seq(Keys)

CacheInv == CacheType /\ CacheIsConsistent

LEMMA FirstAndLast ==
  ASSUME NEW S, NEW s \in Seq(S), s # <<>>
  PROVE  Last(s) \in S /\ Front(s) \in Seq(S) /\ Len(Front(s)) = Len(s) - 1
         /\ \A i \in 1..Len(s) - 1 : Front(s)[i] = s[i]
  <1>1. Len(s) \in Nat /\ Len(s) > 0  OBVIOUS
  <1>2. Last(s) \in S  BY <1>1 DEF Last
  <1>3. Front(s) \in Seq(S) /\ Len(Front(s)) = Len(s) - 1
    <2> DEFINE n == Len(s) - 1
    <2>1. n \in Nat /\ Len(s) = n + 1  BY <1>1
    <2>2. \A i \in 1..n : s[i] \in S  BY <1>1
    <2> HIDE DEF n
    <2>3. n \in Int /\ 1 \in Int  BY <2>1
    <2>4. SubSeq(s, 1, n) \in Seq(S)
      BY <2>2, <2>3, SubSeqProperties
    <2>5. Len(SubSeq(s, 1, n)) = n
      BY <2>1, <2>2, <2>3, SubSeqProperties
    <2> QED BY <2>1, <2>4, <2>5 DEF Front, n
  <1>4. ASSUME NEW i \in 1..Len(s) - 1 PROVE Front(s)[i] = s[i]
    BY <1>1, SubSeqProperties DEF Front
  <1> QED BY <1>2, <1>3, <1>4

\* The bounds of the finger: the entries in use, or the first one.
LEMMA FingerRange ==
  ASSUME NEW n \in Nat
  PROVE  Max({1, n}) = IF n = 0 THEN 1 ELSE n
  <1>1. {1, n} \subseteq 0..n + 1 /\ {1, n} # {} /\ n + 1 \in Nat  OBVIOUS
  <1>2. Max({1, n}) \in {1, n} /\ Max({1, n}) >= 1 /\ Max({1, n}) >= n
    BY <1>1, MaxOf
  <1> QED BY <1>2

LEMMA HoleIsNoEntry == Hole \notin Entry /\ Hole.value = 0
  BY DEF Hole, Entry

LEMMA FindIsFound ==
  ASSUME CacheInv, NEW key \in Keys, Find(key) # 0
  PROVE  Find(key) \in 1..size /\ entries[Find(key)].key = key
  <1> DEFINE found == {i \in 1..Capacity : entries[i].key = key /\ (i <= finger \/ i <= size)}
             under == {i \in found : i <= finger}
  <1>1. found # {} /\ Find(key) = IF under # {} THEN Max(under) ELSE Max(found)
    BY DEF Find
  <1>2. Capacity \in Nat /\ found \subseteq 0..Capacity /\ under \subseteq 0..Capacity
    BY CapacityAssumption
  <1>3. Find(key) \in found
    BY <1>1, <1>2, MaxOf
  <1>4. entries[Find(key)] # Hole
    BY <1>3, KeysAssumption DEF Hole
  <1> QED BY <1>3, <1>4 DEF CacheInv, CacheType, CacheIsConsistent

LEMMA CacheInitInv == CacheInit => CacheInv
  <1> SUFFICES ASSUME CacheInit PROVE CacheInv
    OBVIOUS
  <1>1. CacheType
    BY CapacityAssumption DEF CacheInit, CacheType
  <1>2. CacheIsConsistent
    BY CapacityAssumption, FingerRange DEF CacheInit, CacheIsConsistent
  <1> QED BY <1>1, <1>2 DEF CacheInv

LEMMA GetFromCacheKeeps ==
  ASSUME CacheInv, NEW key \in Keys, GetFromCache(key)
  PROVE  CacheInv'
  <1>1. CASE Find(key) # 0
    <2>1. finger' = Find(key) /\ answer' = entries[Find(key)]
          /\ entries' = entries /\ size' = size /\ asking' = asking /\ values' = values
      BY <1>1 DEF GetFromCache
    <2>2. Find(key) \in 1..size
      BY <1>1, FindIsFound
    <2>3. entries[Find(key)] \in Entry /\ size \in 1..Capacity
      BY <2>2, CapacityAssumption DEF CacheInv, CacheType, CacheIsConsistent
    <2>4. CacheType'
      <3>1. finger' \in 1..Capacity
        BY <2>1, <2>2, <2>3, CapacityAssumption
      <3> QED BY <2>1, <2>3, <3>1 DEF CacheInv, CacheType, Entry
    <2>5. CacheIsConsistent'
      BY <2>1, <2>2, <2>3, FingerRange DEF CacheInv, CacheType, CacheIsConsistent
    <2> QED BY <2>4, <2>5 DEF CacheInv
  <1>2. CASE Find(key) = 0
    <2>1. asking' = Append(asking, [key |-> key, size |-> size, finger |-> finger])
          /\ entries' = entries /\ size' = size /\ finger' = finger /\ answer' = answer
          /\ values' = values
      BY <1>2 DEF GetFromCache
    <2>2. CacheType'
      BY <2>1 DEF CacheInv, CacheType, Entry
    <2>3. CacheIsConsistent'
      BY <2>1 DEF CacheInv, CacheIsConsistent
    <2> QED BY <2>2, <2>3 DEF CacheInv
  <1> QED BY <1>1, <1>2

LEMMA CacheResultKeeps ==
  ASSUME CacheInv, CacheResult
  PROVE  CacheInv'
  <1> DEFINE ask   == Last(asking)
             index == IF size < Capacity THEN size + 1
                      ELSE IF finger = Capacity THEN 1 ELSE finger + 1
             entry == [key |-> ask.key, value |-> Len(values) + 1]
  <1>1. /\ values' = Append(values, ask.key)
        /\ entries' = [entries EXCEPT ![index] = entry]
        /\ size' = IF size < Capacity THEN size + 1 ELSE size
        /\ finger' = index /\ answer' = entry
        /\ asking' = Front(asking) /\ asking # <<>>
    BY DEF CacheResult, Reread
  <1>2. ask \in [key : Keys, size : 0..Capacity, finger : 1..Capacity]
        /\ asking' \in Seq([key : Keys, size : 0..Capacity, finger : 1..Capacity])
    BY <1>1, FirstAndLast DEF CacheInv, CacheType
  <1>3. index \in 1..Capacity /\ size' \in 1..Capacity /\ index <= size'
    BY <1>1, CapacityAssumption DEF CacheInv, CacheType
  <1>4. /\ values' \in Seq(Keys) /\ Len(values') = Len(values) + 1 /\ Len(values) \in Nat
        /\ values'[Len(values) + 1] = ask.key
        /\ \A k \in 1..Len(values) : values'[k] = values[k]
    BY <1>1, <1>2 DEF CacheInv, CacheType
  <1>5. entry \in Entry' /\ Entry \subseteq Entry' /\ entry # Hole
    BY <1>2, <1>4 DEF Entry, Hole
  <1>6. \A i \in 1..Capacity : entries'[i] = IF i = index THEN entry ELSE entries[i]
    BY <1>1 DEF CacheInv, CacheType
  <1> HIDE DEF ask, index, entry
  <1>7. CacheType'
    <2>1. entries' \in [1..Capacity -> {Hole} \cup Entry']
      BY <1>1, <1>3, <1>5 DEF CacheInv, CacheType
    <2> QED BY <1>1, <1>2, <1>3, <1>4, <1>5, <2>1 DEF CacheType
  <1>8. CacheIsConsistent'
    <2>1. ASSUME NEW i \in 1..Capacity PROVE (entries'[i] = Hole) = (i > size')
      <3>1. i # index => (i > size' <=> i > size)
        BY <1>1, <1>3, CapacityAssumption DEF CacheInv, CacheType, index
      <3>2. CASE i = index
        BY <1>1, <1>3, <1>5, <1>6, <3>2, CapacityAssumption DEF CacheInv, CacheType
      <3>3. CASE i # index
        BY <1>6, <3>1, <3>3 DEF CacheInv, CacheIsConsistent
      <3> QED BY <3>2, <3>3
    <2>2. ASSUME NEW i \in 1..size' PROVE values'[entries'[i].value] = entries'[i].key
      <3>1. i \in 1..Capacity /\ (i # index => i \in 1..size)
        BY <1>1, <1>3, CapacityAssumption DEF CacheInv, CacheType, index
      <3>2. CASE i = index
        BY <1>4, <1>6, <3>1, <3>2 DEF entry
      <3>3. CASE i # index
        <4>1. entries'[i] = entries[i] /\ entries[i] # Hole
          BY <1>6, <3>1, <3>3 DEF CacheInv, CacheType, CacheIsConsistent
        <4>2. entries[i].value \in 1..Len(values)
          BY <3>1, <4>1 DEF CacheInv, CacheType, Entry
        <4>3. values[entries[i].value] = entries[i].key
          BY <3>1, <3>3 DEF CacheInv, CacheIsConsistent
        <4> QED BY <1>4, <4>1, <4>2, <4>3
      <3> QED BY <3>2, <3>3
    <2>3. values'[answer'.value] = answer'.key
      BY <1>1, <1>4 DEF entry
    <2>4. finger' \in 1..Max({1, size'})
      BY <1>1, <1>3, FingerRange
    <2>5. entries'[finger'] = answer'
      BY <1>1, <1>3, <1>6
    <2> QED BY <2>1, <2>2, <2>3, <2>4, <2>5 DEF CacheIsConsistent
  <1> QED BY <1>7, <1>8 DEF CacheInv

LEMMA CacheExceptionKeeps ==
  ASSUME CacheInv, CacheException
  PROVE  CacheInv'
  <1>1. asking # <<>> /\ asking' = Front(asking) /\ UNCHANGED <<entries, size, finger, answer, values>>
    BY DEF CacheException
  <1>2. asking' \in Seq([key : Keys, size : 0..Capacity, finger : 1..Capacity])
    BY <1>1, FirstAndLast DEF CacheInv, CacheType
  <1>3. CacheType'
    BY <1>1, <1>2 DEF CacheInv, CacheType, Entry
  <1> QED BY <1>1, <1>3 DEF CacheInv, CacheIsConsistent

LEMMA ClearCacheKeeps ==
  ASSUME CacheInv, ClearCache
  PROVE  CacheInv'
  <1>1. CacheType'
    BY CapacityAssumption DEF ClearCache, CacheInv, CacheType, Entry
  <1>2. CacheIsConsistent'
    BY CapacityAssumption, FingerRange DEF ClearCache, CacheInv, CacheIsConsistent
  <1> QED BY <1>1, <1>2 DEF CacheInv

\* Whatever calls of the function and clears happen, within each other and while a value is being
\* made, the entries in use are those up to the size, each with a value made for its key, and the
\* finger is on the entry that was answered last.
THEOREM CacheConsistent == CacheSpec => []CacheIsConsistent
  <1>1. CacheInv /\ CacheNext => CacheInv'
    BY GetFromCacheKeeps, CacheResultKeeps, CacheExceptionKeeps, ClearCacheKeeps DEF CacheNext
  <1>2. CacheInv /\ UNCHANGED cacheVars => CacheInv'
    BY DEF CacheInv, CacheType, CacheIsConsistent, Entry, cacheVars
  <1>3. CacheInv => CacheIsConsistent
    BY DEF CacheInv
  <1> QED BY CacheInitInv, <1>1, <1>2, <1>3, PTL DEF CacheSpec

-----------------------------------------------------------------------------
(***************************************************************************)
(* 3. V8Scopes: variables, constants and the chain of contexts.            *)
(***************************************************************************)
Contents   == Values \cup {"undefined", "hole", "function"}
Binding    == {NoSlot} \cup [value : Contents, mode : {"VAR", "LET", "CONST_LEGACY", "CONST",
                                                      "FUNCTION_NAME"}]
Own        == {Absent} \cup [value : Contents, attrs : SUBSET {"READ_ONLY", "DONT_DELETE"}]
AnyContext == [kind  : {"native", "function", "with", "catch", "block"},
               slots : [Names -> Binding], ext : [Names -> Own]]

ScopesType ==
  /\ chain \in Seq(AnyContext) /\ chain # <<>>
  /\ chain[1].kind = "native"

\* Where a hole may be: in a slot whose loads look for it, in a property that is a constant.
SlotAwaits(b)     == b.value = "hole" => b.mode \in {"LET", "CONST_LEGACY", "CONST"}
PropertyAwaits(p) == p.value = "hole" => ReadOnly(p.attrs)
ContextAwaits(c)  == \A n \in Names : SlotAwaits(c.slots[n]) /\ PropertyAwaits(c.ext[n])

\* The invariant of the chain.
ScopesInv == ScopesType /\ HoleAwaited

\* What a step does to the chain: nothing, a write to a slot that holds no constant's value, or
\* to a property that holds none or may be deleted, or a scope entered or left; and never of a
\* hole where none may be.
SlotWritten ==
  \E i \in 1..Len(chain), n \in Names, v \in Contents :
    /\ WriteSlot(i, n, v)
    /\ v # "hole"
    /\ chain[i].slots[n] # NoSlot
    /\ <<i, n>> \notin ConstantSlots

PropertyWritten ==
  \E i \in 1..Len(chain), n \in Names, p \in Own :
    /\ WriteProperty(i, n, p)
    /\ PropertyAwaits(p)
    /\ \/ <<i, n>> \notin ConstantProperties
       \/ /\ "DONT_DELETE" \notin chain[i].ext[n].attrs
          /\ p = Absent \/ (i = 1 /\ p.value = "function")

ScopeEntered == \E c \in AnyContext : ContextAwaits(c) /\ chain' = Append(chain, c)
ScopeLeft    == Len(chain) > 1 /\ chain' = Front(chain)

Permitted == UNCHANGED chain \/ SlotWritten \/ PropertyWritten \/ ScopeEntered \/ ScopeLeft

\* The body of ConstantsStay.
ConstantsKept ==
  /\ \A c \in ConstantSlots :
       c[1] <= Len(chain') => chain'[c[1]].slots[c[2]] = chain[c[1]].slots[c[2]]
  /\ \A c \in ConstantProperties :
       LET old == chain[c[1]].ext[c[2]]
       IN c[1] <= Len(chain') =>
            \/ chain'[c[1]].ext[c[2]] = old
            \/ /\ "DONT_DELETE" \notin old.attrs
               /\ \/ chain'[c[1]].ext[c[2]] = Absent
                  \/ c[1] = 1 /\ chain'[1].ext[c[2]].value = "function"

-----------------------------------------------------------------------------
LEMMA WrittenChain ==
  ASSUME ScopesType, NEW i \in 1..Len(chain), NEW n \in Names
  PROVE  /\ \A v \in Contents : WriteSlot(i, n, v) /\ chain[i].slots[n] # NoSlot =>
              /\ ScopesType' /\ Len(chain') = Len(chain)
              /\ chain'[i].slots[n].value = v
              /\ \A j \in 1..Len(chain), m \in Names :
                   /\ chain'[j].ext[m] = chain[j].ext[m]
                   /\ <<j, m>> # <<i, n>> => chain'[j].slots[m] = chain[j].slots[m]
         /\ \A p \in Own : WriteProperty(i, n, p) =>
              /\ ScopesType' /\ Len(chain') = Len(chain)
              /\ \A j \in 1..Len(chain), m \in Names :
                   /\ chain'[j].slots[m] = chain[j].slots[m]
                   /\ chain'[j].ext[m] = IF <<j, m>> = <<i, n>> THEN p ELSE chain[j].ext[m]
  <1>0. chain \in Seq(AnyContext) /\ chain # <<>> /\ chain[i] \in AnyContext
        /\ chain[i].slots \in [Names -> Binding] /\ chain[i].ext \in [Names -> Own]
    <2>1. chain \in Seq(AnyContext) /\ chain # <<>>
      BY DEF ScopesType
    <2>2. chain[i] \in AnyContext
      BY <2>1
    <2> QED BY <2>1, <2>2 DEF AnyContext
  <1>1. ASSUME NEW v \in Contents, WriteSlot(i, n, v), chain[i].slots[n] # NoSlot
        PROVE  /\ ScopesType' /\ Len(chain') = Len(chain)
               /\ chain'[i].slots[n].value = v
               /\ \A j \in 1..Len(chain), m \in Names :
                    /\ chain'[j].ext[m] = chain[j].ext[m]
                    /\ <<j, m>> # <<i, n>> => chain'[j].slots[m] = chain[j].slots[m]
    <2> DEFINE b == [chain[i].slots[n] EXCEPT !.value = v]
               s == [chain[i].slots EXCEPT ![n] = b]
               c == [chain[i] EXCEPT !.slots = s]
    <2>1. chain' = [chain EXCEPT ![i] = c]
      BY <1>0, <1>1 DEF WriteSlot
    <2>2. b \in Binding /\ b.value = v
      BY <1>0, <1>1 DEF Binding
    <2>3. /\ s \in [Names -> Binding] /\ s[n] = b
          /\ \A m \in Names : m # n => s[m] = chain[i].slots[m]
      BY <1>0, <2>2
    <2> HIDE DEF b, s
    <2>4. c \in AnyContext /\ c.ext = chain[i].ext /\ c.slots = s /\ c.kind = chain[i].kind
      BY <1>0, <2>3 DEF AnyContext
    <2> HIDE DEF c
    <2>5. chain' \in Seq(AnyContext) /\ Len(chain') = Len(chain)
      BY <1>0, <2>1, <2>4
    <2>6. \A j \in 1..Len(chain) : chain'[j] = IF j = i THEN c ELSE chain[j]
      BY <1>0, <2>1
    <2>7. chain'[1].kind = "native" /\ chain' # <<>>
      BY <1>0, <2>4, <2>5, <2>6 DEF ScopesType
    <2> QED BY <2>2, <2>3, <2>4, <2>5, <2>6, <2>7 DEF ScopesType
  <1>2. ASSUME NEW p \in Own, WriteProperty(i, n, p)
        PROVE  /\ ScopesType' /\ Len(chain') = Len(chain)
               /\ \A j \in 1..Len(chain), m \in Names :
                    /\ chain'[j].slots[m] = chain[j].slots[m]
                    /\ chain'[j].ext[m] = IF <<j, m>> = <<i, n>> THEN p ELSE chain[j].ext[m]
    <2> DEFINE e == [chain[i].ext EXCEPT ![n] = p]
               c == [chain[i] EXCEPT !.ext = e]
    <2>1. chain' = [chain EXCEPT ![i] = c]
      BY <1>0, <1>2 DEF WriteProperty
    <2>2. e \in [Names -> Own] /\ \A m \in Names : e[m] = IF m = n THEN p ELSE chain[i].ext[m]
      BY <1>0
    <2> HIDE DEF e
    <2>4. c \in AnyContext /\ c.ext = e /\ c.slots = chain[i].slots /\ c.kind = chain[i].kind
      BY <1>0, <2>2 DEF AnyContext
    <2> HIDE DEF c
    <2>5. chain' \in Seq(AnyContext) /\ Len(chain') = Len(chain)
      BY <1>0, <2>1, <2>4
    <2>6. \A j \in 1..Len(chain) : chain'[j] = IF j = i THEN c ELSE chain[j]
      BY <1>0, <2>1
    <2>7. chain'[1].kind = "native" /\ chain' # <<>>
      BY <1>0, <2>4, <2>5, <2>6 DEF ScopesType
    <2> QED BY <2>2, <2>4, <2>5, <2>6, <2>7 DEF ScopesType
  <1> QED BY <1>1, <1>2

LEMMA Moved ==
  ASSUME ScopesType, ScopeEntered \/ ScopeLeft
  PROVE  /\ ScopesType'
         /\ \A j \in 1..Len(chain) : j <= Len(chain') => chain'[j] = chain[j]
  <1>0. chain \in Seq(AnyContext) /\ Len(chain) \in Nat /\ Len(chain) >= 1
    BY DEF ScopesType
  <1>1. CASE ScopeEntered
    <2>1. PICK c \in AnyContext : chain' = Append(chain, c)
      BY <1>1 DEF ScopeEntered
    <2>2. chain' \in Seq(AnyContext) /\ Len(chain') = Len(chain) + 1
          /\ \A j \in 1..Len(chain) : chain'[j] = chain[j]
      BY <1>0, <2>1
    <2> QED BY <1>0, <2>2 DEF ScopesType
  <1>2. CASE ScopeLeft
    <2>1. chain' = SubSeq(chain, 1, Len(chain) - 1) /\ Len(chain) > 1
      BY <1>2 DEF ScopeLeft, Front
    <2> DEFINE k == Len(chain) - 1
    <2>2. k \in Nat /\ k >= 1 /\ \A i \in 1..k : chain[i] \in AnyContext
      BY <1>0, <2>1
    <2> HIDE DEF k
    <2>3. SubSeq(chain, 1, k) \in Seq(AnyContext) /\ Len(SubSeq(chain, 1, k)) = k
          /\ \A i \in 1..k : SubSeq(chain, 1, k)[i] = chain[i]
      BY <2>2, SubSeqProperties
    <2>4. chain' = SubSeq(chain, 1, k)
      BY <2>1 DEF k
    <2>5. chain'[1] = chain[1]
      <3>1. 1 \in 1..k  BY <2>2
      <3> QED BY <2>3, <2>4, <3>1
    <2>6. chain' # <<>>
      <3>1. Len(chain') # 0  BY <2>2, <2>3, <2>4
      <3> QED BY <3>1
    <2> QED BY <2>2, <2>3, <2>4, <2>5, <2>6 DEF ScopesType
  <1> QED BY <1>1, <1>2

LEMMA PermittedKeeps ==
  ASSUME ScopesType, Permitted
  PROVE  ScopesType' /\ ConstantsKept
  <1>1. CASE UNCHANGED chain
    BY <1>1 DEF ScopesType, ConstantsKept
  <1>2. CASE SlotWritten
    <2>1. PICK i \in 1..Len(chain), n \in Names, v \in Contents :
            /\ WriteSlot(i, n, v) /\ v # "hole"
            /\ chain[i].slots[n] # NoSlot /\ <<i, n>> \notin ConstantSlots
      BY <1>2 DEF SlotWritten
    <2>2. /\ ScopesType' /\ Len(chain') = Len(chain)
          /\ \A j \in 1..Len(chain), m \in Names :
               /\ chain'[j].ext[m] = chain[j].ext[m]
               /\ <<j, m>> # <<i, n>> => chain'[j].slots[m] = chain[j].slots[m]
      BY <2>1, WrittenChain
    <2>3. ASSUME NEW c \in ConstantSlots
          PROVE  chain'[c[1]].slots[c[2]] = chain[c[1]].slots[c[2]]
      BY <2>1, <2>2 DEF ConstantSlots, Current
    <2>4. ASSUME NEW c \in ConstantProperties
          PROVE  chain'[c[1]].ext[c[2]] = chain[c[1]].ext[c[2]]
      BY <2>2 DEF ConstantProperties, Current
    <2> QED BY <2>2, <2>3, <2>4 DEF ConstantsKept
  <1>3. CASE PropertyWritten
    <2>1. PICK i \in 1..Len(chain), n \in Names, p \in Own :
            /\ WriteProperty(i, n, p)
            /\ \/ <<i, n>> \notin ConstantProperties
               \/ /\ "DONT_DELETE" \notin chain[i].ext[n].attrs
                  /\ p = Absent \/ (i = 1 /\ p.value = "function")
      BY <1>3 DEF PropertyWritten
    <2>2. /\ ScopesType' /\ Len(chain') = Len(chain)
          /\ \A j \in 1..Len(chain), m \in Names :
               /\ chain'[j].slots[m] = chain[j].slots[m]
               /\ chain'[j].ext[m] = IF <<j, m>> = <<i, n>> THEN p ELSE chain[j].ext[m]
      BY <2>1, WrittenChain
    <2>3. ASSUME NEW c \in ConstantSlots
          PROVE  chain'[c[1]].slots[c[2]] = chain[c[1]].slots[c[2]]
      BY <2>2 DEF ConstantSlots, Current
    <2>4. ASSUME NEW c \in ConstantProperties
          PROVE  \/ chain'[c[1]].ext[c[2]] = chain[c[1]].ext[c[2]]
                 \/ /\ "DONT_DELETE" \notin chain[c[1]].ext[c[2]].attrs
                    /\ \/ chain'[c[1]].ext[c[2]] = Absent
                       \/ c[1] = 1 /\ chain'[1].ext[c[2]].value = "function"
      <3>1. PICK j \in 1..Len(chain), m \in Names : c = <<j, m>>
        BY DEF ConstantProperties, Current
      <3>2. CASE <<j, m>> = <<i, n>>
        BY <2>1, <2>2, <3>1, <3>2
      <3>3. CASE <<j, m>> # <<i, n>>
        BY <2>2, <3>1, <3>3
      <3> QED BY <3>2, <3>3
    <2> QED BY <2>2, <2>3, <2>4 DEF ConstantsKept
  <1>4. CASE ScopeEntered \/ ScopeLeft
    <2>1. ScopesType' /\ \A j \in 1..Len(chain) : j <= Len(chain') => chain'[j] = chain[j]
      BY <1>4, Moved
    <2>2. ASSUME NEW c \in ConstantSlots, c[1] <= Len(chain')
          PROVE  chain'[c[1]].slots[c[2]] = chain[c[1]].slots[c[2]]
      BY <2>1, <2>2 DEF ConstantSlots, Current
    <2>3. ASSUME NEW c \in ConstantProperties, c[1] <= Len(chain')
          PROVE  chain'[c[1]].ext[c[2]] = chain[c[1]].ext[c[2]]
      BY <2>1, <2>3 DEF ConstantProperties, Current
    <2> QED BY <2>1, <2>2, <2>3 DEF ConstantsKept
  <1> QED BY <1>1, <1>2, <1>3, <1>4 DEF Permitted

\* No permitted step puts a hole where none may be.
LEMMA PermittedAwaits ==
  ASSUME ScopesInv, Permitted
  PROVE  HoleAwaited'
  <1>0. ScopesType /\ \A i \in 1..Len(chain) : ContextAwaits(chain[i])
    BY DEF ScopesInv, HoleAwaited, Current, ContextAwaits, SlotAwaits, PropertyAwaits
  <1>1. SUFFICES ASSUME NEW j \in 1..Len(chain'), NEW m \in Names
                 PROVE  SlotAwaits(chain'[j].slots[m]) /\ PropertyAwaits(chain'[j].ext[m])
    BY DEF HoleAwaited, Current, SlotAwaits, PropertyAwaits
  <1>2. \A i \in 1..Len(chain) :
          SlotAwaits(chain[i].slots[m]) /\ PropertyAwaits(chain[i].ext[m])
    BY <1>0 DEF ContextAwaits
  <1>3. CASE UNCHANGED chain
    BY <1>2, <1>3
  <1>4. CASE SlotWritten
    <2>1. PICK i \in 1..Len(chain), n \in Names, v \in Contents :
            WriteSlot(i, n, v) /\ v # "hole" /\ chain[i].slots[n] # NoSlot
      BY <1>4 DEF SlotWritten
    <2>2. /\ Len(chain') = Len(chain) /\ chain'[i].slots[n].value = v
          /\ chain'[j].ext[m] = chain[j].ext[m]
          /\ <<j, m>> # <<i, n>> => chain'[j].slots[m] = chain[j].slots[m]
      BY <1>0, <2>1, WrittenChain
    <2>3. CASE <<j, m>> = <<i, n>>
      BY <1>2, <2>1, <2>2, <2>3 DEF SlotAwaits
    <2>4. CASE <<j, m>> # <<i, n>>
      BY <1>2, <2>2, <2>4
    <2> QED BY <2>3, <2>4
  <1>5. CASE PropertyWritten
    <2>1. PICK i \in 1..Len(chain), n \in Names, p \in Own :
            WriteProperty(i, n, p) /\ PropertyAwaits(p)
      BY <1>5 DEF PropertyWritten
    <2>2. /\ Len(chain') = Len(chain)
          /\ chain'[j].slots[m] = chain[j].slots[m]
          /\ chain'[j].ext[m] = IF <<j, m>> = <<i, n>> THEN p ELSE chain[j].ext[m]
      BY <1>0, <2>1, WrittenChain
    <2> QED BY <1>2, <2>1, <2>2
  <1>6. CASE ScopeEntered
    <2>1. PICK c \in AnyContext : ContextAwaits(c) /\ chain' = Append(chain, c)
      BY <1>6 DEF ScopeEntered
    <2>2. chain \in Seq(AnyContext)
      BY <1>0 DEF ScopesType
    <2>3. chain'[j] = c \/ (j \in 1..Len(chain) /\ chain'[j] = chain[j])
      BY <2>1, <2>2
    <2> QED BY <1>2, <2>1, <2>3 DEF ContextAwaits
  <1>7. CASE ScopeLeft
    <2>1. j <= Len(chain') /\ j \in Nat /\ j >= 1
      <3>1. chain' \in Seq(AnyContext)
        BY <1>0, <1>7, Moved DEF ScopesType
      <3> QED BY <3>1
    <2>2. chain' = SubSeq(chain, 1, Len(chain) - 1) /\ Len(chain) \in Nat
      BY <1>0, <1>7 DEF ScopeLeft, Front, ScopesType
    <2>3. j \in 1..Len(chain)
      <3>1. Len(chain') = Len(chain) - 1
        BY <1>7, <2>2 DEF ScopeLeft
      <3> QED BY <2>1, <2>2, <3>1
    <2>4. chain'[j] = chain[j]
      BY <1>0, <1>7, <2>1, <2>3, Moved
    <2> QED BY <1>2, <2>3, <2>4
  <1> QED BY <1>3, <1>4, <1>5, <1>6, <1>7 DEF Permitted

-----------------------------------------------------------------------------
LEMMA Scopes ==
  ASSUME ScopesType
  PROVE  /\ Len(chain) \in Nat /\ Len(chain) >= 1
         /\ declaration_context \in 1..Len(chain)
         /\ \A n \in Names, k \in 0..Len(chain) :
              /\ Lookup(n, k) \in 0..k
              /\ Lookup(n, k) # 0 => InObject(Lookup(n, k), n) \/ InSlot(Lookup(n, k), n)
         /\ \A i \in 1..Len(chain), n \in Names :
              /\ chain[i].slots[n] \in Binding /\ chain[i].ext[n] \in Own
  <1>1. chain \in Seq(AnyContext) /\ Len(chain) \in Nat /\ Len(chain) >= 1
    BY DEF ScopesType
  <1>2. declaration_context \in 1..Len(chain)
    <2> DEFINE S == {i \in 1..Current : chain[i].kind \in {"function", "native"}}
    <2>1. S \subseteq 0..Len(chain) /\ 1 \in S
      BY <1>1 DEF ScopesType, Current
    <2>2. S \subseteq 1..Len(chain)
      BY DEF Current
    <2> HIDE DEF S
    <2>3. Max(S) \in S
      BY <1>1, <2>1, MaxOf
    <2> QED BY <2>2, <2>3 DEF declaration_context, S
  <1>3. ASSUME NEW n \in Names, NEW k \in 0..Len(chain)
        PROVE  /\ Lookup(n, k) \in 0..k
               /\ Lookup(n, k) # 0 => InObject(Lookup(n, k), n) \/ InSlot(Lookup(n, k), n)
    <2> DEFINE S == {i \in 1..k : InObject(i, n) \/ InSlot(i, n)}
    <2>1. k \in Nat /\ {0} \cup S \subseteq 0..k /\ {0} \cup S # {}
      BY <1>1
    <2>2. \A i \in S : InObject(i, n) \/ InSlot(i, n)
      OBVIOUS
    <2>3. Lookup(n, k) = Max({0} \cup S)
      BY DEF Lookup
    <2> HIDE DEF S
    <2>4. Max({0} \cup S) \in {0} \cup S
      BY <2>1, MaxOf
    <2> QED BY <2>1, <2>2, <2>3, <2>4
  <1>4. ASSUME NEW i \in 1..Len(chain), NEW n \in Names
        PROVE  chain[i].slots[n] \in Binding /\ chain[i].ext[n] \in Own
    <2>1. chain[i] \in AnyContext
      BY <1>1
    <2> QED BY <2>1 DEF AnyContext
  <1> QED BY <1>1, <1>2, <1>3, <1>4

\* A property that may be written holds no constant's value.
LEMMA NotReadOnly ==
  ASSUME NEW i, NEW n, ~ReadOnly(chain[i].ext[n].attrs)
  PROVE  <<i, n>> \notin ConstantProperties
  BY DEF ConstantProperties

LEMMA AbsentIsWritable ==
  ASSUME NEW i, NEW n, chain[i].ext[n] = Absent
  PROVE  <<i, n>> \notin ConstantProperties
  BY DEF ConstantProperties, Absent, Property, ReadOnly

LEMMA NewProperty ==
  ASSUME NEW v \in Contents, NEW attrs \in SUBSET {"READ_ONLY", "DONT_DELETE"}
  PROVE  Property(v, attrs) \in Own
  BY DEF Own, Property

\* Any other value than the hole, and no property at all, may be anywhere.
LEMMA ValueAwaits ==
  /\ \A v, attrs : v # "hole" => PropertyAwaits(Property(v, attrs))
  /\ PropertyAwaits(Absent)
  BY DEF PropertyAwaits, Property, Absent

LEMMA OldAttributes ==
  ASSUME ScopesType, NEW i \in 1..Len(chain), NEW n \in Names, chain[i].ext[n] # Absent
  PROVE  chain[i].ext[n].attrs \in SUBSET {"READ_ONLY", "DONT_DELETE"}
  BY Scopes DEF Own

LEMMA SetPropertyPermitted ==
  ASSUME ScopesType, NEW i \in 1..Len(chain), NEW n \in Names, NEW v \in Contents,
         NEW attrs \in SUBSET {"READ_ONLY", "DONT_DELETE"}, NEW strict \in BOOLEAN,
         v # "hole", SetProperty(i, n, v, attrs, strict)
  PROVE  Permitted /\ result' # "hole"
  <1> DEFINE old == chain[i].ext[n]
  <1>1. CASE old = Absent /\ ~InObject(i, n)
    <2>1. WriteProperty(i, n, Property(v, attrs)) /\ result' = "ok"
      BY <1>1 DEF SetProperty
    <2> QED BY <1>1, <2>1, AbsentIsWritable, NewProperty, ValueAwaits
            DEF Permitted, PropertyWritten
  <1>2. CASE old = Absent /\ InObject(i, n)
    BY <1>2 DEF SetProperty, Permitted
  <1>3. CASE old # Absent /\ ~ReadOnly(old.attrs)
    <2>1. WriteProperty(i, n, Property(v, old.attrs)) /\ result' = "ok"
      BY <1>3 DEF SetProperty
    <2>2. Property(v, old.attrs) \in Own
      BY <1>3, OldAttributes, NewProperty
    <2> QED BY <1>3, <2>1, <2>2, NotReadOnly, ValueAwaits DEF Permitted, PropertyWritten
  <1>4. CASE old # Absent /\ ReadOnly(old.attrs)
    BY <1>4 DEF SetProperty, Permitted
  <1> QED BY <1>1, <1>2, <1>3, <1>4

LEMMA SetConstPermitted ==
  ASSUME ScopesType, NEW i \in 1..Len(chain), NEW n \in Names, NEW v \in Contents,
         v # "hole", chain[i].ext[n] # Absent, SetConst(i, n, v)
  PROVE  Permitted
  <1>1. CASE chain[i].ext[n].value = "hole"
    <2>1. WriteProperty(i, n, Property(v, chain[i].ext[n].attrs))
      BY <1>1 DEF SetConst
    <2>2. Property(v, chain[i].ext[n].attrs) \in Own
      BY OldAttributes, NewProperty
    <2>3. <<i, n>> \notin ConstantProperties
      BY <1>1 DEF ConstantProperties
    <2> QED BY <2>1, <2>2, <2>3, ValueAwaits DEF Permitted, PropertyWritten
  <1>2. CASE chain[i].ext[n].value # "hole"
    BY <1>2 DEF SetConst, Permitted
  <1> QED BY <1>1, <1>2

LEMMA WriteSlotPermitted ==
  ASSUME ScopesType, NEW i \in 1..Len(chain), NEW n \in Names, NEW v \in Contents,
         v # "hole", chain[i].slots[n] # NoSlot, WriteSlot(i, n, v),
         ~Immutable(chain[i].slots[n].mode) \/ chain[i].slots[n].value = "hole"
  PROVE  Permitted
  BY DEF Permitted, SlotWritten, ConstantSlots, Uninitialized

LEMMA AnswerPermitted ==
  ASSUME NEW r, r # "hole", Answer(r)
  PROVE  Permitted /\ result' # "hole"
  BY DEF Answer, Permitted

LEMMA DeclareGlobalsPermitted ==
  ASSUME ScopesType, NEW n \in Names, NEW kind \in {"var", "const", "function"},
         NEW eval \in BOOLEAN, NEW native \in BOOLEAN, DeclareGlobals(n, kind, eval, native)
  PROVE  Permitted /\ result' # "hole"
  <1> DEFINE old   == chain[1].ext[n]
             fixed == old # Absent /\ "DONT_DELETE" \in old.attrs
             attrs == (IF eval THEN {} ELSE {"DONT_DELETE"})
                        \cup (IF kind = "const" \/ (native /\ kind = "function")
                              THEN {"READ_ONLY"} ELSE {})
             p     == Property(InitialValue(kind), IF fixed THEN old.attrs ELSE attrs)
  <1>1. 1 \in 1..Len(chain)
    BY Scopes
  <1>2. CASE old # Absent /\ kind # "function" /\ Answer("ok")
    BY <1>2, AnswerPermitted
  <1>3. CASE kind = "function" /\ Answer("TypeError")
    BY <1>3, AnswerPermitted
  <1>4. CASE /\ old = Absent \/ kind = "function"
             /\ ~(fixed /\ ReadOnly(old.attrs))
             /\ WriteProperty(1, n, p)
             /\ result' = "ok"
    <2>1. attrs \in SUBSET {"READ_ONLY", "DONT_DELETE"} /\ InitialValue(kind) \in Contents
      BY DEF InitialValue, Contents
    <2>2. fixed => old.attrs \in SUBSET {"READ_ONLY", "DONT_DELETE"}
      BY <1>1, OldAttributes
    <2>0. PropertyAwaits(p)
      <3>1. CASE kind = "const"
        <4>1. old = Absent /\ p.attrs = attrs /\ "READ_ONLY" \in attrs
          BY <1>4, <3>1 DEF Property
        <4> QED BY <4>1 DEF PropertyAwaits, ReadOnly
      <3>2. CASE kind # "const"
        BY <3>2, ValueAwaits DEF InitialValue
      <3> QED BY <3>1, <3>2
    <2>3. p \in Own
      BY <2>1, <2>2, NewProperty
    <2>4. CASE old = Absent
      BY <1>1, <1>4, <2>0, <2>3, <2>4, AbsentIsWritable DEF Permitted, PropertyWritten
    <2>5. CASE old # Absent /\ ~ReadOnly(old.attrs)
      BY <1>1, <1>4, <2>0, <2>3, <2>5, NotReadOnly DEF Permitted, PropertyWritten
    <2>6. CASE old # Absent /\ ReadOnly(old.attrs)
      <3>1. kind = "function" /\ "DONT_DELETE" \notin old.attrs
        BY <1>4, <2>6
      <3>2. p.value = "function"
        BY <3>1 DEF Property, InitialValue
      <3> QED BY <1>1, <1>4, <2>0, <2>3, <3>1, <3>2 DEF Permitted, PropertyWritten
    <2> QED BY <1>4, <2>4, <2>5, <2>6
  <1> QED BY <1>2, <1>3, <1>4 DEF DeclareGlobals

LEMMA DeclareContextSlotPermitted ==
  ASSUME ScopesType, NEW n \in Names, NEW mode \in SUBSET {"READ_ONLY"},
         NEW value \in {"none", "function", "hole"},
         value = "hole" => mode = {"READ_ONLY"}, DeclareContextSlot(n, mode, value)
  PROVE  Permitted /\ result' # "hole"
  <1> DEFINE i        == declaration_context
             inSlot   == chain[i].ext[n] = Absent /\ DeclaredSlot(i, n)
             isAbsent == chain[i].ext[n] = Absent /\ ~DeclaredSlot(i, n)
             fixed    == IF inSlot THEN Immutable(chain[i].slots[n].mode)
                         ELSE ReadOnly(chain[i].ext[n].attrs)
  <1>1. i \in 1..Len(chain)
    BY Scopes
  <1>2. CASE Answer("TypeError") \/ Answer("ok")
    BY <1>2, AnswerPermitted
  <1>3. CASE /\ ~isAbsent /\ ~Conflicts(fixed, mode) /\ value # "none"
             /\ inSlot /\ WriteSlot(i, n, value) /\ result' = "ok"
    <2>1. value \in Contents /\ value # "hole"
      BY <1>3 DEF Contents, Conflicts
    <2> HIDE DEF i
    <2>2. ~Immutable(chain[i].slots[n].mode) /\ chain[i].slots[n] # NoSlot
      BY <1>3 DEF Conflicts, DeclaredSlot, NoSlot, Slot
    <2> QED BY <1>1, <1>3, <2>1, <2>2, WriteSlotPermitted
  <1>4. CASE /\ ~isAbsent /\ ~Conflicts(fixed, mode) /\ value # "none"
             /\ SetProperty(i, n, value, mode, FALSE)
    <2>1. /\ value \in Contents /\ value # "hole"
          /\ mode \in SUBSET {"READ_ONLY", "DONT_DELETE"}
      BY <1>4 DEF Contents, Conflicts
    <2> HIDE DEF i
    <2> QED BY <1>1, <1>4, <2>1, SetPropertyPermitted
  <1>5. CASE /\ isAbsent
             /\ WriteProperty(i, n, Property(IF value = "none" THEN "undefined" ELSE value, mode))
             /\ result' = "ok"
    <2> DEFINE p == Property(IF value = "none" THEN "undefined" ELSE value, mode)
    <2>1. p \in Own
      <3>1. (IF value = "none" THEN "undefined" ELSE value) \in Contents
        BY DEF Contents
      <3>2. mode \in SUBSET {"READ_ONLY", "DONT_DELETE"}
        OBVIOUS
      <3> QED BY <3>1, <3>2, NewProperty
    <2>3. PropertyAwaits(p)
      BY DEF PropertyAwaits, Property, ReadOnly
    <2> HIDE DEF i
    <2>2. <<i, n>> \notin ConstantProperties
      BY <1>5, AbsentIsWritable
    <2> QED BY <1>1, <1>5, <2>1, <2>2, <2>3 DEF Permitted, PropertyWritten
  <1> QED BY <1>2, <1>3, <1>4, <1>5, Zenon DEF DeclareContextSlot

LEMMA InitializesPermitted ==
  ASSUME ScopesType, NEW n \in Names, NEW v \in Values
  PROVE  /\ \A assign, strict \in BOOLEAN :
              InitializeVarGlobal(n, assign, v, strict) => Permitted /\ result' # "hole"
         /\ InitializeConstGlobal(n, v) => Permitted /\ result' # "hole"
         /\ InitializeConstContextSlot(n, v) => Permitted /\ result' # "hole"
  <1>1. 1 \in 1..Len(chain) /\ v \in Contents /\ v # "hole"
    BY Scopes, ScopesAssumption DEF Contents
  <1>2. ASSUME NEW assign \in BOOLEAN, NEW strict \in BOOLEAN,
               InitializeVarGlobal(n, assign, v, strict)
        PROVE  Permitted /\ result' # "hole"
    BY <1>1, <1>2, SetPropertyPermitted, AnswerPermitted DEF InitializeVarGlobal
  <1>3. ASSUME InitializeConstGlobal(n, v) PROVE Permitted /\ result' # "hole"
    <2> DEFINE old == chain[1].ext[n]
    <2>1. CASE old = Absent
      <3> DEFINE p == Property(v, {"DONT_DELETE", "READ_ONLY"})
      <3>1. WriteProperty(1, n, p) /\ result' = "ok"
        BY <1>3, <2>1 DEF InitializeConstGlobal
      <3>2. p \in Own
        BY <1>1, NewProperty
      <3> QED BY <1>1, <2>1, <3>1, <3>2, AbsentIsWritable, ValueAwaits
              DEF Permitted, PropertyWritten
    <2>2. CASE old # Absent /\ ~ReadOnly(old.attrs)
      BY <1>1, <1>3, <2>2, SetPropertyPermitted DEF InitializeConstGlobal
    <2>3. CASE old # Absent /\ ReadOnly(old.attrs)
      BY <1>1, <1>3, <2>3, SetConstPermitted DEF InitializeConstGlobal
    <2> QED BY <2>1, <2>2, <2>3
  <1>4. ASSUME InitializeConstContextSlot(n, v) PROVE Permitted /\ result' # "hole"
    <2> DEFINE i  == declaration_context
               at == Lookup(n, i)
    <2>1. i \in 1..Len(chain) /\ at \in 0..i
      BY Scopes
    <2>2. at # 0 => at \in 1..Len(chain)
      BY <2>1, Scopes
    <2>3. \/ /\ at # 0 /\ InSlot(at, n)
             /\ InitializeConstSlot(at, n, v)
             /\ result' = "ok"
          \/ at = 0 /\ SetProperty(1, n, v, {}, FALSE)
          \/ /\ at = i
             /\ chain[at].ext[n] # Absent
             /\ SetConst(at, n, v)
             /\ result' = "ok"
          \/ at # 0 /\ SetProperty(at, n, v, {}, FALSE)
      BY <1>4 DEF InitializeConstContextSlot
    <2> HIDE DEF at, i
    <2>4. CASE /\ at # 0 /\ InSlot(at, n)
               /\ InitializeConstSlot(at, n, v)
               /\ result' = "ok"
      <3>1. CASE UNCHANGED chain
        BY <2>4, <3>1 DEF Permitted
      <3>2. CASE ~UNCHANGED chain
        <4>1. WriteSlot(at, n, v) /\ chain[at].slots[n] # NoSlot
          BY <2>4, <3>2 DEF InSlot, InitializeConstSlot
        <4>2. ~Immutable(chain[at].slots[n].mode) \/ chain[at].slots[n].value = "hole"
          BY <2>4, <3>2 DEF InitializeConstSlot
        <4> QED BY <1>1, <2>2, <2>4, <4>1, <4>2, WriteSlotPermitted
      <3> QED BY <3>1, <3>2
    <2>5. CASE at = 0 /\ SetProperty(1, n, v, {}, FALSE)
      BY <1>1, <2>5, SetPropertyPermitted
    <2>6. CASE at = i /\ chain[at].ext[n] # Absent /\ SetConst(at, n, v) /\ result' = "ok"
      BY <1>1, <2>1, <2>6, SetConstPermitted
    <2>7. CASE at # 0 /\ SetProperty(at, n, v, {}, FALSE)
      BY <1>1, <2>2, <2>7, SetPropertyPermitted
    <2> QED BY <2>3, <2>4, <2>5, <2>6, <2>7
  <1> QED BY <1>2, <1>3, <1>4

\* A slot that is answered as it is holds no hole: that is where the invariant is needed.
LEMMA LoadPermitted ==
  ASSUME ScopesInv, NEW n \in Names, NEW throw_error \in BOOLEAN, LoadContextSlot(n, throw_error)
  PROVE  Permitted /\ result' # "hole"
  <1> DEFINE at == Lookup(n, Current)
  <1>0. at # 0 => at \in 1..Len(chain)
    BY Scopes DEF Current, ScopesInv
  <1>1. \A v : Unhole(v) # "hole"
    BY DEF Unhole
  <1>2. PropertyValue(at, n) # "hole"
    BY <1>1 DEF PropertyValue
  <1> HIDE DEF at
  <1>3. \/ Answer("ReferenceError")
        \/ /\ at # 0
           /\ chain[at].slots[n].mode # "CONST_LEGACY"
           /\ ~(chain[at].slots[n].mode \in {"LET", "CONST"} /\ Uninitialized(at, n))
           /\ Answer(chain[at].slots[n].value)
        \/ Answer(Unhole(chain[at].slots[n].value))
        \/ Answer(PropertyValue(at, n))
        \/ Answer(IF throw_error THEN "ReferenceError" ELSE "undefined")
    BY DEF LoadContextSlot, at
  <1>4. CASE /\ at # 0
             /\ chain[at].slots[n].mode # "CONST_LEGACY"
             /\ ~(chain[at].slots[n].mode \in {"LET", "CONST"} /\ Uninitialized(at, n))
             /\ Answer(chain[at].slots[n].value)
    <2>1. chain[at].slots[n].value # "hole"
      BY <1>0, <1>4 DEF ScopesInv, HoleAwaited, Current, Uninitialized
    <2> QED BY <1>4, <2>1, AnswerPermitted
  <1> QED BY <1>1, <1>2, <1>3, <1>4, AnswerPermitted

LEMMA StorePermitted ==
  ASSUME ScopesType, NEW n \in Names, NEW v \in Values, NEW strict \in BOOLEAN,
         StoreContextSlot(n, v, strict)
  PROVE  Permitted /\ result' # "hole"
  <1> DEFINE at == Lookup(n, Current)
             readOnly == IF InSlot(at, n) THEN Immutable(chain[at].slots[n].mode)
                         ELSE ReadOnly(chain[at].ext[n].attrs)
  <1>1. /\ 1 \in 1..Len(chain) /\ v \in Contents /\ v # "hole"
        /\ (at # 0 => at \in 1..Len(chain))
    BY Scopes, ScopesAssumption DEF Contents, Current
  <1>2. \/ Answer("ReferenceError")
        \/ SetProperty(1, n, v, {}, strict)
        \/ at # 0 /\ InSlot(at, n) /\ ~readOnly /\ WriteSlot(at, n, v) /\ result' = "ok"
        \/ at # 0 /\ SetProperty(at, n, v, {}, strict)
        \/ Answer(IF strict THEN "TypeError" ELSE "ok")
    BY DEF StoreContextSlot
  <1>3. CASE at # 0 /\ InSlot(at, n) /\ ~readOnly /\ WriteSlot(at, n, v) /\ result' = "ok"
    <2>1. ~Immutable(chain[at].slots[n].mode)
      BY <1>3
    <2> HIDE DEF at
    <2>2. chain[at].slots[n] # NoSlot
      BY <1>3 DEF InSlot
    <2> QED BY <1>1, <1>3, <2>1, <2>2, WriteSlotPermitted
  <1> HIDE DEF readOnly, at
  <1>4. CASE SetProperty(1, n, v, {}, strict)
    BY <1>1, <1>4, SetPropertyPermitted
  <1>5. CASE at # 0 /\ SetProperty(at, n, v, {}, strict)
    BY <1>1, <1>5, SetPropertyPermitted
  <1>6. CASE Answer("ReferenceError") \/ Answer(IF strict THEN "TypeError" ELSE "ok")
    BY <1>6, AnswerPermitted
  <1> QED BY <1>2, <1>3, <1>4, <1>5, <1>6

LEMMA DeletePermitted ==
  ASSUME ScopesType, NEW n \in Names, DeleteContextSlot(n)
  PROVE  Permitted /\ result' # "hole"
  <1> DEFINE at == Lookup(n, Current)
  <1>1. at # 0 => at \in 1..Len(chain)
    BY Scopes DEF Current
  <1>2. \/ Answer("ok")
        \/ /\ at # 0
           /\ "DONT_DELETE" \notin chain[at].ext[n].attrs
           /\ WriteProperty(at, n, Absent)
           /\ result' = "ok"
    BY DEF DeleteContextSlot
  <1> HIDE DEF at
  <1>3. Absent \in Own
    BY DEF Own
  <1> QED BY <1>1, <1>2, <1>3, AnswerPermitted, ValueAwaits DEF Permitted, PropertyWritten

LEMMA EnteringPermitted ==
  ASSUME NewFunctionContext \/ PushWithContext \/ PushBlockContext
         \/ \E n \in Names, v \in Values : PushCatchContext(n, v)
  PROVE  Permitted /\ result' # "hole"
  <1> DEFINE SlotsMay == {b \in Binding : SlotAwaits(b)}
             OwnMay   == {p \in Own : PropertyAwaits(p)}
  <1>0. NoSlot \in SlotsMay /\ Absent \in OwnMay
    BY ValueAwaits DEF Binding, Own, NoSlot, Slot, SlotAwaits
  <1>1. NoSlots \in [Names -> SlotsMay] /\ NoExtension \in [Names -> OwnMay]
    BY <1>0 DEF NoSlots, NoExtension
  <1>2. ASSUME NEW kind \in {"function", "with", "catch", "block"},
               NEW slots \in [Names -> SlotsMay], NEW ext \in [Names -> OwnMay],
               Push(Context(kind, slots, ext))
        PROVE  Permitted /\ result' # "hole"
    <2>1. Context(kind, slots, ext) \in AnyContext
      BY DEF Context, AnyContext
    <2>2. ContextAwaits(Context(kind, slots, ext))
      BY DEF Context, ContextAwaits
    <2> QED BY <1>2, <2>1, <2>2 DEF Push, Permitted, ScopeEntered
  <1>3. CASE NewFunctionContext
    <2>1. PICK slots \in [Names -> FunctionSlots] : Push(Context("function", slots, NoExtension))
      BY <1>3 DEF NewFunctionContext
    <2>2. FunctionSlots \subseteq SlotsMay
      BY <1>0 DEF FunctionSlots, Binding, Slot, Contents, SlotAwaits
    <2>3. slots \in [Names -> SlotsMay]
      BY <2>2
    <2> QED BY <1>1, <1>2, <2>1, <2>3
  <1>4. CASE PushWithContext
    <2> DEFINE P == {Absent} \cup {Property(v, a) : v \in Values, a \in {{}, {"READ_ONLY"}}}
    <2>1. PICK subject \in [Names -> P] : Push(Context("with", NoSlots, subject))
      BY <1>4 DEF PushWithContext
    <2>2. P \subseteq OwnMay
      BY <1>0, ScopesAssumption DEF Own, Property, Contents, PropertyAwaits
    <2>3. subject \in [Names -> OwnMay]
      BY <2>2
    <2> QED BY <1>1, <1>2, <2>1, <2>3
  <1>5. CASE PushBlockContext
    <2> DEFINE B == {NoSlot, Slot("hole", "LET"), Slot("hole", "CONST")}
    <2>1. PICK slots \in [Names -> B] : Push(Context("block", slots, NoExtension))
      BY <1>5 DEF PushBlockContext
    <2>2. B \subseteq SlotsMay
      BY <1>0 DEF Binding, Slot, Contents, SlotAwaits
    <2>3. slots \in [Names -> SlotsMay]
      BY <2>2
    <2> QED BY <1>1, <1>2, <2>1, <2>3
  <1>6. CASE \E n \in Names, v \in Values : PushCatchContext(n, v)
    <2>1. PICK n \in Names, v \in Values : PushCatchContext(n, v)
      BY <1>6
    <2>2. Slot(v, "VAR") \in SlotsMay
      BY ScopesAssumption DEF Slot, Binding, Contents, SlotAwaits
    <2>3. [NoSlots EXCEPT ![n] = Slot(v, "VAR")] \in [Names -> SlotsMay]
      BY <1>1, <2>2
    <2> QED BY <1>1, <1>2, <2>1, <2>3 DEF PushCatchContext
  <1> QED BY <1>3, <1>4, <1>5, <1>6

LEMMA LeavingPermitted ==
  ASSUME ScopesType
  PROVE  /\ PopContext => Permitted /\ result' # "hole"
         /\ \A n \in Names, v \in Values : InitializeSlot(n, v) => Permitted /\ result' # "hole"
  <1>1. PopContext => Permitted /\ result' # "hole"
    BY DEF PopContext, Permitted, ScopeLeft, Current
  <1>2. ASSUME NEW n \in Names, NEW v \in Values, InitializeSlot(n, v)
        PROVE  Permitted /\ result' # "hole"
    <2>1. Current \in 1..Len(chain) /\ v \in Contents /\ v # "hole"
      BY Scopes, ScopesAssumption DEF Current, Contents
    <2> QED BY <1>2, <2>1, WriteSlotPermitted DEF InitializeSlot, Uninitialized
  <1> QED BY <1>1, <1>2

LEMMA ScopesStepKeeps ==
  ASSUME ScopesInv, ScopesNext
  PROVE  ScopesInv' /\ ConstantsKept /\ result' # "hole"
  <1>0. ScopesType
    BY DEF ScopesInv
  <1>1. Permitted /\ result' # "hole"
    <2>1. ASSUME NEW n \in Names, NEW kind \in {"var", "const", "function"}, NEW eval \in BOOLEAN,
                 DeclareGlobals(n, kind, eval, FALSE)
          PROVE  Permitted /\ result' # "hole"
      BY <2>1, <1>0, DeclareGlobalsPermitted
    <2>2. ASSUME NEW n \in Names, DeclareGlobals(n, "function", FALSE, TRUE)
          PROVE  Permitted /\ result' # "hole"
      BY <2>2, <1>0, DeclareGlobalsPermitted
    <2>3. ASSUME NEW n \in Names,
                 \/ \E value \in {"none", "function"} : DeclareContextSlot(n, {}, value)
                 \/ DeclareContextSlot(n, {"READ_ONLY"}, "hole")
          PROVE  Permitted /\ result' # "hole"
      BY <2>3, <1>0, DeclareContextSlotPermitted
    <2>4. ASSUME NEW n \in Names,
                 (\E throw_error \in BOOLEAN : LoadContextSlot(n, throw_error)) \/ DeleteContextSlot(n)
          PROVE  Permitted /\ result' # "hole"
      BY <2>4, <1>0, LoadPermitted, DeletePermitted
    <2>5. ASSUME NEW n \in Names, NEW v \in Values,
                 \/ \E assign, strict \in BOOLEAN : InitializeVarGlobal(n, assign, v, strict)
                 \/ InitializeConstGlobal(n, v)
                 \/ InitializeConstContextSlot(n, v)
          PROVE  Permitted /\ result' # "hole"
      BY <2>5, <1>0, InitializesPermitted
    <2>6. ASSUME NEW n \in Names, NEW v \in Values,
                 (\E strict \in BOOLEAN : StoreContextSlot(n, v, strict)) \/ InitializeSlot(n, v)
          PROVE  Permitted /\ result' # "hole"
      BY <2>6, <1>0, StorePermitted, LeavingPermitted
    <2>7. CASE NewFunctionContext \/ PushWithContext \/ PushBlockContext
               \/ \E n \in Names, v \in Values : PushCatchContext(n, v)
      BY <2>7, EnteringPermitted
    <2>8. CASE PopContext
      BY <1>0, <2>8, LeavingPermitted
    <2> QED BY <2>1, <2>2, <2>3, <2>4, <2>5, <2>6, <2>7, <2>8, Zenon DEF ScopesNext, ScopesStep
  <1> QED BY <1>0, <1>1, PermittedKeeps, PermittedAwaits DEF ScopesInv

LEMMA ScopesInitInv == ScopesInit => ScopesInv /\ HoleNeverEscapes
  <1> SUFFICES ASSUME ScopesInit PROVE ScopesInv /\ HoleNeverEscapes
    OBVIOUS
  <1> DEFINE c == Context("native", NoSlots, NoExtension)
  <1>1. c \in AnyContext /\ c.kind = "native"
    BY DEF Context, AnyContext, NoSlots, NoExtension, Binding, Own
  <1>2. chain = <<c>> /\ result = "ok"
    BY DEF ScopesInit
  <1>3. ContextAwaits(c)
    BY ValueAwaits DEF Context, ContextAwaits, NoSlots, NoExtension, NoSlot, Slot, SlotAwaits
  <1> HIDE DEF c
  <1>4. HoleAwaited
    BY <1>2, <1>3 DEF HoleAwaited, Current, ContextAwaits, SlotAwaits, PropertyAwaits
  <1> QED BY <1>1, <1>2, <1>4 DEF ScopesInv, ScopesType, HoleNeverEscapes

\* The hole is nowhere but in slots whose loads look for it and in properties that are
\* constants, whatever chain of scopes eval, with and delete have left; so no load of a variable
\* gives it to the script, although the slots of all other kinds are answered as they are.
THEOREM NoHoleEscapes == ScopesSpec => []HoleNeverEscapes
  <1>1. ScopesInv /\ ScopesNext => ScopesInv' /\ HoleNeverEscapes'
    BY ScopesStepKeeps DEF HoleNeverEscapes, ScopesInv
  <1>2. ScopesInv /\ HoleNeverEscapes /\ UNCHANGED scopeVars => ScopesInv' /\ HoleNeverEscapes'
    BY DEF ScopesInv, ScopesType, HoleAwaited, Current, HoleNeverEscapes, scopeVars
  <1> QED BY ScopesInitInv, <1>1, <1>2, PTL DEF ScopesSpec

\* A constant that has its value keeps it: no step, of whatever kind, changes the slot, or the
\* property but for where it may be deleted or is the global object's and a function replaces it.
THEOREM ConstantsAreKept == ScopesSpec => ConstantsStay
  <1>1. ScopesInv /\ [ScopesNext]_scopeVars => ScopesInv' /\ [ConstantsKept]_scopeVars
    BY ScopesStepKeeps DEF ScopesInv, ScopesType, HoleAwaited, Current, scopeVars
  <1>2. ScopesSpec => [][ConstantsKept]_scopeVars
    BY ScopesInitInv, <1>1, PTL DEF ScopesSpec
  <1> QED BY <1>2 DEF ConstantsStay, ConstantsKept
-----------------------------------------------------------------------------
(***************************************************************************)
(* 4. V8Buffers: memory, buffers, views and the copying between them.      *)
(***************************************************************************)
BufferRecord == [store : Nat, length : Nat, is_external : BOOLEAN, views : Seq(Nat), live : BOOLEAN]
StoreRecord  == [bytes : Seq(Bytes), owner : {"v8", "embedder", "freed"}]
ViewRecord   == [kind : Kinds \cup {"data"}, buffer : Nat, offset : Nat, length : Nat,
                 heap : Seq(Bytes), live : BOOLEAN]
MemoryRecord == [buffers : Seq(BufferRecord), stores : Seq(StoreRecord), views : Seq(ViewRecord)]

\* A live buffer alone has its memory, whose length is its own and whose owner is as it says.
BufferSound(m, b) ==
  LET buffer == m.buffers[b]
  IN /\ buffer.store \in {NULL} \cup DOMAIN m.stores
     /\ buffer.store = NULL => buffer.length = 0
     /\ buffer.live /\ buffer.store # NULL =>
          /\ Len(m.stores[buffer.store].bytes) = buffer.length
          /\ m.stores[buffer.store].owner = (IF buffer.is_external THEN "embedder" ELSE "v8")
          /\ \A c \in DOMAIN m.buffers :
               m.buffers[c].live /\ m.buffers[c].store = buffer.store => c = b

\* Memory that V8 has to free has a buffer that will.
StoreSound(m, s) ==
  m.stores[s].owner = "v8" =>
    \E b \in DOMAIN m.buffers : m.buffers[b].live /\ m.buffers[b].store = s

\* A view has its elements itself, or its buffer has it in its list.
ViewSound(m, v) ==
  LET view == m.views[v]
  IN /\ view.kind \in Kinds => view.length % Size[view.kind] = 0
     /\ IF view.buffer = Heap THEN view.live /\ Len(view.heap) = view.length /\ view.offset = 0
        ELSE /\ view.buffer \in DOMAIN m.buffers
             /\ view.live => m.buffers[view.buffer].live
             /\ view.offset + view.length <= m.buffers[view.buffer].length
             /\ \E k \in DOMAIN m.buffers[view.buffer].views : m.buffers[view.buffer].views[k] = v

\* The list has views of the buffer, and each once.
ListSound(m, b) ==
  LET list == m.buffers[b].views
  IN /\ \A k \in DOMAIN list : list[k] \in DOMAIN m.views /\ m.views[list[k]].buffer = b
     /\ \A j, k \in DOMAIN list : list[j] = list[k] => j = k

Sound(m) ==
  /\ m \in MemoryRecord
  /\ \A b \in DOMAIN m.buffers : BufferSound(m, b) /\ ListSound(m, b)
  /\ \A s \in DOMAIN m.stores : StoreSound(m, s)
  /\ \A v \in DOMAIN m.views : ViewSound(m, v)

LEMMA SoundParts ==
  ASSUME NEW m, Sound(m)
  PROVE  /\ m \in MemoryRecord
         /\ m.buffers \in Seq(BufferRecord) /\ m.stores \in Seq(StoreRecord)
         /\ m.views \in Seq(ViewRecord)
         /\ DOMAIN m.buffers = 1..Len(m.buffers) /\ Len(m.buffers) \in Nat
         /\ DOMAIN m.stores = 1..Len(m.stores) /\ Len(m.stores) \in Nat
         /\ DOMAIN m.views = 1..Len(m.views) /\ Len(m.views) \in Nat
         /\ \A b \in DOMAIN m.buffers : m.buffers[b] \in BufferRecord
         /\ \A s \in DOMAIN m.stores : m.stores[s] \in StoreRecord
         /\ \A v \in DOMAIN m.views : m.views[v] \in ViewRecord
  BY LenProperties, ElementOfSeq DEF Sound, MemoryRecord

\* A buffer that is new, with its memory if it has any.
IsNewBuffer(m, n, bytes, external) ==
  /\ n \in MemoryRecord /\ n.views = m.views
  /\ Len(n.buffers) = Len(m.buffers) + 1
  /\ \A b \in 1..Len(m.buffers) : n.buffers[b] = m.buffers[b]
  /\ n.buffers[Len(n.buffers)] =
       Buffer(IF bytes = <<>> THEN NULL ELSE Len(m.stores) + 1, Len(bytes), external)
  /\ \A s \in 1..Len(m.stores) : n.stores[s] = m.stores[s]
  /\ IF bytes = <<>> THEN n.stores = m.stores
     ELSE /\ Len(n.stores) = Len(m.stores) + 1
          /\ n.stores[Len(n.stores)] = Store(bytes, IF external THEN "embedder" ELSE "v8")

LEMMA NewBufferSound ==
  ASSUME NEW m, Sound(m), NEW n, NEW bytes \in Seq(Bytes), NEW external \in BOOLEAN,
         IsNewBuffer(m, n, bytes, external)
  PROVE  Sound(n)
  <1> DEFINE new == Len(m.buffers) + 1
  <1>1. /\ m.buffers \in Seq(BufferRecord) /\ m.stores \in Seq(StoreRecord)
        /\ m.views \in Seq(ViewRecord)
        /\ DOMAIN m.buffers = 1..Len(m.buffers) /\ Len(m.buffers) \in Nat
        /\ DOMAIN m.stores = 1..Len(m.stores) /\ Len(m.stores) \in Nat
        /\ DOMAIN m.views = 1..Len(m.views) /\ Len(m.views) \in Nat
        /\ \A b \in DOMAIN m.buffers : m.buffers[b] \in BufferRecord
        /\ \A v \in DOMAIN m.views : m.views[v] \in ViewRecord
    BY SoundParts
  <1>2. /\ n.buffers \in Seq(BufferRecord) /\ n.stores \in Seq(StoreRecord) /\ n.views = m.views
        /\ DOMAIN n.buffers = 1..new
        /\ DOMAIN n.stores = 1..Len(n.stores)
    <2>1. n \in MemoryRecord /\ Len(n.buffers) = new /\ n.views = m.views
      BY DEF IsNewBuffer
    <2> QED BY <2>1, LenProperties DEF MemoryRecord
  <1>3. \A b \in 1..Len(m.buffers) : n.buffers[b] = m.buffers[b]
    BY DEF IsNewBuffer
  <1>4. \A s \in 1..Len(m.stores) : s \in DOMAIN n.stores /\ n.stores[s] = m.stores[s]
    <2>1. CASE bytes = <<>>
      BY <2>1, <1>1 DEF IsNewBuffer
    <2>2. CASE bytes # <<>>
      BY <2>2, <1>1, <1>2 DEF IsNewBuffer
    <2> QED BY <2>1, <2>2
  <1>5. /\ n.buffers[new].store = (IF bytes = <<>> THEN NULL ELSE Len(m.stores) + 1)
        /\ n.buffers[new].length = Len(bytes) /\ n.buffers[new].is_external = external
        /\ n.buffers[new].views = <<>> /\ n.buffers[new].live
    BY DEF IsNewBuffer, Buffer
  <1>6. /\ new \notin DOMAIN m.buffers /\ new \in DOMAIN n.buffers
        /\ \A b \in DOMAIN n.buffers : b \in DOMAIN m.buffers \/ b = new
        /\ \A b \in DOMAIN m.buffers : b \in DOMAIN n.buffers /\ n.buffers[b] = m.buffers[b]
    BY <1>1, <1>2, <1>3
  <1> HIDE DEF new
  <1>7. \A s \in DOMAIN m.stores : StoreSound(n, s)
    <2> SUFFICES ASSUME NEW s \in DOMAIN m.stores, n.stores[s].owner = "v8"
                 PROVE  \E b \in DOMAIN n.buffers : n.buffers[b].live /\ n.buffers[b].store = s
      BY DEF StoreSound
    <2>1. m.stores[s].owner = "v8"
      BY <1>1, <1>4
    <2>2. PICK b \in DOMAIN m.buffers : m.buffers[b].live /\ m.buffers[b].store = s
      BY <2>1 DEF Sound, StoreSound
    <2> QED BY <2>2, <1>6
  <1>8. ASSUME NEW b \in DOMAIN m.buffers PROVE BufferSound(n, b) /\ ListSound(n, b)
    <2>1. BufferSound(m, b) /\ ListSound(m, b) /\ n.buffers[b] = m.buffers[b]
      BY <1>1, <1>3 DEF Sound
    <2>2. ASSUME n.buffers[b].store # NULL
          PROVE  n.stores[n.buffers[b].store] = m.stores[m.buffers[b].store]
                 /\ n.buffers[b].store \in DOMAIN n.stores /\ n.buffers[b].store # n.buffers[new].store
      BY <2>1, <2>2, <1>1, <1>4, <1>5 DEF BufferSound, NULL
    <2>3. \A c \in DOMAIN n.buffers : n.buffers[b].store # NULL /\ n.buffers[b].live /\ n.buffers[c].live
              /\ n.buffers[c].store = n.buffers[b].store => c = b
      <3> SUFFICES ASSUME NEW c \in DOMAIN n.buffers, n.buffers[b].store # NULL,
                          n.buffers[b].live, n.buffers[c].live, n.buffers[c].store = n.buffers[b].store
                   PROVE  c = b
        OBVIOUS
      <3>1. c \in DOMAIN m.buffers /\ m.buffers[c] = n.buffers[c]
        BY <2>2, <1>6
      <3> QED BY <2>1, <3>1 DEF BufferSound
    <2> QED BY <2>1, <2>2, <2>3, <1>2 DEF BufferSound, ListSound
  <1>9. ListSound(n, new)
    BY <1>5, EmptySeq DEF ListSound
  <1>10. \A v \in DOMAIN n.views : ViewSound(n, v)
    <2> TAKE v \in DOMAIN n.views
    <2>1. ViewSound(m, v)
      BY <1>2 DEF Sound
    <2> QED BY <2>1, <1>2, <1>6 DEF ViewSound
  <1>11. CASE bytes = <<>>
    <2>1. n.stores = m.stores /\ n.buffers[new].store = NULL /\ n.buffers[new].length = 0
      BY <1>5, <1>11, EmptySeq DEF IsNewBuffer
    <2>2. BufferSound(n, new)
      BY <2>1 DEF BufferSound
    <2> QED BY <2>1, <2>2, <1>2, <1>6, <1>7, <1>8, <1>9, <1>10 DEF Sound, IsNewBuffer
  <1>12. CASE bytes # <<>>
    <2> DEFINE s == Len(m.stores) + 1
    <2>1. /\ DOMAIN n.stores = DOMAIN m.stores \cup {s} /\ s \notin DOMAIN m.stores /\ s # NULL
          /\ n.stores[s] = Store(bytes, IF external THEN "embedder" ELSE "v8")
          /\ n.buffers[new].store = s
      BY <1>1, <1>2, <1>5, <1>12 DEF IsNewBuffer, NULL
    <2> HIDE DEF s
    <2>2. \A c \in DOMAIN n.buffers : n.buffers[c].store = s => c = new
      <3> TAKE c \in DOMAIN n.buffers
      <3> SUFFICES ASSUME c \in DOMAIN m.buffers PROVE n.buffers[c].store # s
        BY <1>6
      <3> QED BY <2>1, <1>1, <1>3 DEF Sound, BufferSound
    <2>3. n.stores[s].bytes = bytes /\ n.stores[s].owner = (IF external THEN "embedder" ELSE "v8")
      BY <2>1 DEF Store
    <2>4. BufferSound(n, new)
      BY <2>1, <2>2, <2>3, <1>5 DEF BufferSound
    <2>5. StoreSound(n, s)
      BY <2>1, <1>5, <1>6 DEF StoreSound
    <2> QED BY <2>1, <2>4, <2>5, <1>2, <1>6, <1>7, <1>8, <1>9, <1>10 DEF Sound, IsNewBuffer
  <1> QED BY <1>11, <1>12

LEMMA AllocatedIs ==
  ASSUME NEW m, Sound(m), NEW bytes \in Seq(Bytes)
  PROVE  IsNewBuffer(m, Allocated(m, bytes), bytes, FALSE)
  <1> DEFINE stores2 == IF bytes = <<>> THEN m.stores ELSE Append(m.stores, Store(bytes, "v8"))
             buffer  == Buffer(IF bytes = <<>> THEN NULL ELSE Len(m.stores) + 1, Len(bytes), FALSE)
             n       == Allocated(m, bytes)
  <1>1. n = [m EXCEPT !.stores = stores2, !.buffers = Append(m.buffers, buffer)]
    BY DEF Allocated
  <1>2. n = [buffers |-> Append(m.buffers, buffer), stores |-> stores2, views |-> m.views]
    <2> HIDE DEF stores2, buffer, n
    <2>1. m \in MemoryRecord
      BY DEF Sound
    <2> QED BY <1>1, <2>1 DEF MemoryRecord
  <1> HIDE DEF n
  <1>3. n.buffers = Append(m.buffers, buffer) /\ n.stores = stores2 /\ n.views = m.views
    BY <1>2
  <1>4. buffer \in BufferRecord
    <2>1. Len(bytes) \in Nat /\ Len(m.stores) + 1 \in Nat
      BY SoundParts
    <2> QED BY <2>1, EmptySeq DEF Buffer, BufferRecord, NULL
  <1>5. Store(bytes, "v8") \in StoreRecord
    BY DEF Store, StoreRecord
  <1> HIDE DEF buffer
  <1>6. /\ n.buffers \in Seq(BufferRecord) /\ Len(n.buffers) = Len(m.buffers) + 1
        /\ \A b \in 1..Len(m.buffers) : n.buffers[b] = m.buffers[b]
        /\ n.buffers[Len(m.buffers) + 1] = buffer
    BY <1>3, <1>4, SoundParts, AppendProperties
  <1>7. /\ n.stores \in Seq(StoreRecord)
        /\ \A s \in 1..Len(m.stores) : n.stores[s] = m.stores[s]
        /\ IF bytes = <<>> THEN n.stores = m.stores
           ELSE /\ Len(n.stores) = Len(m.stores) + 1
                /\ n.stores[Len(m.stores) + 1] = Store(bytes, "v8")
    <2>1. CASE bytes = <<>>
      BY <2>1, <1>3, SoundParts
    <2>2. CASE bytes # <<>>
      BY <2>2, <1>3, <1>5, SoundParts, AppendProperties
    <2> QED BY <2>1, <2>2
  <1>8. n \in MemoryRecord
    BY <1>2, <1>3, <1>6, <1>7, SoundParts DEF MemoryRecord
  <1> QED BY <1>3, <1>6, <1>7, <1>8 DEF IsNewBuffer, buffer, n

LEMMA AllocatedSound ==
  ASSUME NEW m, Sound(m), NEW bytes \in Seq(Bytes)
  PROVE  Sound(Allocated(m, bytes))
  BY AllocatedIs, NewBufferSound

\* A view that is new, in its buffer's list if it is not in the heap.
LEMMA LinkedSound ==
  ASSUME NEW m, Sound(m), NEW b \in DOMAIN m.buffers, m.buffers[b].live,
         NEW kind \in Kinds \cup {"data"}, NEW offset \in Nat, NEW length \in Nat,
         offset + length <= m.buffers[b].length, kind \in Kinds => length % Size[kind] = 0
  PROVE  Sound(Linked(m, View(kind, b, offset, length)))
  <1> DEFINE view == View(kind, b, offset, length)
             new  == Len(m.views) + 1
             list == <<new>> \o m.buffers[b].views
             bufs == [m.buffers EXCEPT ![b].views = list]
             n    == Linked(m, view)
  <1>1. /\ view \in ViewRecord /\ view.buffer = b /\ view.live /\ view.offset = offset
        /\ view.length = length /\ view.kind = kind
    <2>1. b \in Nat
      BY SoundParts
    <2> QED BY <2>1, EmptySeq DEF View, ViewRecord
  <1>2. n = [buffers |-> bufs, stores |-> m.stores, views |-> Append(m.views, view)]
    <2>1. n = [m EXCEPT !.views = Append(m.views, view), !.buffers = bufs]
      BY <1>1, SoundParts DEF Linked, MemoryRecord
    <2> QED BY <2>1, SoundParts DEF MemoryRecord
  <1>3. n.buffers = bufs /\ n.stores = m.stores /\ n.views = Append(m.views, view)
    BY <1>2
  <1> HIDE DEF n, view
  <1>4. m.buffers[b].views \in Seq(Nat) /\ new \in Nat /\ new \notin DOMAIN m.views
    BY SoundParts DEF BufferRecord
  <1> HIDE DEF new
  <1>5. /\ list \in Seq(Nat) /\ DOMAIN list = 1..Len(m.buffers[b].views) + 1 /\ list[1] = new
        /\ \A k \in 2..Len(m.buffers[b].views) + 1 : list[k] = m.buffers[b].views[k - 1]
    <2>1. <<new>> \in Seq(Nat) /\ Len(<<new>>) = 1 /\ <<new>>[1] = new
      BY <1>4
    <2> QED BY <2>1, <1>4, ConcatProperties, LenProperties
  <1>6. DOMAIN m.buffers[b].views = 1..Len(m.buffers[b].views) /\ Len(m.buffers[b].views) \in Nat
    BY <1>4, LenProperties
  <1> HIDE DEF list
  <1>7. /\ bufs \in Seq(BufferRecord) /\ DOMAIN bufs = DOMAIN m.buffers
        /\ \A c \in DOMAIN m.buffers : c # b => bufs[c] = m.buffers[c]
        /\ \A c \in DOMAIN m.buffers :
             /\ bufs[c].store = m.buffers[c].store /\ bufs[c].length = m.buffers[c].length
             /\ bufs[c].is_external = m.buffers[c].is_external /\ bufs[c].live = m.buffers[c].live
        /\ bufs[b].views = list
    <2> DEFINE e == [m.buffers[b] EXCEPT !.views = list]
    <2>1. m.buffers[b] \in BufferRecord
      BY SoundParts
    <2>2. /\ e \in BufferRecord /\ e.store = m.buffers[b].store /\ e.length = m.buffers[b].length
          /\ e.is_external = m.buffers[b].is_external /\ e.live = m.buffers[b].live
          /\ e.views = list
      BY <2>1, <1>5 DEF BufferRecord
    <2>3. bufs = [m.buffers EXCEPT ![b] = e]
      BY SoundParts
    <2> HIDE DEF e
    <2>4. bufs \in Seq(BufferRecord) /\ DOMAIN bufs = DOMAIN m.buffers
          /\ \A c \in DOMAIN m.buffers : bufs[c] = IF c = b THEN e ELSE m.buffers[c]
      BY <2>2, <2>3, SoundParts, ExceptSeq
    <2> QED BY <2>2, <2>4
  <1> HIDE DEF bufs
  <1>8. /\ n.views \in Seq(ViewRecord) /\ DOMAIN n.views = DOMAIN m.views \cup {new}
        /\ n.views[new] = view
        /\ \A v \in DOMAIN m.views : n.views[v] = m.views[v]
    BY <1>1, <1>3, SoundParts, AppendProperties, LenProperties DEF new
  <1>9. n \in MemoryRecord
    BY <1>2, <1>3, <1>7, <1>8, SoundParts DEF MemoryRecord
  <1>10. ASSUME NEW c \in DOMAIN n.buffers PROVE BufferSound(n, c)
    <2>1. BufferSound(m, c)
      BY <1>3, <1>7 DEF Sound
    <2> QED BY <2>1, <1>3, <1>7 DEF BufferSound
  <1>11. ASSUME NEW s \in DOMAIN n.stores PROVE StoreSound(n, s)
    <2>1. StoreSound(m, s)
      BY <1>3 DEF Sound
    <2> QED BY <2>1, <1>3, <1>7 DEF StoreSound
  <1>12. ASSUME NEW c \in DOMAIN n.buffers, c # b PROVE ListSound(n, c)
    <2>1. ListSound(m, c) /\ n.buffers[c] = m.buffers[c]
      BY <1>3, <1>7, <1>12 DEF Sound
    <2> QED BY <2>1, <1>8 DEF ListSound
  <1>13. ListSound(n, b)
    <2> DEFINE old == m.buffers[b].views
    <2>1. /\ \A k \in DOMAIN old : old[k] \in DOMAIN m.views /\ m.views[old[k]].buffer = b
          /\ \A j, k \in DOMAIN old : old[j] = old[k] => j = k
      BY DEF Sound, ListSound
    <2>2. \A k \in DOMAIN list : k # 1 => k - 1 \in DOMAIN old /\ list[k] = old[k - 1]
      BY <1>5, <1>6
    <2> HIDE DEF old
    <2>3. \A k \in DOMAIN list : list[k] \in DOMAIN n.views /\ n.views[list[k]].buffer = b
      <3> TAKE k \in DOMAIN list
      <3>1. CASE k = 1
        BY <3>1, <1>1, <1>5, <1>8
      <3>2. CASE k # 1
        BY <3>2, <2>1, <2>2, <1>8
      <3> QED BY <3>1, <3>2
    <2>4. ASSUME NEW j \in DOMAIN list, NEW k \in DOMAIN list, list[j] = list[k] PROVE j = k
      <3>1. CASE j = 1 \/ k = 1
        BY <3>1, <2>1, <2>2, <2>4, <1>4, <1>5
      <3>2. CASE j # 1 /\ k # 1
        <4>1. j - 1 = k - 1 /\ j \in Int /\ k \in Int
          BY <3>2, <2>1, <2>2, <2>4, <1>5
        <4> QED BY <4>1
      <3> QED BY <3>1, <3>2
    <2> QED BY <2>3, <2>4, <1>3, <1>7 DEF ListSound
  <1>14. ASSUME NEW v \in DOMAIN m.views PROVE ViewSound(n, v)
    <2>1. ViewSound(m, v) /\ n.views[v] = m.views[v]
      BY <1>8 DEF Sound
    <2>2. CASE m.views[v].buffer = b
      <3> SUFFICES ASSUME b # Heap PROVE \E k \in DOMAIN list : list[k] = v
        BY <2>1, <2>2, <1>3, <1>7 DEF ViewSound
      <3>1. PICK k \in DOMAIN m.buffers[b].views : m.buffers[b].views[k] = v
        BY <2>1, <2>2 DEF ViewSound
      <3>2. k + 1 \in DOMAIN list /\ list[k + 1] = m.buffers[b].views[(k + 1) - 1] /\ (k + 1) - 1 = k
        BY <1>5, <1>6
      <3> QED BY <3>1, <3>2
    <2>3. CASE m.views[v].buffer # b
      BY <2>1, <2>3, <1>3, <1>7 DEF ViewSound
    <2> QED BY <2>2, <2>3
  <1>15. ViewSound(n, new)
    <2>1. b # Heap
      BY SoundParts DEF Heap
    <2>2. 1 \in DOMAIN list
      BY <1>5, <1>6
    <2>3. n.views[new].buffer = b /\ n.views[new].live /\ n.views[new].offset = offset
          /\ n.views[new].length = length /\ n.views[new].kind = kind
      BY <1>1, <1>8
    <2>4. /\ b \in DOMAIN n.buffers /\ n.buffers[b].live /\ n.buffers[b].views = list
          /\ n.buffers[b].length = m.buffers[b].length
      BY <1>3, <1>7
    <2> QED BY <2>1, <2>2, <2>3, <2>4, <1>5 DEF ViewSound
  <1>16. Sound(n)
    BY <1>3, <1>7, <1>8, <1>9, <1>10, <1>11, <1>12, <1>13, <1>14, <1>15 DEF Sound
  <1> QED BY <1>16 DEF n, view

\* What writing bytes changes: only the bytes.
IsWritten(m, n) ==
  /\ n \in MemoryRecord /\ n.buffers = m.buffers
  /\ DOMAIN n.stores = DOMAIN m.stores /\ DOMAIN n.views = DOMAIN m.views
  /\ \A s \in DOMAIN m.stores : /\ Len(n.stores[s].bytes) = Len(m.stores[s].bytes)
                                /\ n.stores[s].owner = m.stores[s].owner
  /\ \A v \in DOMAIN m.views :
       /\ n.views[v].kind = m.views[v].kind /\ n.views[v].buffer = m.views[v].buffer
       /\ n.views[v].offset = m.views[v].offset /\ n.views[v].length = m.views[v].length
       /\ n.views[v].live = m.views[v].live /\ Len(n.views[v].heap) = Len(m.views[v].heap)

LEMMA IsWrittenSound ==
  ASSUME NEW m, Sound(m), NEW n, IsWritten(m, n)
  PROVE  Sound(n)
  <1>1. ASSUME NEW b \in DOMAIN n.buffers PROVE BufferSound(n, b) /\ ListSound(n, b)
    <2>1. BufferSound(m, b) /\ ListSound(m, b)
      BY DEF Sound, IsWritten
    <2>2. BufferSound(n, b)
      BY <2>1 DEF BufferSound, IsWritten
    <2> QED BY <2>1, <2>2 DEF ListSound, IsWritten
  <1>2. ASSUME NEW s \in DOMAIN n.stores PROVE StoreSound(n, s)
    BY DEF Sound, StoreSound, IsWritten
  <1>3. ASSUME NEW v \in DOMAIN n.views PROVE ViewSound(n, v)
    <2>1. ViewSound(m, v)
      BY DEF Sound, IsWritten
    <2> QED BY <2>1 DEF ViewSound, IsWritten
  <1> QED BY <1>1, <1>2, <1>3 DEF Sound, IsWritten

\* The bytes of old with the ones from at + 1 on replaced.
Into(old, bytes, at) == [i \in DOMAIN old |-> IF i - at \in DOMAIN bytes THEN bytes[i - at] ELSE old[i]]

LEMMA IntoIs ==
  ASSUME NEW old \in Seq(Bytes), NEW bytes \in Seq(Bytes), NEW at \in Int
  PROVE  Into(old, bytes, at) \in Seq(Bytes) /\ Len(Into(old, bytes, at)) = Len(old)
  <1> DEFINE s == Into(old, bytes, at)
  <1>1. DOMAIN old = 1..Len(old) /\ Len(old) \in Nat /\ \A i \in DOMAIN old : old[i] \in Bytes
    BY LenProperties, ElementOfSeq
  <1>2. \A i \in DOMAIN bytes : bytes[i] \in Bytes
    BY LenProperties, ElementOfSeq
  <1>3. s \in [1..Len(old) -> Bytes]
    BY <1>1, <1>2 DEF Into
  <1>4. s \in Seq(Bytes)
    BY <1>1, <1>3, SeqDef
  <1>5. DOMAIN s = 1..Len(s) /\ Len(s) \in Nat
    BY <1>4, LenProperties
  <1> QED BY <1>1, <1>3, <1>4, <1>5

\* The store of a view's buffer.
StoreOf(m, v) == m.buffers[m.views[v].buffer].store

LEMMA WrittenIs ==
  ASSUME NEW m, Sound(m), NEW v \in DOMAIN m.views, NEW start \in Int, NEW bytes \in Seq(Bytes)
  PROVE  LET n == Written(m, v, start, bytes)
         IN /\ IsWritten(m, n)
            /\ \A w \in DOMAIN m.views : w # v => n.views[w] = m.views[w]
            /\ \A s \in DOMAIN m.stores :
                 m.views[v].buffer = Heap \/ s # StoreOf(m, v) => n.stores[s] = m.stores[s]
            /\ m.views[v].buffer = Heap => n.views[v].heap = Into(m.views[v].heap, bytes, start)
            /\ m.views[v].buffer # Heap /\ StoreOf(m, v) # NULL =>
                 n.stores[StoreOf(m, v)].bytes =
                   Into(m.stores[StoreOf(m, v)].bytes, bytes, m.views[v].offset + start)
  <1> DEFINE n == Written(m, v, start, bytes)
             view == m.views[v]
  <1>1. /\ view \in ViewRecord /\ view.heap \in Seq(Bytes) /\ view.offset + start \in Int
        /\ DOMAIN m.views = 1..Len(m.views) /\ DOMAIN m.stores = 1..Len(m.stores)
    BY SoundParts DEF ViewRecord
  <1>2. CASE bytes = <<>>
    <2>1. n = m
      BY <1>2 DEF Written
    <2>2. ASSUME NEW old \in Seq(Bytes), NEW at \in Int PROVE Into(old, bytes, at) = old
      <3>1. DOMAIN bytes = {} /\ old \in [DOMAIN old -> Bytes]
        BY <1>2, LenProperties
      <3> QED BY <3>1 DEF Into
    <2>3. view.buffer # Heap /\ StoreOf(m, v) # NULL => m.stores[StoreOf(m, v)].bytes \in Seq(Bytes)
      <3> SUFFICES ASSUME view.buffer # Heap, StoreOf(m, v) # NULL
                   PROVE  m.stores[StoreOf(m, v)].bytes \in Seq(Bytes)
        OBVIOUS
      <3>1. view.buffer \in DOMAIN m.buffers
        BY DEF Sound, ViewSound
      <3>2. StoreOf(m, v) \in DOMAIN m.stores
        BY <3>1 DEF Sound, BufferSound, StoreOf
      <3> QED BY <3>2, SoundParts DEF StoreRecord
    <2>4. IsWritten(m, m)
      BY SoundParts DEF IsWritten
    <2> QED BY <2>1, <2>2, <2>3, <2>4, <1>1
  <1>3. CASE bytes # <<>> /\ view.buffer = Heap
    <2> DEFINE new == Into(view.heap, bytes, start)
               e == [view EXCEPT !.heap = new]
               vs == [m.views EXCEPT ![v] = e]
    <2>1. n = [m EXCEPT !.views = vs]
      BY <1>3, SoundParts DEF Written, Into, MemoryRecord
    <2>2. new \in Seq(Bytes) /\ Len(new) = Len(view.heap)
      BY <1>1, IntoIs
    <2> HIDE DEF new
    <2>3. /\ e \in ViewRecord /\ e.kind = view.kind /\ e.buffer = view.buffer
          /\ e.offset = view.offset /\ e.length = view.length /\ e.live = view.live /\ e.heap = new
      BY <2>2, <1>1 DEF ViewRecord
    <2> HIDE DEF e
    <2>4. /\ vs \in Seq(ViewRecord) /\ Len(vs) = Len(m.views)
          /\ \A w \in 1..Len(m.views) : vs[w] = IF w = v THEN e ELSE m.views[w]
      BY <2>3, <1>1, SoundParts, ExceptSeq
    <2> HIDE DEF vs
    <2>5. n = [buffers |-> m.buffers, stores |-> m.stores, views |-> vs]
      BY <2>1, SoundParts DEF MemoryRecord
    <2>6. n \in MemoryRecord /\ n.buffers = m.buffers /\ n.stores = m.stores /\ n.views = vs
      BY <2>4, <2>5, SoundParts DEF MemoryRecord
    <2>7. DOMAIN vs = DOMAIN m.views
      BY <2>4, <1>1, LenProperties
    <2> HIDE DEF n
    <2>8. IsWritten(m, n)
      BY <2>2, <2>3, <2>4, <2>6, <2>7, <1>1 DEF IsWritten
    <2> QED BY <2>3, <2>4, <2>6, <2>7, <2>8, <1>1, <1>3 DEF n, new
  <1>4. CASE bytes # <<>> /\ view.buffer # Heap
    <2> DEFINE s == StoreOf(m, v)
               new == Into(m.stores[s].bytes, bytes, view.offset + start)
               e == [m.stores[s] EXCEPT !.bytes = new]
               ss == [m.stores EXCEPT ![s] = e]
    <2>1. n = [m EXCEPT !.stores = ss]
      BY <1>4, SoundParts DEF Written, Into, MemoryRecord, StoreOf
    <2>2. view.buffer \in DOMAIN m.buffers /\ s \in {NULL} \cup DOMAIN m.stores
      <3>1. view.buffer \in DOMAIN m.buffers
        BY <1>4 DEF Sound, ViewSound
      <3> QED BY <3>1 DEF Sound, BufferSound, StoreOf
    <2>3. n = [buffers |-> m.buffers, stores |-> ss, views |-> m.views]
      <3> HIDE DEF ss
      <3> QED BY <2>1, SoundParts DEF MemoryRecord
    <2> HIDE DEF s
    <2>4. CASE s = NULL
      <3>1. s \notin DOMAIN m.stores
        BY <2>4, <1>1 DEF NULL
      <3>2. ss = m.stores
        <4>1. m.stores \in [DOMAIN m.stores -> StoreRecord]
          BY SoundParts
        <4> HIDE DEF e
        <4> QED BY <3>1, <4>1
      <3>3. n = m
        BY <2>3, <3>2, SoundParts DEF MemoryRecord
      <3>4. IsWritten(m, m)
        BY SoundParts DEF IsWritten
      <3> QED BY <3>3, <3>4, <2>4, <1>4 DEF s
    <2>5. CASE s \in DOMAIN m.stores
      <3>1. m.stores[s] \in StoreRecord /\ m.stores[s].bytes \in Seq(Bytes)
        BY <2>5, SoundParts DEF StoreRecord
      <3>2. new \in Seq(Bytes) /\ Len(new) = Len(m.stores[s].bytes)
        BY <3>1, <1>1, IntoIs
      <3> HIDE DEF new
      <3>3. e \in StoreRecord /\ e.bytes = new /\ e.owner = m.stores[s].owner
        BY <3>1, <3>2 DEF StoreRecord
      <3> HIDE DEF e
      <3>4. /\ ss \in Seq(StoreRecord) /\ Len(ss) = Len(m.stores)
            /\ \A t \in 1..Len(m.stores) : ss[t] = IF t = s THEN e ELSE m.stores[t]
        BY <3>3, <2>5, <1>1, SoundParts, ExceptSeq
      <3> HIDE DEF ss
      <3>5. n \in MemoryRecord /\ n.buffers = m.buffers /\ n.stores = ss /\ n.views = m.views
        BY <2>3, <3>4, SoundParts DEF MemoryRecord
      <3>6. DOMAIN ss = DOMAIN m.stores
        BY <3>4, <1>1, LenProperties
      <3> HIDE DEF n
      <3>7. IsWritten(m, n)
        BY <3>2, <3>3, <3>4, <3>5, <3>6, <1>1 DEF IsWritten
      <3> QED BY <3>3, <3>4, <3>5, <3>6, <3>7, <2>5, <1>1, <1>4 DEF n, new, s
    <2> QED BY <2>2, <2>4, <2>5
  <1> QED BY <1>2, <1>3, <1>4

LEMMA WrittenSound ==
  ASSUME NEW m, Sound(m), NEW v \in DOMAIN m.views, NEW start \in Int, NEW bytes \in Seq(Bytes)
  PROVE  Sound(Written(m, v, start, bytes)) /\ IsWritten(m, Written(m, v, start, bytes))
  BY WrittenIs, IsWrittenSound

\* A live view's bytes: where they are, how many.
LEMMA InStore ==
  ASSUME NEW m, Sound(m), NEW v \in DOMAIN m.views, m.views[v].live, m.views[v].buffer # Heap,
         m.views[v].length # 0
  PROVE  /\ m.views[v].buffer \in DOMAIN m.buffers /\ StoreOf(m, v) \in DOMAIN m.stores
         /\ StoreOf(m, v) # NULL
         /\ m.views[v].offset + m.views[v].length <= Len(m.stores[StoreOf(m, v)].bytes)
  <1>1. /\ m.views[v].buffer \in DOMAIN m.buffers /\ m.buffers[m.views[v].buffer].live
        /\ m.views[v].offset + m.views[v].length <= m.buffers[m.views[v].buffer].length
    BY DEF Sound, ViewSound
  <1>2. BufferSound(m, m.views[v].buffer)
    BY <1>1 DEF Sound
  <1>3. /\ m.views[v].offset \in Nat /\ m.views[v].length \in Nat
        /\ m.buffers[m.views[v].buffer].length \in Nat
    BY <1>1, SoundParts DEF ViewRecord, BufferRecord
  <1>4. m.buffers[m.views[v].buffer].length # 0
    BY <1>1, <1>3
  <1> QED BY <1>1, <1>2, <1>4 DEF BufferSound, StoreOf

LEMMA BytesAre ==
  ASSUME NEW m, Sound(m), NEW v \in DOMAIN m.views, m.views[v].live
  PROVE  BytesOf(m, v) \in Seq(Bytes) /\ Len(BytesOf(m, v)) = m.views[v].length
  <1>1. m.views[v].offset \in Nat /\ m.views[v].length \in Nat /\ m.views[v].heap \in Seq(Bytes)
    BY SoundParts DEF ViewRecord
  <1>2. CASE m.views[v].buffer = Heap
    BY <1>1, <1>2 DEF BytesOf, Sound, ViewSound
  <1>3. CASE m.views[v].buffer # Heap
    <2> DEFINE bytes == m.stores[StoreOf(m, v)].bytes
               s == BytesOf(m, v)
    <2>1. s = [i \in 1..m.views[v].length |-> bytes[m.views[v].offset + i]]
      BY <1>3 DEF BytesOf, StoreOf
    <2>2. ASSUME NEW i \in 1..m.views[v].length PROVE bytes[m.views[v].offset + i] \in Bytes
      <3>1. /\ StoreOf(m, v) \in DOMAIN m.stores
            /\ m.views[v].offset + m.views[v].length <= Len(bytes)
        BY <1>1, <1>3, InStore
      <3>2. bytes \in Seq(Bytes)
        BY <3>1, SoundParts DEF StoreRecord
      <3> HIDE DEF bytes
      <3>3. m.views[v].offset + i \in 1..Len(bytes)
        BY <3>1, <3>2, <1>1, LenProperties
      <3> QED BY <3>2, <3>3, ElementOfSeq
    <2> HIDE DEF bytes, s
    <2>3. s \in [1..m.views[v].length -> Bytes]
      BY <2>1, <2>2
    <2>4. s \in Seq(Bytes)
      BY <2>3, <1>1, SeqDef
    <2> QED BY <2>3, <2>4, <1>1, LenProperties DEF s
  <1> QED BY <1>2, <1>3

\* The elements of a view moved to a buffer of their own.
IsMoved(m, n, v) ==
  /\ DOMAIN n.views = DOMAIN m.views
  /\ \A w \in DOMAIN m.views : /\ n.views[w].kind = m.views[w].kind
                               /\ n.views[w].length = m.views[w].length
                               /\ n.views[w].live = m.views[w].live
                               /\ m.views[w].live => BytesOf(n, w) = BytesOf(m, w)
                               /\ w # v => n.views[w].buffer = m.views[w].buffer
  /\ n.views[v].buffer # Heap

LEMMA WithBufferSound ==
  ASSUME NEW m, Sound(m), NEW v \in DOMAIN m.views
  PROVE  Sound(WithBuffer(m, v)) /\ IsMoved(m, WithBuffer(m, v), v)
  <1>1. CASE m.views[v].buffer # Heap
    BY <1>1 DEF WithBuffer, IsMoved
  <1>2. CASE m.views[v].buffer = Heap
    <2> DEFINE heap == m.views[v].heap
               a    == Allocated(m, heap)
               b    == Len(a.buffers)
               view == [a.views[v] EXCEPT !.buffer = b, !.heap = <<>>]
               vs   == [a.views EXCEPT ![v] = view]
               buf  == [a.buffers[b] EXCEPT !.views = <<v>>]
               bs   == [a.buffers EXCEPT ![b] = buf]
               n    == WithBuffer(m, v)
    <2>1. heap \in Seq(Bytes) /\ m.views[v].live /\ Len(heap) = m.views[v].length
      BY <1>2, SoundParts DEF ViewRecord, Sound, ViewSound
    <2>2. Sound(a) /\ IsNewBuffer(m, a, heap, FALSE)
      BY <2>1, AllocatedIs, NewBufferSound
    <2>3. n = [a EXCEPT !.views[v] = [@ EXCEPT !.buffer = b, !.heap = <<>>],
                       !.buffers[b].views = <<v>>]
      BY <1>2 DEF WithBuffer
    <2> HIDE DEF a, n
    <2>4. a.views = m.views /\ b = Len(m.buffers) + 1 /\ b \in DOMAIN a.buffers
          /\ b \notin DOMAIN m.buffers /\ b # Heap /\ b \in Nat
      BY <2>2, SoundParts DEF IsNewBuffer, Heap
    <2>5. a \in MemoryRecord /\ a.views[v] \in ViewRecord /\ a.buffers[b] \in BufferRecord
      BY <2>2, <2>4, SoundParts
    <2> HIDE DEF b
    <2>6. /\ view \in ViewRecord /\ view.kind = m.views[v].kind /\ view.buffer = b
          /\ view.offset = m.views[v].offset /\ view.length = m.views[v].length /\ view.live
          /\ view.heap = <<>>
      BY <2>1, <2>4, <2>5, EmptySeq DEF ViewRecord
    <2>7. /\ buf \in BufferRecord /\ buf.store = a.buffers[b].store
          /\ buf.length = a.buffers[b].length /\ buf.is_external = a.buffers[b].is_external
          /\ buf.live = a.buffers[b].live /\ buf.views = <<v>>
      <3>1. <<v>> \in Seq(Nat)
        BY SoundParts
      <3> QED BY <3>1, <2>5 DEF BufferRecord
    <2>8. n = [a EXCEPT !.views = vs, !.buffers = bs]
      BY <2>3, <2>5 DEF MemoryRecord
    <2>9. n = [buffers |-> bs, stores |-> a.stores, views |-> vs]
      <3> HIDE DEF vs, bs
      <3> QED BY <2>8, <2>5 DEF MemoryRecord
    <2> HIDE DEF view, buf
    <2>10. /\ vs \in Seq(ViewRecord) /\ DOMAIN vs = DOMAIN m.views
           /\ \A w \in DOMAIN m.views : vs[w] = IF w = v THEN view ELSE m.views[w]
      BY <2>4, <2>6, SoundParts, ExceptSeq, LenProperties
    <2>11. /\ bs \in Seq(BufferRecord) /\ DOMAIN bs = DOMAIN a.buffers
           /\ \A c \in DOMAIN a.buffers : bs[c] = IF c = b THEN buf ELSE a.buffers[c]
      BY <2>2, <2>4, <2>7, SoundParts, ExceptSeq, LenProperties
    <2> HIDE DEF vs, bs
    <2>12. n \in MemoryRecord /\ n.buffers = bs /\ n.stores = a.stores /\ n.views = vs
      BY <2>9, <2>10, <2>11, <2>2, SoundParts DEF MemoryRecord
    <2>13. /\ a.buffers[b] = Buffer(IF heap = <<>> THEN NULL ELSE Len(m.stores) + 1, Len(heap), FALSE)
           /\ \A c \in DOMAIN m.buffers : c # b /\ a.buffers[c] = m.buffers[c]
           /\ \A c \in DOMAIN a.buffers : c = b \/ c \in DOMAIN m.buffers
      <3>1. a.buffers[b] = Buffer(IF heap = <<>> THEN NULL ELSE Len(m.stores) + 1, Len(heap), FALSE)
        BY <2>2 DEF IsNewBuffer, b
      <3>2. /\ DOMAIN m.buffers = 1..Len(m.buffers) /\ Len(m.buffers) \in Nat
            /\ DOMAIN a.buffers = 1..Len(m.buffers) + 1
        BY <2>2, SoundParts DEF IsNewBuffer
      <3> QED BY <3>1, <3>2, <2>2, <2>4 DEF IsNewBuffer
    <2>14. a.buffers[b].length = m.views[v].length /\ a.buffers[b].views = <<>> /\ a.buffers[b].live
      BY <2>1, <2>13 DEF Buffer
    <2>15. m.views[v].offset = 0
      BY <1>2 DEF Sound, ViewSound
    <2>16. ASSUME NEW c \in DOMAIN n.buffers PROVE BufferSound(n, c)
      <3>1. BufferSound(a, c)
        BY <2>2, <2>11, <2>12 DEF Sound
      <3> QED BY <3>1, <2>7, <2>11, <2>12 DEF BufferSound
    <2>17. ASSUME NEW s \in DOMAIN n.stores PROVE StoreSound(n, s)
      <3>1. StoreSound(a, s)
        BY <2>2, <2>12 DEF Sound
      <3> QED BY <3>1, <2>7, <2>11, <2>12 DEF StoreSound
    <2>18. ASSUME NEW c \in DOMAIN n.buffers PROVE ListSound(n, c)
      <3>1. CASE c = b
        <4>1. n.buffers[c].views = <<v>> /\ n.views[v].buffer = b
          BY <3>1, <2>4, <2>6, <2>7, <2>10, <2>11, <2>12
        <4> QED BY <3>1, <4>1, <2>10, <2>12 DEF ListSound
      <3>2. CASE c # b
        <4>1. ListSound(m, c) /\ c \in DOMAIN m.buffers /\ n.buffers[c] = m.buffers[c]
          BY <3>2, <2>11, <2>12, <2>13 DEF Sound
        <4>2. c # Heap
          BY <4>1, SoundParts DEF Heap
        <4>3. \A k \in DOMAIN m.buffers[c].views : m.buffers[c].views[k] # v
          BY <4>1, <4>2, <1>2 DEF ListSound
        <4> QED BY <4>1, <4>3, <2>10, <2>12 DEF ListSound
      <3> QED BY <3>1, <3>2
    <2>19. ASSUME NEW w \in DOMAIN n.views, w # v PROVE ViewSound(n, w)
      <3>1. ViewSound(m, w) /\ n.views[w] = m.views[w]
        BY <2>10, <2>12, <2>19 DEF Sound
      <3>2. \A c \in DOMAIN m.buffers : c \in DOMAIN n.buffers /\ n.buffers[c] = m.buffers[c]
        <4> TAKE c \in DOMAIN m.buffers
        <4>1. c \in DOMAIN a.buffers
          BY <2>2, SoundParts DEF IsNewBuffer
        <4> QED BY <4>1, <2>11, <2>12, <2>13
      <3> QED BY <3>1, <3>2 DEF ViewSound
    <2>20. ViewSound(n, v)
      <3>1. ViewSound(m, v) /\ n.views[v] = view
        BY <2>10, <2>12 DEF Sound
      <3>2. n.buffers[b] = buf /\ b \in DOMAIN n.buffers
        BY <2>4, <2>11, <2>12
      <3>3. view.kind \in Kinds => view.length % Size[view.kind] = 0
        BY <3>1, <2>6 DEF ViewSound
      <3>4. view.offset + view.length <= buf.length
        <4>1. view.offset = 0 /\ view.length = buf.length /\ view.length \in Nat
          BY <2>6, <2>7, <2>14, <2>15 DEF ViewRecord
        <4> QED BY <4>1
      <3>5. \E k \in DOMAIN buf.views : buf.views[k] = v
        <4>1. 1 \in DOMAIN <<v>> /\ <<v>>[1] = v
          OBVIOUS
        <4> QED BY <4>1, <2>7
      <3>6. buf.live
        BY <2>7, <2>14
      <3> QED BY <3>1, <3>2, <3>3, <3>4, <3>5, <3>6, <2>4, <2>6 DEF ViewSound
    <2>21. Sound(n)
      BY <2>12, <2>16, <2>17, <2>18, <2>19, <2>20 DEF Sound
    <2>22. BytesOf(n, v) = BytesOf(m, v)
      <3>1. BytesOf(m, v) = heap
        BY <1>2 DEF BytesOf
      <3>2. BytesOf(n, v) = [i \in 1..view.length |-> a.stores[a.buffers[b].store].bytes[i]]
        <4>1. n.views[v] = view /\ n.buffers[b].store = a.buffers[b].store /\ view.buffer = b
          BY <2>4, <2>6, <2>7, <2>10, <2>11, <2>12
        <4>2. BytesOf(n, v) =
                [i \in 1..view.length |-> a.stores[a.buffers[b].store].bytes[view.offset + i]]
          BY <4>1, <2>4, <2>12 DEF BytesOf
        <4>3. \A i \in 1..view.length : view.offset + i = i
          BY <2>6, <2>15
        <4> QED BY <4>2, <4>3
      <3>3. heap = [i \in 1..view.length |-> heap[i]] /\ view.length = Len(heap)
        BY <2>1, <2>6, LenProperties
      <3>4. CASE heap = <<>>
        <4>1. view.length = 0
          BY <3>3, <3>4, EmptySeq
        <4> HIDE DEF heap
        <4> QED BY <4>1, <3>1, <3>2, <3>3
      <3>5. CASE heap # <<>>
        <4>1. a.buffers[b].store = Len(m.stores) + 1
          BY <3>5, <2>13 DEF Buffer
        <4>2. a.stores[Len(m.stores) + 1].bytes = heap
          BY <3>5, <2>2 DEF IsNewBuffer, Store
        <4> HIDE DEF heap
        <4> QED BY <4>1, <4>2, <3>1, <3>2, <3>3
      <3> QED BY <3>4, <3>5
    <2>23. ASSUME NEW w \in DOMAIN m.views, w # v, m.views[w].live PROVE BytesOf(n, w) = BytesOf(m, w)
      <3>1. n.views[w] = m.views[w]
        BY <2>10, <2>12, <2>23
      <3>2. CASE m.views[w].buffer = Heap
        BY <3>1, <3>2 DEF BytesOf
      <3>3. CASE m.views[w].buffer # Heap
        <4> DEFINE c == m.views[w].buffer
        <4>1. c \in DOMAIN m.buffers
          BY <3>3 DEF Sound, ViewSound
        <4>2. n.buffers[c].store = m.buffers[c].store
          <5>1. c \in DOMAIN a.buffers
            BY <4>1, <2>2, SoundParts DEF IsNewBuffer
          <5> QED BY <4>1, <5>1, <2>11, <2>12, <2>13
        <4> HIDE DEF c
        <4>3. CASE m.views[w].length = 0
          <5>1. 1..m.views[w].length = {}
            BY <4>3
          <5> QED BY <3>1, <3>3, <5>1 DEF BytesOf
        <4>4. CASE m.views[w].length # 0
          <5>1. StoreOf(m, w) \in DOMAIN m.stores
            BY <4>4, <3>3, <2>23, InStore
          <5>2. n.stores[m.buffers[c].store] = m.stores[m.buffers[c].store]
            BY <5>1, <2>2, <2>12, SoundParts DEF IsNewBuffer, StoreOf, c
          <5> QED BY <3>1, <3>3, <4>2, <5>2 DEF BytesOf, c
        <4> QED BY <4>3, <4>4
      <3> QED BY <3>2, <3>3
    <2>24. IsMoved(m, n, v)
      <3>1. n.views[v] = view /\ n.views[v].buffer # Heap /\ DOMAIN n.views = DOMAIN m.views
        BY <2>4, <2>6, <2>10, <2>12
      <3>2. \A w \in DOMAIN m.views : w # v => n.views[w] = m.views[w]
        BY <2>10, <2>12
      <3> SUFFICES ASSUME NEW w \in DOMAIN m.views
                   PROVE  /\ n.views[w].kind = m.views[w].kind
                          /\ n.views[w].length = m.views[w].length
                          /\ n.views[w].live = m.views[w].live
                          /\ m.views[w].live => BytesOf(n, w) = BytesOf(m, w)
                          /\ w # v => n.views[w].buffer = m.views[w].buffer
        BY <3>1 DEF IsMoved
      <3>3. CASE w = v
        BY <3>1, <3>3, <2>1, <2>6, <2>22
      <3>4. CASE w # v
        BY <3>2, <3>4, <2>23
      <3> QED BY <3>3, <3>4
    <2> QED BY <2>21, <2>24 DEF n
  <1> QED BY <1>1, <1>2

(***************************************************************************)
(* 4.1 Elements, and the memories between those of a copy.                 *)
(***************************************************************************)
LEMMA Sizes == Kinds = {"u8", "u16"} /\ \A kind \in Kinds : Size[kind] \in {1, 2}
  BY DEF Kinds, Size

\* Element i of a typed array ends where the array does, or before.
LEMMA Within ==
  ASSUME NEW width \in {1, 2}, NEW length \in Nat, NEW i \in Nat, i < length \div width
  PROVE  i * width + width <= length /\ i * width \in Nat /\ (i + 1) * width = i * width + width
  <1>1. CASE width = 1
    BY <1>1
  <1>2. CASE width = 2
    BY <1>2
  <1> QED BY <1>1, <1>2

LEMMA ElementIs ==
  ASSUME NEW m, Sound(m), NEW v \in DOMAIN m.views, m.views[v].live, m.views[v].kind \in Kinds,
         NEW i \in Nat, i < Count(m, v)
  PROVE  LET width == Size[m.views[v].kind]
         IN /\ Element(m, v, i) \in Seq(Bytes) /\ Len(Element(m, v, i)) = width
            /\ \A k \in 1..width : Element(m, v, i)[k] = BytesOf(m, v)[i * width + k]
            /\ i * width + width <= m.views[v].length
  <1> DEFINE width == Size[m.views[v].kind]
             bytes == BytesOf(m, v)
             s == SubSeq(bytes, i * width + 1, (i + 1) * width)
  <1>1. width \in {1, 2} /\ m.views[v].length \in Nat
    BY Sizes, SoundParts DEF ViewRecord
  <1>2. bytes \in Seq(Bytes) /\ Len(bytes) = m.views[v].length
    BY BytesAre
  <1>3. Element(m, v, i) = s
    BY DEF Element
  <1>4. i < m.views[v].length \div width
    BY DEF Count
  <1> HIDE DEF bytes, width
  <1>5. i * width + width <= Len(bytes) /\ i * width \in Nat /\ (i + 1) * width = i * width + width
    BY <1>1, <1>2, <1>4, Within
  <1> DEFINE at == i * width
  <1>6. at \in Nat /\ at + width <= Len(bytes) /\ s = SubSeq(bytes, at + 1, at + width)
    BY <1>5
  <1> HIDE DEF at
  <1>7. \A k \in at + 1..at + width : bytes[k] \in Bytes
    <2> TAKE k \in at + 1..at + width
    <2>1. k \in 1..Len(bytes)
      BY <1>1, <1>2, <1>6, LenProperties
    <2> QED BY <2>1, <1>2, ElementOfSeq
  <1>8. /\ SubSeq(bytes, at + 1, at + width) \in Seq(Bytes)
        /\ Len(SubSeq(bytes, at + 1, at + width)) = width
        /\ \A k \in 1..width : SubSeq(bytes, at + 1, at + width)[k] = bytes[at + k]
    <2>1. at + 1 \in Int /\ at + width \in Int /\ (at + width) - (at + 1) + 1 = width
          /\ at + 1 <= at + width /\ \A k \in 1..width : (at + 1) + k - 1 = at + k
      BY <1>1, <1>6
    <2>2. /\ SubSeq(bytes, at + 1, at + width) \in Seq(Bytes)
          /\ Len(SubSeq(bytes, at + 1, at + width)) =
               IF at + 1 <= at + width THEN (at + width) - (at + 1) + 1 ELSE 0
          /\ \A k \in 1..(at + width) - (at + 1) + 1 :
               SubSeq(bytes, at + 1, at + width)[k] = bytes[(at + 1) + k - 1]
      BY <2>1, <1>7, SubSeqProperties
    <2> QED BY <2>1, <2>2
  <1> QED BY <1>2, <1>3, <1>5, <1>6, <1>8 DEF at, bytes, width

LEMMA ConvertedIs ==
  ASSUME NEW bytes \in Seq(Bytes), NEW width \in {1, 2}
  PROVE  Converted(bytes, width) \in Seq(Bytes) /\ Len(Converted(bytes, width)) = width
  <1> DEFINE s == Converted(bytes, width)
  <1>1. \A i \in DOMAIN bytes : bytes[i] \in Bytes
    BY LenProperties, ElementOfSeq
  <1>2. s \in [1..width -> Bytes]
    BY <1>1, BytesAssumption DEF Converted
  <1>3. s \in Seq(Bytes)
    BY <1>2, SeqDef
  <1> QED BY <1>2, <1>3, LenProperties

LEMMA ConvertedElementsAre ==
  ASSUME NEW m, Sound(m), NEW v \in DOMAIN m.views, m.views[v].live, m.views[v].kind \in Kinds,
         NEW kind \in Kinds
  PROVE  LET width == Size[kind]
         IN /\ ConvertedElements(m, v, kind) \in Seq(Bytes)
            /\ Len(ConvertedElements(m, v, kind)) = Count(m, v) * width
            /\ Count(m, v) \in Nat /\ Count(m, v) * width \in Nat
            /\ \A k \in 1..Count(m, v) * width :
                 LET i == (k - 1) \div width
                 IN /\ i \in 0..Count(m, v) - 1 /\ k - i * width \in 1..width
                    /\ ConvertedElements(m, v, kind)[k] =
                         Converted(Element(m, v, i), width)[k - i * width]
  <1> DEFINE width == Size[kind]
             s == ConvertedElements(m, v, kind)
  <1>1. width \in {1, 2} /\ Size[m.views[v].kind] \in {1, 2} /\ m.views[v].length \in Nat
    BY Sizes, SoundParts DEF ViewRecord
  <1>2. Count(m, v) \in Nat /\ Count(m, v) * width \in Nat
    BY <1>1 DEF Count
  <1>3. s = [k \in 1..Count(m, v) * width |->
               Converted(Element(m, v, (k - 1) \div width), width)[((k - 1) % width) + 1]]
    BY DEF ConvertedElements
  <1> HIDE DEF width
  <1>4. ASSUME NEW k \in 1..Count(m, v) * width
        PROVE  LET i == (k - 1) \div width
               IN i \in 0..Count(m, v) - 1 /\ k - i * width = ((k - 1) % width) + 1
                  /\ k - i * width \in 1..width
    <2>1. CASE width = 1
      BY <2>1, <1>2
    <2>2. CASE width = 2
      BY <2>2, <1>2
    <2> QED BY <2>1, <2>2, <1>1
  <1>5. ASSUME NEW k \in 1..Count(m, v) * width
        PROVE  s[k] = Converted(Element(m, v, (k - 1) \div width), width)[k - ((k - 1) \div width) * width]
               /\ s[k] \in Bytes
    <2> DEFINE i == (k - 1) \div width
    <2>1. i \in Nat /\ i < Count(m, v) /\ k - i * width = ((k - 1) % width) + 1 /\ k - i * width \in 1..width
      BY <1>2, <1>4
    <2>2. s[k] = Converted(Element(m, v, i), width)[k - i * width]
      BY <1>3, <2>1
    <2> HIDE DEF i
    <2>3. Element(m, v, i) \in Seq(Bytes)
      BY <2>1, ElementIs
    <2>4. Converted(Element(m, v, i), width) \in Seq(Bytes)
          /\ Len(Converted(Element(m, v, i), width)) = width
      BY <2>3, <1>1, ConvertedIs
    <2>5. s[k] \in Bytes
      BY <2>1, <2>2, <2>4, ElementOfSeq
    <2> QED BY <2>2, <2>5 DEF i
  <1>6. s \in [1..Count(m, v) * width -> Bytes]
    BY <1>3, <1>5
  <1>7. s \in Seq(Bytes)
    BY <1>2, <1>6, SeqDef
  <1>8. Len(s) = Count(m, v) * width
    BY <1>2, <1>6, <1>7, LenProperties
  <1> QED BY <1>2, <1>4, <1>5, <1>7, <1>8 DEF width

LEMMA IsWrittenChains ==
  ASSUME NEW m, NEW n, NEW o, IsWritten(m, n), IsWritten(n, o)
  PROVE  IsWritten(m, o)
  BY DEF IsWritten

\* The memories that differ in bytes only.
SameShape(m) == {n \in MemoryRecord : Sound(n) /\ IsWritten(m, n)}

\* The memory after each element.
IsCopying(copied, m, v, w, offset) ==
  LET width == Size[m.views[v].kind]
  IN /\ copied[0] = m /\ copied[Count(m, w)] = ElementByElement(m, v, w, offset)
     /\ \A i \in 1..Count(m, w) :
          copied[i] = Written(copied[i - 1], v, (offset + i - 1) * width,
                              Converted(Element(copied[i - 1], w, i - 1), width))

LEMMA CopiedIs ==
  ASSUME NEW m, Sound(m), NEW v \in DOMAIN m.views, m.views[v].live, m.views[v].kind \in Kinds,
         NEW w \in DOMAIN m.views, m.views[w].live, m.views[w].kind \in Kinds, NEW offset \in Nat
  PROVE  \E copied \in [0..Count(m, w) -> SameShape(m)] :
           Count(m, w) \in Nat /\ IsCopying(copied, m, v, w, offset)
  <1> DEFINE width == Size[m.views[v].kind]
             k    == Count(m, w)
             V    == {n \in MemoryRecord : Sound(n) /\ IsWritten(m, n)}
             Copy(n, i) == Written(n, v, (offset + i - 1) * width,
                                    Converted(Element(n, w, i - 1), width))
             step == [i \in 1..k |-> [n \in V |-> Copy(n, i)]]
             body(f) == [i \in 0..k |-> IF i = 0 THEN m ELSE Copy(f[i - 1], i)]
             f == Run(k, V, m, step)
             copied == CHOOSE g : g = body(g)
  <1>1. width \in {1, 2} /\ k \in Nat
    <2>1. /\ width \in {1, 2} /\ Size[m.views[w].kind] \in {1, 2}
          /\ m.views[w].length \in Nat
      BY Sizes, SoundParts DEF ViewRecord
    <2> QED BY <2>1 DEF Count
  <1>2. m \in V
    BY SoundParts DEF IsWritten, Sound
  <1>3. ASSUME NEW n \in V, NEW i \in 1..k PROVE Copy(n, i) \in V
    <2>1. /\ Sound(n) /\ IsWritten(m, n) /\ v \in DOMAIN n.views
          /\ w \in DOMAIN n.views /\ n.views[w].live /\ n.views[w].kind \in Kinds /\ Count(n, w) = k
      BY DEF IsWritten, Count
    <2>2. i - 1 \in Nat /\ i - 1 < Count(n, w) /\ (offset + i - 1) * width \in Int
      BY <1>1, <2>1
    <2>3. Element(n, w, i - 1) \in Seq(Bytes)
      BY <2>1, <2>2, ElementIs
    <2>4. Converted(Element(n, w, i - 1), width) \in Seq(Bytes)
      BY <2>3, <1>1, ConvertedIs
    <2>5. Sound(Copy(n, i)) /\ IsWritten(n, Copy(n, i))
      BY <2>1, <2>2, <2>4, WrittenSound
    <2>6. IsWritten(m, Copy(n, i))
      BY <2>1, <2>5, IsWrittenChains
    <2> QED BY <2>5, <2>6 DEF IsWritten
  <1>4. step \in [1..k -> [V -> V]]
    BY <1>3
  <1>5. f \in [0..k -> V] /\ f[0] = m /\ \A i \in 1..k : f[i] = step[i][f[i - 1]]
    <2> HIDE DEF step, V
    <2> QED BY <1>1, <1>2, <1>4, Recursion
  <1>6. \A i \in 1..k : f[i] = Copy(f[i - 1], i)
    <2> TAKE i \in 1..k
    <2>1. i - 1 \in 0..k
      BY <1>1
    <2>2. f[i - 1] \in V
      BY <1>5, <2>1
    <2> QED BY <1>5, <2>2
  <1> HIDE DEF f
  <1>7. f = body(f)
    <2>1. \A i \in 0..k : f[i] = body(f)[i]
      BY <1>1, <1>5, <1>6
    <2> QED BY <1>5, <2>1
  <1>8. copied = body(copied)
    BY <1>7
  <1>9. ElementByElement(m, v, w, offset) = copied[k]
    BY DEF ElementByElement
  <1> HIDE DEF copied
  <1>10. copied[0] = m /\ \A i \in 1..k : copied[i] = Copy(copied[i - 1], i)
    <2> HIDE DEF Copy, k
    <2> QED BY <1>1, <1>8
  <1>11. DOMAIN copied = 0..k /\ copied = [i \in 0..k |-> copied[i]]
    <2>1. copied = [i \in 0..k |-> body(copied)[i]]
      BY <1>8
    <2> QED BY <1>8, <2>1
  <1>12. 0..k \subseteq {i \in 0..k : copied[i] \in V}
    <2> DEFINE S == {i \in 0..k : copied[i] \in V}
    <2>1. 0 \in S
      BY <1>1, <1>2, <1>10
    <2>2. ASSUME NEW i \in 0..k, i \in S, i < k PROVE i + 1 \in S
      <3>1. i + 1 \in 1..k /\ (i + 1) - 1 = i
        BY <1>1, <2>2
      <3> HIDE DEF Copy
      <3>2. copied[i + 1] = Copy(copied[i], i + 1)
        BY <1>10, <3>1
      <3>3. copied[i + 1] \in V
        BY <1>3, <2>2, <3>1, <3>2
      <3> QED BY <3>1, <3>3, <1>1
    <2> HIDE DEF S
    <2>3. 0..k \subseteq S
      BY <1>1, <2>1, <2>2, Induction
    <2> QED BY <2>3 DEF S
  <1>13. copied \in [0..k -> V]
    BY <1>11, <1>12
  <1> QED BY <1>1, <1>9, <1>10, <1>13 DEF IsCopying, SameShape

(***************************************************************************)
(* 4.2 The inductive invariant, step by step.                              *)
(***************************************************************************)
BuffersInv == Sound(Memory)

LEMMA BuffersStart == BuffersInit => BuffersInv
  <1> SUFFICES ASSUME BuffersInit PROVE Sound(Memory)
    BY DEF BuffersInv
  <1>1. Memory.buffers = <<>> /\ Memory.stores = <<>> /\ Memory.views = <<>>
    BY DEF Memory, BuffersInit
  <1>2. Memory \in MemoryRecord
    BY EmptySeq DEF Memory, MemoryRecord, BuffersInit
  <1>3. DOMAIN Memory.buffers = {} /\ DOMAIN Memory.stores = {} /\ DOMAIN Memory.views = {}
    BY <1>1
  <1> QED BY <1>2, <1>3 DEF Sound

LEMMA MemoryIs == /\ Memory.buffers = buffers /\ Memory.stores = stores /\ Memory.views = views
                  /\ Memory'.buffers = buffers' /\ Memory'.stores = stores' /\ Memory'.views = views'
  BY DEF Memory

\* A step that becomes a sound memory is one to a sound memory.
LEMMA Becomes ==
  ASSUME NEW m, Sound(m), Become(m)
  PROVE  Memory' = m /\ BuffersInv'
  <1>1. m = [buffers |-> m.buffers, stores |-> m.stores, views |-> m.views]
    BY SoundParts DEF MemoryRecord
  <1>2. Memory' = m
    BY <1>1 DEF Memory, Become
  <1> QED BY <1>2 DEF BuffersInv

LEMMA StateParts ==
  ASSUME BuffersInv
  PROVE  /\ Sound(Memory)
         /\ buffers \in Seq(BufferRecord) /\ stores \in Seq(StoreRecord) /\ views \in Seq(ViewRecord)
         /\ DOMAIN buffers = 1..Len(buffers) /\ Len(buffers) \in Nat
         /\ DOMAIN stores = 1..Len(stores) /\ Len(stores) \in Nat
         /\ DOMAIN views = 1..Len(views) /\ Len(views) \in Nat
         /\ \A b \in DOMAIN buffers : buffers[b] \in BufferRecord
         /\ \A s \in DOMAIN stores : stores[s] \in StoreRecord
         /\ \A v \in DOMAIN views : views[v] \in ViewRecord
  BY SoundParts, MemoryIs DEF BuffersInv

LEMMA ZerosAre ==
  ASSUME NEW n \in Nat PROVE Zeros(n) \in Seq(Bytes) /\ Len(Zeros(n)) = n
  <1>1. Zeros(n) \in [1..n -> Bytes]
    BY BytesAssumption DEF Zeros
  <1>2. Zeros(n) \in Seq(Bytes)
    BY <1>1, SeqDef
  <1> QED BY <1>1, <1>2, LenProperties

LEMMA LengthsAre == Lengths \subseteq Nat
  BY BytesAssumption DEF Lengths

LEMMA ArrayBufferInitializeStep ==
  ASSUME BuffersInv, NEW n \in Nat, ArrayBufferInitialize(n)
  PROVE  BuffersInv'
  BY ZerosAre, AllocatedSound, Becomes DEF ArrayBufferInitialize, BuffersInv

LEMMA NewExternalStep ==
  ASSUME BuffersInv, NEW n \in Nat, NewExternal(n)
  PROVE  BuffersInv'
  <1> DEFINE bytes == <<1>> \o Zeros(n - 1)
             buffer == Buffer(Len(stores) + 1, n, TRUE)
             m == [buffers |-> buffers', stores |-> stores', views |-> views']
  <1>1. bytes \in Seq(Bytes) /\ Len(bytes) = n /\ bytes # <<>>
    <2>1. n - 1 \in Nat /\ 1 \in Bytes
      BY BytesAssumption DEF NewExternal
    <2>2. <<1>> \in Seq(Bytes) /\ Len(<<1>>) = 1
      BY <2>1
    <2>3. Len(bytes) = 1 + (n - 1) /\ bytes \in Seq(Bytes)
      BY <2>1, <2>2, ZerosAre, ConcatProperties
    <2>4. Len(bytes) = n /\ n # 0
      BY <2>3 DEF NewExternal
    <2> HIDE DEF bytes
    <2> QED BY <2>3, <2>4, EmptySeq
  <1> HIDE DEF bytes
  <1>2. stores' = Append(stores, Store(bytes, "embedder")) /\ Store(bytes, "embedder") \in StoreRecord
    BY <1>1 DEF NewExternal, bytes, Store, StoreRecord
  <1>3. /\ stores' \in Seq(StoreRecord) /\ Len(stores') = Len(stores) + 1
        /\ \A s \in 1..Len(stores) : stores'[s] = stores[s]
        /\ stores'[Len(stores) + 1] = Store(bytes, "embedder")
    BY <1>2, StateParts, AppendProperties
  <1>4. buffers' = Append(buffers, buffer) /\ buffer \in BufferRecord
    BY <1>3, StateParts, EmptySeq DEF NewExternal, Buffer, BufferRecord
  <1> HIDE DEF buffer
  <1>5. /\ buffers' \in Seq(BufferRecord) /\ Len(buffers') = Len(buffers) + 1
        /\ \A b \in 1..Len(buffers) : buffers'[b] = buffers[b]
        /\ buffers'[Len(buffers) + 1] = buffer
    BY <1>4, StateParts, AppendProperties
  <1>6. views' = views
    BY DEF NewExternal
  <1>7. m \in MemoryRecord
    BY <1>3, <1>5, <1>6, StateParts DEF MemoryRecord
  <1>8. m.buffers = buffers' /\ m.stores = stores' /\ m.views = views'
    OBVIOUS
  <1> HIDE DEF m
  <1>9. m.buffers[Len(m.buffers)] =
          Buffer(IF bytes = <<>> THEN NULL ELSE Len(Memory.stores) + 1, Len(bytes), TRUE)
    BY <1>1, <1>5, <1>8, MemoryIs DEF buffer
  <1>10. IsNewBuffer(Memory, m, bytes, TRUE)
    BY <1>1, <1>3, <1>5, <1>6, <1>7, <1>8, <1>9, MemoryIs DEF IsNewBuffer
  <1>11. Sound(m)
    BY <1>1, <1>10, StateParts, NewBufferSound
  <1> QED BY <1>8, <1>11, Becomes DEF Become

LEMMA ArrayBufferSliceStep ==
  ASSUME BuffersInv, NEW b \in LiveBuffers, NEW start \in Nat, NEW n \in Nat,
         ArrayBufferSliceImpl(b, start, n)
  PROVE  BuffersInv'
  <1> DEFINE bytes == IF n = 0 THEN <<>>
                      ELSE SubSeq(stores[buffers[b].store].bytes, start + 1, start + n)
  <1>1. CASE n = 0
    <2>1. bytes = <<>> /\ bytes \in Seq(Bytes)
      BY <1>1, EmptySeq
    <2> QED BY <2>1, StateParts, AllocatedSound, Becomes DEF ArrayBufferSliceImpl
  <1>2. CASE n # 0
    <2> DEFINE old == stores[buffers[b].store].bytes
    <2>1. b \in DOMAIN buffers /\ buffers[b].live /\ start + n <= buffers[b].length
      BY DEF LiveBuffers, ArrayBufferSliceImpl
    <2>2. BufferSound(Memory, b)
      BY <2>1, StateParts, MemoryIs DEF Sound
    <2>3. buffers[b].length \in Nat /\ buffers[b].length # 0
      BY <2>1, <1>2, StateParts DEF BufferRecord
    <2>4. buffers[b].store \in DOMAIN stores /\ Len(old) = buffers[b].length
      BY <2>1, <2>2, <2>3, MemoryIs DEF BufferSound
    <2>5. old \in Seq(Bytes)
      BY <2>4, StateParts DEF StoreRecord
    <2> HIDE DEF old
    <2>6. \A i \in start + 1..start + n : old[i] \in Bytes
      <3> TAKE i \in start + 1..start + n
      <3>1. i \in 1..Len(old)
        BY <2>1, <2>3, <2>4
      <3> QED BY <3>1, <2>5, ElementOfSeq
    <2>7. SubSeq(old, start + 1, start + n) \in Seq(Bytes)
      <3>1. start + 1 \in Int /\ start + n \in Int
        OBVIOUS
      <3> QED BY <3>1, <2>6, SubSeqProperties
    <2>8. bytes \in Seq(Bytes)
      BY <1>2, <2>7 DEF old
    <2>9. Sound(Allocated(Memory, bytes))
      BY <2>8, StateParts, AllocatedSound
    <2> QED BY <2>9, Becomes DEF ArrayBufferSliceImpl
  <1> QED BY <1>1, <1>2

\* What changes of one buffer, of its store and of its views.
LEMMA SoundBuffer ==
  ASSUME BuffersInv, NEW b \in LiveBuffers
  PROVE  /\ b \in DOMAIN buffers /\ buffers[b].live /\ b # Heap /\ buffers[b] \in BufferRecord
         /\ BufferSound(Memory, b) /\ ListSound(Memory, b)
         /\ buffers[b].store # NULL => buffers[b].store \in DOMAIN stores
  <1>1. b \in DOMAIN buffers /\ buffers[b].live
    BY DEF LiveBuffers
  <1>2. BufferSound(Memory, b) /\ ListSound(Memory, b)
    BY <1>1, StateParts, MemoryIs DEF Sound
  <1>3. buffers[b].store # NULL => buffers[b].store \in DOMAIN stores
    BY <1>2, MemoryIs DEF BufferSound
  <1> QED BY <1>1, <1>2, <1>3, StateParts DEF Heap

WithOwner(s, owner) == [stores EXCEPT ![s].owner = owner]

LEMMA OwnerChanges ==
  ASSUME BuffersInv, NEW s \in DOMAIN stores, NEW owner \in {"v8", "embedder", "freed"},
         NEW ss, ss = WithOwner(s, owner)
  PROVE  /\ ss \in Seq(StoreRecord) /\ DOMAIN ss = DOMAIN stores
         /\ \A t \in DOMAIN stores : /\ ss[t].bytes = stores[t].bytes
                                     /\ ss[t].owner = (IF t = s THEN owner ELSE stores[t].owner)
  <1> DEFINE e == [stores[s] EXCEPT !.owner = owner]
  <1>1. e \in StoreRecord /\ e.bytes = stores[s].bytes /\ e.owner = owner
    BY StateParts DEF StoreRecord
  <1>2. ss = [stores EXCEPT ![s] = e]
    BY StateParts DEF WithOwner
  <1> HIDE DEF e
  <1>3. /\ ss \in Seq(StoreRecord) /\ Len(ss) = Len(stores)
        /\ \A t \in DOMAIN stores : ss[t] = IF t = s THEN e ELSE stores[t]
    BY <1>1, <1>2, StateParts, ExceptSeq
  <1>4. DOMAIN ss = DOMAIN stores
    BY <1>3, StateParts, LenProperties
  <1> QED BY <1>1, <1>3, <1>4

LEMMA ExternalizeStep ==
  ASSUME BuffersInv, NEW b \in LiveBuffers, Externalize(b)
  PROVE  BuffersInv'
  <1> DEFINE e == [buffers[b] EXCEPT !.is_external = TRUE]
             s == buffers[b].store
  <1>1. /\ b \in DOMAIN buffers /\ buffers[b].live /\ buffers[b] \in BufferRecord
        /\ BufferSound(Memory, b) /\ (s # NULL => s \in DOMAIN stores)
    BY SoundBuffer
  <1>2. /\ e \in BufferRecord /\ e.store = s /\ e.length = buffers[b].length /\ e.is_external
        /\ e.views = buffers[b].views /\ e.live
    BY <1>1 DEF BufferRecord
  <1>3. buffers' = [buffers EXCEPT ![b] = e]
    BY <1>1, StateParts DEF Externalize
  <1> HIDE DEF e
  <1>4. /\ buffers' \in Seq(BufferRecord) /\ DOMAIN buffers' = DOMAIN buffers
        /\ \A c \in DOMAIN buffers : buffers'[c] = IF c = b THEN e ELSE buffers[c]
    BY <1>1, <1>2, <1>3, StateParts, ExceptSeq, LenProperties
  <1>5. /\ stores' \in Seq(StoreRecord) /\ DOMAIN stores' = DOMAIN stores
        /\ \A t \in DOMAIN stores :
             /\ stores'[t].bytes = stores[t].bytes
             /\ stores'[t].owner = (IF t = s /\ s # NULL THEN "embedder" ELSE stores[t].owner)
    <2>1. CASE s = NULL
      BY <2>1, StateParts DEF Externalize
    <2>2. CASE s # NULL
      <3>1. stores' = WithOwner(s, "embedder")
        BY <2>2 DEF Externalize, WithOwner
      <3>2. s \in DOMAIN stores
        BY <2>2, <1>1
      <3>3. /\ stores' \in Seq(StoreRecord) /\ DOMAIN stores' = DOMAIN stores
            /\ \A t \in DOMAIN stores :
                 /\ stores'[t].bytes = stores[t].bytes
                 /\ stores'[t].owner = (IF t = s THEN "embedder" ELSE stores[t].owner)
        BY <3>1, <3>2, OwnerChanges
      <3> QED BY <2>2, <3>3
    <2> QED BY <2>1, <2>2
  <1>6. views' = views
    BY DEF Externalize
  <1>7. \A c \in DOMAIN buffers : /\ buffers'[c].store = buffers[c].store
                                  /\ buffers'[c].length = buffers[c].length
                                  /\ buffers'[c].views = buffers[c].views
                                  /\ buffers'[c].live = buffers[c].live
                                  /\ buffers'[c].is_external = (c = b \/ buffers[c].is_external)
    BY <1>1, <1>2, <1>4, StateParts DEF BufferRecord
  <1>8. Memory' \in MemoryRecord
    BY <1>4, <1>5, <1>6, StateParts DEF Memory, MemoryRecord
  <1>9. ASSUME NEW c \in DOMAIN buffers PROVE BufferSound(Memory', c) /\ ListSound(Memory', c)
    <2>1. BufferSound(Memory, c) /\ ListSound(Memory, c)
      BY StateParts, MemoryIs DEF Sound
    <2>2. buffers[c].live /\ c # b /\ buffers[c].store # NULL => buffers[c].store # s
      BY <2>1, <1>1, MemoryIs DEF BufferSound
    <2>3. BufferSound(Memory', c)
      BY <2>1, <2>2, <1>1, <1>2, <1>4, <1>5, <1>7, MemoryIs DEF BufferSound
    <2> QED BY <2>1, <2>3, <1>4, <1>6, <1>7, MemoryIs DEF ListSound
  <1>10. ASSUME NEW t \in DOMAIN stores PROVE StoreSound(Memory', t)
    <2>1. StoreSound(Memory, t)
      BY StateParts, MemoryIs DEF Sound
    <2> QED BY <2>1, <1>4, <1>5, <1>7, MemoryIs DEF StoreSound
  <1>11. ASSUME NEW v \in DOMAIN views PROVE ViewSound(Memory', v)
    <2>1. ViewSound(Memory, v)
      BY StateParts, MemoryIs DEF Sound
    <2> QED BY <2>1, <1>4, <1>6, <1>7, MemoryIs DEF ViewSound
  <1> QED BY <1>4, <1>5, <1>6, <1>8, <1>9, <1>10, <1>11, MemoryIs DEF BuffersInv, Sound

\* A buffer gives its memory up: it is handed on, freed, or was the embedder's all along.
Releases(b) ==
  stores' = IF buffers[b].is_external \/ buffers[b].store = NULL THEN stores
            ELSE [stores EXCEPT ![buffers[b].store].owner = "freed"]

LEMMA Released ==
  ASSUME BuffersInv, NEW b \in LiveBuffers, Releases(b)
  PROVE  /\ stores' \in Seq(StoreRecord) /\ DOMAIN stores' = DOMAIN stores
         /\ \A t \in DOMAIN stores :
              /\ stores'[t].bytes = stores[t].bytes
              /\ t # buffers[b].store => stores'[t].owner = stores[t].owner
              /\ t = buffers[b].store => stores'[t].owner # "v8"
  <1> DEFINE s == buffers[b].store
  <1>1. /\ BufferSound(Memory, b) /\ buffers[b] \in BufferRecord /\ (s # NULL => s \in DOMAIN stores)
        /\ buffers[b].live
    BY SoundBuffer
  <1>2. s # NULL /\ buffers[b].is_external => stores[s].owner = "embedder"
    BY <1>1, MemoryIs DEF BufferSound
  <1>3. NULL \notin DOMAIN stores
    BY StateParts DEF NULL
  <1>4. CASE buffers[b].is_external \/ s = NULL
    BY <1>2, <1>3, <1>4, StateParts DEF Releases
  <1>5. CASE ~ buffers[b].is_external /\ s # NULL
    <2>1. stores' = WithOwner(s, "freed")
      BY <1>5 DEF WithOwner, Releases
    <2>2. s \in DOMAIN stores
      BY <1>1, <1>5
    <2>3. /\ stores' \in Seq(StoreRecord) /\ DOMAIN stores' = DOMAIN stores
          /\ \A t \in DOMAIN stores :
               /\ stores'[t].bytes = stores[t].bytes
               /\ stores'[t].owner = (IF t = s THEN "freed" ELSE stores[t].owner)
      BY <2>1, <2>2, OwnerChanges
    <2> QED BY <2>3
  <1> QED BY <1>4, <1>5

\* A buffer that has no store, or is dead, does not count as a holder.
LEMMA NoLongerHolds ==
  ASSUME BuffersInv, NEW b \in LiveBuffers,
         DOMAIN buffers' = DOMAIN buffers, DOMAIN stores' = DOMAIN stores,
         \A c \in DOMAIN buffers : c # b => buffers'[c] = buffers[c],
         ~ buffers'[b].live \/ buffers'[b].store = NULL,
         \A t \in DOMAIN stores : /\ stores'[t].bytes = stores[t].bytes
                                  /\ t # buffers[b].store => stores'[t].owner = stores[t].owner
                                  /\ t = buffers[b].store => stores'[t].owner # "v8"
  PROVE  /\ \A c \in DOMAIN buffers : c # b => BufferSound(Memory', c)
         /\ \A t \in DOMAIN stores : StoreSound(Memory', t)
  <1>1. b \in DOMAIN buffers /\ buffers[b].live /\ BufferSound(Memory, b) /\ NULL \notin DOMAIN stores
    BY SoundBuffer, StateParts DEF NULL
  <1>2. ASSUME NEW c \in DOMAIN buffers, c # b PROVE BufferSound(Memory', c)
    <2>1. BufferSound(Memory, c) /\ buffers'[c] = buffers[c]
      BY <1>2, StateParts, MemoryIs DEF Sound
    <2>2. buffers[c].live /\ buffers[c].store # NULL =>
            buffers[c].store \in DOMAIN stores /\ buffers[c].store # buffers[b].store
      BY <2>1, <1>1, <1>2, MemoryIs DEF BufferSound
    <2>3. \A d \in DOMAIN buffers : buffers[c].store # NULL /\ buffers[c].live
             /\ buffers'[d].live /\ buffers'[d].store = buffers[c].store => d = c
      <3> SUFFICES ASSUME NEW d \in DOMAIN buffers, buffers[c].store # NULL, buffers[c].live,
                          buffers'[d].live, buffers'[d].store = buffers[c].store
                   PROVE  d = c
        OBVIOUS
      <3>1. d # b
        OBVIOUS
      <3> QED BY <3>1, <2>1, MemoryIs DEF BufferSound
    <2> QED BY <2>1, <2>2, <2>3, MemoryIs DEF BufferSound
  <1>3. ASSUME NEW t \in DOMAIN stores PROVE StoreSound(Memory', t)
    <2>1. StoreSound(Memory, t)
      BY StateParts, MemoryIs DEF Sound
    <2>2. CASE t = buffers[b].store
      BY <2>2, MemoryIs DEF StoreSound
    <2>3. CASE t # buffers[b].store
      BY <2>1, <2>3, MemoryIs DEF StoreSound
    <2> QED BY <2>2, <2>3
  <1> QED BY <1>2, <1>3

LEMMA NeuterArrayBufferStep ==
  ASSUME BuffersInv, NEW b \in LiveBuffers, NeuterArrayBuffer(b)
  PROVE  BuffersInv'
  <1> DEFINE e == [buffers[b] EXCEPT !.store = NULL, !.length = 0, !.is_external = TRUE]
             none(v) == [views[v] EXCEPT !.offset = 0, !.length = 0]
  <1>1. /\ b \in DOMAIN buffers /\ buffers[b].live /\ buffers[b] \in BufferRecord /\ b # Heap
        /\ ListSound(Memory, b)
    BY SoundBuffer
  <1>2. /\ e \in BufferRecord /\ e.store = NULL /\ e.length = 0 /\ e.views = buffers[b].views
        /\ e.live = buffers[b].live
    BY <1>1 DEF BufferRecord, NULL
  <1>3. buffers' = [buffers EXCEPT ![b] = e]
    <2>1. buffers' = [buffers EXCEPT ![b].store = NULL, ![b].length = 0, ![b].is_external = TRUE]
      BY DEF NeuterArrayBuffer
    <2> QED BY <2>1, <1>1, StateParts
  <1> HIDE DEF e
  <1>4. /\ buffers' \in Seq(BufferRecord) /\ DOMAIN buffers' = DOMAIN buffers
        /\ \A c \in DOMAIN buffers : buffers'[c] = IF c = b THEN e ELSE buffers[c]
    BY <1>1, <1>2, <1>3, StateParts, ExceptSeq, LenProperties
  <1>5. /\ stores' \in Seq(StoreRecord) /\ DOMAIN stores' = DOMAIN stores
        /\ \A t \in DOMAIN stores :
             /\ stores'[t].bytes = stores[t].bytes
             /\ t # buffers[b].store => stores'[t].owner = stores[t].owner
             /\ t = buffers[b].store => stores'[t].owner # "v8"
    <2>1. Releases(b)
      BY DEF NeuterArrayBuffer, Releases
    <2> QED BY <2>1, Released
  <1>6. \A v \in DOMAIN views : v \in ToSet(buffers[b].views) <=> views[v].buffer = b
    <2> TAKE v \in DOMAIN views
    <2>1. v \in ToSet(buffers[b].views) <=> \E k \in DOMAIN buffers[b].views : buffers[b].views[k] = v
      BY DEF ToSet
    <2>2. ViewSound(Memory, v)
      BY StateParts, MemoryIs DEF Sound
    <2> QED BY <2>1, <2>2, <1>1, MemoryIs DEF ViewSound, ListSound
  <1>7. \A v \in DOMAIN views : views'[v] = IF views[v].buffer = b THEN none(v) ELSE views[v]
    BY <1>6 DEF NeuterArrayBuffer, NeuteredViews
  <1>8. \A v \in DOMAIN views :
          /\ none(v) \in ViewRecord /\ none(v).kind = views[v].kind /\ none(v).buffer = views[v].buffer
          /\ none(v).heap = views[v].heap /\ none(v).live = views[v].live
          /\ none(v).offset = 0 /\ none(v).length = 0
    <2> TAKE v \in DOMAIN views
    <2>1. views[v] \in ViewRecord
      BY StateParts
    <2> QED BY <2>1 DEF ViewRecord
  <1>9. DOMAIN views' = DOMAIN views
    BY DEF NeuterArrayBuffer, NeuteredViews
  <1> HIDE DEF none
  <1>10. views' \in Seq(ViewRecord)
    <2>1. views' = [v \in 1..Len(views) |-> views'[v]]
      BY StateParts DEF NeuterArrayBuffer, NeuteredViews
    <2>2. \A v \in 1..Len(views) : views'[v] \in ViewRecord
      BY <1>7, <1>8, StateParts
    <2>3. views' \in [1..Len(views) -> ViewRecord]
      BY <2>1, <2>2
    <2> QED BY <2>3, StateParts, SeqDef
  <1>11. Memory' \in MemoryRecord
    BY <1>4, <1>5, <1>10 DEF Memory, MemoryRecord
  <1>12. /\ \A c \in DOMAIN buffers : c # b => BufferSound(Memory', c)
         /\ \A t \in DOMAIN stores : StoreSound(Memory', t)
    <2>1. buffers'[b].store = NULL /\ \A c \in DOMAIN buffers : c # b => buffers'[c] = buffers[c]
      BY <1>1, <1>2, <1>4
    <2> QED BY <2>1, <1>4, <1>5, NoLongerHolds
  <1>13. BufferSound(Memory', b)
    BY <1>1, <1>2, <1>4, MemoryIs DEF BufferSound
  <1>14. \A v \in DOMAIN views : /\ views'[v].buffer = views[v].buffer /\ views'[v].kind = views[v].kind
                                 /\ views'[v].live = views[v].live /\ views'[v].heap = views[v].heap
    BY <1>7, <1>8
  <1>15. \A c \in DOMAIN buffers : buffers'[c].views = buffers[c].views /\ buffers'[c].live = buffers[c].live
    BY <1>1, <1>2, <1>4
  <1>16. ASSUME NEW c \in DOMAIN buffers PROVE ListSound(Memory', c)
    <2>1. ListSound(Memory, c)
      BY StateParts, MemoryIs DEF Sound
    <2> QED BY <2>1, <1>9, <1>14, <1>15, MemoryIs DEF ListSound
  <1>17. ASSUME NEW v \in DOMAIN views PROVE ViewSound(Memory', v)
    <2>1. ViewSound(Memory, v)
      BY StateParts, MemoryIs DEF Sound
    <2>2. CASE views[v].buffer = b
      <3>1. views'[v].offset = 0 /\ views'[v].length = 0 /\ buffers'[b].length = 0
        BY <2>2, <1>1, <1>2, <1>4, <1>7, <1>8
      <3>2. \A kind \in Kinds : 0 % Size[kind] = 0
        BY Sizes
      <3> QED BY <2>1, <2>2, <3>1, <3>2, <1>1, <1>4, <1>14, <1>15, MemoryIs DEF ViewSound
    <2>3. CASE views[v].buffer # b
      <3>1. views'[v] = views[v]
        BY <2>3, <1>7
      <3> QED BY <2>1, <2>3, <3>1, <1>4, MemoryIs DEF ViewSound
    <2> QED BY <2>2, <2>3
  <1> QED BY <1>4, <1>5, <1>9, <1>11, <1>12, <1>13, <1>16, <1>17, MemoryIs DEF BuffersInv, Sound

LEMMA FreeArrayBufferStep ==
  ASSUME BuffersInv, NEW b \in LiveBuffers, FreeArrayBuffer(b)
  PROVE  BuffersInv'
  <1> DEFINE e == [buffers[b] EXCEPT !.live = FALSE]
             w(v) == [views[v] EXCEPT !.live = @ /\ views[v].buffer # b]
  <1>1. /\ b \in DOMAIN buffers /\ buffers[b].live /\ buffers[b] \in BufferRecord /\ b # Heap
        /\ BufferSound(Memory, b)
    BY SoundBuffer
  <1>2. /\ e \in BufferRecord /\ e.store = buffers[b].store /\ e.length = buffers[b].length
        /\ e.views = buffers[b].views /\ ~ e.live
    BY <1>1 DEF BufferRecord
  <1>3. buffers' = [buffers EXCEPT ![b] = e]
    BY <1>1, StateParts DEF FreeArrayBuffer
  <1> HIDE DEF e
  <1>4. /\ buffers' \in Seq(BufferRecord) /\ DOMAIN buffers' = DOMAIN buffers
        /\ \A c \in DOMAIN buffers : buffers'[c] = IF c = b THEN e ELSE buffers[c]
    BY <1>1, <1>2, <1>3, StateParts, ExceptSeq, LenProperties
  <1>5. /\ stores' \in Seq(StoreRecord) /\ DOMAIN stores' = DOMAIN stores
        /\ \A t \in DOMAIN stores :
             /\ stores'[t].bytes = stores[t].bytes
             /\ t # buffers[b].store => stores'[t].owner = stores[t].owner
             /\ t = buffers[b].store => stores'[t].owner # "v8"
    <2>1. Releases(b)
      BY DEF FreeArrayBuffer, Releases
    <2> QED BY <2>1, Released
  <1>6. views' = [v \in DOMAIN views |-> w(v)]
    BY DEF FreeArrayBuffer
  <1>7. \A v \in DOMAIN views :
          /\ w(v) \in ViewRecord /\ w(v).kind = views[v].kind /\ w(v).buffer = views[v].buffer
          /\ w(v).heap = views[v].heap /\ w(v).live = (views[v].live /\ views[v].buffer # b)
          /\ w(v).offset = views[v].offset /\ w(v).length = views[v].length
    <2> TAKE v \in DOMAIN views
    <2>1. views[v] \in ViewRecord
      BY StateParts
    <2> QED BY <2>1 DEF ViewRecord
  <1> HIDE DEF w
  <1>8. DOMAIN views' = DOMAIN views /\ \A v \in DOMAIN views : views'[v] = w(v)
    BY <1>6
  <1>9. views' \in Seq(ViewRecord)
    <2>1. views' \in [1..Len(views) -> ViewRecord]
      BY <1>6, <1>7, StateParts
    <2> QED BY <2>1, StateParts, SeqDef
  <1>10. Memory' \in MemoryRecord
    BY <1>4, <1>5, <1>9 DEF Memory, MemoryRecord
  <1>11. /\ \A c \in DOMAIN buffers : c # b => BufferSound(Memory', c)
         /\ \A t \in DOMAIN stores : StoreSound(Memory', t)
    <2>1. ~ buffers'[b].live /\ \A c \in DOMAIN buffers : c # b => buffers'[c] = buffers[c]
      BY <1>1, <1>2, <1>4
    <2> QED BY <2>1, <1>4, <1>5, NoLongerHolds
  <1>12. BufferSound(Memory', b)
    BY <1>1, <1>2, <1>4, <1>5, MemoryIs DEF BufferSound
  <1>13. \A c \in DOMAIN buffers : buffers'[c].views = buffers[c].views
                                   /\ buffers'[c].length = buffers[c].length
    BY <1>1, <1>2, <1>4
  <1>14. ASSUME NEW c \in DOMAIN buffers PROVE ListSound(Memory', c)
    <2>1. ListSound(Memory, c)
      BY StateParts, MemoryIs DEF Sound
    <2> QED BY <2>1, <1>7, <1>8, <1>13, MemoryIs DEF ListSound
  <1>15. ASSUME NEW v \in DOMAIN views PROVE ViewSound(Memory', v)
    <2>1. ViewSound(Memory, v)
      BY StateParts, MemoryIs DEF Sound
    <2>2. views[v].buffer \in DOMAIN buffers /\ views[v].buffer # b =>
            buffers'[views[v].buffer].live = buffers[views[v].buffer].live
      BY <1>4
    <2>3. views'[v] = w(v)
      BY <1>8
    <2>4. /\ views'[v].kind = views[v].kind /\ views'[v].buffer = views[v].buffer
          /\ views'[v].heap = views[v].heap /\ views'[v].offset = views[v].offset
          /\ views'[v].length = views[v].length
          /\ views'[v].live = (views[v].live /\ views[v].buffer # b)
      BY <2>3, <1>7
    <2>5. CASE views[v].buffer = Heap
      BY <2>1, <2>4, <2>5, <1>1, MemoryIs DEF ViewSound
    <2>6. CASE views[v].buffer # Heap
      <3> DEFINE c == views[v].buffer
      <3>1. /\ c \in DOMAIN buffers /\ (views[v].live => buffers[c].live)
            /\ views[v].offset + views[v].length <= buffers[c].length
            /\ \E k \in DOMAIN buffers[c].views : buffers[c].views[k] = v
            /\ views[v].kind \in Kinds => views[v].length % Size[views[v].kind] = 0
        BY <2>1, <2>6, MemoryIs DEF ViewSound
      <3>2. views'[v].live => buffers'[c].live
        BY <3>1, <2>2, <2>4
      <3>3. c \in DOMAIN buffers' /\ views'[v].buffer = c /\ c # Heap
            /\ buffers'[c].views = buffers[c].views /\ buffers'[c].length = buffers[c].length
        BY <3>1, <2>4, <2>6, <1>4, <1>13
      <3> HIDE DEF c
      <3> QED BY <3>1, <3>2, <3>3, <2>4, MemoryIs DEF ViewSound
    <2> QED BY <2>5, <2>6
  <1> QED BY <1>4, <1>5, <1>8, <1>10, <1>11, <1>12, <1>14, <1>15, MemoryIs DEF BuffersInv, Sound

LEMMA SoundView ==
  ASSUME BuffersInv, NEW v \in LiveViews
  PROVE  /\ v \in DOMAIN Memory.views /\ Memory.views[v] = views[v] /\ views[v].live
         /\ views[v] \in ViewRecord
         /\ v \in TypedArrays => views[v].kind \in Kinds
  BY StateParts, MemoryIs DEF LiveViews, TypedArrays

LEMMA TypedArraysLive == TypedArrays \subseteq LiveViews
  BY DEF TypedArrays

LEMMA LinkedStep ==
  ASSUME BuffersInv, NEW b \in LiveBuffers, NEW kind \in Kinds \cup {"data"},
         NEW offset \in Nat, NEW n \in Nat,
         \/ kind \in Kinds /\ TypedArrayInitialize(kind, b, offset, n)
         \/ kind = "data" /\ DataViewInitialize(b, offset, n)
  PROVE  BuffersInv'
  <1>1. offset + n <= buffers[b].length /\ Become(Linked(Memory, View(kind, b, offset, n)))
    BY DEF TypedArrayInitialize, DataViewInitialize
  <1>2. kind \in Kinds => n % Size[kind] = 0
    BY Sizes DEF TypedArrayInitialize
  <1>3. b \in DOMAIN Memory.buffers /\ Memory.buffers[b] = buffers[b] /\ buffers[b].live
    BY SoundBuffer, MemoryIs
  <1>4. Sound(Linked(Memory, View(kind, b, offset, n)))
    BY <1>1, <1>2, <1>3, StateParts, LinkedSound
  <1> QED BY <1>1, <1>4, Becomes

LEMMA TypedArrayInHeapStep ==
  ASSUME BuffersInv, NEW kind \in Kinds, NEW n \in Nat, TypedArrayInHeap(kind, n)
  PROVE  BuffersInv'
  <1> DEFINE view == [View(kind, Heap, 0, n) EXCEPT !.heap = Zeros(n)]
             new  == Len(views) + 1
  <1>1. /\ view \in ViewRecord /\ view.kind = kind /\ view.buffer = Heap /\ view.offset = 0
        /\ view.length = n /\ view.heap = Zeros(n) /\ view.live
    BY ZerosAre, EmptySeq DEF View, ViewRecord, Heap
  <1>2. views' = Append(views, view) /\ buffers' = buffers /\ stores' = stores
        /\ n % Size[kind] = 0
    BY DEF TypedArrayInHeap
  <1> HIDE DEF view
  <1>3. /\ views' \in Seq(ViewRecord) /\ DOMAIN views' = DOMAIN views \cup {new}
        /\ views'[new] = view /\ \A v \in DOMAIN views : views'[v] = views[v]
    BY <1>1, <1>2, StateParts, AppendProperties, LenProperties
  <1> HIDE DEF new
  <1>4. Memory' \in MemoryRecord
    BY <1>2, <1>3, StateParts DEF Memory, MemoryRecord
  <1>5. ASSUME NEW b \in DOMAIN buffers PROVE BufferSound(Memory', b) /\ ListSound(Memory', b)
    <2>1. BufferSound(Memory, b) /\ ListSound(Memory, b)
      BY StateParts, MemoryIs DEF Sound
    <2>2. BufferSound(Memory', b)
      BY <2>1, <1>2, MemoryIs DEF BufferSound
    <2> QED BY <2>1, <2>2, <1>2, <1>3, MemoryIs DEF ListSound
  <1>6. ASSUME NEW s \in DOMAIN stores PROVE StoreSound(Memory', s)
    <2>1. StoreSound(Memory, s)
      BY StateParts, MemoryIs DEF Sound
    <2> QED BY <2>1, <1>2, MemoryIs DEF StoreSound
  <1>7. ASSUME NEW v \in DOMAIN views PROVE ViewSound(Memory', v)
    <2>1. ViewSound(Memory, v)
      BY StateParts, MemoryIs DEF Sound
    <2> QED BY <2>1, <1>2, <1>3, MemoryIs DEF ViewSound
  <1>8. ViewSound(Memory', new)
    BY <1>1, <1>2, <1>3, ZerosAre, MemoryIs DEF ViewSound
  <1> QED BY <1>2, <1>3, <1>4, <1>5, <1>6, <1>7, <1>8, MemoryIs DEF BuffersInv, Sound

LEMMA TypedArrayGetBufferStep ==
  ASSUME BuffersInv, NEW v \in TypedArrays, TypedArrayGetBuffer(v)
  PROVE  BuffersInv'
  BY SoundView, TypedArraysLive, StateParts, WithBufferSound, Becomes DEF TypedArrayGetBuffer

LEMMA FromArrayLikeStep ==
  ASSUME BuffersInv, NEW kind \in Kinds, NEW source \in TypedArrays,
         TypedArrayInitializeFromArrayLike(kind, source)
  PROVE  BuffersInv'
  <1> DEFINE same  == views[source].kind = kind
             bytes == IF same THEN BytesOf(Memory, source) ELSE ConvertedElements(Memory, source, kind)
             old   == IF same THEN WithBuffer(Memory, source) ELSE Memory
             m     == Allocated(old, bytes)
             n     == Linked(m, View(kind, Len(m.buffers), 0, Len(bytes)))
  <1>1. /\ source \in DOMAIN Memory.views /\ Memory.views[source] = views[source]
        /\ views[source].live /\ views[source].kind \in Kinds /\ views[source] \in ViewRecord
        /\ Sound(Memory)
    BY SoundView, TypedArraysLive, StateParts
  <1>2. Become(n)
    BY DEF TypedArrayInitializeFromArrayLike
  <1>3. bytes \in Seq(Bytes) /\ Len(bytes) \in Nat /\ Len(bytes) % Size[kind] = 0
    <2>1. CASE same
      <3>1. bytes \in Seq(Bytes) /\ Len(bytes) = views[source].length
        BY <2>1, <1>1, BytesAre
      <3>2. views[source].length % Size[kind] = 0
        BY <2>1, <1>1 DEF Sound, ViewSound
      <3> HIDE DEF bytes
      <3> QED BY <3>1, <3>2, LenProperties
    <2>2. CASE ~ same
      <3>1. /\ bytes \in Seq(Bytes) /\ Len(bytes) = Count(Memory, source) * Size[kind]
            /\ Count(Memory, source) \in Nat
        BY <2>2, <1>1, ConvertedElementsAre
      <3>2. Size[kind] \in {1, 2}
        BY Sizes
      <3> HIDE DEF bytes
      <3>3. (Count(Memory, source) * Size[kind]) % Size[kind] = 0
        <4>1. CASE Size[kind] = 1
          BY <4>1, <3>1
        <4>2. CASE Size[kind] = 2
          BY <4>2, <3>1
        <4> QED BY <4>1, <4>2, <3>2
      <3> QED BY <3>1, <3>3, LenProperties
    <2> QED BY <2>1, <2>2
  <1>4. Sound(old)
    BY <1>1, WithBufferSound
  <1> HIDE DEF old, bytes
  <1>5. IsNewBuffer(old, m, bytes, FALSE) /\ Sound(m)
    BY <1>3, <1>4, AllocatedIs, NewBufferSound
  <1> HIDE DEF m
  <1> DEFINE b == Len(m.buffers)
  <1>6. /\ b \in DOMAIN m.buffers /\ m.buffers[b].live /\ m.buffers[b].length = Len(bytes)
    <2>1. b \in DOMAIN m.buffers
      BY <1>4, <1>5, SoundParts DEF IsNewBuffer
    <2> QED BY <2>1, <1>5 DEF IsNewBuffer, Buffer
  <1>7. 0 \in Nat /\ 0 + Len(bytes) <= m.buffers[b].length
    BY <1>3, <1>6
  <1> HIDE DEF b
  <1>8. Sound(Linked(m, View(kind, b, 0, Len(bytes))))
    BY <1>3, <1>5, <1>6, <1>7, LinkedSound
  <1> QED BY <1>2, <1>8, Becomes DEF b

LEMMA TypedArraySetStep ==
  ASSUME BuffersInv, NEW target \in TypedArrays, NEW source \in TypedArrays, NEW offset \in Nat,
         TypedArraySet(target, source, offset)
  PROVE  BuffersInv'
  <1> DEFINE kind == views[target].kind
             m1 == WithBuffer(Memory, target)
             m  == WithBuffer(m1, source)
             n  == IF views[source].kind = kind
                     THEN Written(m, target, offset * Size[kind], BytesOf(m, source))
                   ELSE IF Overlapping(Place(m, source), Place(m, target))
                     THEN Written(m, target, offset * Size[kind], ConvertedElements(m, source, kind))
                   ELSE ElementByElement(m, target, source, offset)
  <1>1. Become(n)
    BY DEF TypedArraySet
  <1>2. /\ target \in DOMAIN Memory.views /\ Memory.views[target] = views[target]
        /\ source \in DOMAIN Memory.views /\ Memory.views[source] = views[source]
        /\ views[target].live /\ kind \in Kinds /\ views[source].live /\ views[source].kind \in Kinds
        /\ Sound(Memory)
    BY SoundView, TypedArraysLive, StateParts
  <1>3. Sound(m1) /\ IsMoved(Memory, m1, target)
    BY <1>2, WithBufferSound
  <1> HIDE DEF m1
  <1>4. source \in DOMAIN m1.views
    BY <1>2, <1>3 DEF IsMoved
  <1>5. Sound(m) /\ IsMoved(m1, m, source)
    BY <1>3, <1>4, WithBufferSound
  <1> HIDE DEF m
  <1>6. /\ target \in DOMAIN m.views /\ m.views[target].kind = kind /\ m.views[target].live
        /\ source \in DOMAIN m.views /\ m.views[source].kind = views[source].kind
        /\ m.views[source].live
    BY <1>2, <1>3, <1>4, <1>5 DEF IsMoved
  <1>7. offset * Size[kind] \in Int
    BY <1>2, Sizes
  <1>8. CASE views[source].kind = kind
    <2>1. BytesOf(m, source) \in Seq(Bytes)
      BY <1>5, <1>6, BytesAre
    <2> QED BY <2>1, <1>1, <1>5, <1>6, <1>7, <1>8, WrittenSound, Becomes
  <1>9. CASE views[source].kind # kind /\ Overlapping(Place(m, source), Place(m, target))
    <2>1. ConvertedElements(m, source, kind) \in Seq(Bytes)
      BY <1>2, <1>5, <1>6, ConvertedElementsAre
    <2> QED BY <2>1, <1>1, <1>5, <1>6, <1>7, <1>9, WrittenSound, Becomes
  <1>10. CASE views[source].kind # kind /\ ~ Overlapping(Place(m, source), Place(m, target))
    <2>1. Sound(ElementByElement(m, target, source, offset))
      <3>1. PICK copied \in [0..Count(m, source) -> SameShape(m)] :
              Count(m, source) \in Nat /\ IsCopying(copied, m, target, source, offset)
        BY <1>2, <1>5, <1>6, CopiedIs
      <3>2. Count(m, source) \in 0..Count(m, source)
        BY <3>1
      <3> QED BY <3>1, <3>2 DEF IsCopying, SameShape
    <2> QED BY <2>1, <1>1, <1>10, Becomes
  <1> QED BY <1>8, <1>9, <1>10

LEMMA ScalarsAre == Scalars \subseteq Seq(Bytes)
  BY SeqDef DEF Scalars

LEMMA ReverseIs ==
  ASSUME NEW bytes \in Seq(Bytes)
  PROVE  /\ Reverse(bytes) \in Seq(Bytes) /\ Len(Reverse(bytes)) = Len(bytes)
         /\ \A i \in 1..Len(bytes) : Reverse(bytes)[i] = bytes[Len(bytes) - i + 1]
  <1>1. \A i \in 1..Len(bytes) : (Len(bytes) - i) + 1 \in 1..Len(bytes)
    BY LenProperties
  <1>2. Reverse(bytes) = [i \in 1..Len(bytes) |-> bytes[(Len(bytes) - i) + 1]]
    BY DEF Reverse
  <1>3. Reverse(bytes) \in [1..Len(bytes) -> Bytes]
    BY <1>1, <1>2, ElementOfSeq
  <1>4. Reverse(bytes) \in Seq(Bytes)
    BY <1>3, LenProperties, SeqDef
  <1> QED BY <1>2, <1>3, <1>4, LenProperties

LEMMA StoreElementStep ==
  ASSUME BuffersInv, NEW v \in TypedArrays, NEW i \in Nat, NEW number \in Scalars,
         StoreElement(v, i, number)
  PROVE  BuffersInv'
  <1>1. number \in Seq(Bytes) /\ Len(number) = Size[views[v].kind] /\ views[v].kind \in Kinds
    BY ScalarsAre DEF StoreElement, TypedArrays
  <1>2. i * Len(number) \in Int
    BY <1>1, Sizes
  <1>3. Become(Written(Memory, v, i * Len(number), number))
    BY DEF StoreElement
  <1>4. Sound(Written(Memory, v, i * Len(number), number))
    BY <1>1, <1>2, SoundView, TypedArraysLive, StateParts, WrittenSound
  <1> QED BY <1>3, <1>4, Becomes

LEMMA DataViewSetValueStep ==
  ASSUME BuffersInv, NEW v \in LiveViews, NEW offset \in Nat, NEW number \in Scalars,
         NEW is_little_endian \in BOOLEAN, DataViewSetValue(v, offset, number, is_little_endian)
  PROVE  BuffersInv'
  <1> DEFINE bytes == IF is_little_endian THEN number ELSE Reverse(number)
  <1>1. bytes \in Seq(Bytes)
    BY ScalarsAre, ReverseIs
  <1>2. Become(Written(Memory, v, offset, bytes))
    BY DEF DataViewSetValue
  <1> HIDE DEF bytes
  <1>3. Sound(Written(Memory, v, offset, bytes))
    BY <1>1, SoundView, StateParts, WrittenSound
  <1> QED BY <1>2, <1>3, Becomes

LEMMA BuffersInvKept == BuffersInv /\ [BuffersNext]_bufferVars => BuffersInv'
  <1> SUFFICES ASSUME BuffersInv, [BuffersNext]_bufferVars PROVE BuffersInv'
    OBVIOUS
  <1>1. CASE UNCHANGED bufferVars
    BY <1>1 DEF BuffersInv, Memory, bufferVars
  <1>2. ASSUME BuffersStep PROVE BuffersInv'
    <2>1. MaxBytes \in Nat /\ Lengths \subseteq Nat
      BY BytesAssumption, LengthsAre
    <2>2. ASSUME NEW n \in Lengths, ArrayBufferInitialize(n) \/ NewExternal(n) PROVE BuffersInv'
      BY <2>1, <2>2, ArrayBufferInitializeStep, NewExternalStep
    <2>3. ASSUME NEW b \in LiveBuffers, NEW start \in 0..MaxBytes, NEW n \in Lengths,
                 ArrayBufferSliceImpl(b, start, n)
          PROVE  BuffersInv'
      BY <2>1, <2>3, ArrayBufferSliceStep
    <2>4. ASSUME NEW b \in LiveBuffers, Externalize(b) \/ NeuterArrayBuffer(b) \/ FreeArrayBuffer(b)
          PROVE  BuffersInv'
      BY <2>4, ExternalizeStep, NeuterArrayBufferStep, FreeArrayBufferStep
    <2>5. ASSUME NEW b \in LiveBuffers, NEW offset \in 0..MaxBytes, NEW n \in 1..MaxBytes,
                 \/ \E kind \in Kinds : TypedArrayInitialize(kind, b, offset, n)
                 \/ DataViewInitialize(b, offset, n)
          PROVE  BuffersInv'
      <3>1. offset \in Nat /\ n \in Nat
        BY <2>1
      <3>2. ASSUME NEW kind \in Kinds, TypedArrayInitialize(kind, b, offset, n) PROVE BuffersInv'
        BY <3>1, <3>2, LinkedStep
      <3>3. ASSUME DataViewInitialize(b, offset, n) PROVE BuffersInv'
        <4>1. "data" \in Kinds \cup {"data"}
          OBVIOUS
        <4> QED BY <3>1, <3>3, <4>1, LinkedStep
      <3> QED BY <2>5, <3>2, <3>3
    <2>6. ASSUME NEW kind \in Kinds, NEW n \in Lengths, TypedArrayInHeap(kind, n) PROVE BuffersInv'
      BY <2>1, <2>6, TypedArrayInHeapStep
    <2>7. ASSUME NEW kind \in Kinds, NEW v \in TypedArrays, TypedArrayInitializeFromArrayLike(kind, v)
          PROVE  BuffersInv'
      BY <2>7, FromArrayLikeStep
    <2>8. ASSUME NEW v \in TypedArrays, TypedArrayGetBuffer(v) PROVE BuffersInv'
      BY <2>8, TypedArrayGetBufferStep
    <2>9. ASSUME NEW v \in TypedArrays, NEW w \in TypedArrays, NEW offset \in 0..MaxBytes,
                 TypedArraySet(v, w, offset)
          PROVE  BuffersInv'
      BY <2>1, <2>9, TypedArraySetStep
    <2>10. ASSUME NEW v \in TypedArrays, NEW i \in 0..MaxBytes - 1, NEW number \in Scalars,
                  StoreElement(v, i, number)
           PROVE  BuffersInv'
      BY <2>1, <2>10, StoreElementStep
    <2>11. ASSUME NEW v \in LiveViews \ TypedArrays, NEW offset \in 0..MaxBytes - 1,
                  NEW number \in Scalars, NEW is_little_endian \in BOOLEAN,
                  DataViewSetValue(v, offset, number, is_little_endian)
           PROVE  BuffersInv'
      BY <2>1, <2>11, DataViewSetValueStep
    <2> QED BY <1>2, <2>2, <2>3, <2>4, <2>5, <2>6, <2>7, <2>8, <2>9, <2>10, <2>11 DEF BuffersStep
  <1> QED BY <1>1, <1>2 DEF BuffersNext

(***************************************************************************)
(* 4.3 What the invariant promises.                                        *)
(***************************************************************************)
LEMMA OneOrNone ==
  ASSUME NEW S, \A x, y \in S : x = y
  PROVE  Cardinality(S) <= 1 /\ (S # {} => Cardinality(S) = 1)
  <1>1. CASE S = {}
    BY <1>1, FS_EmptySet
  <1>2. CASE S # {}
    <2>1. PICK x \in S : S = {x}
      BY <1>2
    <2>2. Cardinality({x}) = 1
      BY FS_Singleton
    <2> QED BY <2>1, <2>2
  <1> QED BY <1>1, <1>2

LEMMA BuffersInvImplies == BuffersInv => ViewsStayWithinBuffers
  <1> SUFFICES ASSUME BuffersInv PROVE ViewsStayWithinBuffers
    OBVIOUS
  <1> DEFINE Holders(s) == {b \in LiveBuffers : buffers[b].store = s}
  <1>1. ASSUME NEW s \in DOMAIN stores
        PROVE  /\ Cardinality(Holders(s)) <= 1
               /\ (stores[s].owner = "v8") <=> (\E b \in Holders(s) : ~ buffers[b].is_external)
               /\ stores[s].owner = "freed" => Holders(s) = {}
               /\ \A b \in Holders(s) : Len(stores[s].bytes) = buffers[b].length
    <2>1. \A b \in Holders(s) :
            /\ b \in DOMAIN buffers /\ buffers[b].live /\ buffers[b].store = s /\ s # NULL
            /\ BufferSound(Memory, b)
      <3>1. s # NULL
        BY StateParts DEF NULL
      <3> QED BY <3>1, SoundBuffer DEF LiveBuffers
    <2>2. \A b \in Holders(s) :
            /\ Len(stores[s].bytes) = buffers[b].length
            /\ stores[s].owner = (IF buffers[b].is_external THEN "embedder" ELSE "v8")
            /\ \A c \in Holders(s) : c = b
      BY <2>1, MemoryIs DEF BufferSound
    <2>3. StoreSound(Memory, s)
      BY StateParts, MemoryIs DEF Sound
    <2>4. stores[s].owner = "v8" => \E b \in Holders(s) : TRUE
      BY <2>3, MemoryIs DEF StoreSound, LiveBuffers
    <2> HIDE DEF Holders
    <2>5. Cardinality(Holders(s)) <= 1
      BY <2>2, OneOrNone
    <2>6. stores[s].owner = "v8" => \E b \in Holders(s) : ~ buffers[b].is_external
      <3> SUFFICES ASSUME stores[s].owner = "v8" PROVE \E b \in Holders(s) : ~ buffers[b].is_external
        OBVIOUS
      <3>1. PICK b \in Holders(s) : TRUE
        BY <2>4
      <3>2. ~ buffers[b].is_external
        BY <2>2, <3>1
      <3> QED BY <3>2
    <2>7. (\E b \in Holders(s) : ~ buffers[b].is_external) => stores[s].owner = "v8"
      BY <2>2
    <2>8. stores[s].owner = "freed" => Holders(s) = {}
      BY <2>2
    <2> QED BY <2>2, <2>5, <2>6, <2>7, <2>8
  <1>2. ASSUME NEW v \in LiveViews
        PROVE  LET b == views[v].buffer
               IN IF b = Heap THEN Len(views[v].heap) = views[v].length
                  ELSE /\ buffers[b].live
                       /\ views[v].offset + views[v].length <= buffers[b].length
                       /\ Cardinality({k \in DOMAIN buffers[b].views : buffers[b].views[k] = v}) = 1
    <2>1. v \in DOMAIN views /\ views[v].live
      BY DEF LiveViews
    <2>2. ViewSound(Memory, v)
      BY <2>1, StateParts, MemoryIs DEF Sound
    <2>3. CASE views[v].buffer = Heap
      BY <2>2, <2>3, MemoryIs DEF ViewSound
    <2>4. CASE views[v].buffer # Heap
      <3> DEFINE b == views[v].buffer
                 Places == {k \in DOMAIN buffers[b].views : buffers[b].views[k] = v}
      <3>1. /\ b \in DOMAIN buffers /\ buffers[b].live
            /\ views[v].offset + views[v].length <= buffers[b].length
            /\ \E k \in DOMAIN buffers[b].views : buffers[b].views[k] = v
        BY <2>1, <2>2, <2>4, MemoryIs DEF ViewSound
      <3>2. ListSound(Memory, b)
        BY <3>1, StateParts, MemoryIs DEF Sound
      <3>3. \A j, k \in Places : j = k
        BY <3>2, MemoryIs DEF ListSound
      <3>4. Places # {}
        BY <3>1
      <3> HIDE DEF Places
      <3>5. Cardinality(Places) = 1
        BY <3>3, <3>4, OneOrNone
      <3> QED BY <3>1, <3>5, <2>4 DEF Places
    <2> QED BY <2>3, <2>4
  <1> QED BY <1>1, <1>2 DEF ViewsStayWithinBuffers

\* V8 frees each block of memory once, and only what no live buffer of its own holds, the
\* embedder gets memory for good, and no view reaches beyond its buffer, whatever buffers and
\* views are made, moved out of the heap, externalised, neutered and collected.
THEOREM ViewsAlwaysWithin == BuffersSpec => []ViewsStayWithinBuffers
  <1> QED BY BuffersStart, BuffersInvKept, BuffersInvImplies, PTL DEF BuffersSpec

(***************************************************************************)
(* 4.4 What is copied.                                                     *)
(***************************************************************************)
LEMMA WrittenBytes ==
  ASSUME NEW m, Sound(m), NEW v \in DOMAIN m.views, m.views[v].live, NEW start \in Int,
         NEW bytes \in Seq(Bytes), NEW k \in 1..m.views[v].length
  PROVE  BytesOf(Written(m, v, start, bytes), v)[k] =
           IF k - start \in DOMAIN bytes THEN bytes[k - start] ELSE BytesOf(m, v)[k]
  <1> DEFINE n == Written(m, v, start, bytes)
             view == m.views[v]
             s == StoreOf(m, v)
  <1>1. /\ view.offset \in Nat /\ view.length \in Nat /\ view.heap \in Seq(Bytes)
    BY SoundParts DEF ViewRecord
  <1>2. /\ n.buffers = m.buffers /\ n.views[v].buffer = view.buffer /\ n.views[v].offset = view.offset
        /\ n.views[v].length = view.length
    BY WrittenIs DEF IsWritten
  <1>3. CASE view.buffer = Heap
    <2>1. n.views[v].heap = Into(view.heap, bytes, start)
      BY <1>3, WrittenIs
    <2>2. k \in DOMAIN view.heap
      <3>1. Len(view.heap) = view.length
        BY <1>3 DEF Sound, ViewSound
      <3> QED BY <3>1, <1>1, LenProperties
    <2>3. BytesOf(n, v) = n.views[v].heap /\ BytesOf(m, v) = view.heap
      BY <1>2, <1>3 DEF BytesOf
    <2> HIDE DEF n
    <2> QED BY <2>1, <2>2, <2>3 DEF Into, n
  <1>4. CASE view.buffer # Heap
    <2>1. /\ s \in DOMAIN m.stores /\ s # NULL /\ view.offset + view.length <= Len(m.stores[s].bytes)
      BY <1>1, <1>4, InStore
    <2>2. n.stores[s].bytes = Into(m.stores[s].bytes, bytes, view.offset + start)
      BY <1>4, <2>1, WrittenIs
    <2>3. m.stores[s].bytes \in Seq(Bytes)
      BY <2>1, SoundParts DEF StoreRecord
    <2>4. view.offset + k \in DOMAIN m.stores[s].bytes
      BY <1>1, <2>1, <2>3, LenProperties
    <2>5. (view.offset + k) - (view.offset + start) = k - start
      BY <1>1
    <2>6. BytesOf(n, v)[k] = n.stores[s].bytes[view.offset + k]
          /\ BytesOf(m, v)[k] = m.stores[s].bytes[view.offset + k]
      <3>1. n.buffers[view.buffer].store = s /\ m.buffers[view.buffer].store = s
        BY <1>2 DEF StoreOf
      <3> HIDE DEF n, s
      <3> QED BY <3>1, <1>2, <1>4 DEF BytesOf
    <2> HIDE DEF n, s
    <2>7. n.stores[s].bytes[view.offset + k] =
            IF k - start \in DOMAIN bytes THEN bytes[k - start] ELSE m.stores[s].bytes[view.offset + k]
      BY <2>2, <2>4, <2>5 DEF Into
    <2> QED BY <2>6, <2>7 DEF n
  <1> QED BY <1>3, <1>4

LEMMA Disjoint ==
  ASSUME NEW a \in Nat, NEW k \in Nat, NEW b \in Nat, NEW l \in Nat, NEW start \in Nat,
         NEW c \in Nat, NEW i \in 1..k, start + c <= l,
         ~ (a <= b /\ a + k > b), ~ (b <= a /\ b + l > a)
  PROVE  (a + i) - (b + start) \notin 1..c
  OBVIOUS

\* What is written within one view leaves those alone that do not overlap it.
LEMMA OtherBytes ==
  ASSUME NEW m, Sound(m), NEW v \in DOMAIN m.views, m.views[v].live, m.views[v].buffer # Heap,
         NEW w \in DOMAIN m.views, m.views[w].live, m.views[w].buffer # Heap,
         ~ Overlapping(Place(m, w), Place(m, v)),
         NEW start \in Nat, NEW bytes \in Seq(Bytes), start + Len(bytes) <= m.views[v].length
  PROVE  BytesOf(Written(m, v, start, bytes), w) = BytesOf(m, w)
  <1> DEFINE n == Written(m, v, start, bytes)
             s == StoreOf(m, w)
             at == m.views[w].offset
  <1>1. /\ n.buffers = m.buffers /\ n.views[w].buffer = m.views[w].buffer
        /\ n.views[w].offset = m.views[w].offset /\ n.views[w].length = m.views[w].length
    BY WrittenIs DEF IsWritten
  <1>2. /\ m.views[w].offset \in Nat /\ m.views[w].length \in Nat
        /\ m.views[v].offset \in Nat /\ m.views[v].length \in Nat /\ Len(bytes) \in Nat
        /\ DOMAIN bytes = 1..Len(bytes)
    BY SoundParts, LenProperties DEF ViewRecord
  <1>3. ASSUME NEW i \in 1..m.views[w].length
        PROVE  n.stores[s].bytes[at + i] = m.stores[s].bytes[at + i]
    <2>1. /\ s \in DOMAIN m.stores /\ s # NULL /\ at + m.views[w].length <= Len(m.stores[s].bytes)
      BY <1>2, <1>3, InStore
    <2>2. CASE s # StoreOf(m, v)
      <3>1. n.stores[s] = m.stores[s]
        BY <2>1, <2>2, WrittenIs
      <3> QED BY <3>1
    <2>3. CASE s = StoreOf(m, v)
      <3>1. n.stores[s].bytes = Into(m.stores[s].bytes, bytes, m.views[v].offset + start)
        BY <2>1, <2>3, WrittenIs
      <3>2. m.stores[s].bytes \in Seq(Bytes)
        BY <2>1, SoundParts DEF StoreRecord
      <3>3. at + i \in DOMAIN m.stores[s].bytes
        BY <1>2, <2>1, <3>2, LenProperties
      <3>4. /\ ~ (at <= m.views[v].offset /\ at + m.views[w].length > m.views[v].offset)
            /\ ~ (m.views[v].offset <= at /\ m.views[v].offset + m.views[v].length > at)
        BY <2>1, <2>3 DEF Overlapping, Place, StoreOf
      <3>5. (at + i) - (m.views[v].offset + start) \notin 1..Len(bytes)
        BY <1>2, <3>4, Disjoint
      <3> HIDE DEF n, s, at
      <3> QED BY <1>2, <3>1, <3>3, <3>5 DEF Into
    <2> QED BY <2>2, <2>3
  <1>4. n.buffers[m.views[w].buffer].store = s /\ m.buffers[m.views[w].buffer].store = s
    BY <1>1 DEF StoreOf
  <1> HIDE DEF n, s
  <1>5. /\ BytesOf(n, w) = [i \in 1..m.views[w].length |-> n.stores[s].bytes[at + i]]
        /\ BytesOf(m, w) = [i \in 1..m.views[w].length |-> m.stores[s].bytes[at + i]]
    BY <1>1, <1>4 DEF BytesOf
  <1> HIDE DEF at
  <1>6. BytesOf(n, w) = BytesOf(m, w)
    BY <1>3, <1>5
  <1> QED BY <1>6 DEF n

\* Bytes that are the elements of w converted to ones of that width.
AreElements(bytes, m, w, width) ==
  /\ bytes \in Seq(Bytes) /\ Len(bytes) = Count(m, w) * width
  /\ \A i \in 0..Count(m, w) - 1, j \in 1..width :
       bytes[i * width + j] = Converted(Element(m, w, i), width)[j]

\* The bytes of v have become those of bytes from the (offset + 1)-th element on.
HasBecome(new, old, bytes, at, length) ==
  \A k \in 1..length :
    new[k] = IF k - at \in DOMAIN bytes THEN bytes[k - at] ELSE old[k]

LEMMA OfOneKind ==
  ASSUME NEW m, Sound(m), NEW w \in DOMAIN m.views, m.views[w].live, m.views[w].kind \in Kinds
  PROVE  AreElements(BytesOf(m, w), m, w, Size[m.views[w].kind])
  <1> DEFINE width == Size[m.views[w].kind]
             length == m.views[w].length
             bytes == BytesOf(m, w)
  <1>1. width \in {1, 2} /\ length \in Nat /\ bytes \in Seq(Bytes) /\ Len(bytes) = length
    <2>1. width \in {1, 2} /\ length \in Nat
      BY Sizes, SoundParts DEF ViewRecord
    <2>2. bytes \in Seq(Bytes) /\ Len(bytes) = length
      BY BytesAre
    <2> QED BY <2>1, <2>2
  <1>2. length % width = 0
    BY DEF Sound, ViewSound
  <1>3. Count(m, w) = length \div width
    BY DEF Count
  <1>4. Len(bytes) = Count(m, w) * width /\ Count(m, w) \in Nat
    <2> HIDE DEF width, length, bytes
    <2>1. CASE width = 1
      BY <2>1, <1>1, <1>3
    <2>2. CASE width = 2
      BY <2>2, <1>1, <1>2, <1>3
    <2> QED BY <2>1, <2>2, <1>1
  <1>5. ASSUME NEW i \in 0..Count(m, w) - 1, NEW j \in 1..width
        PROVE  bytes[i * width + j] = Converted(Element(m, w, i), width)[j]
    <2>1. i \in Nat /\ i < Count(m, w)
      BY <1>4
    <2>2. /\ Element(m, w, i) \in Seq(Bytes) /\ Len(Element(m, w, i)) = width
          /\ Element(m, w, i)[j] = bytes[i * width + j]
      BY <2>1, ElementIs
    <2>3. j \in DOMAIN Element(m, w, i)
      BY <2>2, LenProperties
    <2> HIDE DEF width
    <2> QED BY <2>2, <2>3 DEF Converted
  <1> QED BY <1>1, <1>4, <1>5 DEF AreElements

LEMMA Divided ==
  ASSUME NEW width \in {1, 2}, NEW i \in Nat, NEW j \in 1..width
  PROVE  /\ ((i * width + j) - 1) \div width = i /\ (i * width + j) - i * width = j
         /\ i * width \in Nat
  <1>1. CASE width = 1
    BY <1>1
  <1>2. CASE width = 2
    BY <1>2
  <1> QED BY <1>1, <1>2

LEMMA OfAnotherKind ==
  ASSUME NEW m, Sound(m), NEW w \in DOMAIN m.views, m.views[w].live, m.views[w].kind \in Kinds,
         NEW kind \in Kinds
  PROVE  AreElements(ConvertedElements(m, w, kind), m, w, Size[kind])
  <1> DEFINE width == Size[kind]
             bytes == ConvertedElements(m, w, kind)
  <1>1. /\ bytes \in Seq(Bytes) /\ Len(bytes) = Count(m, w) * width /\ Count(m, w) \in Nat
        /\ \A k \in 1..Count(m, w) * width :
             bytes[k] = Converted(Element(m, w, (k - 1) \div width), width)[k - ((k - 1) \div width) * width]
    BY ConvertedElementsAre
  <1>2. width \in {1, 2}
    BY Sizes
  <1> HIDE DEF bytes, width
  <1>3. ASSUME NEW i \in 0..Count(m, w) - 1, NEW j \in 1..width
        PROVE  bytes[i * width + j] = Converted(Element(m, w, i), width)[j]
    <2> DEFINE k == i * width + j
    <2>1. i \in Nat /\ k \in 1..Count(m, w) * width
      <3>1. CASE width = 1
        BY <3>1, <1>1
      <3>2. CASE width = 2
        BY <3>2, <1>1
      <3> QED BY <3>1, <3>2, <1>2
    <2>2. (k - 1) \div width = i /\ k - i * width = j
      BY <2>1, <1>2, Divided
    <2>3. bytes[k] = Converted(Element(m, w, (k - 1) \div width), width)[k - ((k - 1) \div width) * width]
      BY <2>1, <1>1
    <2> HIDE DEF k
    <2>4. bytes[k] = Converted(Element(m, w, i), width)[j]
      BY <2>2, <2>3
    <2> QED BY <2>4 DEF k
  <1> QED BY <1>1, <1>3 DEF AreElements, bytes, width

LEMMA WithinTarget ==
  ASSUME NEW width \in {1, 2}, NEW offset \in Nat, NEW c \in Nat, NEW i \in 0..c - 1,
         NEW length \in Nat, offset + c <= length \div width
  PROVE  /\ (offset + i) * width \in Nat /\ (offset + i) * width + width <= length
         /\ offset * width \in Nat /\ i * width \in Nat /\ (i + 1) * width = i * width + width
         /\ (offset + i) * width = offset * width + i * width
         /\ offset * width + c * width <= length /\ c * width \in Nat /\ i * width + width <= c * width
  <1>1. CASE width = 1
    BY <1>1
  <1>2. CASE width = 2
    BY <1>2
  <1> QED BY <1>1, <1>2

\* After i elements the first i * width bytes have been set, and the source is as it was.
LEMMA CopiedBytes ==
  ASSUME NEW m, Sound(m), NEW v \in DOMAIN m.views, m.views[v].live, m.views[v].kind \in Kinds,
         NEW w \in DOMAIN m.views, m.views[w].live, m.views[w].kind \in Kinds,
         m.views[v].buffer # Heap, m.views[w].buffer # Heap,
         ~ Overlapping(Place(m, w), Place(m, v)),
         NEW offset \in Nat, offset + Count(m, w) <= Count(m, v)
  PROVE  HasBecome(BytesOf(ElementByElement(m, v, w, offset), v), BytesOf(m, v),
                   ConvertedElements(m, w, m.views[v].kind),
                   offset * Size[m.views[v].kind], m.views[v].length)
  <1> DEFINE width == Size[m.views[v].kind]
             length == m.views[v].length
             c == Count(m, w)
             bytes == ConvertedElements(m, w, m.views[v].kind)
             at == offset * width
  <1>0. PICK copied \in [0..c -> SameShape(m)] : c \in Nat /\ IsCopying(copied, m, v, w, offset)
    BY CopiedIs
  <1>1. /\ c \in Nat /\ copied[0] = m /\ copied[c] = ElementByElement(m, v, w, offset)
        /\ \A i \in 1..c : copied[i] = Written(copied[i - 1], v, (offset + i - 1) * width,
                                               Converted(Element(copied[i - 1], w, i - 1), width))
        /\ \A i \in 0..c : Sound(copied[i]) /\ IsWritten(m, copied[i])
    BY <1>0 DEF IsCopying, SameShape
  <1>2. width \in {1, 2} /\ length \in Nat /\ Count(m, v) = length \div width
    BY Sizes, SoundParts DEF ViewRecord, Count
  <1>14. offset + c <= length \div width
    BY <1>2
  <1>3. AreElements(bytes, m, w, width)
    BY OfAnotherKind
  <1>4. bytes \in Seq(Bytes) /\ Len(bytes) = c * width /\ DOMAIN bytes = 1..c * width
    BY <1>3, LenProperties DEF AreElements
  <1> DEFINE Done(i) == /\ BytesOf(copied[i], w) = BytesOf(m, w)
                        /\ \A k \in 1..length :
                             BytesOf(copied[i], v)[k] =
                               IF k - at \in 1..i * width THEN bytes[k - at] ELSE BytesOf(m, v)[k]
             S == {i \in 0..c : Done(i)}
  <1>5. 0 \in S
    <2>1. 1..0 * width = {}
      BY <1>2
    <2> QED BY <1>1, <2>1
  <1>6. ASSUME NEW i \in 0..c, i \in S, i < c PROVE i + 1 \in S
    <2> DEFINE n == copied[i]
               e == Converted(Element(n, w, i), width)
               start == (offset + i) * width
    <2>1. Sound(n) /\ IsWritten(m, n)
      BY <1>1
    <2>2. i + 1 \in 1..c /\ (i + 1) - 1 = i /\ i \in 0..c - 1 /\ i \in Nat
          /\ offset + (i + 1) - 1 = offset + i
      BY <1>1, <1>6
    <2>3. copied[i + 1] = Written(n, v, start, e)
      BY <1>1, <2>2
    <2>4. /\ v \in DOMAIN n.views /\ n.views[v].live /\ n.views[v].buffer # Heap
          /\ n.views[v].length = length
          /\ w \in DOMAIN n.views /\ n.views[w].live /\ n.views[w].buffer # Heap
          /\ n.views[w].kind = m.views[w].kind /\ n.views[w].kind \in Kinds /\ Count(n, w) = c
      BY <2>1 DEF IsWritten, Count
    <2>5. Place(n, w) = Place(m, w) /\ Place(n, v) = Place(m, v)
      BY <2>1 DEF IsWritten, Place
    <2>6. BytesOf(n, w) = BytesOf(m, w) /\ Done(i)
      BY <1>6
    <2> DEFINE element == Element(n, w, i)
    <2>7. element = Element(m, w, i)
      BY <2>4, <2>6 DEF Element
    <2> HIDE DEF n
    <2>8. element \in Seq(Bytes)
      <3>1. i < Count(n, w)
        BY <2>2, <2>4, <1>1
      <3> QED BY <3>1, <2>1, <2>2, <2>4, ElementIs
    <2> HIDE DEF element
    <2>9. e \in Seq(Bytes) /\ Len(e) = width /\ DOMAIN e = 1..width
      <3> HIDE DEF width
      <3>1. e \in Seq(Bytes) /\ Len(e) = width
        BY <2>8, <1>2, ConvertedIs DEF element
      <3> QED BY <3>1, LenProperties
    <2>10. /\ start \in Nat /\ start + width <= length /\ at \in Nat /\ i * width \in Nat
           /\ (i + 1) * width = i * width + width /\ start = at + i * width
           /\ i * width + width <= c * width /\ c * width \in Nat
      <3> HIDE DEF width, length, c
      <3> QED BY <1>1, <1>2, <1>14, <2>2, WithinTarget
    <2>11. \A j \in 1..width : e[j] = bytes[i * width + j]
      BY <1>3, <2>2, <2>7 DEF AreElements, element
    <2> HIDE DEF e, start, at, width, length, bytes
    <2>12. BytesOf(copied[i + 1], w) = BytesOf(m, w)
      <3>1. ~ Overlapping(Place(n, w), Place(n, v)) /\ start + Len(e) <= n.views[v].length
        BY <2>4, <2>5, <2>9, <2>10
      <3>2. BytesOf(Written(n, v, start, e), w) = BytesOf(n, w)
        <4>1. start \in Nat /\ e \in Seq(Bytes)
          BY <2>9, <2>10
        <4> QED BY <3>1, <4>1, <2>1, <2>4, OtherBytes, Zenon
      <3> QED BY <3>2, <2>3, <2>6
    <2>13. ASSUME NEW k \in 1..length
           PROVE  BytesOf(copied[i + 1], v)[k] =
                    IF k - at \in 1..(i + 1) * width THEN bytes[k - at] ELSE BytesOf(m, v)[k]
      <3>1. BytesOf(copied[i + 1], v)[k] =
              IF k - start \in 1..width THEN e[k - start] ELSE BytesOf(n, v)[k]
        <4>1. start \in Int /\ k \in 1..n.views[v].length
          BY <2>4, <2>10
        <4>2. BytesOf(Written(n, v, start, e), v)[k] =
                IF k - start \in DOMAIN e THEN e[k - start] ELSE BytesOf(n, v)[k]
          BY <4>1, <2>1, <2>4, <2>9, WrittenBytes
        <4> QED BY <4>2, <2>3, <2>9
      <3>2. BytesOf(n, v)[k] = IF k - at \in 1..i * width THEN bytes[k - at] ELSE BytesOf(m, v)[k]
        BY <2>6 DEF n
      <3>3. CASE k - start \in 1..width
        <4>1. i * width + (k - start) = k - at /\ k - at \in 1..(i + 1) * width
          BY <2>10, <3>3, <1>2
        <4> QED BY <3>1, <3>3, <4>1, <2>11
      <3>4. CASE k - start \notin 1..width
        <4>1. k - at \in 1..i * width <=> k - at \in 1..(i + 1) * width
          BY <2>10, <3>4, <1>2
        <4> QED BY <3>1, <3>2, <3>4, <4>1
      <3> QED BY <3>3, <3>4
    <2> QED BY <2>2, <2>12, <2>13, <1>1 DEF at, width, length, bytes
  <1> HIDE DEF S
  <1>7. c \in S
    <2>1. 0..c \subseteq S
      BY <1>1, <1>5, <1>6, Induction
    <2> QED BY <2>1, <1>1
  <1>8. Done(c)
    BY <1>7 DEF S
  <1> QED BY <1>1, <1>4, <1>8 DEF HasBecome

IsElement(m, v, i) ==
  LET width == Size[m.views[v].kind]
  IN /\ Element(m, v, i) \in Seq(Bytes) /\ Len(Element(m, v, i)) = width
     /\ \A j \in 1..width : Element(m, v, i)[j] = BytesOf(m, v)[i * width + j]

LEMMA Elements ==
  ASSUME NEW m, Sound(m), NEW v \in DOMAIN m.views, m.views[v].live, m.views[v].kind \in Kinds,
         NEW i \in Nat, i < Count(m, v)
  PROVE  IsElement(m, v, i)
  BY ElementIs DEF IsElement

\* Element i of v in n is one of w in m, or the old one.
IsSet(m, n, v, w, offset, i) ==
  Element(n, v, i) =
    IF i - offset \in 0..Count(m, w) - 1
    THEN Converted(Element(m, w, i - offset), Size[m.views[v].kind])
    ELSE Element(m, v, i)

\* Bytes that are elements, set at an element, are elements set.
LEMMA ElementsSet ==
  ASSUME NEW m, Sound(m), NEW n, Sound(n), NEW v \in DOMAIN m.views, v \in DOMAIN n.views,
         m.views[v].live, n.views[v].live, m.views[v].kind \in Kinds,
         n.views[v].kind = m.views[v].kind, n.views[v].length = m.views[v].length,
         NEW w \in DOMAIN m.views, m.views[w].live, m.views[w].kind \in Kinds,
         NEW offset \in Nat, NEW bytes,
         AreElements(bytes, m, w, Size[m.views[v].kind]),
         HasBecome(BytesOf(n, v), BytesOf(m, v), bytes, offset * Size[m.views[v].kind],
                   m.views[v].length),
         NEW i \in 0..Count(m, v) - 1
  PROVE  IsSet(m, n, v, w, offset, i)
  <1> DEFINE width == Size[m.views[v].kind]
             length == m.views[v].length
             c == Count(m, w)
             at == offset * width
             new == Element(n, v, i)
             old == Element(m, v, i)
             set == Converted(Element(m, w, i - offset), width)
  <1>1. /\ width \in {1, 2} /\ length \in Nat /\ Size[m.views[w].kind] \in {1, 2}
        /\ m.views[w].length \in Nat
    BY Sizes, SoundParts DEF ViewRecord
  <1>2. c \in Nat /\ Count(m, v) \in Nat /\ Count(n, v) = Count(m, v)
    BY <1>1 DEF Count
  <1>3. i \in Nat /\ i < Count(m, v)
    BY <1>2
  <1>4. /\ old \in Seq(Bytes) /\ Len(old) = width
        /\ \A j \in 1..width : old[j] = BytesOf(m, v)[i * width + j]
        /\ i * width + width <= length
    BY <1>3, ElementIs
  <1>5. /\ new \in Seq(Bytes) /\ Len(new) = width
        /\ \A j \in 1..width : new[j] = BytesOf(n, v)[i * width + j]
    <2>1. n.views[v].kind \in Kinds /\ Size[n.views[v].kind] = width /\ i < Count(n, v)
      BY <1>2, <1>3
    <2>2. IsElement(n, v, i)
      BY <2>1, <1>3, Elements
    <2> QED BY <2>1, <2>2 DEF IsElement
  <1>6. bytes \in Seq(Bytes) /\ Len(bytes) = c * width /\ DOMAIN bytes = 1..c * width
    BY LenProperties DEF AreElements
  <1>7. i * width \in Nat /\ at \in Nat /\ c * width \in Nat
    BY <1>1, <1>2, <1>3
  <1>8. ASSUME NEW j \in 1..width
        PROVE  new[j] = IF (i * width + j) - at \in 1..c * width THEN bytes[(i * width + j) - at] ELSE old[j]
    <2>1. i * width + j \in 1..length
      <3> HIDE DEF width, length
      <3> DEFINE p == i * width
      <3>1. p \in Nat /\ p + width <= length /\ j \in 1..width
        BY <1>4, <1>7
      <3> HIDE DEF p
      <3>2. p + j \in 1..length
        BY <1>1, <3>1
      <3> QED BY <3>2 DEF p
    <2> QED BY <2>1, <1>4, <1>5, <1>6 DEF HasBecome
  <1>9. CASE i - offset \in 0..c - 1
    <2>1. i - offset \in Nat /\ i - offset < c
      BY <1>2, <1>9
    <2>2. Element(m, w, i - offset) \in Seq(Bytes)
      BY <2>1, ElementIs
    <2>3. set \in Seq(Bytes) /\ Len(set) = width
      BY <2>2, <1>1, ConvertedIs
    <2>4. ASSUME NEW j \in 1..width PROVE new[j] = set[j]
      <3>1. (i * width + j) - at = (i - offset) * width + j /\ (i * width + j) - at \in 1..c * width
        <4> HIDE DEF width, c
        <4>1. CASE width = 1
          BY <4>1, <1>2, <1>3, <2>1
        <4>2. CASE width = 2
          BY <4>2, <1>2, <1>3, <2>1
        <4> QED BY <4>1, <4>2, <1>1
      <3>2. bytes[(i - offset) * width + j] = set[j]
        BY <1>9 DEF AreElements
      <3> QED BY <1>8, <3>1, <3>2
    <2> HIDE DEF new, set, width
    <2>5. new = set
      BY <1>5, <2>3, <2>4, SeqEqual
    <2> QED BY <1>9, <2>5 DEF IsSet, new, set, width
  <1>10. CASE i - offset \notin 0..c - 1
    <2>1. ASSUME NEW j \in 1..width PROVE new[j] = old[j]
      <3>1. (i * width + j) - at \notin 1..c * width
        <4> HIDE DEF width, c
        <4>1. CASE width = 1
          BY <4>1, <1>2, <1>3, <1>10
        <4>2. CASE width = 2
          BY <4>2, <1>2, <1>3, <1>10
        <4> QED BY <4>1, <4>2, <1>1
      <3> QED BY <1>8, <3>1
    <2> HIDE DEF new, old, width
    <2>2. new = old
      BY <1>4, <1>5, <2>1, SeqEqual
    <2> QED BY <1>10, <2>2 DEF IsSet, new, old, width
  <1> QED BY <1>9, <1>10 DEF IsSet

LEMMA SetIsOfTheOld ==
  ASSUME BuffersInv, NEW v \in TypedArrays, NEW w \in TypedArrays, NEW offset \in Nat,
         TypedArraySet(v, w, offset), NEW i \in 0..Count(Memory, v) - 1
  PROVE  Element(Memory', v, i) =
           IF i - offset \in 0..Count(Memory, w) - 1
           THEN Converted(Element(Memory, w, i - offset), Size[views[v].kind])
           ELSE Element(Memory, v, i)
  <1> DEFINE kind == views[v].kind
             at == offset * Size[kind]
             length == views[v].length
             m1 == WithBuffer(Memory, v)
             m  == WithBuffer(m1, w)
             n  == IF views[w].kind = kind THEN Written(m, v, at, BytesOf(m, w))
                   ELSE IF Overlapping(Place(m, w), Place(m, v))
                     THEN Written(m, v, at, ConvertedElements(m, w, kind))
                   ELSE ElementByElement(m, v, w, offset)
             bytes == IF views[w].kind = kind THEN BytesOf(m, w) ELSE ConvertedElements(m, w, kind)
  <1>1. Become(n) /\ offset + Count(Memory, w) <= Count(Memory, v)
    BY DEF TypedArraySet
  <1>2. /\ v \in DOMAIN Memory.views /\ Memory.views[v] = views[v]
        /\ w \in DOMAIN Memory.views /\ Memory.views[w] = views[w]
        /\ views[v].live /\ kind \in Kinds /\ views[w].live /\ views[w].kind \in Kinds
        /\ Sound(Memory)
    BY SoundView, TypedArraysLive, StateParts
  <1>3. Sound(m1) /\ IsMoved(Memory, m1, v)
    BY <1>2, WithBufferSound
  <1> HIDE DEF m1
  <1>4. w \in DOMAIN m1.views
    BY <1>2, <1>3 DEF IsMoved
  <1>5. Sound(m) /\ IsMoved(m1, m, w)
    BY <1>3, <1>4, WithBufferSound
  <1> HIDE DEF m
  <1>6. /\ v \in DOMAIN m.views /\ m.views[v].kind = kind /\ m.views[v].live
        /\ m.views[v].length = length /\ m.views[v].buffer # Heap
        /\ w \in DOMAIN m.views /\ m.views[w].kind = views[w].kind /\ m.views[w].live
        /\ m.views[w].length = views[w].length /\ m.views[w].buffer # Heap
        /\ BytesOf(m, v) = BytesOf(Memory, v) /\ BytesOf(m, w) = BytesOf(Memory, w)
    BY <1>2, <1>3, <1>4, <1>5 DEF IsMoved
  <1>7. /\ Count(m, v) = Count(Memory, v) /\ Count(m, w) = Count(Memory, w)
        /\ \A j : Element(m, v, j) = Element(Memory, v, j) /\ Element(m, w, j) = Element(Memory, w, j)
    BY <1>2, <1>6 DEF Count, Element
  <1>8. at \in Int
    BY <1>2, Sizes
  <1>9. AreElements(bytes, m, w, Size[kind])
    <2>1. CASE views[w].kind = kind
      BY <2>1, <1>2, <1>5, <1>6, OfOneKind
    <2>2. CASE views[w].kind # kind
      BY <2>2, <1>2, <1>5, <1>6, OfAnotherKind
    <2> QED BY <2>1, <2>2
  <1>10. bytes \in Seq(Bytes)
    BY <1>9 DEF AreElements
  <1>11. HasBecome(BytesOf(Written(m, v, at, bytes), v), BytesOf(m, v), bytes, at, length)
         /\ Sound(Written(m, v, at, bytes)) /\ IsWritten(m, Written(m, v, at, bytes))
    <2> HIDE DEF bytes, at, length
    <2>1. \A k \in 1..length :
            BytesOf(Written(m, v, at, bytes), v)[k] =
              IF k - at \in DOMAIN bytes THEN bytes[k - at] ELSE BytesOf(m, v)[k]
      BY <1>5, <1>6, <1>8, <1>10, WrittenBytes
    <2>2. Sound(Written(m, v, at, bytes)) /\ IsWritten(m, Written(m, v, at, bytes))
      BY <1>5, <1>6, <1>8, <1>10, WrittenSound
    <2> QED BY <2>1, <2>2 DEF HasBecome
  <1>12. /\ HasBecome(BytesOf(n, v), BytesOf(m, v), bytes, at, length)
         /\ Sound(n) /\ IsWritten(m, n)
    <2>1. CASE views[w].kind = kind
      BY <2>1, <1>11
    <2>2. CASE views[w].kind # kind /\ Overlapping(Place(m, w), Place(m, v))
      BY <2>2, <1>11
    <2>3. CASE views[w].kind # kind /\ ~ Overlapping(Place(m, w), Place(m, v))
      <3>1. n = ElementByElement(m, v, w, offset) /\ bytes = ConvertedElements(m, w, kind)
        BY <2>3
      <3>2. offset + Count(m, w) <= Count(m, v)
        BY <1>1, <1>7
      <3> HIDE DEF n, bytes
      <3>3. HasBecome(BytesOf(ElementByElement(m, v, w, offset), v), BytesOf(m, v),
                      ConvertedElements(m, w, m.views[v].kind),
                      offset * Size[m.views[v].kind], m.views[v].length)
        BY <2>3, <3>2, <1>2, <1>5, <1>6, CopiedBytes
      <3>4. HasBecome(BytesOf(n, v), BytesOf(m, v), bytes, at, length)
        BY <3>1, <3>3, <1>6
      <3>5. Sound(n) /\ IsWritten(m, n)
        <4>1. PICK copied \in [0..Count(m, w) -> SameShape(m)] :
                Count(m, w) \in Nat /\ IsCopying(copied, m, v, w, offset)
          BY <1>2, <1>5, <1>6, CopiedIs
        <4>2. Count(m, w) \in 0..Count(m, w)
          BY <4>1
        <4> QED BY <3>1, <4>1, <4>2 DEF IsCopying, SameShape
      <3> QED BY <3>4, <3>5
    <2> QED BY <2>1, <2>2, <2>3
  <1> HIDE DEF n, bytes, at, length, kind
  <1>13. Memory' = n
    BY <1>1, <1>12, Becomes
  <1>14. /\ v \in DOMAIN n.views /\ n.views[v].live /\ n.views[v].kind = m.views[v].kind
         /\ n.views[v].length = m.views[v].length
    BY <1>6, <1>12 DEF IsWritten
  <1>15. IsSet(m, n, v, w, offset, i)
    <2>1. /\ AreElements(bytes, m, w, Size[m.views[v].kind]) /\ i \in 0..Count(m, v) - 1
          /\ HasBecome(BytesOf(n, v), BytesOf(m, v), bytes, offset * Size[m.views[v].kind],
                       m.views[v].length)
      BY <1>6, <1>7, <1>9, <1>12 DEF at
    <2>2. m.views[v].kind \in Kinds /\ m.views[w].kind \in Kinds
      BY <1>2, <1>6
    <2> QED BY <2>1, <2>2, <1>5, <1>6, <1>12, <1>14, ElementsSet
  <1> QED BY <1>6, <1>7, <1>13, <1>15 DEF kind, IsSet

LEMMA ReadBack ==
  ASSUME BuffersInv, NEW v \in LiveViews, NEW offset \in Nat, NEW number \in Scalars,
         NEW is_little_endian \in BOOLEAN, DataViewSetValue(v, offset, number, is_little_endian)
  PROVE  number = DataViewGetValue(v, offset, Len(number), is_little_endian)'
  <1> DEFINE bytes == IF is_little_endian THEN number ELSE Reverse(number)
             m == Memory
             n == Written(m, v, offset, bytes)
             width == Len(number)
             read == SubSeq(BytesOf(n, v), offset + 1, offset + width)
  <1>1. /\ number \in Seq(Bytes) /\ bytes \in Seq(Bytes) /\ Len(bytes) = width
        /\ DOMAIN bytes = 1..width /\ width \in Nat
    <2>1. number \in Seq(Bytes)
      BY ScalarsAre
    <2>2. bytes \in Seq(Bytes) /\ Len(bytes) = width
      BY <2>1, ReverseIs
    <2> HIDE DEF bytes
    <2> QED BY <2>1, <2>2, LenProperties
  <1>2. Become(n) /\ offset + width <= views[v].length
    BY DEF DataViewSetValue, DataViewInRange
  <1>3. /\ v \in DOMAIN m.views /\ m.views[v] = views[v] /\ views[v].live /\ Sound(m)
        /\ views[v].length \in Nat
    BY SoundView, StateParts DEF ViewRecord
  <1> HIDE DEF m, bytes
  <1>4. Sound(n) /\ IsWritten(m, n)
    BY <1>1, <1>3, WrittenSound
  <1>5. /\ v \in DOMAIN n.views /\ n.views[v].live /\ n.views[v].length = views[v].length
    BY <1>3, <1>4 DEF IsWritten
  <1>6. BytesOf(n, v) \in Seq(Bytes) /\ Len(BytesOf(n, v)) = views[v].length
    BY <1>4, <1>5, BytesAre
  <1>7. \A j \in 1..width : BytesOf(n, v)[offset + j] = bytes[j]
    <2> TAKE j \in 1..width
    <2>1. offset + j \in 1..m.views[v].length /\ (offset + j) - offset = j /\ offset \in Int
      BY <1>1, <1>2, <1>3
    <2>2. BytesOf(n, v)[offset + j] = IF (offset + j) - offset \in DOMAIN bytes
                                      THEN bytes[(offset + j) - offset]
                                      ELSE BytesOf(m, v)[offset + j]
      BY <2>1, <1>1, <1>3, WrittenBytes
    <2> QED BY <2>1, <2>2, <1>1
  <1> HIDE DEF n, width
  <1>8. \A k \in offset + 1..offset + width : BytesOf(n, v)[k] \in Bytes
    <2> TAKE k \in offset + 1..offset + width
    <2>1. k \in 1..Len(BytesOf(n, v))
      BY <1>1, <1>2, <1>3, <1>6
    <2> QED BY <2>1, <1>6, ElementOfSeq
  <1>9. read \in Seq(Bytes) /\ Len(read) = width /\ \A j \in 1..width : read[j] = bytes[j]
    <2>1. /\ offset + 1 \in Int /\ offset + width \in Int /\ (offset + width) - (offset + 1) + 1 = width
          /\ (IF offset + 1 <= offset + width THEN width ELSE 0) = width
          /\ \A j \in 1..width : (offset + 1) + j - 1 = offset + j
      BY <1>1
    <2>2. /\ read \in Seq(Bytes)
          /\ Len(read) = IF offset + 1 <= offset + width
                         THEN (offset + width) - (offset + 1) + 1 ELSE 0
          /\ \A j \in 1..(offset + width) - (offset + 1) + 1 :
               read[j] = BytesOf(n, v)[(offset + 1) + j - 1]
      BY <2>1, <1>8, SubSeqProperties
    <2> HIDE DEF read
    <2> QED BY <2>1, <2>2, <1>7
  <1>10. Memory' = n
    BY <1>2, <1>4, Becomes
  <1> HIDE DEF read
  <1>11. read = bytes
    BY <1>1, <1>9, SeqEqual
  <1>12. DataViewGetValue(v, offset, Len(number), is_little_endian)' =
           IF is_little_endian THEN read ELSE Reverse(read)
    BY <1>10 DEF DataViewGetValue, read, width
  <1>13. CASE is_little_endian
    BY <1>11, <1>12, <1>13 DEF bytes
  <1>14. CASE ~ is_little_endian
    <2>1. read = Reverse(number)
      BY <1>11, <1>14 DEF bytes
    <2>2. /\ Reverse(number) \in Seq(Bytes) /\ Len(Reverse(number)) = Len(number)
          /\ \A i \in 1..Len(number) : Reverse(number)[i] = number[Len(number) - i + 1]
      BY <1>1, ReverseIs
    <2>3. /\ Reverse(Reverse(number)) \in Seq(Bytes) /\ Len(Reverse(Reverse(number))) = Len(number)
          /\ \A i \in 1..Len(number) :
               Reverse(Reverse(number))[i] = Reverse(number)[Len(number) - i + 1]
      BY <2>2, ReverseIs
    <2>4. \A i \in 1..Len(number) : Reverse(Reverse(number))[i] = number[i]
      <3> TAKE i \in 1..Len(number)
      <3>1. Len(number) - i + 1 \in 1..Len(number) /\ Len(number) - (Len(number) - i + 1) + 1 = i
        BY <1>1 DEF width
      <3> QED BY <3>1, <2>2, <2>3
    <2>5. Reverse(Reverse(number)) = number
      BY <1>1, <2>3, <2>4, SeqEqual
    <2> QED BY <2>1, <2>5, <1>12, <1>14
  <1> QED BY <1>13, <1>14

\* Setting a typed array from another leaves in it the elements the other had before, of
\* whatever kinds the two are and whatever memory they share, and a number written through a
\* DataView is read back.
THEOREM CopiesAlwaysOfTheOld == BuffersSpec => CopiesAreOfTheOld
  <1>1. ASSUME BuffersInv, [BuffersNext]_bufferVars
        PROVE  /\ \A v, w \in TypedArrays, offset \in 0..MaxBytes :
                    TypedArraySet(v, w, offset) =>
                      \A i \in 0..Count(Memory, v) - 1 :
                        Element(Memory', v, i) =
                          IF i - offset \in 0..Count(Memory, w) - 1
                          THEN Converted(Element(Memory, w, i - offset), Size[views[v].kind])
                          ELSE Element(Memory, v, i)
               /\ \A v \in LiveViews \ TypedArrays, offset \in 0..MaxBytes - 1, number \in Scalars,
                     is_little_endian \in BOOLEAN :
                    DataViewSetValue(v, offset, number, is_little_endian) =>
                      number = DataViewGetValue(v, offset, Len(number), is_little_endian)'
    <2>1. MaxBytes \in Nat
      BY BytesAssumption
    <2>2. ASSUME NEW v \in TypedArrays, NEW w \in TypedArrays, NEW offset \in 0..MaxBytes,
                 TypedArraySet(v, w, offset), NEW i \in 0..Count(Memory, v) - 1
          PROVE  Element(Memory', v, i) =
                   IF i - offset \in 0..Count(Memory, w) - 1
                   THEN Converted(Element(Memory, w, i - offset), Size[views[v].kind])
                   ELSE Element(Memory, v, i)
      <3>1. offset \in Nat
        BY <2>1
      <3> QED BY <1>1, <2>2, <3>1, SetIsOfTheOld
    <2>3. ASSUME NEW v \in LiveViews \ TypedArrays, NEW offset \in 0..MaxBytes - 1,
                 NEW number \in Scalars, NEW is_little_endian \in BOOLEAN,
                 DataViewSetValue(v, offset, number, is_little_endian)
          PROVE  number = DataViewGetValue(v, offset, Len(number), is_little_endian)'
      <3>1. offset \in Nat
        BY <2>1
      <3> QED BY <1>1, <2>3, <3>1, ReadBack
    <2> QED BY <2>2, <2>3
  <1> QED BY BuffersStart, BuffersInvKept, <1>1, PTL DEF BuffersSpec, CopiesAreOfTheOld
=============================================================================
