-------------------------------- MODULE V8Tiers -------------------------------
(***************************************************************************)
(* How V8 moves the closures of one function between unoptimised and       *)
(* optimised code (runtime.cc): lazy compilation, optimisation at a call,  *)
(* at once or by the compiler thread, replacement of a running loop's code *)
(* (OSR), and deoptimisation.                                              *)
(*                                                                         *)
(* The compiler, its thread and the deoptimiser are external: a job ends,  *)
(* well or badly, at any time, and code may be found invalid at any time.  *)
(***************************************************************************)
EXTENDS Naturals, Sequences, FiniteSets, SequencesExt

CONSTANTS Closures,   \* closures of the function
          MaxJobs,    \* the compiler thread's capacity
          MaxFrames,  \* bound on the activations
          MaxCodes    \* bound on the optimised codes made

VARIABLES code,    \* JSFunction::code of each closure
          shared,  \* SharedFunctionInfo: whether it is compiled and may be optimised
          frames,  \* the activations, the current one last
          jobs,    \* OptimizingCompilerThread: the closures' jobs
          cache,   \* optimised codes new closures may use
          marked,  \* optimised codes marked for deoptimisation
          made,    \* the number of optimised codes made
          bailed   \* codes that bailed out when nothing else ran them

tierVars == <<code, shared, frames, jobs, cache, marked, made, bailed>>

Lazy == <<"lazy">>
Full == <<"full">>
CompileOptimizedStub(concurrent) == IF concurrent THEN <<"concurrent">> ELSE <<"compile">>
InOptimizationQueue == <<"queue">>
Optimized(k) == <<"optimized", k>>

IsOptimized(c) == c[1] = "optimized"
Marked(f) == code[f] \in {CompileOptimizedStub(b) : b \in BOOLEAN}

\* The code a closure runs when it has none of its own.
SharedCode == IF shared.compiled THEN Full ELSE Lazy

Job(f, osr, status) == [closure |-> f, osr |-> osr, status |-> status]
Frame(f, c) == [closure |-> f, code |-> c]

TiersInit ==
  /\ code = [f \in Closures |-> Lazy]
  /\ shared = [compiled |-> FALSE, disabled |-> FALSE]
  /\ frames = <<>>
  /\ jobs = {} /\ cache = {} /\ marked = {} /\ bailed = {}
  /\ made = 0

ReplaceCode(f, c) == code' = [code EXCEPT ![f] = c]
Enter(f, c) == frames' = Append(frames, Frame(f, c))
Top == Last(frames)
-----------------------------------------------------------------------------
(* The compiler thread.                                                    *)

CompilerThread ==
  \E j \in jobs, status \in {"ready", "failed"} :
    /\ j.status = "queued"
    /\ status = "ready" => made < MaxCodes
    /\ jobs' = (jobs \ {j}) \cup {[j EXCEPT !.status = status]}
    /\ UNCHANGED <<code, shared, frames, cache, marked, made, bailed>>

\* OptimizingCompilerThread::InstallOptimizedFunctions: the jobs that have ended, other
\* than a loop's, are installed, except in closures that were optimised meanwhile.
Installable == {j \in jobs : j.status # "queued" /\ ~j.osr}

Installed ==
  LET news == {j.closure : j \in {i \in Installable : i.status = "ready"}}
  IN [f \in Closures |->
        CASE (\A j \in Installable : j.closure # f) \/ IsOptimized(code[f]) -> code[f]
          [] ~IsOptimized(code[f]) /\ f \in news -> Optimized(made + 1)
          [] OTHER -> SharedCode]

\* Mutant: jobs that ended badly are dropped without telling their closures.
InstallOptimizedFunctionsReadyOnly ==
  LET used == \E f \in Closures : Installed[f] = Optimized(made + 1)
  IN /\ jobs' = jobs \ Installable
     /\ made' = IF used THEN made + 1 ELSE made
     /\ cache' = IF used THEN cache \cup {made + 1} ELSE cache
     /\ code' = [f \in Closures |-> IF IsOptimized(Installed[f]) THEN Installed[f] ELSE code[f]]

\* The closures whose jobs are installed together share the code that is made.
InstallOptimizedFunctions ==
  LET used == \E f \in Closures : Installed[f] = Optimized(made + 1)
  IN /\ jobs' = jobs \ Installable
     /\ made' = IF used THEN made + 1 ELSE made
     /\ cache' = IF used THEN cache \cup {made + 1} ELSE cache
     /\ code' = Installed
-----------------------------------------------------------------------------
(* Compilation.                                                            *)

CompileUnoptimized(f) ==
  /\ code[f] = Lazy
  /\ ReplaceCode(f, Full)
  /\ shared' = [shared EXCEPT !.compiled = TRUE]
  /\ Enter(f, Full)
  /\ UNCHANGED <<jobs, cache, marked, made, bailed>>

\* Compiler::GetOptimizedCode fails (when the queue is full, among others), finds
\* code in the cache, queues a job or compiles.
CompileOptimized(f, concurrent) ==
  /\ code[f] = CompileOptimizedStub(concurrent)
  /\ \/ /\ ReplaceCode(f, SharedCode)
        /\ Enter(f, SharedCode)
        /\ UNCHANGED <<jobs, cache, made>>
     \/ /\ shared.compiled /\ ~shared.disabled
        /\ \E k \in cache : ReplaceCode(f, Optimized(k)) /\ Enter(f, Optimized(k))
        /\ UNCHANGED <<jobs, cache, made>>
     \/ /\ shared.compiled /\ ~shared.disabled
        /\ cache = {} /\ concurrent
        /\ Cardinality(jobs) < MaxJobs
        /\ ReplaceCode(f, InOptimizationQueue)
        /\ jobs' = jobs \cup {Job(f, FALSE, "queued")}
        /\ Enter(f, SharedCode)
        /\ UNCHANGED <<cache, made>>
     \/ /\ shared.compiled /\ ~shared.disabled
        /\ cache = {} /\ ~concurrent
        /\ made < MaxCodes
        /\ made' = made + 1
        /\ cache' = {made'}
        /\ ReplaceCode(f, Optimized(made'))
        /\ Enter(f, Optimized(made'))
        /\ UNCHANGED jobs
  /\ UNCHANGED <<shared, marked, bailed>>

\* A call of a closure whose job is queued.
TryInstallOptimizedCode(f) ==
  /\ code[f] = InOptimizationQueue
  /\ made < MaxCodes
  /\ InstallOptimizedFunctions
  /\ Enter(f, IF IsOptimized(code'[f]) THEN code'[f] ELSE SharedCode)
  /\ UNCHANGED <<shared, marked, bailed>>

Call(f) ==
  /\ Len(frames) < MaxFrames
  /\ \/ CompileUnoptimized(f)
     \/ \E concurrent \in BOOLEAN : CompileOptimized(f, concurrent)
     \/ TryInstallOptimizedCode(f)
     \/ /\ code[f] = Full \/ IsOptimized(code[f])
        /\ Enter(f, code[f])
        /\ UNCHANGED <<code, shared, jobs, cache, marked, made, bailed>>

\* A turn of the loop that waits until the closure leaves the queue; the status it then
\* answers changes nothing.
GetOptimizationStatus(f) ==
  /\ code[f] = InOptimizationQueue
  /\ made < MaxCodes
  /\ InstallOptimizedFunctions
  /\ UNCHANGED <<shared, frames, marked, bailed>>

\* Code marked for deoptimisation goes on in unoptimised code (a lazy bailout).
Return ==
  /\ frames # <<>>
  /\ LET left == Front(frames)
         last == Last(left)
     IN frames' = IF left # <<>> /\ \E k \in marked : last.code = Optimized(k)
                  THEN Append(Front(left), [last EXCEPT !.code = Full])
                  ELSE left
  /\ UNCHANGED <<code, shared, jobs, cache, marked, made, bailed>>
-----------------------------------------------------------------------------
(* Marking.                                                                *)

IsOptimizable(f) == code[f] = Full /\ ~shared.disabled

\* The profiler marks hot closures; a test does so by name.
OptimizeFunctionOnNextCall(f, concurrent) ==
  /\ \/ IsOptimizable(f)
     \/ code[f] = CompileOptimizedStub(TRUE)
     \/ code[f] = InOptimizationQueue
  /\ ReplaceCode(f, CompileOptimizedStub(concurrent))
  /\ UNCHANGED <<shared, frames, jobs, cache, marked, made, bailed>>

NeverOptimizeFunction ==
  /\ shared' = [shared EXCEPT !.disabled = TRUE]
  /\ UNCHANGED <<code, frames, jobs, cache, marked, made, bailed>>

\* NewClosure: a new closure starts with cached code, if there is any.
NewClosure(f) ==
  /\ \A i \in DOMAIN frames : frames[i].closure # f
  /\ \A j \in jobs : j.closure # f
  /\ \/ cache # {} /\ \E k \in cache : ReplaceCode(f, Optimized(k))
     \/ cache = {} /\ ReplaceCode(f, SharedCode)
  /\ UNCHANGED <<shared, frames, jobs, cache, marked, made, bailed>>
-----------------------------------------------------------------------------
(* Deoptimisation.                                                         *)

\* Deoptimizer::DeoptimizeFunction: the closures that have the code lose it.
Deoptimize(k) ==
  /\ marked' = marked \cup {k}
  /\ code' = [f \in Closures |-> IF code[f] = Optimized(k) THEN SharedCode ELSE code[f]]
  /\ cache' = IF \E f \in Closures : code[f] = Optimized(k) THEN cache \ {k} ELSE cache

DeoptimizeFunction(f) ==
  /\ \E k \in 1..made : code[f] = Optimized(k) /\ Deoptimize(k)
  /\ UNCHANGED <<shared, frames, jobs, made, bailed>>

\* Mutant: the code stays in the cache.
EvictFromOptimizedCodeMapNot(k) == cache' = cache

EvictFromOptimizedCodeMap(k) == cache' = cache \ {k}

\* An eager bailout of the current activation: its code is given up if nothing else runs it.
NotifyDeoptimized ==
  /\ frames # <<>>
  /\ \E k \in 1..made :
       /\ Top.code = Optimized(k)
       /\ frames' = [frames EXCEPT ![Len(frames)].code = Full]
       /\ IF \E i \in 1..Len(frames) - 1 : frames[i].code = Optimized(k)
          THEN /\ \/ code[Top.closure] = Optimized(k) /\ Deoptimize(k)
                  \/ /\ code[Top.closure] # Optimized(k)
                     /\ IF IsOptimized(code[Top.closure])
                        THEN Deoptimize(code[Top.closure][2])
                        ELSE UNCHANGED <<code, cache, marked>>
               /\ UNCHANGED bailed
          ELSE /\ IF code[Top.closure] = Optimized(k)
                  THEN ReplaceCode(Top.closure, SharedCode) /\ EvictFromOptimizedCodeMap(k)
                  ELSE UNCHANGED <<code, cache>>
               /\ bailed' = IF code[Top.closure] = Optimized(k) THEN bailed \cup {k} ELSE bailed
               /\ UNCHANGED marked
  /\ UNCHANGED <<shared, jobs, made>>
-----------------------------------------------------------------------------
(* On-stack replacement of the current activation, in a loop.              *)

IsSuitableForOnStackReplacement(f) ==
  /\ ~shared.disabled
  /\ \A i \in DOMAIN frames : frames[i].closure = f => ~IsOptimized(frames[i].code)

OsrJobs(f) == {j \in jobs : j.closure = f /\ j.osr}

OsrSucceeds(f, others) ==
  /\ made < MaxCodes
  /\ made' = made + 1
  /\ ReplaceCode(f, Optimized(made'))
  /\ frames' = [frames EXCEPT ![Len(frames)].code = Optimized(made')]
  /\ jobs' = others

OsrFails(f, others) ==
  /\ code' = IF IsOptimized(code[f]) THEN code ELSE [code EXCEPT ![f] = SharedCode]
  /\ jobs' = others
  /\ UNCHANGED <<frames, made>>

\* concurrent: the flag concurrent_osr.
CompileForOnStackReplacement(concurrent) ==
  /\ frames # <<>> /\ Top.code = Full
  /\ LET f == Top.closure
         ended == {j \in OsrJobs(f) : j.status # "queued"}
     IN \/ /\ concurrent /\ ended # {}
           /\ \E j \in ended :
                IF j.status = "ready" THEN OsrSucceeds(f, jobs \ {j})
                ELSE OsrFails(f, jobs \ {j})
        \/ /\ concurrent /\ OsrJobs(f) = {}
           /\ IsSuitableForOnStackReplacement(f)
           /\ Cardinality(jobs) < MaxJobs
           /\ jobs' = jobs \cup {Job(f, TRUE, "queued")}
           /\ UNCHANGED <<code, frames, made>>
        \/ /\ ~concurrent
           /\ IsSuitableForOnStackReplacement(f)
           /\ OsrSucceeds(f, jobs)
        \/ /\ OsrJobs(f) = {}
           /\ OsrFails(f, jobs)
  /\ UNCHANGED <<shared, cache, marked, bailed>>

TiersNext ==
  \/ CompilerThread
  \/ \E f \in Closures :
       \/ Call(f)
       \/ \E concurrent \in BOOLEAN : OptimizeFunctionOnNextCall(f, concurrent)
       \/ GetOptimizationStatus(f)
       \/ NewClosure(f)
       \/ DeoptimizeFunction(f)
  \/ NeverOptimizeFunction
  \/ Return
  \/ NotifyDeoptimized
  \/ \E concurrent \in BOOLEAN : CompileForOnStackReplacement(concurrent)

TiersSpec == TiersInit /\ [][TiersNext]_tierVars
-----------------------------------------------------------------------------
\* A closure that waits in the optimisation queue has a job there that will give it code
\* (GetOptimizationStatus sleeps until it leaves the queue).
QueuedHasJob ==
  \A f \in Closures :
    code[f] = InOptimizationQueue => \E j \in jobs : j.closure = f /\ ~j.osr

\* Code given up after a bailout is offered to no new closure, and no closure keeps code
\* that is marked for deoptimisation.
GivenUpCodeIsGone ==
  /\ cache \cap bailed = {}
  /\ \A f \in Closures, k \in marked : code[f] # Optimized(k)
=============================================================================
