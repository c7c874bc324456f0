-------------------------------- MODULE V8Debug -------------------------------
(***************************************************************************)
(* How V8's debugger looks at a function that is stopped at a break and    *)
(* changes its variables (runtime.cc): the list of frames, the scopes a    *)
(* frame or a closure sees, setting a variable of a scope, evaluation in a *)
(* frame, details of a frame.                                              *)
(*                                                                         *)
(* One frame is looked at in full.  Its parameters and stack locals are on *)
(* the stack, its context holds the locals that closures use and, in an    *)
(* extension, the variables that eval introduced.  Within it there may be  *)
(* catch, with and block scopes, each with a context of its own (scopes.cc *)
(* allocates their variables in contexts); around it there is a closure.   *)
(*                                                                         *)
(* Left out: module scopes, scopes of eval code, the extra scope the       *)
(* debugger may pass to an evaluation, and failures to parse the code.     *)
(***************************************************************************)
EXTENDS Naturals, Sequences, FiniteSets, FiniteSetsExt, SequencesExt, TLC

CONSTANTS Names, Values,
          MaxBreaks  \* bound on the breaks

VARIABLES frame,     \* the function's frame and its contexts
          outer,     \* the context of the closure around it
          counts,    \* for each frame of the stack, the functions that run in it
          break_id,  \* the current break, or 0
          last_id    \* the last break

debugVars == <<frame, outer, counts, break_id, last_id>>

Undefined == "undefined"
Hole      == "hole"  \* a let variable before its initialisation
NoNames   == [n \in {} |-> Undefined]
-----------------------------------------------------------------------------
(***************************************************************************)
(* What a frame holds.  (A block scope is one like a with scope: it cannot *)
(* be set, and has a context.)                                             *)
(*   params, values   names and values of the parameters                   *)
(*   passed           the arguments passed: other than as many as the      *)
(*                    parameters, they are in an adaptor frame             *)
(*   locals, stack    names and values of the locals on the stack          *)
(*   captured, extension  the function's context                           *)
(*   nested           scopes within the function, the innermost first      *)
(*   optimized        whether the code is optimised (or inlined)           *)
(***************************************************************************)
HasContext(f) == DOMAIN f.captured \cup DOMAIN f.extension # {}

AnyValue == CHOOSE v \in Values : TRUE

\* One argument is passed, to a function that has none, one or two parameters.
Frames ==
  {f \in [params    : {<<>>} \cup {<<p>> : p \in Names} \cup {<<p, p>> : p \in Names},
          passed    : {<<AnyValue>>},
          values    : {<<>>}, stack : {<<>>},
          locals    : {<<>>} \cup {<<l>> : l \in Names},
          captured  : {NoNames} \cup {n :> AnyValue : n \in Names},
          extension : {NoNames} \cup {n :> AnyValue : n \in Names},
          nested    : {<<>>} \cup {<<[kind |-> k, vars |-> n :> AnyValue]>> :
                                     k \in {"catch", "with"}, n \in Names},
          optimized : BOOLEAN] :
     /\ ToSet(f.params) \cap ToSet(f.locals) = {}
     /\ DOMAIN f.captured \cap (ToSet(f.locals) \cup DOMAIN f.extension) = {}
     /\ DOMAIN f.extension \cap (ToSet(f.locals) \cup ToSet(f.params)) = {}
     /\ f.optimized => f.nested = <<>>}  \* catch and with are not optimised

\* The frame as its function is entered.
Entered(f) ==
  [f EXCEPT !.values = [i \in DOMAIN f.params |->
                          IF i \in DOMAIN f.passed THEN f.passed[i] ELSE Undefined],
            !.stack = [i \in DOMAIN f.locals |-> Hole]]

DebugInit ==
  /\ frame \in {Entered(f) : f \in Frames}
  /\ outer = [vars |-> (CHOOSE n \in Names : TRUE) :> AnyValue]
  /\ counts = <<2, 1>>
  /\ break_id = 0 /\ last_id = 0
-----------------------------------------------------------------------------
(***************************************************************************)
(* Frames by index: an optimised frame stands for the functions inlined in *)
(* it too, of which the last, the innermost, comes first.                  *)
(***************************************************************************)
GetFrameCount == FoldLeft(LAMBDA n, c : n + c, 0, counts)

FrameAt(index) ==
  LET Before(k) == FoldLeft(LAMBDA n, c : n + c, 0, SubSeq(counts, 1, k - 1))
      k == CHOOSE j \in DOMAIN counts : Before(j) <= index /\ index < Before(j) + counts[j]
  IN [frame |-> k, inlined |-> counts[k] - (index - Before(k)) - 1]
-----------------------------------------------------------------------------
(***************************************************************************)
(* ScopeIterator walks two lists, the scope infos of the function found by *)
(* parsing it again, and the contexts: it takes the next context when the  *)
(* scope it leaves has one.  When the infos are used up, each context is a *)
(* scope of its own.                                                       *)
(***************************************************************************)
Contexts(f, o) ==
  [k \in DOMAIN f.nested |-> [type |-> f.nested[k].kind, vars |-> f.nested[k].vars]]
  \o (IF HasContext(f) THEN <<[type |-> "function", vars |-> f.extension @@ f.captured]>>
      ELSE <<>>)
  \o <<[type |-> "function", vars |-> o.vars], [type |-> "native", vars |-> NoNames]>>

\* at_exit: in the return sequence, or when asked to, nested scopes are ignored.
NestedScopeChain(f, at_exit) ==
  (IF at_exit THEN <<>>
   ELSE [k \in DOMAIN f.nested |-> [type |-> f.nested[k].kind, context |-> TRUE]])
  \o <<[type |-> "local", context |-> HasContext(f)]>>

FirstContext(f, at_exit) == IF at_exit THEN Len(f.nested) + 1 ELSE 1

\* Mutant: leaving a scope always takes the next context.
ContextOfAlways(f, at_exit, n) == FirstContext(f, at_exit) + n - 1

\* The context at the n-th scope.
ContextOf(f, at_exit, n) ==
  LET chain == NestedScopeChain(f, at_exit)
  IN FirstContext(f, at_exit)
     + Cardinality({m \in 1..n - 1 : m \in DOMAIN chain => chain[m].context})

ScopeType(f, o, at_exit, n) ==
  LET chain   == NestedScopeChain(f, at_exit)
      context == Contexts(f, o)[ContextOf(f, at_exit, n)]
  IN CASE n \in DOMAIN chain         -> chain[n].type
       [] context.type = "native"   -> "global"
       [] context.type = "function" -> "closure"
       [] OTHER                     -> context.type

\* The scope that shows the global object is the last.
GetScopeCount(f, o, at_exit) ==
  CHOOSE n \in 1..Len(f.nested) + 4 : ContextOf(f, at_exit, n) = Len(Contexts(f, o))
-----------------------------------------------------------------------------
(* Materialised scopes.                                                    *)

ParameterIsShadowedByContextLocal(f, i) == f.params[i] \in DOMAIN f.captured

\* Parameters, a later one of a name for an earlier, then the locals that have a value.
MaterializeStackLocals(f) ==
  LET Shown == {i \in DOMAIN f.params : ~ParameterIsShadowedByContextLocal(f, i)}
      Live  == {i \in DOMAIN f.locals : f.stack[i] # Hole}
  IN [n \in {f.locals[i] : i \in Live} |-> f.stack[CHOOSE i \in Live : f.locals[i] = n]]
     @@ [n \in {f.params[i] : i \in Shown} |->
           f.values[Max({i \in Shown : f.params[i] = n})]]

MaterializeLocalScope(f) == f.extension @@ f.captured @@ MaterializeStackLocals(f)

ScopeObject(f, o, at_exit, n) ==
  IF ScopeType(f, o, at_exit, n) = "local" THEN MaterializeLocalScope(f)
  ELSE Contexts(f, o)[ContextOf(f, at_exit, n)].vars

GetAllScopesDetails(f, o, at_exit) ==
  [n \in 1..GetScopeCount(f, o, at_exit) |->
     [type |-> ScopeType(f, o, at_exit, n), object |-> ScopeObject(f, o, at_exit, n)]]

\* The scopes of a closure made by the function: contexts only.
GetFunctionScopesDetails(f, o) ==
  LET contexts == SubSeq(Contexts(f, o), Len(f.nested) + 1, Len(Contexts(f, o)))
  IN [k \in DOMAIN contexts |->
        [type   |-> IF contexts[k].type = "native" THEN "global" ELSE "closure",
         object |-> contexts[k].vars]]

\* The arguments and locals of a frame: arguments from the adaptor frame if there is one,
\* as many as there are parameters or more; locals from the stack, then the context.
GetFrameDetails(f) ==
  LET adapted == Len(f.passed) # Len(f.params)
      given   == IF adapted THEN f.passed ELSE f.values
  IN [arguments |-> [i \in 1..Max({Len(f.params), Len(given)}) |->
                       [name  |-> IF i \in DOMAIN f.params THEN f.params[i] ELSE Undefined,
                        value |-> IF i \in DOMAIN given THEN given[i] ELSE Undefined]],
      locals    |-> f.captured @@ [n \in ToSet(f.locals) |->
                      f.stack[CHOOSE i \in DOMAIN f.locals : f.locals[i] = n]]]
-----------------------------------------------------------------------------
(* Setting a variable of a scope.                                          *)

Known(f, n) ==
  n \in ToSet(f.params) \cup ToSet(f.locals) \cup DOMAIN f.captured \cup DOMAIN f.extension

\* Mutant: the parameter on the stack is taken for the variable.
SetLocalVariableValueStack(f, n, v) ==
  IF n \in ToSet(f.params)
  THEN [f EXCEPT !.values = [i \in DOMAIN @ |-> IF f.params[i] = n THEN v ELSE @[i]]]
  ELSE [f EXCEPT !.stack     = [i \in DOMAIN @ |-> IF f.locals[i] = n THEN v ELSE @[i]],
                 !.captured  = [m \in DOMAIN @ |-> IF m = n THEN v ELSE @[m]],
                 !.extension = [m \in DOMAIN @ |-> IF m = n THEN v ELSE @[m]]]

\* Every parameter of the name, and the local, which may shadow it, wherever that is.
SetLocalVariableValue(f, n, v) ==
  [f EXCEPT !.values    = [i \in DOMAIN @ |-> IF f.params[i] = n THEN v ELSE @[i]],
            !.stack     = [i \in DOMAIN @ |-> IF f.locals[i] = n THEN v ELSE @[i]],
            !.captured  = [m \in DOMAIN @ |-> IF m = n THEN v ELSE @[m]],
            !.extension = [m \in DOMAIN @ |-> IF m = n THEN v ELSE @[m]]]

\* Whether a scope's variable can be set: not in global, with and block scopes, and not
\* on the stack of an optimised frame.
Settable(f, o, at_exit, k, n) ==
  CASE ScopeType(f, o, at_exit, k) = "local"               -> ~f.optimized /\ Known(f, n)
    [] ScopeType(f, o, at_exit, k) \in {"closure", "catch"} ->
         n \in DOMAIN ScopeObject(f, o, at_exit, k)
    [] OTHER                                               -> FALSE

CheckExecutionState(id) == break_id # 0 /\ id = break_id

SetScopeVariableValue(id, at_exit, k, n, v) ==
  /\ CheckExecutionState(id)
  /\ k \in 1..GetScopeCount(frame, outer, at_exit)
  /\ Settable(frame, outer, at_exit, k, n)
  /\ LET type == ScopeType(frame, outer, at_exit, k)
     IN /\ frame' = CASE type = "local" -> SetLocalVariableValue(frame, n, v)
                      [] type = "catch" ->
                           [frame EXCEPT !.nested[ContextOf(frame, at_exit, k)].vars[n] = v]
                      [] OTHER          -> frame
        /\ outer' = IF type = "closure" THEN [outer EXCEPT !.vars[n] = v] ELSE outer
  /\ UNCHANGED <<counts, break_id, last_id>>
-----------------------------------------------------------------------------
(***************************************************************************)
(* Evaluation in a frame of code that assigns v to n, and then may throw.  *)
(* The materialised stack locals are a with-scope around the code, inside  *)
(* of every scope of the function, and are written back afterwards: not if *)
(* the code throws, and not to an optimised frame.                         *)
(***************************************************************************)
UpdateStackLocals(f, materialized) ==
  [f EXCEPT !.values = [i \in DOMAIN @ |-> IF ParameterIsShadowedByContextLocal(f, i)
                                           THEN @[i] ELSE materialized[f.params[i]]],
            !.stack  = [i \in DOMAIN @ |-> IF @[i] = Hole THEN @[i]
                                           ELSE materialized[f.locals[i]]]]

AssignedOutside(f, n, v) ==
  LET within == {k \in DOMAIN f.nested : n \in DOMAIN f.nested[k].vars}
  IN IF within # {} THEN [f EXCEPT !.nested[Min(within)].vars[n] = v]
     ELSE [f EXCEPT !.captured  = [m \in DOMAIN @ |-> IF m = n THEN v ELSE @[m]],
                    !.extension = [m \in DOMAIN @ |-> IF m = n THEN v ELSE @[m]]]

OfFrame(f, n) ==
  n \in DOMAIN f.captured \cup DOMAIN f.extension \cup DOMAIN MaterializeStackLocals(f)
        \cup UNION {DOMAIN f.nested[k].vars : k \in DOMAIN f.nested}

DebugEvaluate(id, n, v, throws) ==
  /\ CheckExecutionState(id)
  /\ LET materialized == MaterializeStackLocals(frame)
     IN frame' = CASE n \notin DOMAIN materialized -> AssignedOutside(frame, n, v)
                   [] throws \/ frame.optimized    -> frame
                   [] OTHER -> UpdateStackLocals(frame, [materialized EXCEPT ![n] = v])
  /\ outer' = IF ~OfFrame(frame, n) /\ n \in DOMAIN outer.vars
              THEN [outer EXCEPT !.vars[n] = v] ELSE outer
  /\ UNCHANGED <<counts, break_id, last_id>>
-----------------------------------------------------------------------------
\* The debugger is entered and left, and between its stops the program runs on (external).
EnterDebugger ==
  /\ break_id = 0 /\ last_id < MaxBreaks
  /\ break_id' = last_id + 1 /\ last_id' = break_id'
  /\ UNCHANGED <<frame, outer, counts>>

LeaveDebugger ==
  /\ break_id # 0
  /\ break_id' = 0
  /\ UNCHANGED <<frame, outer, counts, last_id>>

ProgramInitializesLocal ==
  /\ break_id = 0
  /\ \E i \in DOMAIN frame.locals, v \in Values :
       frame.stack[i] = Hole /\ frame' = [frame EXCEPT !.stack[i] = v]
  /\ UNCHANGED <<outer, counts, break_id, last_id>>
-----------------------------------------------------------------------------
(* Who refers to an object.  The heap is a sequence of objects, each with  *)
(* the objects it refers to, its prototypes and its constructor; mirrors,  *)
(* the debugger's own objects, are left out by their prototype, and so are *)
(* extension objects of contexts and arguments objects.                    *)

\* The first ones that satisfy P; max is 0 for all.
FirstOf(objects, P(_), max) ==
  LET all == SelectSeq([i \in DOMAIN objects |-> i], P)
  IN IF max = 0 \/ Len(all) <= max THEN all ELSE SubSeq(all, 1, max)

\* A single reference found that is the target's own does not count.
DebugReferencedBy(objects, target, filter, max) ==
  LET found == FirstOf(objects, LAMBDA i : /\ objects[i].constructor \notin {"extension",
                                                                            "arguments"}
                                           /\ target \in objects[i].references
                                           /\ filter \notin objects[i].prototypes, max)
  IN IF found = <<target>> THEN <<>> ELSE found

DebugConstructedBy(objects, constructor, max) ==
  FirstOf(objects, LAMBDA i : objects[i].constructor = constructor, max)

-----------------------------------------------------------------------------
DebugNext ==
  \/ EnterDebugger \/ LeaveDebugger \/ ProgramInitializesLocal
  \/ \E id \in 1..MaxBreaks, n \in Names, v \in Values :
       \/ \E at_exit \in BOOLEAN, k \in 1..4 : SetScopeVariableValue(id, at_exit, k, n, v)
       \/ \E throws \in BOOLEAN : DebugEvaluate(id, n, v, throws)
-----------------------------------------------------------------------------
(* The scopes as the source of the program has them.                       *)

\* The variables of the function: the one that closures use is the one in the context.
Locals(f) ==
  LET Live == {f.locals[i] : i \in {j \in DOMAIN f.locals : f.stack[j] # Hole}}
  IN [n \in ToSet(f.params) \cup Live \cup DOMAIN f.captured \cup DOMAIN f.extension |->
        CASE n \in DOMAIN f.captured  -> f.captured[n]
          [] n \in DOMAIN f.extension -> f.extension[n]
          [] n \in Live -> f.stack[CHOOSE i \in DOMAIN f.locals : f.locals[i] = n]
          [] OTHER      -> f.values[Max({i \in DOMAIN f.params : f.params[i] = n})]]

SourceScopes(f, o, at_exit) ==
  (IF at_exit THEN <<>>
   ELSE [k \in DOMAIN f.nested |-> [type |-> f.nested[k].kind, object |-> f.nested[k].vars]])
  \o <<[type |-> "local", object |-> Locals(f)], [type |-> "closure", object |-> o.vars],
       [type |-> "global", object |-> NoNames]>>

\* The debugger lists every function on the stack once, the scopes of a frame are the
\* source's, those of a closure are the ones from the function's context outwards, and a
\* frame's details agree with its local scope.
InspectionIsTruthful ==
  /\ {FrameAt(i) : i \in 0..GetFrameCount - 1} =
       UNION {{[frame |-> k, inlined |-> j] : j \in 0..counts[k] - 1} : k \in DOMAIN counts}
  /\ \A at_exit \in BOOLEAN :
       GetAllScopesDetails(frame, outer, at_exit) = SourceScopes(frame, outer, at_exit)
  /\ LET details == GetFrameDetails(frame)
     IN /\ \A n \in DOMAIN details.locals :
             details.locals[n] # Hole => Locals(frame)[n] = details.locals[n]
        /\ \A i \in DOMAIN details.arguments :
             /\ Len(frame.passed) = Len(frame.params)
             /\ details.arguments[i].name \notin DOMAIN frame.captured
             /\ \A j \in DOMAIN frame.params : j > i => frame.params[j] # frame.params[i]
             => details.arguments[i].value = Locals(frame)[details.arguments[i].name]
  /\ LET closures == GetFunctionScopesDetails(frame, outer)
     IN /\ Last(closures).type = "global"
        /\ \A n \in DOMAIN frame.captured : closures[1].object[n] = Locals(frame)[n]

\* The objects listed are the ones that keep the target alive, from the first on, none if
\* only a mirror does; not if one is asked for, when the target may hide the others.
ReferencesAreTruthful(objects, target, max) ==
  LET Keeps(i) == /\ objects[i].constructor \notin {"extension", "arguments"}
                  /\ target \in objects[i].references /\ "mirror" \notin objects[i].prototypes
      keepers  == {i \in DOMAIN objects : Keeps(i)}
      listed   == DebugReferencedBy(objects, target, "mirror", max)
      made     == DebugConstructedBy(objects, "f", max)
  IN /\ max # 1 =>
          IF keepers = {target} THEN listed = <<>>
          ELSE /\ Len(listed) = IF max = 0 THEN Cardinality(keepers)
                                ELSE Min({max, Cardinality(keepers)})
               /\ ToSet(listed) \subseteq keepers
               /\ \A i \in keepers \ ToSet(listed) : \A j \in ToSet(listed) : j < i
     /\ \A i \in ToSet(made) : objects[i].constructor = "f"
     /\ max = 0 => \A i \in DOMAIN objects \ ToSet(made) : objects[i].constructor # "f"

Assigned(scopes, k, n, v) == [scopes EXCEPT ![k].object = (n :> v) @@ @]

\* Setting a variable changes that one and no other.  Evaluating an assignment, to its
\* end and in unoptimised code, does too, and to the variable the program itself would
\* assign, if no scope within the function has one of that name.
OneVariableChanges ==
  [][break_id # 0 /\ break_id' = break_id =>
       LET before    == SourceScopes(frame, outer, FALSE)
           after     == SourceScopes(frame', outer', FALSE)
           having(n) == {k \in DOMAIN before : n \in DOMAIN before[k].object}
       IN \A n \in Names, v \in Values :
            /\ \A at_exit \in BOOLEAN :
                 \A k \in 1..GetScopeCount(frame, outer, at_exit) :
                   SetScopeVariableValue(break_id, at_exit, k, n, v) =>
                     after = Assigned(before, IF at_exit THEN k + Len(frame.nested) ELSE k, n, v)
            /\ /\ DebugEvaluate(break_id, n, v, FALSE)
               /\ ~frame.optimized
               /\ \A k \in DOMAIN frame.nested : n \notin DOMAIN frame.nested[k].vars
               => after = IF having(n) = {} THEN before
                          ELSE Assigned(before, Min(having(n)), n, v)
     ]_debugVars
=============================================================================
