------------------------------ MODULE V8Functions -----------------------------
(***************************************************************************)
(* What V8's runtime does when functions are called, bound, suspended and  *)
(* resumed (runtime.cc): arguments objects, Function.prototype.bind and    *)
(* calls of bound functions, generators.                                   *)
(*                                                                         *)
(* The three share no state; generated code, which calls these functions,  *)
(* is external.  The value of a variable or an element is a member of      *)
(* Values, and an operand stack is a sequence of them.                     *)
(***************************************************************************)
EXTENDS Integers, Sequences, FiniteSets, FiniteSetsExt, SequencesExt

CONSTANTS Parameters,  \* names of parameters
          Values,
          Generators,  \* generator objects
          MaxArguments, MaxBound, MaxOperands

VARIABLES activation,  \* the call whose arguments object is looked at
          bindings,    \* the bindings of the bound functions, in the order they were made
          generators,  \* the generator objects
          frames,      \* the activations of generators, the current one last
          \* What the program did, to compare with:
          written,     \* the values the arguments should have
          binds,       \* the calls of bind
          suspended    \* the operands and the handler each generator was suspended with

functionVars == <<activation, bindings, generators, frames, written, binds, suspended>>

Undefined == "undefined"
Hole      == "hole"

UpTo(S, n) == BoundedSeq(S, n)
-----------------------------------------------------------------------------
(***************************************************************************)
(* Arguments objects.  An element of a sloppy one is in the array of       *)
(* arguments or, when the parameter map says so, in the context slot of a  *)
(* parameter: the map holds the parameter's name for the slot's index.     *)
(***************************************************************************)
ContextOf(params, args) ==
  [p \in ToSet(params) |->
     LET i == Max({k \in DOMAIN params : params[k] = p})
     IN IF i <= Len(args) THEN args[i] ELSE Undefined]

\* Mutant: duplicates are looked for among the parameters that got an argument.
DuplicatePassed(params, args, i) ==
  \E j \in i + 1..Min({Len(args), Len(params)}) : params[j] = params[i]

Duplicate(params, args, i) == \E j \in i + 1..Len(params) : params[j] = params[i]

NewSloppyArguments(params, args) ==
  LET mapped_count == Min({Len(args), Len(params)})
      Aliased(i)   == i <= mapped_count /\ ~Duplicate(params, args, i)
  IN [map       |-> [i \in 1..mapped_count |-> IF Aliased(i) THEN params[i] ELSE Hole],
      arguments |-> [i \in DOMAIN args |-> IF Aliased(i) THEN Hole ELSE args[i]],
      context   |-> ContextOf(params, args)]

NewStrictArguments(params, args) ==
  [map |-> <<>>, arguments |-> args, context |-> ContextOf(params, args)]

Mapped(a, i) == i \in DOMAIN a.map /\ a.map[i] # Hole

GetElement(a, i) ==
  CASE i \notin DOMAIN a.arguments -> Undefined
    [] Mapped(a, i)                -> a.context[a.map[i]]
    [] OTHER                       -> a.arguments[i]

\* The arguments object of a function that has none allocated: the arguments are read
\* from the frame.  key is [index |-> i] or [name |-> s]; what is neither an argument nor
\* "length" or "callee" is looked up in the initial Object.prototype.
GetArgumentsProperty(args, strict, key) ==
  CASE key \in [index : DOMAIN args] -> args[key.index]
    [] key = [name |-> "length"]     -> Len(args)
    [] key = [name |-> "callee"]     -> IF strict THEN "strict_arguments_callee" ELSE "callee"
    [] OTHER                         -> Undefined

Enter(params, args, strict) ==
  /\ activation' = [params |-> params, strict |-> strict,
                    object |-> IF strict THEN NewStrictArguments(params, args)
                               ELSE NewSloppyArguments(params, args)]
  /\ written' = args

\* Runtime_Call: the arguments are the ones on the stack.
Call(params, args, strict) ==
  /\ activation = <<>>
  /\ Enter(params, args, strict)
  /\ UNCHANGED <<bindings, generators, frames, binds, suspended>>

\* Runtime_Apply with an arguments object: argc elements from offset on.
Apply(params, offset, argc) ==
  /\ activation # <<>>
  /\ Enter(params, [i \in 1..argc |-> GetElement(activation.object, offset + i)], FALSE)
  /\ UNCHANGED <<bindings, generators, frames, binds, suspended>>

\* Stores by the program, to a parameter and to an element of its arguments object.
StoreParameter(p, v) ==
  /\ activation # <<>> /\ p \in ToSet(activation.params)
  /\ activation' = [activation EXCEPT !.object.context[p] = v]
  /\ LET last == Max({k \in DOMAIN activation.params : activation.params[k] = p})
     IN written' = IF activation.strict \/ last > Len(written) THEN written
                   ELSE [written EXCEPT ![last] = v]
  /\ UNCHANGED <<bindings, generators, frames, binds, suspended>>

StoreArgument(i, v) ==
  /\ activation # <<>> /\ i \in DOMAIN written
  /\ activation' = IF Mapped(activation.object, i)
                   THEN [activation EXCEPT !.object.context[activation.object.map[i]] = v]
                   ELSE [activation EXCEPT !.object.arguments[i] = v]
  /\ written' = [written EXCEPT ![i] = v]
  /\ UNCHANGED <<bindings, generators, frames, binds, suspended>>
-----------------------------------------------------------------------------
(***************************************************************************)
(* Bound functions.  Function 0 is the only one that is not bound.         *)
(***************************************************************************)
Callee == 0

Bound(f) == f \in DOMAIN bindings

\* Mutant: the arguments of the new binding come before the old ones.
BindingsReversed(bindee, this, args) ==
  IF Bound(bindee)
  THEN [bindings[bindee] EXCEPT !.arguments = args \o @]
  ELSE [function |-> bindee, this |-> this, arguments |-> args]

\* What is bound to a bound function is added to its bindings: its target and its
\* receiver stay.
Bindings(bindee, this, args) ==
  IF Bound(bindee)
  THEN [bindings[bindee] EXCEPT !.arguments = @ \o args]
  ELSE [function |-> bindee, this |-> this, arguments |-> args]

FunctionBindArguments(bindee, this, args) ==
  /\ Len(bindings) < MaxBound
  /\ bindings' = Append(bindings, Bindings(bindee, this, args))
  /\ binds' = Append(binds, [of |-> bindee, this |-> this, arguments |-> args])
  /\ UNCHANGED <<activation, generators, frames, written, suspended>>

BoundFunctionGetBindings(f) == IF Bound(f) THEN bindings[f] ELSE Undefined

\* new of a bound function: its bound arguments, then the caller's, on its target.
NewObjectFromBound(f, args) ==
  [function |-> bindings[f].function, arguments |-> bindings[f].arguments \o args]
-----------------------------------------------------------------------------
(***************************************************************************)
(* Generators.  The continuation is where to go on: 0 is closed, Executing *)
(* (-1) running, and the rest a place in the code.                         *)
(***************************************************************************)
Closed    == 0
Executing == -1
NoHandler == [operands |-> <<>>, handler |-> -1]

\* A generator's activation: its operands and the index of its innermost handler.
Frame(g, saved) == [generator |-> g, saved |-> saved]
Current == Last(frames)

\* The new generator, closed, is suspended at once at its initial yield, with no operands.
CreateJSGeneratorObject(g) ==
  /\ g \notin DOMAIN generators
  /\ generators' = [h \in DOMAIN generators \cup {g} |->
                      IF h = g THEN [continuation |-> 1, saved |-> NoHandler]
                      ELSE generators[h]]
  /\ suspended' = [h \in DOMAIN suspended \cup {g} |->
                      IF h = g THEN NoHandler ELSE suspended[h]]
  /\ UNCHANGED <<activation, bindings, frames, written, binds>>

\* The generator computes: its operand stack becomes any that has room for its handler.
Compute(operands, handler) ==
  /\ frames # <<>>
  /\ handler < Len(operands)
  /\ frames' = [frames EXCEPT ![Len(frames)].saved =
                                 [operands |-> operands, handler |-> handler]]
  /\ UNCHANGED <<activation, bindings, generators, written, binds, suspended>>

\* The two uppermost operands, the value yielded and the argument of this call, are not
\* in the model's operands and not saved; nothing is saved of an empty stack.
SuspendJSGeneratorObject ==
  /\ frames # <<>>
  /\ LET g     == Current.generator
         saved == Current.saved
     IN /\ generators' = [generators EXCEPT ![g] =
                            [continuation |-> 1,
                             saved |-> IF saved.operands = <<>> THEN @.saved ELSE saved]]
        /\ suspended' = [suspended EXCEPT ![g] = saved]
  /\ frames' = Front(frames)
  /\ UNCHANGED <<activation, bindings, written, binds>>

\* Mutant: the saved operands stay in the generator.
ForgetSavedNot(saved) == saved

ForgetSaved(saved) == NoHandler

\* Both modes, next and throw: after a throw the handler, if there is one, goes on, and
\* the generator is left if there is none.
ResumeJSGeneratorObject(g, throw) ==
  /\ g \in DOMAIN generators /\ generators[g].continuation > 0
  /\ LET saved == generators[g].saved
         leaves == throw /\ saved.handler = -1
     IN /\ generators' = [generators EXCEPT ![g] =
                            [continuation |-> IF leaves THEN Closed ELSE Executing,
                             saved |-> ForgetSaved(@.saved)]]
        /\ frames' = IF leaves THEN frames ELSE Append(frames, Frame(g, saved))
  /\ UNCHANGED <<activation, bindings, written, binds, suspended>>

\* The end of the generator's code (generated code marks it closed).
ReturnFromGenerator ==
  /\ frames # <<>>
  /\ generators' = [generators EXCEPT ![Current.generator].continuation = Closed]
  /\ frames' = Front(frames)
  /\ UNCHANGED <<activation, bindings, written, binds, suspended>>

ThrowGeneratorStateError(g) ==
  IF generators[g].continuation = Closed THEN "generator_finished" ELSE "generator_running"
-----------------------------------------------------------------------------
FunctionsInit ==
  /\ activation = <<>> /\ written = <<>>
  /\ bindings = <<>> /\ binds = <<>>
  /\ generators = [g \in {} |-> 0] /\ suspended = [g \in {} |-> 0]
  /\ frames = <<>>

\* One of the three at a time: they share nothing.
ArgumentsNext ==
  /\ bindings = <<>> /\ generators = [g \in {} |-> 0]
  /\ \/ \E params \in UpTo(Parameters, MaxArguments), args \in UpTo(Values, MaxArguments),
           strict \in BOOLEAN : Call(params, args, strict)
     \/ \E params \in UpTo(Parameters, MaxArguments), offset \in 0..1,
           argc \in 0..MaxArguments : Apply(params, offset, argc)
     \/ \E p \in Parameters, v \in Values : StoreParameter(p, v)
     \/ \E i \in 1..MaxArguments, v \in Values : StoreArgument(i, v)

BindNext ==
  /\ activation = <<>> /\ generators = [g \in {} |-> 0]
  /\ \E bindee \in 0..Len(bindings), this \in Values, args \in UpTo(Values, 2) :
       FunctionBindArguments(bindee, this, args)

GeneratorsNext ==
  /\ activation = <<>> /\ bindings = <<>>
  /\ \/ \E g \in Generators :
          \/ CreateJSGeneratorObject(g)
          \/ \E throw \in BOOLEAN : ResumeJSGeneratorObject(g, throw)
     \/ \E operands \in UpTo(Values, MaxOperands), handler \in -1..MaxOperands - 1 :
          Compute(operands, handler)
     \/ SuspendJSGeneratorObject
     \/ ReturnFromGenerator

FunctionsNext == ArgumentsNext \/ BindNext \/ GeneratorsNext
-----------------------------------------------------------------------------
\* Whatever is stored in parameters and elements, an arguments object reads as it should:
\* the last parameter of a name, and no other, is the element at its place.  The frame
\* holds the same arguments.
ArgumentsFollow ==
  activation # <<>> =>
    /\ \A i \in 1..MaxArguments + 1 :
         GetElement(activation.object, i) = IF i \in DOMAIN written THEN written[i]
                                            ELSE Undefined
    /\ DOMAIN activation.object.arguments = DOMAIN written
    /\ LET fresh == IF activation.strict THEN NewStrictArguments(activation.params, written)
                    ELSE NewSloppyArguments(activation.params, written)
       IN \A i \in 1..MaxArguments + 1 :
            GetArgumentsProperty(written, activation.strict, [index |-> i])
              = GetElement(fresh, i)

\* The meaning of nested calls of bind: the innermost target and receiver, and all the
\* arguments, the innermost first.
Unfolded[f \in 1..MaxBound] ==
  IF binds[f].of = Callee
  THEN [function |-> Callee, this |-> binds[f].this, arguments |-> binds[f].arguments]
  ELSE [Unfolded[binds[f].of] EXCEPT !.arguments = @ \o binds[f].arguments]

\* Bindings are flat: a bound function's target is never bound, and calling or
\* constructing with it is what the nested calls of bind mean.
BindingsAreFlat ==
  \A f \in DOMAIN bindings :
    /\ ~Bound(bindings[f].function)
    /\ BoundFunctionGetBindings(f) = Unfolded[f]
    /\ \A args \in UpTo(Values, 1) :
         NewObjectFromBound(f, args) =
           [function |-> Callee, arguments |-> Unfolded[f].arguments \o args]

\* A generator has at most one activation, it has one only while it says so, and it goes
\* on, once, with the operands and the handler it was suspended with.
GeneratorsResumeAsSuspended ==
  /\ \A i, j \in DOMAIN frames : frames[i].generator = frames[j].generator => i = j
  /\ \A i \in DOMAIN frames :
       ThrowGeneratorStateError(frames[i].generator) = "generator_running"
       /\ generators[frames[i].generator].continuation = Executing
  /\ \A g \in DOMAIN generators :
       generators[g].continuation > 0 => generators[g].saved = suspended[g]
=============================================================================
