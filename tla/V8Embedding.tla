------------------------------ MODULE V8Embedding ------------------------------
(***************************************************************************)
(* The embedder and scripts calling each other (api.cc, v8.cc): the C++    *)
(* frames with their TryCatch blocks, the JavaScript frames that the API   *)
(* enters and the callbacks these make, one exception after the other      *)
(* crossing from one to the other, microtasks and the callbacks that fire  *)
(* when a call has completed.  Messages and termination are left out.      *)
(***************************************************************************)
EXTENDS Integers, Sequences, FiniteSets, SequencesExt

CONSTANTS Exceptions,      \* values that are thrown
          Callbacks,       \* call-completed callbacks of the embedder
          MaxStack, MaxTries, MaxTasks

\* "none" stands for no exception.
ASSUME ExceptionsAssumption == "none" \notin Exceptions

VARIABLES stack,       \* the frames, the embedder's own first
          scheduled,   \* scheduled_exception of the isolate, or "none"
          depth,       \* the call depth of the HandleScopeImplementer
          microtasks,  \* the microtasks queued since they were run last
          callbacks,   \* call_completed_callbacks_
          autorun,     \* autorun_microtasks
          bound,       \* the handler that each exception in flight is bound for
          astray,      \* the exceptions that ended at another handler
          due          \* whether a script that fires callbacks queued a microtask

embeddingVars == <<stack, scheduled, depth, microtasks, callbacks, autorun, bound, astray,
                   due>>

\* The frames: C++ with its TryCatch blocks, JavaScript with the innermost handler that is
\* still open and the exception its finally block holds, the loop over the microtasks and
\* the loop over the callbacks.
Cpp         == [kind |-> "cpp", tries |-> <<>>]
Js(call)    == [kind |-> "js", call |-> call, handler |-> "none", held |-> "none"]
Tasks(call) == [kind |-> "tasks", call |-> call, left |-> 0]
Firing      == [kind |-> "fire", next |-> 1]

TryCatch == [exception |-> "none", rethrow |-> FALSE]

top        == Last(stack)
Running(k) == top.kind = k
below      == stack[Len(stack) - 1]

microtask_pending == microtasks > 0
CallDepthIsZero   == depth = 0

EmbeddingInit ==
  /\ stack = <<Cpp>>
  /\ scheduled = "none"
  /\ depth = 0
  /\ microtasks = 0
  /\ callbacks = <<>>
  /\ autorun \in BOOLEAN
  /\ bound = [e \in Exceptions |-> "none"]
  /\ astray = {}
  /\ due = FALSE
-----------------------------------------------------------------------------
(* Exceptions.  A handler is a position: a frame, and a TryCatch in it or  *)
(* 0 for a handler of JavaScript.  <<0, 0>> is nobody.                     *)

Handlers(s) ==
  {<<i, 0>> : i \in {i \in DOMAIN s : \/ s[i].kind = "tasks"
                                      \/ s[i].kind = "js" /\ s[i].handler # "none"}}
  \cup UNION {{<<i, j>> : j \in DOMAIN s[i].tries} : i \in {i \in DOMAIN s : s[i].kind = "cpp"}}

Before(h, g) == h[1] < g[1] \/ (h[1] = g[1] /\ h[2] < g[2])

Innermost(s) == IF Handlers(s) = {} THEN <<0, 0>>
                ELSE CHOOSE h \in Handlers(s) : \A g \in Handlers(s) \ {h} : Before(g, h)

\* The last TryCatch is nearer than any handler of JavaScript.
IsExternallyCaught(s) == Innermost(s)[2] > 0

Propagate(s, e) ==
  LET h == Innermost(s)
  IN IF IsExternallyCaught(s) THEN [s EXCEPT ![h[1]].tries[h[2]].exception = e] ELSE s

InUse(e) == \/ scheduled = e
            \/ \E i \in DOMAIN stack :
                 \/ stack[i].kind = "js" /\ stack[i].held = e
                 \/ stack[i].kind = "cpp"
                    /\ \E j \in DOMAIN stack[i].tries : stack[i].tries[j].exception = e

\* The exception, bound for one handler, ends at another.
Ends(e, for, at) == /\ bound' = [bound EXCEPT ![e] = "none"]
                    /\ astray' = IF for = at THEN astray ELSE astray \cup {e}

\* Where the control is when a call returns to the frame on top of s without an exception:
\* at the innermost handler if it is there or there is none.
Reached(s) == LET h == Innermost(s) IN IF h[1] \in {0, Len(s)} THEN h ELSE <<Len(s), 0>>

\* s is the stack without the frame of the call.
OptionalRescheduleException(s, e, for, call_depth_is_zero) ==
  LET h     == Innermost(s)
      clear == \/ call_depth_is_zero
               \/ /\ IsExternallyCaught(s)
                  /\ \A i \in (h[1] + 1)..Len(s) : s[i].kind \notin {"js", "tasks"}
  IN IF clear
     THEN /\ scheduled' = "none"
          /\ Ends(e, for, Reached(s))
     ELSE /\ scheduled' = e
          /\ bound' = [bound EXCEPT ![e] = for]
          /\ UNCHANGED astray

\* Mutant: callbacks fire at the end of every call.
FireAtOnce(s, d) ==
  IF callbacks # <<>> THEN depth' = d + 1 /\ stack' = Append(s, Firing)
  ELSE depth' = d /\ stack' = s

\* Frames s, at call depth d, when a call has ended: the microtasks run before the callbacks.
FireCallCompletedCallback(s, d) ==
  LET run_microtasks == autorun /\ microtask_pending
  IN IF (callbacks # <<>> \/ run_microtasks) /\ d = 0
     THEN /\ depth' = d + 1
          /\ stack' = s \o <<Firing>> \o (IF run_microtasks THEN <<Tasks("fire")>> ELSE <<>>)
     ELSE depth' = d /\ stack' = s

EXCEPTION_BAILOUT_CHECK(s, call) ==
  IF call = "fires" THEN FireCallCompletedCallback(s, depth - 1)
  ELSE depth' = depth - 1 /\ stack' = s

\* The exception, bound for a handler, is thrown in the JavaScript frame on top of s.
Unwind(s, e, for) ==
  LET js   == Last(s)
      rest == Front(s)
      here == Len(s)
  IN CASE js.handler = "catch" ->
            /\ stack' = [s EXCEPT ![here].handler = "none"]
            /\ Ends(e, for, <<here, 0>>)
            /\ scheduled' = "none" /\ UNCHANGED depth
       [] js.handler = "finally" ->
            /\ stack' = [s EXCEPT ![here].handler = "none", ![here].held = e]
            /\ Ends(e, for, <<here, 0>>)
            /\ scheduled' = "none" /\ UNCHANGED depth
       [] js.handler = "none" /\ js.call = "task" ->
            /\ stack' = rest
            /\ Ends(e, for, <<here - 1, 0>>)
            /\ scheduled' = "none" /\ UNCHANGED depth
       [] OTHER ->
            /\ OptionalRescheduleException(rest, e, for, depth - 1 = 0)
            /\ EXCEPTION_BAILOUT_CHECK(Propagate(rest, e), js.call)

ScheduleThrow(s, e) ==
  /\ stack' = Propagate(s, e)
  /\ scheduled' = e
  /\ bound' = [bound EXCEPT ![e] = Innermost(s)]
-----------------------------------------------------------------------------
(* The embedder.                                                           *)

\* It calls nothing while it owes an exception to its caller.  What it calls from a
\* callback that fires, where no script waits for the exception, it calls in a TryCatch.
CanCall ==
  /\ Running("cpp")
  /\ scheduled = "none"
  /\ \A j \in DOMAIN top.tries : ~top.tries[j].rethrow
  /\ Len(stack) > 1 /\ below.kind = "fire" => top.tries # <<>>

\* An API function that enters JavaScript at its EXCEPTION_PREAMBLE.
EnterJavaScript(call) ==
  /\ CanCall
  /\ Len(stack) < MaxStack
  /\ depth' = depth + 1
  /\ stack' = Append(stack, Js(call))
  /\ UNCHANGED <<scheduled, microtasks, callbacks, autorun, bound, astray, due>>

\* Script::Run
RunScript == EnterJavaScript("fires")

\* Function::NewInstance and Function::Call
CallFunction == EnterJavaScript("fires")

\* Object::CallAsFunction and CallAsConstructor: an object that is no function first has
\* the function that stands for it looked up, which may throw, by a call that fires nothing.
CallObject == EnterJavaScript("silent") \/ EnterJavaScript("fires")

\* Object::Set, ForceSet, ForceDelete, Get
AccessProperty == EnterJavaScript("silent")

NewTryCatch ==
  /\ CanCall
  /\ Len(top.tries) < MaxTries
  /\ stack' = [stack EXCEPT ![Len(stack)].tries = Append(@, TryCatch)]
  /\ UNCHANGED <<scheduled, depth, microtasks, callbacks, autorun, bound, astray, due>>

\* The embedder rethrows when no other TryCatch of its frame would have it caught but
\* scheduled for its caller all the same.
ReThrow ==
  /\ CanCall
  /\ Len(top.tries) = 1 /\ Len(stack) > 1 /\ below.kind = "js"
  /\ top.tries[1].exception # "none"
  /\ stack' = [stack EXCEPT ![Len(stack)].tries[1].rethrow = TRUE]
  /\ UNCHANGED <<scheduled, depth, microtasks, callbacks, autorun, bound, astray, due>>

Reset ==
  /\ CanCall
  /\ top.tries # <<>>
  /\ Last(top.tries).exception # "none"
  /\ stack' = [stack EXCEPT ![Len(stack)].tries[Len(top.tries)].exception = "none"]
  /\ UNCHANGED <<scheduled, depth, microtasks, callbacks, autorun, bound, astray, due>>

\* Mutant: a TryCatch that rethrows is still registered then.
UnregisterNot(s) == s

\* UnregisterTryCatchHandler
Unregister(s) == [s EXCEPT ![Len(s)].tries = Front(@)]

DeleteTryCatch ==
  /\ Running("cpp") /\ top.tries # <<>>
  /\ LET try == Last(top.tries)
     IN IF try.rethrow THEN ScheduleThrow(Unregister(stack), try.exception)
        ELSE stack' = Unregister(stack) /\ UNCHANGED <<scheduled, bound>>
  /\ UNCHANGED <<depth, microtasks, callbacks, autorun, astray, due>>

\* A callback throws to the script that called it.
ThrowException ==
  /\ CanCall
  /\ top.tries = <<>> /\ Len(stack) > 1 /\ below.kind = "js"
  /\ \E e \in Exceptions : ~InUse(e) /\ ScheduleThrow(stack, e)
  /\ UNCHANGED <<depth, microtasks, callbacks, autorun, astray, due>>

\* A callback returns: to a script, which has the scheduled exception thrown, or to the
\* loop over the callbacks.
ReturnFromCallback ==
  /\ Running("cpp") /\ top.tries = <<>> /\ Len(stack) > 1
  /\ IF scheduled = "none"
     THEN stack' = Front(stack) /\ UNCHANGED <<scheduled, depth, bound, astray>>
     ELSE /\ below.kind = "js"     \* PromoteScheduledException
          /\ Unwind(Front(stack), scheduled, bound[scheduled])
  /\ UNCHANGED <<microtasks, callbacks, autorun, due>>

AddCallCompletedCallback ==
  /\ CanCall
  /\ \E c \in Callbacks :
       /\ \A i \in DOMAIN callbacks : callbacks[i] # c
       /\ callbacks' = Append(callbacks, c)
  /\ UNCHANGED <<stack, scheduled, depth, microtasks, autorun, bound, astray, due>>

RemoveCallCompletedCallback ==
  /\ CanCall
  /\ \E i \in DOMAIN callbacks : callbacks' = RemoveAt(callbacks, i)
  /\ UNCHANGED <<stack, scheduled, depth, microtasks, autorun, bound, astray, due>>

\* V8::RunMicrotasks, which asserts that no call is in progress.
RunMicrotasks ==
  /\ CanCall /\ CallDepthIsZero
  /\ microtask_pending
  /\ depth' = depth + 1
  /\ stack' = Append(stack, Tasks("counted"))
  /\ UNCHANGED <<scheduled, microtasks, callbacks, autorun, bound, astray, due>>

\* What is queued within a call that fires at its end, or while the microtasks run at its
\* end, has to run before the embedder is back.
EnqueueMicrotask ==
  /\ CanCall \/ Running("js")
  /\ microtasks < MaxTasks
  /\ microtasks' = microtasks + 1
  /\ due' = \/ due
            \/ /\ Len(stack) > 1
               /\ \/ stack[2].kind = "js" /\ stack[2].call = "fires"
                  \/ stack[2].kind = "fire" /\ Len(stack) > 2 /\ stack[3].kind = "tasks"
  /\ UNCHANGED <<stack, scheduled, depth, callbacks, autorun, bound, astray>>
-----------------------------------------------------------------------------
(* Scripts and the loops.                                                  *)

EnterTry ==
  /\ Running("js") /\ top.handler = "none" /\ top.held = "none"
  /\ \E h \in {"catch", "finally"} : stack' = [stack EXCEPT ![Len(stack)].handler = h]
  /\ UNCHANGED <<scheduled, depth, microtasks, callbacks, autorun, bound, astray, due>>

\* A new exception replaces the one that a finally block holds.
Throw ==
  /\ Running("js")
  /\ \E e \in Exceptions :
       /\ ~InUse(e)
       /\ Unwind([stack EXCEPT ![Len(stack)].held = "none"], e, Innermost(stack))
  /\ UNCHANGED <<microtasks, callbacks, autorun, due>>

\* The end of a finally block: %ReThrow.
EndFinally ==
  /\ Running("js") /\ top.held # "none"
  /\ Unwind([stack EXCEPT ![Len(stack)].held = "none"], top.held, Innermost(stack))
  /\ UNCHANGED <<microtasks, callbacks, autorun, due>>

\* A function that was called through an API function with a template calls the embedder.
CallEmbedder ==
  /\ Running("js")
  /\ Len(stack) < MaxStack
  /\ stack' = Append(stack, Cpp)
  /\ UNCHANGED <<scheduled, depth, microtasks, callbacks, autorun, bound, astray, due>>

ReturnFromScript ==
  /\ Running("js") /\ top.held = "none"
  /\ IF top.call = "task" THEN stack' = Front(stack) /\ UNCHANGED depth
     ELSE EXCEPTION_BAILOUT_CHECK(Front(stack), top.call)
  /\ UNCHANGED <<scheduled, microtasks, callbacks, autorun, bound, astray, due>>

Runtime_RunMicrotasks ==
  /\ Running("js")
  /\ Len(stack) < MaxStack
  /\ microtask_pending
  /\ stack' = Append(stack, Tasks("native"))
  /\ UNCHANGED <<scheduled, depth, microtasks, callbacks, autorun, bound, astray, due>>

\* The loop takes all microtasks that are pending: %SetMicrotaskPending(false).
TakeMicrotasks ==
  /\ Running("tasks") /\ top.left = 0
  /\ microtask_pending
  /\ stack' = [stack EXCEPT ![Len(stack)].left = microtasks]
  /\ microtasks' = 0
  /\ due' = FALSE
  /\ UNCHANGED <<scheduled, depth, callbacks, autorun, bound, astray>>

RunMicrotask ==
  /\ Running("tasks") /\ top.left > 0
  /\ Len(stack) <= MaxStack
  /\ stack' = Append([stack EXCEPT ![Len(stack)].left = @ - 1], Js("task"))
  /\ UNCHANGED <<scheduled, depth, microtasks, callbacks, autorun, bound, astray, due>>

EndMicrotasks ==
  /\ Running("tasks") /\ top.left = 0
  /\ ~microtask_pending
  /\ stack' = Front(stack)
  /\ depth' = IF top.call = "counted" THEN depth - 1 ELSE depth
  /\ UNCHANGED <<scheduled, microtasks, callbacks, autorun, bound, astray, due>>

\* The loop of FireCallCompletedCallback: the next callback, or the end.
NextCallback ==
  /\ Running("fire")
  /\ IF top.next <= Len(callbacks)
     THEN /\ stack' = Append([stack EXCEPT ![Len(stack)].next = @ + 1], Cpp)
          /\ UNCHANGED depth
     ELSE stack' = Front(stack) /\ depth' = depth - 1
  /\ UNCHANGED <<scheduled, microtasks, callbacks, autorun, bound, astray, due>>

EmbeddingNext ==
  \/ RunScript \/ CallFunction \/ CallObject \/ AccessProperty
  \/ NewTryCatch \/ ReThrow \/ Reset \/ DeleteTryCatch \/ ThrowException \/ ReturnFromCallback
  \/ AddCallCompletedCallback \/ RemoveCallCompletedCallback
  \/ RunMicrotasks \/ EnqueueMicrotask
  \/ EnterTry \/ Throw \/ EndFinally \/ CallEmbedder \/ ReturnFromScript
  \/ Runtime_RunMicrotasks \/ TakeMicrotasks \/ RunMicrotask \/ EndMicrotasks
  \/ NextCallback

EmbeddingSpec == EmbeddingInit /\ [][EmbeddingNext]_embeddingVars
-----------------------------------------------------------------------------
\* Every exception ends at the handler that was innermost when it was thrown, in C++ or in
\* JavaScript, with all frames above that one gone; one that is still in flight is what a
\* callback owes the script below it, and the handler it is bound for is below that.
InnermostHandlerCatches ==
  /\ astray = {}
  /\ scheduled # "none" =>
       /\ Running("cpp") /\ top.tries = <<>>
       /\ below.kind = "js"
       /\ bound[scheduled][1] < Len(stack)
  /\ \A e \in Exceptions \ {scheduled} : bound[e] = "none"

\* "The CallCompletedCallback is only invoked when the outer-most script execution ends.
\* Executing scripts inside the callback do not trigger further callbacks" (v8.h): the
\* callbacks fire right above the embedder's own frame and one at a time, the call depth
\* counts the calls in progress, and a microtask of a script that fires has run when the
\* embedder is back.
CallbacksWaitForOutermost ==
  /\ \A i \in DOMAIN stack : stack[i].kind = "fire" => i = 2
  /\ IsInjective(callbacks)
  /\ depth = Cardinality({i \in DOMAIN stack :
                            \/ stack[i].kind = "fire"
                            \/ stack[i].kind = "js" /\ stack[i].call \in {"fires", "silent"}
                            \/ stack[i].kind = "tasks" /\ stack[i].call = "counted"})
  /\ autorun /\ due => Len(stack) > 1
=============================================================================
