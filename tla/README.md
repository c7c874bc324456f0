# WebCapsule: a verification development

WebCapsule records what a user does in a Chromium renderer — input, page loads,
network traffic, clock readings, random numbers — and replays it. This directory
holds TLA+ models of its own logic, which lives in Blink's inspector and in V8, and
of the V8 runtime and API whose files it changes (`runtime.cc`, `api.cc`, `v8.cc`);
TLC runs on small instances; and TLAPS proofs for all instances. Paths below are
relative to `src/src/third-party/WebKit/Source/core/inspector/` unless they start
with `src/`.

## 1. Inventory

### Components, their state and operations

| component | state it keeps | operations | model |
|---|---|---|---|
| **forensics agent** `InspectorForensicsAgent`, one per page | `m_recording`, `m_replaying`, the state token `m_stateId`, pointers to store and recorder; statics: one platform wrapper and frontend for the whole renderer | start/stop recording, start/stop replay, dump, load, restore; some twenty hooks that record page events and navigations | `ForensicSession`, `SelfHealing` |
| **state wrapper** `ForensicInspectorStateWrapper` | none: reads the agent's `InspectorState` | `recording`, `replaying`, with or without a token | `ForensicSession` |
| **web events** `Forensic*Event` | kind, timestamp, state (Ready, Injected, Cancelled, Diverged, Failed), payload | state changes, `accept`, serialise | `ForensicSession`, `SelfHealing` |
| **event injector** `ForensicEventInjector` | pointers to page, client, agent, loader | a `visit` per kind; self-healing by URL aliases | `ForensicSession`, `SelfHealing` |
| **injector task** `ForensicEventInjectorTask`, `DelayedEventInjectionPair` | the events of one replay or one load, the times it began, speed; per pair the token | `runUndelayed`, `runDelayed`, a pair's `run` | `ForensicSession`, `ForensicRequests` |
| **data store** `ForensicReplayDataStore`, `ForensicReplayData` | the event vector; request and redirect maps; some twenty recorded-value vectors and maps, each with a cursor; the requests of pages | append, next, clear, reset, (de)serialise | events in `ForensicSession`; request and redirect maps in `ForensicRequests`; recorded answers in `ReplayData`; page requests in `SelfHealing` |
| **request assembler** `ForensicRequestAssembler` | pending loads by client; stack traces by header; URL aliases; requests by page URL | init, response, data, redirect, finish, fail, clear | `ForensicRequests`; aliases in `SelfHealing` |
| **URL loader** `ForensicWebURLLoader` | recorder *or* store, the wrapped loader, its client, the events of its replayed load | load (sync, async), cancel, the callbacks of a load | `ForensicRequests` |
| **platform wrapper** `ForensicPlatformWrapper` | wrapped platform, store, recorder, one state wrapper | the platform calls that are recorded and replayed; the clock | loaders in `ForensicRequests`; `ReplayClock`, `ReplayData` |
| **clipboard** `ForensicWebClipboard` | as above | seven reads | `ReplayData` |
| **V8 instrumentation** `src/src/v8/src/platform-instrumentation.cc` | OFF/RECORDING/REPLAYING; value vectors by stack trace, each with a cursor | start, stop, dump, load; `Date` and `Math.random` | state in `ForensicSession`; values in `ReplayClock` |
| **V8 runtime** `src/src/v8/src/runtime.cc` | the heap of scripts: contexts, objects, code, buffers, caches | the functions that compiled and built-in code calls | the modules `V8*` but the next two |
| **V8 API** `src/src/v8/src/api.cc`, `v8.cc` | handle blocks, entered contexts, scheduled exceptions, microtasks, callbacks | what the embedder (Blink, and WebCapsule in it) calls | `V8Embedding`, `V8Handles`, `V8Utf8`, `V8Buffers` |
| **devtools client** `src/devtools_client/*.py` | a recording in a file; offloaded chunks | commands over a web socket, assembly of chunks | its commands |

### How they interact

The devtools client gives an agent a command. An agent that starts to record
clears the recorder, notes the start, clears the cache and reloads the page. Its
hooks then append events to the store while the platform wrapper, the URL loaders
and V8 append what the page reads from outside. `startReplay` resets the store
and posts one injector task with the store's events. The task computes a delay
for each event and posts one pair per event; a pair that fires visits its event,
which puts it back into the page — or, when its token is no longer the agent's,
cancels it. The stop event at the end of the store ends the replay. Event objects
are shared by reference between the store, the tasks and the pairs. An agent's
flags are mirrored in its `InspectorState`, which survives the renderer, and
through which tasks, pairs, wrapper and loaders learn the mode.

### What is hard here

* **Ordering and interleaving.** Tasks, pairs, commands and hooks are taken from
  one message loop; pairs of a stopped replay stay in the loop when the next one
  begins, on the same event objects. `PROJECT.json` lists these hazards by line.
* **Time.** Delays come from a moving clock, are cut to whole milliseconds, are
  scaled, and are computed when the task gets to run and not when it is posted.
* **Two half-recordings.** Blink's and V8's halves are started, stopped, dumped
  and loaded by separate calls.
* **Shared statics.** The agents of all pages of a renderer share one wrapper,
  one store, one V8 state.
* **Mode changes under a load.** A URL loader asks for the mode at every step of
  a load; a recording may begin or end in between.
* **A new renderer.** Flags are restored, pointers are not.
* **Values and cursors.** Each kind of answer is a list that recordings fill, replays
  walk through, dumps copy and new recordings clear; a page that asks at another
  time, or more often, must still be told something that makes sense.
* **Lost pages.** A replayed page may end up elsewhere than the recorded one; it is
  led back along aliases that redirects and scripts set at any time.
* **V8.** Deoptimisation while a compiler thread works, code called back from in the
  middle of an update, copies of a frame's variables, buffers that go away under
  their views, exceptions across two languages, integers and lengths at their limits.

## 2. Modules

| module | what it is |
|---|---|
| `SessionMode` | abstract: what one agent promises its user |
| `ForensicSession` | the agents, the event store, tasks, pairs, V8's state |
| `MCForensicSession` | instances of it for TLC |
| `ForensicSessionProofs` | theorems about it |
| `LoadProtocol` | abstract: what the client of URL loaders may be told |
| `ForensicRequests` | URL loaders, the recorder's pending loads, the request and redirect maps |
| `MCForensicRequests` | instances of it for TLC |
| `RequestsProofs`, `FaithfulReplayProofs` | theorems about it; the second is about whole replays |
| `ReplayData` | recorded answers of platform and clipboard |
| `ReplayClock` | dates and random numbers in V8, the clock in Blink |
| `ReplayedValuesProofs` | theorems about these two |
| `SelfHealing`, `SelfHealingProofs` | URL aliases, the requests of pages, forced loads; theorems about them |
| `MCReplayParts` | `ReplayData`, `ReplayClock` and `SelfHealing`, one at a time, for TLC |
| `NumberLemmas` | least numbers, induction and recursion up to a number, for the proofs |
| `V8Scopes`, `V8Objects`, `V8Functions`, `V8Tiers`, `V8Debug`, `V8Buffers`, `V8Cache`, `V8Literals` | machines of V8's runtime |
| `V8Embedding`, `V8Handles` | machines of V8's API |
| `V8Arrays`, `V8Strings`, `V8Utf8`, `V8Numbers` | functions of V8's runtime and API, with the definitions of ECMAScript 5.1 and `v8.h` next to them |
| `V8Proofs` | theorems about `V8Tiers`, `V8Cache`, `V8Scopes` and `V8Buffers` |
| `V8EmbeddingProofs` | theorems about `V8Handles` and `V8Embedding` |
| `MCRuntime` | the V8 modules for TLC: one machine, or one call, per behaviour |

A definition introduced by "Mutant:" is a plausible wrong version of the definition
after it; no specification uses it.

### `ForensicSession`

One action is one task of the renderer's main thread: a devtools command, a hook,
an injector task, a pair. State and code correspond as the comment on each
VARIABLE says; a few need more:

* `events`, `created`, `store`: event objects are numbers `1..created`; `store` is
  `m_events`, a sequence of them. Loading a file makes new objects.
* An event has a `tick`, its time in the resolution at which delays are told
  apart (about a millisecond), and `seq`, its place among the clock readings of
  its recording, which is what `std::sort` by timestamp sees.
* `tasks` is a queue, because tasks are posted without a delay. `pairs` are posted
  with one: `Fires` lets the earliest due fire, undelayed ones in the order they
  were posted, delayed ones of the same tick in any order, since each delay is
  cut to whole milliseconds from its own clock reading.
* `RunDelayed` is one action, and time passes in it. The loop looks at the clock twice
  per event, in the order of their timestamps: to work out the delay
  (`ForensicEventInjectorTask.cpp:119`, `ReadAt`) and when the delay is added to the time
  of posting (`:126`, `PostedAt`). `held` says after which of these looks each tick
  passes, up to `MaxHold` of them, so that every delay is computed at a time of its own
  and counts from another.
* `Visited` and `After` are the guard and the outcome of the injector's visits:
  a history item is injected whatever its state; an input event stays Ready; a
  menu change fails when no form control is focused.
* Two history variables, which no action reads: `shown`, how often the current replay of
  an agent has injected an event; `lag`, the longest time that one of its tasks took to
  post its pairs.
* `LoadRecording` covers a load that interrupts a recording; `LoadIgnored` one
  during a replay, which only makes the store if there was none.
* `SwapRenderer` is `reuseFrontend` after the process was replaced: everything is
  gone but what the `InspectorState` cookie holds and the client's file.

The user events have the kinds `scroll`, `input`, `history` and `menu`, one for
each way a visit can treat an event; mouse, key and touch input, resizes and
autofill fall under one of them.

### `SessionMode` and the refinement

`SessionMode` knows a mode, a token and what was shown. `ForensicSession` implements
it for each agent `a` under `mode <- Mode(a)`, `token <- stateId[a]`,
`shown <- shown[a]` (`ImplementsModes`): the initial states agree, and every step is
a step of `SessionMode` or a stutter, so a mode never changes without a new token
and nothing is injected outside a replay.

### `ForensicRequests` and `LoadProtocol`

One action is one call of a client (start a load, cancel it), one callback of the
platform's loader, or one task of the message loop. Of the agent it keeps the mode
and the token, which change by `SessionMode`'s actions; `ForensicSession`
implements that module, and this is what joins the two models.

* A request is what `WebURLRequestHash` tells apart: a member of `Requests`. What a
  load was answered with is the number of the recorded load, `NoContent` for the
  204 that is made up for a missing request.
* `pending` is `m_pendingMap`, by client *address*: an entry survives the load that
  made it. `requestMap` and `redirectMap` hold a sequence per request, `requestAt` and
  `redirectAt` are the `m_index` of each value.
* `load[c]` is the last load of client `c`. Its `view` is what the client was told;
  `plan` are the events of a replayed load that are still Ready; `posted` says what
  its loader has in the message loop (the task, the undelayed task for a missing
  request, or the pairs).
* `Chain` is `createRedirectEvents`, `Recognised`/`Matching` is `findMatchingRequest`
  with its choice by time left open; `MatchingTerminal` is the same with the mask
  that synchronous loads give.
* `Told` includes what the client, `ResourceLoader`, does when a load ends: it lets
  go of the loader by cancelling it. A cancel in the midst of a callback is a
  cancel right after it.
* A step whose assertion would fail has no successor: the program ends there, with
  or without the assertion, since a null pointer is behind it.
* There is no clock. The pairs up to the response have no delay and keep their
  order; those of data and end may fire in either (hazard
  `ForensicWebURLLoader.cpp:306`).
* `log`, `reliable`, `following`, `handed` and `load[c].like` are history: which loads a
  recording had, and which of them a replayed load repeats.

`LoadProtocol` is what `ResourceLoader` (`../fetch/ResourceLoader.cpp`) insists on with
`RELEASE_ASSERT`s: redirects, one answer, data, one end, nothing afterwards. The
network keeps to it by assumption; that recordings do, however they are
interrupted, is `KeepsProtocol`, with `view <- ViewOf(c)` for every client.


### `ReplayData`, `ReplayClock`, `SelfHealing`

One action is one call of the page, or one command.

* `ReplayData`: `lists` is the family of the store's maps, a list of answers and an
  `index` per key. What distinguishes the calls is what a replay does when
  the list is missing or used up; this is a call's `Policy`, and `MCReplayParts` has
  one call of each. A reply is `Aborted` when an assertion of the code fails there, or
  a null pointer is followed. Output parameters are part of the key of two clipboard
  reads, in the recording as the platform left them, in the replay as the caller
  passed them.
* `ReplayClock`: `times` and `rands` are `currentTimeMap` and `mathRandomMap`, by stack
  trace; `readings` is Blink's list. Time is counted in ticks, `PerMilli` to the
  millisecond to which dates are cut. A page asks for so many values of each kind
  (`Pages`), at any times.
* `SelfHealing`: the main frame's URL and the load under way in it, the aliases, the
  requests by URL with their `isConsumed` flags, and the events that load a page or
  belong to one. `Redirect`, `FragmentNavigation`, `SameDocumentNavigation`,
  `HistoryNavigation` and `FrameLoad` are what a page does; `Inject...` are the visits.
  A forced load is under way when its visit returns, and commits or comes to nothing
  later. A search for the root of a chain that does not end has no successor. `doubt`
  is history: why the place of an event's request may be that of another page — an
  alias was replaced, or its URL was loaded too, or a load was under way or had come
  to nothing. Redirects of subresources, which set aliases too, and commands of the
  browser that navigate without these hooks are left out.

### The V8 modules

One action is one call of a runtime or API function, or one step of what is outside
them (the compiler's thread, the collector, the program). Each comment at the head of
a module says what of V8 is external to it and what is left out. Widths and limits
are constants or definitions of the instance: integers of 8 bits in `V8Numbers`,
slices of two bits in `V8Strings`, two entries in `V8Cache`, blocks of two handles in
`V8Handles`. Where a property compares with ECMAScript 5.1, the definitions with `ES5`
in their names are taken from that standard and not from the code.

* `V8Scopes`: a chain of contexts, each with slots and an extension object; the
  global object is the extension of the native context. What a slot or a property holds
  may be the hole, what a script computes may not (`ScopesAssumption`). As in the code,
  `LoadContextSlot` answers most slots as they are, and only a legacy const's through
  `Unhole`. A function's own name is a slot that declarations do not find.
  Initialisations are not tied to their declarations: compiled code declares first, and
  the properties hold without this.
* `V8Objects`: an object, hidden prototypes that count as parts of it, the global
  proxy; an access check may refuse any kind of access.
* `V8Functions`: an arguments object next to the context that holds the parameters;
  bindings; generator objects and the activations of their functions.
* `V8Tiers`: the code of each closure of one function, the queue of the compiler's
  thread, the cache of optimised codes, what was marked for deoptimisation. The
  compiler fails or succeeds at any time.
* `V8Debug`: a frame of a function stopped at a break, with the values on its stack,
  in its context, in its extension and in scopes nested in it.
* `V8Buffers`: buffers, the memory they own or do not, the weak list of each one's
  views; bytes are kept, so that copies can be compared.
* `V8Cache`: a cache whose factory function may call it again, and a collection that
  clears it meanwhile.
* `V8Literals`: per closure and literal what the compiler left, the boilerplate, the
  copies, and which of them share a store.
* `V8Embedding`: the stack of C++ and JavaScript frames with their handlers, the
  scheduled exception, the depth of calls, microtasks and callbacks.
* `V8Handles`: blocks of slots; `next`, `limit` and the spare block; scopes, threads
  archived and restored, detached handles.

## 3. Runs

| run | question | result |
|---|---|---|
| `replay` | one page; recordings made and loaded; replays at speeds 0 and 2, stopped and begun again, by tasks that may be held up while they post: are events injected in order and once, and none passed over, are recordings closed, do V8 and Blink agree? | holds |
| `pipeline` | recorded, then replayed once, at speeds 0, 1 and 2, by a task that may be held up: is the replay complete, does it end? | holds, with fairness |
| `two_pages` | two pages, one renderer, replaced once: do modes, tokens and InspectorState agree, does the store stay replayable, is `SessionMode` implemented? | holds |
| `cancelled` | does a pair of a past replay cancel "for informational completeness" only? | violated |
| `restored` | has an agent in a mode the recorder and store the hooks assert? | violated |
| `requests` | one client, two requests, redirects, stack traces: is a page that asks what it asked led and answered as it was; is any answer handed out twice? | holds |
| `loaders` | two clients of two pages, overlapping loads, modes that change under them: is what is pending what the client was told, is `LoadProtocol` implemented, does a replayed load end? | holds, with fairness |
| `pending` | does a recorded callback find its client's entry, as is asserted? | violated |
| `ignored` | do load events "take no account" of the agent's state? | violated |
| `parts` | recorded answers, dates and random numbers, the clock, lost pages: is a replayed page told what the recorded one was, when may it be aborted, are dates exact in time and never stale, does Blink's clock go forward, is a page brought back by its own request, once? | holds |
| `aliases` | does the search over aliases end on circular chains, as its comment says? | violated |
| `runtime` | V8: see below | holds |

The type invariants are proved, for the modules about WebCapsule and for the machines of
V8 with theorems (section 4), and in no run.

`FirstInjectionsInOrder` and `OneShotEventsOnce` are about what the tokens do *not*
prevent: a replay stopped and begun again before its task ran leaves two tasks
whose pairs carry the same, current token. Single injection survives for every kind
that asks for Ready. Order survives for events recorded further apart than the tasks
of the replay took to post their pairs (`WellBefore`, which adds `lag`); `NothingSkipped`
and `ReplayIsComplete` allow for the same. They must. At speed *s* an event whose
recorded place in the replay is *T* and whose delay is read at *n* falls due *sT* − (*s* − 1)*n*, so at speed 2
a late reading alone brings an event forward, and at any speed a tick between reading
and posting puts one off. Compared by their ticks, without the allowance, TLC finds two
events in the wrong order with `MaxHold` 1. The code does nothing against this.
`InstrumentationInSync` is checked with one page: with two it is false by design,
one page's commands switch the other's instrumentation (hazard
`InspectorForensicsAgent.cpp:69`).

The properties of `runtime`, each of one machine or of the calls:

| property | what it says |
|---|---|
| `HoleNeverEscapes`, `ConstantsStay` | no load of a variable returns the hole, and it is only in slots and properties where loads look for it (the assertions of `LoadContextSlot` hold); an initialised const keeps its value, whatever `eval`, `with` and `delete` do around it |
| `QueriesAgree` | the functions that list names, test for one and load it agree on what an object has |
| `QueuedHasJob`, `GivenUpCodeIsGone` | no closure waits for a job that is gone; code that bailed out is not in the cache, and no closure has code marked for deoptimisation |
| `ValuesArrive` | arguments objects, bound functions and generators hand on the values they were given |
| `InspectionIsTruthful`, `OneVariableChanges` | the debugger shows what the frame has, and changes the variable it was told to |
| `ViewsStayWithinBuffers`, `CopiesAreOfTheOld` | no view reaches beyond its buffer; a copy is of what was there before |
| `ArraysAreES5`, `StringsAreRight`, `NumbersAreES5` | fast and slow paths return what the standard (or `v8.h`) says |
| `CacheIsConsistent` | the cache holds what it was asked for, also after re-entrant use |
| `InnermostHandlerCatches`, `CallbacksWaitForOutermost` | exceptions end where they are bound for; microtasks and callbacks fire when the outermost call has ended |
| `HandlesAreRoots` | the collector visits the live handles' slots and no others |

### What the violations show

1. **`cancelled`** — start, stop, start: a pair of the first replay fires, finds its
   token stale and sets its event to Cancelled. The event belongs to the second
   replay as well, whose visit then passes it by. When it is the stop event, that
   replay never ends. This is why `ReplayIsComplete` and `ReplayEnds` are
   stated for one replay per set of event objects (run `pipeline`, `MaxToken = 3`).
2. **`restored`** — the flags come back in a new renderer, the recorder does not.
3. **`pending`** — `startRecording` clears the pending loads and reloads its own page
   only. A load of another page, or its like from an earlier recording, is called
   back while the agent records again: no entry. `PendingIsWhatWasTold` is
   therefore about loads that began in the recording under way.
4. **`ignored`** — the task of a replayed load ignores the agent's state, its pairs
   do not: when the replay stops, the client hears no more. `ReplayedLoadsEnd`
   says "unless its replay does before" for this reason.
5. **`aliases`** — redirects a→b, b→a, a→c leave the aliases b→a, a→b, c→a. From c the
   search goes round a and b and never meets c, the only URL it is compared with.

### What the properties except

The code does less than it might seem to; the properties say where they stop short.

* `FaithfulReplay` is about reliable recordings: one load at a time, each to its end,
  no request redirected once and answered another time. The store keeps, per
  request, the order in which loads *ended*, and hands out in the order in which
  they *begin*; and it looks for redirects before answers. For other recordings the
  model has counterexamples at once, and the code makes no claim. A synchronous
  request, which is never redirected (`ForensicWebURLLoader.cpp:121`), may all the same
  be matched to a redirected one: the search starts with the first entry, whatever
  its kind (`ForensicReplayDataStore.cpp:191`).
* `ReadsAreFaithful` leaves out memory sizes, which are not replayed, the locale, whose
  list `clear` forgets, and calls that changed output parameters. The last are also
  excepted in `AbortsOnlyOnExcess`: `readHTML` and `readAvailableTypes` are recorded
  under the values the platform left and looked up under those the caller passed,
  so that an assertion fails.
* `HealingIsSound` asks for the right request where no `doubt` was noted. A history
  load of another document makes no request; a request that is not the first for its
  URL is never marked when it is loaded, and so may be forced again; events that
  follow a forced load are injected into the page that is being left.
* `ReplayIsExact` is for replays that are in time; `DatesNeverStale` for the others. A
  date may still go back, when values from ahead of time run out and estimates
  follow. The replay speed plays no part in either clock.
* Speed multiplies delays (`ForensicEventInjectorTask.cpp:120`), so that 2.0 is half
  speed, where `protocol.json` says "1.0 is recorded speed".
* `ArraysAreES5`: `concat` of doubles ends at a hole and returns too little
  (`runtime.cc:10520`, a TODO above it admits it). `StringsAreRight`: `toUpperCase` counts
  a growing string wrongly when the character right after the first expanding one
  becomes one that does not fit (`"ßÿ"`, `runtime.cc:6459`); replacing the whole subject
  by the empty string does not update the last match; `Utf8Length` and `WriteUtf8` lose
  a surrogate that ends a flattened string within a larger concatenation
  (`api.cc:4352`).
* `InspectionIsTruthful` and `OneVariableChanges`: an evaluation that throws loses its
  changes to stack locals, optimised frames are not written back, a `with` scope's
  object may hide a variable of an inner block, the details of a frame with an
  adaptor show the arguments passed; `DebugReferencedBy` with a limit of one applies
  its rule for circular references wrongly. These are excepted where the property
  is defined. `ASSERT(lookup.IsReadOnly())` in `InitializeConstContextSlot` fails for
  `delete x; eval("var x = 1"); const x = 2`; without assertions the hole stays hidden.
* `CallbacksWaitForOutermost`: a callback that removes itself while callbacks fire makes
  the loop pass over the next one (`v8.cc:166`).

### Bounds

Every bound is a constant, tested in a guard. `MaxToken` bounds the commands that
start something (each takes a token): 4 allows a recording and two replays, or a
load, a stopped replay, a second one and its end, which the interplay of two
replays needs. `Horizon` bounds when commands are given and `LastTick` when time
ends; delays are at most 3 ticks times the speed and tasks are held up for one, so with
`LastTick` 8 all pairs fall due (`pipeline` shows it: replays end). `MaxHold` is 1 in
`replay` and `pipeline`: this already brings neighbouring events into the wrong order, and
the files of `replay` (`TwoEvents`) have a second event one tick after the first, within
the allowance, or two, beyond it. It is 0 where the time of events is of no interest. `MaxLength` is the number of user
events in a recording: one, next to the five opening events and the stop event,
already gives events before, at and after a tick. `MaxEvents` leaves room for two
stores' worth of objects. `MaxSwaps` is the number of renderers replaced.
`Tick` does not pass `Horizon` while a task is posted and has not run: the loop is
not late for ever. `two_pages` has smaller bounds in exchange for a second agent.

In `ForensicRequests`, `MaxLoads` 2 (per recording and per replay) lets one load
leave a cursor or a pending entry for another to meet; `MaxHops` 1 and two requests
give chains, since the redirects of two loads are followed one after the other;
`MaxChunks` 1 tells data from none. `MaxToken` 5 (`requests`) is a recording and
four replays, or two recordings with replays after each; 3 (`loaders`) is two
starts under the loads of one. `requests` has no data and one client, `loaders` one
request and no traces: what the one leaves out the other has.

In `parts`, `MaxStarts`, `MaxSessions` and `MaxBegun` 3 are two recordings with a dump and
a load between them and a replay, or a recording and two replays, which what is left
over from one to the next needs; lists get up to three values, so that some are skipped and some are left;
time runs to 4 ticks of half a millisecond, beyond the tolerance. `MaxMoves` 4 is a
redirect, a change of the URL and an event, with one to spare; three pages are what
a circle with an entrance needs, and `aliases` finds it with three moves. No action tells
one stack trace from another, or one page but about:blank: these are symmetric.

In `runtime` each machine has the least that lets its steps meet: chains of three
contexts, one name and two values, so that overwriting a constant shows (no step of
`V8Scopes` or `V8Functions` tells values apart: they are symmetric); an object, its hidden
prototype and its proxy with one name of each sort and three calls; two closures, two codes, one place in the compiler's
queue and two activations; two parameters and three arguments; two generators; two
buffers of up to four bytes with two views and four calls; two entries for three
keys with calls nested twice; two closures, three literals and three copies; stacks
of four frames with two `TryCatch` blocks; two threads, three blocks and three scopes.
The calls' inputs are enumerated on both sides of every limit in the code: slices that
fit and do not, lengths up to and beyond the largest, digits that overflow when
scaled, pairs of surrogates split over all parts of a string, doubles around each
power of two.

Deadlock is not checked: a user may stop giving commands, the clock ends at `LastTick`,
a bound is reached, a call of `runtime` is made once.

### Fairness

`FairSpec` has weak fairness of `MessageLoop` (a loop runs what is posted and due)
and of `Tick` (time passes). No command and no hook is fair. In `ForensicRequests`,
`FairSpec` has weak fairness of each client's posted tasks and pairs, and of nothing
else: neither the network nor the page need do anything. The other modules state
safety only.

## 4. Proofs

`ForensicSessionProofs` proves, for every value of the constants that satisfies
`SessionAssumption`:

* `TypeCorrect`: `Spec => []TypeOK`. `TypeOK` is inductive by itself; the numeric part
  rests on `PairOfType` (a due time is a natural number, wherever the task is held up).
* `ModesAlwaysAgree`: `Spec => []ModesAgree`, inductive given `TypeOK`.
* `AgentsImplementModes`: `Spec => ImplementsModes`. One lemma per kind of change of
  an agent's flags, one step per action; the mutual exclusion in `ModesAgree` is
  needed so that `Mode(a)` is well chosen.
* `StoreAlwaysStartsWithRecStart`: `Spec => []StoreStartsWithRecStart`. Not inductive
  as it stands: what a load puts into the store comes from the file, and what a
  dump puts there from the store. `StoreInv` adds that the file is empty or starts
  with the start event, and that the store holds created events only, so that a
  new event does not overwrite an old one.

Its other theorems have hypotheses, which each one names:

* `RecordingAlwaysClosed`: `Spec => []RecordingIsClosed`, for one page (`OnePage`) and
  files that are closed (`FilesClosed`). `ClosedInv` adds that the dumped file is closed,
  since a load makes the store from it, and that a recording in progress holds no stop
  event and nothing later than now (`Open`), since a stop event must come last.
* `OneShotEventsAlwaysOnce`: `Spec => []OneShotEventsOnce`, for one page. `OnceInv` says
  that an event that was shown once is not Ready any more, and that objects yet to be
  made are in no task and no pair and have not been shown.
* `FirstInjectionsAlwaysInOrder`: `Spec => FirstInjectionsInOrder`, and `NothingIsSkipped`:
  `Spec => NothingSkipped`, for one page and files that are recordings
  (`FilesAreRecordings`: closed, and in the order of the clock); for any speeds and any
  `MaxHold`. Both are about events recorded further apart than the replay's tasks were held
  up. `PairsOrdered` says why that suffices at any speed: the later event's clock reading cannot be
  ahead of the earlier one's by as much as the two are apart, and it is posted after it. `OrderInv` says that the
  store and the file are in that order (`StoreOrdered`) and a task is about the whole
  store or about one that is gone (`TasksWhole`); that whatever was recorded that much
  before an event that was shown, or has a pair of the replay in progress
  in the loop, has been shown too or will be passed by (`ShownInOrder`) or, in the second
  case, has a pair of the *same task* that fires before (`PairsInOrder`); and that an event
  yet to be shown is Ready or cancelled (`UnshownReady`). Two tasks with the current
  token, which a replay stopped and begun again leaves, thus need no comparison.
* `InstrumentationAlwaysInSync`: `Spec => []InstrumentationInSync`, for one page and no
  replacement of the renderer, after which the flags are restored and V8 is off
  (run `restored` shows what else is missing then).
* `V8DataAlwaysMatchesStore`: `Spec => []V8DataMatchesStore`, for any number of pages and
  files that have a part for V8.

With two pages none but the last holds, nor could it: one agent's commands change
the store and V8 under the other.

`RequestsProofs` proves of `ForensicRequests`, for any clients, requests and traces that
satisfy `RequestsAssumption`:

* `PendingIsAlwaysWhatWasTold`: `Spec => []PendingIsWhatWasTold`. `PendingInv` adds that
  loads over the network have nothing in the message loop and carry tokens already
  given, so that a new recording begins with none of its own.
* `TypesAlwaysOK`: `Spec => []TypeOK`. A chain of redirects (`Chain`) is as long as the map
  holds, and what it is made of, and where it leaves the cursors, goes by induction.
* `AnswersAlwaysServedOnce`: `Spec => []AnswersServedOnce`. `ServedInv` says that different
  entries hold different answers (`AnswersDiffer`), which needs that a load is stored
  under one number, and no other load of the recording has it (`LoadsNumbered`), and
  that what a replay has handed out is behind the cursors (`HandedIsPassed`). That the
  recorder forgets every client when a recording begins (`KnownIsCounted`) is what keeps
  the loads of an earlier recording out.
* `ClientsAreToldInOrder`: `Spec => KeepsProtocol`, that is, `ForensicRequests` implements
  `LoadProtocol` for each client. `ProtocolInv` is about what is still to be told: the
  events that are Ready in a load's `plan` are, in the order in which its pairs can fire,
  what `LoadProtocol` allows next (`Fits`), and every stored entry has an answer or a
  failure (`EntriesAnswered`). A pair with an old token tells nothing, whatever its plan.

`FaithfulReplayProofs` proves `ReplaysAreFaithful`: `Spec => []FaithfulReplay`, under the same
assumption. `FaithfulReplay` compares a load of a replay with the one recorded in its
place and says nothing of why they agree. The invariant (`FaithInv`) therefore follows
the two maps: each load of a recording takes them from the lengths they had to those
they have (its *marks*), and what lies between two marks is what the load was told.
`RecordingInv` says that the marks reach to the ends of the maps, and to the redirects of
the load under way; `RecordedInv` that they stay when the recording is over;
`FollowingInv` that a replay which asks what the recording asked has its cursors at the
marks of as many loads as it has begun; `AlikeInv` that a load of it has been
told part of what the recorded one was, and is planned the rest. That no request is
redirected once and answered another time is needed where `createRedirectEvents` must
stop.

`ReplayedValuesProofs` proves of `ReplayData`, for every set of calls with any policies, pages, answers and
bounds that satisfy `DataAssumption`:

* `ReadsAlwaysFaithful`: `DataSpec => []ReadsAreFaithful`, and `AbortsAlwaysOnExcess`:
  `DataSpec => []AbortsOnlyOnExcess`. Neither is inductive. `IInv` adds to `DataTypeOK`
  (`TypeCorrect`) that the store and the file hold, for each call that is replayed at
  all, what the recorded page was told (`StoresAgree`), and that in a replay a list's
  index is the number of replies so far, as far as the list goes, and the replies are
  its answers in order (`RepliesFollow`).

It proves of `ReplayClock`, for any stack traces, random numbers, pages and bounds that
satisfy `ClockAssumption`:

* `TypesAlwaysOK`: `Spec => []TypeOK`. `TypeInv` adds the types of the file and of what was
  shown.
* `DumpIsAlwaysTheRecording`: `Spec => []DumpIsTheRecording`. The file must hold a recording
  as well (`FileIsARecording`), since a load makes V8's maps from it.
* `ReplaysAlwaysExact`: `Spec => []ReplayIsExact`. `FollowInv` says, for each stack trace,
  that the numbers drawn are the first of those recorded and that, as long as the
  replay is in time, so are the dates, with the cursors as far as they go. The lemma
  `NextDateIsTold` is where being in time matters: nothing is stale, so nothing is
  skipped.
* `DatesAreNeverStale`: `Spec => DatesNeverStale`, an action property, which bounds each date
  told against the time the replay has reached and not against the dates before it; it rests on what the
  loop in `FirstRecent` stops at, not on an invariant of its own.
* `BlinkClockNeverGoesBack`: `Spec => BlinkClockMonotone`. `ClockInv` says that the readings
  are sorted, in the file too, that a recording's are not ahead of the clock, and that
  what was shown is not ahead of what comes next.

`SelfHealingProofs` proves, for any finite set of pages and any bounds
(`HealingAssumption`):

* `TypeCorrect`: `HealingSpec => []HealingTypeOK`. What the search over aliases returns is a
  page, by recursion up to the number of pages.
* `HealingAlwaysSound`: `HealingSpec => []HealingIsSound`. `OnceInv` says that in a replay the
  flags of the requests are those of the places it has forced and of the first requests
  for the URLs it has loaded. `PlaceInv` says where a recorded page and the load under way
  came from: at the place noted (`origin`, `coming`) is the last request for its URL, the
  aliases lead there along a path (`Leads`), and no URL has both requests and an alias
  (`ApartInv`). The lemma `RootOfPath` then shows that the loop, if it ends, ends where the
  path does: a path meets no URL twice (`NoRepeat`), so none of the loop's ways of
  stopping comes too early, and one that is not over after as many steps as there
  are pages contradicts that the loop has ended.

`V8Proofs` proves:

* of `V8Tiers`, for any closures and any bounds (they need no assumptions), `QueueHasJobs`:
  `TiersSpec => []QueuedHasJob`, and `GivenUpCodeStaysGone`:
  `TiersSpec => []GivenUpCodeIsGone`. `IInv` is `TypeOK`, the two, and `MarkedIsUncached`:
  code marked for deoptimisation is in no cache, without which a new closure could
  be given marked code. Code that bailed out may stay with another closure: neither the
  code nor the property rules this out. Most steps are covered by the lemma `Kept`: the invariant
  survives when every code that a closure gets is the shared function's, from the
  cache, or fresh from the compiler, and a queued closure keeps its job.
* of `V8Cache`, for any capacity and keys (`CapacityAssumption`, `KeysAssumption`),
  `CacheConsistent`: `CacheSpec => []CacheIsConsistent`. With `CacheType`, which says of the
  calls under way that what they noted was a finger and a size within the cache, it is
  inductive: whatever the factory function did in the cache meanwhile, finger and size
  are read anew when it has returned.
* of `V8Scopes`, for all chains and names and all values but the hole (`ScopesAssumption`),
  `NoHoleEscapes`: `ScopesSpec => []HoleNeverEscapes`, and `ConstantsAreKept`:
  `ScopesSpec => ConstantsStay`, an action property. `ScopesInv` adds to `ScopesType` that the
  hole is only in slots that await their initialisation and in properties that are
  constants (`HoleAwaited`). The first theorem needs it, since `LoadContextSlot` answers
  most slots as they are. The argument is about the steps: each is shown to write
  nowhere, or where no constant has its value (`Permitted`), and the hole only
  where it declares a const.
* of `V8Buffers`, for any values of a byte and any bounds (`BytesAssumption`),
  `ViewsAlwaysWithin`: `BuffersSpec => []ViewsStayWithinBuffers`, and
  `CopiesAlwaysOfTheOld`: `BuffersSpec => CopiesAreOfTheOld`, an action property. `BuffersInv`
  says that a live buffer alone holds its store, which is as long as the buffer, that the
  store's owner is the embedder exactly when the buffer is external, that what V8 owns
  has a live holder, and that each view is in its own buffer's list, once, and in
  no other. Lists that hold a view of another buffer would satisfy the property and let
  neutering the one cut the other's views. For copies, `WrittenBytes` and `OtherBytes` say
  what a write changes in the view written and in the others, and `CopiedBytes`, by
  induction over the elements copied, that copying one by one is reading all of the source
  first: this is true only where the two do not overlap, which is what the answer of
  `Overlapping` has to tell.

`V8EmbeddingProofs` proves:

* of `V8Handles`, for any block size and bounds (`BlockAssumption`) and any threads
  (`ThreadAssumption`), `LiveHandlesAreRoots`: `HandlesSpec => []HandlesAreRoots`. A scope
  remembers `next` and `limit` from when it was opened, so that every implementer has
  a *mark* for each open scope and one for now; `HandlesInv` says that at each mark the
  blocks below it hold exactly the handles of the scopes open then (`ScopesHold`), that
  marks rise with the scopes, that a deferred scope begins a block of its own, the rest of
  the one before being left out of what is visited (`DeferredApart`), and that no two
  implementers or detached lists share a block (`Apart`).
* of `V8Embedding`, for any exceptions, callbacks and bounds (`ExceptionsAssumption`),
  `CallbacksAlwaysWait`: `EmbeddingSpec => []CallbacksWaitForOutermost`, and
  `InnermostAlwaysCatches`: `EmbeddingSpec => []InnermostHandlerCatches`. `EmbInv` says what
  each kind of frame is called from (`CalledFrom`), that the depth counts the frames
  of calls, that a `TryCatch` which rethrows is the only one of the last frame and has a
  script below it (`RethrowsLast`), that microtasks which are due are above a call whose
  end runs them (`DueIn`), and that the one exception in flight is owed by a callback
  without a `TryCatch` to the script below and bound for what is the innermost handler
  still (`InFlight`). `UnwindIs` is the heart: in each of the four ways in which a thrown
  exception leaves a script it ends at that handler, or it is in flight again.

`NumberLemmas` has induction and recursion up to a number as statements about *sets*:
`Induction` (a set that has 0 and with n also n + 1 has all numbers) and `Recursion` (steps
given as a function lead to a run). The library states them with an operator as
parameter, which the provers used cannot instantiate; least numbers, from which both
follow here, come from the well-foundedness of finite sets.

Model-checked only: `ReplayEnds` and `ReplayedLoadsEnd`, since liveness is out of the
prover's reach; `ReplayIsComplete`, which is true of the first replay of a set of event
objects only and there is what `NothingIsSkipped` comes to, nothing being cancelled;
and of the V8 modules
`ArraysAreES5`, `StringsAreRight` and `NumbersAreES5`, whose modules define functions with
RECURSIVE operators or bitwise ones, for which the prover has no backend (what they
compute is checked on enumerated inputs); `QueriesAgree` and `ValuesArrive`, which MCRuntime
puts together from the invariants of several such modules; and `InspectionIsTruthful` and
`OneVariableChanges`, which compare with evaluators that are defined by recursion.

## 5. Assumptions and omissions

* The wall clock does not go back; the message loop honours delays as described.
* A file's `v8` member is present exactly when it was dumped with one; dumping
  always writes it.
* A replay's speed is a whole number, and times are whole ticks, the time for which an
  injector task is held up included. Between its looks at the clock, it is held up
  for at most `MaxHold` ticks altogether.
* Loads: an event's clock reading is later than that of the event before it, so
  that sorting by timestamp keeps redirects before the response. A load answered
  with an error status is cancelled by Blink before its end and so never recorded.
  Multipart answers, downloads to a file, cached metadata and deferred loading are
  left out; the header that carries a stack trace's key is the trace itself.
* `ReplayClock`: V8's instance is one isolate's. In the code it is an unlocked static
  that worker isolates share, and `TearDown` deletes it without forgetting it. Stack
  traces are told apart exactly (the code cuts them at 200 frames).
* `V8Embedding`: the embedder keeps to what `v8.h` asks of it. It does not throw under
  a `TryCatch` of the same C++ function, and a callback of a completed call catches
  what its scripts throw. Messages and termination are left out.
* `V8Debug`, `V8Objects`, `V8Scopes`: no interceptors and no proxies. LiveEdit, scripts,
  breakpoints and stepping are not modelled.
* `V8Buffers`: a view dies with its buffer; none is collected before it.

### Not modelled

* Payloads (coordinates, keys, sizes, press targets, dialogs' texts), DOM snapshots and
  pictures, logging and tracing: they have no control of their own.
* `ForensicSerialization.h` and the JSON of the store: conversions field by field. What
  dump and load do to lists, cursors and states is in the models.
* The offloading recorder: `initPlatformWrapper` makes it only when `m_inMemoryRecording`
  is false, which nothing sets; most of its methods are stubs. The clients' scripts
  that assemble its chunks go with it.
* The rest of V8's `runtime.cc` and `api.cc`: wrappers around one function of `objects.cc`
  or `factory.cc`, flags and counters, formatting of numbers and dates, URI escapes,
  JSON quoting, collections, regular expressions, LiveEdit, profilers, templates,
  snapshots, internationalisation. What they do is decided in files that are not WebCapsule's.
* Blink and the browser beyond the hooks, which are the models' environment.

## 6. What could follow

A proof of `QueriesAgree`; two agents of one renderer that take turns.
