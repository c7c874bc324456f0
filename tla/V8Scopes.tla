------------------------------- MODULE V8Scopes -------------------------------
(***************************************************************************)
(* The variables of a script as V8's runtime finds, declares, initialises, *)
(* assigns and deletes them (runtime.cc): the chain of contexts from the   *)
(* native context, whose extension is the global object, to the current    *)
(* one.  A context has slots, laid out by the compiler, and an extension   *)
(* object: the global object, the subject of a "with", or the object that  *)
(* holds what eval declared in a function.                                 *)
(*                                                                         *)
(* Left out: interceptors, JavaScript proxies and hidden prototypes.       *)
(***************************************************************************)
EXTENDS Naturals, Sequences, FiniteSets, FiniteSetsExt, SequencesExt

CONSTANTS Names,     \* names of variables
          Values,    \* values a script computes, strings
          MaxDepth   \* bound on the length of the chain

VARIABLES chain,     \* the contexts, from the native one to the current one
          accessors, \* names that have an accessor on the global object's prototype
          result     \* what the last call loaded, the error it threw, or "ok"

scopeVars == <<chain, accessors, result>>

\* What a script computes is never the hole.
ASSUME ScopesAssumption == "hole" \notin Values

Property(value, attrs) == [value |-> value, attrs |-> attrs]
Absent == Property("absent", {"ABSENT"})

\* "hole" is a binding that awaits its initialisation.
Slot(value, mode) == [value |-> value, mode |-> mode]
NoSlot == Slot("absent", "none")

Context(kind, slots, ext) == [kind |-> kind, slots |-> slots, ext |-> ext]
NoSlots == [n \in Names |-> NoSlot]
NoExtension == [n \in Names |-> Absent]

ReadOnly(attrs) == "READ_ONLY" \in attrs
Immutable(mode) == mode \in {"CONST_LEGACY", "CONST", "FUNCTION_NAME"}

ScopesInit ==
  /\ chain = <<Context("native", NoSlots, NoExtension)>>
  /\ accessors \in SUBSET Names
  /\ result = "ok"
-----------------------------------------------------------------------------
(* Context::Lookup, and what JSObject does with a property.                *)

Current == Len(chain)

\* Declarations are made in the nearest function or native context.
declaration_context == Max({i \in 1..Current : chain[i].kind \in {"function", "native"}})

InObject(i, n) == chain[i].ext[n] # Absent \/ (i = 1 /\ n \in accessors)
InSlot(i, n)   == ~InObject(i, n) /\ chain[i].slots[n] # NoSlot

\* The innermost context at or above k that binds n; 0 if none does.
Lookup(n, k) == Max({0} \cup {i \in 1..k : InObject(i, n) \/ InSlot(i, n)})

WriteSlot(i, n, v) == chain' = [chain EXCEPT ![i].slots[n].value = v]
WriteProperty(i, n, p) == chain' = [chain EXCEPT ![i].ext[n] = p]

\* JSReceiver::SetProperty: an accessor of the prototype is called instead of adding a
\* property, and one that is there keeps its attributes.
SetProperty(i, n, v, attrs, strict) ==
  LET old == chain[i].ext[n]
  IN \/ /\ old = Absent
        /\ ~InObject(i, n)
        /\ WriteProperty(i, n, Property(v, attrs))
        /\ result' = "ok"
     \/ /\ old = Absent
        /\ InObject(i, n)
        /\ UNCHANGED chain
        /\ result' = "ok"
     \/ /\ old # Absent
        /\ ~ReadOnly(old.attrs)
        /\ WriteProperty(i, n, Property(v, old.attrs))
        /\ result' = "ok"
     \/ /\ old # Absent
        /\ ReadOnly(old.attrs)
        /\ UNCHANGED chain
        /\ result' = IF strict THEN "TypeError" ELSE "ok"

Answer(r) == result' = r /\ UNCHANGED chain
-----------------------------------------------------------------------------
(* Declarations.  Compiled code declares a const before it initialises it; *)
(* what is declared may be deleted in between, or be there twice, so an    *)
(* initialisation may find any binding, and is not tied to its declaration *)
(* here.                                                                   *)

\* A lookup that does not follow the chain misses the name of the function itself.
DeclaredSlot(i, n) == chain[i].slots[n].mode \notin {"none", "FUNCTION_NAME"}

InitialValue(kind) ==
  CASE kind = "var" -> "undefined" [] kind = "const" -> "hole" [] OTHER -> "function"

DeclareGlobals(n, kind, eval, native) ==
  LET old   == chain[1].ext[n]
      fixed == old # Absent /\ "DONT_DELETE" \in old.attrs
      attrs == (IF eval THEN {} ELSE {"DONT_DELETE"})
                 \cup (IF kind = "const" \/ (native /\ kind = "function")
                       THEN {"READ_ONLY"} ELSE {})
  IN \/ /\ old # Absent
        /\ kind # "function"
        /\ Answer("ok")
     \/ /\ kind = "function"
        /\ fixed
        /\ ReadOnly(old.attrs)
        /\ Answer("TypeError")
     \/ /\ old = Absent \/ kind = "function"
        /\ ~(fixed /\ ReadOnly(old.attrs))
        /\ WriteProperty(1, n, Property(InitialValue(kind),
                                        IF fixed THEN old.attrs ELSE attrs))
        /\ result' = "ok"

\* Mutant: a const may be declared where there is a variable already.
ConflictsIfFixed(fixed, mode) == fixed

\* A constant is not declared again, nor where there is a variable already.
Conflicts(fixed, mode) == fixed \/ mode = {"READ_ONLY"}

\* value "none": a var declared without an initial value.
DeclareContextSlot(n, mode, value) ==
  LET i        == declaration_context
      inSlot   == chain[i].ext[n] = Absent /\ DeclaredSlot(i, n)
      isAbsent == chain[i].ext[n] = Absent /\ ~DeclaredSlot(i, n)
      fixed    == IF inSlot THEN Immutable(chain[i].slots[n].mode)
                  ELSE ReadOnly(chain[i].ext[n].attrs)
  IN \/ /\ ~isAbsent
        /\ Conflicts(fixed, mode)
        /\ Answer("TypeError")
     \/ /\ ~isAbsent
        /\ ~Conflicts(fixed, mode)
        /\ \/ value = "none" /\ Answer("ok")
           \/ value # "none" /\ inSlot /\ WriteSlot(i, n, value) /\ result' = "ok"
           \/ value # "none" /\ ~inSlot /\ SetProperty(i, n, value, mode, FALSE)
     \/ /\ isAbsent
        /\ value = "hole" /\ i = 1 /\ n \in accessors
        /\ Answer("TypeError")
     \/ /\ isAbsent
        /\ ~(value = "hole" /\ i = 1 /\ n \in accessors)
        /\ WriteProperty(i, n, Property(IF value = "none" THEN "undefined" ELSE value, mode))
        /\ result' = "ok"

\* Mutant: a const is initialised whenever its declaration is evaluated.
SetConstAlways(i, n, v) == WriteProperty(i, n, Property(v, chain[i].ext[n].attrs))

\* A const keeps the first value it is given.
SetConst(i, n, v) ==
  IF chain[i].ext[n].value = "hole"
  THEN WriteProperty(i, n, Property(v, chain[i].ext[n].attrs))
  ELSE UNCHANGED chain

InitializeVarGlobal(n, assign, v, strict) ==
  IF assign THEN SetProperty(1, n, v, {"DONT_DELETE"}, strict) ELSE Answer("ok")

InitializeConstGlobal(n, v) ==
  LET old == chain[1].ext[n]
  IN \/ /\ old = Absent
        /\ WriteProperty(1, n, Property(v, {"DONT_DELETE", "READ_ONLY"}))
        /\ result' = "ok"
     \/ /\ old # Absent
        /\ ~ReadOnly(old.attrs)
        /\ SetProperty(1, n, v, {"DONT_DELETE", "READ_ONLY"}, FALSE)
     \/ /\ old # Absent
        /\ ReadOnly(old.attrs)
        /\ SetConst(1, n, v)
        /\ result' = "ok"

\* Mutant: whatever slot a const's initialisation finds is written.
InitializeConstSlotAlways(i, n, v) == WriteSlot(i, n, v)

\* The slot may be another scope's, if the const has been deleted since its declaration.
InitializeConstSlot(i, n, v) ==
  IF Immutable(chain[i].slots[n].mode) /\ chain[i].slots[n].value # "hole"
  THEN UNCHANGED chain
  ELSE WriteSlot(i, n, v)

InitializeConstContextSlot(n, v) ==
  LET i  == declaration_context
      at == Lookup(n, i)
  IN \/ /\ at # 0 /\ InSlot(at, n)
        /\ InitializeConstSlot(at, n, v)
        /\ result' = "ok"
     \/ /\ at = 0
        /\ SetProperty(1, n, v, {}, FALSE)
     \/ /\ at = i
        /\ chain[at].ext[n] # Absent
        /\ SetConst(at, n, v)
        /\ result' = "ok"
     \/ /\ at # 0 /\ InObject(at, n)
        /\ at # i \/ chain[at].ext[n] = Absent
        /\ SetProperty(at, n, v, {}, FALSE)
-----------------------------------------------------------------------------
(* Reading, assigning and deleting.                                        *)

Unhole(v) == IF v = "hole" THEN "undefined" ELSE v

PropertyValue(i, n) ==
  IF chain[i].ext[n] = Absent THEN "accessor" ELSE Unhole(chain[i].ext[n].value)

Uninitialized(i, n) == chain[i].slots[n].value = "hole"

\* Only of a legacy const is the hole taken for undefined: any other slot that need not be
\* checked, or has been, is answered as it is stored.
LoadContextSlot(n, throw_error) ==
  LET at   == Lookup(n, Current)
      mode == chain[at].slots[n].mode
  IN \/ /\ at # 0 /\ InSlot(at, n)
        /\ mode \in {"LET", "CONST"} /\ Uninitialized(at, n)
        /\ Answer("ReferenceError")
     \/ /\ at # 0 /\ InSlot(at, n)
        /\ mode # "CONST_LEGACY"
        /\ ~(mode \in {"LET", "CONST"} /\ Uninitialized(at, n))
        /\ Answer(chain[at].slots[n].value)
     \/ /\ at # 0 /\ InSlot(at, n)
        /\ mode = "CONST_LEGACY"
        /\ Answer(Unhole(chain[at].slots[n].value))
     \/ /\ at # 0 /\ InObject(at, n)
        /\ Answer(PropertyValue(at, n))
     \/ /\ at = 0
        /\ Answer(IF throw_error THEN "ReferenceError" ELSE "undefined")

\* What a call of the variable gets as "this": a with's subject, or nothing.
ComputeReceiver(at) == IF chain[at].kind = "with" THEN at ELSE 0

StoreContextSlot(n, v, strict) ==
  LET at == Lookup(n, Current)
      readOnly == IF InSlot(at, n) THEN Immutable(chain[at].slots[n].mode)
                  ELSE ReadOnly(chain[at].ext[n].attrs)
  IN \/ /\ at = 0 /\ strict
        /\ Answer("ReferenceError")
     \/ /\ at = 0 /\ ~strict
        /\ SetProperty(1, n, v, {}, strict)
     \/ /\ at # 0 /\ InSlot(at, n)
        /\ chain[at].slots[n].mode = "LET" /\ Uninitialized(at, n)
        /\ Answer("ReferenceError")
     \/ /\ at # 0 /\ InSlot(at, n)
        /\ ~(chain[at].slots[n].mode = "LET" /\ Uninitialized(at, n))
        /\ ~readOnly
        /\ WriteSlot(at, n, v)
        /\ result' = "ok"
     \/ /\ at # 0 /\ InObject(at, n)
        /\ ~readOnly
        /\ SetProperty(at, n, v, {}, strict)
     \/ /\ at # 0
        /\ readOnly
        /\ Answer(IF strict THEN "TypeError" ELSE "ok")

DeleteContextSlot(n) ==
  LET at == Lookup(n, Current)
  IN \/ /\ at = 0
        /\ Answer("ok")
     \/ /\ at # 0
        /\ InSlot(at, n) \/ "DONT_DELETE" \in chain[at].ext[n].attrs
        /\ Answer("ok")
     \/ /\ at # 0 /\ InObject(at, n)
        /\ "DONT_DELETE" \notin chain[at].ext[n].attrs
        /\ WriteProperty(at, n, Absent)
        /\ result' = "ok"
-----------------------------------------------------------------------------
(* Entering and leaving scopes.                                            *)

Push(context) ==
  /\ Current < MaxDepth
  /\ chain' = Append(chain, context)
  /\ result' = "ok"

\* The compiler gives a function slots of these kinds; the last is for its own name.
FunctionSlots == {NoSlot, Slot("undefined", "VAR"), Slot("hole", "LET"),
                  Slot("hole", "CONST_LEGACY"), Slot("hole", "CONST"),
                  Slot("function", "FUNCTION_NAME")}

NewFunctionContext ==
  \E slots \in [Names -> FunctionSlots] : Push(Context("function", slots, NoExtension))

PushWithContext ==
  \E subject \in [Names -> {Absent} \cup {Property(v, a) : v \in Values,
                                                           a \in {{}, {"READ_ONLY"}}}] :
    Push(Context("with", NoSlots, subject))

PushCatchContext(n, thrown) ==
  Push(Context("catch", [NoSlots EXCEPT ![n] = Slot(thrown, "VAR")], NoExtension))

PushBlockContext ==
  \E slots \in [Names -> {NoSlot, Slot("hole", "LET"), Slot("hole", "CONST")}] :
    Push(Context("block", slots, NoExtension))

\* Compiled code leaves a scope, and initialises its let and const itself.
PopContext ==
  /\ Current > 1
  /\ chain' = Front(chain)
  /\ result' = "ok"

InitializeSlot(n, v) ==
  /\ chain[Current].slots[n] # NoSlot
  /\ Uninitialized(Current, n)
  /\ WriteSlot(Current, n, v)
  /\ result' = "ok"

ScopesStep ==
  \/ \E n \in Names, kind \in {"var", "const", "function"}, eval \in BOOLEAN :
       DeclareGlobals(n, kind, eval, FALSE)
  \/ \E n \in Names : DeclareGlobals(n, "function", FALSE, TRUE)
  \/ \E n \in Names :
       \/ \E value \in {"none", "function"} : DeclareContextSlot(n, {}, value)
       \/ DeclareContextSlot(n, {"READ_ONLY"}, "hole")
       \/ \E throw_error \in BOOLEAN : LoadContextSlot(n, throw_error)
       \/ DeleteContextSlot(n)
  \/ \E n \in Names, v \in Values :
       \/ \E assign, strict \in BOOLEAN : InitializeVarGlobal(n, assign, v, strict)
       \/ InitializeConstGlobal(n, v)
       \/ InitializeConstContextSlot(n, v)
       \/ \E strict \in BOOLEAN : StoreContextSlot(n, v, strict)
       \/ PushCatchContext(n, v)
       \/ InitializeSlot(n, v)
  \/ NewFunctionContext \/ PushWithContext \/ PushBlockContext \/ PopContext

ScopesNext == ScopesStep /\ UNCHANGED accessors

ScopesSpec == ScopesInit /\ [][ScopesNext]_scopeVars
-----------------------------------------------------------------------------
\* Where a load does not look for the hole there is none: it is in slots that await their
\* initialisation, and in properties that are constants.
HoleAwaited ==
  \A i \in 1..Current, n \in Names :
    /\ chain[i].slots[n].value = "hole" =>
         chain[i].slots[n].mode \in {"LET", "CONST_LEGACY", "CONST"}
    /\ chain[i].ext[n].value = "hole" => ReadOnly(chain[i].ext[n].attrs)

\* The hole that marks an uninitialised binding is never a value a script sees, though most
\* slots are answered as they are: the assertions of LoadContextSlot and Unhole hold.
HoleNeverEscapes == result # "hole" /\ HoleAwaited

ConstantSlots ==
  {c \in (1..Current) \X Names :
     Immutable(chain[c[1]].slots[c[2]].mode) /\ ~Uninitialized(c[1], c[2])}

ConstantProperties ==
  {c \in (1..Current) \X Names :
     ReadOnly(chain[c[1]].ext[c[2]].attrs) /\ chain[c[1]].ext[c[2]].value # "hole"}

\* Once it has its value, a constant in a slot keeps it as long as its scope lives, and
\* one in an object keeps it or is deleted; only a global one that eval declared, and so
\* may be deleted, may be replaced: by the declaration of a function.
ConstantsStay ==
  [][/\ \A c \in ConstantSlots :
          c[1] <= Len(chain') => chain'[c[1]].slots[c[2]] = chain[c[1]].slots[c[2]]
     /\ \A c \in ConstantProperties :
          LET old == chain[c[1]].ext[c[2]]
          IN c[1] <= Len(chain') =>
               \/ chain'[c[1]].ext[c[2]] = old
               \/ /\ "DONT_DELETE" \notin old.attrs
                  /\ \/ chain'[c[1]].ext[c[2]] = Absent
                     \/ c[1] = 1 /\ chain'[1].ext[c[2]].value = "function"]_scopeVars
=============================================================================
