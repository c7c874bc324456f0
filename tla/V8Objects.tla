------------------------------- MODULE V8Objects -----------------------------
(***************************************************************************)
(* The properties of objects as V8's runtime functions see and change them *)
(* (runtime.cc): access checks, own properties and descriptors, prototype  *)
(* changes, enumeration of names.                                          *)
(*                                                                         *)
(* The objects: a global proxy, the global object it forwards to, an       *)
(* object whose prototype is hidden, so that it counts as part of the      *)
(* object it is the prototype of, and an ordinary prototype.  What         *)
(* objects.cc does with one object is external.                            *)
(*                                                                         *)
(* Left out: interceptors, proxies of the language and dictionary modes.   *)
(***************************************************************************)
EXTENDS Naturals, Sequences, FiniteSets, FiniteSetsExt, SequencesExt

CONSTANTS Strings, Symbols,  \* names of properties
          Indices,           \* array indices
          Chars,             \* the indices at which the global object, a String, has characters
          Values,
          MaxCalls           \* bound on the calls that change an object

VARIABLES heap,     \* the objects
          allowed,  \* the types of access the embedder's callback allows
          calls

objectVars == <<heap, allowed, calls>>

PropertyNames == Strings \cup Symbols \cup Indices
Objects == {"proxy", "global", "inner", "root"}

Property(kind, value, attrs) == [kind |-> kind, value |-> value, attrs |-> attrs]
Absent == Property("absent", "undefined", {"ABSENT"})

\* kind "data"; "pair", a getter and a setter, of which "free" ones may be called by
\* anyone; "info", an accessor of the embedder's.
Object(proto, check) ==
  [proto |-> proto, check |-> check, extensible |-> TRUE, observed |-> FALSE,
   secrets |-> FALSE, props |-> [n \in PropertyNames |-> Absent]]

is_hidden_prototype(o) == o = "inner"

ObjectsInit ==
  /\ \E check \in BOOLEAN :
       heap = [o \in Objects |->
                 CASE o = "proxy"  -> Object("global", check)
                   [] o = "global" -> Object("inner", FALSE)
                   [] o = "inner"  -> Object("root", FALSE)
                   [] OTHER        -> Object("null", FALSE)]
  /\ allowed \in {{"KEYS"}, {"GET", "HAS"}, {"GET", "SET", "HAS", "KEYS"}}
  /\ calls = 0
-----------------------------------------------------------------------------
(* What objects.cc does: own properties, with those of hidden prototypes.  *)

Proto(o) == heap[o].proto

\* Where a global proxy's properties are.
Real(o) == IF o = "proxy" THEN Proto(o) ELSE o

\* o and the hidden prototypes above it, which are to be viewed as part of it.
LocalChain(o) ==
  IF o = "null" THEN <<>>
  ELSE IF Proto(o) # "null" /\ is_hidden_prototype(Proto(o)) THEN <<o, Proto(o)>> ELSE <<o>>

LocalLookup(o, n) ==
  LET chain == LocalChain(Real(o))
      found == {i \in DOMAIN chain : heap[chain[i]].props[n] # Absent}
  IN IF found = {} THEN "none" ELSE chain[Min(found)]

LocalProperty(o, n) ==
  LET holder == LocalLookup(o, n) IN IF holder = "none" THEN Absent ELSE heap[holder].props[n]

\* o and the objects above it.
Chain(o) == LET up[x \in Objects \cup {"null"}] ==
                  IF x = "null" THEN <<>> ELSE <<x>> \o up[Proto(x)]
            IN up[o]
-----------------------------------------------------------------------------
(* Access checks.                                                          *)

MayAccess(o, type) == heap[o].check => type \in allowed

\* Every object from the receiver to the holder must allow the access.
CheckGenericAccess(o, holder, type) ==
  LET chain == Chain(o)
      last  == IF holder \in Range(chain) THEN CHOOSE i \in DOMAIN chain : chain[i] = holder
               ELSE Len(chain)
  IN \A i \in 1..last : MayAccess(chain[i], type)

CheckAccessException(p, type) == p.kind \in {"pair", "info"} /\ p.value = "free"

CheckPropertyAccess(o, n, type) ==
  IF n \in Indices
  THEN IF CheckGenericAccess(o, o, type) THEN "ALLOWED" ELSE "FORBIDDEN"
  ELSE LET holder == LocalLookup(o, n)
       IN CASE holder = "none" -> "ABSENT"
            [] holder # "none" /\ (\/ CheckGenericAccess(o, holder, type)
                                   \/ CheckAccessException(heap[holder].props[n], type))
                               -> "ALLOWED"
            [] OTHER           -> "FORBIDDEN"
-----------------------------------------------------------------------------
(* Reading.                                                                *)

IsStringObjectWithCharacterAt(o, n) == o = "global" /\ n \in Chars

\* The value found on o or above it; a character of a String comes first.
GetObjectProperty(o, n) ==
  LET chain == Chain(o)
      found == {i \in DOMAIN chain : heap[chain[i]].props[n] # Absent}
  IN CASE IsStringObjectWithCharacterAt(o, n) -> "char"
       [] ~IsStringObjectWithCharacterAt(o, n) /\ ~MayAccess(o, "GET") -> "undefined"
       [] OTHER -> IF found = {} THEN "undefined" ELSE heap[chain[Min(found)]].props[n].value

\* Mutant: the fast path does not ask whether the receiver needs access checks.
KeyedGetPropertyUnchecked(o, n) ==
  IF o # "proxy" /\ n \notin Indices /\ heap[o].props[n].kind = "data"
  THEN heap[o].props[n].value
  ELSE GetObjectProperty(o, n)

\* The fast path: a field of the receiver itself, or else the general lookup.
KeyedGetProperty(o, n) ==
  IF o # "proxy" /\ ~heap[o].check /\ n \notin Indices /\ heap[o].props[n].kind = "data"
  THEN heap[o].props[n].value
  ELSE GetObjectProperty(o, n)

\* A property's value, unless reading it could run code.
GetDataProperty(o, n) ==
  LET chain == Chain(o)
      found == {i \in DOMAIN chain : heap[chain[i]].props[n] # Absent}
  IN IF found # {} /\ heap[chain[Min(found)]].props[n].kind = "data"
     THEN heap[chain[Min(found)]].props[n].value ELSE "undefined"

\* "undefined" without the property, "false" without access, or its descriptor.
GetOwnProperty(o, n) ==
  LET access == CheckPropertyAccess(o, n, "HAS")
      p      == LocalProperty(o, n)
  IN CASE access = "FORBIDDEN" -> "false"
       [] access # "FORBIDDEN" /\ p = Absent -> "undefined"
       [] OTHER -> p.kind

HasLocalProperty(o, n) ==
  LET own == heap[Real(o)].props[n] # Absent
  IN /\ Real(o) # "null"
     /\ own \/ (\E i \in 2..Len(LocalChain(Real(o))) :
                  heap[LocalChain(Real(o))[i]].props[n] # Absent)

IsPropertyEnumerable(o, n) ==
  LET p == LocalProperty(o, n) IN p # Absent /\ "DONT_ENUM" \notin p.attrs

\* Along the prototypes; the access is checked at the receiver.
HasProperty(o, n) ==
  /\ MayAccess(o, "HAS")
  /\ \/ \E i \in DOMAIN Chain(o) : heap[Chain(o)[i]].props[n] # Absent
     \/ \E i \in DOMAIN Chain(o) : IsStringObjectWithCharacterAt(Chain(o)[i], n)

\* An observer may see a property that it may list, read and test for.
IsAccessAllowedForObserver(o) ==
  MayAccess(o, "KEYS") /\ MayAccess(o, "GET") /\ MayAccess(o, "HAS")

GetPrototype(o) ==
  LET above == SelectSeq(Tail(Chain(o)), LAMBDA x : ~is_hidden_prototype(x))
  IN IF ~MayAccess(o, "GET") THEN "undefined"
     ELSE IF above = <<>> THEN "null" ELSE above[1]

IsInPrototypeChain(o, v) == o \in Range(Tail(Chain(v)))

IsExtensible(o) == Real(o) # "null" /\ heap[Real(o)].extensible
-----------------------------------------------------------------------------
(* The names of the own properties.                                        *)

\* In the order of one object: strings, then symbols; its hidden properties are one more
\* string.  The filter leaves out strings or symbols.
NamesOf(o, filter) ==
  SetToSeq({n \in Strings : heap[o].props[n] # Absent /\ filter # "STRING"})
    \o (IF heap[o].secrets /\ filter # "STRING" THEN <<"hidden_string">> ELSE <<>>)
    \o SetToSeq({n \in Symbols : heap[o].props[n] # Absent /\ filter # "SYMBOLIC"})

\* Mutant: names that are there already are listed again.
StubOutNot(names, more) == more

\* Names of a hidden prototype that are there already are stubbed out.
StubOut(names, more) ==
  [j \in DOMAIN more |->
     IF more[j] # "hidden_string" /\ more[j] \in Range(names) THEN "hidden_string" ELSE more[j]]

Collected(o, filter) ==
  FoldLeft(LAMBDA names, x : names \o StubOut(names, NamesOf(x, filter)), <<>>, LocalChain(o))

\* What the code counts while it stubs out: duplicates, and objects with hidden properties.
HiddenStrings(o, filter) ==
  LET chain == LocalChain(o)
      Before(i) == UNION {Range(NamesOf(chain[k], filter)) : k \in 1..i - 1}
      Duplicates(i) == {n \in Range(NamesOf(chain[i], filter)) \ {"hidden_string"} :
                          n \in Before(i)}
      Count(i) == Cardinality(Duplicates(i))
                    + (IF filter # "STRING" /\ heap[chain[i]].secrets THEN 1 ELSE 0)
  IN FoldLeft(LAMBDA sum, i : sum + Count(i), 0, [i \in DOMAIN chain |-> i])

MayListKeys(o) == \A x \in {o} \cup Range(LocalChain(Real(o))) : MayAccess(x, "KEYS")

GetLocalPropertyNames(o, filter) ==
  IF ~MayListKeys(o) THEN <<>>
  ELSE SelectSeq(Collected(Real(o), filter), LAMBDA n : n # "hidden_string")

LocalKeys(o) ==
  IF o = "proxy" /\ (~MayAccess(o, "KEYS") \/ Real(o) = "null") THEN {}
  ELSE {n \in Strings \cup Indices : IsPropertyEnumerable(Real(o), n)}

GetLocalElementNames(o) ==
  {n \in Indices : heap[o].props[n] # Absent \/ IsStringObjectWithCharacterAt(o, n)}

\* For for-in: the enumerable names of the object and of those above it, up to the
\* first that may not be listed.
GetPropertyNames(o) ==
  LET chain == Chain(o)
      upto  == {i \in DOMAIN chain : \A j \in 1..i : MayAccess(chain[j], "KEYS")}
      KeysOf(x) == {n \in Strings \cup Indices :
                    \/ IsStringObjectWithCharacterAt(x, n)
                    \/ heap[x].props[n] # Absent /\ "DONT_ENUM" \notin heap[x].props[n].attrs}
  IN UNION {KeysOf(chain[i]) : i \in upto}

\* Where nothing above has enumerable names, and the object no elements, the map with
\* its cache of the object's own names is returned.
IsSimpleEnum(o) ==
  /\ ~heap[o].check /\ GetLocalElementNames(o) = {}
  /\ \A x \in Range(Tail(Chain(o))) :
       GetLocalElementNames(x) = {} /\ \A n \in PropertyNames : heap[x].props[n] = Absent

GetPropertyNamesFast(o) ==
  IF IsSimpleEnum(o) THEN {n \in Strings : IsPropertyEnumerable(o, n)} ELSE GetPropertyNames(o)
-----------------------------------------------------------------------------
(* What the debugger shows.                                                *)

\* An accessor of the embedder's is called, one of the program's is not.
DebugLookupResultValue(p) == IF p.kind = "pair" THEN "undefined" ELSE p.value

NoDetails == [found |-> FALSE]

DebugGetPropertyDetails(o, n) ==
  LET p == LocalProperty(o, n)
  IN CASE n \in Indices -> [found |-> TRUE, value |-> GetObjectProperty(Real(o), n),
                            attrs |-> {}, accessors |-> FALSE]
       [] n \notin Indices /\ p = Absent -> NoDetails
       [] OTHER -> [found |-> TRUE, value |-> DebugLookupResultValue(p), attrs |-> p.attrs,
                    accessors |-> p.kind = "pair"]

DebugGetProperty(o, n) ==
  LET chain == Chain(o)
      found == {i \in DOMAIN chain : heap[chain[i]].props[n] # Absent}
  IN IF found = {} THEN "undefined"
     ELSE DebugLookupResultValue(heap[chain[Min(found)]].props[n])
-----------------------------------------------------------------------------
(* Changing.                                                               *)

Change(o, object) ==
  /\ heap' = [heap EXCEPT ![o] = object]
  /\ UNCHANGED allowed

Ignore == UNCHANGED <<heap, allowed>>

\* JSObject::SetLocalPropertyIgnoreAttributes, on the object that has the property.
SetLocal(o, n, p) ==
  LET at == IF LocalLookup(o, n) = "none" THEN Real(o) ELSE LocalLookup(o, n)
  IN IF heap[at].extensible \/ heap[at].props[n] # Absent
     THEN Change(at, [heap[at] EXCEPT !.props[n] = p]) ELSE Ignore

ForceSetObjectProperty(o, n, p) ==
  IF IsStringObjectWithCharacterAt(o, n) THEN Ignore ELSE SetLocal(o, n, p)

DefineOrRedefineDataProperty(o, n, value, attrs) ==
  /\ Real(o) # "null"
  /\ LET old == heap[Real(o)].props[n]
     IN CASE old.kind = "info" -> Ignore
          [] old.kind \in {"data", "pair"} /\ (attrs # old.attrs \/ old.kind = "pair")
                 -> SetLocal(o, n, Property("data", value, attrs))
          [] OTHER -> ForceSetObjectProperty(o, n, Property("data", value, attrs))

\* access: "free" or "checked"; the embedder's accessor functions are made elsewhere.
DefineAccessor(o, n, kind, access, attrs) ==
  /\ Real(o) # "null"
  /\ n \notin Indices
  /\ SetLocal(o, n, Property(kind, access, attrs))

\* What strict mode throws is left out: nothing is stored then, either.
SetProperty(o, n, value) ==
  LET p == LocalProperty(o, n)
  IN /\ Real(o) # "null"
     /\ CASE IsStringObjectWithCharacterAt(o, n) -> Ignore
          [] ~MayAccess(o, "SET") -> Ignore
          [] p # Absent /\ p.kind = "data" /\ "READ_ONLY" \notin p.attrs
                 -> SetLocal(o, n, Property("data", value, p.attrs))
          [] p = Absent -> SetLocal(o, n, Property("data", value, {}))
          [] OTHER -> Ignore

DeleteProperty(o, n) ==
  LET holder == LocalLookup(o, n)
  IN /\ Real(o) # "null"
     /\ IF IsStringObjectWithCharacterAt(o, n) \/ holder # Real(o)
             \/ "DONT_DELETE" \in heap[holder].props[n].attrs
        THEN Ignore
        ELSE Change(holder, [heap[holder] EXCEPT !.props[n] = Absent])

SetHiddenProperty(o) == Real(o) # "null" /\ Change(Real(o), [heap[Real(o)] EXCEPT !.secrets = TRUE])

PreventExtensions(o) ==
  Real(o) # "null" /\ Change(Real(o), [heap[Real(o)] EXCEPT !.extensible = FALSE])

\* The prototype above the hidden ones; a cycle is refused.
SetPrototype(o, proto) ==
  LET at == Last(LocalChain(o))
  IN /\ o # "proxy"
     /\ CASE ~MayAccess(o, "SET") -> Ignore
          [] proto # "null" /\ at \in Range(Chain(proto)) -> Ignore
          [] OTHER -> IF heap[o].extensible THEN Change(at, [heap[at] EXCEPT !.proto = proto])
                      ELSE Ignore

SetIsObserved(o) ==
  IF Real(o) = "null" THEN Ignore ELSE Change(Real(o), [heap[Real(o)] EXCEPT !.observed = TRUE])

AccessChecks(o, needed) == Change(o, [heap[o] EXCEPT !.check = needed])

\* Context::DetachGlobal
DetachGlobal == Change("proxy", [heap["proxy"] EXCEPT !.proto = "null"])

ObjectsNext ==
  /\ calls < MaxCalls
  /\ calls' = calls + 1
  /\ \/ \E o \in {"proxy", "global", "inner"}, n \in PropertyNames :
          \/ \E v \in Values, a \in {{}, {"READ_ONLY", "DONT_ENUM", "DONT_DELETE"}} :
               DefineOrRedefineDataProperty(o, n, v, a)
          \/ \E kind \in {"pair", "info"}, access \in {"free", "checked"} :
               DefineAccessor(o, n, kind, access, {})
     \/ \E o \in {"proxy", "global"}, n \in PropertyNames :
          \/ \E v \in Values : SetProperty(o, n, v)
          \/ DeleteProperty(o, n)
     \/ \E o \in {"proxy", "global", "inner"} :
          \/ SetHiddenProperty(o) \/ PreventExtensions(o) \/ SetIsObserved(o)
     \/ SetPrototype("global", "root") \/ SetPrototype("global", "null")
     \/ SetPrototype("root", "global")
     \/ \E o \in {"proxy", "global"}, needed \in BOOLEAN : AccessChecks(o, needed)
     \/ DetachGlobal
-----------------------------------------------------------------------------
\* The names listed for an object are the names of the properties it has of its own, each
\* once, hidden prototypes included, and the count of what is stubbed out, by which the
\* list is allocated, is the number of stubs in it.  What for-in enumerates holds the own
\* names and, with a cache or without, is the same.
NamesAgree ==
  /\ \A o \in {"global", "inner"}, filter \in {"NONE", "STRING", "SYMBOLIC"} :
       HiddenStrings(o, filter)
         = Len(SelectSeq(Collected(o, filter), LAMBDA n : n = "hidden_string"))
  /\ \A o \in Objects : Real(o) # "null" =>
       LET listed == GetLocalPropertyNames(o, "NONE")
       IN /\ IsInjective(listed)
          /\ MayListKeys(o) =>
               Range(listed) = {n \in PropertyNames \ Indices : HasLocalProperty(o, n)}
  /\ \A o \in Objects, n \in PropertyNames \ Indices :
       Real(o) # "null" =>
         (GetOwnProperty(o, n) = "undefined" <=> ~HasLocalProperty(o, n))
  /\ \A o \in {"global", "inner", "root"} :
       /\ MayListKeys(o) => LocalKeys(o) \subseteq GetPropertyNames(o)
       /\ GetPropertyNamesFast(o) = GetPropertyNames(o)
       /\ MayAccess(o, "HAS") => \A n \in GetPropertyNames(o) : HasProperty(o, n)

\* The fast path of a keyed load finds what the general lookup finds, and a String's
\* characters are what they are whatever is stored over them.  The debugger's details
\* are those of the own properties, and a getter of the program's is not called for them.
LoadsAgree ==
  /\ \A o \in {"global", "inner", "root"}, n \in PropertyNames :
       KeyedGetProperty(o, n) = GetObjectProperty(o, n)
  /\ \A n \in Chars : GetObjectProperty("global", n) = "char"
  /\ \A o \in {"global", "inner", "root"}, n \in PropertyNames \ Chars :
       LET p == LocalProperty(o, n)
       IN p.kind = "data" /\ MayAccess(o, "GET") => GetDataProperty(o, n) = GetObjectProperty(o, n)
  /\ \A o \in {x \in Objects : Real(x) # "null"}, n \in PropertyNames \ Indices :
       LET details == DebugGetPropertyDetails(o, n)
       IN /\ details.found = HasLocalProperty(o, n)
          /\ details.found =>
               /\ details.value = DebugGetProperty(o, n)
               /\ details.value = IF details.accessors THEN "undefined"
                                 ELSE LocalProperty(o, n).value
               /\ ("DONT_ENUM" \notin details.attrs) = IsPropertyEnumerable(o, n)
=============================================================================
