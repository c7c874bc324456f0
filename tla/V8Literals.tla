------------------------------ MODULE V8Literals ------------------------------
(***************************************************************************)
(* Array and object literals (runtime.cc).  The first evaluation of a      *)
(* literal by a closure makes a boilerplate from what the compiler left,   *)
(* and every evaluation a copy of it.  The elements that have to be        *)
(* computed are stored in the copy one by one, and the program, which may  *)
(* evaluate the literal again in between, changes the copies as it likes.  *)
(*                                                                         *)
(* A value is a small integer (0 to 9), a double (10 to 19), an object of  *)
(* the program's (20), or one of the objects here, Ref(o).  Arrays of      *)
(* elements are stores: one that is copied on write may be shared.  The    *)
(* properties of an object are modelled as elements.                       *)
(***************************************************************************)
EXTENDS Integers, Sequences, FiniteSets, FiniteSetsExt, SequencesExt, TLC

CONSTANTS Closures,   \* closures of one function: each has literals of its own
          Compiled,   \* the literals in the function, as the compiler left them
          Outer,      \* those of them that are not in another one
          MaxCopies,  \* bound on the evaluations of literals
          MaxChanged  \* bound on the objects the program changes

VARIABLES sites,    \* for each closure and literal the boilerplate, 0 for none yet
          objects,  \* the boilerplates and their copies, with the objects in them
          stores,   \* the arrays of elements; the first ones are the compiler's
          pending,  \* the elements still to be computed, with the site they are for
          seen      \* the objects the program knows of, with what it should find there

literalVars == <<sites, objects, stores, pending, seen>>

Heap   == [objects |-> objects, stores |-> stores]
Ref(o) == 100 + o

Kinds     == <<"smi", "double", "object">>
Rank(k)   == CHOOSE i \in DOMAIN Kinds : Kinds[i] = k
KindOf(v) == IF v < 10 THEN "smi" ELSE IF v < 20 THEN "double" ELSE "object"

Holds(kind, v)        == Rank(KindOf(v)) <= Rank(kind)
MoreGeneral(from, to) == Rank(from) < Rank(to)

\* In a literal's values, -l stands for the literal l within it.
IsNested(v) == v < 0
IsRef(v)    == v > 100
Refs(values) == {values[i] - 100 : i \in {j \in DOMAIN values : IsRef(values[j])}}

LiteralsInit ==
  /\ sites   = [c \in Closures |-> [l \in Outer |-> 0]]
  /\ objects = <<>>
  /\ stores  = [l \in DOMAIN Compiled |-> [values |-> Compiled[l].values,
                                           cow    |-> Compiled[l].cow]]
  /\ pending = {}
  /\ seen    = [o \in {} |-> <<>>]
-----------------------------------------------------------------------------
(* The heap: an object is given its elements, copied, and changes kind.    *)

\* The new object is the last one.
NewObject(h, kind, store) ==
  [h EXCEPT !.objects = Append(@, [kind |-> kind, store |-> store])]

NewStore(h, values) == [h EXCEPT !.stores = Append(@, [values |-> values, cow |-> FALSE])]

Elements(h, o) == h.stores[h.objects[o].store].values

\* Each element i for which P(v) holds becomes the reference to the object that Make adds.
WithObjects(h, store, P(_), Make(_, _)) ==
  FoldLeft(LAMBDA g, i :
             IF P(g.stores[store].values[i])
             THEN LET made == Make(g, g.stores[store].values[i])
                  IN [made EXCEPT !.stores[store].values[i] = Ref(Len(made.objects))]
             ELSE g,
           h, [i \in DOMAIN h.stores[store].values |-> i])

\* JSObject::DeepCopy: a store that is copied on write is shared, another is copied with
\* the objects in it.
RECURSIVE DeepCopy(_, _)
DeepCopy(h, o) ==
  LET old    == h.objects[o]
      copied == NewStore(h, h.stores[old.store].values)
      Copy(g, v) == DeepCopy(g, v - 100)
  IN IF h.stores[old.store].cow THEN NewObject(h, old.kind, old.store)
     ELSE NewObject(WithObjects(copied, Len(copied.stores), IsRef, Copy), old.kind,
                    Len(copied.stores))

\* JSObject::TransitionElementsKind: doubles have stores of their own.
TransitionElementsKind(h, o, kind) ==
  LET old == h.objects[o].kind
      new == IF "double" \in {old, kind} THEN NewStore(h, Elements(h, o)) ELSE h
  IN IF ~MoreGeneral(old, kind) THEN h
     ELSE [new EXCEPT !.objects[o] =
             [kind |-> kind, store |-> IF new = h THEN @.store ELSE Len(new.stores)]]

Put(h, o, i, v) == [h EXCEPT !.stores[h.objects[o].store].values[i] = v]

Become(h) == objects' = h.objects /\ stores' = h.stores
-----------------------------------------------------------------------------
(* Boilerplates.                                                           *)

\* The elements for the boilerplate: the compiler's own if they are copied on write.
CopiedElements(h, l) ==
  IF h.stores[l].cow THEN [heap |-> h, store |-> l]
  ELSE LET copied == NewStore(h, h.stores[l].values)
       IN [heap |-> copied, store |-> Len(copied.stores)]

\* The literals within the literal get boilerplates too, which it holds.
RECURSIVE CreateLiteralBoilerplate(_, _)
CreateLiteralBoilerplate(h, l) ==
  LET copied == CopiedElements(h, l)
      Create(g, v) == CreateLiteralBoilerplate(g, -v)
  IN NewObject(WithObjects(copied.heap, copied.store, IsNested, Create), Compiled[l].kind,
               copied.store)

\* The boilerplate is made unless it is there, and copied.
CreateLiteral(c, l) ==
  LET old         == sites[c][l]
      first       == IF old = 0 THEN CreateLiteralBoilerplate(Heap, l) ELSE Heap
      boilerplate == IF old = 0 THEN Len(first.objects) ELSE old
      h           == DeepCopy(first, boilerplate)
      copy        == Len(h.objects)
      Seen(values, site) == [values |-> values, site |-> site, changed |-> FALSE]
      nested == {i \in DOMAIN Compiled[l].values : IsNested(Compiled[l].values[i])}
      At(i)  == Elements(h, copy)[i]
      New(o) == IF o = copy
                THEN Seen([i \in DOMAIN Compiled[l].values |->
                             IF i \in nested THEN At(i) ELSE Compiled[l].values[i]], <<c, l>>)
                ELSE LET i == CHOOSE j \in nested : At(j) = Ref(o)
                     IN Seen(Compiled[-Compiled[l].values[i]].values, <<>>)
  IN /\ Cardinality({o \in DOMAIN seen : seen[o].site # <<>>}) < MaxCopies
     /\ Become(h)
     /\ sites' = [sites EXCEPT ![c][l] = boilerplate]
     /\ pending' = pending \cup {[object |-> copy, index |-> i, site |-> <<c, l>>] :
                                   i \in Compiled[l].computed}
     /\ seen' = [o \in DOMAIN seen \cup {copy} \cup {At(i) - 100 : i \in nested} |->
                   IF o \in DOMAIN seen THEN seen[o] ELSE New(o)]

\* An element the copy's kind cannot hold changes the kind of the copy, and that of the
\* boilerplate unless it is as general already.
StoreArrayLiteralElement(h, o, i, v, site) ==
  LET kind        == IF KindOf(v) = "double" THEN "double" ELSE "object"
      boilerplate == sites[site[1]][site[2]]
  IN Put(TransitionElementsKind(TransitionElementsKind(h, boilerplate, kind), o, kind), o, i, v)

\* Generated code computes an element, and stores it itself if it can.
ComputeElement(p, v) ==
  /\ p \in pending
  /\ pending' = pending \ {p}
  /\ IF Holds(objects[p.object].kind, v) THEN Become(Put(Heap, p.object, p.index, v))
     ELSE Become(StoreArrayLiteralElement(Heap, p.object, p.index, v, p.site))
  /\ seen' = [seen EXCEPT ![p.object].values[p.index] = v]
  /\ UNCHANGED sites

\* The program stores an element: the kind becomes one that holds it, that of the
\* boilerplate too if the object has a memento of its site, and a store that is copied on
\* write is copied.
StoreElement(o, i, v, memento) ==
  LET site == seen[o].site
      kind == KindOf(v)
      both == IF memento /\ site # <<>>
              THEN TransitionElementsKind(Heap, sites[site[1]][site[2]], kind) ELSE Heap
      own  == TransitionElementsKind(both, o, kind)
      h    == IF own.stores[own.objects[o].store].cow
              THEN [NewStore(own, Elements(own, o)) EXCEPT
                      !.objects[o].store = Len(own.stores) + 1]
              ELSE own
  IN /\ Become(Put(h, o, i, v))
     /\ seen' = [seen EXCEPT ![o].values[i] = v, ![o].changed = TRUE]
     /\ UNCHANGED <<sites, pending>>

LiteralsNext ==
  \/ \E c \in Closures, l \in Outer : CreateLiteral(c, l)
  \/ \E p \in pending, v \in {1, 10, 20} : ComputeElement(p, v)
  \/ \E o \in DOMAIN seen, memento \in BOOLEAN, v \in {11, 20} :
       /\ ~seen[o].changed
       /\ Cardinality({p \in DOMAIN seen : seen[p].changed}) < MaxChanged
       /\ StoreElement(o, 1, v, memento)
-----------------------------------------------------------------------------
(***************************************************************************)
(* The properties of the boilerplate of an object literal: constants is a  *)
(* list of keys and values.  A key is an internalised string [name], which *)
(* may be the decimal form of an index [name, index], an [index], or       *)
(* another number, of which [number] is the decimal form.                  *)
(***************************************************************************)
kMaxKeys == 10

\* From the cache of maps, for the names in their order, or a new one with room for size
\* properties.
ComputeObjectLiteralMap(constants) ==
  LET names   == SelectSeq([i \in DOMAIN constants |-> constants[i].key],
                           LAMBDA k : "name" \in DOMAIN k)
      others  == {i \in DOMAIN constants : "number" \in DOMAIN constants[i].key}
      indices == Len(constants) - Len(names) - Cardinality(others)
      first   == Min(others)
      before  == {i \in 1..first - 1 : DOMAIN constants[i].key = {"index"}}
  IN IF others = {} /\ Len(names) < kMaxKeys
     THEN [cached |-> TRUE, size |-> Len(constants) - indices]
     ELSE [cached |-> FALSE, size |-> IF others = {} THEN Len(constants) - indices
                                      ELSE Len(constants) - Cardinality(before)]

\* Later properties replace earlier ones; with a function literal among the values the
\* properties stay slow for now.
CreateObjectLiteralBoilerplate(constants, has_function_literal) ==
  LET Name(k)   == CASE "index" \in DOMAIN k  -> [index |-> k.index]
                     [] "number" \in DOMAIN k -> [name |-> k.number]
                     [] OTHER                 -> [name |-> k.name]
      names     == {Name(constants[i].key) : i \in DOMAIN constants}
      Last_(n)  == Max({i \in DOMAIN constants : Name(constants[i].key) = n})
  IN [properties |-> [n \in names |-> constants[Last_(n)].value],
      fast       |-> ~has_function_literal,
      \* With a function literal, the initial map, made slow with room for all.
      map        |-> IF has_function_literal THEN [cached |-> FALSE, size |-> Len(constants)]
                     ELSE ComputeObjectLiteralMap(constants)]
-----------------------------------------------------------------------------
\* Every evaluation of a literal yields an object of its own, the objects in it
\* included, with the values in the source, whatever became of the earlier ones; what the
\* compiler left stays as it is, also for other closures; only what is copied on write is
\* shared; and the kind of a boilerplate is one that its copies did not have to change.
LiteralsAreFresh ==
  /\ \A l \in DOMAIN Compiled : stores[l].values = Compiled[l].values
  /\ \A o \in DOMAIN seen : Elements(Heap, o) = seen[o].values
  /\ \A o \in DOMAIN objects : \A v \in Range(Elements(Heap, o)) : Holds(objects[o].kind, v)
  /\ \A o, p \in DOMAIN objects :
       o # p => /\ Refs(Elements(Heap, o)) \cap Refs(Elements(Heap, p)) = {}
                /\ objects[o].store = objects[p].store => stores[objects[o].store].cow
  /\ \A c \in Closures, l \in Outer :
       LET b == sites[c][l]
       IN b # 0 =>
            /\ b \notin DOMAIN seen
            /\ Refs(Elements(Heap, b)) \cap DOMAIN seen = {}
            /\ \A i \in DOMAIN Compiled[l].values :
                 LET v == Compiled[l].values[i]
                 IN IF IsNested(v)
                    THEN Elements(Heap, Elements(Heap, b)[i] - 100) = Compiled[-v].values
                    ELSE Elements(Heap, b)[i] = v
  /\ \A o \in DOMAIN seen :
       seen[o].site # <<>> /\ ~seen[o].changed =>
         ~MoreGeneral(objects[sites[seen[o].site[1]][seen[o].site[2]]].kind, objects[o].kind)

\* An object literal has the properties ECMAScript 5.1 (11.1.5) gives it, and a map from the
\* cache has room for its names.
ObjectLiteralAsES5(constants, has_function_literal) ==
  LET made == CreateObjectLiteralBoilerplate(constants, has_function_literal)
      Text(k)  == IF "name" \in DOMAIN k THEN k.name
                  ELSE IF "index" \in DOMAIN k THEN ToString(k.index) ELSE k.number
      TextOf(n) == IF "name" \in DOMAIN n THEN n.name ELSE ToString(n.index)
      named == {n \in DOMAIN made.properties : "name" \in DOMAIN n}
  IN /\ {TextOf(n) : n \in DOMAIN made.properties}
          = {Text(constants[i].key) : i \in DOMAIN constants}
     /\ \A n \in DOMAIN made.properties, i \in DOMAIN constants :
          /\ TextOf(n) = Text(constants[i].key)
          /\ \A j \in i + 1..Len(constants) : Text(constants[j].key) # TextOf(n)
          => made.properties[n] = constants[i].value
     /\ made.map.size >= Cardinality(named)
=============================================================================
