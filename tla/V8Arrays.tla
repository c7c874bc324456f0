------------------------------- MODULE V8Arrays -------------------------------
(***************************************************************************)
(* Array.prototype.concat and new Array as V8's runtime computes them      *)
(* (runtime.cc), and the helpers sort and the other array builtins ask     *)
(* about an array's elements.                                              *)
(*                                                                         *)
(* An array is its kind of elements, its length, the elements it has of    *)
(* its own and those it inherits; an index without an element is a hole.   *)
(* Accessors are left out: reading an element has no effect.               *)
(***************************************************************************)
EXTENDS Integers, Sequences, FiniteSets, FiniteSetsExt, SequencesExt, TLC

CONSTANTS MaxElementCount,             \* JSObject::kMaxElementCount, 2^32 - 1 in the code
          kInitialMaxFastElementArray  \* 100000

\* Values are told apart by representation only: small integers, doubles, objects.
Smis    == 1..9
Doubles == 11..19
Objects == 21..29

\* own and inherited are functions from the indices that have an element.
Array(kind, length, own, inherited) ==
  [kind |-> kind, length |-> length, own |-> own, inherited |-> inherited]

HasElement(a, i) == i \in DOMAIN a.own \cup DOMAIN a.inherited
GetElement(a, i) == IF i \in DOMAIN a.own THEN a.own[i] ELSE a.inherited[i]

\* An argument that is not an array is a single value.
Single(value) == Array("single", 1, 0 :> value, [i \in {} |-> 0])
ValueOf(x)    == x.own[0]
IsArray(x)    == x.kind # "single"
-----------------------------------------------------------------------------
\* Kinds by generality; dictionaries and external arrays are reached from any other
\* kind, and nothing is reached from them.
IsMoreGeneralElementsKindTransition(from, to) ==
  CASE from = "smi"    -> to # "smi"
    [] from = "double" -> to \notin {"smi", "double"}
    [] from = "object" -> FALSE
    [] OTHER           -> FALSE

EstimateElementCount(a) ==
  IF a.kind = "external" THEN a.length ELSE Cardinality(DOMAIN a.own)

\* What one argument of concat adds to the estimates.
ElementsKindOf(x) ==
  CASE IsArray(x)            -> IF x.length = 0 THEN "smi" ELSE x.kind
    [] ValueOf(x) \in Smis    -> "smi"
    [] ValueOf(x) \in Doubles -> "double"
    [] ValueOf(x) \in Objects -> "object"

LengthEstimate(x)  == IF IsArray(x) THEN x.length ELSE 1
ElementEstimate(x) == IF IsArray(x) THEN EstimateElementCount(x) ELSE 1

CappedAdd(m, n) == IF MaxElementCount - m < n THEN MaxElementCount ELSE m + n

\* Pass 1 over the arguments.
Estimate(args) ==
  FoldLeft(LAMBDA e, x :
             [kind   |-> IF IsMoreGeneralElementsKindTransition(e.kind, ElementsKindOf(x))
                         THEN ElementsKindOf(x) ELSE e.kind,
              length |-> CappedAdd(e.length, LengthEstimate(x)),
              count  |-> CappedAdd(e.count, ElementEstimate(x))],
           [kind |-> "smi", length |-> 0, count |-> 0], args)
-----------------------------------------------------------------------------
(***************************************************************************)
(* ArrayConcatVisitor.  Its storage is a fixed array of the estimated      *)
(* length, or a dictionary, which it becomes when an index lies beyond.    *)
(***************************************************************************)
NewVisitor(fast, size) ==
  [storage |-> [i \in {} |-> 0], fast |-> fast, size |-> size,
   offset |-> 0, exceeds |-> FALSE]

visit(v, i, elm) ==
  IF i > MaxElementCount - v.offset THEN [v EXCEPT !.exceeds = TRUE]
  ELSE LET index == v.offset + i
       IN [v EXCEPT !.storage = [j \in DOMAIN @ \cup {index} |->
                                   IF j = index THEN elm ELSE @[j]],
                    !.fast = @ /\ index < v.size]

increase_index_offset(v, delta) == [v EXCEPT !.offset = CappedAdd(@, delta)]

ToArray(v) == [length |-> v.offset, elements |-> v.storage]

\* The indices below range at which a, or what it inherits from, has elements: an
\* external array, dense, makes the ones found before it superfluous.
CollectElementIndices(a, range) ==
  {i \in (IF a.kind = "external" THEN 0..a.length - 1 ELSE DOMAIN a.own)
         \cup DOMAIN a.inherited : i < range}

\* Mutant: the prototypes of a dictionary are not looked at.
IteratedIndicesOwn(a) ==
  IF a.kind = "dictionary" THEN {i \in DOMAIN a.own : i < a.length}
  ELSE {i \in 0..a.length - 1 : HasElement(a, i)}

\* The indices IterateElements visits, each once and in ascending order: a dictionary's
\* are collected and sorted, fast elements are run through, with the holes looked up.
IteratedIndices(a) ==
  IF a.kind = "dictionary" THEN CollectElementIndices(a, a.length)
  ELSE {i \in 0..a.length - 1 : HasElement(a, i)}

IterateElements(a, v) ==
  LET indices == SetToSortSeq(IteratedIndices(a), <)
  IN increase_index_offset(
       FoldLeft(LAMBDA w, i : visit(w, i, GetElement(a, i)), v, indices), a.length)

IterateArgument(v, x) ==
  IF IsArray(x) THEN IterateElements(x, v) ELSE increase_index_offset(visit(v, 0, ValueOf(x)), 1)
-----------------------------------------------------------------------------
\* The fast path for doubles: the arguments' elements in a row, up to the first hole.
\* (A hole ends the loop, and what was copied so far is the result.)
DoubleElements(x) ==
  IF ~IsArray(x) THEN <<ValueOf(x)>>
  ELSE LET Holes == {i \in 0..x.length - 1 : i \notin DOMAIN x.own}
           n     == IF Holes = {} THEN x.length ELSE Min(Holes)
       IN [i \in 1..n |-> x.own[i - 1]]

HasHole(x) == IsArray(x) /\ \E i \in 0..x.length - 1 : i \notin DOMAIN x.own

ConcatDoubles(args) ==
  LET holes  == {k \in DOMAIN args : HasHole(args[k])}
      upto   == IF holes = {} THEN Len(args) ELSE Min(holes)
      values == FlattenSeq([k \in 1..upto |-> DoubleElements(args[k])])
  IN [length |-> Len(values), elements |-> [i \in 0..Len(values) - 1 |-> values[i + 1]]]

RangeError == [length |-> -1, elements |-> [i \in {} |-> 0]]

FastCase(args) == Estimate(args).count * 2 >= Estimate(args).length

Runtime_ArrayConcat(args) ==
  LET e == Estimate(args)
  IN IF FastCase(args) /\ e.kind = "double" THEN ConcatDoubles(args)
     ELSE LET v == FoldLeft(IterateArgument,
                            NewVisitor(FastCase(args), e.length), args)
          IN IF v.exceeds THEN RangeError ELSE ToArray(v)
-----------------------------------------------------------------------------
\* Where below length an array might have elements: a set of indices.
Runtime_GetArrayKeys(a, length) ==
  IF a.kind = "dictionary"
  THEN {i \in DOMAIN a.own \cup DOMAIN a.inherited : i < length}
  ELSE 0..Min({a.length, length}) - 1

\* The pair of arrays after the contents of from have been moved to to.
Runtime_MoveArrayContents(from, to) ==
  [from |-> [from EXCEPT !.length = 0, !.own = [i \in {} |-> 0], !.kind = "smi"],
   to   |-> [to EXCEPT !.length = from.length, !.own = from.own, !.kind = from.kind]]

Runtime_EstimateNumberOfElements(a) ==
  IF a.kind = "dictionary" THEN Cardinality(DOMAIN a.own) ELSE a.length
-----------------------------------------------------------------------------
(***************************************************************************)
(* new Array, and the allocation site of the call, which advises on the    *)
(* kind of elements: optimised code inlines the call for the site's kind,  *)
(* unless the site says that it must not.  An argument is one of Values,   *)
(* or, alone, may be a length: [length |-> n, smi |-> ...].                *)
(***************************************************************************)
IsLength(x) == "length" \in DOMAIN x
Value(v)    == [value |-> v]
Length(n, smi) == [length |-> n, smi |-> smi]
NoSite      == [kind |-> "none", holey |-> FALSE, inline |-> FALSE]

\* The kind that can hold an array's values, from the kind it has.
KindFor(kind, values) ==
  FoldLeft(LAMBDA k, v : LET n == ElementsKindOf(Single(v))
                         IN IF IsMoreGeneralElementsKindTransition(k, n) THEN n ELSE k,
           kind, values)

\* objects.cc: one argument that is a number is a length, a short one of an array of
\* holes; one that is not a number is an element.
ArrayConstructInitializeElements(kind, holey, args) ==
  LET values == [i \in DOMAIN args |-> args[i].value]
      n      == args[1].length
  IN CASE args = <<>> -> [kind |-> kind, holey |-> holey, length |-> 0, own |-> <<>>]
       [] Len(args) = 1 /\ IsLength(args[1]) ->
            [kind   |-> IF args[1].smi /\ n < kInitialMaxFastElementArray THEN kind
                        ELSE "dictionary",
             holey  |-> holey \/ n > 0, length |-> n, own |-> <<>>]
       [] OTHER -> [kind |-> KindFor(kind, values), holey |-> holey, length |-> Len(args),
                    own |-> values]

\* The new array and the site as it is left.  Without a site, or where its advice cannot
\* be used, the kind is the constructor's, small integers.
ArrayConstructorCommon(args, site) ==
  LET alone    == Len(args) = 1
      feedback == ~alone \/ (/\ IsLength(args[1]) /\ args[1].smi
                             /\ args[1].length < kInitialMaxFastElementArray)
      holey    == alone /\ feedback /\ args[1].length # 0
      advised  == site # NoSite /\ feedback
      from     == IF advised THEN [kind |-> site.kind, holey |-> site.holey \/ holey]
                  ELSE [kind |-> "smi", holey |-> holey]
      array    == ArrayConstructInitializeElements(from.kind, from.holey, args)
      changed  == array.kind # from.kind \/ array.holey # from.holey
  IN [array |-> array,
      site  |-> IF site = NoSite THEN NoSite
                ELSE [kind   |-> site.kind,
                      holey  |-> site.holey \/ (advised /\ holey),
                      inline |-> site.inline /\ ~changed /\ feedback]]

\* What ECMAScript 5.1 makes of the arguments, in elements that can hold them; and as
\* long as a call may be inlined, the kind of its site is that of the array it made.
ConstructedAsES5(args, site) ==
  LET r == ArrayConstructorCommon(args, site)
  IN /\ r.array.length = IF Len(args) = 1 /\ IsLength(args[1]) THEN args[1].length
                         ELSE Len(args)
     /\ Len(r.array.own) < r.array.length => r.array.holey \/ r.array.kind = "dictionary"
     /\ \A i \in DOMAIN r.array.own :
          /\ r.array.own[i] = args[i].value
          /\ KindFor(r.array.kind, <<r.array.own[i]>>) = r.array.kind
     /\ r.site.inline => /\ r.array.kind = r.site.kind
                         /\ r.array.holey => r.site.holey
-----------------------------------------------------------------------------
(***************************************************************************)
(* ECMAScript 5.1, 15.4.4.4: the elements of each argument that is an      *)
(* array, inherited ones included, follow each other with their holes.     *)
(***************************************************************************)
ES5Start(args, k) == FoldLeft(LAMBDA n, x : n + LengthEstimate(x), 0,
                               SubSeq(args, 1, k - 1))

ES5Concat(args) ==
  LET length == ES5Start(args, Len(args) + 1)
      Source(i) == CHOOSE k \in DOMAIN args :
                     ES5Start(args, k) <= i /\ i < ES5Start(args, k + 1)
      Has(i) == LET x == args[Source(i)]
                IN IsArray(x) => HasElement(x, i - ES5Start(args, Source(i)))
      Get(i) == LET x == args[Source(i)]
                IN IF IsArray(x) THEN GetElement(x, i - ES5Start(args, Source(i))) ELSE ValueOf(x)
  IN [length |-> length, elements |-> [i \in {j \in 0..length - 1 : Has(j)} |-> Get(i)]]
=============================================================================
