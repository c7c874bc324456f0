------------------------------ MODULE MCRuntime ------------------------------
(***************************************************************************)
(* The parts of V8's runtime (runtime.cc), one at a time: each behaviour   *)
(* picks a machine among V8Scopes, V8Objects, V8Tiers, V8Functions,        *)
(* V8Debug, V8Buffers, V8Cache, V8Literals, V8Embedding and V8Handles and  *)
(* runs it, the others stay at the start, or makes one call of a function  *)
(* of V8Arrays, V8Strings, V8Utf8 or V8Numbers on one of the inputs        *)
(* enumerated here.  Properties that are not here are those modules' own.  *)
(***************************************************************************)
EXTENDS V8Tiers, V8Scopes, V8Buffers, V8Cache, V8Embedding, V8Handles, TLC

VARIABLES machine, call,
          heap, allowed, objectCalls,                            \* V8Objects
          activation, bindings, generators, generatorFrames,
          written, binds, suspended,                             \* V8Functions
          frame, outer, counts, break_id, last_id,               \* V8Debug
          sites, objects, elements, pending, seen                \* V8Literals

Objects == INSTANCE V8Objects WITH
  Strings <- {"x"}, Symbols <- {"s"}, Indices <- {"0"}, Chars <- {"0"},
  Values <- {"a"}, MaxCalls <- 3, calls <- objectCalls

Functions == INSTANCE V8Functions WITH
  Parameters <- {"x", "y"}, Values <- Values, Generators <- {"g", "h"},
  MaxArguments <- 3, MaxBound <- 3, MaxOperands <- 2, frames <- generatorFrames

Debug == INSTANCE V8Debug WITH Names <- {"x", "y"}, Values <- {"a", "b"}, MaxBreaks <- 1

\* [1, 2], which is copied on write, [1, computed] and [[1], 1], all in one function.
Literals == INSTANCE V8Literals WITH
  Closures <- {"f", "g"}, Outer <- {1, 2, 3}, MaxCopies <- 3, MaxChanged <- 1,
  stores <- elements,
  Compiled <- <<[kind |-> "smi", values |-> <<1, 2>>, cow |-> TRUE, computed |-> {}],
                [kind |-> "smi", values |-> <<1, 0>>, cow |-> FALSE, computed |-> {2}],
                [kind |-> "object", values |-> <<-4, 1>>, cow |-> FALSE, computed |-> {}],
                [kind |-> "smi", values |-> <<1>>, cow |-> FALSE, computed |-> {}]>>

MaxElementCount == 5
kInitialMaxFastElementArray == 3
Arrays == INSTANCE V8Arrays

\* SliceLengths and SlicePositions are the bits of a builder's slice: the inputs have
\* slices on both sides of either limit, and results on both sides of kMaxLength.
Strings == INSTANCE V8Strings WITH
  kMaxLength <- 9, SliceLengths <- 2, SlicePositions <- 2

\* A string whose left part is a concatenation of concatenations is too deep.
Utf8 == INSTANCE V8Utf8 WITH kMaxRecursion <- 2

\* Integers of 8 bits have three digits and doubles a fraction of 8: scaling overflows,
\* and sums with 0.5 are rounded.  Units are 1/1024.
Numbers == INSTANCE V8Numbers WITH
  IntBits <- 8, SmiBits <- 8, FractionBits <- 8, UnitBits <- 10, MaxSmiDigits <- 3,
  kMaxTime <- 10, kMaxTimeBeforeUTC <- 13

objectVars   == <<heap, allowed, objectCalls>>
functionVars == <<activation, bindings, generators, generatorFrames, written, binds,
                  suspended>>
debugVars    == <<frame, outer, counts, break_id, last_id>>
literalVars  == <<sites, objects, elements, pending, seen>>
\* What the calls and the machines of runtime.cc leave alone.
apiVars      == <<embeddingVars, handleVars>>
runtimeVars  == <<call, scopeVars, objectVars, tierVars, functionVars, debugVars, bufferVars,
                  cacheVars, literalVars>>
vars == <<machine, runtimeVars, apiVars>>
-----------------------------------------------------------------------------
\* Inputs of Array.prototype.concat: arrays of each kind, with holes, that inherit
\* from one prototype, and single values.
Receivers(inherited) ==
  {Arrays!Array(k, n, own, inherited) :
     k \in {"smi"}, n \in 0..2, own \in UNION {[S -> {1}] : S \in SUBSET (0..1)}}
  \cup {Arrays!Array(k, n, own, inherited) :
     k \in {"double"}, n \in 0..2, own \in UNION {[S -> {11}] : S \in SUBSET (0..1)}}
  \cup {Arrays!Array(k, n, own, inherited) :
     k \in {"object"}, n \in 0..2, own \in UNION {[S -> {1, 21}] : S \in SUBSET (0..1)}}
  \cup {Arrays!Array(k, n, own, inherited) :
     k \in {"dictionary"}, n \in {1, 3}, own \in UNION {[S -> {21}] : S \in SUBSET (0..2)}}

Operands == UNION {{a \in Receivers(p) : \A i \in DOMAIN a.own : i < a.length} :
                     p \in {[i \in {} |-> 0], 0 :> 29, 1 :> 29}}
            \cup {Arrays!Single(v) : v \in {1, 11, 21}}

\* The arrays of a call share their prototype.
SamePrototype(args) ==
  \A j, k \in DOMAIN args : Arrays!IsArray(args[j]) /\ Arrays!IsArray(args[k])
                              => args[j].inherited = args[k].inherited

Concats == [op : {"concat"},
            args : {args \in BoundedSeq(Operands, 2) : SamePrototype(args)}
                   \cup {<<x, y, x>> : x, y \in {a \in Operands : ~Arrays!IsArray(a)
                                                               \/ a.length = 2}}]
\* Inputs of new Array: a length, small or not, or values; and sites of each kind.
Constructed ==
  [op : {"construct"},
   args : {<<Arrays!Length(n, smi)>> : n \in 0..4, smi \in BOOLEAN}
          \cup BoundedSeq({Arrays!Value(v) : v \in {1, 11, 21}}, 3),
   site : {Arrays!NoSite}
          \cup [kind : {"smi", "double", "object"}, holey : BOOLEAN, inline : BOOLEAN]]

\* The properties of an object literal.
PropertyKeys == {[name |-> "a"], [name |-> "b"], [name |-> "1", index |-> 1], [index |-> 1],
         [index |-> 2], [number |-> "1.5"]}
ObjectLiterals ==
  [op : {"object"}, constants : BoundedSeq([key : PropertyKeys, value : {1, 2}], 3),
   function : BOOLEAN]

\* Heaps of three objects, the first the target.
HeapObjects == [references : SUBSET {1}, prototypes : {{}, {"mirror"}},
                constructor : {"f", "g", "arguments"}]
References  == [op : {"references"}, objects : [1..3 -> HeapObjects], max : 0..3]
-----------------------------------------------------------------------------
(* Inputs of the functions on strings.  A string is a sequence of          *)
(* characters; a match of a regular expression is its capture positions.   *)

Word    == <<"a", "b", "c", "a", "b", "c">>
Spans(n) == {p \in (0..n) \X (0..n) : p[1] <= p[2]}
Follows(p, q) == q[1] >= p[2] /\ (p[1] = p[2] => q[1] > p[2])

\* What an expression with one group may match in a subject of n characters.
GroupMatches(n) ==
  {<<>>}
  \cup {<<<<p, c>>>> : p \in Spans(n), c \in {<<-1, -1>>, <<0, n>>}}
  \cup {<<<<pq[1], <<-1, -1>>>>, <<pq[2], pq[2]>>>> :
          pq \in {x \in Spans(n) \X Spans(n) : Follows(x[1], x[2])}}

ThreeMatches ==
  {<<<<p>>, <<q>>, <<r>>>> : p \in {<<0, 0>>, <<0, 1>>, <<1, 1>>, <<1, 2>>},
                             q \in {<<2, 2>>, <<2, 3>>, <<2, 4>>, <<3, 3>>, <<3, 4>>},
                             r \in {<<4, 4>>, <<4, 5>>, <<5, 5>>, <<4, 6>>, <<5, 6>>}}

Group(n)   == [pattern : {<<>>}, captures : {1}, matches : GroupMatches(n)]
Atoms      == [pattern : {<<"a">>, <<"a", "a">>, <<"a", "b">>}, captures : {0},
               matches : {<<>>}]
NoGroups   == [pattern : {<<>>}, captures : {0}, matches : ThreeMatches]

Replacements ==
  [op : {"replace"}, subject : {SubSeq(Word, 1, 2)}, re : Group(2),
   with : BoundedSeq({"$", "&", "'", "backquote", "1", "0", "w"}, 3)]
  \cup [op : {"replace"}, subject : {SubSeq(Word, 1, 3)}, re : Group(3),
        with : BoundedSeq({"$", "1", "w"}, 3) \cup {<<"$", "&", "$", "backquote">>}]
  \cup [op : {"replace"}, subject : BoundedSeq({"a", "b"}, 3), re : Atoms,
        with : {<<>>, <<"a">>, <<"w", "a">>, <<"b", "b", "b">>}]
  \cup [op : {"replace"}, subject : {Word}, re : NoGroups,
        with : {<<"$", "&">>, <<"$", "&", "$", "&">>, <<"x", "$", "&">>, <<"x">>,
                <<"$", "backquote">>}]

\* Cons strings of up to three parts.
Leaves == {Strings!Flat(s) : s \in BoundedSeq({"a", "b"}, 2)}
Pairs  == {Strings!ConsString(x, y) : x \in Leaves, y \in Leaves}
Trees  == Leaves \cup Pairs
          \cup {Strings!ConsString(x, Strings!Flat(<<c>>)) : x \in Pairs, c \in {"a", "b"}}
          \cup {Strings!ConsString(Strings!Flat(<<c>>), x) : x \in Pairs, c \in {"a", "b"}}

OneReplacements == [op : {"one"}, tree : Trees, with : {<<>>, <<"b">>, <<"a", "b">>}]

Splits == [op : {"split"}, subject : BoundedSeq({"a", "b"}, 4),
           pattern : {<<"a">>, <<"a", "b">>, <<"a", "a">>}, limit : 1..4]

Elements == {<<>>, <<"a">>, <<"w", "b">>}
Joins  == [op : {"join"}, strings : BoundedSeq(Elements, 3), with : {<<",">>, <<"w", ",">>}]
Sparse == [op : {"sparse"},
           elements : {<<>>} \cup {<<<<i, s>>>> : i \in 0..2, s \in Elements}
                      \cup {<<<<i, s>>, <<j, t>>>> : i \in 0..1, j \in 2..3,
                                                     s \in Elements, t \in Elements},
           length : {4}, with : {<<>>, <<",">>, <<",", ",">>}]

Conversions == [op : {"case"}, s : BoundedSeq({"a", "A", "ss", "yuml", "Yuml"}, 4),
                lower : BOOLEAN]
Comparisons == [op : {"compare"}, x : BoundedSeq({"a", "b", "w"}, 3),
                y : BoundedSeq({"a", "b", "w"}, 3), cached : SUBSET {"a", "b"},
                flat : BOOLEAN]

\* Strings of up to four parts, flattened or not, with pairs of surrogates across them.
Utf8Leaves == {Utf8!Flat(s, TRUE) : s \in {<<"a">>, <<"e">>, <<"a", "e">>}}
              \cup {Utf8!Flat(s, FALSE) : s \in BoundedSeq({"u", "lead", "trail"}, 2) \ {<<>>}}
              \cup {Utf8!Flat(<<"a">>, FALSE)}
Utf8Pairs(leaves) == LET pairs == {Utf8!ConsString(x, y) : x, y \in leaves}
                     IN pairs \cup {Utf8!Flatten(p) : p \in pairs}
Utf8Strings ==
  LET few   == {Utf8!Flat(<<"a">>, TRUE)}
               \cup {Utf8!Flat(s, FALSE) : s \in {<<"lead">>, <<"trail">>}}
      parts == few \cup Utf8Pairs(few)
  IN {Utf8!EmptyString} \cup Utf8Leaves \cup Utf8Pairs(Utf8Leaves)
     \cup {Utf8!ConsString(x, y) : x, y \in parts}
     \cup {Utf8!ConsString(Utf8!ConsString(x, y), y) : x \in Utf8Pairs(few), y \in few}

Writes == [op : {"utf8"}, string : Utf8Strings]
-----------------------------------------------------------------------------
(* Inputs of the functions on numbers.                                     *)

\* Doubles around the middle and the ends of each power of two, and 0.
Doubles == {Numbers!Finite(neg, m * 2^e) : neg \in BOOLEAN, e \in 0..12,
              m \in {256, 257, 258, 259, 383, 384, 385, 510, 511}}
           \cup {Numbers!Finite(neg, 0) : neg \in BOOLEAN}
           \cup {Numbers!Infinity(neg) : neg \in BOOLEAN} \cup {Numbers!NaN}

Wholes == {Numbers!Number(i) : i \in {-256, -129, -128, -3, -1, 0, 1, 2, 5, 7, 8, 127, 128,
                                     255, 257}}
Some   == Wholes \cup {Numbers!NaN, Numbers!Infinity(TRUE), Numbers!MinusZero,
                      Numbers!Finite(TRUE, 1536), Numbers!Finite(FALSE, 1536)}

Smis == {-128, -127, -101, -100, -99, -25, -20, -10, -9, -3, -2, -1, 0, 1, 2, 3, 9, 10, 11,
         12, 13, 19, 20, 25, 90, 99, 100, 101, 120, 126, 127}

Conversions1 == [op : {"number"}, x : Doubles \cup Wholes]
Operations   == [op : {"numbers"}, x : Some, y : Some]
SmiPairs     == [op : {"smis"}, x : Smis, y : Smis]
Numerals     == [op : {"numeral"}, s : BoundedSeq({"0", "1", "2", "-", "+", " ", "I", "nbsp",
                                                   "a"}, 3),
                 one_byte : BOOLEAN, has_hash : BOOLEAN]
Times        == [op : {"time"}, x : -14..14, is_utc : BOOLEAN, offset : -2..2]
-----------------------------------------------------------------------------
NoCall == [op |-> "none"]

\* V8Scopes and V8Functions do not tell one value from another.
Symmetry == Permutations(Values)

Machines == {"scopes", "objects", "tiers", "functions", "debug", "buffers", "cache", "literals",
             "embedding", "handles", "calls"}

IdleFrame == Debug!Entered(CHOOSE f \in Debug!Frames : TRUE)

\* The machines that may start in several states start in one of them when idle.
Init ==
  /\ machine \in Machines
  /\ call = NoCall
  /\ ScopesInit    /\ (machine # "scopes" => accessors = {})
  /\ Objects!ObjectsInit  /\ (machine # "objects" => allowed = {"KEYS"} /\ ~heap["proxy"].check)
  /\ TiersInit
  /\ Functions!FunctionsInit
  /\ Debug!DebugInit      /\ (machine # "debug" => frame = IdleFrame)
  /\ BuffersInit
  /\ CacheInit
  /\ Literals!LiteralsInit
  /\ EmbeddingInit /\ (machine # "embedding" => autorun)
  /\ HandlesInit

StepOf(m) == machine = m /\ UNCHANGED machine

RunScopes ==
  /\ StepOf("scopes") /\ ScopesNext
  /\ UNCHANGED <<call, objectVars, tierVars, functionVars, debugVars, bufferVars,
                 cacheVars, literalVars, apiVars>>

RunObjects ==
  /\ StepOf("objects") /\ Objects!ObjectsNext
  /\ UNCHANGED <<call, scopeVars, tierVars, functionVars, debugVars, bufferVars,
                 cacheVars, literalVars, apiVars>>

RunTiers ==
  /\ StepOf("tiers") /\ TiersNext
  /\ UNCHANGED <<call, scopeVars, objectVars, functionVars, debugVars, bufferVars,
                 cacheVars, literalVars, apiVars>>

RunFunctions ==
  /\ StepOf("functions") /\ Functions!FunctionsNext
  /\ UNCHANGED <<call, scopeVars, objectVars, tierVars, debugVars, bufferVars,
                 cacheVars, literalVars, apiVars>>

RunDebug ==
  /\ StepOf("debug") /\ Debug!DebugNext
  /\ UNCHANGED <<call, scopeVars, objectVars, tierVars, functionVars, bufferVars,
                 cacheVars, literalVars, apiVars>>

RunBuffers ==
  /\ StepOf("buffers") /\ BuffersNext
  /\ UNCHANGED <<call, scopeVars, objectVars, tierVars, functionVars, debugVars,
                 cacheVars, literalVars, apiVars>>

RunCache ==
  /\ StepOf("cache") /\ CacheNext
  /\ UNCHANGED <<call, scopeVars, objectVars, tierVars, functionVars, debugVars,
                 bufferVars, literalVars, apiVars>>

RunLiterals ==
  /\ StepOf("literals") /\ Literals!LiteralsNext
  /\ UNCHANGED <<call, scopeVars, objectVars, tierVars, functionVars, debugVars,
                 bufferVars, cacheVars, apiVars>>

RunEmbedding ==
  /\ StepOf("embedding") /\ EmbeddingNext
  /\ UNCHANGED <<runtimeVars, handleVars>>

RunHandles ==
  /\ StepOf("handles") /\ HandlesNext
  /\ UNCHANGED <<runtimeVars, embeddingVars>>

MakeCall ==
  /\ StepOf("calls") /\ call = NoCall
  /\ \/ call' \in Concats
     \/ call' \in Replacements
     \/ call' \in OneReplacements \cup Splits
     \/ call' \in Joins \cup Sparse
     \/ call' \in Writes
     \/ call' \in Conversions \cup Comparisons
     \/ call' \in Conversions1 \cup Operations
     \/ call' \in SmiPairs
     \/ call' \in Numerals
     \/ call' \in Constructed \cup References
     \/ call' \in Times
     \/ call' \in ObjectLiterals
  /\ UNCHANGED <<scopeVars, objectVars, tierVars, functionVars, debugVars, bufferVars,
                 cacheVars, literalVars, apiVars>>

Next == RunScopes \/ RunObjects \/ RunTiers \/ RunFunctions \/ RunDebug \/ RunBuffers
        \/ RunCache \/ RunLiterals \/ RunEmbedding \/ RunHandles \/ MakeCall

Spec == Init /\ [][Next]_vars
-----------------------------------------------------------------------------
(* V8Objects                                                               *)

\* The two ways to list an object's own names and the test for one of them agree with the
\* properties that the object and its hidden prototypes have, and a load by key and a load
\* by name of one property return the same.
QueriesAgree == machine = "objects" => Objects!NamesAgree /\ Objects!LoadsAgree

(* V8Functions                                                             *)

\* The arguments object has the values that were passed and assigned: parameters and
\* elements are one variable in sloppy mode and separate in strict mode.  A function bound
\* again and again calls the first target with its first this and the arguments of all
\* binds in order.  A generator is resumed with the operand stack and the handlers it was
\* suspended with, however many generators ran in between.
ValuesArrive ==
  machine = "functions" => /\ Functions!ArgumentsFollow /\ Functions!BindingsAreFlat
                           /\ Functions!GeneratorsResumeAsSuspended

(* V8Debug                                                                 *)

\* What the debugger shows of each scope of a frame is what the frame's variables hold,
\* and the objects it lists as referring to one are those that do.
InspectionIsTruthful ==
  /\ machine = "debug" => Debug!InspectionIsTruthful
  /\ call.op = "references" => Debug!ReferencesAreTruthful(call.objects, 1, call.max)

\* Setting a variable in the debugger changes that variable and no other.
OneVariableChanges == Debug!OneVariableChanges

-----------------------------------------------------------------------------
(* V8Arrays                                                                *)

ConcatenatedAsES5 ==
  LET r == Arrays!Runtime_ArrayConcat(call.args)
      e == Arrays!Estimate(call.args)
      length  == Arrays!ES5Start(call.args, Len(call.args) + 1)
      doubles == Arrays!FastCase(call.args) /\ e.kind = "double"
      holes   == \E k \in DOMAIN call.args : Arrays!HasHole(call.args[k])
  IN IF length > MaxElementCount /\ ~doubles THEN r.length \in {-1, MaxElementCount}
     ELSE (doubles /\ holes) \/ r = Arrays!ES5Concat(call.args)

\* concat, new Array and literals make what ECMAScript 5.1 says, except in concat's fast
\* path for doubles, which ends at a hole, and beyond the largest length, where the length
\* stays or it throws; code is inlined only for the kind of elements the call makes; and
\* each evaluation of a literal is a new object, whatever became of the earlier ones.
ArraysAreES5 ==
  CASE machine = "literals"  -> Literals!LiteralsAreFresh
    [] call.op = "object"    -> Literals!ObjectLiteralAsES5(call.constants, call.function)
    [] call.op = "concat"    -> ConcatenatedAsES5
    [] call.op = "construct" -> Arrays!ConstructedAsES5(call.args, call.site)
    [] OTHER -> TRUE
-----------------------------------------------------------------------------
(* V8Strings                                                               *)

ReplacedAsES5 ==
  LET r       == Strings!Runtime_StringReplaceGlobalRegExpWithString(call.subject, call.re,
                                                                     call.with)
      matches == Strings!ES5Matches(call.subject, call.re)
      string  == Strings!ES5Replace(call.subject, call.re, call.with)
      \* The whole subject is replaced by "": the function returns before it stores the
      \* last match.
      emptied == /\ call.with = <<>> /\ ~Strings!IsAtom(call.re)
                 /\ matches[1][1] = <<0, Len(call.subject)>>
      f(s)    == Append(s, "w")
  IN /\ r.string = string
     /\ matches # <<>> /\ string # Strings!InvalidStringLength =>
          \/ r.last = Last(matches)
          \/ emptied /\ r.last = Strings!Unchanged
     /\ ~Strings!IsAtom(call.re) =>
          Strings!ReplaceWithFunction(call.subject, call.re, f)
            = Strings!ES5ReplaceWithFunction(call.subject, call.re, f)

OneReplacedAsES5 ==
  LET s == Strings!Flatten(call.tree)
      i == Strings!StringMatch(s, <<"a">>, 0)
  IN Strings!Runtime_StringReplaceOneCharWithString(call.tree, <<"a">>, call.with, 2)
     = IF i = -1 THEN s
       ELSE Strings!Substring(s, 0, i) \o call.with \o Strings!Substring(s, i + 1, Len(s))

\* The parts of a split, joined by the pattern, are the subject; none holds the
\* pattern, and a limit keeps the first ones.
SplitAsES5 ==
  LET Parts(limit) == Strings!Runtime_StringSplit(call.subject, call.pattern, limit)
      all == Parts(Len(call.subject) + 1)
  IN /\ Parts(call.limit) = SubSeq(all, 1, Min({call.limit, Len(all)}))
     /\ Strings!Runtime_StringBuilderJoin(all, call.pattern) = call.subject
     /\ \A k \in DOMAIN all :
          ~\E i \in 0..Len(all[k]) : Strings!Occurs(all[k], call.pattern, i)

JoinedAsES5 ==
  Strings!Runtime_StringBuilderJoin(call.strings, call.with)
  = Strings!ES5Join([k \in DOMAIN call.strings |-> <<k - 1, call.strings[k]>>],
                    Len(call.strings), call.with)

SparseJoinedAsES5 ==
  Strings!Runtime_SparseJoinWithSeparator(call.elements, call.length, call.with)
  = Strings!ES5Join(call.elements, call.length, call.with)

ConvertedAsES5 ==
  Strings!ConvertCase(call.s, call.lower) = Strings!ES5ConvertCase(call.s, call.lower)

ComparedAsES5 ==
  LET x == [i \in DOMAIN call.x |-> Strings!CharCode[call.x[i]]]
      y == [i \in DOMAIN call.y |-> Strings!CharCode[call.y[i]]]
      order == Numbers!ES5StringCompare(x, y)
      locale == Strings!Runtime_StringLocaleCompare(call.x, call.y)
  IN /\ Strings!RuntimeHidden_StringCompare(call.x, call.y, call.flat) = order
     /\ Strings!Sign(locale) = order
     /\ (Strings!Runtime_StringEquals(call.x, call.y) = Strings!EQUAL) = (order = 0)
     /\ \A n \in 0..3 :
          LET chars == Strings!Runtime_StringToArray(call.x, n, call.cached)
          IN Len(chars) = Min({n, Len(x)}) /\ FlattenSeq(chars) = SubSeq(call.x, 1, Len(chars))
     /\ \A i \in 0..2 : Strings!RuntimeHidden_StringCharCodeAt(call.x, i) =
                         IF i < Len(x) THEN x[i + 1] ELSE "NaN"
     /\ \A from, to \in 0..3 :
          LET part == Strings!RuntimeHidden_SubString(call.x, from, to)
          IN (part = Strings!IllegalArgument) = (from > to \/ to > Len(x))

WrittenAsAsked ==
  LET s == call.string
  IN /\ Utf8!MeasuredRight(s)
     /\ \A capacity \in -1..9, options \in {{}, {"NO_NULL_TERMINATION"},
                                           {"REPLACE_INVALID_UTF8"},
                                           {"REPLACE_INVALID_UTF8", "NO_NULL_TERMINATION"},
                                           {"HINT_MANY_WRITES_EXPECTED"}} :
          \A r \in {Utf8!WriteUtf8(s, capacity, options)} :
            Utf8!WrittenRight(r, s, capacity, options)
     /\ \A start \in 0..Utf8!Length(s), length \in -1..2 : Utf8!CopiedRight(s, start, length, {})

\* replace, split, join, comparisons and the conversions of case return what ECMAScript 5.1
\* says, on whichever of their paths, with the known exception of toUpperCase; and the
\* embedder gets the characters of a string, or their UTF-8, as far as its buffer goes (v8.h).
StringsAreRight ==
  CASE call.op = "replace" -> ReplacedAsES5
    [] call.op = "one"     -> OneReplacedAsES5
    [] call.op = "split"   -> SplitAsES5
    [] call.op = "join"    -> JoinedAsES5
    [] call.op = "sparse"  -> SparseJoinedAsES5
    [] call.op = "compare" -> ComparedAsES5
    [] call.op = "utf8"    -> WrittenAsAsked
    [] call.op = "case"    -> ConvertedAsES5 \/ (~call.lower /\ Strings!OverflowMissed(call.s))
    [] OTHER -> TRUE
-----------------------------------------------------------------------------
(* V8Numbers                                                               *)

ConvertedToIntegers ==
  LET x == call.x
  IN /\ Numbers!Runtime_NumberToInteger(x) = Numbers!ES5ToInteger(x)
     /\ Numbers!Runtime_NumberToIntegerMapMinusZero(x)
         = IF Numbers!ES5ToInteger(x) = Numbers!MinusZero THEN Numbers!Number(0)
           ELSE Numbers!ES5ToInteger(x)
     /\ Numbers!Runtime_NumberToJSUint32(x) = Numbers!Number(Numbers!ES5ToUint32(x))
     /\ Numbers!Runtime_NumberToJSInt32(x) = Numbers!Number(Numbers!ES5ToInt32(x))
     /\ LET smi == Numbers!RuntimeHidden_NumberToSmi(x)
        IN IF smi = Numbers!NaN
           THEN \A i \in -128..127 : ~Numbers!Runtime_NumberEquals(x, Numbers!Number(i))
           ELSE Numbers!IsSmi(smi) /\ Numbers!Runtime_NumberEquals(x, smi)
     /\ Numbers!Runtime_RoundNumber(x) = Numbers!ES5Round(x)

OperatedAsES5 ==
  LET x == call.x
      y == call.y
      i == Numbers!ES5ToInt32(x)
      n == Numbers!ES5ToUint32(y) % 8
  IN /\ \A op \in {"or", "and", "xor"} :
          Numbers!Bitwise32(op, x, y) = Numbers!Number(Numbers!ES5Bitwise(op, x, y))
     /\ Numbers!Bitwise32("imul", x, y)
         = Numbers!Number(Numbers!Signed(i * Numbers!ES5ToInt32(y)))
     \* >> keeps the sign, >>> gives the same bits without it, and << undoes both.
     /\ Numbers!Runtime_NumberSar(x, y)
         = Numbers!Number(CHOOSE q \in -128..127 : q * 2^n <= i /\ i < (q + 1) * 2^n)
     /\ Numbers!ES5ToInt32(Numbers!Runtime_NumberShl(Numbers!Runtime_NumberSar(x, y), y))
         = Numbers!ES5ToInt32(Numbers!Runtime_NumberShl(Numbers!Runtime_NumberShr(x, y), y))
     /\ Numbers!Runtime_NumberShr(x, y).neg = FALSE
     /\ LET c(a, b) == Numbers!Runtime_NumberCompare(a, b, 2)
        IN /\ (c(x, y) = 2) = (Numbers!NaN \in {x, y})
           /\ (c(x, y) = Numbers!EQUAL) = Numbers!Runtime_NumberEquals(x, y)
           /\ c(x, y) # 2 => c(y, x) = -c(x, y)

\* Integers compare as their decimal strings do.
SortedAsStrings ==
  Numbers!Runtime_SmiLexicographicCompare(call.x, call.y)
  = Numbers!ES5StringCompare(Numbers!Decimal(call.x), Numbers!Decimal(call.y))

\* The short cut agrees with the conversion of any string, and the index it stores for
\* a string is the one the string is the canonical numeral of.
ReadAsES5 ==
  LET r == Numbers!Runtime_StringToNumber(call.s, call.one_byte, call.has_hash)
      digits == [k \in DOMAIN call.s |-> IF call.s[k] \in DOMAIN Numbers!DigitValue
                                         THEN Numbers!DigitValue[call.s[k]] ELSE -1]
  IN /\ r.number = Numbers!StringToDouble(call.s)
     /\ r.index # -1 => Numbers!Decimal(r.index) = digits /\ ~call.has_hash

\* A date is set to a time in range, or to NaN, and its flag says which.
SetAsES5 ==
  LET r == Numbers!Runtime_DateSetValue(call.x, call.is_utc, call.offset)
      time == IF call.is_utc THEN call.x ELSE Numbers!ToUTC(call.x, call.offset)
  IN /\ r.value = Numbers!ES5TimeClip(time)
     /\ r.is_value_nan = (r.value = Numbers!NaN)

\* Conversions, operations and comparisons of numbers return what ECMAScript 5.1 says,
\* at the edges of 32 bits, of small integers and of a double's precision.
NumbersAreES5 ==
  CASE call.op = "number"  -> ConvertedToIntegers
    [] call.op = "numbers" -> OperatedAsES5
    [] call.op = "smis"    -> SortedAsStrings
    [] call.op = "numeral" -> ReadAsES5
    [] call.op = "time"    -> SetAsES5
    [] OTHER -> TRUE
=============================================================================
