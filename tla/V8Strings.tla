------------------------------- MODULE V8Strings ------------------------------
(***************************************************************************)
(* What V8's runtime computes on strings (runtime.cc): String.prototype.   *)
(* replace with a global regular expression or a single character, match,  *)
(* split, the joins that build strings from arrays, and conversions of     *)
(* case.                                                                   *)
(*                                                                         *)
(* A string is a sequence of characters; positions count from 0, as in the *)
(* code.  The regular expression engine is external: a regular expression  *)
(* is the matches it has in the subject.                                   *)
(***************************************************************************)
EXTENDS Integers, Sequences, FiniteSets, FiniteSetsExt, SequencesExt

CONSTANTS kMaxLength,      \* String::kMaxLength
          SliceLengths,    \* 2^kStringBuilderConcatHelperLengthBits, 2^11 in the code
          SlicePositions   \* 2^kStringBuilderConcatHelperPositionBits, 2^19

\* Characters that do not fit into one byte.
Wide       == {"w", "Yuml"}
OneByte(s) == ToSet(s) \cap Wide = {}

\* What is read back from the characters written into a string of one byte each.
Written(s, one_byte) ==
  IF one_byte THEN [i \in DOMAIN s |-> IF s[i] \in Wide THEN "x" ELSE s[i]] ELSE s

Substring(s, from, to) == SubSeq(s, from + 1, to)
At(s, i)               == s[i + 1]

\* The exception for a string that is too long, and the one for a bad argument.
InvalidStringLength == <<"invalid string length">>
IllegalArgument     == <<"illegal argument">>

NewString(s, one_byte) ==
  IF Len(s) > kMaxLength THEN InvalidStringLength ELSE Written(s, one_byte)
-----------------------------------------------------------------------------
(***************************************************************************)
(* ReplacementStringBuilder, over a FixedArrayBuilder: an array of strings *)
(* and of slices of the subject, in one small integer or, when they do not *)
(* fit, in two.  What is written beyond the capacity is lost.              *)
(***************************************************************************)
Builder(capacity) == [array |-> <<>>, capacity |-> capacity, one_byte |-> TRUE]

\* The capacity is doubled until it is enough.
EnsureCapacity(b, elements) ==
  LET required == Len(b.array) + elements
  IN [b EXCEPT !.capacity = Min({c \in {@ * 2^k : k \in 0..required} : c >= required})]

Add(b, e) == IF Len(b.array) < b.capacity THEN [b EXCEPT !.array = Append(@, e)] ELSE b

AddSubjectSlice(b, from, to) ==
  LET length == to - from
  IN IF length < SliceLengths /\ from < SlicePositions
     THEN Add(b, [smi |-> length + SliceLengths * from])
     ELSE Add(Add(b, [smi |-> -length]), [smi |-> from])

AddString(b, s) == [Add(b, [string |-> s]) EXCEPT !.one_byte = @ /\ OneByte(s)]

IsSmi(e) == "smi" \in DOMAIN e

\* The characters an array of strings and slices stands for.  length is negative where
\* the last element announced a slice in two integers.
StringBuilderConcatHelper(special, array) ==
  FoldLeft(LAMBDA acc, e :
             CASE acc.length >= 0 ->
                    [chars |-> acc.chars \o Substring(special, e.smi, e.smi + acc.length),
                     length |-> -1]
               [] acc.length < 0 /\ ~IsSmi(e) ->
                    [acc EXCEPT !.chars = @ \o e.string]
               [] acc.length < 0 /\ IsSmi(e) /\ e.smi > 0 ->
                    LET from == e.smi \div SliceLengths
                    IN [acc EXCEPT !.chars =
                          @ \o Substring(special, from, from + (e.smi % SliceLengths))]
               [] OTHER -> [acc EXCEPT !.length = -e.smi],
           [chars |-> <<>>, length |-> -1], array).chars

\* The builder's string; one_byte was cleared by the first wide string that was added.
BuiltString(b, subject) ==
  NewString(StringBuilderConcatHelper(subject, b.array), b.one_byte /\ OneByte(subject))

\* The slices of an array are in range, and the ones in two integers are complete:
\* pending is the length that waits for its position, -1 when none does, -2 after an error.
IsIllegal(special, array) ==
  LET Check(from, length) == IF from >= 0 /\ from + length <= Len(special) THEN -1 ELSE -2
  IN FoldLeft(LAMBDA pending, e :
                CASE pending = -2  -> -2
                  [] pending >= 0  -> IF IsSmi(e) THEN Check(e.smi, pending) ELSE -2
                  [] pending = -1 /\ ~IsSmi(e) -> -1
                  [] OTHER -> IF e.smi <= 0 THEN -e.smi
                              ELSE Check(e.smi \div SliceLengths, e.smi % SliceLengths),
              -1, array) # -1

Runtime_StringBuilderConcat(array, special) ==
  CASE array = <<>> -> <<>>
    [] Len(array) = 1 /\ ~IsSmi(array[1]) -> array[1].string
    [] OTHER ->
         IF IsIllegal(special, array) THEN IllegalArgument
         ELSE NewString(StringBuilderConcatHelper(special, array),
                        /\ OneByte(special)
                        /\ \A i \in DOMAIN array : ~IsSmi(array[i]) => OneByte(array[i].string))
-----------------------------------------------------------------------------
(***************************************************************************)
(* CompiledReplacement: the parts of a replacement with $ patterns.        *)
(***************************************************************************)
Digits == [d \in {"0", "1", "2"} |-> CASE d = "0" -> 0 [] d = "1" -> 1 [] d = "2" -> 2]

Literal(s)    == [part |-> "substring", string |-> s, capture |-> 0]
Prefix        == [part |-> "prefix", string |-> <<>>, capture |-> 0]
Suffix        == [part |-> "suffix", string |-> <<>>, capture |-> 0]
Capture(n)    == [part |-> "capture", string |-> <<>>, capture |-> n]

\* The number of the capture that the digits after the $ at i refer to, and how many
\* digits they are: two when that many captures exist.
CaptureReference(r, i, capture_count) ==
  LET first == Digits[At(r, i + 1)]
      two   == /\ i + 2 < Len(r) /\ At(r, i + 2) \in DOMAIN Digits
               /\ first * 10 + Digits[At(r, i + 2)] <= capture_count
  IN IF two THEN [capture |-> first * 10 + Digits[At(r, i + 2)], digits |-> 2]
     ELSE [capture |-> first, digits |-> 1]

\* The characters from last on are not in a part yet; i is the next one to be read.
RECURSIVE ParseReplacementPattern(_, _, _, _, _)
ParseReplacementPattern(r, capture_count, i, last, parts) ==
  LET Parse(j, l, p) == ParseReplacementPattern(r, capture_count, j, l, p)
      Before(to)     == IF to > last THEN <<Literal(Substring(r, last, to))>> ELSE <<>>
  IN IF i >= Len(r) \/ (At(r, i) = "$" /\ i + 1 = Len(r))
     THEN IF Len(r) > last /\ last = 0 THEN [simple |-> TRUE, parts |-> <<>>]
          ELSE [simple |-> FALSE, parts |-> parts \o Before(Len(r))]
     ELSE
       CASE At(r, i) # "$" -> Parse(i + 1, last, parts)
         [] At(r, i) = "$" /\ At(r, i + 1) = "$" ->
              IF i > last THEN Parse(i + 2, i + 2, parts \o Before(i + 1))
              ELSE Parse(i + 2, i + 1, parts)
         [] At(r, i) = "$" /\ At(r, i + 1) = "backquote" ->
              Parse(i + 2, i + 2, parts \o Before(i) \o <<Prefix>>)
         [] At(r, i) = "$" /\ At(r, i + 1) = "'" ->
              Parse(i + 2, i + 2, parts \o Before(i) \o <<Suffix>>)
         [] At(r, i) = "$" /\ At(r, i + 1) = "&" ->
              Parse(i + 2, i + 2, parts \o Before(i) \o <<Capture(0)>>)
         [] At(r, i) = "$" /\ At(r, i + 1) \in DOMAIN Digits ->
              LET ref == CaptureReference(r, i, capture_count)
              IN CASE Digits[At(r, i + 1)] > capture_count -> Parse(i + 2, last, parts)
                   [] OTHER ->
                        IF ref.capture > 0
                        THEN Parse(i + 1 + ref.digits, i + 1 + ref.digits,
                                   parts \o Before(i) \o <<Capture(ref.capture)>>)
                        ELSE Parse(i + 1 + ref.digits, last, parts)
         [] OTHER -> Parse(i + 2, last, parts)

Compile(replacement, capture_count) ==
  ParseReplacementPattern(replacement, capture_count, 0, 0, <<>>)

\* match is the sequence of the pairs of positions of the match and of its captures.
Start(match) == match[1][1]
End(match)   == match[1][2]

Apply(b, parts, match, subject) ==
  LET Slice(c, from, to) == IF from >= 0 /\ to > from THEN AddSubjectSlice(c, from, to) ELSE c
      AddPart(c, p) ==
        CASE p.part = "prefix"    -> Slice(c, 0, Start(match))
          [] p.part = "suffix"    -> Slice(c, End(match), Len(subject))
          [] p.part = "capture"   -> Slice(c, match[p.capture + 1][1], match[p.capture + 1][2])
          [] p.part = "substring" -> AddString(c, p.string)
  IN FoldLeft(AddPart, b, parts)
-----------------------------------------------------------------------------
(***************************************************************************)
(* Search                                                                  *)
(***************************************************************************)
Occurs(s, p, i) == i + Len(p) <= Len(s) /\ Substring(s, i, i + Len(p)) = p

StringMatch(sub, pat, start_index) ==
  LET found == {i \in start_index..Len(sub) : Occurs(sub, pat, i)}
  IN IF found = {} THEN -1 ELSE Min(found)

\* Up to limit positions of a pattern, which do not overlap.
RECURSIVE FindStringIndices(_, _, _, _)
FindStringIndices(subject, pattern, index, limit) ==
  LET found == StringMatch(subject, pattern, index)
  IN IF limit = 0 \/ found = -1 THEN <<>>
     ELSE <<found>> \o FindStringIndices(subject, pattern, found + Len(pattern), limit - 1)

Runtime_StringLastIndexOf(sub, pat, index) ==
  LET start_index == IF index + Len(pat) > Len(sub) THEN Len(sub) - Len(pat) ELSE index
      found       == {i \in 0..start_index : Occurs(sub, pat, i)}
  IN CASE pat = <<>> -> start_index
       [] found = {}  -> -1
       [] OTHER       -> Max(found)

Runtime_StringTrim(s, trimLeft, trimRight) ==
  LET kept  == {i \in 0..Len(s) - 1 : At(s, i) # " "}
      left  == CASE ~trimLeft -> 0 [] kept = {} -> Len(s) [] OTHER -> Min(kept)
      right == CASE ~trimRight -> Len(s) [] kept = {} -> left [] OTHER -> Max(kept) + 1
  IN Substring(s, left, right)

\* A part ends at each occurrence and, below the limit, at the end of the subject.
Runtime_StringSplit(subject, pattern, limit) ==
  LET found   == FindStringIndices(subject, pattern, 0, limit)
      indices == IF Len(found) < limit THEN Append(found, Len(subject)) ELSE found
  IN [k \in DOMAIN indices |->
        Substring(subject, IF k = 1 THEN 0 ELSE indices[k - 1] + Len(pattern), indices[k])]
-----------------------------------------------------------------------------
(***************************************************************************)
(* Replacing.  A regular expression has its matches in the subject and, if *)
(* it is a mere string (JSRegExp::ATOM), its pattern.  The result is the   *)
(* string and what the last match information is set to.                   *)
(***************************************************************************)
Result(string, last) == [string |-> string, last |-> last]
Unchanged == <<>>

IsAtom(re) == re.pattern # <<>>

StringReplaceGlobalAtomRegExpWithString(subject, re, replacement) ==
  LET indices == FindStringIndices(subject, re.pattern, 0, Len(subject))
      n       == Len(indices)
      length  == (Len(replacement) - Len(re.pattern)) * n + Len(subject)
      subject_pos(k) == IF k = 1 THEN 0 ELSE indices[k - 1] + Len(re.pattern)
      chars   == FlattenSeq([k \in 1..n |-> Substring(subject, subject_pos(k), indices[k])
                                              \o replacement])
                 \o Substring(subject, subject_pos(n + 1), Len(subject))
  IN CASE n = 0 -> Result(subject, Unchanged)
       [] n > 0 /\ length > kMaxLength -> Result(InvalidStringLength, Unchanged)
       [] OTHER -> Result(Written(chars, OneByte(subject) /\ OneByte(replacement)),
                          <<<<indices[n], indices[n] + Len(re.pattern)>>>>)

\* Mutant: every component is taken to need one element.
PartsAddedPerLoopSingle(parts) == Len(parts) + 2

\* Two elements for each part, for what comes before it, and for the end.
PartsAddedPerLoop(parts) == 2 * (Len(parts) + 2)

StringReplaceGlobalRegExpWithString(subject, re, replacement) ==
  LET compiled == Compile(replacement, re.captures)
      AddMatch(acc, match) ==
        LET b == EnsureCapacity(acc.b, PartsAddedPerLoop(compiled.parts))
            c == IF acc.prev < Start(match)
                 THEN AddSubjectSlice(b, acc.prev, Start(match)) ELSE b
        IN [b    |-> IF compiled.simple THEN AddString(c, replacement)
                     ELSE Apply(c, compiled.parts, match, subject),
            prev |-> End(match)]
      expected == (Len(compiled.parts) + 1) * 4 + 1
      done     == FoldLeft(AddMatch, [b |-> Builder(expected), prev |-> 0], re.matches)
      builder  == IF done.prev < Len(subject)
                  THEN AddSubjectSlice(EnsureCapacity(done.b, 2), done.prev, Len(subject))
                  ELSE done.b
  IN CASE IsAtom(re) /\ compiled.simple ->
            StringReplaceGlobalAtomRegExpWithString(subject, re, replacement)
       [] ~(IsAtom(re) /\ compiled.simple) /\ re.matches = <<>> -> Result(subject, Unchanged)
       [] OTHER -> Result(BuiltString(builder, subject), Last(re.matches))

\* A first match that is the whole subject returns before the last match is set.
StringReplaceGlobalRegExpWithEmptyString(subject, re) ==
  LET ms      == re.matches
      new_length == Len(subject) - (End(ms[1]) - Start(ms[1]))
      prev(k)    == IF k = 1 THEN 0 ELSE End(ms[k - 1])
      chars      == FlattenSeq([k \in DOMAIN ms |-> Substring(subject, prev(k), Start(ms[k]))])
                    \o Substring(subject, prev(Len(ms) + 1), Len(subject))
  IN CASE IsAtom(re) -> StringReplaceGlobalAtomRegExpWithString(subject, re, <<>>)
       [] ~IsAtom(re) /\ ms = <<>> -> Result(subject, Unchanged)
       [] ~IsAtom(re) /\ ms # <<>> /\ new_length = 0 -> Result(<<>>, Unchanged)
       [] OTHER -> Result(Written(chars, OneByte(subject)), Last(ms))

Runtime_StringReplaceGlobalRegExpWithString(subject, re, replacement) ==
  IF replacement = <<>> THEN StringReplaceGlobalRegExpWithEmptyString(subject, re)
  ELSE StringReplaceGlobalRegExpWithString(subject, re, replacement)

Runtime_StringMatch(subject, re) ==
  [k \in DOMAIN re.matches |-> Substring(subject, Start(re.matches[k]), End(re.matches[k]))]

\* The array replace with a function works on: the matches (whose captures are handed to
\* the function) and the slices of the subject between them.
Runtime_RegExpExecMultiple(subject, re) ==
  LET AddMatch(acc, match) ==
        LET b == EnsureCapacity(acc.b, 5)
            c == IF acc.end < Start(match)
                 THEN AddSubjectSlice(b, acc.end, Start(match)) ELSE b
        IN [b |-> Add(c, [string |-> Substring(subject, Start(match), End(match))]),
            end |-> End(match)]
      done == FoldLeft(AddMatch, [b |-> Builder(16), end |-> 0], re.matches)
  IN IF re.matches # <<>> /\ done.end < Len(subject)
     THEN AddSubjectSlice(done.b, done.end, Len(subject)).array ELSE done.b.array
-----------------------------------------------------------------------------
(***************************************************************************)
(* Replacing one character in a tree of concatenated strings, which is     *)
(* flattened when it is deeper than the recursion limit.  In a node, the   *)
(* empty tree stands for a recursion that was given up.                    *)
(***************************************************************************)
Flat(s)             == [flat |-> s]
ConsString(fst, snd) == [first |-> fst, second |-> snd]
IsConsString(t)     == "first" \in DOMAIN t

RECURSIVE Flatten(_)
Flatten(t) == IF IsConsString(t) THEN Flatten(t.first) \o Flatten(t.second) ELSE t.flat

RECURSIVE StringReplaceOneCharWithString(_, _, _, _)
StringReplaceOneCharWithString(t, search, replace, recursion_limit) ==
  LET Aborted == [ok |-> FALSE, found |-> FALSE, tree |-> t]
      In(u)   == StringReplaceOneCharWithString(u, search, replace, recursion_limit - 1)
  IN CASE recursion_limit = 0 -> Aborted
       [] recursion_limit > 0 /\ ~IsConsString(t) ->
            LET index == StringMatch(t.flat, search, 0)
            IN IF index = -1 THEN [ok |-> TRUE, found |-> FALSE, tree |-> t]
               ELSE [ok |-> TRUE, found |-> TRUE,
                     tree |-> ConsString(
                                ConsString(Flat(Substring(t.flat, 0, index)), Flat(replace)),
                                Flat(Substring(t.flat, index + 1, Len(t.flat))))]
       [] OTHER ->
            LET first  == In(t.first)
                second == In(t.second)
            IN CASE ~first.ok -> Aborted
                 [] first.ok /\ first.found -> [first EXCEPT !.tree = ConsString(@, t.second)]
                 [] first.ok /\ ~first.found /\ ~second.ok -> Aborted
                 [] OTHER -> [second EXCEPT !.tree = IF second.found
                                                     THEN ConsString(t.first, @) ELSE t]

Runtime_StringReplaceOneCharWithString(t, search, replace, kRecursionLimit) ==
  LET first == StringReplaceOneCharWithString(t, search, replace, kRecursionLimit)
  IN Flatten(IF first.ok THEN first.tree
             ELSE StringReplaceOneCharWithString(Flat(Flatten(t)), search, replace,
                                                 kRecursionLimit).tree)
-----------------------------------------------------------------------------
(***************************************************************************)
(* Comparisons, of strings that may be flat, and single characters.        *)
(***************************************************************************)
CharCode == [c \in {"a", "b", "w"} |-> CASE c = "a" -> 97 [] c = "b" -> 98 [] c = "w" -> 969]

LESS == -1    EQUAL == 0    GREATER == 1

Difference(x, y, i) == CharCode[x[i]] - CharCode[y[i]]
Sign(d) == CASE d < 0 -> LESS [] d = 0 -> EQUAL [] d > 0 -> GREATER

RECURSIVE StringCharacterStreamCompare(_, _)
StringCharacterStreamCompare(x, y) ==
  IF x = <<>> \/ y = <<>>
  THEN IF y # <<>> THEN LESS ELSE IF x # <<>> THEN GREATER ELSE EQUAL
  ELSE LET d == Difference(x, y, 1)
       IN IF d # 0 THEN Sign(d) ELSE StringCharacterStreamCompare(Tail(x), Tail(y))

FlatStringCompare(x, y) ==
  LET prefix_length == Min({Len(x), Len(y)})
      differ        == {i \in 1..prefix_length : x[i] # y[i]}   \* CompareChars
      equal_prefix_result == Sign(Len(x) - Len(y))
  IN IF differ = {} THEN equal_prefix_result ELSE Sign(Difference(x, y, Min(differ)))

\* flat: both strings could be flattened.
RuntimeHidden_StringCompare(x, y, flat) ==
  CASE y = <<>> -> IF x = <<>> THEN EQUAL ELSE GREATER
    [] y # <<>> /\ x = <<>> -> LESS
    [] OTHER -> LET d == Difference(x, y, 1)
                IN IF d # 0 THEN Sign(d)
                   ELSE IF flat THEN FlatStringCompare(x, y)
                        ELSE StringCharacterStreamCompare(x, y)

Runtime_StringEquals(x, y) == IF x = y THEN EQUAL ELSE 1

\* A number with the sign of the comparison.
Runtime_StringLocaleCompare(x, y) ==
  LET differ == {i \in 1..Min({Len(x), Len(y)}) : x[i] # y[i]}
  IN CASE x = <<>> \/ y = <<>> -> Len(x) - Len(y)
       [] OTHER -> IF differ = {} THEN Len(x) - Len(y) ELSE Difference(x, y, Min(differ))

RuntimeHidden_SubString(s, start, end) ==
  IF end >= start /\ start >= 0 /\ end <= Len(s) THEN Substring(s, start, end)
  ELSE IllegalArgument

RuntimeHidden_StringCharCodeAt(s, i) == IF i >= Len(s) THEN "NaN" ELSE CharCode[At(s, i)]

\* How many of the first characters have a string in the cache.
CopyCachedAsciiCharsToArray(s, length, cached) ==
  LET missing == {i \in 1..length : s[i] \notin cached}
  IN IF missing = {} THEN length ELSE Min(missing) - 1

\* The prefix is copied from the cache, the rest looked up, each an array's element.
Runtime_StringToArray(s, limit, cached) ==
  LET length   == Min({Len(s), limit})
      position == IF OneByte(s) THEN CopyCachedAsciiCharsToArray(s, length, cached) ELSE 0
  IN [i \in 1..length |-> IF i <= position THEN <<s[i]>> ELSE Substring(s, i - 1, i)]
-----------------------------------------------------------------------------
(***************************************************************************)
(* Joins                                                                   *)
(***************************************************************************)
TotalLength(strings) == FoldLeft(LAMBDA n, s : n + Len(s), 0, strings)

\* The separator is not empty.
Runtime_StringBuilderJoin(strings, separator) ==
  LET max_nof_separators == (kMaxLength + Len(separator) - 1) \div Len(separator)
      length == (Len(strings) - 1) * Len(separator) + TotalLength(strings)
  IN CASE strings = <<>>  -> <<>>
       [] Len(strings) = 1 -> strings[1]
       [] OTHER ->
            IF max_nof_separators < Len(strings) - 1 \/ length > kMaxLength
            THEN InvalidStringLength
            ELSE strings[1] \o FlattenSeq([k \in 1..Len(strings) - 1 |->
                                             separator \o strings[k + 1]])

\* elements are the pairs of the position and the string of a sparse array's elements,
\* by position: separators are written up to the position of each string that has one.
JoinSparseArrayWithSeparator(elements, array_length, separator) ==
  LET Separators(n) == FlattenSeq([k \in 1..n |-> separator])
      AddElement(acc, e) ==
        IF e[2] = <<>> THEN acc
        ELSE [chars |-> acc.chars \o Separators(e[1] - acc.position) \o e[2],
              position |-> Max({acc.position, e[1]})]
      done == FoldLeft(AddElement, [chars |-> <<>>, position |-> 0], elements)
  IN done.chars \o Separators(array_length - 1 - done.position)

Runtime_SparseJoinWithSeparator(elements, array_length, separator) ==
  LET chars    == TotalLength([k \in DOMAIN elements |-> elements[k][2]])
      overflow == \/ chars > kMaxLength
                  \/ /\ separator # <<>>
                     /\ (kMaxLength - chars) \div Len(separator) < array_length - 1
  IN IF overflow THEN InvalidStringLength
     ELSE Written(JoinSparseArrayWithSeparator(elements, array_length, separator),
                  OneByte(separator) /\ \A k \in DOMAIN elements : OneByte(elements[k][2]))
-----------------------------------------------------------------------------
(***************************************************************************)
(* Conversion of case.  The tables are external; a character without an    *)
(* entry is its own conversion.  "ss" stands for the sharp s, "yuml" for   *)
(* the y with umlaut, whose upper case is wide.                            *)
(***************************************************************************)
Ascii == {"a", "A"}

ToUppercase == [c \in {"a", "ss", "yuml"} |->
                  CASE c = "a" -> <<"A">> [] c = "ss" -> <<"S", "S">> [] OTHER -> <<"Yuml">>]
ToLowercase == [c \in {"A", "Yuml"} |-> IF c = "A" THEN <<"a">> ELSE <<"yuml">>]

Mapped(c, to_lower) ==
  LET table == IF to_lower THEN ToLowercase ELSE ToUppercase
  IN IF c \in DOMAIN table THEN table[c] ELSE <<c>>

ToUpperOverflows(character) == character = "yuml"

\* The length of the whole conversion when the character k is the first that does not fit
\* and i characters are written: negative when the result has to be wide.  (The character
\* after k is not asked whether it overflows.)
RealLength(s, k, i, to_lower, ignore_overflow) ==
  LET length    == i + FoldLeft(LAMBDA n, c : n + Len(Mapped(c, to_lower)), 0,
                                SubSeq(s, k, Len(s)))
      overflows == \/ ToUpperOverflows(s[k])
                   \/ \E j \in k + 2..Len(s) : ToUpperOverflows(s[j])
  IN IF overflows /\ ~ignore_overflow THEN -length ELSE length

\* k is the next character; chars are the ones written to the result, of result_length.
RECURSIVE ConvertCaseHelper(_, _, _, _, _, _)
ConvertCaseHelper(s, to_lower, result_length, one_byte, k, chars) ==
  LET ignore_overflow == to_lower \/ ~one_byte
      converted == Mapped(s[k], to_lower)
      Fits      == /\ Len(converted) = 1
                   /\ converted = <<s[k]>> \/ ignore_overflow \/ ~ToUpperOverflows(s[k])
  IN CASE Len(chars) >= result_length -> [string |-> Written(chars, one_byte), length |-> 0]
       [] Len(chars) < result_length /\ ~Fits /\ result_length = Len(s) ->
            [string |-> <<>>, length |-> RealLength(s, k, Len(chars), to_lower, ignore_overflow)]
       [] OTHER -> ConvertCaseHelper(s, to_lower, result_length, one_byte, k + 1,
                                     chars \o converted)

ConvertCase(s, to_lower) ==
  LET Convert(length, one_byte) == ConvertCaseHelper(s, to_lower, length, one_byte, 1, <<>>)
      first == Convert(Len(s), OneByte(s))
  IN CASE s = <<>> \/ ToSet(s) \subseteq Ascii ->
            [k \in DOMAIN s |-> Mapped(s[k], to_lower)[1]]
       [] s # <<>> /\ ~(ToSet(s) \subseteq Ascii) /\ first.length = 0 -> first.string
       [] OTHER -> Convert(Max({first.length, -first.length}),
                           OneByte(s) /\ first.length > 0).string
-----------------------------------------------------------------------------
(***************************************************************************)
(* The reference: what ECMAScript 5.1 says of the results.                 *)
(***************************************************************************)
\* 15.5.4.11, table 22: the replacement with its $ patterns replaced, from i on.
RECURSIVE Expanded(_, _, _, _, _)
Expanded(subject, captures, match, r, i) ==
  LET Then(chars, j) == chars \o Expanded(subject, captures, match, r, j)
      IsNext(c)      == i + 1 < Len(r) /\ At(r, i + 1) = c
      IsDigit(j)     == j < Len(r) /\ At(r, j) \in DOMAIN Digits
      one            == Digits[At(r, i + 1)]
      both           == one * 10 + Digits[At(r, i + 2)]
      Captured(n)    == IF match[n + 1][1] < 0 THEN <<>>
                        ELSE Substring(subject, match[n + 1][1], match[n + 1][2])
  IN IF i >= Len(r) THEN <<>>
     ELSE IF At(r, i) # "$" THEN Then(<<At(r, i)>>, i + 1)
     ELSE CASE IsNext("$") -> Then(<<"$">>, i + 2)
            [] IsNext("&") -> Then(Substring(subject, Start(match), End(match)), i + 2)
            [] IsNext("backquote") -> Then(Substring(subject, 0, Start(match)), i + 2)
            [] IsNext("'") -> Then(Substring(subject, End(match), Len(subject)), i + 2)
            [] IsDigit(i + 1) ->
                 IF IsDigit(i + 2) /\ one <= captures /\ both \in 1..captures
                 THEN Then(Captured(both), i + 3)
                 ELSE IF one \in 1..captures THEN Then(Captured(one), i + 2)
                 ELSE Then(<<"$">>, i + 1)
            [] OTHER -> Then(<<"$">>, i + 1)

ES5Matches(subject, re) ==
  IF IsAtom(re)
  THEN LET indices == FindStringIndices(subject, re.pattern, 0, Len(subject))
       IN [k \in DOMAIN indices |-> <<<<indices[k], indices[k] + Len(re.pattern)>>>>]
  ELSE re.matches

\* The subject with Replacement(m) in the place of each match m.
ES5Replaced(subject, matches, Replacement(_)) ==
  LET prev(k) == IF k = 1 THEN 0 ELSE End(matches[k - 1])
  IN FlattenSeq([k \in DOMAIN matches |->
                   Substring(subject, prev(k), Start(matches[k])) \o Replacement(matches[k])])
     \o Substring(subject, prev(Len(matches) + 1), Len(subject))

Limited(s) == IF Len(s) > kMaxLength THEN InvalidStringLength ELSE s

ES5Replace(subject, re, replacement) ==
  LET ms == ES5Matches(subject, re)
  IN Limited(ES5Replaced(subject, ms,
                         LAMBDA m : Expanded(subject, re.captures, m, replacement, 0)))

\* Replacement with a function: it is called with each match.
ES5ReplaceWithFunction(subject, re, F(_)) ==
  Limited(ES5Replaced(subject, re.matches, LAMBDA m : F(Substring(subject, Start(m), End(m)))))

ReplaceWithFunction(subject, re, F(_)) ==
  LET array == Runtime_RegExpExecMultiple(subject, re)
  IN IF re.matches = <<>> THEN subject
     ELSE Runtime_StringBuilderConcat(
            [i \in DOMAIN array |-> IF IsSmi(array[i]) THEN array[i]
                                    ELSE [string |-> F(array[i].string)]], subject)

\* 15.4.4.5: elements that are not there join as empty strings.
ES5Join(elements, array_length, separator) ==
  LET At0(i) == LET es == {k \in DOMAIN elements : elements[k][1] = i}
                IN IF es = {} THEN <<>> ELSE elements[CHOOSE k \in es : TRUE][2]
  IN Limited(FlattenSeq([i \in 1..array_length |->
                           (IF i = 1 THEN <<>> ELSE separator) \o At0(i - 1)]))

\* 15.5.4.16 and 15.5.4.18: character by character.
ES5ConvertCase(s, to_lower) == FlattenSeq([k \in DOMAIN s |-> Mapped(s[k], to_lower)])

\* The comment at ConvertCaseHelper: the length is signed "if we need to allocate a
\* two-byte string".  It is not when the character that needs it follows the first one
\* that becomes longer, and no other needs it.
OverflowMissed(s) ==
  \E k \in DOMAIN s :
    /\ s[k] = "ss" /\ \A j \in 1..k - 1 : s[j] \notin {"ss", "yuml"}
    /\ k < Len(s) /\ s[k + 1] = "yuml"
    /\ \A j \in k + 2..Len(s) : s[j] # "yuml"
    /\ OneByte(s)
=============================================================================
