-------------------------------- MODULE V8Utf8 -------------------------------
(***************************************************************************)
(* How V8's API gives the embedder the characters of a string (api.cc):    *)
(* Write and WriteUtf8, Utf8Length and ContainsOnlyOneByte.  A string is   *)
(* flat or the concatenation of two, and a pair of surrogates may be split *)
(* between any of its parts.  The encoder of one character (unibrow::Utf8) *)
(* and the visit of a flat string are external.                            *)
(***************************************************************************)
EXTENDS Integers, Sequences, FiniteSets, FiniteSetsExt, SequencesExt

CONSTANT kMaxRecursion       \* 100 in the code

\* Characters of one, two and three bytes in UTF-8, the first two of one byte in
\* memory, and the two halves of a pair of surrogates.
CharsOfOneByte       == {"a", "e"}
IsLeadSurrogate(c)   == c = "lead"
IsTrailSurrogate(c)  == c = "trail"
NoPrevious           == "none"
IsSurrogatePair(previous, c) == IsLeadSurrogate(previous) /\ IsTrailSurrogate(c)

\* A flat string, of one or two bytes for each character, and a concatenation.  One
\* that has been flattened has the whole as its first part and "" as the second.
Flat(s, one_byte) == [chars |-> s, one_byte |-> one_byte]
EmptyString       == Flat(<<>>, TRUE)
ConsString(x, y)  == [first |-> x, second |-> y]
IsCons(s)         == "first" \in DOMAIN s

RECURSIVE Chars(_), HasOnlyOneByteChars(_)
Chars(s) == IF IsCons(s) THEN Chars(s.first) \o Chars(s.second) ELSE s.chars
HasOnlyOneByteChars(s) ==
  IF IsCons(s) THEN HasOnlyOneByteChars(s.first) /\ HasOnlyOneByteChars(s.second)
  ELSE s.one_byte

Length(s)    == Len(Chars(s))
FlatCopy(s)  == Flat(Chars(s), HasOnlyOneByteChars(s))
Flatten(s)   == IF IsCons(s) THEN ConsString(FlatCopy(s), EmptyString) ELSE s
FlattenGetString(s) == IF IsCons(s) THEN FlatCopy(s) ELSE s
-----------------------------------------------------------------------------
(***************************************************************************)
(* The encoder.  A byte is the character and its place in the encoding.    *)
(***************************************************************************)
Size     == [c \in {"a", "e", "u", "lead", "trail", "pair", "bad"} |->
               CASE c = "a" -> 1 [] c = "e" -> 2 [] c = "pair" -> 4 [] OTHER -> 3]
EncodingOf(c) == [k \in 1..Size[c] |-> <<c, k>>]
Null     == <<"null", 1>>

\* The trail surrogate of a pair rewrites the three bytes its lead left in the buffer.
Encode(buffer, c, previous, replace_invalid) ==
  CASE IsSurrogatePair(previous, c) -> SubSeq(buffer, 1, Len(buffer) - 3) \o EncodingOf("pair")
    [] /\ ~IsSurrogatePair(previous, c) /\ replace_invalid
       /\ IsLeadSurrogate(c) \/ IsTrailSurrogate(c) -> buffer \o EncodingOf("bad")
    [] OTHER -> buffer \o EncodingOf(c)

EncodedLength(c, previous) == IF IsSurrogatePair(previous, c) THEN 1 ELSE Size[c]
kBytesSavedByCombiningSurrogates == 2

\* The encoding of characters, pair by pair.
Unit(s, i) == IF i < Len(s) /\ IsSurrogatePair(s[i], s[i + 1]) THEN "pair" ELSE s[i]
Encoding(s, replace_invalid) ==
  FlattenSeq([i \in DOMAIN s |->
    CASE i > 1 /\ IsSurrogatePair(s[i - 1], s[i]) -> <<>>
      [] replace_invalid /\ Unit(s, i) \in {"lead", "trail"} -> EncodingOf("bad")
      [] OTHER -> EncodingOf(Unit(s, i))])
-----------------------------------------------------------------------------
(***************************************************************************)
(* ContainsOnlyOneByte                                                     *)
(***************************************************************************)
RECURSIVE Check(_)
Check(s) == IF IsCons(s) THEN Check(s.first) /\ Check(s.second)
            ELSE s.one_byte \/ ToSet(s.chars) \subseteq CharsOfOneByte

ContainsOnlyOneByte(s) == HasOnlyOneByteChars(s) \/ Check(s)
-----------------------------------------------------------------------------
(***************************************************************************)
(* Utf8Length: the sum over the leaves, less what the pairs that span two  *)
(* of them save.  Leaves are merged from both ends: state says how what is *)
(* merged on the left ends, and what is merged on the right starts.        *)
(***************************************************************************)
Measured(length, state) == [length |-> length, state |-> state]
Visited(s) ==
  Measured(MapThenSumSet(
             LAMBDA i : EncodedLength(s.chars[i], IF i = 1 THEN NoPrevious ELSE s.chars[i - 1]),
             DOMAIN s.chars),
           {f \in {"EndsWithLeadingSurrogate", "StartsWithTrailingSurrogate"} :
              /\ ~s.one_byte
              /\ IF f = "EndsWithLeadingSurrogate" THEN IsLeadSurrogate(Last(s.chars))
                 ELSE IsTrailSurrogate(Head(s.chars))})

\* flag is set if and only if value holds.
Put(state, flag, value) == IF value THEN state \cup {flag} ELSE state \ {flag}

\* A leaf, or a measured part, that borders on what was merged on one side: edge says
\* which half of a pair it has at the outer end, inner what it has at the other.
MergeLeaf(acc, leaf, calculated, surrogate, edge, inner) ==
  LET first == calculated \notin acc.state
      saved == IF ~first /\ edge \in leaf.state /\ inner \in acc.state
               THEN kBytesSavedByCombiningSurrogates ELSE 0
      state == IF first THEN Put(acc.state \cup {calculated}, surrogate, edge \in leaf.state)
               ELSE acc.state
  IN Measured(acc.length + leaf.length - saved, Put(state, inner, inner \in leaf.state))

MergeLeafLeft(acc, leaf) ==
  MergeLeaf(acc, leaf, "LeftmostEdgeIsCalculated", "LeftmostEdgeIsSurrogate",
            "StartsWithTrailingSurrogate", "EndsWithLeadingSurrogate")
MergeLeafRight(acc, leaf) ==
  MergeLeaf(acc, leaf, "RightmostEdgeIsCalculated", "RightmostEdgeIsSurrogate",
            "EndsWithLeadingSurrogate", "StartsWithTrailingSurrogate")

MergeTerminal(acc) ==
  Measured(acc.length - (IF {"EndsWithLeadingSurrogate", "StartsWithTrailingSurrogate"}
                              \subseteq acc.state
                         THEN kBytesSavedByCombiningSurrogates ELSE 0),
           Put(Put({}, "StartsWithTrailingSurrogate", "LeftmostEdgeIsSurrogate" \in acc.state),
               "EndsWithLeadingSurrogate", "RightmostEdgeIsSurrogate" \in acc.state))

\* Descends where one part is a concatenation; of two it recurses into the shorter.
RECURSIVE Calculate(_, _)
Calculate(s, acc) ==
  LET Done(x)    == Calculate(x, Measured(0, {}))
      into_left  == IsCons(s.first)
                    /\ (IsCons(s.second) => Length(s.first) >= Length(s.second))
      into_right == IsCons(s.second) /\ ~into_left
      left  == IF into_left THEN acc
               ELSE MergeLeafLeft(acc, IF IsCons(s.first) THEN Done(s.first)
                                       ELSE Visited(s.first))
      both  == IF into_right THEN left
               ELSE MergeLeafRight(left, IF IsCons(s.second) THEN Done(s.second)
                                         ELSE Visited(s.second))
  IN CASE into_left  -> Calculate(s.first, both)
       [] into_right -> Calculate(s.second, both)
       [] OTHER      -> MergeTerminal(both)

Utf8Length(s) ==
  IF IsCons(s) THEN Calculate(s, Measured(0, {})).length ELSE Visited(s).length
-----------------------------------------------------------------------------
(***************************************************************************)
(* Utf8WriterVisitor: buffer is what was written so far, read how many     *)
(* characters.                                                             *)
(***************************************************************************)
Writer(capacity, skip, replace) ==
  [early_termination |-> FALSE, last |-> NoPrevious, buffer |-> <<>>, capacity |-> capacity,
   skip |-> capacity = -1 \/ skip, replace |-> replace, read |-> 0]

Remaining(w) == w.capacity - Len(w.buffer)

EncodeNext(w, c, one_byte) ==
  [w EXCEPT !.buffer = Encode(@, c, w.last, w.replace),
            !.last = IF one_byte THEN NoPrevious ELSE c]

\* As many characters at a time as certainly fit, and one more.
RECURSIVE FastLoop(_, _, _)
FastLoop(w, s, i) ==
  LET max_size_per_char == IF s.one_byte THEN 2 ELSE 3
      writable_length   == (Remaining(w) - max_size_per_char) \div max_size_per_char
      fast_length       == IF w.skip THEN Len(s.chars)
                           ELSE Min({i + writable_length, Len(s.chars)})
      written           == FoldLeft(LAMBDA v, c : EncodeNext(v, c, s.one_byte), w,
                                    SubSeq(s.chars, i + 1, fast_length))
  IN CASE ~w.skip /\ writable_length <= 0 -> [w |-> w, i |-> i]
       [] fast_length = Len(s.chars)      -> [w |-> written, i |-> fast_length]
       [] OTHER                           -> FastLoop(written, s, fast_length)

\* The buffer after one more character, as it was if that does not fit.
WriteEndCharacter(w, c) ==
  LET written == Encode(<<>>, c, NoPrevious, w.replace)
  IN CASE IsSurrogatePair(w.last, c) -> Encode(w.buffer, c, w.last, w.replace)
       [] ~IsSurrogatePair(w.last, c) /\ Len(written) > Remaining(w) -> w.buffer
       [] OTHER -> w.buffer \o written

\* One by one, until the next does not fit; an unmatched lead is not replaced here.
RECURSIVE SlowLoop(_, _, _)
SlowLoop(w, s, i) ==
  LET c      == s.chars[i + 1]
      buffer == WriteEndCharacter(w, c)
  IN CASE i = Len(s.chars) \/ Remaining(w) <= 0 -> [w EXCEPT !.read = @ + i]
       [] (w.replace /\ IsLeadSurrogate(c)) \/ buffer = w.buffer ->
            [w EXCEPT !.read = @ + i, !.early_termination = TRUE]
       [] OTHER -> SlowLoop([w EXCEPT !.buffer = buffer, !.last = c], s, i + 1)

VisitString(w, s) ==
  LET started == IF s.one_byte THEN [w EXCEPT !.last = NoPrevious] ELSE w
      fast    == FastLoop(started, s, 0)
  IN CASE Len(s.chars) = 0      -> w
       [] fast.i = Len(s.chars) -> [fast.w EXCEPT !.read = @ + fast.i]
       [] OTHER                 -> SlowLoop(fast.w, s, fast.i)

\* What the writer did, and whether the depth of the left parts stayed in the budget.
RECURSIVE RecursivelySerializeToUtf8(_, _, _)
RecursivelySerializeToUtf8(s, w, recursion_budget) ==
  LET left == RecursivelySerializeToUtf8(s.first, w, recursion_budget - 1)
  IN CASE w.early_termination -> [w |-> w, success |-> TRUE]
       [] ~w.early_termination /\ ~IsCons(s) -> [w |-> VisitString(w, s), success |-> TRUE]
       [] ~w.early_termination /\ IsCons(s) /\ recursion_budget <= 0 ->
            [w |-> w, success |-> FALSE]
       [] OTHER -> IF left.success
                   THEN RecursivelySerializeToUtf8(s.second, left.w, recursion_budget)
                   ELSE left

CompleteWriteEarly(w, write_null) ==
  [buffer |-> IF write_null /\ (w.capacity = -1 \/ Len(w.buffer) < w.capacity)
              THEN Append(w.buffer, Null) ELSE w.buffer,
   nchars |-> w.read]

CompleteWrite(w, write_null) ==
  LET room == w.capacity = -1 \/ Len(w.buffer) < w.capacity
  IN [buffer |-> IF write_null /\ ~w.early_termination /\ room THEN Append(w.buffer, Null)
                 ELSE w.buffer,
      nchars |-> w.read]
-----------------------------------------------------------------------------
\* Write and WriteOneByte: the characters from start on, at most length of them unless
\* it is -1, and a null when one fits.  start is in the string.
Write(s, start, length, options) ==
  LET end == IF length = -1 \/ length > Length(s) - start THEN Length(s) ELSE start + length
  IN SubSeq(Chars(s), start + 1, end)
     \o (IF "NO_NULL_TERMINATION" \notin options /\ (length = -1 \/ end - start < length)
         THEN <<"null">> ELSE <<>>)

RECURSIVE WriteUtf8(_, _, _)
WriteUtf8(string, capacity, options) ==
  LET s          == IF "HINT_MANY_WRITES_EXPECTED" \in options THEN Flatten(string) ELSE string
      write_null == "NO_NULL_TERMINATION" \notin options
      replace    == "REPLACE_INVALID_UTF8" \in options
      serialized == RecursivelySerializeToUtf8(s, Writer(capacity, TRUE, replace),
                                               kMaxRecursion)
      unlimited  == capacity = -1 \/ capacity \div 3 >= Length(s)
      utf8_bytes == Utf8Length(s)
  IN CASE unlimited /\ serialized.success -> CompleteWrite(serialized.w, write_null)
       [] ~unlimited /\ utf8_bytes <= capacity /\ utf8_bytes = Length(s) ->
            [buffer |-> LET chars == Write(s, 0, capacity, options)
                        IN [k \in DOMAIN chars |-> <<chars[k], 1>>],
             nchars |-> Length(s)]
       [] ~unlimited /\ utf8_bytes <= capacity /\ utf8_bytes # Length(s) ->
            WriteUtf8(s, -1, IF utf8_bytes + 1 > capacity
                             THEN options \cup {"NO_NULL_TERMINATION"} ELSE options)
       [] OTHER -> CompleteWrite(VisitString(Writer(capacity, FALSE, replace),
                                             FlattenGetString(s)), write_null)
-----------------------------------------------------------------------------
\* A part that has been flattened before it was made part of a larger string, and that
\* ends with the first half of a pair: Calculate takes its empty second part for its end.
RECURSIVE EndsFlattened(_), FlattenedEdge(_)
EndsFlattened(s) == IsCons(s) /\ (s.second = EmptyString \/ EndsFlattened(s.second))
FlattenedEdge(s) ==
  /\ IsCons(s)
  /\ \/ FlattenedEdge(s.first) \/ FlattenedEdge(s.second)
     \/ /\ EndsFlattened(s.first) /\ Chars(s.second) # <<>>
        /\ IsSurrogatePair(Last(Chars(s.first)), Head(Chars(s.second)))

\* The characters and bytes of a string: whether one byte each suffices, and how many
\* bytes the encoding has.
MeasuredRight(s) ==
  /\ ContainsOnlyOneByte(s) = (ToSet(Chars(s)) \subseteq CharsOfOneByte)
  /\ Utf8Length(s) >= Len(Encoding(Chars(s), FALSE))
  /\ FlattenedEdge(s) \/ Utf8Length(s) = Len(Encoding(Chars(s), FALSE))

\* r, what WriteUtf8 returns, is right: it writes the encoding of the first nchars characters, within the capacity,
\* and a null if it is asked to and wrote everything and one more fits; it stops where
\* the next character does not fit, and half a pair is written only when no replacement
\* of invalid characters was asked for.
WrittenRight(r, s, capacity, options) ==
  LET chars    == Chars(s)
      replace  == "REPLACE_INVALID_UTF8" \in options
      Prefix(n) == Encoding(SubSeq(chars, 1, n), replace)
      body     == Prefix(r.nchars)
      all      == r.nchars = Len(chars)
      null     == /\ "NO_NULL_TERMINATION" \notin options
                  /\ all /\ (capacity = -1 \/ Len(body) < capacity)
      next     == chars[r.nchars + 1]
  IN /\ \/ r.buffer = (IF null THEN Append(body, Null) ELSE body)
        \/ FlattenedEdge(s) /\ r.buffer = body
     /\ capacity # -1 => Len(r.buffer) <= capacity
     /\ ~all => /\ capacity # -1
                /\ \/ Len(Prefix(r.nchars + 1)) > capacity
                   \/ replace /\ IsLeadSurrogate(next) /\ Len(body) + 6 > capacity
                /\ Len(Encoding(chars, replace)) > capacity \/ FlattenedEdge(s)
                /\ replace => ~(r.nchars > 0 /\ IsSurrogatePair(chars[r.nchars], next))

\* Write copies the part it is asked for, and ends it with a null if that fits.
CopiedRight(s, start, length, options) ==
  LET n == IF length = -1 THEN Length(s) - start ELSE Min({length, Length(s) - start})
      r == Write(s, start, length, options)
  IN /\ SubSeq(r, 1, n) = SubSeq(Chars(s), start + 1, start + n)
     /\ length # -1 => Len(r) <= length
     /\ Len(r) \in {n, n + 1} /\ (Len(r) > n => Last(r) = "null")
=============================================================================
