--------------------------- MODULE V8EmbeddingProofs ---------------------------
(***************************************************************************)
(* What is proved of the API of the embedder: V8Handles for every block    *)
(* size, every set of threads and every bound on blocks, scopes and        *)
(* handles; V8Embedding for all exceptions and callbacks, and every bound  *)
(* on frames, TryCatch blocks and microtasks.                              *)
(***************************************************************************)
EXTENDS V8Handles, V8Embedding, NumberLemmas, SequenceTheorems, TLAPS

-----------------------------------------------------------------------------
(***************************************************************************)
(* 1. V8Handles.                                                           *)
(*                                                                         *)
(* The invariant relates the handles to the implementers of the threads.   *)
(* A scope remembers where its implementer was when it began, so each      *)
(* implementer has a mark for every open scope and one for where it is     *)
(* now. At each mark the blocks below it hold exactly the handles of the   *)
(* scopes that were open then (ScopesHold): that is what closing a scope   *)
(* goes back to. A deferred scope leaves the rest of its first block       *)
(* unused, which is why the marks after it are in higher blocks            *)
(* (DeferredApart), and no two implementers or detached lists share a      *)
(* block (Apart), or a block freed by one could be visited by the other.   *)
(***************************************************************************)
\* A scope's saved position, or the current one above all scopes: mark j of an implementer.
Top(i)        == Len(i.scopes) + 1
NextAt(i, j)  == IF j = Top(i) THEN i.next ELSE i.scopes[j].next
LimitAt(i, j) == IF j = Top(i) THEN i.limit ELSE i.scopes[j].limit

\* The number of blocks up to the one with the limit.
Height(i, limit) == IF limit = Null THEN 0
                    ELSE CHOOSE k \in 1..Len(i.blocks) : limit = Limit(i.blocks[k])
HeightAt(i, j)   == Height(i, LimitAt(i, j))

\* What the collector would visit with the scopes from j on closed.
Visited(i, j) ==
  UNION {VisitPointers(i.blocks[k], IF k = HeightAt(i, j) THEN NextAt(i, j)
                                    ELSE i.last_handle_before_deferred_block) :
           k \in 1..HeightAt(i, j)}

Position == ({0} \cup Blocks) \X (0..kHandleBlockSize)
ScopeKinds    == {"scope", "escapable", "deferred"}
Implementer == [next : Position, limit : Position, blocks : Seq(Blocks), spare : {0} \cup Blocks,
                last_handle_before_deferred_block : Position,
                scopes : Seq([kind : ScopeKinds, next : Position, limit : Position, escaped : BOOLEAN])]

BlocksDistinct(i) ==
  /\ \A k, l \in 1..Len(i.blocks) : i.blocks[k] = i.blocks[l] => k = l
  /\ \A k \in 1..Len(i.blocks) : i.blocks[k] # i.spare

\* A mark is a place in one of the blocks, or before all.
MarkInBlock(i, j) ==
  \/ LimitAt(i, j) = Null /\ NextAt(i, j) = Null
  \/ \E k \in 1..Len(i.blocks), o \in 0..kHandleBlockSize :
       LimitAt(i, j) = Limit(i.blocks[k]) /\ NextAt(i, j) = <<i.blocks[k], o>>

MarksInOrder(i) ==
  /\ \A j \in 1..Top(i) : MarkInBlock(i, j)
  /\ \A j, l \in 1..Top(i) : j <= l => HeightAt(i, j) <= HeightAt(i, l)
  /\ HeightAt(i, Top(i)) = Len(i.blocks)

IsDeferred(i, d) == d \in 1..Len(i.scopes) /\ i.scopes[d].kind = "deferred"

DeferredApart(i) ==
  /\ \A d, e \in 1..Len(i.scopes) : IsDeferred(i, d) /\ IsDeferred(i, e) => d = e
  /\ \A d \in 1..Len(i.scopes) : IsDeferred(i, d) =>
       /\ i.last_handle_before_deferred_block = i.scopes[d].next
       /\ HeightAt(i, d) # 0
       /\ HeightAt(i, d) < HeightAt(i, d + 1)
  /\ \/ i.last_handle_before_deferred_block = Null
     \/ \E d \in 1..Len(i.scopes) : IsDeferred(i, d)

Sound(i) == i \in Implementer /\ BlocksDistinct(i) /\ MarksInOrder(i) /\ DeferredApart(i)

Impl(t) == IF t = active THEN impl ELSE archived[t]
Held(t) == Owned(Impl(t)) \ {0}

SlotsOf(hs, scopes) == {h.slot : h \in {h \in hs : h.scope \in scopes}}
ScopesBelow(t, j)   == {<<t, k>> : k \in 1..j - 1}

\* At each of its marks the implementer visits the handles of the scopes outside.
Covers(i, t, hs) == \A j \in 1..Top(i) : Visited(i, j) = SlotsOf(hs, ScopesBelow(t, j))

Handle == [scope : (Threads \X Nat) \cup ({"detached"} \X Nat), slot : Slots]

HandlesType ==
  /\ active \in Threads \cup {"none"}
  /\ impl \in Implementer /\ (active = "none" => impl = Fresh)
  /\ archived \in [Threads -> Implementer] /\ (active # "none" => archived[active] = Fresh)
  /\ IsFiniteSet(detached)
  /\ \A d \in detached : d \in [id : Nat, limit : Position, blocks : Seq(Blocks)] /\ d.blocks # <<>>
  /\ handles \subseteq Handle

Numbered ==
  /\ \A d \in detached : d.id \in 1..Cardinality(detached)
  /\ \A n \in 1..Cardinality(detached) : \E d \in detached : d.id = n
  /\ \A c, d \in detached : c.id = d.id => c = d

Apart ==
  /\ \A t, u \in Threads : t # u => Held(t) \cap Held(u) = {}
  /\ \A t \in Threads, d \in detached : Held(t) \cap ToSet(d.blocks) = {}
  /\ \A c, d \in detached : c # d => ToSet(c.blocks) \cap ToSet(d.blocks) = {}

HandlesBelong ==
  \A h \in handles :
    \/ \E t \in Threads : h.scope \in ScopesBelow(t, Top(Impl(t)))
    \/ \E d \in detached : h.scope = <<"detached", d.id>>

ScopesHold ==
  /\ \A t \in Threads : Covers(Impl(t), t, handles)
  /\ \A d \in detached : IterateDeferred(d) = SlotsOf(handles, {<<"detached", d.id>>})

SlotsDistinct == \A g, h \in handles : g.slot = h.slot => g = h

HandlesInv ==
  /\ HandlesType /\ Numbered /\ Apart /\ HandlesBelong /\ ScopesHold /\ SlotsDistinct
  /\ \A t \in Threads : Sound(Impl(t))
-----------------------------------------------------------------------------
(***************************************************************************)
(* Implementers: their marks, which are the ends of the scopes and the     *)
(* current position, and what the collector visits below each of them.     *)
(***************************************************************************)
LEMMA MaxOf ==
  ASSUME NEW k \in Nat, NEW S, S \subseteq 0..k, S # {}
  PROVE  Max(S) \in S /\ \A m \in S : Max(S) >= m
  BY GreatestNumber DEF Max

LEMMA Limits ==
  ASSUME NEW b \in Blocks, NEW c \in Blocks
  PROVE  /\ Limit(b) = Limit(c) => b = c
         /\ Limit(b) # Null /\ Limit(b)[1] = b /\ Null[1] # b
  BY BlockAssumption DEF Limit, Null, Blocks

LEMMA SoundParts ==
  ASSUME NEW i, Sound(i)
  PROVE  /\ i.blocks \in Seq(Blocks) /\ Len(i.blocks) \in Nat
         /\ \A k \in 1..Len(i.blocks) : i.blocks[k] \in Blocks
         /\ i.scopes \in Seq([kind : ScopeKinds, next : Position, limit : Position, escaped : BOOLEAN])
         /\ Len(i.scopes) \in Nat /\ Top(i) \in Nat
         /\ BlocksDistinct(i) /\ i.spare \in {0} \cup Blocks
         /\ i.last_handle_before_deferred_block \in Position
         /\ i.next \in Position /\ i.limit \in Position
  <1>1. /\ i.blocks \in Seq(Blocks)
        /\ i.scopes \in Seq([kind : ScopeKinds, next : Position, limit : Position, escaped : BOOLEAN])
        /\ i.spare \in {0} \cup Blocks
        /\ i.last_handle_before_deferred_block \in Position
        /\ i.next \in Position /\ i.limit \in Position
    BY DEF Sound, Implementer
  <1> QED BY <1>1 DEF Sound, Top

LEMMA HeightIs ==
  ASSUME NEW i, i.blocks \in Seq(Blocks), BlocksDistinct(i), NEW k \in 1..Len(i.blocks)
  PROVE  Height(i, Limit(i.blocks[k])) = k
  <1>1. \A l \in 1..Len(i.blocks) : i.blocks[l] \in Blocks
    OBVIOUS
  <1>2. \A l \in 1..Len(i.blocks) : Limit(i.blocks[k]) = Limit(i.blocks[l]) => l = k
    BY <1>1, Limits DEF BlocksDistinct
  <1>3. Limit(i.blocks[k]) # Null
    BY <1>1, Limits
  <1> QED BY <1>2, <1>3 DEF Height

\* The mark's block, and where in it the mark is.
MarkIs(i, j, h) ==
  /\ h \in 0..Len(i.blocks)
  /\ HeightAt(i, j) = h
  /\ h = 0 => LimitAt(i, j) = Null /\ NextAt(i, j) = Null
  /\ h # 0 => /\ LimitAt(i, j) = Limit(i.blocks[h])
              /\ NextAt(i, j)[1] = i.blocks[h]
              /\ NextAt(i, j)[2] \in 0..kHandleBlockSize
              /\ NextAt(i, j) = <<NextAt(i, j)[1], NextAt(i, j)[2]>>

LEMMA MarkHasHeight ==
  ASSUME NEW i, i.blocks \in Seq(Blocks), BlocksDistinct(i), NEW j, MarkInBlock(i, j)
  PROVE  MarkIs(i, j, HeightAt(i, j))
  <1>1. CASE LimitAt(i, j) = Null /\ NextAt(i, j) = Null
    <2>1. HeightAt(i, j) = 0
      BY <1>1 DEF HeightAt, Height
    <2> QED BY <1>1, <2>1 DEF MarkIs
  <1>2. CASE \E k \in 1..Len(i.blocks), o \in 0..kHandleBlockSize :
               LimitAt(i, j) = Limit(i.blocks[k]) /\ NextAt(i, j) = <<i.blocks[k], o>>
    <2>1. PICK k \in 1..Len(i.blocks), o \in 0..kHandleBlockSize :
               LimitAt(i, j) = Limit(i.blocks[k]) /\ NextAt(i, j) = <<i.blocks[k], o>>
      BY <1>2
    <2>2. HeightAt(i, j) = k
      BY <2>1, HeightIs DEF HeightAt
    <2>3. k \in 0..Len(i.blocks) /\ k # 0
      OBVIOUS
    <2> QED BY <2>1, <2>2, <2>3 DEF MarkIs
  <1> QED BY <1>1, <1>2 DEF MarkInBlock

LEMMA Marks ==
  ASSUME NEW i, Sound(i), NEW j \in 1..Top(i)
  PROVE  MarkIs(i, j, HeightAt(i, j))
  <1>1. MarkInBlock(i, j)
    BY DEF Sound, MarksInOrder
  <1> QED BY <1>1, SoundParts, MarkHasHeight

LEMMA VisitedIs ==
  ASSUME NEW i, NEW j, NEW s
  PROVE  s \in Visited(i, j) <=>
           /\ s \in Slots
           /\ \E k \in 1..HeightAt(i, j) :
                /\ s[1] = i.blocks[k]
                /\ IF k = HeightAt(i, j)
                   THEN NextAt(i, j)[1] = i.blocks[k] => s[2] < NextAt(i, j)[2]
                   ELSE i.last_handle_before_deferred_block[1] = i.blocks[k]
                          => s[2] < i.last_handle_before_deferred_block[2]
  BY DEF Visited, VisitPointers, Within

\* Mark j of i is mark l of m: the same place, and the same blocks up to there.
SameMark(i, j, m, l) ==
  /\ NextAt(m, l) = NextAt(i, j) /\ LimitAt(m, l) = LimitAt(i, j)
  /\ HeightAt(i, j) <= Len(m.blocks)
  /\ \A k \in 1..HeightAt(i, j) : m.blocks[k] = i.blocks[k]

LastAgrees(i, j, m) ==
  \/ m.last_handle_before_deferred_block = i.last_handle_before_deferred_block
  \/ \A k \in 1..HeightAt(i, j) - 1 : /\ i.last_handle_before_deferred_block[1] # i.blocks[k]
                                      /\ m.last_handle_before_deferred_block[1] # i.blocks[k]

LEMMA SameMarkSame ==
  ASSUME NEW i, Sound(i), NEW j \in 1..Top(i),
         NEW m, m.blocks \in Seq(Blocks), BlocksDistinct(m), NEW l, SameMark(i, j, m, l)
  PROVE  /\ MarkInBlock(m, l)
         /\ HeightAt(m, l) = HeightAt(i, j)
         /\ LastAgrees(i, j, m) => Visited(m, l) = Visited(i, j)
  <1> DEFINE h == HeightAt(i, j)
  <1>1. MarkIs(i, j, h)
    BY Marks
  <1>2. CASE h = 0
    <2>1. LimitAt(m, l) = Null /\ NextAt(m, l) = Null
      BY <1>1, <1>2 DEF MarkIs, SameMark
    <2>2. HeightAt(m, l) = 0
      BY <2>1 DEF HeightAt, Height
    <2>3. Visited(m, l) = {} /\ Visited(i, j) = {}
      BY <1>2, <2>2, VisitedIs
    <2> QED BY <1>2, <2>1, <2>2, <2>3 DEF MarkInBlock
  <1>3. CASE h # 0
    <2>1. h \in 1..Len(m.blocks) /\ h \in 1..Len(i.blocks) /\ m.blocks[h] = i.blocks[h]
          /\ \A k \in 1..h : m.blocks[k] = i.blocks[k]
      <3>1. Len(m.blocks) \in Nat /\ Len(i.blocks) \in Nat
        BY SoundParts
      <3>2. h \in 1..Len(i.blocks) /\ h <= Len(m.blocks) /\ \A k \in 1..h : m.blocks[k] = i.blocks[k]
        BY <1>1, <1>3, <3>1 DEF MarkIs, SameMark
      <3> QED BY <3>1, <3>2
    <2>2. /\ LimitAt(m, l) = Limit(m.blocks[h])
          /\ NextAt(m, l) = NextAt(i, j)
          /\ NextAt(m, l) = <<m.blocks[h], NextAt(m, l)[2]>>
          /\ NextAt(m, l)[2] \in 0..kHandleBlockSize
      BY <1>1, <1>3, <2>1 DEF MarkIs, SameMark
    <2>3. HeightAt(m, l) = h
      BY <2>1, <2>2, HeightIs DEF HeightAt
    <2>4. MarkInBlock(m, l)
      BY <2>1, <2>2 DEF MarkInBlock
    <2>5. ASSUME LastAgrees(i, j, m), NEW s
          PROVE  s \in Visited(m, l) <=> s \in Visited(i, j)
      <3> HIDE DEF h
      <3>1. \A k \in 1..h : k # h =>
              ((i.last_handle_before_deferred_block[1] = i.blocks[k]
                  => s[2] < i.last_handle_before_deferred_block[2])
               <=> (m.last_handle_before_deferred_block[1] = m.blocks[k]
                  => s[2] < m.last_handle_before_deferred_block[2]))
        <4>1. \A k \in 1..h : k # h => k \in 1..h - 1
          BY <2>1
        <4>2. HeightAt(i, j) = h
          BY DEF h
        <4> QED BY <2>1, <2>5, <4>1, <4>2 DEF LastAgrees
      <3>2. HeightAt(i, j) = h
        BY DEF h
      <3>3. s \in Visited(m, l) <=>
              /\ s \in Slots
              /\ \E k \in 1..h :
                   /\ s[1] = m.blocks[k]
                   /\ IF k = h
                      THEN NextAt(m, l)[1] = m.blocks[k] => s[2] < NextAt(m, l)[2]
                      ELSE m.last_handle_before_deferred_block[1] = m.blocks[k]
                             => s[2] < m.last_handle_before_deferred_block[2]
        BY <2>3, VisitedIs
      <3>4. s \in Visited(i, j) <=>
              /\ s \in Slots
              /\ \E k \in 1..h :
                   /\ s[1] = i.blocks[k]
                   /\ IF k = h
                      THEN NextAt(i, j)[1] = i.blocks[k] => s[2] < NextAt(i, j)[2]
                      ELSE i.last_handle_before_deferred_block[1] = i.blocks[k]
                             => s[2] < i.last_handle_before_deferred_block[2]
        BY <3>2, VisitedIs
      <3> QED BY <2>1, <2>2, <3>1, <3>3, <3>4
    <2> QED BY <2>3, <2>4, <2>5
  <1> QED BY <1>2, <1>3

\* The deferred scope, if there is one: where it began.
LEMMA Deferred ==
  ASSUME NEW i, Sound(i)
  PROVE  \/ i.last_handle_before_deferred_block = Null
         \/ \E d \in 1..Len(i.scopes) :
              /\ IsDeferred(i, d)
              /\ i.last_handle_before_deferred_block = NextAt(i, d)
              /\ HeightAt(i, d) \in 1..Len(i.blocks)
              /\ i.last_handle_before_deferred_block[1] = i.blocks[HeightAt(i, d)]
              /\ \A j \in 1..Top(i) : d < j => HeightAt(i, d) < HeightAt(i, j)
              /\ \A j \in 1..Top(i) : j <= d => HeightAt(i, j) <= HeightAt(i, d)
  <1>1. CASE \E d \in 1..Len(i.scopes) : IsDeferred(i, d)
    <2>1. PICK d \in 1..Len(i.scopes) : IsDeferred(i, d)
      BY <1>1
    <2>2. /\ Len(i.scopes) \in Nat /\ Top(i) = Len(i.scopes) + 1 /\ Len(i.blocks) \in Nat
          /\ d \in 1..Top(i) /\ d + 1 \in 1..Top(i) /\ d # Top(i)
      BY SoundParts DEF Top
    <2>3. /\ i.last_handle_before_deferred_block = i.scopes[d].next
          /\ HeightAt(i, d) # 0 /\ HeightAt(i, d) < HeightAt(i, d + 1)
      BY <2>1 DEF Sound, DeferredApart
    <2>4. i.last_handle_before_deferred_block = NextAt(i, d)
      BY <2>2, <2>3 DEF NextAt
    <2>5. /\ HeightAt(i, d) \in 1..Len(i.blocks) /\ NextAt(i, d)[1] = i.blocks[HeightAt(i, d)]
      BY <2>2, <2>3, Marks DEF MarkIs
    <2>6. ASSUME NEW j \in 1..Top(i) PROVE HeightAt(i, j) \in Nat
      BY <2>2, Marks DEF MarkIs
    <2>7. \A j \in 1..Top(i) : d < j => HeightAt(i, d) < HeightAt(i, j)
      <3>1. \A j \in 1..Top(i) : d < j => HeightAt(i, d + 1) <= HeightAt(i, j)
        BY <2>2 DEF Sound, MarksInOrder
      <3> QED BY <2>2, <2>3, <2>6, <3>1
    <2>8. \A j \in 1..Top(i) : j <= d => HeightAt(i, j) <= HeightAt(i, d)
      BY <2>2 DEF Sound, MarksInOrder
    <2> QED BY <2>1, <2>4, <2>5, <2>7, <2>8
  <1> QED BY <1>1 DEF Sound, DeferredApart

-----------------------------------------------------------------------------
(***************************************************************************)
(* What the operations do to one implementer: a scope closed, a block      *)
(* added, a deferred scope begun, a scope opened, an escape, a handle      *)
(* created.                                                                *)
(***************************************************************************)
\* What a step keeps of an implementer: the scopes up to n and the blocks below them.
Kept(i, m, n) ==
  /\ n \in 0..Top(m) /\ n \in 0..Top(i)
  /\ \A j \in 1..n : SameMark(i, j, m, j)
  /\ \A j \in 1..n : j <= Len(m.scopes) /\ j <= Len(i.scopes) => m.scopes[j].kind = i.scopes[j].kind

LEMMA KeptMarks ==
  ASSUME NEW i, Sound(i), NEW m \in Implementer, BlocksDistinct(m), NEW n, Kept(i, m, n),
         NEW j \in 1..n
  PROVE  /\ MarkInBlock(m, j) /\ HeightAt(m, j) = HeightAt(i, j)
         /\ HeightAt(i, j) \in Nat /\ HeightAt(m, j) <= Len(m.blocks)
         /\ LastAgrees(i, j, m) => Visited(m, j) = Visited(i, j)
  <1>1. Top(i) \in Nat /\ n \in 0..Top(i) /\ j \in 1..Top(i)
    BY SoundParts DEF Kept
  <1>2. SameMark(i, j, m, j) /\ m.blocks \in Seq(Blocks)
    BY DEF Kept, Implementer
  <1>3. HeightAt(i, j) \in Nat
    BY <1>1, Marks, SoundParts DEF MarkIs
  <1> QED BY <1>1, <1>2, <1>3, SameMarkSame DEF SameMark

LEMMA OrderKept ==
  ASSUME NEW i, Sound(i), NEW m \in Implementer, BlocksDistinct(m), NEW n, Kept(i, m, n),
         Top(m) \in {n, n + 1}, MarkInBlock(m, Top(m)), HeightAt(m, Top(m)) = Len(m.blocks)
  PROVE  MarksInOrder(m)
  <1>1. n \in Nat /\ Len(m.blocks) \in Nat /\ n \in 0..Top(i) /\ Top(m) \in Nat
    <2>1. Top(i) \in Nat
      BY SoundParts
    <2>2. m.blocks \in Seq(Blocks)
      BY DEF Implementer
    <2> QED BY <2>1, <2>2 DEF Kept
  <1>2. \A j \in 1..Top(m) : j \in 1..n \/ j = Top(m)
    BY <1>1
  <1>3. \A j \in 1..Top(m) : MarkInBlock(m, j)
    BY <1>2, KeptMarks
  <1>4. \A j \in 1..Top(m) : HeightAt(m, j) <= Len(m.blocks)
    BY <1>1, <1>2, KeptMarks
  <1>5. ASSUME NEW j \in 1..Top(m), NEW l \in 1..Top(m), j <= l
        PROVE  HeightAt(m, j) <= HeightAt(m, l)
    <2>1. CASE l = Top(m)
      BY <1>4, <2>1
    <2>2. CASE l # Top(m)
      <3>1. j \in 1..n /\ l \in 1..n
        BY <1>1, <1>2, <1>5, <2>2
      <3>2. HeightAt(m, j) = HeightAt(i, j) /\ HeightAt(m, l) = HeightAt(i, l)
        BY <3>1, KeptMarks
      <3>3. j \in 1..Top(i) /\ l \in 1..Top(i)
        BY <1>1, <3>1, SoundParts
      <3>4. HeightAt(i, j) <= HeightAt(i, l)
        BY <1>5, <3>3 DEF Sound, MarksInOrder
      <3> QED BY <3>2, <3>4
    <2> QED BY <2>1, <2>2
  <1> QED BY <1>3, <1>5 DEF MarksInOrder

\* The block of the mark before a deferred scope is not below a mark up to that scope.
LEMMA LastAbove ==
  ASSUME NEW i, Sound(i), NEW j \in 1..Top(i),
         \A d \in 1..Len(i.scopes) : IsDeferred(i, d) => j <= d,
         NEW k \in 1..HeightAt(i, j) - 1
  PROVE  i.last_handle_before_deferred_block[1] # i.blocks[k]
  <1>1. /\ HeightAt(i, j) \in 0..Len(i.blocks) /\ Len(i.blocks) \in Nat
        /\ \A l \in 1..Len(i.blocks) : i.blocks[l] \in Blocks
    BY Marks, SoundParts DEF MarkIs
  <1>2. k \in 1..Len(i.blocks) /\ k < HeightAt(i, j)
    BY <1>1
  <1>3. CASE i.last_handle_before_deferred_block = Null
    BY <1>1, <1>2, <1>3 DEF Null, Blocks
  <1>4. CASE i.last_handle_before_deferred_block # Null
    <2>1. PICK d \in 1..Len(i.scopes) :
            /\ IsDeferred(i, d)
            /\ HeightAt(i, d) \in 1..Len(i.blocks)
            /\ i.last_handle_before_deferred_block[1] = i.blocks[HeightAt(i, d)]
            /\ \A e \in 1..Top(i) : e <= d => HeightAt(i, e) <= HeightAt(i, d)
      BY <1>4, Deferred
    <2>2. HeightAt(i, j) <= HeightAt(i, d)
      BY <2>1
    <2>3. HeightAt(i, d) # k
      BY <1>1, <1>2, <2>1, <2>2
    <2> QED BY <1>2, <2>1, <2>3 DEF Sound, BlocksDistinct
  <1> QED BY <1>3, <1>4

LEMMA LastNotTop ==
  ASSUME NEW i, Sound(i), i.blocks # <<>>
  PROVE  i.last_handle_before_deferred_block[1] # i.blocks[Len(i.blocks)]
  <1>1. /\ Len(i.blocks) \in Nat \ {0}
        /\ \A l \in 1..Len(i.blocks) : i.blocks[l] \in Blocks
    BY SoundParts
  <1>2. CASE i.last_handle_before_deferred_block = Null
    BY <1>1, <1>2 DEF Null, Blocks
  <1>3. CASE i.last_handle_before_deferred_block # Null
    <2>1. PICK d \in 1..Len(i.scopes) :
            /\ HeightAt(i, d) \in 1..Len(i.blocks)
            /\ i.last_handle_before_deferred_block[1] = i.blocks[HeightAt(i, d)]
            /\ \A e \in 1..Top(i) : d < e => HeightAt(i, d) < HeightAt(i, e)
      BY <1>3, Deferred
    <2>2. Top(i) \in 1..Top(i) /\ d < Top(i)
      BY SoundParts DEF Top
    <2>3. HeightAt(i, Top(i)) = Len(i.blocks)
      BY DEF Sound, MarksInOrder
    <2>4. HeightAt(i, d) < Len(i.blocks)
      BY <2>1, <2>2, <2>3
    <2> QED BY <1>1, <2>1, <2>4 DEF Sound, BlocksDistinct
  <1> QED BY <1>2, <1>3

\* The last scope is gone, and with it the blocks above those it began in.
IsCut(i, m) ==
  /\ m \in Implementer /\ BlocksDistinct(m)
  /\ i.scopes # <<>>
  /\ m.scopes = Front(i.scopes)
  /\ m.blocks = SubSeq(i.blocks, 1, HeightAt(i, Len(i.scopes)))
  /\ m.next = Last(i.scopes).next /\ m.limit = Last(i.scopes).limit
  /\ m.last_handle_before_deferred_block =
       IF IsDeferred(i, Len(i.scopes)) THEN Null ELSE i.last_handle_before_deferred_block

LEMMA FrontIs ==
  ASSUME NEW S, NEW s \in Seq(S), s # <<>>
  PROVE  /\ Front(s) \in Seq(S) /\ Len(Front(s)) = Len(s) - 1 /\ Len(s) \in Nat \ {0}
         /\ \A k \in 1..Len(s) - 1 : Front(s)[k] = s[k]
         /\ Last(s) = s[Len(s)] /\ Last(s) \in S
         /\ Len(s) > 1 => Front(s) # <<>>
  <1>1. Len(s) \in Nat \ {0}
    OBVIOUS
  <1>2. Last(s) = s[Len(s)] /\ s[Len(s)] \in S
    BY <1>1 DEF Last
  <1> DEFINE n == Len(s) - 1
  <1>3. n \in Nat /\ \A k \in 1..n : s[k] \in S
    BY <1>1
  <1>4. Front(s) = SubSeq(s, 1, n)
    BY DEF Front
  <1> HIDE DEF n
  <1>5. /\ SubSeq(s, 1, n) \in Seq(S) /\ Len(SubSeq(s, 1, n)) = n
        /\ \A k \in 1..n : SubSeq(s, 1, n)[k] = s[k]
    BY <1>3, SubSeqProperties
  <1>6. n = Len(s) - 1
    BY DEF n
  <1>7. Len(s) > 1 => Front(s) # <<>>
    <2>1. Len(s) > 1 => Len(SubSeq(s, 1, n)) # 0
      BY <1>1, <1>5, <1>6
    <2> QED BY <1>4, <2>1, EmptySeq
  <1> QED BY <1>1, <1>2, <1>4, <1>5, <1>6, <1>7

LEMMA CutParts ==
  ASSUME NEW i, Sound(i), NEW m, IsCut(i, m)
  PROVE  /\ Top(m) = Len(i.scopes) /\ Len(i.scopes) \in 1..Top(i) /\ Len(m.scopes) = Len(i.scopes) - 1
         /\ Len(i.scopes) \in Nat \ {0}
         /\ \A j \in 1..Len(m.scopes) : m.scopes[j] = i.scopes[j]
         /\ Len(m.blocks) = HeightAt(i, Len(i.scopes)) /\ Len(m.blocks) \in 0..Len(i.blocks)
         /\ \A k \in 1..Len(m.blocks) : m.blocks[k] = i.blocks[k]
         /\ m.next = NextAt(i, Len(i.scopes)) /\ m.limit = LimitAt(i, Len(i.scopes))
         /\ ToSet(m.blocks) = {i.blocks[k] : k \in 1..HeightAt(i, Len(i.scopes))}
  <1> DEFINE L == Len(i.scopes)
             h == HeightAt(i, L)
  <1>1. /\ Len(i.scopes) \in Nat \ {0} /\ Len(m.scopes) = Len(i.scopes) - 1
        /\ \A j \in 1..Len(i.scopes) - 1 : m.scopes[j] = i.scopes[j]
        /\ Last(i.scopes) = i.scopes[Len(i.scopes)]
    <2> DEFINE S == [kind : ScopeKinds, next : Position, limit : Position, escaped : BOOLEAN]
    <2>1. i.scopes \in Seq(S) /\ i.scopes # <<>> /\ m.scopes = Front(i.scopes)
      BY SoundParts DEF IsCut
    <2> HIDE DEF S
    <2> QED BY <2>1, FrontIs
  <1>2. Top(m) = L /\ L \in 1..Top(i) /\ L # Top(i)
    BY <1>1 DEF Top
  <1>3. m.next = NextAt(i, L) /\ m.limit = LimitAt(i, L)
    BY <1>1, <1>2 DEF IsCut, NextAt, LimitAt
  <1>4. h \in 0..Len(i.blocks) /\ Len(i.blocks) \in Nat /\ i.blocks \in Seq(Blocks)
    BY <1>2, Marks, SoundParts DEF MarkIs
  <1>5. m.blocks = SubSeq(i.blocks, 1, h) /\ h = HeightAt(i, Len(i.scopes))
    BY DEF IsCut
  <1>6. h \in Nat /\ \A k \in 1..h : i.blocks[k] \in Blocks
    BY <1>4
  <1> HIDE DEF h
  <1>7. Len(m.blocks) = h /\ \A k \in 1..h : m.blocks[k] = i.blocks[k]
    BY <1>4, <1>5, <1>6, SubSeqProperties
  <1>8. m.blocks \in Seq(Blocks)
    BY DEF IsCut, Implementer
  <1>9. ToSet(m.blocks) = {i.blocks[k] : k \in 1..h}
    BY <1>7, <1>8 DEF ToSet
  <1>10. /\ Len(m.blocks) = HeightAt(i, Len(i.scopes)) /\ Len(m.blocks) \in 0..Len(i.blocks)
         /\ \A k \in 1..Len(m.blocks) : m.blocks[k] = i.blocks[k]
    BY <1>4, <1>5, <1>7
  <1>11. ToSet(m.blocks) = {i.blocks[k] : k \in 1..HeightAt(i, Len(i.scopes))}
    BY <1>5, <1>9
  <1> QED BY <1>1, <1>2, <1>3, <1>10, <1>11

LEMMA CutSound ==
  ASSUME NEW i, Sound(i), NEW m, IsCut(i, m)
  PROVE  /\ Sound(m)
         /\ \A j \in 1..Top(m) : Visited(m, j) = Visited(i, j)
  <1> DEFINE L == Len(i.scopes)
  <1>1. m \in Implementer /\ BlocksDistinct(m)
    BY DEF IsCut
  <1>2. /\ Top(m) = L /\ L \in 1..Top(i) /\ Len(m.scopes) = L - 1 /\ L \in Nat \ {0}
        /\ \A j \in 1..Len(m.scopes) : m.scopes[j] = i.scopes[j]
        /\ Len(m.blocks) = HeightAt(i, L) /\ Len(m.blocks) \in 0..Len(i.blocks)
        /\ \A k \in 1..Len(m.blocks) : m.blocks[k] = i.blocks[k]
        /\ m.next = NextAt(i, L) /\ m.limit = LimitAt(i, L)
    BY CutParts
  <1>3. Top(i) = L + 1 /\ Top(m) = Len(m.scopes) + 1
    BY DEF Top
  <1> HIDE DEF L
  <1>4. ASSUME NEW j \in 1..L PROVE SameMark(i, j, m, j)
    <2>1. NextAt(m, j) = NextAt(i, j) /\ LimitAt(m, j) = LimitAt(i, j)
      <3>1. j # Top(i)
        BY <1>2, <1>3
      <3>2. CASE j = L
        BY <1>2, <3>1, <3>2 DEF NextAt, LimitAt
      <3>3. CASE j # L
        <4>1. m.scopes[j] = i.scopes[j] /\ j # Top(m)
          BY <1>2, <3>3
        <4> QED BY <3>1, <4>1 DEF NextAt, LimitAt
      <3> QED BY <3>2, <3>3
    <2>2. HeightAt(i, j) <= HeightAt(i, L)
      BY <1>2, <1>3 DEF Sound, MarksInOrder
    <2>3. HeightAt(i, j) \in Nat
      BY <1>2, <1>3, Marks, SoundParts DEF MarkIs
    <2>4. \A k \in 1..HeightAt(i, j) : m.blocks[k] = i.blocks[k]
      BY <1>2, <2>2, <2>3
    <2> QED BY <1>2, <2>1, <2>2, <2>4 DEF SameMark
  <1>5. Kept(i, m, L)
    <2>1. L \in 0..Top(m) /\ L \in 0..Top(i)
      BY <1>2, <1>3
    <2>2. \A j \in 1..L : j <= Len(m.scopes) => m.scopes[j].kind = i.scopes[j].kind
      BY <1>2
    <2> QED BY <1>4, <2>1, <2>2 DEF Kept
  <1>6. \A j \in 1..L : MarkInBlock(m, j) /\ HeightAt(m, j) = HeightAt(i, j)
                        /\ (LastAgrees(i, j, m) => Visited(m, j) = Visited(i, j))
    BY <1>1, <1>5, KeptMarks
  <1>7. L \in 1..L
    BY <1>2
  <1>8. MarksInOrder(m)
    BY <1>1, <1>2, <1>5, <1>6, <1>7, OrderKept
  <1>9. \A d \in 1..Len(m.scopes) : IsDeferred(m, d) <=> IsDeferred(i, d)
    BY <1>2, <1>3 DEF IsDeferred, L
  <1>10. \A d \in 1..Len(m.scopes) : d \in 1..Len(i.scopes) /\ d + 1 \in 1..L /\ d \in 1..L /\ d # L
    BY <1>2 DEF L
  <1>11. L \in 1..Len(i.scopes)
    BY <1>2 DEF L
  <1>12. \A d \in 1..Len(m.scopes) : IsDeferred(m, d) => ~IsDeferred(i, L)
    BY <1>9, <1>10, <1>11 DEF Sound, DeferredApart
  <1>13. m.last_handle_before_deferred_block =
           IF IsDeferred(i, L) THEN Null ELSE i.last_handle_before_deferred_block
    BY DEF IsCut, L
  <1>14. DeferredApart(m)
    <2>1. \A d, e \in 1..Len(m.scopes) : IsDeferred(m, d) /\ IsDeferred(m, e) => d = e
      BY <1>9, <1>10 DEF Sound, DeferredApart
    <2>2. ASSUME NEW d \in 1..Len(m.scopes), IsDeferred(m, d)
          PROVE  /\ m.last_handle_before_deferred_block = m.scopes[d].next
                 /\ HeightAt(m, d) # 0 /\ HeightAt(m, d) < HeightAt(m, d + 1)
      <3>1. m.last_handle_before_deferred_block = i.last_handle_before_deferred_block
        BY <1>12, <1>13, <2>2
      <3>2. m.scopes[d].next = i.scopes[d].next
        BY <1>2
      <3>3. HeightAt(m, d) = HeightAt(i, d) /\ HeightAt(m, d + 1) = HeightAt(i, d + 1)
        BY <1>6, <1>10
      <3>4. IsDeferred(i, d) /\ d \in 1..Len(i.scopes)
        BY <1>9, <1>10, <2>2
      <3> QED BY <3>1, <3>2, <3>3, <3>4 DEF Sound, DeferredApart
    <2>3. ASSUME m.last_handle_before_deferred_block # Null
          PROVE  \E d \in 1..Len(m.scopes) : IsDeferred(m, d)
      <3>1. ~IsDeferred(i, L) /\ i.last_handle_before_deferred_block # Null
        BY <1>13, <2>3
      <3>2. PICK d \in 1..Len(i.scopes) : IsDeferred(i, d)
        BY <3>1 DEF Sound, DeferredApart
      <3>3. d \in 1..Len(m.scopes)
        BY <1>2, <3>1, <3>2 DEF L
      <3> QED BY <1>9, <3>2, <3>3
    <2> QED BY <2>1, <2>2, <2>3 DEF DeferredApart
  <1>15. ASSUME NEW j \in 1..L PROVE LastAgrees(i, j, m)
    <2>1. CASE ~IsDeferred(i, L)
      BY <1>13, <2>1 DEF LastAgrees
    <2>2. CASE IsDeferred(i, L)
      <3>1. \A d \in 1..Len(i.scopes) : IsDeferred(i, d) => d = L
        BY <1>11, <2>2 DEF Sound, DeferredApart
      <3>2. \A d \in 1..Len(i.scopes) : IsDeferred(i, d) => j <= d
        BY <3>1, <1>2
      <3>3. j \in 1..Top(i)
        BY <1>2, <1>3
      <3>4. \A k \in 1..HeightAt(i, j) - 1 : i.last_handle_before_deferred_block[1] # i.blocks[k]
        BY <3>2, <3>3, LastAbove
      <3>5. HeightAt(i, j) \in 0..Len(i.blocks) /\ Len(i.blocks) \in Nat
            /\ \A l \in 1..Len(i.blocks) : i.blocks[l] \in Blocks
        BY <3>3, Marks, SoundParts DEF MarkIs
      <3>6. \A k \in 1..HeightAt(i, j) - 1 : i.blocks[k] # 0
        BY <3>5 DEF Blocks
      <3>7. \A k \in 1..HeightAt(i, j) - 1 : m.last_handle_before_deferred_block[1] # i.blocks[k]
        BY <1>13, <2>2, <3>6 DEF Null
      <3> QED BY <3>4, <3>7 DEF LastAgrees
    <2> QED BY <2>1, <2>2
  <1> QED BY <1>1, <1>2, <1>6, <1>8, <1>14, <1>15 DEF Sound

\* A block is added; the next position is its first.
IsGrown(i, m, b) ==
  /\ m \in Implementer /\ BlocksDistinct(m)
  /\ b \in Blocks
  /\ m.blocks = Append(i.blocks, b)
  /\ m.next = Start(b) /\ m.limit = Limit(b)

\* What limits the visit of block k of i, when p is where it ends.
Below(s, p, b) == p[1] = b => s[2] < p[2]

LEMMA GrownParts ==
  ASSUME NEW i, Sound(i), NEW m, NEW b, IsGrown(i, m, b)
  PROVE  /\ Len(m.blocks) = Len(i.blocks) + 1 /\ Len(i.blocks) \in Nat
         /\ \A k \in 1..Len(i.blocks) : m.blocks[k] = i.blocks[k]
         /\ m.blocks[Len(i.blocks) + 1] = b
         /\ MarkInBlock(m, Top(m)) /\ HeightAt(m, Top(m)) = Len(m.blocks)
         /\ ToSet(m.blocks) = ToSet(i.blocks) \cup {b}
  <1>1. i.blocks \in Seq(Blocks) /\ b \in Blocks /\ m.blocks = Append(i.blocks, b)
        /\ m.blocks \in Seq(Blocks)
    BY SoundParts DEF IsGrown, Implementer
  <1>2. /\ Len(m.blocks) = Len(i.blocks) + 1 /\ Len(i.blocks) \in Nat
        /\ \A k \in 1..Len(i.blocks) : m.blocks[k] = i.blocks[k]
        /\ m.blocks[Len(i.blocks) + 1] = b
    BY <1>1
  <1>3. LimitAt(m, Top(m)) = Limit(b) /\ NextAt(m, Top(m)) = <<b, 0>>
    BY DEF IsGrown, LimitAt, NextAt, Start
  <1>4. Len(m.blocks) \in 1..Len(m.blocks) /\ m.blocks[Len(m.blocks)] = b
    BY <1>2
  <1>5. HeightAt(m, Top(m)) = Len(m.blocks)
    <2>1. Height(m, Limit(m.blocks[Len(m.blocks)])) = Len(m.blocks)
      BY <1>1, <1>4, HeightIs DEF IsGrown
    <2> QED BY <1>3, <1>4, <2>1 DEF HeightAt
  <1>6. MarkInBlock(m, Top(m))
    <2>1. 0 \in 0..kHandleBlockSize
      BY BlockAssumption
    <2> QED BY <1>3, <1>4, <2>1 DEF MarkInBlock
  <1>7. ToSet(m.blocks) = ToSet(i.blocks) \cup {b}
    BY <1>1, <1>2 DEF ToSet
  <1> QED BY <1>2, <1>5, <1>6, <1>7

LEMMA GrownVisited ==
  ASSUME NEW i, Sound(i), NEW m, NEW b, IsGrown(i, m, b),
         \A k \in 1..Len(i.blocks) : \A s \in Slots : s[1] = i.blocks[k] =>
           (Below(s, m.last_handle_before_deferred_block, i.blocks[k])
            <=> IF k = Len(i.blocks) THEN Below(s, i.next, i.blocks[k])
                ELSE Below(s, i.last_handle_before_deferred_block, i.blocks[k]))
  PROVE  Visited(m, Top(m)) = Visited(i, Top(i))
  <1>1. /\ Len(m.blocks) = Len(i.blocks) + 1 /\ Len(i.blocks) \in Nat
        /\ \A k \in 1..Len(i.blocks) : m.blocks[k] = i.blocks[k]
        /\ m.blocks[Len(i.blocks) + 1] = b
        /\ HeightAt(m, Top(m)) = Len(m.blocks)
    BY GrownParts
  <1>2. HeightAt(i, Top(i)) = Len(i.blocks)
    BY DEF Sound, MarksInOrder
  <1>3. NextAt(m, Top(m)) = <<b, 0>> /\ NextAt(i, Top(i)) = i.next
    BY DEF IsGrown, NextAt, Start
  <1>4. ASSUME NEW s PROVE s \in Visited(m, Top(m)) <=> s \in Visited(i, Top(i))
    <2>1. s \in Visited(i, Top(i)) <=>
            /\ s \in Slots
            /\ \E k \in 1..Len(i.blocks) :
                 /\ s[1] = i.blocks[k]
                 /\ IF k = Len(i.blocks) THEN Below(s, i.next, i.blocks[k])
                    ELSE Below(s, i.last_handle_before_deferred_block, i.blocks[k])
      BY <1>2, <1>3, VisitedIs DEF Below
    <2>2. s \in Visited(m, Top(m)) <=>
            /\ s \in Slots
            /\ \E k \in 1..Len(i.blocks) + 1 :
                 /\ s[1] = m.blocks[k]
                 /\ IF k = Len(i.blocks) + 1 THEN Below(s, <<b, 0>>, m.blocks[k])
                    ELSE Below(s, m.last_handle_before_deferred_block, m.blocks[k])
      BY <1>1, <1>3, VisitedIs DEF Below
    <2>3. s \in Slots => ~Below(s, <<b, 0>>, b)
      <3>1. s \in Slots => s[2] \in Nat
        BY BlockAssumption DEF Slots
      <3> QED BY <3>1 DEF Below
    <2>4. s \in Visited(m, Top(m)) <=>
            /\ s \in Slots
            /\ \E k \in 1..Len(i.blocks) :
                 /\ s[1] = i.blocks[k]
                 /\ Below(s, m.last_handle_before_deferred_block, i.blocks[k])
      <3>1. \A k \in 1..Len(i.blocks) + 1 : k = Len(i.blocks) + 1 \/ k \in 1..Len(i.blocks)
        BY <1>1
      <3>2. \A k \in 1..Len(i.blocks) : k \in 1..Len(i.blocks) + 1 /\ k # Len(i.blocks) + 1
        BY <1>1
      <3> QED BY <1>1, <2>2, <2>3, <3>1, <3>2
    <2> QED BY <2>1, <2>4
  <1> QED BY <1>4

\* The block in use is full, or there is none: another one is added.
IsAdded(i, m, b) ==
  /\ IsGrown(i, m, b)
  /\ i.next = i.limit
  /\ m.scopes = i.scopes
  /\ m.last_handle_before_deferred_block = i.last_handle_before_deferred_block

LEMMA AddedSound ==
  ASSUME NEW i, Sound(i), NEW m, NEW b, IsAdded(i, m, b)
  PROVE  /\ Sound(m) /\ Top(m) = Top(i)
         /\ \A j \in 1..Top(m) : Visited(m, j) = Visited(i, j)
         /\ m.next # m.limit
  <1> DEFINE L == Len(i.scopes)
  <1>1. /\ Len(m.blocks) = Len(i.blocks) + 1 /\ Len(i.blocks) \in Nat
        /\ \A k \in 1..Len(i.blocks) : m.blocks[k] = i.blocks[k]
        /\ MarkInBlock(m, Top(m)) /\ HeightAt(m, Top(m)) = Len(m.blocks)
    BY GrownParts DEF IsAdded
  <1>2. m \in Implementer /\ BlocksDistinct(m) /\ Top(m) = Top(i) /\ Top(i) = L + 1 /\ L \in Nat
        /\ Len(m.scopes) = L
    BY SoundParts DEF IsAdded, IsGrown, Top
  <1>3. ASSUME NEW j \in 1..L PROVE SameMark(i, j, m, j)
    <2>1. NextAt(m, j) = NextAt(i, j) /\ LimitAt(m, j) = LimitAt(i, j)
      BY <1>2 DEF NextAt, LimitAt, IsAdded
    <2>2. HeightAt(i, j) \in 0..Len(i.blocks)
      BY <1>2, Marks DEF MarkIs
    <2> QED BY <1>1, <2>1, <2>2 DEF SameMark
  <1> HIDE DEF L
  <1>4. Kept(i, m, L)
    BY <1>2, <1>3 DEF Kept, IsAdded
  <1>5. \A j \in 1..L : HeightAt(m, j) = HeightAt(i, j) /\ HeightAt(i, j) \in Nat
                       /\ HeightAt(m, j) <= Len(i.blocks)
                       /\ (LastAgrees(i, j, m) => Visited(m, j) = Visited(i, j))
    <2>1. \A j \in 1..L : HeightAt(i, j) \in 0..Len(i.blocks)
      BY <1>2, Marks DEF MarkIs
    <2> QED BY <1>1, <1>2, <1>4, <2>1, KeptMarks
  <1>6. MarksInOrder(m)
    BY <1>1, <1>2, <1>4, OrderKept
  <1>7. DeferredApart(m)
    <2>1. /\ m.scopes = i.scopes /\ Len(i.scopes) = L
          /\ m.last_handle_before_deferred_block = i.last_handle_before_deferred_block
      BY DEF IsAdded, L
    <2>2. ASSUME NEW d \in 1..L, IsDeferred(i, d)
          PROVE  HeightAt(m, d) # 0 /\ HeightAt(m, d) < HeightAt(m, d + 1)
      <3>1. HeightAt(i, d) # 0 /\ HeightAt(i, d) < HeightAt(i, d + 1)
        BY <2>1, <2>2 DEF Sound, DeferredApart
      <3>2. CASE d = L
        <4>1. HeightAt(m, d + 1) = Len(i.blocks) + 1
          BY <1>1, <1>2, <3>2
        <4> QED BY <1>1, <1>5, <3>1, <4>1
      <3>3. CASE d # L
        <4>1. d + 1 \in 1..L
          BY <1>2, <3>3
        <4> QED BY <1>5, <3>1, <4>1
      <3> QED BY <3>2, <3>3
    <2>3. \A d \in 1..L : IsDeferred(m, d) <=> IsDeferred(i, d)
      BY <2>1 DEF IsDeferred
    <2> QED BY <2>1, <2>2, <2>3 DEF DeferredApart, Sound
  <1>8. Visited(m, Top(m)) = Visited(i, Top(i))
    <2>1. ASSUME NEW k \in 1..Len(i.blocks), NEW s \in Slots, s[1] = i.blocks[k]
          PROVE  Below(s, m.last_handle_before_deferred_block, i.blocks[k])
                 <=> IF k = Len(i.blocks) THEN Below(s, i.next, i.blocks[k])
                     ELSE Below(s, i.last_handle_before_deferred_block, i.blocks[k])
      <3>1. CASE k = Len(i.blocks)
        <4>1. i.last_handle_before_deferred_block[1] # i.blocks[k]
          BY <1>1, <3>1, LastNotTop
        <4>2. MarkIs(i, Top(i), Len(i.blocks))
          BY <1>2, Marks DEF Sound, MarksInOrder
        <4>3. i.next = Limit(i.blocks[k])
          BY <1>1, <3>1, <4>2 DEF MarkIs, NextAt, LimitAt, IsAdded
        <4>4. s[2] < kHandleBlockSize
          BY BlockAssumption DEF Slots
        <4> QED BY <3>1, <4>1, <4>3, <4>4 DEF Below, IsAdded, Limit
      <3>2. CASE k # Len(i.blocks)
        BY <3>2 DEF IsAdded
      <3> QED BY <3>1, <3>2
    <2> QED BY <2>1, GrownVisited DEF IsAdded
  <1>9. ASSUME NEW j \in 1..L PROVE LastAgrees(i, j, m)
    BY DEF LastAgrees, IsAdded
  <1>10. m.next # m.limit
    BY BlockAssumption DEF IsAdded, IsGrown, Start, Limit
  <1>11. \A j \in 1..Top(m) : j \in 1..L \/ j = Top(m)
    BY <1>2
  <1> QED BY <1>2, <1>5, <1>6, <1>7, <1>8, <1>9, <1>10, <1>11 DEF Sound

LEMMA NoneDeferred ==
  ASSUME NEW i, Sound(i), i.last_handle_before_deferred_block = Null
  PROVE  \A d \in 1..Len(i.scopes) : ~IsDeferred(i, d)
  <1>1. SUFFICES ASSUME NEW d \in 1..Len(i.scopes), IsDeferred(i, d) PROVE FALSE
    OBVIOUS
  <1>2. d \in 1..Top(i) /\ d # Top(i) /\ \A k \in 1..Len(i.blocks) : i.blocks[k] \in Blocks
    BY SoundParts DEF Top
  <1>3. i.last_handle_before_deferred_block = NextAt(i, d) /\ HeightAt(i, d) # 0
    BY <1>1, <1>2 DEF Sound, DeferredApart, NextAt
  <1>4. HeightAt(i, d) \in 1..Len(i.blocks) /\ NextAt(i, d)[1] = i.blocks[HeightAt(i, d)]
    BY <1>2, <1>3, Marks, SoundParts DEF MarkIs
  <1> QED BY <1>2, <1>3, <1>4 DEF Null, Blocks

\* A deferred scope begins in a block of its own.
IsBegun(i, m, b) ==
  /\ IsGrown(i, m, b)
  /\ i.blocks # <<>>
  /\ i.last_handle_before_deferred_block = Null
  /\ m.last_handle_before_deferred_block = i.next
  /\ m.scopes = Append(i.scopes, Saved(i, "deferred"))

LEMMA AppendedScope ==
  ASSUME NEW i, Sound(i), NEW m, NEW kind, m.scopes = Append(i.scopes, Saved(i, kind))
  PROVE  /\ Len(m.scopes) = Len(i.scopes) + 1 /\ Top(m) = Top(i) + 1
         /\ \A j \in 1..Len(i.scopes) : m.scopes[j] = i.scopes[j]
         /\ m.scopes[Top(i)] = Saved(i, kind)
         /\ \A j \in 1..Top(i) : NextAt(m, j) = NextAt(i, j) /\ LimitAt(m, j) = LimitAt(i, j)
  <1>1. Len(i.scopes) \in Nat /\ i.scopes \in Seq([kind : ScopeKinds, next : Position, limit : Position, escaped : BOOLEAN])
    BY SoundParts
  <1>2. /\ Len(m.scopes) = Len(i.scopes) + 1
        /\ \A j \in 1..Len(i.scopes) : m.scopes[j] = i.scopes[j]
        /\ m.scopes[Len(i.scopes) + 1] = Saved(i, kind)
    BY <1>1
  <1>3. Top(m) = Top(i) + 1 /\ Top(i) = Len(i.scopes) + 1
    BY <1>1, <1>2 DEF Top
  <1>4. Saved(i, kind).next = i.next /\ Saved(i, kind).limit = i.limit
    BY DEF Saved
  <1>5. ASSUME NEW j \in 1..Top(i)
        PROVE  NextAt(m, j) = NextAt(i, j) /\ LimitAt(m, j) = LimitAt(i, j)
    <2>1. j # Top(m) /\ (j = Top(i) \/ j \in 1..Len(i.scopes))
      BY <1>1, <1>3
    <2>2. CASE j = Top(i)
      BY <1>2, <1>3, <1>4, <2>1, <2>2 DEF NextAt, LimitAt
    <2>3. CASE j \in 1..Len(i.scopes)
      BY <1>1, <1>2, <1>3, <2>1, <2>3 DEF NextAt, LimitAt
    <2> QED BY <2>1, <2>2, <2>3
  <1> QED BY <1>2, <1>3, <1>5

LEMMA BegunSound ==
  ASSUME NEW i, Sound(i), NEW m, NEW b, IsBegun(i, m, b)
  PROVE  /\ Sound(m) /\ Top(m) = Top(i) + 1
         /\ \A j \in 1..Top(i) : Visited(m, j) = Visited(i, j)
         /\ Visited(m, Top(m)) = Visited(i, Top(i))
  <1> DEFINE T == Top(i)
  <1>1. /\ Len(m.blocks) = Len(i.blocks) + 1 /\ Len(i.blocks) \in Nat \ {0}
        /\ \A k \in 1..Len(i.blocks) : m.blocks[k] = i.blocks[k]
        /\ MarkInBlock(m, Top(m)) /\ HeightAt(m, Top(m)) = Len(m.blocks)
    <2>1. Len(i.blocks) \in Nat \ {0}
      BY SoundParts DEF IsBegun
    <2> QED BY <2>1, GrownParts DEF IsBegun
  <1>2. /\ Len(m.scopes) = T /\ Top(m) = T + 1 /\ T \in Nat /\ T = Len(i.scopes) + 1
        /\ \A j \in 1..Len(i.scopes) : m.scopes[j] = i.scopes[j]
        /\ m.scopes[T] = Saved(i, "deferred")
        /\ \A j \in 1..T : NextAt(m, j) = NextAt(i, j) /\ LimitAt(m, j) = LimitAt(i, j)
    BY SoundParts, AppendedScope DEF IsBegun, Top
  <1>3. m \in Implementer /\ BlocksDistinct(m)
    BY DEF IsBegun, IsGrown
  <1>4. \A d \in 1..Len(i.scopes) : ~IsDeferred(i, d)
    BY NoneDeferred DEF IsBegun
  <1>5. \A j \in 1..T : HeightAt(i, j) \in 0..Len(i.blocks)
    BY Marks DEF MarkIs
  <1>6. MarkIs(i, T, Len(i.blocks))
    BY <1>2, Marks DEF Sound, MarksInOrder
  <1> HIDE DEF T
  <1>7. Kept(i, m, T)
    <2>1. ASSUME NEW j \in 1..T PROVE SameMark(i, j, m, j)
      <3>1. HeightAt(i, j) <= Len(m.blocks)
        BY <1>1, <1>5
      <3>2. \A k \in 1..HeightAt(i, j) : m.blocks[k] = i.blocks[k]
        <4>1. 1..HeightAt(i, j) \subseteq 1..Len(i.blocks)
          BY <1>5
        <4> QED BY <1>1, <4>1
      <3> QED BY <1>2, <3>1, <3>2 DEF SameMark
    <2>2. T \in 0..Top(i) /\ T \in 0..Top(m)
      BY <1>2 DEF T
    <2>3. \A j \in 1..T : j <= Len(i.scopes) => m.scopes[j].kind = i.scopes[j].kind
      BY <1>2
    <2> QED BY <2>1, <2>2, <2>3 DEF Kept
  <1>8. \A j \in 1..T : HeightAt(m, j) = HeightAt(i, j)
                       /\ (LastAgrees(i, j, m) => Visited(m, j) = Visited(i, j))
    BY <1>3, <1>7, KeptMarks
  <1>9. MarksInOrder(m)
    BY <1>1, <1>2, <1>3, <1>7, OrderKept
  <1>10. m.last_handle_before_deferred_block[1] = i.blocks[Len(i.blocks)]
         /\ HeightAt(i, T) = Len(i.blocks)
    BY <1>1, <1>6 DEF IsBegun, MarkIs, NextAt, T
  <1>11. DeferredApart(m)
    <2>1. \A d \in 1..Len(m.scopes) : IsDeferred(m, d) <=> d = T
      <3>1. m.scopes[T].kind = "deferred"
        BY <1>2 DEF Saved
      <3>2. \A d \in 1..Len(m.scopes) : d = T \/ d \in 1..Len(i.scopes)
        BY <1>2
      <3>3. \A d \in 1..Len(i.scopes) : m.scopes[d].kind # "deferred" /\ d # T
        BY <1>2, <1>4 DEF IsDeferred
      <3> QED BY <3>1, <3>2, <3>3 DEF IsDeferred
    <2>2. m.last_handle_before_deferred_block = m.scopes[T].next
      BY <1>2 DEF IsBegun, Saved
    <2>3. HeightAt(m, T) # 0 /\ HeightAt(m, T) < HeightAt(m, T + 1)
      <3>1. T \in 1..T
        BY <1>2
      <3> QED BY <1>1, <1>2, <1>8, <1>10, <3>1
    <2>4. T \in 1..Len(m.scopes)
      BY <1>2
    <2> QED BY <2>1, <2>2, <2>3, <2>4 DEF DeferredApart
  <1>12. ASSUME NEW j \in 1..T PROVE LastAgrees(i, j, m)
    <2>1. \A k \in 1..HeightAt(i, j) - 1 : k \in 1..Len(i.blocks) /\ k # Len(i.blocks)
      BY <1>5, <1>1
    <2>2. \A k \in 1..HeightAt(i, j) - 1 : m.last_handle_before_deferred_block[1] # i.blocks[k]
      <3>1. Len(i.blocks) \in 1..Len(i.blocks)
        BY <1>1
      <3> QED BY <1>10, <2>1, <3>1 DEF Sound, BlocksDistinct
    <2>3. \A k \in 1..HeightAt(i, j) - 1 : i.last_handle_before_deferred_block[1] # i.blocks[k]
      <3>1. \A k \in 1..Len(i.blocks) : i.blocks[k] # 0
        BY SoundParts DEF Blocks
      <3> QED BY <2>1, <3>1 DEF IsBegun, Null
    <2> QED BY <2>2, <2>3 DEF LastAgrees
  <1>13. Visited(m, Top(m)) = Visited(i, Top(i))
    <2>1. ASSUME NEW k \in 1..Len(i.blocks), NEW s \in Slots, s[1] = i.blocks[k]
          PROVE  Below(s, m.last_handle_before_deferred_block, i.blocks[k])
                 <=> IF k = Len(i.blocks) THEN Below(s, i.next, i.blocks[k])
                     ELSE Below(s, i.last_handle_before_deferred_block, i.blocks[k])
      <3>1. CASE k = Len(i.blocks)
        BY <3>1 DEF Below, IsBegun
      <3>2. CASE k # Len(i.blocks)
        <4>1. m.last_handle_before_deferred_block[1] # i.blocks[k]
          BY <1>1, <1>10, <3>2 DEF Sound, BlocksDistinct
        <4>2. i.last_handle_before_deferred_block[1] # i.blocks[k]
          BY SoundParts DEF Blocks, IsBegun, Null
        <4> QED BY <3>2, <4>1, <4>2 DEF Below
      <3> QED BY <3>1, <3>2
    <2> QED BY <2>1, GrownVisited DEF IsBegun
  <1> QED BY <1>2, <1>3, <1>8, <1>9, <1>11, <1>12, <1>13 DEF Sound, T

\* A scope begins where the implementer is.
IsOpened(i, m, kind) ==
  /\ m \in Implementer /\ kind # "deferred"
  /\ m.blocks = i.blocks /\ m.spare = i.spare
  /\ m.next = i.next /\ m.limit = i.limit
  /\ m.last_handle_before_deferred_block = i.last_handle_before_deferred_block
  /\ m.scopes = Append(i.scopes, Saved(i, kind))

LEMMA OpenedSound ==
  ASSUME NEW i, Sound(i), NEW m, NEW kind, IsOpened(i, m, kind)
  PROVE  /\ Sound(m) /\ Top(m) = Top(i) + 1
         /\ \A j \in 1..Top(i) : Visited(m, j) = Visited(i, j)
         /\ Visited(m, Top(m)) = Visited(i, Top(i))
  <1> DEFINE T == Top(i)
  <1>1. m.blocks = i.blocks /\ Len(i.blocks) \in Nat /\ m.blocks \in Seq(Blocks)
    BY SoundParts DEF IsOpened
  <1>2. /\ Len(m.scopes) = T /\ Top(m) = T + 1 /\ T \in Nat /\ T = Len(i.scopes) + 1
        /\ \A j \in 1..Len(i.scopes) : m.scopes[j] = i.scopes[j]
        /\ m.scopes[T] = Saved(i, kind)
        /\ \A j \in 1..T : NextAt(m, j) = NextAt(i, j) /\ LimitAt(m, j) = LimitAt(i, j)
    BY SoundParts, AppendedScope DEF IsOpened, Top
  <1>3. m \in Implementer /\ BlocksDistinct(m)
    BY <1>1 DEF IsOpened, Sound, BlocksDistinct
  <1>4. \A j \in 1..T : HeightAt(i, j) \in 0..Len(i.blocks)
    BY Marks DEF MarkIs
  <1>5. HeightAt(i, T) = Len(i.blocks)
    BY DEF Sound, MarksInOrder
  <1>6. m.last_handle_before_deferred_block = i.last_handle_before_deferred_block
    BY DEF IsOpened
  <1>7. NextAt(m, Top(m)) = NextAt(i, T) /\ LimitAt(m, Top(m)) = LimitAt(i, T)
    BY DEF IsOpened, NextAt, LimitAt
  <1>8. T \in 1..T
    BY <1>2
  <1>9. /\ MarkInBlock(m, Top(m)) /\ HeightAt(m, Top(m)) = Len(m.blocks)
        /\ Visited(m, Top(m)) = Visited(i, T)
    <2>1. SameMark(i, T, m, Top(m))
      BY <1>1, <1>4, <1>7, <1>8 DEF SameMark
    <2>2. LastAgrees(i, T, m)
      BY <1>6 DEF LastAgrees
    <2> QED BY <1>1, <1>3, <1>5, <1>8, <2>1, <2>2, SameMarkSame
  <1> HIDE DEF T
  <1>10. Kept(i, m, T)
    <2>1. \A j \in 1..T : SameMark(i, j, m, j)
      BY <1>1, <1>2, <1>4 DEF SameMark
    <2>2. T \in 0..Top(i) /\ T \in 0..Top(m)
      BY <1>2 DEF T
    <2>3. \A j \in 1..T : j <= Len(i.scopes) => m.scopes[j].kind = i.scopes[j].kind
      BY <1>2
    <2> QED BY <2>1, <2>2, <2>3 DEF Kept
  <1>11. \A j \in 1..T : HeightAt(m, j) = HeightAt(i, j) /\ Visited(m, j) = Visited(i, j)
    <2>1. \A j \in 1..T : LastAgrees(i, j, m)
      BY <1>6 DEF LastAgrees
    <2> QED BY <1>3, <1>10, <2>1, KeptMarks
  <1>12. MarksInOrder(m)
    BY <1>2, <1>3, <1>9, <1>10, OrderKept
  <1>13. DeferredApart(m)
    <2>1. \A d \in 1..Len(m.scopes) :
            IsDeferred(m, d) => d \in 1..Len(i.scopes) /\ IsDeferred(i, d)
      <3>1. m.scopes[T].kind # "deferred"
        BY <1>2 DEF Saved, IsOpened
      <3>2. \A d \in 1..Len(m.scopes) : d = T \/ d \in 1..Len(i.scopes)
        BY <1>2
      <3> QED BY <1>2, <3>1, <3>2 DEF IsDeferred
    <2>2. \A d \in 1..Len(i.scopes) :
            d \in 1..Len(m.scopes) /\ (IsDeferred(i, d) => IsDeferred(m, d))
      BY <1>2 DEF IsDeferred
    <2>3. ASSUME NEW d \in 1..Len(m.scopes), IsDeferred(m, d)
          PROVE  /\ m.last_handle_before_deferred_block = m.scopes[d].next
                 /\ HeightAt(m, d) # 0 /\ HeightAt(m, d) < HeightAt(m, d + 1)
      <3>1. d \in 1..Len(i.scopes) /\ IsDeferred(i, d) /\ d \in 1..T /\ d + 1 \in 1..T
        BY <1>2, <2>1, <2>3
      <3>2. /\ i.last_handle_before_deferred_block = i.scopes[d].next
            /\ HeightAt(i, d) # 0 /\ HeightAt(i, d) < HeightAt(i, d + 1)
        BY <3>1 DEF Sound, DeferredApart
      <3> QED BY <1>2, <1>6, <1>11, <3>1, <3>2
    <2>4. \A d, e \in 1..Len(m.scopes) : IsDeferred(m, d) /\ IsDeferred(m, e) => d = e
      BY <2>1 DEF Sound, DeferredApart
    <2>5. m.last_handle_before_deferred_block # Null => \E d \in 1..Len(m.scopes) : IsDeferred(m, d)
      BY <1>6, <2>2 DEF Sound, DeferredApart
    <2> QED BY <2>3, <2>4, <2>5 DEF DeferredApart
  <1> QED BY <1>2, <1>3, <1>9, <1>11, <1>12, <1>13 DEF Sound, T

\* The scopes are the same but for what escaped them, and so are the blocks.
IsSame(i, m) ==
  /\ m \in Implementer
  /\ m.blocks = i.blocks
  /\ m.last_handle_before_deferred_block = i.last_handle_before_deferred_block
  /\ Len(m.scopes) = Len(i.scopes)
  /\ \A j \in 1..Len(i.scopes) : /\ m.scopes[j].kind = i.scopes[j].kind
                                 /\ m.scopes[j].next = i.scopes[j].next
                                 /\ m.scopes[j].limit = i.scopes[j].limit

LEMMA SameParts ==
  ASSUME NEW i, Sound(i), NEW m, IsSame(i, m), BlocksDistinct(m),
         MarkInBlock(m, Top(m)), HeightAt(m, Top(m)) = Len(m.blocks)
  PROVE  /\ Sound(m) /\ Top(m) = Top(i)
         /\ \A j \in 1..Len(i.scopes) : Visited(m, j) = Visited(i, j)
  <1> DEFINE L == Len(i.scopes)
  <1>1. /\ m.blocks = i.blocks /\ Len(i.blocks) \in Nat
        /\ Top(m) = Top(i) /\ Top(i) = L + 1 /\ L \in Nat /\ Len(m.scopes) = L
        /\ m \in Implementer
        /\ m.last_handle_before_deferred_block = i.last_handle_before_deferred_block
    BY SoundParts DEF IsSame, Top
  <1>2. \A j \in 1..L : SameMark(i, j, m, j)
    <2>1. ASSUME NEW j \in 1..L PROVE NextAt(m, j) = NextAt(i, j) /\ LimitAt(m, j) = LimitAt(i, j)
      BY <1>1 DEF NextAt, LimitAt, IsSame
    <2>2. \A j \in 1..L : HeightAt(i, j) \in 0..Len(i.blocks)
      BY <1>1, Marks DEF MarkIs
    <2> QED BY <1>1, <2>1, <2>2 DEF SameMark
  <1>3. Kept(i, m, L)
    BY <1>1, <1>2 DEF Kept, IsSame
  <1> HIDE DEF L
  <1>4. \A j \in 1..L : HeightAt(m, j) = HeightAt(i, j) /\ Visited(m, j) = Visited(i, j)
    <2>1. \A j \in 1..L : LastAgrees(i, j, m)
      BY <1>1 DEF LastAgrees
    <2> QED BY <1>1, <1>3, <2>1, KeptMarks
  <1>5. MarksInOrder(m)
    BY <1>1, <1>3, OrderKept
  <1>6. HeightAt(m, L + 1) = HeightAt(i, L + 1)
    BY <1>1 DEF Sound, MarksInOrder
  <1>7. DeferredApart(m)
    <2>1. \A d \in 1..L : IsDeferred(m, d) <=> IsDeferred(i, d)
      BY <1>1 DEF IsDeferred, IsSame, L
    <2>2. \A d \in 1..L : m.scopes[d].next = i.scopes[d].next
      BY DEF IsSame, L
    <2>3. \A d \in 1..L : HeightAt(m, d) = HeightAt(i, d) /\ HeightAt(m, d + 1) = HeightAt(i, d + 1)
      <3>1. \A d \in 1..L : d + 1 \in 1..L \/ d = L
        BY <1>1
      <3> QED BY <1>4, <1>6, <3>1
    <2>4. Len(i.scopes) = L /\ Len(m.scopes) = L
      BY <1>1 DEF L
    <2> QED BY <1>1, <2>1, <2>2, <2>3, <2>4 DEF DeferredApart, Sound
  <1> QED BY <1>1, <1>4, <1>5, <1>7 DEF Sound, L

LEMMA SameSound ==
  ASSUME NEW i, Sound(i), NEW m, IsSame(i, m), BlocksDistinct(m),
         m.next = i.next, m.limit = i.limit
  PROVE  /\ Sound(m) /\ Top(m) = Top(i)
         /\ \A j \in 1..Top(i) : Visited(m, j) = Visited(i, j)
  <1>1. /\ m.blocks = i.blocks /\ Len(i.blocks) \in Nat /\ m.blocks \in Seq(Blocks)
        /\ Top(i) \in Nat /\ Top(i) \in 1..Top(i) /\ Top(i) = Len(i.scopes) + 1
    BY SoundParts DEF IsSame, Top
  <1>2. NextAt(m, Top(m)) = NextAt(i, Top(i)) /\ LimitAt(m, Top(m)) = LimitAt(i, Top(i))
    BY DEF NextAt, LimitAt
  <1>3. HeightAt(i, Top(i)) = Len(i.blocks)
    BY DEF Sound, MarksInOrder
  <1>4. SameMark(i, Top(i), m, Top(m)) /\ LastAgrees(i, Top(i), m)
    BY <1>1, <1>2, <1>3 DEF SameMark, LastAgrees, IsSame
  <1>5. /\ MarkInBlock(m, Top(m)) /\ HeightAt(m, Top(m)) = Len(m.blocks)
        /\ Visited(m, Top(m)) = Visited(i, Top(i))
    BY <1>1, <1>3, <1>4, SameMarkSame
  <1>6. \A j \in 1..Top(i) : j = Top(i) \/ j \in 1..Len(i.scopes)
    BY <1>1
  <1> QED BY <1>5, <1>6, SameParts

\* The next position of the block in use is taken.
IsTaken(i, m) ==
  /\ IsSame(i, m) /\ BlocksDistinct(m)
  /\ i.next # i.limit
  /\ m.next = <<i.next[1], i.next[2] + 1>> /\ m.limit = i.limit

LEMMA TakenSound ==
  ASSUME NEW i, Sound(i), NEW m, IsTaken(i, m)
  PROVE  /\ Sound(m) /\ Top(m) = Top(i)
         /\ \A j \in 1..Len(i.scopes) : Visited(m, j) = Visited(i, j)
         /\ Visited(m, Top(m)) = Visited(i, Top(i)) \cup {i.next}
         /\ i.next \in Slots /\ i.next[1] \in ToSet(i.blocks)
         /\ i.next \notin Visited(i, Top(i))
  <1> DEFINE h == Len(i.blocks)
  <1>1. /\ m.blocks = i.blocks /\ Len(i.blocks) \in Nat /\ m.blocks \in Seq(Blocks)
        /\ Top(i) \in Nat /\ Top(i) \in 1..Top(i) /\ Top(i) = Len(i.scopes) + 1
        /\ \A k \in 1..h : i.blocks[k] \in Blocks
        /\ m.last_handle_before_deferred_block = i.last_handle_before_deferred_block
    BY SoundParts DEF IsSame, IsTaken, Top
  <1>2. MarkIs(i, Top(i), h)
    BY <1>1, Marks DEF Sound, MarksInOrder
  <1>3. NextAt(i, Top(i)) = i.next /\ LimitAt(i, Top(i)) = i.limit
    BY DEF NextAt, LimitAt
  <1>4. NextAt(m, Top(m)) = m.next /\ LimitAt(m, Top(m)) = i.limit
    BY DEF NextAt, LimitAt, IsTaken
  <1>5. h # 0
    BY <1>2, <1>3 DEF IsTaken, MarkIs
  <1>6. /\ i.limit = <<i.blocks[h], kHandleBlockSize>> /\ i.next[1] = i.blocks[h]
        /\ i.next[2] \in 0..kHandleBlockSize
        /\ i.next = <<i.next[1], i.next[2]>>
    BY <1>2, <1>3, <1>5 DEF MarkIs, Limit
  <1>7. i.next[2] # kHandleBlockSize
    BY <1>6 DEF IsTaken
  <1>8. i.next[2] \in 0..kHandleBlockSize - 1 /\ i.next[2] + 1 \in 0..kHandleBlockSize
    BY <1>6, <1>7, BlockAssumption
  <1>9. h \in 1..h /\ i.blocks[h] \in Blocks
    BY <1>1, <1>5
  <1>10. i.next \in Slots
    BY <1>6, <1>8, <1>9 DEF Slots
  <1>11. i.next[1] \in ToSet(i.blocks)
    BY <1>6, <1>9 DEF ToSet
  <1>12. MarkInBlock(m, Top(m))
    BY <1>1, <1>4, <1>6, <1>8, <1>9 DEF MarkInBlock, Limit, IsTaken
  <1>13. HeightAt(m, Top(m)) = h
    <2>1. Height(m, Limit(m.blocks[h])) = h
      BY <1>1, <1>9, HeightIs DEF IsTaken
    <2> QED BY <1>1, <1>4, <1>6, <2>1 DEF HeightAt, Limit
  <1>14. /\ Sound(m) /\ Top(m) = Top(i)
         /\ \A j \in 1..Len(i.scopes) : Visited(m, j) = Visited(i, j)
    BY <1>1, <1>12, <1>13, SameParts DEF IsTaken
  <1>15. HeightAt(i, Top(i)) = h
    BY <1>2 DEF MarkIs
  <1> HIDE DEF h
  <1>16. ASSUME NEW s PROVE s \in Visited(i, Top(i)) <=>
           /\ s \in Slots
           /\ \E k \in 1..h :
                /\ s[1] = i.blocks[k]
                /\ IF k = h THEN s[2] < i.next[2]
                   ELSE Below(s, i.last_handle_before_deferred_block, i.blocks[k])
    BY <1>3, <1>6, <1>15, VisitedIs DEF Below
  <1>17. ASSUME NEW s PROVE s \in Visited(m, Top(m)) <=>
           /\ s \in Slots
           /\ \E k \in 1..h :
                /\ s[1] = i.blocks[k]
                /\ IF k = h THEN s[2] < i.next[2] + 1
                   ELSE Below(s, i.last_handle_before_deferred_block, i.blocks[k])
    <2>1. m.next[1] = i.blocks[h] /\ m.next[2] = i.next[2] + 1
      BY <1>6 DEF IsTaken
    <2> QED BY <1>1, <1>4, <1>13, <2>1, VisitedIs DEF Below
  <1>18. \A k \in 1..h : i.blocks[k] = i.blocks[h] => k = h
    BY <1>9 DEF Sound, BlocksDistinct, h
  <1>19. i.next \notin Visited(i, Top(i))
    BY <1>6, <1>8, <1>16, <1>18
  <1>20. ASSUME NEW s PROVE s \in Visited(m, Top(m)) <=> s \in Visited(i, Top(i)) \/ s = i.next
    <2>1. s \in Slots => s[2] \in Int /\ s = <<s[1], s[2]>>
      BY BlockAssumption DEF Slots
    <2>2. s \in Slots => (s[2] < i.next[2] + 1 <=> s[2] < i.next[2] \/ s[2] = i.next[2])
      BY <1>8, <2>1
    <2>3. ASSUME s \in Slots, s[1] = i.blocks[h], s[2] = i.next[2] PROVE s = i.next
      BY <1>6, <2>1, <2>3
    <2>4. s = i.next => s \in Visited(m, Top(m))
      <3>1. i.next[2] < i.next[2] + 1
        BY <1>8
      <3> QED BY <1>6, <1>9, <1>10, <1>17, <3>1
    <2> QED BY <1>16, <1>17, <2>2, <2>3, <2>4
  <1> QED BY <1>10, <1>11, <1>14, <1>19, <1>20

-----------------------------------------------------------------------------
(***************************************************************************)
(* Handles and what the collector visits.                                  *)
(***************************************************************************)
LEMMA SlotsAre ==
  ASSUME NEW hs, NEW scopes, NEW s
  PROVE  s \in SlotsOf(hs, scopes) <=> \E h \in hs : h.scope \in scopes /\ h.slot = s
  BY DEF SlotsOf

LEMMA CoversOpened ==
  ASSUME NEW i, NEW m, NEW t, NEW hs, Covers(i, t, hs), Top(i) \in Nat \ {0}, Top(m) = Top(i) + 1,
         \A j \in 1..Top(i) : Visited(m, j) = Visited(i, j),
         Visited(m, Top(m)) = Visited(i, Top(i)),
         \A h \in hs : h.scope # <<t, Top(i)>>
  PROVE  Covers(m, t, hs)
  <1>1. ASSUME NEW s PROVE s \in SlotsOf(hs, ScopesBelow(t, Top(m))) <=> s \in SlotsOf(hs, ScopesBelow(t, Top(i)))
    <2>1. \A k : k \in 1..Top(m) - 1 <=> k \in 1..Top(i) - 1 \/ k = Top(i)
      OBVIOUS
    <2> QED BY <2>1, SlotsAre DEF ScopesBelow
  <1>2. \A j \in 1..Top(m) : j \in 1..Top(i) \/ j = Top(m)
    OBVIOUS
  <1>3. Top(i) \in 1..Top(i)
    OBVIOUS
  <1> DEFINE X == SlotsOf(hs, ScopesBelow(t, Top(m)))
             Y == SlotsOf(hs, ScopesBelow(t, Top(i)))
  <1>4. \A s : s \in X <=> s \in Y
    BY <1>1
  <1> HIDE DEF X, Y
  <1>5. X = Y
    BY <1>4
  <1>6. Visited(m, Top(m)) = X
    BY <1>3, <1>5 DEF Covers, Y
  <1>7. ASSUME NEW j \in 1..Top(m) PROVE Visited(m, j) = SlotsOf(hs, ScopesBelow(t, j))
    <2>1. CASE j \in 1..Top(i)
      BY <2>1 DEF Covers
    <2>2. CASE j = Top(m)
      BY <1>6, <2>2 DEF X
    <2> QED BY <1>2, <2>1, <2>2
  <1> QED BY <1>7 DEF Covers

SameVisited(i, m, n) == \A j \in 1..n : Visited(m, j) = Visited(i, j)

LEMMA CoversTaken ==
  ASSUME NEW i, NEW m, NEW t, NEW hs, Covers(i, t, hs), Top(i) \in Nat, Top(i) > 1,
         Top(m) = Top(i), NEW g, g.scope = <<t, Top(i) - 1>>,
         SameVisited(i, m, Top(i) - 1),
         Visited(m, Top(m)) = Visited(i, Top(i)) \cup {g.slot}
  PROVE  Covers(m, t, hs \cup {g})
  <1> DEFINE L == Top(i) - 1
  <1>1. /\ L \in Nat \ {0} /\ Top(i) = L + 1 /\ g.scope = <<t, L>>
        /\ \A j \in 1..L : Visited(m, j) = Visited(i, j)
    BY DEF SameVisited
  <1> HIDE DEF L
  <1>2. ASSUME NEW j \in 1..L, NEW s
        PROVE  s \in SlotsOf(hs \cup {g}, ScopesBelow(t, j)) <=> s \in SlotsOf(hs, ScopesBelow(t, j))
    <2>1. g.scope \notin ScopesBelow(t, j)
      BY <1>1 DEF ScopesBelow
    <2> QED BY <2>1, SlotsAre
  <1>3. ASSUME NEW s
        PROVE  s \in SlotsOf(hs \cup {g}, ScopesBelow(t, L + 1))
               <=> s \in SlotsOf(hs, ScopesBelow(t, L + 1)) \/ s = g.slot
    <2>1. g.scope \in ScopesBelow(t, L + 1)
      <3>1. L \in 1..(L + 1) - 1
        BY <1>1
      <3> QED BY <1>1, <3>1 DEF ScopesBelow
    <2> QED BY <2>1, SlotsAre
  <1>4. \A j \in 1..Top(m) : j \in 1..L \/ j = L + 1
    BY <1>1
  <1>5. L + 1 \in 1..Top(i) /\ \A j \in 1..L : j \in 1..Top(i)
    BY <1>1
  <1>6. ASSUME NEW j \in 1..Top(m)
        PROVE  Visited(m, j) = SlotsOf(hs \cup {g}, ScopesBelow(t, j))
    <2>1. CASE j \in 1..L
      <3>1. Visited(m, j) = SlotsOf(hs, ScopesBelow(t, j))
        BY <1>1, <1>5, <2>1 DEF Covers
      <3> QED BY <1>1, <1>2, <2>1, <3>1
    <2>2. CASE j = L + 1
      <3>1. Visited(m, j) = SlotsOf(hs, ScopesBelow(t, j)) \cup {g.slot}
        BY <1>1, <1>5, <2>2 DEF Covers
      <3> QED BY <1>3, <2>2, <3>1
    <2> QED BY <1>4, <2>1, <2>2
  <1> QED BY <1>6 DEF Covers

\* hs and gs have the same handles but for those of the scopes from j on.
LEMMA CoversLess ==
  ASSUME NEW i, NEW m, NEW t, NEW hs, NEW gs, Covers(i, t, hs),
         Top(i) \in Nat, Top(m) \in 0..Top(i),
         \A j \in 1..Top(m) : Visited(m, j) = Visited(i, j),
         \A j \in 1..Top(m) : SlotsOf(gs, ScopesBelow(t, j)) = SlotsOf(hs, ScopesBelow(t, j))
  PROVE  Covers(m, t, gs)
  BY DEF Covers

-----------------------------------------------------------------------------
(***************************************************************************)
(* The first state, and that the invariant implies the property.           *)
(***************************************************************************)
LEMMA IterateIs ==
  ASSUME NEW i, Sound(i)
  PROVE  IterateThis(i) = Visited(i, Top(i))
  <1>1. HeightAt(i, Top(i)) = Len(i.blocks) /\ NextAt(i, Top(i)) = i.next
    BY DEF Sound, MarksInOrder, NextAt
  <1>2. DOMAIN i.blocks = 1..Len(i.blocks)
    BY SoundParts
  <1> QED BY <1>1, <1>2 DEF IterateThis, Visited

LEMMA FreshSound ==
  /\ Sound(Fresh) /\ Top(Fresh) = 1 /\ Visited(Fresh, 1) = {} /\ Owned(Fresh) = {0}
  /\ Fresh \in Implementer /\ \A t, hs : Covers(Fresh, t, hs)
  <1> DEFINE f == Fresh
  <1>1. /\ f.next = Null /\ f.limit = Null /\ f.blocks = <<>> /\ f.spare = 0
        /\ f.last_handle_before_deferred_block = Null /\ f.scopes = <<>>
    BY DEF Fresh
  <1>2. Null \in Position
    BY BlockAssumption DEF Null, Position
  <1>3. f \in Implementer
    BY <1>2 DEF Fresh, Implementer
  <1> HIDE DEF f
  <1>4. Len(f.scopes) = 0 /\ Len(f.blocks) = 0 /\ Top(f) = 1
    BY <1>1 DEF Top
  <1>5. LimitAt(f, 1) = Null /\ NextAt(f, 1) = Null
    BY <1>1, <1>4 DEF LimitAt, NextAt
  <1>6. HeightAt(f, 1) = 0
    BY <1>5 DEF HeightAt, Height
  <1>7. MarksInOrder(f)
    <2>1. \A j \in 1..1 : j = 1
      OBVIOUS
    <2> QED BY <1>4, <1>5, <1>6, <2>1 DEF MarksInOrder, MarkInBlock
  <1>8. BlocksDistinct(f)
    BY <1>4 DEF BlocksDistinct
  <1>9. DeferredApart(f)
    BY <1>1, <1>4 DEF DeferredApart
  <1>10. Visited(f, 1) = {}
    BY <1>6, VisitedIs
  <1>11. Owned(f) = {0}
    BY <1>1 DEF Owned, ToSet
  <1>12. ASSUME NEW t, NEW hs PROVE Covers(f, t, hs)
    <2>1. \A j \in 1..1 : j = 1
      OBVIOUS
    <2>2. ScopesBelow(t, 1) = {}
      BY DEF ScopesBelow
    <2>3. SlotsOf(hs, ScopesBelow(t, 1)) = {}
      BY <2>2 DEF SlotsOf
    <2> QED BY <1>4, <1>10, <2>1, <2>3 DEF Covers
  <1>13. f = Fresh
    BY DEF f
  <1> QED BY <1>3, <1>4, <1>7, <1>8, <1>9, <1>10, <1>11, <1>12, <1>13 DEF Sound

LEMMA HandlesStarts == HandlesInit => HandlesInv
  <1>1. SUFFICES ASSUME HandlesInit PROVE HandlesInv
    OBVIOUS
  <1>2. \A t \in Threads : Impl(t) = Fresh
    BY <1>1 DEF HandlesInit, Impl
  <1>3. HandlesType
    BY <1>1, FreshSound, FS_EmptySet, ThreadAssumption DEF HandlesInit, HandlesType
  <1>4. Numbered
    BY <1>1, FS_EmptySet DEF HandlesInit, Numbered
  <1>5. Apart
    BY <1>1, <1>2, FreshSound DEF HandlesInit, Apart, Held
  <1>6. ScopesHold
    BY <1>1, <1>2, FreshSound DEF HandlesInit, ScopesHold
  <1> QED BY <1>1, <1>2, <1>3, <1>4, <1>5, <1>6, FreshSound DEF HandlesInit, HandlesInv, HandlesBelong, SlotsDistinct

LEMMA SoundHeight ==
  ASSUME NEW i, Sound(i), NEW j \in 1..Top(i), NEW s \in Visited(i, j)
  PROVE  s \in Slots /\ \E k \in 1..HeightAt(i, j) : k \in 1..Len(i.blocks) /\ s[1] = i.blocks[k]
  <1>1. HeightAt(i, j) \in 0..Len(i.blocks) /\ Len(i.blocks) \in Nat
    BY Marks, SoundParts DEF MarkIs
  <1>2. PICK k \in 1..HeightAt(i, j) : s[1] = i.blocks[k]
    BY VisitedIs
  <1> QED BY <1>1, <1>2, VisitedIs

LEMMA OwnedAre ==
  ASSUME NEW i, Sound(i)
  PROVE  /\ Owned(i) \subseteq {0} \cup Blocks
         /\ \A k \in 1..Len(i.blocks) : i.blocks[k] \in Owned(i) \ {0} /\ i.blocks[k] \in ToSet(i.blocks)
         /\ \A b \in ToSet(i.blocks) : \E k \in 1..Len(i.blocks) : b = i.blocks[k]
  <1>1. i.blocks \in Seq(Blocks) /\ \A k \in 1..Len(i.blocks) : i.blocks[k] \in Blocks
    BY SoundParts
  <1>2. ToSet(i.blocks) = {i.blocks[k] : k \in 1..Len(i.blocks)}
    BY <1>1 DEF ToSet
  <1>3. 0 \notin Blocks
    BY DEF Blocks
  <1>4. i.spare \in {0} \cup Blocks
    BY SoundParts
  <1> QED BY <1>1, <1>2, <1>3, <1>4 DEF Owned

LEMMA DeferredBlocks ==
  ASSUME NEW d \in [id : Nat, limit : Position, blocks : Seq(Blocks)], NEW s \in IterateDeferred(d)
  PROVE  s \in Slots /\ s[1] \in ToSet(d.blocks)
  BY DEF IterateDeferred, VisitPointers, ToSet

\* A handle's slot is in a block of the one it belongs to.
LEMMA HandlesWhere ==
  ASSUME HandlesInv, NEW h \in handles
  PROVE  /\ h \in Handle
         /\ \A t \in Threads : h.scope \in ScopesBelow(t, Top(Impl(t)))
              => h.slot \in Visited(Impl(t), Top(Impl(t))) /\ h.slot[1] \in Held(t)
         /\ \A d \in detached : h.scope = <<"detached", d.id>>
              => h.slot \in IterateDeferred(d) /\ h.slot[1] \in ToSet(d.blocks)
  <1>1. h \in Handle
    BY DEF HandlesInv, HandlesType
  <1>2. ASSUME NEW t \in Threads, h.scope \in ScopesBelow(t, Top(Impl(t)))
        PROVE  h.slot \in Visited(Impl(t), Top(Impl(t))) /\ h.slot[1] \in Held(t)
    <2>1. Sound(Impl(t)) /\ Covers(Impl(t), t, handles)
      BY DEF HandlesInv, ScopesHold
    <2>2. Top(Impl(t)) \in 1..Top(Impl(t))
      BY <2>1, SoundParts DEF Top
    <2>3. h.slot \in SlotsOf(handles, ScopesBelow(t, Top(Impl(t))))
      BY <1>2, SlotsAre
    <2>4. h.slot \in Visited(Impl(t), Top(Impl(t)))
      BY <2>1, <2>2, <2>3 DEF Covers
    <2>5. PICK k \in 1..Len(Impl(t).blocks) : h.slot[1] = Impl(t).blocks[k]
      BY <2>1, <2>2, <2>4, SoundHeight
    <2>6. h.slot[1] \in Held(t)
      BY <2>1, <2>5, OwnedAre DEF Held
    <2> QED BY <2>4, <2>6
  <1>3. ASSUME NEW d \in detached, h.scope = <<"detached", d.id>>
        PROVE  h.slot \in IterateDeferred(d) /\ h.slot[1] \in ToSet(d.blocks)
    <2>1. h.slot \in SlotsOf(handles, {<<"detached", d.id>>})
      BY <1>3, SlotsAre
    <2>2. h.slot \in IterateDeferred(d)
      BY <2>1 DEF HandlesInv, ScopesHold
    <2> QED BY <2>2, DeferredBlocks DEF HandlesInv, HandlesType
  <1> QED BY <1>1, <1>2, <1>3

LEMMA HandlesInvImplies == HandlesInv => HandlesAreRoots
  <1>1. SUFFICES ASSUME HandlesInv PROVE HandlesAreRoots
    OBVIOUS
  <1>2. \A t \in Threads : Sound(Impl(t)) /\ Covers(Impl(t), t, handles)
    BY <1>1 DEF HandlesInv, ScopesHold
  <1>3. \A t \in Threads : IterateThis(Impl(t)) = SlotsOf(handles, ScopesBelow(t, Top(Impl(t))))
    <2>1. \A t \in Threads : Top(Impl(t)) \in 1..Top(Impl(t))
      BY <1>2, SoundParts DEF Top
    <2> QED BY <1>2, <2>1, IterateIs DEF Covers
  <1>4. IterateThis(Fresh) = {}
    BY FreshSound, IterateIs
  <1>5. /\ active \in Threads \cup {"none"} /\ (active = "none" => impl = Fresh)
        /\ (active # "none" => archived[active] = Fresh)
    BY <1>1 DEF HandlesInv, HandlesType
  <1>6. ASSUME NEW s
        PROVE  s \in Iterate <=> \/ \E t \in Threads : s \in IterateThis(Impl(t))
                                 \/ \E d \in detached : s \in IterateDeferred(d)
    <2>1. s \in Iterate <=> \/ s \in IterateThis(impl)
                            \/ \E t \in Threads : s \in IterateThis(archived[t])
                            \/ \E d \in detached : s \in IterateDeferred(d)
      BY DEF Iterate
    <2>2. ASSUME NEW t \in Threads, s \in IterateThis(archived[t])
          PROVE  \E u \in Threads : s \in IterateThis(Impl(u))
      BY <1>4, <1>5, <2>2, ThreadAssumption DEF Impl
    <2>3. ASSUME s \in IterateThis(impl)
          PROVE  \E u \in Threads : s \in IterateThis(Impl(u))
      BY <1>4, <1>5, <2>3 DEF Impl
    <2>4. ASSUME NEW u \in Threads, s \in IterateThis(Impl(u))
          PROVE  s \in IterateThis(impl) \/ \E t \in Threads : s \in IterateThis(archived[t])
      BY <2>4 DEF Impl
    <2> QED BY <2>1, <2>2, <2>3, <2>4
  <1>7. ASSUME NEW s
        PROVE  s \in Iterate <=> \E h \in handles : h.slot = s
    <2>1. ASSUME s \in Iterate PROVE \E h \in handles : h.slot = s
      <3>1. CASE \E t \in Threads : s \in IterateThis(Impl(t))
        BY <1>3, <3>1, SlotsAre
      <3>2. CASE \E d \in detached : s \in IterateDeferred(d)
        <4>1. PICK d \in detached : s \in IterateDeferred(d)
          BY <3>2
        <4>2. s \in SlotsOf(handles, {<<"detached", d.id>>})
          BY <1>1, <4>1 DEF HandlesInv, ScopesHold
        <4> QED BY <4>2, SlotsAre
      <3> QED BY <1>6, <2>1, <3>1, <3>2
    <2>2. ASSUME NEW h \in handles PROVE h.slot \in Iterate
      <3>1. CASE \E t \in Threads : h.scope \in ScopesBelow(t, Top(Impl(t)))
        <4>1. PICK t \in Threads : h.scope \in ScopesBelow(t, Top(Impl(t)))
          BY <3>1
        <4>2. h.slot \in IterateThis(Impl(t))
          BY <1>3, <4>1, SlotsAre
        <4> QED BY <1>6, <4>2
      <3>2. CASE \E d \in detached : h.scope = <<"detached", d.id>>
        BY <1>1, <1>6, <3>2, HandlesWhere
      <3> QED BY <1>1, <3>1, <3>2 DEF HandlesInv, HandlesBelong
    <2> QED BY <2>1, <2>2
  <1>8. Iterate = {h.slot : h \in handles}
    BY <1>7
  <1> QED BY <1>1, <1>8 DEF HandlesAreRoots, HandlesInv, SlotsDistinct

-----------------------------------------------------------------------------
(***************************************************************************)
(* What a step has to show when it changes the active implementer only.    *)
(***************************************************************************)
LEMMA ImplIs ==
  ASSUME HandlesInv, active \in Threads, active' = active, archived' = archived
  PROVE  /\ \A t \in Threads : Impl(t)' = IF t = active THEN impl' ELSE Impl(t)
         /\ Impl(active) = impl
  BY DEF Impl

\* Whose a handle is, by its scope.
LEMMA ScopeOf ==
  ASSUME NEW h \in Handle
  PROVE  /\ h = [scope |-> h.scope, slot |-> h.slot] /\ h.slot \in Slots
         /\ h.scope = <<h.scope[1], h.scope[2]>>
         /\ h.scope[1] \in Threads \/ h.scope[1] = "detached"
         /\ \A t \in Threads : ~(h.scope[1] = t /\ h.scope[1] = "detached")
         /\ h.scope[2] \in Nat
  BY ThreadAssumption DEF Handle

LEMMA HandleOwner ==
  ASSUME HandlesInv, NEW h \in handles
  PROVE  /\ \A t \in Threads : h.scope[1] = t => h.scope \in ScopesBelow(t, Top(Impl(t)))
         /\ h.scope[1] = "detached" => \E d \in detached : h.scope = <<"detached", d.id>>
  <1>1. h \in Handle
    BY DEF HandlesInv, HandlesType
  <1>2. \/ \E t \in Threads : h.scope \in ScopesBelow(t, Top(Impl(t)))
        \/ \E d \in detached : h.scope = <<"detached", d.id>>
    BY DEF HandlesInv, HandlesBelong
  <1>3. \A t : h.scope \in ScopesBelow(t, Top(Impl(t))) => h.scope[1] = t
    BY DEF ScopesBelow
  <1>4. \A d : h.scope = <<"detached", d.id>> => h.scope[1] = "detached"
    OBVIOUS
  <1> QED BY <1>1, <1>2, <1>3, <1>4, ScopeOf

\* The handles of the other threads stay; what is left to show of a step.
LEMMA StepKeeps ==
  ASSUME HandlesInv, active \in Threads, active' = active, archived' = archived,
         Sound(impl'), Covers(impl', active, handles'), handles' \subseteq Handle,
         \A t \in Threads \ {active} : \A h : h.scope[1] = t => (h \in handles' <=> h \in handles),
         \A h \in handles' : h.scope[1] = active => h.scope \in ScopesBelow(active, Top(impl')),
         \A h \in handles' : h.scope[1] = "detached"
            => \E d \in detached' : h.scope = <<"detached", d.id>>,
         \A d \in detached' : /\ d \in [id : Nat, limit : Position, blocks : Seq(Blocks)]
                              /\ d.blocks # <<>>
                              /\ IterateDeferred(d) = SlotsOf(handles', {<<"detached", d.id>>}),
         IsFiniteSet(detached'), SlotsDistinct', Numbered', Apart'
  PROVE  HandlesInv'
  <1>1. \A t \in Threads : Impl(t)' = IF t = active THEN impl' ELSE Impl(t)
    BY ImplIs
  <1>2. \A t \in Threads : Sound(Impl(t)) /\ Covers(Impl(t), t, handles)
    BY DEF HandlesInv, ScopesHold
  <1>3. \A t \in Threads : Sound(Impl(t))'
    BY <1>1, <1>2
  <1>4. HandlesType'
    BY ThreadAssumption DEF HandlesType, HandlesInv, Sound
  <1>5. HandlesBelong'
    <2>1. SUFFICES ASSUME NEW h \in handles'
                   PROVE  \/ \E t \in Threads : h.scope \in ScopesBelow(t, Top(Impl(t)'))
                          \/ \E d \in detached' : h.scope = <<"detached", d.id>>
      BY DEF HandlesBelong
    <2>2. h.scope[1] \in Threads \/ h.scope[1] = "detached"
      BY ScopeOf
    <2>3. CASE h.scope[1] = active
      BY <1>1, <2>3
    <2>4. CASE h.scope[1] \in Threads \ {active}
      <3>1. h \in handles
        BY <2>4
      <3>2. h.scope \in ScopesBelow(h.scope[1], Top(Impl(h.scope[1])))
        BY <2>4, <3>1, HandleOwner
      <3> QED BY <1>1, <2>4, <3>2
    <2> QED BY <2>2, <2>3, <2>4
  <1>6. ASSUME NEW t \in Threads, t # active
        PROVE  Covers(Impl(t), t, handles')
    <2>1. \A j, s : s \in SlotsOf(handles', ScopesBelow(t, j)) <=> s \in SlotsOf(handles, ScopesBelow(t, j))
      <3>1. \A j, h : h.scope \in ScopesBelow(t, j) => h.scope[1] = t
        BY DEF ScopesBelow
      <3> QED BY <1>6, <3>1, SlotsAre
    <2>2. ASSUME NEW j
          PROVE  SlotsOf(handles', ScopesBelow(t, j)) = SlotsOf(handles, ScopesBelow(t, j))
      <3> DEFINE X == SlotsOf(handles', ScopesBelow(t, j))
                 Y == SlotsOf(handles, ScopesBelow(t, j))
      <3>1. \A s : s \in X <=> s \in Y
        BY <2>1
      <3> HIDE DEF X, Y
      <3>2. X = Y
        BY <3>1
      <3> QED BY <3>2 DEF X, Y
    <2> QED BY <1>2, <2>2 DEF Covers
  <1>7. ScopesHold'
    <2>1. \A t \in Threads : Covers(Impl(t)', t, handles')
      BY <1>1, <1>6
    <2> QED BY <2>1 DEF ScopesHold
  <1> QED BY <1>3, <1>4, <1>5, <1>7 DEF HandlesInv

\* The detached handles stay as well.
LEMMA StepKeepsDetached ==
  ASSUME HandlesInv, active \in Threads, active' = active, archived' = archived, detached' = detached,
         Sound(impl'), Covers(impl', active, handles'), handles' \subseteq Handle,
         Owned(impl') \ {0} \subseteq Owned(impl) \cup FreeBlocks,
         \A h : h.scope[1] # active => (h \in handles' <=> h \in handles),
         \A h \in handles' : h.scope[1] = active => h.scope \in ScopesBelow(active, Top(impl')),
         SlotsDistinct'
  PROVE  HandlesInv'
  <1>1. \A h \in handles' : h.scope[1] = "detached" => \E d \in detached : h.scope = <<"detached", d.id>>
    BY HandleOwner, ThreadAssumption
  <1>2. ASSUME NEW d \in detached
        PROVE  IterateDeferred(d) = SlotsOf(handles', {<<"detached", d.id>>})
    <2>1. \A s : s \in SlotsOf(handles', {<<"detached", d.id>>}) <=> s \in SlotsOf(handles, {<<"detached", d.id>>})
      <3>1. \A h : h.scope \in {<<"detached", d.id>>} => h.scope[1] # active
        BY ThreadAssumption
      <3> QED BY <3>1, SlotsAre
    <2> QED BY <2>1 DEF HandlesInv, ScopesHold
  <1>3. Numbered'
    BY DEF Numbered, HandlesInv
  <1>4. Apart'
    <2>1. \A t \in Threads : Held(t)' = IF t = active THEN Owned(impl') \ {0} ELSE Held(t)
      BY ImplIs DEF Held
    <2>2. Held(active) = Owned(impl) \ {0}
      BY ImplIs DEF Held
    <2>3. \A t \in Threads : t # active => Owned(impl') \cap Held(t) = {}
      <3>1. \A t \in Threads : t # active => Held(t) \cap FreeBlocks = {}
        BY DEF Held, Impl, FreeBlocks
      <3>2. \A t \in Threads : t # active => Held(t) \cap Held(active) = {} /\ 0 \notin Held(t)
        BY DEF HandlesInv, Apart, Held
      <3> QED BY <2>2, <3>1, <3>2
    <2>4. \A d \in detached : (Owned(impl') \ {0}) \cap ToSet(d.blocks) = {}
      <3>1. \A d \in detached : ToSet(d.blocks) \cap FreeBlocks = {}
        BY DEF FreeBlocks
      <3>2. \A d \in detached : ToSet(d.blocks) \cap Held(active) = {}
        BY DEF HandlesInv, Apart
      <3> QED BY <2>2, <3>1, <3>2
    <2>5. Apart
      BY DEF HandlesInv
    <2> QED BY <2>1, <2>3, <2>4, <2>5 DEF Apart
  <1>5. /\ IsFiniteSet(detached)
        /\ \A d \in detached : d \in [id : Nat, limit : Position, blocks : Seq(Blocks)] /\ d.blocks # <<>>
    BY DEF HandlesInv, HandlesType
  <1> QED BY <1>1, <1>2, <1>3, <1>4, <1>5, StepKeeps

-----------------------------------------------------------------------------
(***************************************************************************)
(* The operations of an active thread on its scopes and handles.           *)
(***************************************************************************)
Scopes == [kind : ScopeKinds, next : Position, limit : Position, escaped : BOOLEAN]

LEMMA ImplementerIs ==
  ASSUME NEW i
  PROVE  i \in Implementer <=>
           /\ i = [next |-> i.next, limit |-> i.limit, blocks |-> i.blocks, spare |-> i.spare,
                   last_handle_before_deferred_block |-> i.last_handle_before_deferred_block,
                   scopes |-> i.scopes]
           /\ i.next \in Position /\ i.limit \in Position /\ i.blocks \in Seq(Blocks)
           /\ i.spare \in {0} \cup Blocks /\ i.last_handle_before_deferred_block \in Position
           /\ i.scopes \in Seq(Scopes)
  BY DEF Implementer, Scopes

LEMMA InitializeIs ==
  ASSUME NEW i, Sound(i), NEW kind \in ScopeKinds, kind # "deferred"
  PROVE  IsOpened(i, Initialize(i, kind), kind)
  <1>1. i \in Implementer
    BY DEF Sound
  <1>2. Saved(i, kind) \in Scopes
    BY <1>1, ImplementerIs DEF Saved, Scopes
  <1> DEFINE m == Initialize(i, kind)
             scopes == Append(i.scopes, Saved(i, kind))
  <1>3. scopes \in Seq(Scopes)
    BY <1>1, <1>2, ImplementerIs
  <1> HIDE DEF scopes
  <1>4. m = [i EXCEPT !.scopes = scopes]
    BY DEF Initialize, scopes
  <1>5. m \in Implementer
    BY <1>1, <1>3, <1>4 DEF Implementer, Scopes
  <1>6. /\ m.blocks = i.blocks /\ m.spare = i.spare /\ m.next = i.next /\ m.limit = i.limit
        /\ m.last_handle_before_deferred_block = i.last_handle_before_deferred_block
        /\ m.scopes = scopes
    BY <1>1, <1>4 DEF Implementer
  <1> HIDE DEF m
  <1>7. IsOpened(i, m, kind)
    BY <1>5, <1>6 DEF IsOpened, scopes
  <1> QED BY <1>7 DEF m

LEMMA EscapedIs ==
  ASSUME NEW i, Sound(i), NEW k \in DOMAIN i.scopes,
         NEW m, m = [i EXCEPT !.scopes[k].escaped = TRUE]
  PROVE  /\ IsSame(i, m) /\ m.spare = i.spare
         /\ m.next = i.next /\ m.limit = i.limit
  <1>1. i \in Implementer /\ i.scopes \in Seq(Scopes)
    BY DEF Sound, Implementer, Scopes
  <1> DEFINE e == [i.scopes[k] EXCEPT !.escaped = TRUE]
             scopes == [i.scopes EXCEPT ![k] = e]
  <1>2. i.scopes[k] \in Scopes /\ k \in 1..Len(i.scopes)
    BY <1>1
  <1>3. e \in Scopes /\ e.kind = i.scopes[k].kind /\ e.next = i.scopes[k].next /\ e.limit = i.scopes[k].limit
    BY <1>2 DEF Scopes
  <1>4. m = [i EXCEPT !.scopes = scopes]
    OBVIOUS
  <1> HIDE DEF e
  <1>5. /\ scopes \in Seq(Scopes) /\ Len(scopes) = Len(i.scopes)
        /\ \A j \in 1..Len(i.scopes) : scopes[j] = IF j = k THEN e ELSE i.scopes[j]
    BY <1>1, <1>2, <1>3
  <1> HIDE DEF scopes
  <1>6. m \in Implementer
    BY <1>1, <1>4, <1>5 DEF Implementer, Scopes
  <1>7. /\ m.blocks = i.blocks /\ m.spare = i.spare /\ m.next = i.next /\ m.limit = i.limit
        /\ m.last_handle_before_deferred_block = i.last_handle_before_deferred_block
        /\ m.scopes = scopes
    BY <1>1, <1>4 DEF Implementer
  <1>8. \A j \in 1..Len(i.scopes) : /\ scopes[j].kind = i.scopes[j].kind
                                    /\ scopes[j].next = i.scopes[j].next
                                    /\ scopes[j].limit = i.scopes[j].limit
    BY <1>3, <1>5
  <1> QED BY <1>5, <1>6, <1>7, <1>8 DEF IsSame

LEMMA ActiveParts ==
  ASSUME HandlesInv, IsEntered
  PROVE  /\ active \in Threads /\ Sound(impl) /\ Covers(impl, active, handles)
         /\ impl = Impl(active) /\ Held(active) = Owned(impl) \ {0}
         /\ Top(impl) = Level + 1 /\ Level \in Nat
         /\ handles \subseteq Handle /\ SlotsDistinct
         /\ \A h \in handles : h.scope[1] = active => h.scope \in ScopesBelow(active, Top(impl))
  <1>1. active \in Threads /\ impl = Impl(active)
    BY DEF IsEntered, Impl
  <1>2. Sound(impl) /\ Covers(impl, active, handles)
    BY <1>1 DEF HandlesInv, ScopesHold
  <1>3. Top(impl) = Level + 1 /\ Level \in Nat
    BY <1>2, SoundParts DEF Top, Level
  <1> QED BY <1>1, <1>2, <1>3, HandleOwner DEF HandlesInv, HandlesType, Held

LEMMA OpenScopeStep == HandlesInv /\ OpenScope => HandlesInv'
  <1>1. SUFFICES ASSUME HandlesInv, OpenScope PROVE HandlesInv'
    OBVIOUS
  <1>2. /\ IsEntered /\ impl' = Initialize(impl, "scope")
        /\ active' = active /\ archived' = archived /\ detached' = detached /\ handles' = handles
    BY <1>1 DEF OpenScope
  <1>3. /\ active \in Threads /\ Sound(impl) /\ Covers(impl, active, handles)
        /\ Top(impl) = Level + 1 /\ Level \in Nat
        /\ handles \subseteq Handle /\ SlotsDistinct
        /\ \A h \in handles : h.scope[1] = active => h.scope \in ScopesBelow(active, Top(impl))
    BY <1>1, <1>2, ActiveParts
  <1>4. IsOpened(impl, impl', "scope")
    <2>1. "scope" \in ScopeKinds /\ "scope" # "deferred"
      BY DEF ScopeKinds
    <2> QED BY <1>2, <1>3, <2>1, InitializeIs
  <1>5. /\ Sound(impl') /\ Top(impl') = Top(impl) + 1
        /\ \A j \in 1..Top(impl) : Visited(impl', j) = Visited(impl, j)
        /\ Visited(impl', Top(impl')) = Visited(impl, Top(impl))
    BY <1>3, <1>4, OpenedSound
  <1>6. \A h \in handles : h.scope # <<active, Top(impl)>>
    BY <1>3 DEF ScopesBelow
  <1>7. Covers(impl', active, handles)
    <2>1. Top(impl) \in Nat \ {0}
      BY <1>3
    <2> QED BY <1>3, <1>5, <1>6, <2>1, CoversOpened
  <1>8. Owned(impl') = Owned(impl)
    BY <1>4 DEF IsOpened, Owned
  <1>9. \A h \in handles : h.scope[1] = active => h.scope \in ScopesBelow(active, Top(impl'))
    BY <1>3, <1>5 DEF ScopesBelow
  <1>10. SlotsDistinct'
    BY <1>2, <1>3 DEF SlotsDistinct
  <1> QED BY <1>1, <1>2, <1>3, <1>5, <1>7, <1>8, <1>9, <1>10, StepKeepsDetached

LEMMA EscapeStep == HandlesInv /\ Escape => HandlesInv'
  <1>1. SUFFICES ASSUME HandlesInv, Escape PROVE HandlesInv'
    OBVIOUS
  <1>2. /\ IsEntered
        /\ active' = active /\ archived' = archived /\ detached' = detached /\ handles' = handles
    BY <1>1 DEF Escape
  <1>3. /\ active \in Threads /\ Sound(impl) /\ Covers(impl, active, handles)
        /\ Top(impl) = Level + 1 /\ Level \in Nat
        /\ handles \subseteq Handle /\ SlotsDistinct
        /\ \A h \in handles : h.scope[1] = active => h.scope \in ScopesBelow(active, Top(impl))
    BY <1>1, <1>2, ActiveParts
  <1>4. PICK k \in DOMAIN impl.scopes : impl' = [impl EXCEPT !.scopes[k].escaped = TRUE]
    BY <1>1 DEF Escape
  <1>5. IsSame(impl, impl') /\ impl'.spare = impl.spare
        /\ impl'.next = impl.next /\ impl'.limit = impl.limit
    BY <1>3, <1>4, EscapedIs
  <1>6. BlocksDistinct(impl')
    BY <1>3, <1>5 DEF BlocksDistinct, Sound, IsSame
  <1>7. /\ Sound(impl') /\ Top(impl') = Top(impl)
        /\ \A j \in 1..Top(impl) : Visited(impl', j) = Visited(impl, j)
    BY <1>3, <1>5, <1>6, SameSound
  <1>8. Covers(impl', active, handles)
    BY <1>3, <1>7 DEF Covers
  <1>9. Owned(impl') = Owned(impl)
    BY <1>5 DEF IsSame, Owned
  <1>10. SlotsDistinct'
    BY <1>2, <1>3 DEF SlotsDistinct
  <1> QED BY <1>1, <1>2, <1>3, <1>7, <1>8, <1>9, <1>10, StepKeepsDetached

LEMMA MinOf ==
  ASSUME NEW k \in Nat, NEW S, S \subseteq 1..k, S # {}
  PROVE  Min(S) \in S
  <1> DEFINE T == {k - x : x \in S}
  <1>1. T \subseteq 0..k /\ T # {}
    <2>1. \A x \in S : k - x \in 0..k
      OBVIOUS
    <2>2. PICK x \in S : TRUE
      OBVIOUS
    <2>3. k - x \in T
      OBVIOUS
    <2> QED BY <2>1, <2>3
  <1> HIDE DEF T
  <1>2. PICK m \in T : \A n \in T : m >= n
    BY <1>1, GreatestNumber
  <1>3. PICK x \in S : m = k - x
    BY <1>2 DEF T
  <1>4. \A y \in S : x <= y
    <2>1. \A y \in S : k - y \in T
      BY DEF T
    <2> QED BY <1>2, <1>3, <2>1
  <1> QED BY <1>4 DEF Min

LEMMA NewBlockIs ==
  ASSUME HandlesInv, IsEntered, NEW i, i.spare = impl.spare, HasBlock(i)
  PROVE  /\ NewBlock(i) \in Blocks /\ NewBlock(i) \notin ToSet(impl.blocks)
         /\ NewBlock(i) \in Owned(impl) \cup FreeBlocks
  <1>1. Sound(impl)
    BY ActiveParts
  <1>2. CASE i.spare # 0
    <2>1. NewBlock(i) = impl.spare
      BY <1>2 DEF NewBlock
    <2>2. impl.spare \in Blocks /\ impl.spare \in Owned(impl)
      BY <1>1, <1>2, SoundParts DEF Owned
    <2>3. impl.spare \notin ToSet(impl.blocks)
      BY <1>1, OwnedAre DEF Sound, BlocksDistinct
    <2> QED BY <2>1, <2>2, <2>3
  <1>3. CASE i.spare = 0
    <2>1. NewBlock(i) = Min(FreeBlocks) /\ FreeBlocks # {} /\ FreeBlocks \subseteq 1..MaxBlocks
      BY <1>3 DEF NewBlock, HasBlock, FreeBlocks, Blocks
    <2>2. NewBlock(i) \in FreeBlocks
      BY <2>1, MinOf, BlockAssumption
    <2> QED BY <2>2 DEF FreeBlocks, Owned
  <1> QED BY <1>2, <1>3

LEMMA AddBlockIs ==
  ASSUME NEW i \in Implementer, BlocksDistinct(i), NEW b, b = NewBlock(i), b \in Blocks,
         b \notin ToSet(i.blocks), NEW m, m = AddBlock(i)
  PROVE  /\ m \in Implementer /\ BlocksDistinct(m)
         /\ m.blocks = Append(i.blocks, b) /\ m.next = Start(b) /\ m.limit = Limit(b)
         /\ m.last_handle_before_deferred_block = i.last_handle_before_deferred_block
         /\ m.scopes = i.scopes /\ m.spare = 0
  <1> DEFINE blocks == Append(i.blocks, b)
  <1>1. blocks \in Seq(Blocks) /\ i.blocks \in Seq(Blocks)
    BY DEF Implementer
  <1>2. Start(b) \in Position /\ Limit(b) \in Position
    BY BlockAssumption DEF Start, Limit, Position
  <1>3. /\ Len(blocks) = Len(i.blocks) + 1 /\ Len(i.blocks) \in Nat
        /\ blocks[Len(blocks)] = b
        /\ \A k \in 1..Len(i.blocks) : blocks[k] = i.blocks[k] /\ i.blocks[k] \in ToSet(i.blocks)
    BY <1>1 DEF ToSet
  <1> HIDE DEF blocks
  <1>4. m = [i EXCEPT !.blocks = blocks, !.spare = 0, !.next = Start(b), !.limit = Limit(b)]
    BY DEF AddBlock, blocks
  <1>5. /\ m \in Implementer
        /\ m.blocks = blocks /\ m.next = Start(b) /\ m.limit = Limit(b)
        /\ m.last_handle_before_deferred_block = i.last_handle_before_deferred_block
        /\ m.scopes = i.scopes /\ m.spare = 0
    BY <1>1, <1>2, <1>4 DEF Implementer
  <1>6. BlocksDistinct(m)
    <2>1. ASSUME NEW k \in 1..Len(blocks), NEW l \in 1..Len(blocks), blocks[k] = blocks[l]
          PROVE  k = l
      BY <1>3, <2>1 DEF BlocksDistinct
    <2>2. \A k \in 1..Len(blocks) : blocks[k] # 0
      <3>1. \A k \in 1..Len(blocks) : blocks[k] \in Blocks
        BY <1>1
      <3> QED BY <3>1 DEF Blocks
    <2> QED BY <1>5, <2>1, <2>2 DEF BlocksDistinct
  <1> QED BY <1>5, <1>6 DEF blocks

LEMMA TakeIs ==
  ASSUME NEW i, Sound(i), i.next # i.limit, NEW m, m = Take(i)
  PROVE  IsTaken(i, m) /\ m.spare = i.spare
  <1>1. i \in Implementer
    BY DEF Sound
  <1>2. <<i.next[1], i.next[2] + 1>> \in Position
    <2>1. Top(i) \in 1..Top(i) /\ Len(i.blocks) \in Nat
      BY SoundParts DEF Top
    <2>2. MarkIs(i, Top(i), Len(i.blocks))
      BY <2>1, Marks DEF Sound, MarksInOrder
    <2>3. NextAt(i, Top(i)) = i.next /\ LimitAt(i, Top(i)) = i.limit
      BY DEF NextAt, LimitAt
    <2>4. Len(i.blocks) # 0
      BY <2>2, <2>3 DEF MarkIs
    <2>5. /\ i.limit = <<i.next[1], kHandleBlockSize>> /\ i.next = <<i.next[1], i.next[2]>>
          /\ i.next[2] \in 0..kHandleBlockSize
      BY <2>2, <2>3, <2>4 DEF MarkIs, Limit
    <2>6. i.next[2] # kHandleBlockSize
      BY <2>5
    <2>7. i.next[2] + 1 \in 0..kHandleBlockSize
      BY <2>5, <2>6, BlockAssumption
    <2>8. i.next[1] \in {0} \cup Blocks
      BY <1>1 DEF Implementer, Position
    <2> QED BY <2>7, <2>8 DEF Position
  <1> DEFINE p == <<i.next[1], i.next[2] + 1>>
  <1>3. p \in Position
    BY <1>2
  <1> HIDE DEF p
  <1>4. m = [i EXCEPT !.next = p]
    BY DEF Take, p
  <1>5. /\ m \in Implementer
        /\ m.blocks = i.blocks /\ m.next = p /\ m.limit = i.limit /\ m.spare = i.spare
        /\ m.last_handle_before_deferred_block = i.last_handle_before_deferred_block
        /\ m.scopes = i.scopes
    BY <1>1, <1>3, <1>4 DEF Implementer
  <1>6. BlocksDistinct(m)
    BY <1>5 DEF BlocksDistinct, Sound
  <1> QED BY <1>5, <1>6 DEF IsTaken, IsSame, p

LEMMA ExtendIs ==
  ASSUME HandlesInv, IsEntered, CanExtend(impl), NEW i, i = Extend(impl)
  PROVE  /\ Sound(i) /\ Top(i) = Top(impl) /\ i.next # i.limit /\ i.scopes = impl.scopes
         /\ \A j \in 1..Top(impl) : Visited(i, j) = Visited(impl, j)
         /\ Owned(i) \ {0} \subseteq Owned(impl) \cup FreeBlocks
  <1>1. Sound(impl)
    BY ActiveParts
  <1>2. CASE impl.next # impl.limit
    BY <1>1, <1>2 DEF Extend
  <1>3. CASE impl.next = impl.limit
    <2> DEFINE b == NewBlock(impl)
    <2>1. HasBlock(impl) /\ i = AddBlock(impl)
      BY <1>3 DEF CanExtend, Extend
    <2>2. b \in Blocks /\ b \notin ToSet(impl.blocks) /\ b \in Owned(impl) \cup FreeBlocks
      BY <2>1, NewBlockIs
    <2>3. impl \in Implementer /\ BlocksDistinct(impl)
      BY <1>1 DEF Sound
    <2>4. b = NewBlock(impl)
      OBVIOUS
    <2> HIDE DEF b
    <2>5. /\ i \in Implementer /\ BlocksDistinct(i)
          /\ i.blocks = Append(impl.blocks, b) /\ i.next = Start(b) /\ i.limit = Limit(b)
          /\ i.last_handle_before_deferred_block = impl.last_handle_before_deferred_block
          /\ i.scopes = impl.scopes /\ i.spare = 0
      BY <2>1, <2>2, <2>3, <2>4, AddBlockIs
    <2>6. IsAdded(impl, i, b)
      BY <1>3, <2>2, <2>5 DEF IsAdded, IsGrown
    <2>7. /\ Sound(i) /\ Top(i) = Top(impl)
          /\ \A j \in 1..Top(i) : Visited(i, j) = Visited(impl, j)
          /\ i.next # i.limit
      BY <1>1, <2>6, AddedSound
    <2>8. ToSet(i.blocks) = ToSet(impl.blocks) \cup {b}
      BY <1>1, <2>6, GrownParts DEF IsAdded
    <2>9. Owned(i) \ {0} \subseteq Owned(impl) \cup FreeBlocks
      BY <2>2, <2>5, <2>8 DEF Owned
    <2> QED BY <2>5, <2>7, <2>9
  <1> QED BY <1>2, <1>3

\* A handle is created in the last scope.
LEMMA NewHandle ==
  ASSUME HandlesInv, IsEntered, Level > 0, CanExtend(impl),
         NEW i, i = Extend(impl), NEW m, m = Take(i),
         NEW hs, hs = handles \cup {[scope |-> Scope, slot |-> i.next]}
  PROVE  /\ Sound(m) /\ Top(m) = Top(impl) /\ Covers(m, active, hs)
         /\ Owned(m) \ {0} \subseteq Owned(impl) \cup FreeBlocks
         /\ hs \subseteq Handle
         /\ \A h : h.scope[1] # active => (h \in hs <=> h \in handles)
         /\ \A h \in hs : h.scope[1] = active => h.scope \in ScopesBelow(active, Top(impl))
         /\ \A g, h \in hs : g.slot = h.slot => g = h
  <1>1. /\ active \in Threads /\ Sound(impl) /\ Covers(impl, active, handles) /\ impl = Impl(active)
        /\ Top(impl) = Level + 1 /\ Level \in Nat
        /\ handles \subseteq Handle /\ SlotsDistinct
        /\ \A h \in handles : h.scope[1] = active => h.scope \in ScopesBelow(active, Top(impl))
    BY ActiveParts
  <1>2. /\ Sound(i) /\ Top(i) = Top(impl) /\ i.next # i.limit /\ i.scopes = impl.scopes
        /\ \A j \in 1..Top(impl) : Visited(i, j) = Visited(impl, j)
        /\ Owned(i) \ {0} \subseteq Owned(impl) \cup FreeBlocks
    BY ExtendIs
  <1>3. IsTaken(i, m) /\ m.spare = i.spare
    BY <1>2, TakeIs
  <1>4. /\ Sound(m) /\ Top(m) = Top(i)
        /\ \A j \in 1..Len(i.scopes) : Visited(m, j) = Visited(i, j)
        /\ Visited(m, Top(m)) = Visited(i, Top(i)) \cup {i.next}
        /\ i.next \in Slots /\ i.next[1] \in ToSet(i.blocks)
        /\ i.next \notin Visited(i, Top(i))
    BY <1>2, <1>3, TakenSound
  <1> DEFINE g == [scope |-> <<active, Level>>, slot |-> i.next]
  <1>5. g.scope = <<active, Level>> /\ g.slot = i.next /\ g \in Handle
    BY <1>1, <1>4 DEF Handle
  <1>6. hs = handles \cup {g}
    BY DEF Scope
  <1>7. Covers(i, active, handles)
    BY <1>1, <1>2 DEF Covers
  <1> HIDE DEF g
  <1>8. Covers(m, active, handles \cup {g})
    <2>1. Level > 0 /\ Level \in Nat /\ Top(i) = Level + 1 /\ Len(i.scopes) = Level
      BY <1>1, <1>2 DEF Level
    <2>2. Top(i) \in Nat /\ Top(i) > 1 /\ Top(i) - 1 = Level
      BY <2>1
    <2>3. SameVisited(i, m, Top(i) - 1)
      BY <1>4, <2>1, <2>2 DEF SameVisited
    <2>4. g.scope = <<active, Top(i) - 1>>
      BY <1>5, <2>2
    <2>5. Visited(m, Top(m)) = Visited(i, Top(i)) \cup {g.slot}
      BY <1>4, <1>5
    <2> QED BY <1>4, <1>7, <2>2, <2>3, <2>4, <2>5, CoversTaken
  <1>9. Owned(m) = Owned(i)
    BY <1>3 DEF IsTaken, IsSame, Owned
  <1>10. i.next[1] \in Owned(i) \ {0}
    BY <1>2, <1>4, OwnedAre
  <1>11. \A h \in handles : h.slot # i.next
    <2>1. SUFFICES ASSUME NEW h \in handles, h.slot = i.next PROVE FALSE
      OBVIOUS
    <2>2. i.next[1] \in Owned(impl) \ {0} \/ i.next[1] \in FreeBlocks
      BY <1>2, <1>10
    <2>3. ASSUME NEW t \in Threads, h.scope \in ScopesBelow(t, Top(Impl(t))) PROVE FALSE
      <3>1. h.slot \in Visited(Impl(t), Top(Impl(t))) /\ h.slot[1] \in Held(t)
        BY <2>3, HandlesWhere
      <3>2. CASE t = active
        <4>1. Top(impl) \in 1..Top(impl)
          BY <1>1
        <4> QED BY <1>1, <1>2, <1>4, <2>1, <3>1, <3>2, <4>1
      <3>3. CASE t # active
        <4>1. Held(t) \cap Held(active) = {}
          BY <1>1, <3>3 DEF HandlesInv, Apart
        <4>2. Held(active) = Owned(impl) \ {0}
          BY <1>1 DEF Held
        <4>3. Held(t) \cap FreeBlocks = {}
          BY <3>3 DEF Held, Impl, FreeBlocks
        <4> QED BY <2>1, <2>2, <3>1, <4>1, <4>2, <4>3
      <3> QED BY <3>2, <3>3
    <2>4. ASSUME NEW d \in detached, h.scope = <<"detached", d.id>> PROVE FALSE
      <3>1. h.slot[1] \in ToSet(d.blocks)
        BY <2>4, HandlesWhere
      <3>2. Held(active) \cap ToSet(d.blocks) = {} /\ Held(active) = Owned(impl) \ {0}
        BY <1>1 DEF HandlesInv, Apart, Held
      <3>3. ToSet(d.blocks) \cap FreeBlocks = {}
        BY DEF FreeBlocks
      <3> QED BY <2>1, <2>2, <3>1, <3>2, <3>3
    <2> QED BY <2>3, <2>4 DEF HandlesInv, HandlesBelong
  <1>12. \A a, b \in hs : a.slot = b.slot => a = b
    BY <1>1, <1>5, <1>6, <1>11 DEF SlotsDistinct
  <1>13. g.scope \in ScopesBelow(active, Top(impl))
    <2>1. Level \in 1..Top(impl) - 1
      BY <1>1
    <2> QED BY <1>5, <2>1 DEF ScopesBelow
  <1>14. g.scope[1] = active
    BY <1>5
  <1> QED BY <1>1, <1>2, <1>4, <1>5, <1>6, <1>8, <1>9, <1>12, <1>13, <1>14

LEMMA CreateHandleStep == HandlesInv /\ CreateHandle => HandlesInv'
  <1>1. SUFFICES ASSUME HandlesInv, CreateHandle PROVE HandlesInv'
    OBVIOUS
  <1> DEFINE i == Extend(impl)
  <1>2. /\ IsEntered /\ Level > 0 /\ CanExtend(impl) /\ impl' = Take(i)
        /\ active' = active /\ archived' = archived /\ detached' = detached
        /\ handles' = handles \cup {[scope |-> Scope, slot |-> i.next]}
    BY <1>1 DEF CreateHandle
  <1>3. i = Extend(impl)
    OBVIOUS
  <1> HIDE DEF i
  <1>4. /\ Sound(impl') /\ Top(impl') = Top(impl) /\ Covers(impl', active, handles')
        /\ Owned(impl') \ {0} \subseteq Owned(impl) \cup FreeBlocks
        /\ handles' \subseteq Handle
        /\ \A h : h.scope[1] # active => (h \in handles' <=> h \in handles)
        /\ \A h \in handles' : h.scope[1] = active => h.scope \in ScopesBelow(active, Top(impl))
        /\ \A g, h \in handles' : g.slot = h.slot => g = h
    BY <1>1, <1>2, <1>3, NewHandle
  <1>5. SlotsDistinct'
    BY <1>4 DEF SlotsDistinct
  <1>6. active \in Threads
    BY <1>2 DEF IsEntered
  <1> QED BY <1>1, <1>2, <1>4, <1>5, <1>6, StepKeepsDetached

LEMMA OpenEscapableScopeStep == HandlesInv /\ OpenEscapableScope => HandlesInv'
  <1>1. SUFFICES ASSUME HandlesInv, OpenEscapableScope PROVE HandlesInv'
    OBVIOUS
  <1> DEFINE i == Extend(impl)
             m == Take(i)
  <1>2. /\ IsEntered /\ Level > 0 /\ CanExtend(impl) /\ impl' = Initialize(m, "escapable")
        /\ active' = active /\ archived' = archived /\ detached' = detached
        /\ handles' = handles \cup {[scope |-> Scope, slot |-> i.next]}
    BY <1>1 DEF OpenEscapableScope
  <1>3. i = Extend(impl) /\ m = Take(i)
    OBVIOUS
  <1> HIDE DEF i, m
  <1>4. /\ Sound(m) /\ Top(m) = Top(impl) /\ Covers(m, active, handles')
        /\ Owned(m) \ {0} \subseteq Owned(impl) \cup FreeBlocks
        /\ handles' \subseteq Handle
        /\ \A h : h.scope[1] # active => (h \in handles' <=> h \in handles)
        /\ \A h \in handles' : h.scope[1] = active => h.scope \in ScopesBelow(active, Top(impl))
        /\ \A g, h \in handles' : g.slot = h.slot => g = h
    BY <1>1, <1>2, <1>3, NewHandle
  <1>5. /\ active \in Threads /\ Top(impl) = Level + 1 /\ Level \in Nat
    BY <1>1, <1>2, ActiveParts
  <1>6. IsOpened(m, impl', "escapable")
    <2>1. "escapable" \in ScopeKinds /\ "escapable" # "deferred"
      BY DEF ScopeKinds
    <2> QED BY <1>2, <1>4, <2>1, InitializeIs
  <1>7. /\ Sound(impl') /\ Top(impl') = Top(m) + 1
        /\ \A j \in 1..Top(m) : Visited(impl', j) = Visited(m, j)
        /\ Visited(impl', Top(impl')) = Visited(m, Top(m))
    BY <1>4, <1>6, OpenedSound
  <1>8. \A h \in handles' : h.scope # <<active, Top(m)>>
    BY <1>4, <1>5 DEF ScopesBelow
  <1>9. Covers(impl', active, handles')
    <2>1. Top(m) \in Nat \ {0}
      BY <1>4, <1>5
    <2> QED BY <1>4, <1>7, <1>8, <2>1, CoversOpened
  <1>10. Owned(impl') = Owned(m)
    BY <1>6 DEF IsOpened, Owned
  <1>11. \A h \in handles' : h.scope[1] = active => h.scope \in ScopesBelow(active, Top(impl'))
    BY <1>4, <1>5, <1>7 DEF ScopesBelow
  <1>12. SlotsDistinct'
    BY <1>4 DEF SlotsDistinct
  <1> QED BY <1>1, <1>2, <1>4, <1>5, <1>7, <1>9, <1>10, <1>11, <1>12, StepKeepsDetached

LEMMA BeginIs ==
  ASSUME NEW i \in Implementer, NEW m, m = [Initialize(i, "deferred") EXCEPT !.last_handle_before_deferred_block = i.next]
  PROVE  /\ m \in Implementer /\ m.blocks = i.blocks /\ m.spare = i.spare
         /\ m.last_handle_before_deferred_block = i.next
         /\ m.scopes = Append(i.scopes, Saved(i, "deferred"))
  <1>1. Saved(i, "deferred") \in Scopes
    BY ImplementerIs DEF Saved, Scopes, ScopeKinds
  <1> DEFINE scopes == Append(i.scopes, Saved(i, "deferred"))
             o == [i EXCEPT !.scopes = scopes]
  <1>2. scopes \in Seq(Scopes)
    BY <1>1, ImplementerIs
  <1>3. o = Initialize(i, "deferred")
    BY DEF Initialize
  <1> HIDE DEF scopes
  <1>4. o \in Implementer /\ o.blocks = i.blocks /\ o.spare = i.spare /\ o.scopes = scopes
    BY <1>2 DEF Implementer, Scopes
  <1> HIDE DEF o
  <1>5. m = [o EXCEPT !.last_handle_before_deferred_block = i.next] /\ i.next \in Position
    BY <1>3 DEF Implementer
  <1>6. /\ m \in Implementer /\ m.blocks = o.blocks /\ m.spare = o.spare /\ m.scopes = o.scopes
        /\ m.last_handle_before_deferred_block = i.next
    BY <1>4, <1>5 DEF Implementer
  <1> QED BY <1>4, <1>6 DEF scopes

LEMMA BeginDeferredScopeStep == HandlesInv /\ BeginDeferredScope => HandlesInv'
  <1>1. SUFFICES ASSUME HandlesInv, BeginDeferredScope PROVE HandlesInv'
    OBVIOUS
  <1> DEFINE i == [Initialize(impl, "deferred") EXCEPT !.last_handle_before_deferred_block = impl.next]
             b == NewBlock(i)
  <1>2. /\ IsEntered /\ impl' = AddBlock(i) /\ HasBlock(impl)
        /\ impl.last_handle_before_deferred_block = Null /\ impl.blocks # <<>>
        /\ active' = active /\ archived' = archived /\ detached' = detached /\ handles' = handles
    BY <1>1 DEF BeginDeferredScope
  <1>3. /\ active \in Threads /\ Sound(impl) /\ Covers(impl, active, handles)
        /\ Top(impl) = Level + 1 /\ Level \in Nat
        /\ handles \subseteq Handle /\ SlotsDistinct
        /\ \A h \in handles : h.scope[1] = active => h.scope \in ScopesBelow(active, Top(impl))
    BY <1>1, <1>2, ActiveParts
  <1>4. b = NewBlock(i)
    OBVIOUS
  <1>5. impl \in Implementer /\ BlocksDistinct(impl)
    BY <1>3 DEF Sound
  <1>6. /\ i \in Implementer /\ i.blocks = impl.blocks /\ i.spare = impl.spare
        /\ i.last_handle_before_deferred_block = impl.next
        /\ i.scopes = Append(impl.scopes, Saved(impl, "deferred"))
    BY <1>5, BeginIs
  <1> HIDE DEF i, b
  <1>7. HasBlock(i)
    BY <1>2, <1>6 DEF HasBlock
  <1>8. b \in Blocks /\ b \notin ToSet(impl.blocks) /\ b \in Owned(impl) \cup FreeBlocks
    BY <1>1, <1>2, <1>4, <1>6, <1>7, NewBlockIs
  <1>9. BlocksDistinct(i)
    BY <1>5, <1>6 DEF BlocksDistinct
  <1>10. /\ impl' \in Implementer /\ BlocksDistinct(impl')
         /\ impl'.blocks = Append(i.blocks, b) /\ impl'.next = Start(b) /\ impl'.limit = Limit(b)
         /\ impl'.last_handle_before_deferred_block = i.last_handle_before_deferred_block
         /\ impl'.scopes = i.scopes /\ impl'.spare = 0
    BY <1>2, <1>4, <1>6, <1>8, <1>9, AddBlockIs
  <1>11. IsBegun(impl, impl', b)
    BY <1>2, <1>6, <1>8, <1>10 DEF IsBegun, IsGrown
  <1>12. /\ Sound(impl') /\ Top(impl') = Top(impl) + 1
         /\ \A j \in 1..Top(impl) : Visited(impl', j) = Visited(impl, j)
         /\ Visited(impl', Top(impl')) = Visited(impl, Top(impl))
    BY <1>3, <1>11, BegunSound
  <1>13. \A h \in handles : h.scope # <<active, Top(impl)>>
    BY <1>3 DEF ScopesBelow
  <1>14. Covers(impl', active, handles)
    <2>1. Top(impl) \in Nat \ {0}
      BY <1>3
    <2> QED BY <1>3, <1>12, <1>13, <2>1, CoversOpened
  <1>15. ToSet(impl'.blocks) = ToSet(impl.blocks) \cup {b}
    BY <1>3, <1>11, GrownParts DEF IsBegun
  <1>16. Owned(impl') \ {0} \subseteq Owned(impl) \cup FreeBlocks
    BY <1>8, <1>10, <1>15 DEF Owned
  <1>17. \A h \in handles : h.scope[1] = active => h.scope \in ScopesBelow(active, Top(impl'))
    BY <1>3, <1>12 DEF ScopesBelow
  <1>18. SlotsDistinct'
    BY <1>2, <1>3 DEF SlotsDistinct
  <1> QED BY <1>1, <1>2, <1>3, <1>12, <1>14, <1>16, <1>17, <1>18, StepKeepsDetached

\* Closing a scope leaves the blocks it began in.
LEMMA CloseScopeIs ==
  ASSUME NEW i, Sound(i), i.scopes # <<>>, Last(i.scopes).kind # "deferred",
         NEW m, m = CloseScope(i, Last(i.scopes))
  PROVE  IsCut(i, m) /\ Owned(m) \ {0} \subseteq Owned(i)
  <1> DEFINE scope  == Last(i.scopes)
             L      == Len(i.scopes)
             h      == HeightAt(i, L)
             scopes == Front(i.scopes)
             closed == [i EXCEPT !.next = scope.next, !.limit = scope.limit, !.scopes = scopes]
             keep   == Max({0} \cup {k \in DOMAIN i.blocks : Within(scope.limit, i.blocks[k])})
  <1>1. i \in Implementer /\ i.scopes \in Seq(Scopes) /\ BlocksDistinct(i)
    BY DEF Sound, Implementer, Scopes
  <1>2. scopes \in Seq(Scopes) /\ scope = i.scopes[L] /\ scope \in Scopes /\ L \in Nat \ {0}
    BY <1>1, FrontIs
  <1>3. L \in 1..Top(i) /\ L # Top(i)
    BY <1>2 DEF Top
  <1>4. NextAt(i, L) = scope.next /\ LimitAt(i, L) = scope.limit
    BY <1>2, <1>3 DEF NextAt, LimitAt
  <1>5. MarkIs(i, L, h)
    BY <1>3, Marks
  <1>6. /\ i.blocks \in Seq(Blocks) /\ DOMAIN i.blocks = 1..Len(i.blocks) /\ Len(i.blocks) \in Nat
        /\ \A k \in 1..Len(i.blocks) : i.blocks[k] \in Blocks
    BY SoundParts
  <1>7. ~IsDeferred(i, L)
    BY <1>2 DEF IsDeferred
  <1>8. scope.next \in Position /\ scope.limit \in Position
    BY <1>2 DEF Scopes
  <1> HIDE DEF scopes, scope
  <1>9. /\ closed \in Implementer /\ closed.next = scope.next /\ closed.limit = scope.limit
        /\ closed.blocks = i.blocks /\ closed.spare = i.spare /\ closed.scopes = scopes
        /\ closed.last_handle_before_deferred_block = i.last_handle_before_deferred_block
    BY <1>1, <1>2, <1>8 DEF Implementer, Scopes
  <1> HIDE DEF closed, h
  <1>10. h \in 0..Len(i.blocks) /\ h \in Nat
    BY <1>5, <1>6 DEF MarkIs
  <1>11. keep = h
    <2>1. {0} \cup {k \in DOMAIN i.blocks : Within(scope.limit, i.blocks[k])} = {0} \cup {h}
      <3>1. CASE h = 0
        <4>1. \A k \in 1..Len(i.blocks) : ~Within(scope.limit, i.blocks[k])
          BY <1>4, <1>5, <1>6, <3>1 DEF MarkIs, Within, Null, Blocks
        <4> QED BY <1>6, <3>1, <4>1
      <3>2. CASE h # 0
        <4>1. h \in 1..Len(i.blocks)
          BY <1>10, <3>2
        <4>2. scope.limit[1] = i.blocks[h]
          BY <1>4, <1>5, <1>6, <3>2, <4>1, Limits DEF MarkIs
        <4>3. \A k \in 1..Len(i.blocks) : Within(scope.limit, i.blocks[k]) <=> k = h
          BY <1>1, <4>1, <4>2 DEF Within, BlocksDistinct
        <4> QED BY <1>6, <4>1, <4>3
      <3> QED BY <3>1, <3>2
    <2>2. {0} \cup {h} \subseteq 0..h /\ {0} \cup {h} # {}
      BY <1>10
    <2>3. Max({0} \cup {h}) \in {0} \cup {h} /\ \A n \in {0} \cup {h} : Max({0} \cup {h}) >= n
      BY <1>10, <2>2, MaxOf
    <2>4. Max({0} \cup {h}) = h
      <3> DEFINE x == Max({0} \cup {h})
      <3>1. (x = 0 \/ x = h) /\ x >= h
        BY <2>3
      <3> HIDE DEF x
      <3>2. x = h
        BY <1>10, <3>1
      <3> QED BY <3>2 DEF x
    <2> QED BY <2>1, <2>4
  <1>12. m = IF i.limit # scope.limit THEN DeleteExtensions(closed, scope.limit) ELSE closed
    BY DEF CloseScope, closed, scope, scopes
  <1>13. DeleteExtensions(closed, scope.limit) =
           IF h = Len(i.blocks) THEN closed
           ELSE [closed EXCEPT !.blocks = SubSeq(@, 1, h), !.spare = i.blocks[h + 1]]
    BY <1>9, <1>11 DEF DeleteExtensions
  <1>14. i.limit = scope.limit => h = Len(i.blocks)
    <2>1. LimitAt(i, Top(i)) = i.limit
      BY DEF LimitAt
    <2>2. HeightAt(i, Top(i)) = Len(i.blocks)
      BY DEF Sound, MarksInOrder
    <2> QED BY <1>4, <2>1, <2>2 DEF HeightAt, h
  <1>15. CASE h = Len(i.blocks)
    <2>1. m = closed
      BY <1>12, <1>13, <1>15
    <2>2. SubSeq(i.blocks, 1, h) = i.blocks
      BY <1>6, <1>15
    <2>3. BlocksDistinct(m)
      BY <1>1, <1>9, <2>1 DEF BlocksDistinct
    <2>4. Owned(m) = Owned(i)
      BY <1>9, <2>1 DEF Owned
    <2> QED BY <1>7, <1>9, <2>1, <2>2, <2>3, <2>4 DEF IsCut, scope, scopes, h
  <1>16. CASE h # Len(i.blocks)
    <2> DEFINE blocks == SubSeq(i.blocks, 1, h)
               spare  == i.blocks[h + 1]
    <2>1. \A k \in 1..h : i.blocks[k] \in Blocks
      BY <1>6, <1>10
    <2>2. /\ blocks \in Seq(Blocks) /\ Len(blocks) = h
          /\ \A k \in 1..h : blocks[k] = i.blocks[k]
      BY <1>10, <2>1, SubSeqProperties
    <2>3. h + 1 \in 1..Len(i.blocks) /\ spare \in Blocks
      BY <1>6, <1>10, <1>16
    <2>4. m = [closed EXCEPT !.blocks = blocks, !.spare = spare]
      BY <1>9, <1>12, <1>13, <1>14, <1>16
    <2>5. spare = i.blocks[h + 1]
      OBVIOUS
    <2>6. blocks = SubSeq(i.blocks, 1, h)
      OBVIOUS
    <2> HIDE DEF blocks, spare
    <2>7. /\ m \in Implementer /\ m.next = scope.next /\ m.limit = scope.limit
          /\ m.blocks = blocks /\ m.spare = spare /\ m.scopes = scopes
          /\ m.last_handle_before_deferred_block = i.last_handle_before_deferred_block
      BY <1>9, <2>2, <2>3, <2>4 DEF Implementer
    <2>8. BlocksDistinct(m)
      <3>1. \A k \in 1..h : k \in 1..Len(i.blocks) /\ k # h + 1
        BY <1>10
      <3>2. ASSUME NEW k \in 1..h, NEW l \in 1..h, blocks[k] = blocks[l] PROVE k = l
        BY <1>1, <2>2, <3>1, <3>2 DEF BlocksDistinct
      <3>3. \A k \in 1..h : blocks[k] # spare
        BY <1>1, <2>2, <2>3, <2>5, <3>1 DEF BlocksDistinct
      <3> QED BY <2>2, <2>7, <3>2, <3>3 DEF BlocksDistinct
    <2>9. Owned(m) \ {0} \subseteq Owned(i)
      <3>1. ToSet(blocks) = {blocks[k] : k \in 1..h}
        BY <2>2 DEF ToSet
      <3>2. \A k \in 1..h : k \in 1..Len(i.blocks)
        BY <1>10
      <3>3. \A k \in 1..Len(i.blocks) : i.blocks[k] \in Owned(i)
        BY OwnedAre
      <3>4. spare \in Owned(i)
        BY <2>3, <2>5, <3>3
      <3>5. ToSet(blocks) \subseteq Owned(i)
        BY <2>2, <3>1, <3>2, <3>3
      <3> QED BY <2>7, <3>4, <3>5 DEF Owned
    <2> QED BY <1>7, <2>6, <2>7, <2>8, <2>9 DEF IsCut, scope, scopes, h
  <1> QED BY <1>15, <1>16

LEMMA DeleteScopeStep == HandlesInv /\ DeleteScope => HandlesInv'
  <1>1. SUFFICES ASSUME HandlesInv, DeleteScope PROVE HandlesInv'
    OBVIOUS
  <1>2. /\ IsEntered /\ Level > 0 /\ Last(impl.scopes).kind # "deferred"
        /\ impl' = CloseScope(impl, Last(impl.scopes))
        /\ active' = active /\ archived' = archived /\ detached' = detached
        /\ handles' = {h \in handles : h.scope # Scope}
    BY <1>1 DEF DeleteScope
  <1>3. /\ active \in Threads /\ Sound(impl) /\ Covers(impl, active, handles)
        /\ Top(impl) = Level + 1 /\ Level \in Nat
        /\ handles \subseteq Handle /\ SlotsDistinct
        /\ \A h \in handles : h.scope[1] = active => h.scope \in ScopesBelow(active, Top(impl))
    BY <1>1, <1>2, ActiveParts
  <1>4. impl.scopes # <<>> /\ Len(impl.scopes) = Level
    BY <1>2 DEF Level
  <1>5. IsCut(impl, impl') /\ Owned(impl') \ {0} \subseteq Owned(impl)
    BY <1>2, <1>3, <1>4, CloseScopeIs
  <1>6. Top(impl') = Level
    BY <1>3, <1>4, <1>5, CutParts
  <1>7. /\ Sound(impl')
        /\ \A j \in 1..Top(impl') : Visited(impl', j) = Visited(impl, j)
    BY <1>3, <1>5, CutSound
  <1>8. ASSUME NEW j \in 1..Level
        PROVE  SlotsOf(handles', ScopesBelow(active, j)) = SlotsOf(handles, ScopesBelow(active, j))
    <2> DEFINE S == ScopesBelow(active, j)
    <2>1. Scope \notin S
      BY <1>3 DEF Scope, ScopesBelow
    <2> HIDE DEF S
    <2>2. SlotsOf(handles', S) = SlotsOf(handles, S)
      BY <1>2, <2>1 DEF SlotsOf
    <2> QED BY <2>2 DEF S
  <1>9. Covers(impl', active, handles')
    <2>1. Top(impl) \in Nat /\ Top(impl') \in 0..Top(impl)
      BY <1>3, <1>6
    <2> QED BY <1>3, <1>6, <1>7, <1>8, <2>1, CoversLess
  <1>10. \A h \in handles' : h.scope[1] = active => h.scope \in ScopesBelow(active, Top(impl'))
    <2>1. SUFFICES ASSUME NEW h \in handles', h.scope[1] = active
                   PROVE  h.scope \in ScopesBelow(active, Level)
      BY <1>6
    <2>2. h \in handles /\ h.scope # <<active, Level>>
      BY <1>2 DEF Scope
    <2>3. PICK k \in 1..(Level + 1) - 1 : h.scope = <<active, k>>
      BY <1>3, <2>1, <2>2 DEF ScopesBelow
    <2>4. k \in 1..Level - 1
      BY <1>3, <2>2, <2>3
    <2> QED BY <2>3, <2>4 DEF ScopesBelow
  <1>11. \A h : h.scope[1] # active => (h \in handles' <=> h \in handles)
    BY <1>2 DEF Scope
  <1>12. SlotsDistinct'
    BY <1>2, <1>3 DEF SlotsDistinct
  <1>13. handles' \subseteq Handle
    BY <1>2, <1>3
  <1> QED BY <1>1, <1>2, <1>3, <1>5, <1>7, <1>9, <1>10, <1>11, <1>12, <1>13, StepKeepsDetached

-----------------------------------------------------------------------------
(***************************************************************************)
(* Threads archived and restored.                                          *)
(***************************************************************************)
LEMMA SameThreads ==
  ASSUME HandlesInv, HandlesType', detached' = detached, handles' = handles,
         \A t \in Threads : Impl(t)' = Impl(t)
  PROVE  HandlesInv'
  <1>1. Numbered' /\ SlotsDistinct'
    BY DEF HandlesInv, Numbered, SlotsDistinct
  <1>2. Apart'
    <2>1. \A t \in Threads : Held(t)' = Held(t)
      BY DEF Held
    <2> QED BY <2>1 DEF HandlesInv, Apart
  <1>3. HandlesBelong'
    BY DEF HandlesInv, HandlesBelong
  <1>4. ScopesHold'
    BY DEF HandlesInv, ScopesHold
  <1>5. \A t \in Threads : Sound(Impl(t))'
    BY DEF HandlesInv
  <1> QED BY <1>1, <1>2, <1>3, <1>4, <1>5 DEF HandlesInv

LEMMA ArchiveThreadStep == HandlesInv /\ ArchiveThread => HandlesInv'
  <1>1. SUFFICES ASSUME HandlesInv, ArchiveThread PROVE HandlesInv'
    OBVIOUS
  <1>2. /\ active \in Threads /\ archived' = [archived EXCEPT ![active] = impl] /\ impl' = Fresh
        /\ active' = "none" /\ detached' = detached /\ handles' = handles
    BY <1>1 DEF ArchiveThread, IsEntered
  <1>3. HandlesType
    BY <1>1 DEF HandlesInv
  <1>4. \A t \in Threads : Impl(t)' = Impl(t)
    BY <1>2, <1>3, ThreadAssumption DEF Impl, HandlesType
  <1>5. HandlesType'
    BY <1>2, <1>3, FreshSound DEF HandlesType
  <1> QED BY <1>1, <1>2, <1>4, <1>5, SameThreads

LEMMA RestoreThreadStep == ASSUME NEW t \in Threads PROVE HandlesInv /\ RestoreThread(t) => HandlesInv'
  <1>1. SUFFICES ASSUME HandlesInv, RestoreThread(t) PROVE HandlesInv'
    OBVIOUS
  <1>2. /\ active = "none" /\ archived' = [archived EXCEPT ![t] = Fresh] /\ impl' = archived[t]
        /\ active' = t /\ detached' = detached /\ handles' = handles
    BY <1>1 DEF RestoreThread
  <1>3. HandlesType
    BY <1>1 DEF HandlesInv
  <1>4. \A u \in Threads : Impl(u)' = Impl(u)
    BY <1>2, <1>3, ThreadAssumption DEF Impl, HandlesType
  <1>5. HandlesType'
    BY <1>2, <1>3, FreshSound, ThreadAssumption DEF HandlesType
  <1> QED BY <1>1, <1>2, <1>4, <1>5, SameThreads

-----------------------------------------------------------------------------
(***************************************************************************)
(* Deferred handles: detached from the implementer, and deleted.           *)
(***************************************************************************)
ReverseFrom(s, a) == Reverse(SubSeq(s, a, Len(s)))

LEMMA ReverseTail ==
  ASSUME NEW s \in Seq(Blocks), NEW a \in 1..Len(s)
  PROVE  LET r == ReverseFrom(s, a)
         IN /\ r \in Seq(Blocks) /\ Len(r) = Len(s) - a + 1 /\ r # <<>>
            /\ \A k \in 1..Len(r) : r[k] = s[Len(s) + 1 - k]
            /\ Last(r) = s[a]
  <1> DEFINE r == ReverseFrom(s, a)
             h == a - 1
             n == Len(s)
             u == SubSeq(s, a, n)
  <1>1. a \in Int /\ h \in Nat /\ n \in Nat /\ a <= n /\ a = h + 1 /\ \A k \in a..n : s[k] \in Blocks
    OBVIOUS
  <1> HIDE DEF h
  <1>2. n = Len(s) /\ u = SubSeq(s, a, n)
    OBVIOUS
  <1> HIDE DEF n
  <1>3. u \in Seq(Blocks) /\ Len(u) = n - a + 1 /\ \A k \in 1..n - a + 1 : u[k] = s[a + k - 1]
    BY <1>1, SubSeqProperties
  <1> HIDE DEF u
  <1>4. r = [k \in 1..Len(u) |-> u[(Len(u) - k) + 1]]
    BY <1>1, <1>2 DEF Reverse, ReverseFrom
  <1> HIDE DEF r
  <1>5. Len(u) = n - h /\ Len(u) \in Nat \ {0} /\ n - h \in Nat /\ n - a + 1 = n - h
    BY <1>1, <1>3
  <1>6. \A k \in 1..Len(u) : (Len(u) - k) + 1 \in 1..Len(u)
    BY <1>5
  <1>7. \A k \in 1..Len(u) : u[(Len(u) - k) + 1] \in Blocks
    BY <1>3, <1>6
  <1>8. r \in Seq(Blocks) /\ Len(r) = Len(u)
    <2> DEFINE N == Len(u)
    <2>1. N \in Nat /\ r \in [1..N -> Blocks]
      BY <1>4, <1>5, <1>7
    <2> HIDE DEF N
    <2>2. r \in Seq(Blocks) /\ Len(r) = N
      BY <2>1
    <2> QED BY <2>2 DEF N
  <1>9. ASSUME NEW k \in 1..Len(u) PROVE r[k] = s[n + 1 - k]
    <2>1. r[k] = u[(Len(u) - k) + 1]
      BY <1>4
    <2>2. (Len(u) - k) + 1 \in 1..n - a + 1
      BY <1>3, <1>6
    <2>3. u[(Len(u) - k) + 1] = s[a + ((Len(u) - k) + 1) - 1]
      BY <1>3, <2>2
    <2>4. a + ((Len(u) - k) + 1) - 1 = n + 1 - k
      BY <1>1, <1>5
    <2> QED BY <2>1, <2>3, <2>4
  <1>10. Last(r) = s[h + 1]
    <2>1. Last(r) = r[Len(u)] /\ Len(u) \in 1..Len(u)
      BY <1>5, <1>8 DEF Last
    <2>2. n + 1 - Len(u) = h + 1
      BY <1>1, <1>5
    <2> QED BY <1>9, <2>1, <2>2
  <1>11. Len(r) = Len(s) - a + 1 /\ r # <<>> /\ \A k \in 1..Len(r) : r[k] = s[Len(s) + 1 - k]
    BY <1>2, <1>3, <1>5, <1>8, <1>9
  <1> QED BY <1>1, <1>8, <1>10, <1>11 DEF r

\* The implementer without the blocks of d.
IsDetached(i, d, m) ==
  /\ d = Detached(i, Last(i.scopes).limit)
  /\ m = [i EXCEPT !.blocks = SubSeq(@, 1, Len(@) - Len(d.blocks)),
                   !.last_handle_before_deferred_block = Null,
                   !.next = Last(i.scopes).next, !.limit = Last(i.scopes).limit,
                   !.scopes = Front(@)]

\* What was created in the deferred scope is in the blocks after the one it began in.
LEMMA DetachIs ==
  ASSUME NEW i, Sound(i), i.scopes # <<>>, Last(i.scopes).kind = "deferred", IsFiniteSet(detached),
         NEW d, NEW m, IsDetached(i, d, m)
  PROVE  /\ IsCut(i, m)
         /\ d \in [id : Nat, limit : Position, blocks : Seq(Blocks)] /\ d.blocks # <<>>
         /\ d.id = Cardinality(detached) + 1
         /\ Visited(i, Top(i)) = Visited(i, Len(i.scopes)) \cup IterateDeferred(d)
         /\ Visited(i, Len(i.scopes)) \cap IterateDeferred(d) = {}
         /\ ToSet(d.blocks) \cap Owned(m) = {}
         /\ ToSet(d.blocks) \cup (Owned(m) \ {0}) \subseteq Owned(i)
  <1> DEFINE scope  == Last(i.scopes)
             L      == Len(i.scopes)
             h      == HeightAt(i, L)
             n      == Len(i.blocks)
             scopes == Front(i.scopes)
             keep   == Max({k \in DOMAIN i.blocks : Limit(i.blocks[k]) = scope.limit})
             tail   == Reverse(SubSeq(i.blocks, h + 1, n))
             blocks == SubSeq(i.blocks, 1, h)
  <1>1. i \in Implementer /\ i.scopes \in Seq(Scopes) /\ BlocksDistinct(i)
    BY DEF Sound, Implementer, Scopes
  <1>2. scopes \in Seq(Scopes) /\ scope = i.scopes[L] /\ scope \in Scopes /\ L \in Nat \ {0}
    BY <1>1, FrontIs
  <1>3. L \in 1..Top(i) /\ L # Top(i) /\ L + 1 = Top(i) /\ L \in 1..Len(i.scopes)
    BY <1>2 DEF Top
  <1>4. NextAt(i, L) = scope.next /\ LimitAt(i, L) = scope.limit
    BY <1>2, <1>3 DEF NextAt, LimitAt
  <1>5. MarkIs(i, L, h)
    BY <1>3, Marks
  <1>6. /\ i.blocks \in Seq(Blocks) /\ DOMAIN i.blocks = 1..n /\ n \in Nat
        /\ \A k \in 1..n : i.blocks[k] \in Blocks
        /\ i.spare \in {0} \cup Blocks /\ i.next \in Position
    BY SoundParts
  <1>7. IsDeferred(i, L)
    BY <1>2, <1>3 DEF IsDeferred
  <1>8. scope.next \in Position /\ scope.limit \in Position
    BY <1>2 DEF Scopes
  <1>9. HeightAt(i, Top(i)) = n
    BY DEF Sound, MarksInOrder
  <1>10. /\ h # 0 /\ h < n /\ h \in 1..n /\ h \in Nat
         /\ i.last_handle_before_deferred_block = scope.next
    <2>1. h # 0 /\ HeightAt(i, L) < HeightAt(i, L + 1)
          /\ i.last_handle_before_deferred_block = i.scopes[L].next
      BY <1>3, <1>7 DEF Sound, DeferredApart
    <2>2. h \in 0..n
      BY <1>5 DEF MarkIs
    <2> QED BY <1>2, <1>3, <1>6, <1>9, <2>1, <2>2
  <1>11. scope.limit = Limit(i.blocks[h]) /\ scope.next[1] = i.blocks[h]
    BY <1>4, <1>5, <1>10 DEF MarkIs
  <1> HIDE DEF scopes, scope, h, n
  <1>12. keep = h
    <2>1. \A k \in 1..n : Limit(i.blocks[k]) = scope.limit <=> k = h
      BY <1>1, <1>6, <1>10, <1>11, Limits DEF BlocksDistinct, n
    <2>2. {k \in DOMAIN i.blocks : Limit(i.blocks[k]) = scope.limit} = {h}
      BY <1>6, <1>10, <2>1
    <2>3. {h} \subseteq 0..h /\ {h} # {}
      BY <1>10
    <2>4. Max({h}) \in {h}
      BY <1>10, <2>3, MaxOf
    <2> QED BY <2>2, <2>4
  <1>13. tail = Reverse(SubSeq(i.blocks, h + 1, n)) /\ blocks = SubSeq(i.blocks, 1, h)
    OBVIOUS
  <1> HIDE DEF tail, blocks
  <1>14. d = [id |-> Cardinality(detached) + 1, limit |-> i.next, blocks |-> tail]
    BY <1>12 DEF Detached, IsDetached, scope, tail, n
  <1>15. d.id = Cardinality(detached) + 1 /\ d.limit = i.next /\ d.blocks = tail
    BY <1>14
  <1>16. /\ tail \in Seq(Blocks) /\ Len(tail) = n - h /\ tail # <<>>
         /\ \A k \in 1..n - h : tail[k] = i.blocks[n + 1 - k]
    <2>1. n = Len(i.blocks)
      BY DEF n
    <2> DEFINE a == h + 1
    <2>2. tail = ReverseFrom(i.blocks, a) /\ a \in 1..Len(i.blocks)
      BY <1>6, <1>10, <1>13, <2>1 DEF ReverseFrom
    <2>3. a = h + 1
      OBVIOUS
    <2> HIDE DEF a
    <2>4. /\ tail \in Seq(Blocks) /\ Len(tail) = Len(i.blocks) - a + 1 /\ tail # <<>>
          /\ \A k \in 1..Len(tail) : tail[k] = i.blocks[Len(i.blocks) + 1 - k]
      BY <1>6, <2>2, ReverseTail
    <2>5. n - a + 1 = n - h
      BY <1>6, <1>10, <2>3
    <2> QED BY <2>1, <2>4, <2>5
  <1>17. d \in [id : Nat, limit : Position, blocks : Seq(Blocks)]
    BY <1>6, <1>14, <1>16, FS_CardinalityType
  <1>18. /\ blocks \in Seq(Blocks) /\ Len(blocks) = h
         /\ \A k \in 1..h : blocks[k] = i.blocks[k]
    <2>1. \A k \in 1..h : i.blocks[k] \in Blocks
      BY <1>6, <1>10
    <2> QED BY <1>10, <1>13, <2>1, SubSeqProperties
  <1>19. m = [i EXCEPT !.blocks = blocks, !.last_handle_before_deferred_block = Null,
                       !.next = scope.next, !.limit = scope.limit, !.scopes = scopes]
    <2>1. Len(i.blocks) - Len(d.blocks) = h
      BY <1>6, <1>10, <1>15, <1>16 DEF n
    <2> QED BY <1>1, <1>13, <2>1 DEF scope, scopes, Implementer, IsDetached
  <1>20. Null \in Position
    BY BlockAssumption DEF Null, Position
  <1>21. /\ m \in Implementer /\ m.next = scope.next /\ m.limit = scope.limit
         /\ m.blocks = blocks /\ m.spare = i.spare /\ m.scopes = scopes
         /\ m.last_handle_before_deferred_block = Null
    BY <1>1, <1>2, <1>8, <1>18, <1>19, <1>20 DEF Implementer, Scopes
  <1>22. \A k \in 1..h : k \in 1..n
    BY <1>6, <1>10
  <1>23. BlocksDistinct(m)
    <2>1. ASSUME NEW k \in 1..h, NEW l \in 1..h, blocks[k] = blocks[l] PROVE k = l
      BY <1>1, <1>18, <1>22, <2>1 DEF BlocksDistinct, n
    <2>2. \A k \in 1..h : blocks[k] # i.spare
      BY <1>1, <1>18, <1>22 DEF BlocksDistinct, n
    <2>3. m.blocks = blocks /\ m.spare = i.spare /\ Len(blocks) = h
      BY <1>18, <1>21
    <2> HIDE DEF blocks
    <2> QED BY <2>1, <2>2, <2>3 DEF BlocksDistinct
  <1>24. IsCut(i, m)
    BY <1>7, <1>13, <1>21, <1>23 DEF IsCut, scope, scopes, h, L
  <1>25. ToSet(tail) = {i.blocks[k] : k \in h + 1..n}
    <2>1. ToSet(tail) = {tail[k] : k \in 1..n - h}
      BY <1>16 DEF ToSet
    <2>2. \A k \in 1..n - h : n + 1 - k \in h + 1..n
      BY <1>6, <1>10
    <2>3. \A k \in h + 1..n : n + 1 - k \in 1..n - h /\ n + 1 - (n + 1 - k) = k
      BY <1>6, <1>10
    <2>4. ASSUME NEW k \in h + 1..n PROVE i.blocks[k] \in {tail[l] : l \in 1..n - h}
      <3>1. n + 1 - k \in 1..n - h /\ tail[n + 1 - k] = i.blocks[n + 1 - (n + 1 - k)]
        BY <1>16, <2>3
      <3> QED BY <2>3, <3>1
    <2>5. ASSUME NEW k \in 1..n - h PROVE tail[k] \in {i.blocks[l] : l \in h + 1..n}
      BY <1>16, <2>2
    <2> QED BY <2>1, <2>4, <2>5
  <1>26. ToSet(blocks) = {i.blocks[k] : k \in 1..h}
    BY <1>18 DEF ToSet
  <1>27. /\ ToSet(tail) \cap Owned(m) = {}
         /\ ToSet(tail) \cup (Owned(m) \ {0}) \subseteq Owned(i)
    <2>1. \A k \in h + 1..n : k \in 1..n
      BY <1>6, <1>10
    <2>2. \A k \in 1..n : i.blocks[k] \in Owned(i) /\ i.blocks[k] # i.spare
      BY <1>1, OwnedAre DEF BlocksDistinct, n
    <2>3. \A k \in h + 1..n, l \in 1..h : i.blocks[k] # i.blocks[l]
      <3>1. \A k \in h + 1..n, l \in 1..h : k # l
        BY <1>6, <1>10
      <3> QED BY <1>1, <1>22, <2>1, <3>1 DEF BlocksDistinct, n
    <2>4. Owned(m) = ToSet(blocks) \cup {i.spare} /\ i.spare \in Owned(i)
      BY <1>21 DEF Owned
    <2> QED BY <1>22, <1>25, <1>26, <2>1, <2>2, <2>3, <2>4
  <1>28. ASSUME NEW s PROVE s \in IterateDeferred(d) <=>
           /\ s \in Slots
           /\ \E k \in h + 1..n : s[1] = i.blocks[k] /\ (k = n => s[2] < i.next[2])
    <2>1. MarkIs(i, Top(i), n)
      BY <1>3, <1>9, Marks, SoundParts DEF Top
    <2>2. i.next[1] = i.blocks[n]
      BY <1>10, <2>1 DEF MarkIs, NextAt
    <2>3. s \in IterateDeferred(d) <=>
            \E k \in 1..n - h : s \in VisitPointers(tail[k], IF k = 1 THEN i.next ELSE Null)
      <3>1. DOMAIN tail = 1..n - h
        BY <1>16
      <3> QED BY <1>15, <3>1 DEF IterateDeferred
    <2>4. ASSUME NEW k \in 1..n - h
          PROVE  s \in VisitPointers(tail[k], IF k = 1 THEN i.next ELSE Null) <=>
                   /\ s \in Slots /\ s[1] = i.blocks[n + 1 - k]
                   /\ (n + 1 - k = n => s[2] < i.next[2])
      <3>1. tail[k] = i.blocks[n + 1 - k] /\ n + 1 - k \in 1..n /\ (n + 1 - k = n <=> k = 1)
        BY <1>6, <1>10, <1>16
      <3>2. i.blocks[n + 1 - k] # 0
        BY <1>6, <3>1 DEF Blocks
      <3>3. k = 1 => i.blocks[n + 1 - k] = i.next[1]
        BY <2>2, <3>1
      <3> QED BY <3>1, <3>2, <3>3 DEF VisitPointers, Within, Null
    <2>5. \A k \in 1..n - h : n + 1 - k \in h + 1..n
      BY <1>6, <1>10
    <2>6. \A k \in h + 1..n : n + 1 - k \in 1..n - h /\ n + 1 - (n + 1 - k) = k
      BY <1>6, <1>10
    <2>7. ASSUME s \in Slots, NEW k \in h + 1..n, s[1] = i.blocks[k], k = n => s[2] < i.next[2]
          PROVE  s \in IterateDeferred(d)
      <3>1. n + 1 - k \in 1..n - h /\ n + 1 - (n + 1 - k) = k
        BY <2>6
      <3>2. s \in VisitPointers(tail[n + 1 - k], IF n + 1 - k = 1 THEN i.next ELSE Null)
        BY <2>4, <2>7, <3>1
      <3> QED BY <2>3, <3>1, <3>2
    <2> QED BY <2>3, <2>4, <2>5, <2>7
  <1>29. ASSUME NEW s PROVE s \in Visited(i, L) <=>
           /\ s \in Slots
           /\ \E k \in 1..h : s[1] = i.blocks[k] /\ (k = h => s[2] < scope.next[2])
    <2>1. \A k \in 1..h - 1 : i.last_handle_before_deferred_block[1] # i.blocks[k]
      <3>1. \A e \in 1..Len(i.scopes) : IsDeferred(i, e) => L <= e
        BY <1>2, <1>3, <1>7 DEF Sound, DeferredApart
      <3> QED BY <1>3, <3>1, LastAbove DEF h
    <2>2. \A k \in 1..h : k # h => k \in 1..h - 1
      BY <1>10
    <2>3. HeightAt(i, L) = h
      BY DEF h
    <2> QED BY <1>4, <1>11, <2>1, <2>2, <2>3, VisitedIs
  <1>30. ASSUME NEW s PROVE s \in Visited(i, Top(i)) <=>
           /\ s \in Slots
           /\ \E k \in 1..n : /\ s[1] = i.blocks[k]
                              /\ (k = h => s[2] < scope.next[2]) /\ (k = n => s[2] < i.next[2])
    <2>1. NextAt(i, Top(i)) = i.next
      BY DEF NextAt
    <2>2. MarkIs(i, Top(i), n)
      BY <1>3, <1>9, Marks, SoundParts DEF Top
    <2>3. i.next[1] = i.blocks[n] /\ h # n
      BY <1>6, <1>10, <2>1, <2>2 DEF MarkIs
    <2>4. \A k \in 1..n : i.last_handle_before_deferred_block[1] = i.blocks[k] <=> k = h
      BY <1>1, <1>10, <1>11 DEF BlocksDistinct, n
    <2> QED BY <1>9, <1>10, <2>1, <2>3, <2>4, VisitedIs
  <1>31. \A k : k \in 1..n <=> k \in 1..h \/ k \in h + 1..n
    BY <1>6, <1>10
  <1>32. \A k \in h + 1..n : k # h
    BY <1>10
  <1>33. \A k \in 1..h : k # n
    BY <1>6, <1>10
  <1>34. Visited(i, Top(i)) = Visited(i, L) \cup IterateDeferred(d)
    BY <1>28, <1>29, <1>30, <1>31, <1>32, <1>33
  <1>35. ASSUME NEW s, s \in Visited(i, L), s \in IterateDeferred(d) PROVE FALSE
    <2>1. PICK k \in 1..h : s[1] = i.blocks[k]
      BY <1>29, <1>35
    <2>2. PICK l \in h + 1..n : s[1] = i.blocks[l]
      BY <1>28, <1>35
    <2>3. k \in 1..n /\ l \in 1..n /\ k # l
      BY <1>6, <1>10
    <2> QED BY <1>1, <2>1, <2>2, <2>3 DEF BlocksDistinct, n
  <1> QED BY <1>15, <1>16, <1>17, <1>24, <1>27, <1>34, <1>35 DEF L

LEMMA DetachStep == HandlesInv /\ Detach => HandlesInv'
  <1>1. SUFFICES ASSUME HandlesInv, Detach PROVE HandlesInv'
    OBVIOUS
  <1> DEFINE d  == Detached(impl, Last(impl.scopes).limit)
             n  == Cardinality(detached)
             id == <<"detached", n + 1>>
  <1>2. /\ IsEntered /\ Level > 0 /\ Last(impl.scopes).kind = "deferred"
        /\ active' = active /\ archived' = archived /\ detached' = detached \cup {d}
        /\ IsDetached(impl, d, impl')
        /\ handles' = {IF h.scope = Scope THEN [h EXCEPT !.scope = <<"detached", d.id>>] ELSE h : h \in handles}
    BY <1>1 DEF Detach, IsDetached
  <1>3. /\ active \in Threads /\ Sound(impl) /\ Covers(impl, active, handles)
        /\ Top(impl) = Level + 1 /\ Level \in Nat
        /\ handles \subseteq Handle /\ SlotsDistinct
        /\ Held(active) = Owned(impl) \ {0}
        /\ \A h \in handles : h.scope[1] = active => h.scope \in ScopesBelow(active, Top(impl))
    BY <1>1, <1>2, ActiveParts
  <1>4. impl.scopes # <<>> /\ Len(impl.scopes) = Level
    BY <1>2 DEF Level
  <1>5. IsFiniteSet(detached) /\ n \in Nat
    BY <1>1, FS_CardinalityType DEF HandlesInv, HandlesType
  <1> HIDE DEF d
  <1>7. /\ IsCut(impl, impl')
        /\ d \in [id : Nat, limit : Position, blocks : Seq(Blocks)] /\ d.blocks # <<>>
        /\ d.id = n + 1
        /\ Visited(impl, Top(impl)) = Visited(impl, Level) \cup IterateDeferred(d)
        /\ Visited(impl, Level) \cap IterateDeferred(d) = {}
        /\ ToSet(d.blocks) \cap Owned(impl') = {}
        /\ ToSet(d.blocks) \cup (Owned(impl') \ {0}) \subseteq Owned(impl)
    BY <1>2, <1>3, <1>4, <1>5, DetachIs
  <1>8. \A c \in detached : c.id \in 1..n
    BY <1>1 DEF HandlesInv, Numbered
  <1> HIDE DEF n
  <1>9. Top(impl') = Level
    BY <1>3, <1>4, <1>7, CutParts
  <1>10. /\ Sound(impl')
         /\ \A j \in 1..Top(impl') : Visited(impl', j) = Visited(impl, j)
    BY <1>3, <1>7, CutSound
  <1>11. \A h \in handles : h.scope # id
    <2>1. SUFFICES ASSUME NEW h \in handles, h.scope = id PROVE FALSE
      OBVIOUS
    <2>2. PICK c \in detached : h.scope = <<"detached", c.id>>
      BY <1>1, <2>1, HandleOwner
    <2>3. c.id = n + 1
      BY <2>1, <2>2
    <2> QED BY <1>5, <1>8, <2>3
  <1>12. id \in {"detached"} \X Nat /\ id # Scope /\ id[1] = "detached"
    BY <1>3, <1>5, ThreadAssumption DEF Scope
  <1>13. ASSUME NEW h \in handles
         PROVE  LET g == IF h.scope = Scope THEN [h EXCEPT !.scope = <<"detached", d.id>>] ELSE h
                IN g \in Handle /\ g.slot = h.slot /\ g.scope = IF h.scope = Scope THEN id ELSE h.scope
    <2>1. h \in Handle
      BY <1>3
    <2>2. CASE h.scope = Scope
      <3>1. [h EXCEPT !.scope = <<"detached", d.id>>] = [scope |-> id, slot |-> h.slot]
        BY <1>7, <2>1 DEF Handle
      <3>2. [scope |-> id, slot |-> h.slot] \in Handle
        BY <1>12, <2>1 DEF Handle
      <3> QED BY <2>2, <3>1, <3>2
    <2>3. CASE h.scope # Scope
      BY <2>1, <2>3
    <2> QED BY <2>2, <2>3
  <1> HIDE DEF id
  <1>14. ASSUME NEW g \in handles'
         PROVE  /\ g \in Handle
                /\ \E h \in handles : /\ g.slot = h.slot
                                      /\ g.scope = IF h.scope = Scope THEN id ELSE h.scope
                                      /\ h.scope # Scope => g = h
    BY <1>2, <1>13
  <1>15. ASSUME NEW h \in handles
         PROVE  \E g \in handles' : /\ g.slot = h.slot
                                    /\ g.scope = IF h.scope = Scope THEN id ELSE h.scope
                                    /\ h.scope # Scope => g = h
    BY <1>2, <1>13
  <1>16. SlotsDistinct'
    <2>1. SUFFICES ASSUME NEW f \in handles', NEW g \in handles', f.slot = g.slot PROVE f = g
      BY DEF SlotsDistinct
    <2>2. f.scope = g.scope
      BY <1>3, <1>14, <2>1 DEF SlotsDistinct
    <2>3. f \in Handle /\ g \in Handle
      BY <1>14
    <2> QED BY <2>1, <2>2, <2>3, ScopeOf
  <1>17. ASSUME NEW S, Scope \notin S, id \notin S
         PROVE  SlotsOf(handles', S) = SlotsOf(handles, S)
    <2>1. ASSUME NEW s PROVE s \in SlotsOf(handles', S) <=> s \in SlotsOf(handles, S)
      <3>1. ASSUME s \in SlotsOf(handles', S) PROVE s \in SlotsOf(handles, S)
        BY <1>14, <1>17, <3>1, SlotsAre
      <3>2. ASSUME s \in SlotsOf(handles, S) PROVE s \in SlotsOf(handles', S)
        <4>1. PICK h \in handles : h.scope \in S /\ h.slot = s
          BY <3>2, SlotsAre
        <4>2. h.scope # Scope
          BY <1>17, <4>1
        <4>3. h \in handles'
          BY <1>15, <4>2
        <4> QED BY <4>1, <4>3, SlotsAre
      <3> QED BY <3>1, <3>2
    <2> DEFINE X == SlotsOf(handles', S)
               Y == SlotsOf(handles, S)
    <2>2. \A s : s \in X <=> s \in Y
      BY <2>1
    <2> HIDE DEF X, Y
    <2>3. X = Y
      BY <2>2
    <2> QED BY <2>3 DEF X, Y
  <1>18. \A s : s \in IterateDeferred(d) <=> \E h \in handles : h.scope = Scope /\ h.slot = s
    <2>1. /\ Top(impl) \in 1..Top(impl) /\ Level \in 1..Top(impl)
      BY <1>2, <1>3
    <2>2. /\ Visited(impl, Top(impl)) = SlotsOf(handles, ScopesBelow(active, Top(impl)))
          /\ Visited(impl, Level) = SlotsOf(handles, ScopesBelow(active, Level))
      BY <1>3, <2>1 DEF Covers
    <2>3. \A x : x \in ScopesBelow(active, Top(impl)) <=> x \in ScopesBelow(active, Level) \/ x = Scope
      <3>1. \A k : k \in 1..Top(impl) - 1 <=> k \in 1..Level - 1 \/ k = Level
        BY <1>2, <1>3
      <3> QED BY <3>1 DEF ScopesBelow, Scope
    <2>4. Scope \notin ScopesBelow(active, Level)
      BY <1>3 DEF ScopesBelow, Scope
    <2>5. ASSUME NEW s \in IterateDeferred(d) PROVE \E h \in handles : h.scope = Scope /\ h.slot = s
      <3>1. s \in Visited(impl, Top(impl)) /\ s \notin Visited(impl, Level)
        BY <1>7
      <3>2. PICK h \in handles : h.scope \in ScopesBelow(active, Top(impl)) /\ h.slot = s
        BY <2>2, <3>1, SlotsAre
      <3>3. h.scope \notin ScopesBelow(active, Level)
        BY <2>2, <3>1, <3>2, SlotsAre
      <3> QED BY <2>3, <3>2, <3>3
    <2>6. ASSUME NEW h \in handles, h.scope = Scope PROVE h.slot \in IterateDeferred(d)
      <3>1. h.slot \in Visited(impl, Top(impl))
        BY <2>2, <2>3, <2>6, SlotsAre
      <3>2. h.slot \notin Visited(impl, Level)
        <4>1. SUFFICES ASSUME h.slot \in SlotsOf(handles, ScopesBelow(active, Level)) PROVE FALSE
          BY <2>2
        <4>2. PICK g \in handles : g.scope \in ScopesBelow(active, Level) /\ g.slot = h.slot
          BY <4>1, SlotsAre
        <4> QED BY <1>3, <2>4, <2>6, <4>2 DEF SlotsDistinct
      <3> QED BY <1>7, <3>1, <3>2
    <2> QED BY <2>5, <2>6
  <1>19. \A s : s \in SlotsOf(handles', {id}) <=> s \in IterateDeferred(d)
    <2>1. ASSUME NEW s, s \in SlotsOf(handles', {id}) PROVE s \in IterateDeferred(d)
      <3>1. PICK g \in handles' : g.scope = id /\ g.slot = s
        BY <2>1, SlotsAre
      <3>2. PICK h \in handles : g.slot = h.slot /\ g.scope = IF h.scope = Scope THEN id ELSE h.scope
        BY <1>14
      <3>3. h.scope = Scope
        BY <1>11, <3>1, <3>2
      <3> QED BY <1>18, <3>1, <3>2, <3>3
    <2>2. ASSUME NEW s, s \in IterateDeferred(d) PROVE s \in SlotsOf(handles', {id})
      <3>1. PICK h \in handles : h.scope = Scope /\ h.slot = s
        BY <1>18, <2>2
      <3>2. PICK g \in handles' : g.slot = h.slot /\ g.scope = id
        BY <1>15, <3>1
      <3> QED BY <3>1, <3>2, SlotsAre
    <2> QED BY <2>1, <2>2
  <1>20. <<"detached", d.id>> = id
    BY <1>7 DEF id
  <1>21. Covers(impl', active, handles')
    <2>1. Top(impl) \in Nat /\ Top(impl') \in 0..Top(impl)
      BY <1>3, <1>9
    <2>2. ASSUME NEW j \in 1..Top(impl')
          PROVE  SlotsOf(handles', ScopesBelow(active, j)) = SlotsOf(handles, ScopesBelow(active, j))
      <3>1. Scope \notin ScopesBelow(active, j)
        BY <1>3, <1>9, <2>2 DEF Scope, ScopesBelow
      <3>2. id \notin ScopesBelow(active, j)
        BY <1>3, <1>12, ThreadAssumption DEF ScopesBelow
      <3> QED BY <1>17, <3>1, <3>2
    <2> QED BY <1>3, <1>10, <2>1, <2>2, CoversLess
  <1>22. \A g \in handles' : g.scope[1] = active => g.scope \in ScopesBelow(active, Top(impl'))
    <2>1. SUFFICES ASSUME NEW g \in handles', g.scope[1] = active
                   PROVE  g.scope \in ScopesBelow(active, Level)
      BY <1>9
    <2>2. g.scope # id
      BY <1>3, <1>12, <2>1, ThreadAssumption
    <2>3. g \in handles /\ g.scope # Scope
      BY <1>14, <2>2
    <2>4. PICK k \in 1..(Level + 1) - 1 : g.scope = <<active, k>>
      BY <1>3, <2>1, <2>3 DEF ScopesBelow
    <2>5. k \in 1..Level - 1
      BY <1>3, <2>3, <2>4 DEF Scope
    <2> QED BY <2>4, <2>5 DEF ScopesBelow
  <1>23. ASSUME NEW t \in Threads \ {active}, NEW h, h.scope[1] = t
         PROVE  h \in handles' <=> h \in handles
    <2>1. h.scope # Scope /\ h.scope # id
      BY <1>12, <1>23, ThreadAssumption DEF Scope
    <2>2. h \in handles' => h \in handles
      BY <1>14, <2>1
    <2>3. h \in handles => h \in handles'
      BY <1>15, <2>1
    <2> QED BY <2>2, <2>3
  <1>24. \A g \in handles' : g.scope[1] = "detached" => \E c \in detached' : g.scope = <<"detached", c.id>>
    <2>1. SUFFICES ASSUME NEW g \in handles', g.scope[1] = "detached"
                   PROVE  \E c \in detached' : g.scope = <<"detached", c.id>>
      OBVIOUS
    <2>2. CASE g.scope = id
      BY <1>2, <1>20, <2>2
    <2>3. CASE g.scope # id
      <3>1. g \in handles
        BY <1>14, <2>3
      <3> QED BY <1>1, <1>2, <2>1, <3>1, HandleOwner
    <2> QED BY <2>2, <2>3
  <1>25. ASSUME NEW c \in detached'
         PROVE  /\ c \in [id : Nat, limit : Position, blocks : Seq(Blocks)] /\ c.blocks # <<>>
                /\ IterateDeferred(c) = SlotsOf(handles', {<<"detached", c.id>>})
    <2>1. CASE c = d
      <3> DEFINE X == SlotsOf(handles', {id})
                 Y == IterateDeferred(d)
      <3>1. \A s : s \in X <=> s \in Y
        BY <1>19
      <3> HIDE DEF X, Y
      <3>2. X = Y
        BY <3>1
      <3>3. IterateDeferred(d) = SlotsOf(handles', {id})
        BY <3>2 DEF X, Y
      <3> QED BY <1>7, <1>20, <2>1, <3>3
    <2>2. CASE c \in detached
      <3>1. /\ c \in [id : Nat, limit : Position, blocks : Seq(Blocks)] /\ c.blocks # <<>>
            /\ IterateDeferred(c) = SlotsOf(handles, {<<"detached", c.id>>})
        BY <1>1, <2>2 DEF HandlesInv, HandlesType, ScopesHold
      <3>2. c.id # n + 1
        BY <1>5, <1>8, <2>2
      <3>3. Scope \notin {<<"detached", c.id>>} /\ id \notin {<<"detached", c.id>>}
        BY <1>3, <3>2, ThreadAssumption DEF Scope, id
      <3>4. SlotsOf(handles', {<<"detached", c.id>>}) = SlotsOf(handles, {<<"detached", c.id>>})
        BY <1>17, <3>3
      <3> QED BY <3>1, <3>4
    <2> QED BY <1>2, <2>1, <2>2
  <1>26. d \notin detached
    BY <1>5, <1>7, <1>8
  <1>27. IsFiniteSet(detached') /\ Cardinality(detached') = n + 1
    BY <1>2, <1>5, <1>26, FS_AddElement DEF n
  <1>28. Numbered'
    <2>1. \A c \in detached' : c.id \in 1..n + 1
      BY <1>2, <1>5, <1>7, <1>8
    <2>2. ASSUME NEW k \in 1..n + 1 PROVE \E c \in detached' : c.id = k
      <3>1. CASE k = n + 1
        BY <1>2, <1>7, <3>1
      <3>2. CASE k \in 1..n
        BY <1>1, <1>2, <3>2 DEF HandlesInv, Numbered, n
      <3> QED BY <1>5, <3>1, <3>2
    <2>3. \A c, e \in detached' : c.id = e.id => c = e
      <3>1. \A c, e \in detached : c.id = e.id => c = e
        BY <1>1 DEF HandlesInv, Numbered
      <3>2. \A c \in detached : c.id # d.id
        BY <1>5, <1>7, <1>8
      <3> QED BY <1>2, <3>1, <3>2
    <2> QED BY <1>27, <2>1, <2>2, <2>3 DEF Numbered
  <1>29. Apart'
    <2>1. \A t \in Threads : Held(t)' = IF t = active THEN Owned(impl') \ {0} ELSE Held(t)
      BY <1>1, <1>2, <1>3, ImplIs DEF Held
    <2>2. 0 \notin ToSet(d.blocks)
      <3>1. d.blocks \in Seq(Blocks)
        BY <1>7
      <3>2. \A k \in DOMAIN d.blocks : d.blocks[k] \in Blocks
        BY <3>1
      <3> QED BY <3>2 DEF ToSet, Blocks
    <2>3. ToSet(d.blocks) \subseteq Held(active) /\ Owned(impl') \ {0} \subseteq Held(active)
      BY <1>3, <1>7, <2>2
    <2>4. Apart
      BY <1>1 DEF HandlesInv
    <2>5. \A t, u \in Threads : t # u => Held(t)' \cap Held(u)' = {}
      BY <1>3, <2>1, <2>3, <2>4 DEF Apart
    <2>6. ASSUME NEW t \in Threads, NEW c \in detached' PROVE Held(t)' \cap ToSet(c.blocks) = {}
      <3>1. CASE c = d
        BY <1>3, <1>7, <2>1, <2>3, <2>4, <3>1 DEF Apart
      <3>2. CASE c \in detached
        BY <1>3, <2>1, <2>3, <2>4, <3>2 DEF Apart
      <3> QED BY <1>2, <3>1, <3>2
    <2>7. \A c \in detached : ToSet(c.blocks) \cap ToSet(d.blocks) = {}
      BY <1>3, <2>3, <2>4 DEF Apart
    <2>8. \A c, e \in detached' : c # e => ToSet(c.blocks) \cap ToSet(e.blocks) = {}
      BY <1>2, <2>4, <2>7 DEF Apart
    <2> QED BY <2>5, <2>6, <2>8 DEF Apart
  <1>30. handles' \subseteq Handle
    BY <1>14
  <1> QED BY <1>1, <1>2, <1>3, <1>10, <1>16, <1>21, <1>22, <1>23, <1>24, <1>25, <1>27, <1>28, <1>29, <1>30, StepKeeps

LEMMA SpareIs ==
  ASSUME NEW i, Sound(i), NEW b \in Blocks, b \notin ToSet(i.blocks), NEW m, m = [i EXCEPT !.spare = b]
  PROVE  /\ IsSame(i, m) /\ BlocksDistinct(m) /\ m.next = i.next /\ m.limit = i.limit
         /\ Owned(m) = ToSet(i.blocks) \cup {b}
  <1>1. i \in Implementer /\ BlocksDistinct(i)
    BY DEF Sound
  <1>2. /\ m \in Implementer /\ m.blocks = i.blocks /\ m.spare = b /\ m.scopes = i.scopes
        /\ m.next = i.next /\ m.limit = i.limit
        /\ m.last_handle_before_deferred_block = i.last_handle_before_deferred_block
    BY <1>1 DEF Implementer
  <1>3. \A k \in 1..Len(i.blocks) : i.blocks[k] # b
    BY OwnedAre
  <1>4. BlocksDistinct(m)
    BY <1>1, <1>2, <1>3 DEF BlocksDistinct
  <1> QED BY <1>2, <1>4 DEF IsSame, Owned

LEMMA DeleteDeferredHandlesStep == HandlesInv /\ DeleteDeferredHandles => HandlesInv'
  <1>1. SUFFICES ASSUME HandlesInv, DeleteDeferredHandles PROVE HandlesInv'
    OBVIOUS
  <1> DEFINE n == Cardinality(detached)
  <1>2. IsEntered /\ active' = active /\ archived' = archived
    BY <1>1 DEF DeleteDeferredHandles
  <1>3. PICK d \in detached :
          /\ \A c \in detached : c.id <= d.id
          /\ detached' = detached \ {d}
          /\ impl' = [impl EXCEPT !.spare = Last(d.blocks)]
          /\ handles' = {h \in handles : h.scope # <<"detached", d.id>>}
    BY <1>1 DEF DeleteDeferredHandles
  <1>4. /\ active \in Threads /\ Sound(impl) /\ Covers(impl, active, handles)
        /\ Top(impl) = Level + 1 /\ Level \in Nat
        /\ handles \subseteq Handle /\ SlotsDistinct
        /\ Held(active) = Owned(impl) \ {0}
        /\ \A h \in handles : h.scope[1] = active => h.scope \in ScopesBelow(active, Top(impl))
    BY <1>1, <1>2, ActiveParts
  <1>5. IsFiniteSet(detached) /\ n \in Nat
    BY <1>1, FS_CardinalityType DEF HandlesInv, HandlesType
  <1>6. d.blocks \in Seq(Blocks) /\ d.blocks # <<>>
    BY <1>1 DEF HandlesInv, HandlesType
  <1> DEFINE b == Last(d.blocks)
  <1>7. b \in Blocks /\ b \in ToSet(d.blocks)
    <2>1. b = d.blocks[Len(d.blocks)] /\ Len(d.blocks) \in 1..Len(d.blocks)
      BY <1>6 DEF Last
    <2> QED BY <1>6, <2>1 DEF ToSet
  <1>8. Apart /\ Numbered
    BY <1>1 DEF HandlesInv
  <1>9. ToSet(impl.blocks) \subseteq Held(active)
    BY <1>4, OwnedAre
  <1>10. b \notin ToSet(impl.blocks)
    BY <1>4, <1>7, <1>8, <1>9 DEF Apart
  <1>11. impl' = [impl EXCEPT !.spare = b]
    BY <1>3
  <1> HIDE DEF b, n
  <1>12. /\ IsSame(impl, impl') /\ BlocksDistinct(impl') /\ impl'.next = impl.next /\ impl'.limit = impl.limit
         /\ Owned(impl') = ToSet(impl.blocks) \cup {b}
    BY <1>4, <1>7, <1>10, <1>11, SpareIs
  <1>13. /\ Sound(impl') /\ Top(impl') = Top(impl)
         /\ \A j \in 1..Top(impl) : Visited(impl', j) = Visited(impl, j)
    BY <1>4, <1>12, SameSound
  <1>14. ASSUME NEW S, <<"detached", d.id>> \notin S
         PROVE  SlotsOf(handles', S) = SlotsOf(handles, S)
    BY <1>3, <1>14 DEF SlotsOf
  <1>15. Covers(impl', active, handles')
    <2>1. Top(impl) \in Nat /\ Top(impl') \in 0..Top(impl)
      BY <1>4, <1>13
    <2>2. ASSUME NEW j \in 1..Top(impl')
          PROVE  SlotsOf(handles', ScopesBelow(active, j)) = SlotsOf(handles, ScopesBelow(active, j))
      <3>1. <<"detached", d.id>> \notin ScopesBelow(active, j)
        BY <1>4, ThreadAssumption DEF ScopesBelow
      <3> QED BY <1>14, <3>1
    <2> QED BY <1>4, <1>13, <2>1, <2>2, CoversLess
  <1>16. \A h \in handles' : h \in handles /\ h.scope # <<"detached", d.id>>
    BY <1>3
  <1>17. SlotsDistinct'
    BY <1>4, <1>16 DEF SlotsDistinct
  <1>18. \A h \in handles' : h.scope[1] = active => h.scope \in ScopesBelow(active, Top(impl'))
    BY <1>4, <1>13, <1>16
  <1>19. ASSUME NEW t \in Threads \ {active}, NEW h, h.scope[1] = t
         PROVE  h \in handles' <=> h \in handles
    <2>1. h.scope # <<"detached", d.id>>
      BY <1>19, ThreadAssumption
    <2> QED BY <1>3, <2>1
  <1>20. \A h \in handles' : h.scope[1] = "detached" => \E c \in detached' : h.scope = <<"detached", c.id>>
    <2>1. SUFFICES ASSUME NEW h \in handles', h.scope[1] = "detached"
                   PROVE  \E c \in detached' : h.scope = <<"detached", c.id>>
      OBVIOUS
    <2>2. PICK c \in detached : h.scope = <<"detached", c.id>>
      BY <1>1, <1>16, <2>1, HandleOwner
    <2>3. c # d
      BY <1>16, <2>2
    <2> QED BY <1>3, <2>2, <2>3
  <1>21. ASSUME NEW c \in detached'
         PROVE  /\ c \in [id : Nat, limit : Position, blocks : Seq(Blocks)] /\ c.blocks # <<>>
                /\ IterateDeferred(c) = SlotsOf(handles', {<<"detached", c.id>>})
    <2>1. c \in detached /\ c # d
      BY <1>3
    <2>2. /\ c \in [id : Nat, limit : Position, blocks : Seq(Blocks)] /\ c.blocks # <<>>
          /\ IterateDeferred(c) = SlotsOf(handles, {<<"detached", c.id>>})
      BY <1>1, <2>1 DEF HandlesInv, HandlesType, ScopesHold
    <2>3. c.id # d.id
      BY <1>8, <2>1 DEF Numbered
    <2>4. <<"detached", d.id>> \notin {<<"detached", c.id>>}
      BY <2>3
    <2> QED BY <1>14, <2>2, <2>4
  <1>22. IsFiniteSet(detached') /\ Cardinality(detached') = n - 1
    BY <1>3, <1>5, FS_RemoveElement DEF n
  <1>23. d.id = n
    <2>1. d.id \in 1..n /\ n \in 1..n
      BY <1>5, <1>8 DEF Numbered, n
    <2>2. PICK c \in detached : c.id = n
      BY <1>8, <2>1 DEF Numbered, n
    <2>3. n <= d.id
      BY <1>3, <2>2
    <2> QED BY <1>5, <2>1, <2>3
  <1>24. Numbered'
    <2>1. \A c \in detached' : c.id \in 1..n - 1
      <3>1. SUFFICES ASSUME NEW c \in detached' PROVE c.id \in 1..n - 1
        OBVIOUS
      <3>2. c \in detached /\ c.id # d.id
        BY <1>3, <1>8 DEF Numbered
      <3>3. c.id \in 1..n
        BY <1>8, <3>2 DEF Numbered, n
      <3> QED BY <1>5, <1>23, <3>2, <3>3
    <2>2. ASSUME NEW k \in 1..n - 1 PROVE \E c \in detached' : c.id = k
      <3>1. k \in 1..n /\ k # n
        BY <1>5
      <3>2. PICK c \in detached : c.id = k
        BY <1>8, <3>1 DEF Numbered, n
      <3> QED BY <1>3, <1>23, <3>1, <3>2
    <2>3. \A c, e \in detached' : c.id = e.id => c = e
      BY <1>3, <1>8 DEF Numbered
    <2> QED BY <1>22, <2>1, <2>2, <2>3 DEF Numbered
  <1>25. Apart'
    <2>1. \A t \in Threads : Held(t)' = IF t = active THEN Owned(impl') \ {0} ELSE Held(t)
      BY <1>1, <1>2, <1>4, ImplIs DEF Held
    <2>2. Owned(impl') \ {0} \subseteq Held(active) \cup ToSet(d.blocks)
      BY <1>7, <1>9, <1>12
    <2>3. \A t, u \in Threads : t # u => Held(t)' \cap Held(u)' = {}
      BY <1>4, <1>8, <2>1, <2>2 DEF Apart
    <2>4. \A t \in Threads, c \in detached' : Held(t)' \cap ToSet(c.blocks) = {}
      BY <1>3, <1>4, <1>8, <2>1, <2>2 DEF Apart
    <2>5. \A c, e \in detached' : c # e => ToSet(c.blocks) \cap ToSet(e.blocks) = {}
      BY <1>3, <1>8 DEF Apart
    <2> QED BY <2>3, <2>4, <2>5 DEF Apart
  <1>26. handles' \subseteq Handle
    BY <1>4, <1>16
  <1> QED BY <1>1, <1>2, <1>4, <1>13, <1>15, <1>17, <1>18, <1>19, <1>20, <1>21, <1>22, <1>24, <1>25, <1>26, StepKeeps

-----------------------------------------------------------------------------
(***************************************************************************)
(* Every step, and the theorem.                                            *)
(***************************************************************************)
LEMMA HandlesInvKept == HandlesInv /\ [HandlesNext]_handleVars => HandlesInv'
  <1>1. SUFFICES ASSUME HandlesInv, [HandlesNext]_handleVars PROVE HandlesInv'
    OBVIOUS
  <1>2. CASE UNCHANGED handleVars
    <2>1. HandlesType' /\ detached' = detached /\ handles' = handles
      BY <1>1, <1>2 DEF HandlesInv, HandlesType, handleVars
    <2>2. \A t \in Threads : Impl(t)' = Impl(t)
      BY <1>2 DEF Impl, handleVars
    <2> QED BY <1>1, <2>1, <2>2, SameThreads
  <1>3. CASE HandlesNext
    BY <1>1, <1>3, OpenScopeStep, CreateHandleStep, OpenEscapableScopeStep, EscapeStep, DeleteScopeStep,
       BeginDeferredScopeStep, DetachStep, DeleteDeferredHandlesStep, ArchiveThreadStep, RestoreThreadStep
       DEF HandlesNext
  <1> QED BY <1>1, <1>2, <1>3

\* Every live handle is in a place that the collector visits: the slots of the open scopes of each
\* thread are the ones its implementer (active or archived) visits, and those of the detached
\* handles are the ones IterateDeferred visits, whatever scopes were opened, extended, closed,
\* escaped, deferred and detached before, in threads that were archived and restored.
THEOREM LiveHandlesAreRoots == HandlesSpec => []HandlesAreRoots
  <1>1. HandlesSpec => []HandlesInv
    BY HandlesStarts, HandlesInvKept, PTL DEF HandlesSpec
  <1> QED BY <1>1, HandlesInvImplies, PTL

-----------------------------------------------------------------------------
(***************************************************************************)
(* 2. V8Embedding.                                                         *)
(*                                                                         *)
(* The invariant says how frames may stand on each other (CalledFrom),     *)
(* that the depth counts the calls among them, that a TryCatch which       *)
(* rethrows is the only one of the last frame and about to be deleted      *)
(* (RethrowsLast), that due microtasks have a call below them whose end    *)
(* runs them (DueIn), and that one exception at most is in flight, owed    *)
(* by a callback to the script below it and bound for what is now the      *)
(* innermost handler (InFlight). Without the first an exception could      *)
(* meet a frame of C++ that nobody called from a script, and would stop    *)
(* there; without the last it could be thrown again in a script that has   *)
(* entered another handler meanwhile.                                      *)
(***************************************************************************)
Thrown  == Exceptions \cup {"none"}
Trying  == [exception : Thrown, rethrow : BOOLEAN]
CppFrame  == [kind : {"cpp"}, tries : Seq(Trying)]
JsFrame   == [kind : {"js"}, call : {"fires", "silent", "task"},
              handler : {"none", "catch", "finally"}, held : Thrown]
TaskFrame == [kind : {"tasks"}, call : {"counted", "native", "fire"}, left : Nat]
FireFrame == [kind : {"fire"}, next : Nat]
Frame     == CppFrame \cup JsFrame \cup TaskFrame \cup FireFrame

EmbeddingType ==
  /\ stack \in Seq(Frame) /\ stack # <<>>
  /\ scheduled \in Thrown
  /\ microtasks \in Nat
  /\ callbacks \in Seq(Callbacks)
  /\ autorun \in BOOLEAN /\ due \in BOOLEAN
  /\ bound = [e \in Exceptions |-> bound[e]]

\* What a frame is called from: a stack is made of calls.
CalledFrom(s, i) ==
  LET caller == s[i - 1]
  IN CASE s[i].kind = "cpp"  -> caller.kind \in {"js", "fire"}
       [] s[i].kind = "fire" -> i = 2 /\ caller.kind = "cpp"
       [] s[i].kind = "js" /\ s[i].call = "task" -> caller.kind = "tasks"
       [] s[i].kind = "js" /\ s[i].call # "task" ->
            /\ caller.kind = "cpp"
            /\ i > 2 /\ s[i - 2].kind = "fire" => caller.tries # <<>>
       [] s[i].kind = "tasks" /\ s[i].call = "counted" -> i = 2 /\ caller.kind = "cpp"
       [] s[i].kind = "tasks" /\ s[i].call = "native"  -> caller.kind = "js"
       [] s[i].kind = "tasks" /\ s[i].call = "fire"    -> caller.kind = "fire"

Stacked(s) == s[1].kind = "cpp" /\ \A i \in 2..Len(s) : CalledFrom(s, i)

\* The frames of the calls that the depth counts.
IsCall(f) == \/ f.kind = "fire"
             \/ f.kind = "js" /\ f.call \in {"fires", "silent"}
             \/ f.kind = "tasks" /\ f.call = "counted"
Calls(s)  == {i \in DOMAIN s : IsCall(s[i])}

\* A TryCatch that rethrows is about to be deleted.
Rethrows(s, i) == s[i].kind = "cpp" /\ \E j \in DOMAIN s[i].tries : s[i].tries[j].rethrow
RethrowsLast ==
  \A i \in DOMAIN stack : Rethrows(stack, i) =>
    /\ i = Len(stack) /\ i > 1 /\ stack[i - 1].kind = "js"
    /\ Len(stack[i].tries) = 1 /\ stack[i].tries[1].exception # "none"

\* The microtasks that are due run before the call that queued them is over.
DueIn(s) ==
  autorun /\ due =>
    /\ microtasks > 0 /\ Len(s) > 1
    /\ \/ s[2].kind = "js" /\ s[2].call = "fires"
       \/ s[2].kind = "fire" /\ Len(s) > 2 /\ s[3].kind = "tasks"

InFlight ==
  /\ scheduled # "none" =>
       /\ Running("cpp") /\ top.tries = <<>> /\ Len(stack) > 1 /\ below.kind = "js"
       /\ bound[scheduled] = Innermost(stack)
  /\ \A e \in Exceptions \ {scheduled} : bound[e] = "none"
  /\ astray = {}

EmbInv ==
  /\ EmbeddingType /\ Stacked(stack) /\ depth = Cardinality(Calls(stack))
  /\ IsInjective(callbacks) /\ RethrowsLast /\ DueIn(stack) /\ InFlight

-----------------------------------------------------------------------------
(***************************************************************************)
(* 2.1 The frames, and how calls and returns change them.                  *)
(***************************************************************************)
LEMMA FrameIs ==
  ASSUME NEW f \in Frame
  PROVE  /\ f.kind \in {"cpp", "js", "tasks", "fire"}
         /\ f.kind = "cpp" => f \in CppFrame /\ f.tries \in Seq(Trying)
         /\ f.kind = "js" => f \in JsFrame /\ f.call \in {"fires", "silent", "task"}
                             /\ f.handler \in {"none", "catch", "finally"} /\ f.held \in Thrown
         /\ f.kind = "tasks" => f \in TaskFrame /\ f.call \in {"counted", "native", "fire"} /\ f.left \in Nat
         /\ f.kind = "fire" => f \in FireFrame /\ f.next \in Nat
  BY DEF Frame, CppFrame, JsFrame, TaskFrame, FireFrame

LEMMA NewFrames ==
  /\ Cpp \in Frame /\ Cpp.kind = "cpp" /\ Cpp.tries = <<>>
  /\ \A c \in {"fires", "silent", "task"} : Js(c) \in Frame /\ Js(c).kind = "js" /\ Js(c).call = c
                                            /\ Js(c).handler = "none"
  /\ \A c \in {"counted", "native", "fire"} :
       Tasks(c) \in Frame /\ Tasks(c).kind = "tasks" /\ Tasks(c).call = c
  /\ Firing \in Frame /\ Firing.kind = "fire"
  <1>1. Cpp \in CppFrame /\ Cpp.kind = "cpp" /\ Cpp.tries = <<>>
    BY DEF Cpp, CppFrame
  <1>2. ASSUME NEW c \in {"fires", "silent", "task"}
        PROVE  Js(c) \in JsFrame /\ Js(c).kind = "js" /\ Js(c).call = c /\ Js(c).handler = "none"
    BY DEF Js, JsFrame, Thrown
  <1>3. ASSUME NEW c \in {"counted", "native", "fire"}
        PROVE  Tasks(c) \in TaskFrame /\ Tasks(c).kind = "tasks" /\ Tasks(c).call = c
    BY DEF Tasks, TaskFrame
  <1>4. Firing \in FireFrame /\ Firing.kind = "fire"
    BY DEF Firing, FireFrame
  <1> QED BY <1>1, <1>2, <1>3, <1>4 DEF Frame


\* t has the frames of s, but for what they hold and the TryCatch blocks of the last one.
Same(s, t) ==
  /\ t \in Seq(Frame) /\ Len(t) = Len(s)
  /\ \A i \in 1..Len(s) :
       /\ t[i].kind = s[i].kind
       /\ s[i].kind \in {"js", "tasks"} => t[i].call = s[i].call
       /\ s[i].kind = "cpp" /\ i < Len(s) => Len(t[i].tries) = Len(s[i].tries)

LEMMA SameFrames ==
  ASSUME NEW s \in Seq(Frame), s # <<>>, NEW t, Same(s, t)
  PROVE  /\ t # <<>>
         /\ Stacked(s) => Stacked(t)
         /\ Calls(t) = Calls(s)
         /\ DueIn(s) => DueIn(t)
  <1>0. Len(s) \in Nat /\ Len(s) > 0 /\ Len(t) = Len(s) /\ t # <<>> /\ t \in Seq(Frame)
    BY DEF Same
  <1>1. \A i \in 1..Len(s) : t[i].kind = s[i].kind
    BY DEF Same
  <1>2. \A i \in 1..Len(s) : s[i].kind \in {"js", "tasks"} => t[i].call = s[i].call
    BY DEF Same
  <1>3. \A i \in 1..Len(s) : s[i].kind = "cpp" /\ i < Len(s) => (t[i].tries = <<>> <=> s[i].tries = <<>>)
    <2>1. SUFFICES ASSUME NEW i \in 1..Len(s), s[i].kind = "cpp", i < Len(s)
                   PROVE  t[i].tries = <<>> <=> s[i].tries = <<>>
      OBVIOUS
    <2>2. t[i].kind = "cpp" /\ s[i] \in Frame /\ t[i] \in Frame
      BY <1>0, <1>1, <2>1
    <2>3. s[i].tries \in Seq(Trying) /\ t[i].tries \in Seq(Trying)
      BY <2>1, <2>2, FrameIs
    <2> QED BY <2>1, <2>3 DEF Same
  <1>4. Stacked(s) => Stacked(t)
    <2>1. SUFFICES ASSUME Stacked(s) PROVE Stacked(t)
      OBVIOUS
    <2>2. t[1].kind = "cpp"
      BY <1>0, <1>1, <2>1 DEF Stacked
    <2>3. ASSUME NEW i \in 2..Len(t) PROVE CalledFrom(t, i)
      <3>1. CalledFrom(s, i) /\ i \in 1..Len(s) /\ i - 1 \in 1..Len(s) /\ i - 1 < Len(s)
        BY <1>0, <2>1 DEF Stacked
      <3>2. i > 2 => i - 2 \in 1..Len(s)
        BY <1>0
      <3>3. s[i].kind \in {"cpp", "js", "tasks", "fire"}
        BY <3>1, FrameIs
      <3>4. t[i].kind = s[i].kind /\ t[i - 1].kind = s[i - 1].kind
        BY <1>1, <3>1
      <3>5. i > 2 => t[i - 2].kind = s[i - 2].kind
        BY <1>1, <3>2
      <3>6. s[i].kind \in {"js", "tasks"} => t[i].call = s[i].call
        BY <1>2, <3>1
      <3>7. s[i - 1].kind = "cpp" => (t[i - 1].tries = <<>> <=> s[i - 1].tries = <<>>)
        BY <1>3, <3>1
      <3> QED BY <3>1, <3>3, <3>4, <3>5, <3>6, <3>7 DEF CalledFrom
    <2> QED BY <2>2, <2>3 DEF Stacked
  <1>5. Calls(t) = Calls(s)
    <2>1. DOMAIN t = 1..Len(s) /\ DOMAIN s = 1..Len(s)
      BY <1>0
    <2>2. \A i \in 1..Len(s) : IsCall(t[i]) <=> IsCall(s[i])
      BY <1>1, <1>2 DEF IsCall
    <2> QED BY <2>1, <2>2 DEF Calls
  <1>6. DueIn(s) => DueIn(t)
    BY <1>0, <1>1, <1>2 DEF DueIn
  <1> QED BY <1>0, <1>4, <1>5, <1>6

LEMMA CallsFinite ==
  ASSUME NEW s \in Seq(Frame)
  PROVE  /\ IsFiniteSet(Calls(s)) /\ Cardinality(Calls(s)) \in Nat
         /\ Calls(s) \subseteq 1..Len(s)
         /\ s # <<>> /\ Stacked(s) /\ Cardinality(Calls(s)) = 0 => Len(s) = 1
  <1>1. Calls(s) \subseteq 1..Len(s) /\ Len(s) \in Nat
    BY DEF Calls
  <1>2. IsFiniteSet(Calls(s)) /\ Cardinality(Calls(s)) \in Nat
    <2>1. 1 \in Int /\ Len(s) \in Int
      BY <1>1
    <2>2. IsFiniteSet(1..Len(s))
      BY <2>1, FS_Interval
    <2>3. IsFiniteSet(Calls(s))
      BY <1>1, <2>2, FS_Subset
    <2> QED BY <2>3, FS_CardinalityType
  <1>3. ASSUME s # <<>>, Stacked(s), Len(s) # 1 PROVE Cardinality(Calls(s)) # 0
    <2>0. Len(s) > 1
      <3>1. Len(s) \in Nat \ {0}
        BY <1>3, EmptySeq
      <3>2. Len(s) # 1
        BY <1>3
      <3>3. \A n \in Nat \ {0} : n # 1 => n > 1
        OBVIOUS
      <3> QED BY <3>1, <3>2, <3>3
    <2>1. 2 \in 2..Len(s) /\ 2 \in DOMAIN s /\ s[2] \in Frame /\ 2 - 1 = 1
      BY <1>1, <2>0
    <2>2. CalledFrom(s, 2) /\ s[1].kind = "cpp"
      BY <1>3, <2>1 DEF Stacked
    <2>3. 2 \in Calls(s)
      <3>1. s[2 - 1] = s[1]
        BY <2>1
      <3> QED BY <2>1, <2>2, <3>1, FrameIs DEF CalledFrom, IsCall, Calls
    <2> QED BY <1>2, <2>3, FS_EmptySet
  <1> QED BY <1>1, <1>2, <1>3

\* Frame f on top of s.
IsPush(s, f, t) ==
  /\ t \in Seq(Frame) /\ t # <<>> /\ Len(t) = Len(s) + 1 /\ t[Len(t)] = f /\ Last(t) = f
  /\ \A i \in 1..Len(s) : t[i] = s[i]
  /\ Stacked(s) /\ CalledFrom(t, Len(t)) => Stacked(t)
  /\ Cardinality(Calls(t)) = Cardinality(Calls(s)) + IF IsCall(f) THEN 1 ELSE 0
  /\ DueIn(s) => DueIn(t)

LEMMA Pushed ==
  ASSUME NEW s \in Seq(Frame), s # <<>>, NEW f \in Frame
  PROVE  IsPush(s, f, Append(s, f))
  <1> DEFINE t == Append(s, f)
  <1>1. /\ Len(s) \in Nat /\ Len(s) > 0
        /\ t \in Seq(Frame) /\ t # <<>> /\ Len(t) = Len(s) + 1 /\ t[Len(t)] = f /\ Last(t) = f
        /\ \A i \in 1..Len(s) : t[i] = s[i]
    BY AppendProperties DEF Last
  <1> HIDE DEF t
  <1>2. ASSUME Stacked(s), CalledFrom(t, Len(t)) PROVE Stacked(t)
    <2>1. t[1].kind = "cpp"
      BY <1>1, <1>2 DEF Stacked
    <2>2. ASSUME NEW i \in 2..Len(t) PROVE CalledFrom(t, i)
      <3>1. CASE i = Len(t)
        BY <1>2, <3>1
      <3>2. CASE i # Len(t)
        <4>1. i \in 2..Len(s) /\ i \in 1..Len(s) /\ i - 1 \in 1..Len(s) /\ (i > 2 => i - 2 \in 1..Len(s))
          BY <1>1, <3>2
        <4>2. CalledFrom(s, i)
          BY <1>2, <4>1 DEF Stacked
        <4>3. t[i] = s[i] /\ t[i - 1] = s[i - 1] /\ (i > 2 => t[i - 2] = s[i - 2])
          BY <1>1, <4>1
        <4>4. s[i].kind \in {"cpp", "js", "tasks", "fire"}
          BY <4>1, FrameIs
        <4> QED BY <4>2, <4>3, <4>4 DEF CalledFrom
      <3> QED BY <3>1, <3>2
    <2> QED BY <2>1, <2>2 DEF Stacked
  <1>3. Cardinality(Calls(t)) = Cardinality(Calls(s)) + IF IsCall(f) THEN 1 ELSE 0
    <2>1. DOMAIN s = 1..Len(s) /\ DOMAIN t = 1..Len(s) + 1
      BY <1>1
    <2>2. IsFiniteSet(Calls(s)) /\ Cardinality(Calls(s)) \in Nat /\ Len(s) + 1 \notin Calls(s)
      <3>1. Len(s) + 1 \notin 1..Len(s)
        BY <1>1
      <3> QED BY <3>1, CallsFinite
    <2>3. CASE IsCall(f)
      <3>1. Calls(t) = Calls(s) \cup {Len(s) + 1}
        BY <1>1, <2>1, <2>3 DEF Calls
      <3> QED BY <2>2, <2>3, <3>1, FS_AddElement
    <2>4. CASE ~IsCall(f)
      <3>1. Calls(t) = Calls(s)
        BY <1>1, <2>1, <2>4 DEF Calls
      <3> QED BY <2>2, <2>4, <3>1
    <2> QED BY <2>3, <2>4
  <1>4. ASSUME DueIn(s) PROVE DueIn(t)
    BY <1>1, <1>4 DEF DueIn
  <1>5. IsPush(s, f, t)
    BY <1>1, <1>2, <1>3, <1>4 DEF IsPush
  <1> QED BY <1>5 DEF t

\* s without its last frame.
IsPop(s, t) ==
  /\ t \in Seq(Frame) /\ t # <<>> /\ Len(t) = Len(s) - 1 /\ Last(t) = s[Len(s) - 1]
  /\ \A i \in 1..Len(t) : t[i] = s[i]
  /\ Stacked(s) => Stacked(t)
  /\ Cardinality(Calls(t)) \in Nat
  /\ Cardinality(Calls(s)) = Cardinality(Calls(t)) + IF IsCall(Last(s)) THEN 1 ELSE 0
  /\ DueIn(s) /\ Len(s) > 2 /\ (Len(s) = 3 => s[3].kind # "tasks") => DueIn(t)

LEMMA Popped ==
  ASSUME NEW s \in Seq(Frame), Len(s) > 1
  PROVE  IsPop(s, Front(s))
  <1> DEFINE t == Front(s)
  <1>1. /\ Len(s) \in Nat /\ Last(s) \in Frame /\ Last(s) = s[Len(s)] /\ s # <<>>
        /\ t \in Seq(Frame) /\ t # <<>> /\ Len(t) = Len(s) - 1
        /\ \A i \in 1..Len(t) : t[i] = s[i]
    BY FrontIs, EmptySeq
  <1> HIDE DEF t
  <1>2. Last(t) = s[Len(s) - 1]
    BY <1>1 DEF Last
  <1>3. s = Append(t, Last(s))
    <2>1. Append(t, Last(s)) \in Seq(Frame) /\ Len(Append(t, Last(s))) = Len(s)
      BY <1>1
    <2>2. ASSUME NEW i \in 1..Len(s) PROVE Append(t, Last(s))[i] = s[i]
      BY <1>1
    <2> QED BY <2>1, <2>2, SeqEqual
  <1>4. Cardinality(Calls(s)) = Cardinality(Calls(t)) + IF IsCall(Last(s)) THEN 1 ELSE 0
    BY <1>1, <1>3, Pushed DEF IsPush
  <1>5. ASSUME Stacked(s) PROVE Stacked(t)
    <2>1. t[1].kind = "cpp"
      BY <1>1, <1>5 DEF Stacked
    <2>2. ASSUME NEW i \in 2..Len(t) PROVE CalledFrom(t, i)
      <4>1. i \in 2..Len(s) /\ i \in 1..Len(t) /\ i - 1 \in 1..Len(t) /\ (i > 2 => i - 2 \in 1..Len(t))
        BY <1>1
      <4>2. CalledFrom(s, i)
        BY <1>5, <4>1 DEF Stacked
      <4>3. t[i] = s[i] /\ t[i - 1] = s[i - 1] /\ (i > 2 => t[i - 2] = s[i - 2])
        BY <1>1, <4>1
      <4>4. t[i].kind \in {"cpp", "js", "tasks", "fire"}
        BY <1>1, <4>1, FrameIs
      <4> QED BY <4>2, <4>3, <4>4 DEF CalledFrom
    <2> QED BY <2>1, <2>2 DEF Stacked
  <1>6. ASSUME DueIn(s), Len(s) > 2, Len(s) = 3 => s[3].kind # "tasks" PROVE DueIn(t)
    <2>1. Len(t) > 1 /\ t[2] = s[2] /\ (Len(s) > 3 => Len(t) > 2 /\ t[3] = s[3])
      BY <1>1, <1>6
    <2> QED BY <1>1, <1>6, <2>1 DEF DueIn
  <1>7. Cardinality(Calls(t)) \in Nat
    BY <1>1, CallsFinite
  <1>8. IsPop(s, t)
    BY <1>1, <1>2, <1>4, <1>5, <1>6, <1>7 DEF IsPop
  <1> QED BY <1>8 DEF t

NoRethrow(s) == \A i \in DOMAIN s : ~Rethrows(s, i)

\* The callbacks are due, and above them the microtasks, only above the embedder's own frame.
LEMMA FireKeeps ==
  ASSUME NEW s \in Seq(Frame), s # <<>>, Stacked(s), NEW d, d = Cardinality(Calls(s)),
         microtasks \in Nat, autorun /\ due => microtasks > 0, Len(s) > 1 => DueIn(s), NoRethrow(s),
         FireCallCompletedCallback(s, d)
  PROVE  /\ stack' \in Seq(Frame) /\ stack' # <<>> /\ Stacked(stack')
         /\ depth' = Cardinality(Calls(stack')) /\ DueIn(stack') /\ NoRethrow(stack')
         /\ d = 0 => Len(s) = 1
         /\ d # 0 => stack' = s
  <1> DEFINE run == autorun /\ microtask_pending
             t == Append(s, Firing)
             u == Append(t, Tasks("fire"))
  <1>1. d \in Nat /\ (d = 0 => Len(s) = 1)
    BY CallsFinite
  <1>0. t = Append(s, Firing) /\ u = Append(t, Tasks("fire"))
    OBVIOUS
  <1> HIDE DEF t, u
  <1>2. ASSUME d = 0
        PROVE /\ t \in Seq(Frame) /\ t # <<>> /\ Stacked(t) /\ Cardinality(Calls(t)) = 1 /\ NoRethrow(t)
              /\ u \in Seq(Frame) /\ u # <<>> /\ Stacked(u) /\ Cardinality(Calls(u)) = 1 /\ NoRethrow(u)
              /\ t = s \o <<Firing>> \o <<>> /\ u = s \o <<Firing>> \o <<Tasks("fire")>>
              /\ Len(u) = 3 /\ u[2].kind = "fire" /\ u[3].kind = "tasks"
    <2>1. Firing \in Frame /\ Firing.kind = "fire" /\ Tasks("fire") \in Frame
          /\ Tasks("fire").kind = "tasks" /\ Tasks("fire").call = "fire"
      BY NewFrames
    <2>2. Len(s) = 1 /\ s[1].kind = "cpp"
      BY <1>1, <1>2 DEF Stacked
    <2>3. /\ t \in Seq(Frame) /\ t # <<>> /\ Len(t) = 2 /\ t[2] = Firing /\ t[1] = s[1]
          /\ Stacked(t) /\ Cardinality(Calls(t)) = 1
      <3>1. /\ t \in Seq(Frame) /\ t # <<>> /\ Len(t) = Len(s) + 1 /\ t[Len(t)] = Firing
            /\ \A i \in 1..Len(s) : t[i] = s[i]
            /\ Stacked(s) /\ CalledFrom(t, Len(t)) => Stacked(t)
            /\ Cardinality(Calls(t)) = Cardinality(Calls(s)) + IF IsCall(Firing) THEN 1 ELSE 0
        <4>1. IsPush(s, Firing, t)
          BY <1>0, <2>1, Pushed
        <4> QED BY <4>1 DEF IsPush
      <3>2. Len(t) = 2 /\ t[1] = s[1] /\ t[2] = Firing
        BY <2>2, <3>1
      <3>3. IsCall(Firing)
        BY <2>1 DEF IsCall
      <3>4. CalledFrom(t, 2)
        <4>1. t[2 - 1] = t[1] /\ t[2].kind = "fire"
          BY <2>1, <3>2
        <4> QED BY <2>2, <3>2, <4>1 DEF CalledFrom
      <3>5. Cardinality(Calls(t)) = 0 + 1
        BY <1>2, <3>1, <3>3
      <3>6. Stacked(t)
        BY <3>1, <3>2, <3>4
      <3> QED BY <3>1, <3>2, <3>5, <3>6
    <2>5. /\ u \in Seq(Frame) /\ u # <<>> /\ Len(u) = 3 /\ u[3] = Tasks("fire") /\ u[2] = t[2] /\ u[1] = t[1]
          /\ Stacked(u) /\ Cardinality(Calls(u)) = 1
      <3>1. /\ u \in Seq(Frame) /\ u # <<>> /\ Len(u) = Len(t) + 1 /\ u[Len(u)] = Tasks("fire")
            /\ \A i \in 1..Len(t) : u[i] = t[i]
            /\ Stacked(t) /\ CalledFrom(u, Len(u)) => Stacked(u)
            /\ Cardinality(Calls(u)) = Cardinality(Calls(t)) + IF IsCall(Tasks("fire")) THEN 1 ELSE 0
        <4>1. IsPush(t, Tasks("fire"), u)
          BY <1>0, <2>1, <2>3, Pushed
        <4> QED BY <4>1 DEF IsPush
      <3>2. Len(u) = 3 /\ u[1] = t[1] /\ u[2] = t[2] /\ u[3] = Tasks("fire")
        BY <2>3, <3>1
      <3>3. ~IsCall(Tasks("fire"))
        BY <2>1 DEF IsCall
      <3>4. CalledFrom(u, 3)
        <4>1. u[3 - 1] = u[2] /\ u[3].kind = "tasks" /\ u[3].call = "fire" /\ u[2].kind = "fire"
          BY <2>1, <2>3, <3>2
        <4> QED BY <4>1 DEF CalledFrom
      <3> QED BY <2>3, <3>1, <3>2, <3>3, <3>4
    <2>7. NoRethrow(t) /\ NoRethrow(u)
      <3>1. ~Rethrows(s, 1) /\ DOMAIN t = 1..2 /\ DOMAIN u = 1..3 /\ DOMAIN s = 1..1
        BY <2>2, <2>3, <2>5 DEF NoRethrow
      <3>2. t[1] = s[1] /\ u[1] = s[1] /\ t[2].kind = "fire" /\ u[2].kind = "fire" /\ u[3].kind = "tasks"
        BY <2>1, <2>3, <2>5
      <3> QED BY <3>1, <3>2 DEF NoRethrow, Rethrows
    <2>8. t = s \o <<Firing>> /\ u = t \o <<Tasks("fire")>>
      BY <1>0, <2>1, <2>3, AppendIsConcat
    <2>9. t \o <<>> = t
      BY <2>3, ConcatEmptySeq
    <2> HIDE DEF u
    <2>10. t = s \o <<Firing>> \o <<>> /\ u = s \o <<Firing>> \o <<Tasks("fire")>>
      BY <2>8, <2>9
    <2>11. u[2].kind = "fire" /\ u[3].kind = "tasks"
      BY <2>1, <2>3, <2>5
    <2> QED BY <2>3, <2>5, <2>7, <2>10, <2>11
  <1> HIDE DEF t, u
  <1>3. CASE (callbacks # <<>> \/ run) /\ d = 0
    <2>1. depth' = d + 1 /\ stack' = s \o <<Firing>> \o (IF run THEN <<Tasks("fire")>> ELSE <<>>)
      BY <1>3 DEF FireCallCompletedCallback
    <2>2. CASE run
      <3>1. stack' = u /\ depth' = 1
        BY <1>2, <1>3, <2>1, <2>2
      <3>2. DueIn(u)
        BY <1>2, <1>3 DEF DueIn
      <3> QED BY <1>1, <1>2, <1>3, <3>1, <3>2
    <2>3. CASE ~run
      <3>1. stack' = t /\ depth' = 1
        BY <1>2, <1>3, <2>1, <2>3
      <3>2. ~(autorun /\ due)
        BY <2>3 DEF microtask_pending
      <3>3. DueIn(t)
        BY <3>2 DEF DueIn
      <3> QED BY <1>1, <1>2, <1>3, <3>1, <3>3
    <2> QED BY <2>2, <2>3
  <1>4. CASE ~((callbacks # <<>> \/ run) /\ d = 0)
    <2>1. depth' = d /\ stack' = s
      BY <1>4 DEF FireCallCompletedCallback
    <2>2. DueIn(s)
      <3>1. CASE d = 0
        <4>1. ~(autorun /\ due)
          BY <1>4, <3>1 DEF microtask_pending
        <4> QED BY <4>1 DEF DueIn
      <3>2. CASE d # 0
        <4>1. Len(s) > 1
          <5>1. Len(s) # 1
            <6>1. CASE Len(s) = 1
              <7>1. Calls(s) = {}
                <8>1. DOMAIN s = 1..1 /\ s[1].kind = "cpp"
                  BY <6>1 DEF Stacked
                <8> QED BY <8>1 DEF Calls, IsCall
              <7> QED BY <3>2, <7>1, FS_EmptySet
            <6> QED BY <6>1
          <5>2. Len(s) \in Nat \ {0}
            BY EmptySeq
          <5>3. \A n \in Nat \ {0} : n # 1 => n > 1
            OBVIOUS
          <5> QED BY <5>1, <5>2, <5>3
        <4> QED BY <4>1
      <3> QED BY <3>1, <3>2
    <2> QED BY <1>1, <2>1, <2>2
  <1> QED BY <1>3, <1>4

-----------------------------------------------------------------------------
(***************************************************************************)
(* 2.2 The handlers: which one is innermost, and what leaves them alone.   *)
(***************************************************************************)
\* The frames with a handler, and the last of them.
Catches(f) == \/ f.kind = "tasks"
              \/ f.kind = "js" /\ f.handler # "none"
              \/ f.kind = "cpp" /\ f.tries # <<>>
IsNearest(s, i) == /\ i \in 0..Len(s)
                   /\ i > 0 => Catches(s[i])
                   /\ \A k \in 1..Len(s) : k > i => ~Catches(s[k])
Spot(s, i) == <<i, IF i > 0 /\ s[i].kind = "cpp" THEN Len(s[i].tries) ELSE 0>>

\* There is one last frame with a handler, or none.
LEMMA NearestExists ==
  ASSUME NEW s \in Seq(Frame)
  PROVE  \E i \in 0..Len(s) : IsNearest(s, i)
  <1> DEFINE T == {i \in 1..Len(s) : Catches(s[i])}
  <1>1. Len(s) \in Nat
    OBVIOUS
  <1>2. CASE T = {}
    <2>1. IsNearest(s, 0)
      BY <1>1, <1>2 DEF IsNearest
    <2> QED BY <1>1, <2>1
  <1>3. CASE T # {}
    <2>1. T \subseteq 0..Len(s)
      BY <1>1
    <2>2. PICK n \in T : \A m \in T : n >= m
      BY <1>1, <1>3, <2>1, GreatestNumber
    <2>3. n \in 1..Len(s) /\ Catches(s[n])
      OBVIOUS
    <2>4. ASSUME NEW k \in 1..Len(s), k > n PROVE ~Catches(s[k])
      <3>1. k \notin T
        BY <1>1, <2>2, <2>3, <2>4
      <3> QED BY <3>1
    <2>5. IsNearest(s, n)
      BY <1>1, <2>3, <2>4 DEF IsNearest
    <2> QED BY <1>1, <2>3, <2>5
  <1> QED BY <1>2, <1>3

IsHandler(s, i, j) ==
  \/ j = 0 /\ (s[i].kind = "tasks" \/ (s[i].kind = "js" /\ s[i].handler # "none"))
  \/ j \in 1..Len(s[i].tries) /\ s[i].kind = "cpp"

LEMMA HandlersAre ==
  ASSUME NEW s \in Seq(Frame)
  PROVE  /\ \A h \in Handlers(s) : \E i \in 1..Len(s) : \E j \in Nat : h = <<i, j>> /\ IsHandler(s, i, j)
         /\ \A i \in 1..Len(s), j \in Nat : IsHandler(s, i, j) => <<i, j>> \in Handlers(s)
  <1>1. DOMAIN s = 1..Len(s) /\ Len(s) \in Nat
    OBVIOUS
  <1>2. \A i \in 1..Len(s) : s[i].kind = "cpp" => DOMAIN s[i].tries = 1..Len(s[i].tries) /\ Len(s[i].tries) \in Nat
    <2>1. SUFFICES ASSUME NEW i \in 1..Len(s), s[i].kind = "cpp"
                   PROVE  DOMAIN s[i].tries = 1..Len(s[i].tries) /\ Len(s[i].tries) \in Nat
      OBVIOUS
    <2>2. s[i].tries \in Seq(Trying)
      BY <2>1, FrameIs
    <2> QED BY <2>2
  <1>3. ASSUME NEW h \in Handlers(s)
        PROVE  \E i \in 1..Len(s) : \E j \in Nat : h = <<i, j>> /\ IsHandler(s, i, j)
    <2>1. CASE \E i \in DOMAIN s : h = <<i, 0>> /\ (s[i].kind = "tasks" \/ (s[i].kind = "js" /\ s[i].handler # "none"))
      BY <1>1, <2>1 DEF IsHandler
    <2>2. CASE \E i \in DOMAIN s : s[i].kind = "cpp" /\ \E j \in DOMAIN s[i].tries : h = <<i, j>>
      BY <1>1, <1>2, <2>2 DEF IsHandler
    <2> QED BY <1>3, <2>1, <2>2 DEF Handlers
  <1>4. ASSUME NEW i \in 1..Len(s), NEW j \in Nat, IsHandler(s, i, j) PROVE <<i, j>> \in Handlers(s)
    <2>1. CASE j = 0 /\ (s[i].kind = "tasks" \/ (s[i].kind = "js" /\ s[i].handler # "none"))
      BY <1>1, <2>1 DEF Handlers
    <2>2. CASE j \in 1..Len(s[i].tries) /\ s[i].kind = "cpp"
      BY <1>1, <1>2, <2>2 DEF Handlers
    <2> QED BY <1>4, <2>1, <2>2 DEF IsHandler
  <1> QED BY <1>3, <1>4

\* The innermost handler is the last one of the last frame that has one.
LEMMA InnermostIs ==
  ASSUME NEW s \in Seq(Frame), NEW i \in 0..Len(s), IsNearest(s, i)
  PROVE  Innermost(s) = Spot(s, i)
  <1>1. Len(s) \in Nat /\ i \in Nat
    OBVIOUS
  <1>2. ASSUME NEW k \in 1..Len(s), NEW j \in Nat, IsHandler(s, k, j)
        PROVE  /\ Catches(s[k]) /\ k <= i
               /\ s[k].kind = "cpp" => j >= 1 /\ j <= Len(s[k].tries)
               /\ s[k].kind # "cpp" => j = 0
    <2>1. s[k] \in Frame /\ (s[k].kind = "cpp" => s[k].tries \in Seq(Trying))
      BY FrameIs
    <2>2. Catches(s[k])
      BY <1>2, <2>1 DEF IsHandler, Catches
    <2>3. k <= i
      BY <1>1, <2>2 DEF IsNearest
    <2>4. s[k].kind = "cpp" => j >= 1 /\ j <= Len(s[k].tries)
      BY <1>2, <2>1 DEF IsHandler
    <2>5. s[k].kind # "cpp" => j = 0
      BY <1>2 DEF IsHandler
    <2> QED BY <2>2, <2>3, <2>4, <2>5
  <1>3. CASE i = 0
    <2>1. Handlers(s) = {}
      <3>1. ASSUME NEW h \in Handlers(s) PROVE FALSE
        <4>1. PICK k \in 1..Len(s), j \in Nat : h = <<k, j>> /\ IsHandler(s, k, j)
          BY HandlersAre
        <4> QED BY <1>1, <1>2, <1>3, <4>1
      <3> QED BY <3>1
    <2> QED BY <1>3, <2>1 DEF Innermost, Spot
  <1>4. CASE i > 0
    <2> DEFINE n == IF s[i].kind = "cpp" THEN Len(s[i].tries) ELSE 0
    <2>1. i \in 1..Len(s) /\ Catches(s[i]) /\ s[i] \in Frame
      BY <1>1, <1>4 DEF IsNearest
    <2>2. n \in Nat /\ IsHandler(s, i, n)
      <3>1. CASE s[i].kind = "cpp"
        <4>1. s[i].tries \in Seq(Trying) /\ s[i].tries # <<>>
          BY <2>1, <3>1, FrameIs DEF Catches
        <4>2. Len(s[i].tries) \in Nat \ {0}
          BY <4>1, EmptySeq
        <4> QED BY <3>1, <4>2 DEF IsHandler
      <3>2. CASE s[i].kind # "cpp"
        BY <2>1, <3>2 DEF IsHandler, Catches
      <3> QED BY <3>1, <3>2
    <2>3. <<i, n>> \in Handlers(s) /\ Spot(s, i) = <<i, n>>
      BY <1>4, <2>1, <2>2, HandlersAre DEF Spot
    <2>4. \A k \in 1..Len(s), j \in Nat : IsHandler(s, k, j) => k < i \/ (k = i /\ j <= n)
      <3>1. SUFFICES ASSUME NEW k \in 1..Len(s), NEW j \in Nat, IsHandler(s, k, j)
                     PROVE  k < i \/ (k = i /\ j <= n)
        OBVIOUS
      <3>2. CASE k = i
        BY <1>2, <3>1, <3>2
      <3>3. CASE k # i
        BY <1>1, <1>2, <3>1, <3>3
      <3> QED BY <3>2, <3>3
    <2> HIDE DEF n
    <2>5. \A g \in Handlers(s) \ {<<i, n>>} : Before(g, <<i, n>>)
      <3>1. SUFFICES ASSUME NEW g \in Handlers(s), g # <<i, n>> PROVE Before(g, <<i, n>>)
        OBVIOUS
      <3>2. PICK k \in 1..Len(s), j \in Nat : g = <<k, j>> /\ IsHandler(s, k, j)
        BY <3>1, HandlersAre
      <3>3. k < i \/ (k = i /\ j < n)
        BY <2>2, <2>4, <3>1, <3>2
      <3> QED BY <3>2, <3>3 DEF Before
    <2>6. ASSUME NEW h \in Handlers(s), \A g \in Handlers(s) \ {h} : Before(g, h) PROVE h = <<i, n>>
      <3>1. SUFFICES ASSUME h # <<i, n>> PROVE FALSE
        OBVIOUS
      <3>2. Before(<<i, n>>, h)
        BY <2>3, <2>6, <3>1
      <3>3. PICK k \in 1..Len(s), j \in Nat : h = <<k, j>> /\ IsHandler(s, k, j)
        BY <2>6, HandlersAre
      <3>4. k < i \/ (k = i /\ j <= n)
        BY <2>4, <3>3
      <3> QED BY <1>1, <2>2, <3>2, <3>3, <3>4 DEF Before
    <2>7. Innermost(s) = <<i, n>>
      BY <2>3, <2>5, <2>6 DEF Innermost
    <2> QED BY <2>3, <2>7
  <1> QED BY <1>1, <1>3, <1>4

\* t is s with the same handlers, though what they and the frames hold may differ.
IsAlike(s, t) ==
  /\ Same(s, t)
  /\ \A i \in 1..Len(s) : /\ Catches(t[i]) <=> Catches(s[i])
                          /\ s[i].kind = "cpp" => Len(t[i].tries) = Len(s[i].tries)
                          /\ Rethrows(t, i) <=> Rethrows(s, i)

LEMMA AlikeIs ==
  ASSUME NEW s \in Seq(Frame), NEW t, IsAlike(s, t)
  PROVE  /\ Innermost(t) = Innermost(s)
         /\ NoRethrow(s) <=> NoRethrow(t)
  <1>1. t \in Seq(Frame) /\ Len(t) = Len(s) /\ Len(s) \in Nat /\ \A i \in 1..Len(s) : t[i].kind = s[i].kind
    BY DEF IsAlike, Same
  <1>2. PICK i \in 0..Len(s) : IsNearest(s, i)
    BY NearestExists
  <1>3. IsNearest(t, i)
    BY <1>1, <1>2 DEF IsNearest, IsAlike
  <1>4. Spot(t, i) = Spot(s, i)
    <2>1. CASE i = 0
      BY <2>1 DEF Spot
    <2>2. CASE i # 0
      <3>1. i \in 1..Len(s)
        BY <1>1, <2>2
      <3>2. t[i].kind = s[i].kind /\ (s[i].kind = "cpp" => Len(t[i].tries) = Len(s[i].tries))
        BY <1>1, <3>1 DEF IsAlike
      <3> QED BY <3>2 DEF Spot
    <2> QED BY <2>1, <2>2
  <1>5. Innermost(t) = Innermost(s)
    BY <1>1, <1>2, <1>3, <1>4, InnermostIs
  <1>6. NoRethrow(s) <=> NoRethrow(t)
    <2>1. DOMAIN s = 1..Len(s) /\ DOMAIN t = 1..Len(s)
      BY <1>1
    <2> QED BY <2>1 DEF NoRethrow, IsAlike
  <1> QED BY <1>5, <1>6

\* Frame f instead of the k-th.
IsReplaced(s, k, f, t) ==
  /\ t \in Seq(Frame) /\ Len(t) = Len(s) /\ DOMAIN t = 1..Len(s) /\ t[k] = f
  /\ \A i \in 1..Len(s) : i # k => t[i] = s[i]

LEMMA Replaced ==
  ASSUME NEW s \in Seq(Frame), NEW k \in 1..Len(s), NEW f \in Frame
  PROVE  IsReplaced(s, k, f, [s EXCEPT ![k] = f])
  BY DEF IsReplaced

LEMMA ReplacedAlike ==
  ASSUME NEW s \in Seq(Frame), NEW k \in 1..Len(s), NEW f, NEW t, IsReplaced(s, k, f, t),
         f.kind = s[k].kind,
         f.kind \in {"js", "tasks"} => f.call = s[k].call,
         f.kind = "cpp" /\ k < Len(s) => Len(f.tries) = Len(s[k].tries)
  PROVE  /\ Same(s, t)
         /\ /\ Catches(f) <=> Catches(s[k])
            /\ f.kind = "cpp" => Len(f.tries) = Len(s[k].tries)
            /\ Rethrows(t, k) <=> Rethrows(s, k)
            => IsAlike(s, t)
  <1>1. \A i \in 1..Len(s) : i = k \/ t[i] = s[i]
    BY DEF IsReplaced
  <1>2. t[k] = f /\ t \in Seq(Frame) /\ Len(t) = Len(s)
    BY DEF IsReplaced
  <1>3. ASSUME NEW i \in 1..Len(s)
        PROVE  /\ t[i].kind = s[i].kind
               /\ s[i].kind \in {"js", "tasks"} => t[i].call = s[i].call
               /\ s[i].kind = "cpp" /\ i < Len(s) => Len(t[i].tries) = Len(s[i].tries)
    <2>1. CASE i = k
      BY <1>2, <2>1
    <2>2. CASE t[i] = s[i]
      BY <2>2
    <2> QED BY <1>1, <2>1, <2>2
  <1>4. Same(s, t)
    BY <1>2, <1>3 DEF Same
  <1>5. ASSUME Catches(f) <=> Catches(s[k]), f.kind = "cpp" => Len(f.tries) = Len(s[k].tries),
               Rethrows(t, k) <=> Rethrows(s, k)
        PROVE  IsAlike(s, t)
    <2>1. ASSUME NEW i \in 1..Len(s)
          PROVE  /\ Catches(t[i]) <=> Catches(s[i])
                 /\ s[i].kind = "cpp" => Len(t[i].tries) = Len(s[i].tries)
                 /\ Rethrows(t, i) <=> Rethrows(s, i)
      <3>1. CASE i = k
        BY <1>2, <1>5, <3>1
      <3>2. CASE t[i] = s[i]
        BY <3>2 DEF Rethrows
      <3> QED BY <1>1, <3>1, <3>2
    <2> QED BY <1>4, <2>1 DEF IsAlike
  <1> QED BY <1>4, <1>5

\* The exception that a TryCatch has caught.
IsCaught(f, j, e, g) ==
  /\ g \in Frame /\ g.kind = "cpp" /\ g.tries \in Seq(Trying) /\ Len(g.tries) = Len(f.tries)
  /\ g.tries[j].exception = e
  /\ \A i \in 1..Len(f.tries) : g.tries[i].rethrow = f.tries[i].rethrow

LEMMA Caught ==
  ASSUME NEW f \in Frame, f.kind = "cpp", NEW j \in 1..Len(f.tries), NEW e \in Thrown
  PROVE  IsCaught(f, j, e, [f EXCEPT !.tries[j].exception = e])
  <1> DEFINE try == [f.tries[j] EXCEPT !.exception = e]
             ts  == [f.tries EXCEPT ![j] = try]
             g   == [f EXCEPT !.tries = ts]
  <1>1. f \in CppFrame /\ f.tries \in Seq(Trying)
    BY FrameIs
  <1>2. f.tries[j] \in Trying
    BY <1>1
  <1>3. try \in Trying /\ try.exception = e /\ try.rethrow = f.tries[j].rethrow
    BY <1>2 DEF Trying
  <1> HIDE DEF try
  <1>4. ts \in Seq(Trying) /\ Len(ts) = Len(f.tries) /\ ts[j] = try
        /\ \A i \in 1..Len(f.tries) : i # j => ts[i] = f.tries[i]
    BY <1>1, <1>3
  <1> HIDE DEF ts
  <1>5. g \in CppFrame /\ g.tries = ts /\ g.kind = "cpp"
    BY <1>1, <1>4 DEF CppFrame
  <1>6. [f EXCEPT !.tries[j].exception = e] = g
    BY <1>1 DEF CppFrame, ts, try
  <1> HIDE DEF g
  <1> QED BY <1>3, <1>4, <1>5, <1>6 DEF IsCaught, Frame

\* To catch an exception changes no handler.
LEMMA PropagateIs ==
  ASSUME NEW s \in Seq(Frame), NEW e \in Exceptions
  PROVE  IsAlike(s, Propagate(s, e))
  <1>0. ASSUME TRUE PROVE IsAlike(s, s)
    BY DEF IsAlike, Same
  <1>1. PICK i \in 0..Len(s) : IsNearest(s, i)
    BY NearestExists
  <1>2. Innermost(s) = Spot(s, i) /\ Len(s) \in Nat
    BY <1>1, InnermostIs
  <1>3. CASE i = 0 \/ s[i].kind # "cpp"
    <2>1. ~IsExternallyCaught(s)
      BY <1>2, <1>3 DEF IsExternallyCaught, Spot
    <2> QED BY <1>0, <2>1 DEF Propagate
  <1>4. CASE i # 0 /\ s[i].kind = "cpp"
    <2>1. i \in 1..Len(s) /\ s[i] \in Frame /\ Catches(s[i])
      BY <1>1, <1>2, <1>4 DEF IsNearest
    <2>2. s[i].tries \in Seq(Trying) /\ s[i].tries # <<>> /\ s[i] \in CppFrame
      BY <1>4, <2>1, FrameIs DEF Catches
    <2> DEFINE n == Len(s[i].tries)
    <2>3. n \in Nat \ {0}
      BY <2>2, EmptySeq
    <2>4. Innermost(s) = <<i, n>>
      BY <1>2, <1>4, <2>1 DEF Spot
    <2> HIDE DEF n
    <2>5. IsExternallyCaught(s) /\ Propagate(s, e) = [s EXCEPT ![i].tries[n].exception = e]
      BY <2>3, <2>4 DEF IsExternallyCaught, Propagate
    <2> DEFINE g == [s[i] EXCEPT !.tries[n].exception = e]
               t == [s EXCEPT ![i] = g]
    <2>6. IsCaught(s[i], n, e, g)
      BY <1>4, <2>1, <2>3, Caught DEF n, Thrown
    <2>7. Propagate(s, e) = t
      BY <2>5
    <2> HIDE DEF g
    <2>8. g \in Frame /\ g.kind = "cpp" /\ g.tries \in Seq(Trying) /\ Len(g.tries) = n
          /\ \A j \in 1..n : g.tries[j].rethrow = s[i].tries[j].rethrow
      BY <2>6 DEF IsCaught, n
    <2>9. IsReplaced(s, i, g, t)
      BY <2>1, <2>8, Replaced
    <2> HIDE DEF t
    <2>10. Catches(g)
      BY <2>3, <2>8, EmptySeq DEF Catches
    <2>11. Rethrows(t, i) <=> Rethrows(s, i)
      <3>1. t[i] = g /\ DOMAIN g.tries = 1..n /\ DOMAIN s[i].tries = 1..n
        BY <2>2, <2>8, <2>9 DEF IsReplaced, n
      <3> QED BY <1>4, <2>8, <3>1 DEF Rethrows
    <2>12. IsAlike(s, t)
      BY <1>4, <2>1, <2>8, <2>9, <2>10, <2>11, ReplacedAlike DEF n
    <2> QED BY <2>7, <2>12
  <1> QED BY <1>3, <1>4

\* The innermost handler is the same below a frame that has none.
LEMMA PoppedNearest ==
  ASSUME NEW s \in Seq(Frame), Len(s) > 1
  PROVE  /\ ~Catches(Last(s)) => Innermost(Front(s)) = Innermost(s)
         /\ \A n : n = Len(s) - 1 => \A i \in 1..n : Rethrows(Front(s), i) <=> Rethrows(s, i)
  <1> DEFINE t == Front(s)
  <1>1. IsPop(s, t) /\ Len(s) \in Nat
    BY Popped
  <1> HIDE DEF t
  <1>2. t \in Seq(Frame) /\ Len(t) = Len(s) - 1 /\ Len(t) \in Nat /\ \A i \in 1..Len(t) : t[i] = s[i]
    BY <1>1 DEF IsPop
  <1>3. ASSUME ~Catches(Last(s)) PROVE Innermost(t) = Innermost(s)
    <2>1. PICK i \in 0..Len(t) : IsNearest(t, i)
      BY <1>2, NearestExists
    <2>2. i \in 0..Len(s) /\ (i > 0 => i \in 1..Len(t))
      BY <1>1, <1>2, <2>1
    <2>3. ASSUME NEW k \in 1..Len(s), k > i PROVE ~Catches(s[k])
      <3>1. CASE k = Len(s)
        BY <1>3, <3>1 DEF Last
      <3>2. CASE k # Len(s)
        <4>1. k \in 1..Len(t) /\ t[k] = s[k]
          BY <1>1, <1>2, <3>2
        <4> QED BY <2>1, <2>3, <4>1 DEF IsNearest
      <3> QED BY <3>1, <3>2
    <2>4. IsNearest(s, i)
      BY <1>2, <2>1, <2>2, <2>3 DEF IsNearest
    <2>5. Spot(t, i) = Spot(s, i)
      BY <1>2, <2>2 DEF Spot
    <2> QED BY <1>2, <2>1, <2>2, <2>4, <2>5, InnermostIs
  <1>4. ASSUME NEW n, n = Len(s) - 1, NEW i \in 1..n PROVE Rethrows(t, i) <=> Rethrows(s, i)
    BY <1>2, <1>4 DEF Rethrows
  <1> QED BY <1>3, <1>4 DEF t

-----------------------------------------------------------------------------
(***************************************************************************)
(* 2.3 The steps that neither throw nor end an exception.                  *)
(***************************************************************************)
\* Where nobody waits for an exception, and no TryCatch rethrows one.
LEMMA Calm ==
  ASSUME EmbInv
  PROVE  /\ CanCall \/ ~Running("cpp") => scheduled = "none" /\ NoRethrow(stack)
         /\ top \in Frame /\ top = stack[Len(stack)] /\ Len(stack) \in Nat \ {0}
         /\ stack \in Seq(Frame) /\ stack # <<>> /\ DOMAIN stack = 1..Len(stack)
         /\ Last(stack) = top
         /\ microtasks \in Nat /\ autorun \in BOOLEAN /\ due \in BOOLEAN
  <1>1. stack \in Seq(Frame) /\ stack # <<>> /\ microtasks \in Nat /\ autorun \in BOOLEAN /\ due \in BOOLEAN
    BY DEF EmbInv, EmbeddingType
  <1>2. top \in Frame /\ top = stack[Len(stack)] /\ Last(stack) = top
    BY <1>1, FrontIs DEF top
  <1>3. Len(stack) \in Nat \ {0} /\ DOMAIN stack = 1..Len(stack)
    BY <1>1, EmptySeq
  <1>4. ASSUME CanCall \/ ~Running("cpp") PROVE scheduled = "none" /\ NoRethrow(stack)
    <2>1. scheduled = "none"
      BY <1>4 DEF CanCall, EmbInv, InFlight
    <2>2. ASSUME NEW i \in DOMAIN stack, Rethrows(stack, i) PROVE FALSE
      <3>1. i = Len(stack) /\ stack[i] = top
        BY <1>2, <2>2 DEF EmbInv, RethrowsLast
      <3> QED BY <1>2, <1>4, <2>2, <3>1 DEF Rethrows, CanCall, Running
    <2> QED BY <2>1, <2>2 DEF NoRethrow
  <1> QED BY <1>1, <1>2, <1>3, <1>4

\* What a step has to show that neither throws nor ends an exception.
LEMMA QuietStep ==
  ASSUME EmbInv, scheduled = "none", UNCHANGED <<scheduled, bound, astray>>,
         callbacks' \in Seq(Callbacks), IsInjective(callbacks'), UNCHANGED autorun,
         stack' \in Seq(Frame), stack' # <<>>, Stacked(stack'), depth' = Cardinality(Calls(stack')),
         NoRethrow(stack'), microtasks' \in Nat, due' \in BOOLEAN, DueIn(stack)'
  PROVE  EmbInv'
  <1>1. EmbeddingType'
    BY DEF EmbInv, EmbeddingType
  <1>2. InFlight'
    BY DEF EmbInv, InFlight
  <1>3. RethrowsLast'
    BY DEF RethrowsLast, NoRethrow
  <1> QED BY <1>1, <1>2, <1>3 DEF EmbInv

\* The invariant holds at first, and implies the two properties.
LEMMA EmbeddingStarts == EmbeddingInit => EmbInv
  <1> SUFFICES ASSUME EmbeddingInit PROVE EmbInv
    OBVIOUS
  <1>1. Cpp \in Frame /\ Cpp.kind = "cpp" /\ Cpp.tries = <<>>
    BY NewFrames
  <1>2. stack = <<Cpp>> /\ scheduled = "none" /\ depth = 0 /\ microtasks = 0 /\ callbacks = <<>>
        /\ autorun \in BOOLEAN /\ bound = [e \in Exceptions |-> "none"] /\ astray = {} /\ due = FALSE
    BY DEF EmbeddingInit
  <1>3. stack \in Seq(Frame) /\ stack # <<>> /\ Len(stack) = 1 /\ stack[1] = Cpp /\ DOMAIN stack = {1}
    BY <1>1, <1>2
  <1>4. EmbeddingType
    <2>1. bound = [e \in Exceptions |-> bound[e]]
      BY <1>2
    <2>2. microtasks \in Nat /\ scheduled \in Thrown /\ due \in BOOLEAN /\ autorun \in BOOLEAN
      BY <1>2 DEF Thrown
    <2>3. callbacks \in Seq(Callbacks)
      BY <1>2
    <2> QED BY <1>3, <2>1, <2>2, <2>3 DEF EmbeddingType
  <1>5. Stacked(stack)
    BY <1>1, <1>3 DEF Stacked
  <1>6. depth = Cardinality(Calls(stack))
    <2>1. Calls(stack) = {}
      BY <1>1, <1>3 DEF Calls, IsCall
    <2> QED BY <1>2, <2>1, FS_EmptySet
  <1>7. RethrowsLast
    BY <1>1, <1>3 DEF RethrowsLast, Rethrows
  <1>8. DueIn(stack) /\ IsInjective(callbacks)
    BY <1>2 DEF DueIn, IsInjective
  <1>9. InFlight
    BY <1>2 DEF InFlight
  <1> QED BY <1>4, <1>5, <1>6, <1>7, <1>8, <1>9 DEF EmbInv

LEMMA EmbeddingPromises == EmbInv => CallbacksWaitForOutermost /\ InnermostHandlerCatches
  <1> SUFFICES ASSUME EmbInv PROVE CallbacksWaitForOutermost /\ InnermostHandlerCatches
    OBVIOUS
  <1>1. /\ stack \in Seq(Frame) /\ Len(stack) \in Nat \ {0} /\ DOMAIN stack = 1..Len(stack)
        /\ top = stack[Len(stack)]
    BY Calm
  <1>2. ASSUME NEW i \in DOMAIN stack, stack[i].kind = "fire" PROVE i = 2
    <2>1. i # 1
      BY <1>2 DEF EmbInv, Stacked
    <2>2. i \in 2..Len(stack)
      BY <1>1, <2>1
    <2>3. CalledFrom(stack, i)
      BY <2>2 DEF EmbInv, Stacked
    <2> QED BY <1>2, <2>3 DEF CalledFrom
  <1>3. depth = Cardinality({i \in DOMAIN stack :
                            \/ stack[i].kind = "fire"
                            \/ stack[i].kind = "js" /\ stack[i].call \in {"fires", "silent"}
                            \/ stack[i].kind = "tasks" /\ stack[i].call = "counted"})
    BY DEF EmbInv, Calls, IsCall
  <1>4. autorun /\ due => Len(stack) > 1
    BY DEF EmbInv, DueIn
  <1>5. CallbacksWaitForOutermost
    BY <1>2, <1>3, <1>4 DEF CallbacksWaitForOutermost, EmbInv
  <1>6. ASSUME scheduled # "none"
        PROVE  /\ Running("cpp") /\ top.tries = <<>> /\ below.kind = "js"
               /\ bound[scheduled][1] < Len(stack)
    <2>1. Running("cpp") /\ top.tries = <<>> /\ Len(stack) > 1 /\ below.kind = "js"
          /\ bound[scheduled] = Innermost(stack)
      BY <1>6 DEF EmbInv, InFlight
    <2>2. PICK i \in 0..Len(stack) : IsNearest(stack, i)
      BY <1>1, NearestExists
    <2>3. Innermost(stack) = Spot(stack, i)
      BY <1>1, <2>2, InnermostIs
    <2>4. ~Catches(stack[Len(stack)])
      BY <1>1, <2>1 DEF Catches, Running
    <2>5. i < Len(stack)
      BY <1>1, <2>2, <2>4 DEF IsNearest
    <2> QED BY <2>1, <2>3, <2>5 DEF Spot
  <1>7. InnermostHandlerCatches
    BY <1>6 DEF InnermostHandlerCatches, EmbInv, InFlight
  <1> QED BY <1>5, <1>7

\* A frame without a TryCatch that rethrows, called on top of a calm stack.
LEMMA PushedCalm ==
  ASSUME NEW s \in Seq(Frame), s # <<>>, NoRethrow(s), NEW f \in Frame,
         f.kind = "cpp" => f.tries = <<>>
  PROVE  NoRethrow(Append(s, f))
  <1> DEFINE t == Append(s, f)
  <1>1. IsPush(s, f, t)
    BY Pushed
  <1> HIDE DEF t
  <1>2. DOMAIN t = 1..Len(t) /\ DOMAIN s = 1..Len(s) /\ Len(t) = Len(s) + 1 /\ Len(s) \in Nat
    BY <1>1 DEF IsPush
  <1>3. ASSUME NEW i \in DOMAIN t, Rethrows(t, i) PROVE FALSE
    <2>1. CASE i = Len(t)
      BY <1>1, <1>3, <2>1 DEF IsPush, Rethrows
    <2>2. CASE i # Len(t)
      <3>1. i \in 1..Len(s) /\ t[i] = s[i]
        BY <1>1, <1>2, <2>2 DEF IsPush
      <3> QED BY <1>2, <1>3, <3>1 DEF NoRethrow, Rethrows
    <2> QED BY <2>1, <2>2
  <1> QED BY <1>3 DEF NoRethrow, t

\* A call: frame f on top of s, which is the stack but for what the frames hold.
LEMMA CallStep ==
  ASSUME EmbInv, NEW s, Same(stack, s), NoRethrow(s), NEW f \in Frame,
         f.kind = "cpp" => f.tries = <<>>,
         scheduled = "none", UNCHANGED <<scheduled, microtasks, callbacks, autorun, bound, astray, due>>,
         stack' = Append(s, f), depth' = IF IsCall(f) THEN depth + 1 ELSE depth,
         CalledFrom(Append(s, f), Len(stack) + 1)
  PROVE  EmbInv'
  <1>1. stack \in Seq(Frame) /\ stack # <<>> /\ Len(stack) \in Nat \ {0} /\ microtasks \in Nat /\ due \in BOOLEAN
    BY Calm
  <1>2. s \in Seq(Frame) /\ Len(s) = Len(stack)
    BY DEF Same
  <1>3. s # <<>> /\ Stacked(s) /\ Calls(s) = Calls(stack) /\ DueIn(s)
    BY <1>1, SameFrames DEF EmbInv
  <1>4. IsPush(s, f, stack')
    BY <1>2, <1>3, Pushed
  <1>5. stack' \in Seq(Frame) /\ stack' # <<>> /\ Stacked(stack') /\ DueIn(stack')
    BY <1>2, <1>3, <1>4 DEF IsPush
  <1>6. depth' = Cardinality(Calls(stack'))
    <2>1. Cardinality(Calls(stack')) = Cardinality(Calls(s)) + IF IsCall(f) THEN 1 ELSE 0
      BY <1>4 DEF IsPush
    <2>2. depth = Cardinality(Calls(s)) /\ depth \in Nat
      BY <1>1, <1>3, CallsFinite DEF EmbInv
    <2> QED BY <2>1, <2>2
  <1>7. NoRethrow(stack')
    BY <1>2, <1>3, PushedCalm
  <1>8. DueIn(stack)'
    BY <1>5 DEF DueIn
  <1>9. callbacks' \in Seq(Callbacks) /\ IsInjective(callbacks')
    BY DEF EmbInv, EmbeddingType
  <1> QED BY <1>1, <1>5, <1>6, <1>7, <1>8, <1>9, QuietStep

LEMMA SameIsSame ==
  ASSUME NEW s \in Seq(Frame)
  PROVE  Same(s, s)
  BY DEF Same

LEMMA EnterJavaScriptStep ==
  ASSUME EmbInv, NEW call \in {"fires", "silent"}, EnterJavaScript(call)
  PROVE  EmbInv'
  <1>1. /\ CanCall /\ depth' = depth + 1 /\ stack' = Append(stack, Js(call))
        /\ UNCHANGED <<scheduled, microtasks, callbacks, autorun, bound, astray, due>>
    BY DEF EnterJavaScript
  <1>2. /\ scheduled = "none" /\ NoRethrow(stack) /\ stack \in Seq(Frame) /\ stack # <<>>
        /\ top = stack[Len(stack)] /\ Len(stack) \in Nat \ {0}
    BY <1>1, Calm
  <1>3. Js(call) \in Frame /\ Js(call).kind = "js" /\ Js(call).call = call
    BY NewFrames
  <1>4. IsCall(Js(call))
    BY <1>3 DEF IsCall
  <1> DEFINE t == Append(stack, Js(call))
  <1>5. IsPush(stack, Js(call), t)
    BY <1>2, <1>3, Pushed
  <1> HIDE DEF t
  <1>6. CalledFrom(t, Len(stack) + 1)
    <2> DEFINE i == Len(stack) + 1
    <2>1. i - 1 = Len(stack) /\ i - 2 = Len(stack) - 1
      BY <1>2
    <2>2. t[i] = Js(call) /\ t[i - 1] = top /\ top.kind = "cpp"
      BY <1>1, <1>2, <1>5, <2>1 DEF IsPush, CanCall, Running
    <2>3. i > 2 => t[i - 2] = below
      BY <1>2, <1>5, <2>1 DEF IsPush, below
    <2>4. i > 2 /\ below.kind = "fire" => top.tries # <<>>
      BY <1>1, <1>2 DEF CanCall
    <2> HIDE DEF i
    <2> QED BY <1>3, <2>2, <2>3, <2>4 DEF CalledFrom, i
  <1> QED BY <1>1, <1>2, <1>3, <1>4, <1>6, SameIsSame, CallStep DEF t

LEMMA CallEmbedderStep ==
  ASSUME EmbInv, CallEmbedder
  PROVE  EmbInv'
  <1>1. /\ Running("js") /\ stack' = Append(stack, Cpp)
        /\ UNCHANGED <<scheduled, depth, microtasks, callbacks, autorun, bound, astray, due>>
    BY DEF CallEmbedder
  <1>2. /\ scheduled = "none" /\ NoRethrow(stack) /\ stack \in Seq(Frame) /\ stack # <<>>
        /\ top = stack[Len(stack)] /\ Len(stack) \in Nat \ {0} /\ top.kind = "js"
    BY <1>1, Calm DEF Running
  <1>3. Cpp \in Frame /\ Cpp.kind = "cpp" /\ Cpp.tries = <<>>
    BY NewFrames
  <1>4. ~IsCall(Cpp)
    BY <1>3 DEF IsCall
  <1> DEFINE t == Append(stack, Cpp)
  <1>5. IsPush(stack, Cpp, t)
    BY <1>2, <1>3, Pushed
  <1> HIDE DEF t
  <1>6. CalledFrom(t, Len(stack) + 1)
    <2>1. (Len(stack) + 1) - 1 = Len(stack)
      BY <1>2
    <2>2. t[Len(stack) + 1] = Cpp /\ t[(Len(stack) + 1) - 1] = top
      BY <1>2, <1>5, <2>1 DEF IsPush
    <2> QED BY <1>2, <1>3, <2>2 DEF CalledFrom
  <1> QED BY <1>1, <1>2, <1>3, <1>4, <1>6, SameIsSame, CallStep DEF t

LEMMA RunMicrotasksStep ==
  ASSUME EmbInv, RunMicrotasks
  PROVE  EmbInv'
  <1>1. /\ CanCall /\ depth = 0 /\ depth' = depth + 1 /\ stack' = Append(stack, Tasks("counted"))
        /\ UNCHANGED <<scheduled, microtasks, callbacks, autorun, bound, astray, due>>
    BY DEF RunMicrotasks, CallDepthIsZero
  <1>2. /\ scheduled = "none" /\ NoRethrow(stack) /\ stack \in Seq(Frame) /\ stack # <<>>
        /\ Len(stack) \in Nat \ {0}
    BY <1>1, Calm
  <1> DEFINE f == Tasks("counted")
  <1>3. f \in Frame /\ f.kind = "tasks" /\ f.call = "counted"
    BY NewFrames
  <1> HIDE DEF f
  <1>4. IsCall(f)
    BY <1>3 DEF IsCall
  <1> DEFINE t == Append(stack, f)
  <1>5. IsPush(stack, f, t)
    BY <1>2, <1>3, Pushed
  <1> HIDE DEF t
  <1>6. Len(stack) = 1 /\ stack[1].kind = "cpp"
    BY <1>1, <1>2, CallsFinite DEF EmbInv, Stacked
  <1>7. CalledFrom(t, 2)
    <2>1. t[2] = f /\ t[2 - 1] = stack[1]
      BY <1>5, <1>6 DEF IsPush
    <2> QED BY <1>3, <1>6, <2>1 DEF CalledFrom
  <1>8. Len(stack) + 1 = 2
    BY <1>6
  <1> QED BY <1>1, <1>2, <1>3, <1>4, <1>7, <1>8, SameIsSame, CallStep DEF t, f

LEMMA Runtime_RunMicrotasksStep ==
  ASSUME EmbInv, Runtime_RunMicrotasks
  PROVE  EmbInv'
  <1>1. /\ Running("js") /\ stack' = Append(stack, Tasks("native"))
        /\ UNCHANGED <<scheduled, depth, microtasks, callbacks, autorun, bound, astray, due>>
    BY DEF Runtime_RunMicrotasks
  <1>2. /\ scheduled = "none" /\ NoRethrow(stack) /\ stack \in Seq(Frame) /\ stack # <<>>
        /\ top = stack[Len(stack)] /\ Len(stack) \in Nat \ {0} /\ top.kind = "js"
    BY <1>1, Calm DEF Running
  <1> DEFINE f == Tasks("native")
  <1>3. f \in Frame /\ f.kind = "tasks" /\ f.call = "native"
    BY NewFrames
  <1> HIDE DEF f
  <1>4. ~IsCall(f)
    BY <1>3 DEF IsCall
  <1> DEFINE t == Append(stack, f)
  <1>5. IsPush(stack, f, t)
    BY <1>2, <1>3, Pushed
  <1> HIDE DEF t
  <1>6. CalledFrom(t, Len(stack) + 1)
    <2>1. (Len(stack) + 1) - 1 = Len(stack)
      BY <1>2
    <2>2. t[Len(stack) + 1] = f /\ t[(Len(stack) + 1) - 1] = top
      BY <1>2, <1>5, <2>1 DEF IsPush
    <2> QED BY <1>2, <1>3, <2>2 DEF CalledFrom
  <1> QED BY <1>1, <1>2, <1>3, <1>4, <1>6, SameIsSame, CallStep DEF t, f

\* The last frame is replaced by one of its kind.
LEMMA TopSame ==
  ASSUME EmbInv, NEW f \in Frame, f.kind = top.kind, f.kind \in {"js", "tasks"} => f.call = top.call,
         f.kind = "cpp" => \A j \in 1..Len(f.tries) : ~f.tries[j].rethrow,
         NEW t, t = [stack EXCEPT ![Len(stack)] = f]
  PROVE  Same(stack, t) /\ NoRethrow(t)
  <1>1. /\ top = stack[Len(stack)] /\ Len(stack) \in Nat \ {0} /\ stack \in Seq(Frame)
        /\ DOMAIN stack = 1..Len(stack)
    BY Calm
  <1>2. Len(stack) \in 1..Len(stack)
    BY <1>1
  <1>3. IsReplaced(stack, Len(stack), f, t)
    BY <1>1, <1>2, Replaced
  <1>4. Same(stack, t)
    BY <1>1, <1>2, <1>3, ReplacedAlike
  <1>5. ASSUME NEW i \in DOMAIN t, Rethrows(t, i) PROVE FALSE
    <2>1. i \in 1..Len(stack)
      BY <1>3, <1>5 DEF IsReplaced
    <2>2. CASE i = Len(stack)
      <3>1. t[i] = f /\ f.kind = "cpp" /\ f.tries \in Seq(Trying)
        BY <1>3, <1>5, <2>2, FrameIs DEF IsReplaced, Rethrows
      <3>2. DOMAIN f.tries = 1..Len(f.tries)
        BY <3>1
      <3> QED BY <1>5, <3>1, <3>2 DEF Rethrows
    <2>3. CASE i # Len(stack)
      <3>1. t[i] = stack[i]
        BY <1>3, <2>1, <2>3 DEF IsReplaced
      <3>2. Rethrows(stack, i)
        BY <1>5, <3>1 DEF Rethrows
      <3> QED BY <1>1, <2>1, <2>3, <3>2 DEF EmbInv, RethrowsLast
    <2> QED BY <2>2, <2>3
  <1> QED BY <1>4, <1>5 DEF NoRethrow

LEMMA TopStep ==
  ASSUME EmbInv, NEW f \in Frame, f.kind = top.kind, f.kind \in {"js", "tasks"} => f.call = top.call,
         f.kind = "cpp" => \A j \in 1..Len(f.tries) : ~f.tries[j].rethrow,
         stack' = [stack EXCEPT ![Len(stack)] = f], scheduled = "none",
         UNCHANGED <<scheduled, depth, callbacks, autorun, bound, astray>>,
         microtasks' \in Nat, due' \in BOOLEAN, due' => due /\ microtasks' = microtasks
  PROVE  EmbInv'
  <1>1. stack \in Seq(Frame) /\ stack # <<>>
    BY Calm
  <1>2. Same(stack, stack') /\ NoRethrow(stack')
    BY TopSame
  <1>3. /\ stack' \in Seq(Frame) /\ stack' # <<>> /\ Stacked(stack') /\ Calls(stack') = Calls(stack)
        /\ DueIn(stack')
    BY <1>1, <1>2, SameFrames DEF EmbInv, Same
  <1>4. depth' = Cardinality(Calls(stack'))
    BY <1>3 DEF EmbInv
  <1>5. DueIn(stack)'
    BY <1>3 DEF DueIn
  <1>6. callbacks' \in Seq(Callbacks) /\ IsInjective(callbacks')
    BY DEF EmbInv, EmbeddingType
  <1> QED BY <1>2, <1>3, <1>4, <1>5, <1>6, QuietStep

LEMMA CppIs ==
  ASSUME NEW f \in Frame, f.kind = "cpp", NEW ts \in Seq(Trying)
  PROVE  /\ [f EXCEPT !.tries = ts] \in Frame
         /\ [f EXCEPT !.tries = ts].kind = "cpp" /\ [f EXCEPT !.tries = ts].tries = ts
  <1>1. f \in CppFrame
    BY FrameIs
  <1>2. [f EXCEPT !.tries = ts] \in CppFrame /\ [f EXCEPT !.tries = ts].tries = ts
        /\ [f EXCEPT !.tries = ts].kind = "cpp"
    BY <1>1 DEF CppFrame
  <1> QED BY <1>2 DEF Frame

\* A script with another handler, or another exception that it holds.
IsJs(f, h, e, g) ==
  g \in Frame /\ g.kind = "js" /\ g.call = f.call /\ g.handler = h /\ g.held = e

LEMMA JsIs ==
  ASSUME NEW f \in Frame, f.kind = "js"
  PROVE  /\ \A h \in {"none", "catch", "finally"} : IsJs(f, h, f.held, [f EXCEPT !.handler = h])
         /\ \A e \in Thrown : IsJs(f, f.handler, e, [f EXCEPT !.held = e])
         /\ \A h \in {"none", "catch", "finally"}, e \in Thrown :
              IsJs(f, h, e, [f EXCEPT !.handler = h, !.held = e])
  <1>1. f \in JsFrame
    BY FrameIs
  <1>2. ASSUME NEW h \in {"none", "catch", "finally"} PROVE IsJs(f, h, f.held, [f EXCEPT !.handler = h])
    BY <1>1 DEF JsFrame, Frame, IsJs
  <1>3. ASSUME NEW e \in Thrown PROVE IsJs(f, f.handler, e, [f EXCEPT !.held = e])
    BY <1>1 DEF JsFrame, Frame, IsJs
  <1>4. ASSUME NEW h \in {"none", "catch", "finally"}, NEW e \in Thrown
        PROVE  IsJs(f, h, e, [f EXCEPT !.handler = h, !.held = e])
    BY <1>1 DEF JsFrame, Frame, IsJs
  <1> QED BY <1>2, <1>3, <1>4

LEMMA NewTryCatchStep ==
  ASSUME EmbInv, NewTryCatch
  PROVE  EmbInv'
  <1>1. /\ CanCall /\ stack' = [stack EXCEPT ![Len(stack)].tries = Append(@, TryCatch)]
        /\ UNCHANGED <<scheduled, depth, microtasks, callbacks, autorun, bound, astray, due>>
    BY DEF NewTryCatch
  <1>2. /\ scheduled = "none" /\ stack \in Seq(Frame) /\ top \in Frame /\ top = stack[Len(stack)]
        /\ Len(stack) \in Nat \ {0} /\ microtasks \in Nat /\ due \in BOOLEAN
    BY <1>1, Calm
  <1>3. top.kind = "cpp" /\ top.tries \in Seq(Trying) /\ \A j \in DOMAIN top.tries : ~top.tries[j].rethrow
    BY <1>1, <1>2, FrameIs DEF CanCall, Running
  <1>4. TryCatch \in Trying /\ ~TryCatch.rethrow
    BY DEF TryCatch, Trying, Thrown
  <1> DEFINE ts == Append(top.tries, TryCatch)
             f == [top EXCEPT !.tries = ts]
  <1>5. ts \in Seq(Trying) /\ \A j \in 1..Len(ts) : ~ts[j].rethrow
    <2>1. ts \in Seq(Trying) /\ Len(ts) = Len(top.tries) + 1 /\ ts[Len(ts)] = TryCatch /\ Len(top.tries) \in Nat
          /\ \A j \in 1..Len(top.tries) : ts[j] = top.tries[j] /\ j \in DOMAIN top.tries
      BY <1>3, <1>4
    <2> HIDE DEF ts
    <2>2. \A j \in 1..Len(ts) : j = Len(ts) \/ j \in 1..Len(top.tries)
      BY <2>1
    <2> QED BY <1>3, <1>4, <2>1, <2>2
  <1>6. stack' = [stack EXCEPT ![Len(stack)] = f]
    BY <1>1, <1>2
  <1> HIDE DEF ts
  <1>7. f \in Frame /\ f.kind = "cpp" /\ f.tries = ts
    BY <1>2, <1>3, <1>5, CppIs
  <1> HIDE DEF f
  <1> QED BY <1>1, <1>2, <1>3, <1>5, <1>6, <1>7, TopStep

LEMMA ResetStep ==
  ASSUME EmbInv, Reset
  PROVE  EmbInv'
  <1> DEFINE n == Len(top.tries)
             f == [top EXCEPT !.tries[n].exception = "none"]
  <1>1. /\ CanCall /\ top.tries # <<>> /\ stack' = [stack EXCEPT ![Len(stack)].tries[n].exception = "none"]
        /\ UNCHANGED <<scheduled, depth, microtasks, callbacks, autorun, bound, astray, due>>
    BY DEF Reset
  <1>2. /\ scheduled = "none" /\ stack \in Seq(Frame) /\ top \in Frame /\ top = stack[Len(stack)]
        /\ Len(stack) \in Nat \ {0} /\ microtasks \in Nat /\ due \in BOOLEAN
    BY <1>1, Calm
  <1>3. top.kind = "cpp" /\ top.tries \in Seq(Trying) /\ \A j \in DOMAIN top.tries : ~top.tries[j].rethrow
    BY <1>1, <1>2, FrameIs DEF CanCall, Running
  <1>4. n \in 1..Len(top.tries) /\ DOMAIN top.tries = 1..Len(top.tries)
    BY <1>1, <1>3, EmptySeq
  <1>5. stack' = [stack EXCEPT ![Len(stack)] = f]
    BY <1>1, <1>2
  <1> HIDE DEF n
  <1>6. IsCaught(top, n, "none", f)
    BY <1>2, <1>3, <1>4, Caught DEF Thrown
  <1> HIDE DEF f
  <1>7. f \in Frame /\ f.kind = "cpp" /\ \A j \in 1..Len(f.tries) : ~f.tries[j].rethrow
    BY <1>3, <1>4, <1>6 DEF IsCaught
  <1> QED BY <1>1, <1>2, <1>3, <1>5, <1>7, TopStep

LEMMA EnterTryStep ==
  ASSUME EmbInv, EnterTry
  PROVE  EmbInv'
  <1>1. PICK h \in {"catch", "finally"} : stack' = [stack EXCEPT ![Len(stack)].handler = h]
    BY DEF EnterTry
  <1>2. Running("js") /\ UNCHANGED <<scheduled, depth, microtasks, callbacks, autorun, bound, astray, due>>
    BY DEF EnterTry
  <1>3. /\ scheduled = "none" /\ stack \in Seq(Frame) /\ top \in Frame /\ top = stack[Len(stack)]
        /\ Len(stack) \in Nat \ {0} /\ microtasks \in Nat /\ due \in BOOLEAN /\ top.kind = "js"
    BY <1>2, Calm DEF Running
  <1> DEFINE f == [top EXCEPT !.handler = h]
  <1>4. stack' = [stack EXCEPT ![Len(stack)] = f]
    BY <1>1, <1>3
  <1>5. f \in Frame /\ f.kind = "js" /\ f.call = top.call
    <2>1. IsJs(top, h, top.held, f)
      BY <1>3, JsIs
    <2> QED BY <2>1 DEF IsJs
  <1> HIDE DEF f
  <1> QED BY <1>2, <1>3, <1>4, <1>5, TopStep

LEMMA TaskIs ==
  ASSUME NEW f \in Frame, f.kind = "tasks", NEW n \in Nat
  PROVE  /\ [f EXCEPT !.left = n] \in Frame
         /\ [f EXCEPT !.left = n].kind = "tasks" /\ [f EXCEPT !.left = n].call = f.call
  <1>1. f \in TaskFrame
    BY FrameIs
  <1>2. [f EXCEPT !.left = n] \in TaskFrame
        /\ [f EXCEPT !.left = n].kind = "tasks" /\ [f EXCEPT !.left = n].call = f.call
    BY <1>1 DEF TaskFrame
  <1> QED BY <1>2 DEF Frame

LEMMA TakeMicrotasksStep ==
  ASSUME EmbInv, TakeMicrotasks
  PROVE  EmbInv'
  <1>1. /\ Running("tasks") /\ stack' = [stack EXCEPT ![Len(stack)].left = microtasks]
        /\ microtasks' = 0 /\ due' = FALSE
        /\ UNCHANGED <<scheduled, depth, callbacks, autorun, bound, astray>>
    BY DEF TakeMicrotasks
  <1>2. /\ scheduled = "none" /\ stack \in Seq(Frame) /\ top \in Frame /\ top = stack[Len(stack)]
        /\ Len(stack) \in Nat \ {0} /\ microtasks \in Nat /\ top.kind = "tasks"
    BY <1>1, Calm DEF Running
  <1> DEFINE f == [top EXCEPT !.left = microtasks]
  <1>3. stack' = [stack EXCEPT ![Len(stack)] = f]
    BY <1>1, <1>2
  <1>4. f \in Frame /\ f.kind = "tasks" /\ f.call = top.call
    BY <1>2, TaskIs
  <1> HIDE DEF f
  <1>5. microtasks' \in Nat /\ due' \in BOOLEAN /\ ~due'
    BY <1>1
  <1> QED BY <1>1, <1>2, <1>3, <1>4, <1>5, TopStep

LEMMA RunMicrotaskStep ==
  ASSUME EmbInv, RunMicrotask
  PROVE  EmbInv'
  <1>1. /\ Running("tasks") /\ top.left > 0
        /\ stack' = Append([stack EXCEPT ![Len(stack)].left = @ - 1], Js("task"))
        /\ UNCHANGED <<scheduled, depth, microtasks, callbacks, autorun, bound, astray, due>>
    BY DEF RunMicrotask
  <1>2. /\ scheduled = "none" /\ stack \in Seq(Frame) /\ top \in Frame /\ top = stack[Len(stack)]
        /\ Len(stack) \in Nat \ {0} /\ top.kind = "tasks"
    BY <1>1, Calm DEF Running
  <1> DEFINE f == [top EXCEPT !.left = top.left - 1]
             s == [stack EXCEPT ![Len(stack)] = f]
             t == Append(s, Js("task"))
  <1>3. stack' = t
    BY <1>1, <1>2
  <1>4. f \in Frame /\ f.kind = "tasks" /\ f.call = top.call
    <2>1. top.left - 1 \in Nat
      BY <1>1, <1>2, FrameIs
    <2> QED BY <1>2, <2>1, TaskIs
  <1> HIDE DEF f
  <1>5. Same(stack, s) /\ NoRethrow(s)
    BY <1>2, <1>4, TopSame
  <1> HIDE DEF s
  <1>6. Js("task") \in Frame /\ Js("task").kind = "js" /\ Js("task").call = "task"
    BY NewFrames
  <1>7. ~IsCall(Js("task"))
    BY <1>6 DEF IsCall
  <1>8. s \in Seq(Frame) /\ s # <<>> /\ Len(s) = Len(stack) /\ s[Len(s)].kind = "tasks"
    BY <1>2, <1>5 DEF Same
  <1>9. IsPush(s, Js("task"), t)
    BY <1>6, <1>8, Pushed
  <1> HIDE DEF t
  <1>10. CalledFrom(t, Len(stack) + 1)
    <2>1. (Len(stack) + 1) - 1 = Len(stack)
      BY <1>2
    <2>2. t[Len(stack) + 1] = Js("task") /\ t[(Len(stack) + 1) - 1].kind = "tasks"
      BY <1>2, <1>8, <1>9, <2>1 DEF IsPush
    <2> QED BY <1>6, <2>2 DEF CalledFrom
  <1> QED BY <1>1, <1>2, <1>3, <1>5, <1>6, <1>7, <1>10, CallStep DEF t

LEMMA ReThrowStep ==
  ASSUME EmbInv, ReThrow
  PROVE  EmbInv'
  <1>1. /\ CanCall /\ Len(top.tries) = 1 /\ Len(stack) > 1 /\ below.kind = "js"
        /\ top.tries[1].exception # "none"
        /\ stack' = [stack EXCEPT ![Len(stack)].tries[1].rethrow = TRUE]
        /\ UNCHANGED <<scheduled, depth, microtasks, callbacks, autorun, bound, astray, due>>
    BY DEF ReThrow
  <1>2. /\ scheduled = "none" /\ NoRethrow(stack) /\ stack \in Seq(Frame) /\ top \in Frame
        /\ top = stack[Len(stack)] /\ Len(stack) \in Nat \ {0} /\ DOMAIN stack = 1..Len(stack)
        /\ stack # <<>>
    BY <1>1, Calm
  <1>3. top.kind = "cpp" /\ top.tries \in Seq(Trying) /\ top \in CppFrame
    BY <1>1, <1>2, FrameIs DEF CanCall, Running
  <1> DEFINE try == [top.tries[1] EXCEPT !.rethrow = TRUE]
             ts  == [top.tries EXCEPT ![1] = try]
             f   == [top EXCEPT !.tries = ts]
  <1>4. stack' = [stack EXCEPT ![Len(stack)] = f]
    BY <1>1, <1>2
  <1>5. try \in Trying /\ try.exception = top.tries[1].exception
    <2>1. top.tries[1] \in Trying
      BY <1>1, <1>3
    <2> QED BY <2>1 DEF Trying
  <1> HIDE DEF try
  <1>6. ts \in Seq(Trying) /\ Len(ts) = 1 /\ ts[1] = try
    BY <1>1, <1>3, <1>5
  <1> HIDE DEF ts
  <1>7. f \in Frame /\ f.kind = "cpp" /\ f.tries = ts
    BY <1>2, <1>3, <1>6, CppIs
  <1> HIDE DEF f
  <1>8. Len(stack) \in 1..Len(stack)
    BY <1>2
  <1>9. IsReplaced(stack, Len(stack), f, stack')
    BY <1>2, <1>4, <1>7, <1>8, Replaced
  <1>10. Same(stack, stack')
    BY <1>2, <1>3, <1>7, <1>8, <1>9, ReplacedAlike
  <1>11. /\ stack' \in Seq(Frame) /\ stack' # <<>> /\ Stacked(stack') /\ Calls(stack') = Calls(stack)
         /\ DueIn(stack') /\ Len(stack') = Len(stack)
    BY <1>2, <1>10, SameFrames DEF EmbInv, Same
  <1>12. RethrowsLast'
    <2>1. SUFFICES ASSUME NEW i \in DOMAIN stack', Rethrows(stack', i)
                   PROVE  /\ i = Len(stack') /\ i > 1 /\ stack'[i - 1].kind = "js"
                          /\ Len(stack'[i].tries) = 1 /\ stack'[i].tries[1].exception # "none"
      BY DEF RethrowsLast
    <2>2. i \in 1..Len(stack)
      BY <1>9 DEF IsReplaced
    <2>3. i = Len(stack)
      <3>1. SUFFICES ASSUME i # Len(stack) PROVE FALSE
        OBVIOUS
      <3>2. stack'[i] = stack[i]
        BY <1>9, <2>2, <3>1 DEF IsReplaced
      <3> QED BY <1>2, <2>1, <2>2, <3>2 DEF NoRethrow, Rethrows
    <2>4. stack'[i] = f
      BY <1>9, <2>3 DEF IsReplaced
    <2>5. stack'[i - 1].kind = "js"
      <3>1. i - 1 \in 1..Len(stack) /\ i - 1 # Len(stack)
        <4>1. Len(stack) > 1 /\ Len(stack) \in Nat
          BY <1>1, <1>2
        <4> QED BY <2>3, <4>1
      <3>2. stack'[i - 1] = below
        BY <1>9, <2>3, <3>1 DEF IsReplaced, below
      <3> QED BY <1>1, <3>2
    <2> QED BY <1>1, <1>5, <1>6, <1>7, <1>11, <2>3, <2>4, <2>5
  <1>13. depth' = Cardinality(Calls(stack'))
    BY <1>1, <1>11 DEF EmbInv
  <1>14. DueIn(stack)'
    BY <1>1, <1>11 DEF DueIn
  <1>15. EmbeddingType'
    BY <1>1, <1>11 DEF EmbInv, EmbeddingType
  <1>16. InFlight'
    BY <1>1, <1>2 DEF EmbInv, InFlight
  <1>17. IsInjective(callbacks')
    BY <1>1 DEF EmbInv
  <1> QED BY <1>11, <1>12, <1>13, <1>14, <1>15, <1>16, <1>17 DEF EmbInv

LEMMA OtherwiseStep ==
  ASSUME EmbInv, scheduled = "none", NoRethrow(stack),
         UNCHANGED <<stack, scheduled, depth, bound, astray, autorun>>,
         callbacks' \in Seq(Callbacks), IsInjective(callbacks'), microtasks' \in Nat, due' \in BOOLEAN,
         DueIn(stack)'
  PROVE  EmbInv'
  <1>1. stack \in Seq(Frame) /\ stack # <<>>
    BY Calm
  <1> QED BY <1>1, QuietStep DEF EmbInv

LEMMA AddCallCompletedCallbackStep ==
  ASSUME EmbInv, AddCallCompletedCallback
  PROVE  EmbInv'
  <1>1. /\ CanCall
        /\ UNCHANGED <<stack, scheduled, depth, microtasks, autorun, bound, astray, due>>
    BY DEF AddCallCompletedCallback
  <1>2. PICK c \in Callbacks : /\ \A i \in DOMAIN callbacks : callbacks[i] # c
                               /\ callbacks' = Append(callbacks, c)
    BY DEF AddCallCompletedCallback
  <1>3. callbacks \in Seq(Callbacks) /\ IsInjective(callbacks)
    BY DEF EmbInv, EmbeddingType
  <1>4. callbacks' \in Seq(Callbacks)
    BY <1>2, <1>3
  <1>5. IsInjective(callbacks')
    <2>1. /\ DOMAIN callbacks = 1..Len(callbacks) /\ DOMAIN callbacks' = 1..Len(callbacks) + 1
          /\ Len(callbacks) \in Nat /\ callbacks'[Len(callbacks) + 1] = c
          /\ \A i \in 1..Len(callbacks) : callbacks'[i] = callbacks[i]
      BY <1>2, <1>3
    <2>2. \A i \in DOMAIN callbacks' : i = Len(callbacks) + 1 \/ i \in 1..Len(callbacks)
      BY <2>1
    <2> QED BY <1>2, <1>3, <2>1, <2>2 DEF IsInjective
  <1>6. DueIn(stack)'
    BY <1>1 DEF EmbInv, DueIn
  <1>7. scheduled = "none" /\ NoRethrow(stack) /\ microtasks \in Nat /\ due \in BOOLEAN
    BY <1>1, Calm
  <1> QED BY <1>1, <1>4, <1>5, <1>6, <1>7, OtherwiseStep

LEMMA RemoveCallCompletedCallbackStep ==
  ASSUME EmbInv, RemoveCallCompletedCallback
  PROVE  EmbInv'
  <1>1. /\ CanCall
        /\ UNCHANGED <<stack, scheduled, depth, microtasks, autorun, bound, astray, due>>
    BY DEF RemoveCallCompletedCallback
  <1>2. PICK i \in DOMAIN callbacks : callbacks' = RemoveAt(callbacks, i)
    BY DEF RemoveCallCompletedCallback
  <1>3. callbacks \in Seq(Callbacks) /\ IsInjective(callbacks)
    BY DEF EmbInv, EmbeddingType
  <1> DEFINE n == Len(callbacks)
             s == SubSeq(callbacks, 1, i - 1)
             t == SubSeq(callbacks, i + 1, n)
  <1>4. n \in Nat /\ i \in 1..n /\ DOMAIN callbacks = 1..n /\ \A k \in 1..n : callbacks[k] \in Callbacks
    BY <1>2, <1>3
  <1>5. callbacks' = s \o t
    BY <1>2 DEF RemoveAt
  <1>6. s \in Seq(Callbacks) /\ Len(s) = i - 1 /\ \A k \in 1..i - 1 : s[k] = callbacks[k]
    <2>1. 1 \in Int /\ i - 1 \in Int /\ \A k \in 1..i - 1 : callbacks[k] \in Callbacks
      BY <1>4
    <2>2. s \in Seq(Callbacks) /\ Len(s) = (IF 1 <= i - 1 THEN (i - 1) - 1 + 1 ELSE 0)
          /\ \A k \in 1..(i - 1) - 1 + 1 : s[k] = callbacks[1 + k - 1]
      BY <2>1, SubSeqProperties
    <2> HIDE DEF s
    <2> QED BY <1>4, <2>2
  <1>7. t \in Seq(Callbacks) /\ Len(t) = n - i /\ \A k \in 1..n - i : t[k] = callbacks[i + k]
    <2>1. i + 1 \in Int /\ n \in Int /\ \A k \in i + 1..n : callbacks[k] \in Callbacks
      BY <1>4
    <2> HIDE DEF n
    <2>2. t \in Seq(Callbacks) /\ Len(t) = (IF i + 1 <= n THEN n - (i + 1) + 1 ELSE 0)
          /\ \A k \in 1..n - (i + 1) + 1 : t[k] = callbacks[(i + 1) + k - 1]
      BY <2>1, SubSeqProperties
    <2> HIDE DEF t
    <2> QED BY <1>4, <2>2
  <1> HIDE DEF n, s, t
  <1>8. callbacks' \in Seq(Callbacks) /\ Len(callbacks') = n - 1
        /\ \A k \in 1..n - 1 : callbacks'[k] = IF k < i THEN callbacks[k] ELSE callbacks[k + 1]
    <2>1. /\ s \o t \in Seq(Callbacks) /\ Len(s \o t) = Len(s) + Len(t)
          /\ \A k \in 1..Len(s) + Len(t) : (s \o t)[k] = IF k <= Len(s) THEN s[k] ELSE t[k - Len(s)]
      BY <1>6, <1>7, ConcatProperties
    <2>2. Len(s) + Len(t) = n - 1
      BY <1>4, <1>6, <1>7
    <2>3. ASSUME NEW k \in 1..n - 1
          PROVE  (s \o t)[k] = IF k < i THEN callbacks[k] ELSE callbacks[k + 1]
      <3>1. CASE k < i
        BY <1>4, <1>6, <2>1, <2>2, <3>1
      <3>2. CASE ~(k < i)
        <4>1. k - (i - 1) \in 1..n - i /\ i + (k - (i - 1)) = k + 1
          BY <1>4, <3>2
        <4>2. (s \o t)[k] = t[k - (i - 1)]
          BY <1>4, <1>6, <2>1, <2>2, <3>2
        <4> QED BY <1>7, <3>2, <4>1, <4>2
      <3> QED BY <3>1, <3>2
    <2> QED BY <1>5, <2>1, <2>2, <2>3
  <1>9. IsInjective(callbacks')
    <2>1. SUFFICES ASSUME NEW k \in DOMAIN callbacks', NEW l \in DOMAIN callbacks',
                          callbacks'[k] = callbacks'[l]
                   PROVE  k = l
      BY DEF IsInjective
    <2>2. k \in 1..n - 1 /\ l \in 1..n - 1
      BY <1>8
    <2> DEFINE To(m) == IF m < i THEN m ELSE m + 1
    <2>3. To(k) \in 1..n /\ To(l) \in 1..n
      BY <1>4, <2>2
    <2>4. callbacks'[k] = callbacks[To(k)] /\ callbacks'[l] = callbacks[To(l)]
      BY <1>8, <2>2
    <2>5. To(k) = To(l)
      BY <1>3, <1>4, <2>1, <2>3, <2>4 DEF IsInjective
    <2> QED BY <1>4, <2>2, <2>5
  <1>10. DueIn(stack)'
    BY <1>1 DEF EmbInv, DueIn
  <1>11. scheduled = "none" /\ NoRethrow(stack) /\ microtasks \in Nat /\ due \in BOOLEAN
    BY <1>1, Calm
  <1> QED BY <1>1, <1>8, <1>9, <1>10, <1>11, OtherwiseStep

LEMMA EnqueueMicrotaskStep ==
  ASSUME EmbInv, EnqueueMicrotask
  PROVE  EmbInv'
  <1>1. /\ CanCall \/ Running("js")
        /\ microtasks' = microtasks + 1
        /\ due' = \/ due
                  \/ /\ Len(stack) > 1
                     /\ \/ stack[2].kind = "js" /\ stack[2].call = "fires"
                        \/ stack[2].kind = "fire" /\ Len(stack) > 2 /\ stack[3].kind = "tasks"
        /\ UNCHANGED <<stack, scheduled, depth, callbacks, autorun, bound, astray>>
    BY DEF EnqueueMicrotask
  <1>2. scheduled = "none" /\ NoRethrow(stack) /\ microtasks \in Nat /\ due \in BOOLEAN
    BY <1>1, Calm DEF Running
  <1>3. DueIn(stack)'
    <2> DEFINE Where == /\ Len(stack) > 1
                        /\ \/ stack[2].kind = "js" /\ stack[2].call = "fires"
                           \/ stack[2].kind = "fire" /\ Len(stack) > 2 /\ stack[3].kind = "tasks"
    <2>1. autorun /\ due => Where
      BY DEF EmbInv, DueIn
    <2>2. due' => due \/ Where
      BY <1>1
    <2>3. microtasks' > 0
      BY <1>1, <1>2
    <2>4. autorun' /\ due' => Where
      BY <1>1, <2>1, <2>2
    <2>5. stack' = stack
      BY <1>1
    <2> QED BY <2>3, <2>4, <2>5 DEF DueIn
  <1>4. callbacks' \in Seq(Callbacks) /\ IsInjective(callbacks')
    BY <1>1 DEF EmbInv, EmbeddingType
  <1>5. due' \in BOOLEAN /\ microtasks' \in Nat
    BY <1>1, <1>2
  <1> QED BY <1>1, <1>2, <1>3, <1>4, <1>5, OtherwiseStep

-----------------------------------------------------------------------------
(***************************************************************************)
(* 2.4 The steps that do.                                                  *)
(***************************************************************************)
\* A script on top of q has the control: nothing is in flight, nothing rethrows.
InScript(q) ==
  /\ q \in Seq(Frame) /\ Len(q) > 1 /\ Stacked(q) /\ Last(q).kind = "js"
  /\ depth = Cardinality(Calls(q)) /\ DueIn(q) /\ NoRethrow(q)

LEMMA InScriptFacts ==
  ASSUME NEW q, InScript(q)
  PROVE  /\ Last(q) = q[Len(q)] /\ Last(q) \in Frame /\ CalledFrom(q, Len(q)) /\ Len(q) \in Nat
         /\ IsPop(q, Front(q)) /\ Len(Front(q)) = Len(q) - 1 /\ Len(Front(q)) \in Nat \ {0}
         /\ Front(q) \in Seq(Frame) /\ Front(q) # <<>> /\ Stacked(Front(q)) /\ NoRethrow(Front(q))
         /\ Last(Front(q)) = q[Len(q) - 1] /\ Last(Front(q)) = Front(q)[Len(q) - 1]
         /\ \A i \in 1..Len(q) - 1 : Front(q)[i] = q[i]
  <1>1. q \in Seq(Frame) /\ Len(q) > 1 /\ Len(q) \in Nat
    BY DEF InScript
  <1>2. q # <<>>
    BY <1>1, EmptySeq
  <1>3. Last(q) = q[Len(q)] /\ Last(q) \in Frame
    BY <1>1, <1>2, FrontIs
  <1>4. CalledFrom(q, Len(q))
    BY <1>1 DEF InScript, Stacked
  <1> DEFINE t == Front(q)
  <1>5. IsPop(q, t)
    BY <1>1, Popped
  <1>6. \A i \in 1..Len(q) - 1 : Rethrows(t, i) <=> Rethrows(q, i)
    BY <1>1, PoppedNearest
  <1> HIDE DEF t
  <1>7. t \in Seq(Frame) /\ t # <<>> /\ Len(t) = Len(q) - 1 /\ Last(t) = q[Len(q) - 1] /\ Stacked(t)
        /\ \A i \in 1..Len(q) - 1 : t[i] = q[i]
    BY <1>5 DEF IsPop, InScript
  <1>8. NoRethrow(t)
    <2>1. DOMAIN t = 1..Len(q) - 1 /\ 1..Len(q) - 1 \subseteq DOMAIN q
      BY <1>1, <1>7
    <2> QED BY <1>6, <2>1 DEF NoRethrow, InScript
  <1>9. Last(t) = t[Len(q) - 1] /\ Len(t) \in Nat \ {0}
    BY <1>1, <1>7 DEF Last
  <1> QED BY <1>1, <1>3, <1>4, <1>5, <1>7, <1>8, <1>9 DEF t

\* The script's call ends, and s is what is left of the stack.
LEMMA CallEnds ==
  ASSUME NEW q, InScript(q), Last(q).call # "task", NEW s, IsAlike(Front(q), s),
         microtasks \in Nat, EXCEPTION_BAILOUT_CHECK(s, Last(q).call)
  PROVE  /\ stack' \in Seq(Frame) /\ stack' # <<>> /\ Stacked(stack')
         /\ depth' = Cardinality(Calls(stack')) /\ DueIn(stack') /\ NoRethrow(stack')
         /\ depth - 1 = 0 <=> Len(s) = 1
         /\ depth - 1 # 0 => stack' = s
  <1>1. /\ Last(q) = q[Len(q)] /\ Last(q) \in Frame /\ Len(q) \in Nat
        /\ IsPop(q, Front(q)) /\ Len(Front(q)) = Len(q) - 1
        /\ Front(q) \in Seq(Frame) /\ Front(q) # <<>> /\ Stacked(Front(q)) /\ NoRethrow(Front(q))
    BY InScriptFacts
  <1>2. Last(q).kind = "js" /\ Last(q).call \in {"fires", "silent"}
    BY <1>1, FrameIs DEF InScript
  <1>3. s \in Seq(Frame) /\ Len(s) = Len(q) - 1
    BY <1>1 DEF IsAlike, Same
  <1>4. s # <<>> /\ Stacked(s) /\ Calls(s) = Calls(Front(q)) /\ (DueIn(Front(q)) => DueIn(s)) /\ NoRethrow(s)
    BY <1>1, SameFrames, AlikeIs DEF IsAlike
  <1>5. depth - 1 = Cardinality(Calls(s)) /\ Cardinality(Calls(s)) \in Nat
    <2>1. IsCall(Last(q))
      BY <1>2 DEF IsCall
    <2>2. Cardinality(Calls(q)) = Cardinality(Calls(Front(q))) + 1 /\ Cardinality(Calls(Front(q))) \in Nat
      BY <1>1, <2>1 DEF IsPop
    <2> QED BY <1>4, <2>2 DEF InScript
  <1>6. Len(s) > 1 => DueIn(s)
    <2>1. SUFFICES ASSUME Len(s) > 1 PROVE DueIn(s)
      OBVIOUS
    <2>2. Len(q) > 2
      BY <1>1, <1>3, <2>1
    <2>3. Len(q) = 3 => q[3].kind # "tasks"
      BY <1>1, <1>2
    <2> QED BY <1>1, <1>4, <2>2, <2>3 DEF IsPop, InScript
  <1>7. autorun /\ due => microtasks > 0
    BY DEF InScript, DueIn
  <1>8. depth - 1 = 0 <=> Len(s) = 1
    <2>1. depth - 1 = 0 => Len(s) = 1
      BY <1>3, <1>4, <1>5, CallsFinite
    <2>2. ASSUME Len(s) = 1 PROVE depth - 1 = 0
      <3>1. Calls(s) = {}
        <4>1. DOMAIN s = 1..1 /\ s[1].kind = "cpp"
          BY <1>3, <1>4, <2>2 DEF Stacked
        <4> QED BY <4>1 DEF Calls, IsCall
      <3> QED BY <1>5, <3>1, FS_EmptySet
    <2> QED BY <2>1, <2>2
  <1>9. CASE Last(q).call = "fires"
    <2>1. FireCallCompletedCallback(s, depth - 1)
      BY <1>9 DEF EXCEPTION_BAILOUT_CHECK
    <2> DEFINE d == depth - 1
    <2>2. d = Cardinality(Calls(s)) /\ FireCallCompletedCallback(s, d)
      BY <1>5, <2>1
    <2> HIDE DEF d
    <2>3. /\ stack' \in Seq(Frame) /\ stack' # <<>> /\ Stacked(stack')
          /\ depth' = Cardinality(Calls(stack')) /\ DueIn(stack') /\ NoRethrow(stack')
          /\ d # 0 => stack' = s
      BY <1>3, <1>4, <1>6, <1>7, <2>2, FireKeeps
    <2> QED BY <1>8, <2>3 DEF d
  <1>10. CASE Last(q).call = "silent"
    <2>1. depth' = depth - 1 /\ stack' = s
      BY <1>10 DEF EXCEPTION_BAILOUT_CHECK
    <2>2. DueIn(s)
      <3>1. CASE Len(s) > 1
        BY <1>6, <3>1
      <3>2. CASE ~(Len(s) > 1)
        <4>1. Len(q) = 2
          BY <1>1, <1>3, <3>2 DEF InScript
        <4>2. ~(autorun /\ due)
          BY <1>1, <1>2, <1>10, <4>1 DEF InScript, DueIn
        <4> QED BY <4>2 DEF DueIn
      <3> QED BY <3>1, <3>2
    <2> QED BY <1>3, <1>4, <1>5, <1>8, <2>1, <2>2
  <1> QED BY <1>2, <1>9, <1>10

\* What there is to show of a step that ends an exception, or leaves one in flight.
LEMMA ThrowingStep ==
  ASSUME EmbInv, callbacks' \in Seq(Callbacks), IsInjective(callbacks'),
         UNCHANGED <<microtasks, autorun, due>>, scheduled' \in Thrown,
         bound' = [x \in Exceptions |-> bound'[x]],
         stack' \in Seq(Frame), stack' # <<>>, Stacked(stack'), depth' = Cardinality(Calls(stack')),
         NoRethrow(stack'), DueIn(stack'), InFlight'
  PROVE  EmbInv'
  <1>1. EmbeddingType'
    BY DEF EmbInv, EmbeddingType
  <1>2. RethrowsLast'
    BY DEF RethrowsLast, NoRethrow
  <1>3. DueIn(stack)'
    BY DEF DueIn
  <1> QED BY <1>1, <1>2, <1>3 DEF EmbInv

\* An exception e that is bound for the innermost handler is thrown in the script on top of q.
UnwindFacts ==
  /\ stack' \in Seq(Frame) /\ stack' # <<>> /\ Stacked(stack') /\ depth' = Cardinality(Calls(stack'))
  /\ NoRethrow(stack') /\ DueIn(stack')
  /\ scheduled' \in Thrown /\ bound' = [x \in Exceptions |-> bound'[x]]
  /\ InFlight'

LEMMA EndsHere ==
  ASSUME NEW e \in Exceptions, NEW for, NEW at, Ends(e, for, at), for = at, astray = {},
         bound = [x \in Exceptions |-> bound[x]],
         \A x \in Exceptions \ {e} : bound[x] = "none", scheduled' = "none"
  PROVE  InFlight' /\ scheduled' \in Thrown /\ bound' = [x \in Exceptions |-> bound'[x]]
  <1>1. bound' = [bound EXCEPT ![e] = "none"] /\ astray' = astray
    BY DEF Ends
  <1>2. \A x \in Exceptions : bound'[x] = "none"
    BY <1>1
  <1>3. InFlight'
    BY <1>1, <1>2 DEF InFlight
  <1> QED BY <1>1, <1>3 DEF Thrown

LEMMA UnwindHandled ==
  ASSUME NEW q, InScript(q), NEW h \in {"none", "catch", "finally"}, NEW x \in Thrown, NEW g,
         IsJs(Last(q), h, x, g), stack' = [q EXCEPT ![Len(q)] = g], UNCHANGED depth
  PROVE  /\ stack' \in Seq(Frame) /\ stack' # <<>> /\ Stacked(stack') /\ depth' = Cardinality(Calls(stack'))
         /\ NoRethrow(stack') /\ DueIn(stack')
  <1>1. Last(q) = q[Len(q)] /\ Len(q) \in Nat /\ Len(q) \in 1..Len(q) /\ q \in Seq(Frame) /\ Last(q).kind = "js"
        /\ q # <<>>
    <2>1. q \in Seq(Frame) /\ Len(q) > 1 /\ Last(q).kind = "js"
      BY DEF InScript
    <2> QED BY <2>1, InScriptFacts, EmptySeq
  <1>2. g \in Frame /\ g.kind = "js" /\ g.call = Last(q).call
    BY DEF IsJs
  <1>3. IsReplaced(q, Len(q), g, stack')
    BY <1>1, <1>2, Replaced
  <1>4. Same(q, stack')
    BY <1>1, <1>2, <1>3, ReplacedAlike
  <1>5. NoRethrow(stack')
    <2>1. SUFFICES ASSUME NEW i \in DOMAIN stack', Rethrows(stack', i) PROVE FALSE
      BY DEF NoRethrow
    <2>2. i \in 1..Len(q) /\ DOMAIN q = 1..Len(q)
      BY <1>1, <1>3 DEF IsReplaced
    <2>3. i # Len(q)
      BY <1>2, <1>3, <2>1 DEF IsReplaced, Rethrows
    <2>4. stack'[i] = q[i]
      BY <1>3, <2>2, <2>3 DEF IsReplaced
    <2> QED BY <2>1, <2>2, <2>4 DEF InScript, NoRethrow, Rethrows
  <1> QED BY <1>1, <1>4, <1>5, SameFrames DEF InScript, Same

\* Where the innermost handler is for a script on top of q.
LEMMA InnermostForScript ==
  ASSUME NEW q, InScript(q)
  PROVE  /\ Last(q).handler # "none" => Innermost(q) = <<Len(q), 0>>
         /\ Last(q).handler = "none" => Innermost(q) = Innermost(Front(q))
         /\ Last(q).handler = "none" /\ Last(q).call = "task" => Innermost(q) = <<Len(q) - 1, 0>>
  <1>1. /\ Last(q) = q[Len(q)] /\ Len(q) \in Nat /\ Len(q) > 1 /\ Last(q).kind = "js" /\ q \in Seq(Frame)
        /\ CalledFrom(q, Len(q))
    BY InScriptFacts DEF InScript
  <1>2. ASSUME Last(q).handler # "none" PROVE Innermost(q) = <<Len(q), 0>>
    <2>1. IsNearest(q, Len(q))
      BY <1>1, <1>2 DEF IsNearest, Catches
    <2>2. Len(q) \in 0..Len(q)
      BY <1>1
    <2>3. Spot(q, Len(q)) = <<Len(q), 0>>
      BY <1>1 DEF Spot
    <2> QED BY <1>1, <2>1, <2>2, <2>3, InnermostIs
  <1>3. ASSUME Last(q).handler = "none" PROVE Innermost(q) = Innermost(Front(q)) /\ ~Catches(Last(q))
    <2>1. ~Catches(Last(q))
      BY <1>1, <1>3 DEF Catches
    <2> QED BY <1>1, <2>1, PoppedNearest
  <1>4. ASSUME Last(q).handler = "none", Last(q).call = "task" PROVE Innermost(q) = <<Len(q) - 1, 0>>
    <2> DEFINE n == Len(q) - 1
    <2>1. n \in Nat /\ n \in 0..Len(q) /\ n > 0
      BY <1>1
    <2>2. q[n].kind = "tasks"
      BY <1>1, <1>4 DEF CalledFrom
    <2>3. ASSUME NEW k \in 1..Len(q), k > n PROVE ~Catches(q[k])
      <3>1. k = Len(q)
        BY <1>1, <2>3
      <3> QED BY <1>1, <1>3, <1>4, <3>1
    <2> HIDE DEF n
    <2>4. IsNearest(q, n)
      BY <2>1, <2>2, <2>3 DEF IsNearest, Catches
    <2>5. Spot(q, n) = <<n, 0>>
      BY <2>2 DEF Spot
    <2> QED BY <1>1, <2>1, <2>4, <2>5, InnermostIs DEF n
  <1> QED BY <1>2, <1>3, <1>4

LEMMA PlusMinusOne == \A n \in Int : n - 1 = 2 => n = 3
  OBVIOUS

\* What calls a script: the frames below it, rest, and its innermost handler.
LEMMA Callers ==
  ASSUME NEW q, InScript(q), Last(q).call # "task", NEW r, r = Front(q), NEW n, n = Len(r)
  PROVE  /\ r[n].kind = "cpp" /\ Last(r) = r[n] /\ r[n].tries \in Seq(Trying)
         /\ n > 1 => r[n - 1].kind = "js" \/ (n = 3 /\ r[n - 1].kind = "fire" /\ r[n].tries # <<>>)
         /\ \A i \in 2..n : r[i].kind = "cpp" => r[i - 1].kind \in {"js", "fire"}
         /\ \A i \in 1..n : r[i].kind = "fire" => i = 2
  <1>1. /\ Last(q) = q[Len(q)] /\ Len(q) \in Nat /\ Len(q) > 1 /\ Last(q).kind = "js" /\ q \in Seq(Frame)
        /\ CalledFrom(q, Len(q)) /\ Stacked(q) /\ Stacked(r) /\ r \in Seq(Frame)
    BY InScriptFacts DEF InScript
  <1>2. n = Len(q) - 1 /\ n \in Nat \ {0} /\ \A i \in 1..n : r[i] = q[i]
    BY InScriptFacts
  <1>3. Last(r) = r[n]
    BY DEF Last
  <1>4. q[n].kind = "cpp" /\ (n > 1 /\ q[n - 1].kind = "fire" => q[n].tries # <<>>)
    <2>1. Len(q) - 1 = n /\ Len(q) - 2 = n - 1 /\ (n > 1 => Len(q) > 2)
      BY <1>1, <1>2
    <2> QED BY <1>1, <2>1 DEF CalledFrom
  <1>5. n \in 1..n /\ (n > 1 => n - 1 \in 1..n /\ n \in 2..n)
    BY <1>2
  <1>6. r[n] = q[n] /\ r[n] \in Frame /\ (n > 1 => r[n - 1] = q[n - 1])
    BY <1>1, <1>2, <1>5
  <1>7. \A i \in 2..n : r[i].kind = "cpp" => r[i - 1].kind \in {"js", "fire"}
    BY <1>1 DEF Stacked, CalledFrom
  <1>8. ASSUME NEW i \in 1..n, r[i].kind = "fire" PROVE i = 2
    <2>1. i # 1
      BY <1>1, <1>8 DEF Stacked
    <2>2. i \in 2..Len(r)
      BY <1>2, <2>1
    <2> QED BY <1>1, <1>8, <2>2 DEF Stacked, CalledFrom
  <1>9. n > 1 => r[n - 1].kind = "js" \/ (n = 3 /\ r[n - 1].kind = "fire" /\ r[n].tries # <<>>)
    <2>1. SUFFICES ASSUME n > 1, r[n - 1].kind # "js"
                   PROVE  n = 3 /\ r[n - 1].kind = "fire" /\ r[n].tries # <<>>
      OBVIOUS
    <2>2. r[n - 1].kind = "fire"
      BY <1>4, <1>5, <1>6, <1>7, <2>1
    <2>3. n - 1 = 2
      BY <1>5, <1>8, <2>1, <2>2
    <2>4. n = 3
      <3>1. n \in Int
        BY <1>2
      <3> QED BY <2>3, <3>1, PlusMinusOne
    <2>5. q[n - 1].kind = "fire"
      BY <1>6, <2>1, <2>2
    <2>6. r[n].tries # <<>>
      BY <1>4, <1>6, <2>1, <2>5
    <2> QED BY <2>2, <2>4, <2>6
  <1> QED BY <1>3, <1>4, <1>6, <1>7, <1>8, <1>9, FrameIs

\* The script does not catch the exception e: its call ends, and the exception too or it is in
\* flight to the script below.
LEMMA UnwindLeaves ==
  ASSUME NEW q, InScript(q), Last(q).call # "task", Last(q).handler = "none",
         NEW e \in Exceptions, NEW for, for = Innermost(q), astray = {}, microtasks \in Nat,
         bound = [x \in Exceptions |-> bound[x]],
         \A x \in Exceptions \ {e} : bound[x] = "none",
         OptionalRescheduleException(Front(q), e, for, depth - 1 = 0),
         EXCEPTION_BAILOUT_CHECK(Propagate(Front(q), e), Last(q).call)
  PROVE  UnwindFacts
  <1> DEFINE r == Front(q)
             n == Len(r)
             s == Propagate(r, e)
             h == Innermost(r)
  <1>1. /\ r \in Seq(Frame) /\ r # <<>> /\ n \in Nat \ {0} /\ for = h
        /\ OptionalRescheduleException(r, e, for, depth - 1 = 0)
        /\ EXCEPTION_BAILOUT_CHECK(s, Last(q).call)
    BY InScriptFacts, InnermostForScript
  <1>2. IsAlike(r, s)
    BY <1>1, PropagateIs
  <1>3. /\ stack' \in Seq(Frame) /\ stack' # <<>> /\ Stacked(stack')
        /\ depth' = Cardinality(Calls(stack')) /\ DueIn(stack') /\ NoRethrow(stack')
        /\ depth - 1 = 0 <=> Len(s) = 1
        /\ depth - 1 # 0 => stack' = s
    BY <1>1, <1>2, CallEnds
  <1>4. /\ r[n].kind = "cpp" /\ Last(r) = r[n] /\ r[n].tries \in Seq(Trying)
        /\ n > 1 => r[n - 1].kind = "js" \/ (n = 3 /\ r[n - 1].kind = "fire" /\ r[n].tries # <<>>)
        /\ \A i \in 2..n : r[i].kind = "cpp" => r[i - 1].kind \in {"js", "fire"}
        /\ \A i \in 1..n : r[i].kind = "fire" => i = 2
    BY Callers
  <1>5. /\ Len(s) = n /\ s \in Seq(Frame) /\ Innermost(s) = h
        /\ \A i \in 1..n : s[i].kind = r[i].kind
        /\ Len(s[n].tries) = Len(r[n].tries)
    <2>1. Len(s) = n /\ s \in Seq(Frame) /\ \A i \in 1..n : s[i].kind = r[i].kind
      BY <1>2 DEF IsAlike, Same
    <2>2. n \in 1..n
      BY <1>1
    <2>3. Len(s[n].tries) = Len(r[n].tries)
      BY <1>2, <1>4, <2>2 DEF IsAlike
    <2> QED BY <1>1, <1>2, <2>1, <2>3, AlikeIs
  <1>6. PICK i \in 0..n : IsNearest(r, i)
    BY <1>1, NearestExists
  <1>7. h = Spot(r, i) /\ h[1] = i
    BY <1>1, <1>6, InnermostIs DEF Spot
  <1> DEFINE clear == \/ depth - 1 = 0
                      \/ /\ IsExternallyCaught(r)
                         /\ \A k \in (h[1] + 1)..n : r[k].kind \notin {"js", "tasks"}
  <1>8. CASE clear
    <2>1. scheduled' = "none" /\ Ends(e, for, Reached(r))
      BY <1>1, <1>8 DEF OptionalRescheduleException
    <2>2. i \in {0, n}
      <3>1. CASE depth - 1 = 0
        <4>1. n = 1
          BY <1>3, <1>5, <3>1
        <4> QED BY <1>6, <4>1
      <3>2. CASE depth - 1 # 0
        <4>1. IsExternallyCaught(r) /\ \A k \in (i + 1)..n : r[k].kind \notin {"js", "tasks"}
          BY <1>7, <1>8, <3>2
        <4>2. i > 0 /\ r[i].kind = "cpp"
          <5>1. h[2] > 0
            BY <4>1 DEF IsExternallyCaught
          <5> QED BY <1>6, <1>7, <5>1 DEF Spot
        <4>3. SUFFICES ASSUME i # n PROVE FALSE
          OBVIOUS
        <4>4. i \in Nat /\ n \in Nat /\ i < n /\ n > 1 /\ n - 1 \in 1..n
          BY <1>1, <1>6, <4>2, <4>3
        <4>5. CASE n - 1 = i
          BY <1>4, <4>2, <4>4, <4>5, Callers
        <4>6. CASE n - 1 # i
          <5>1. n - 1 \in (i + 1)..n
            BY <4>2, <4>4, <4>6
          <5>2. r[n].tries # <<>>
            BY <1>4, <4>1, <4>4, <5>1
          <5>3. Catches(r[n])
            BY <1>4, <5>2 DEF Catches
          <5>4. n \in 1..n /\ n > i
            BY <4>4
          <5> QED BY <1>6, <5>3, <5>4 DEF IsNearest
        <4> QED BY <4>5, <4>6
      <3> QED BY <3>1, <3>2
    <2>3. for = Reached(r)
      BY <1>1, <1>7, <2>2 DEF Reached
    <2>4. InFlight' /\ scheduled' \in Thrown /\ bound' = [x \in Exceptions |-> bound'[x]]
      BY <2>1, <2>3, EndsHere
    <2> QED BY <1>3, <2>4 DEF UnwindFacts
  <1>9. CASE ~clear
    <2>1. scheduled' = e /\ bound' = [bound EXCEPT ![e] = for] /\ astray' = astray
      BY <1>1, <1>9 DEF OptionalRescheduleException
    <2>2. depth - 1 # 0 /\ stack' = s
      BY <1>3, <1>9
    <2>3. n > 1
      BY <1>1, <1>3, <1>5, <2>2
    <2>4. r[n].tries = <<>>
      <3>1. SUFFICES ASSUME r[n].tries # <<>> PROVE FALSE
        OBVIOUS
      <3>2. Catches(r[n]) /\ Len(r[n].tries) > 0
        BY <1>4, <3>1, EmptySeq DEF Catches
      <3>3. i = n
        BY <1>1, <1>6, <3>2 DEF IsNearest
      <3>4. h = <<n, Len(r[n].tries)>>
        BY <1>1, <1>4, <1>7, <3>3 DEF Spot
      <3>5. IsExternallyCaught(r)
        BY <3>2, <3>4 DEF IsExternallyCaught
      <3>6. \A k \in (h[1] + 1)..n : FALSE
        BY <1>1, <1>7, <3>3
      <3> QED BY <1>9, <3>5, <3>6
    <2>5. r[n - 1].kind = "js"
      BY <1>4, <2>3, <2>4
    <2>6. s[n].kind = "cpp" /\ s[n].tries = <<>> /\ s[n - 1].kind = "js"
      <3>1. n \in 1..n /\ n - 1 \in 1..n
        BY <1>1, <2>3
      <3>2. s[n].kind = "cpp" /\ s[n - 1].kind = "js" /\ s[n] \in Frame
        BY <1>4, <1>5, <2>5, <3>1
      <3>3. s[n].tries \in Seq(Trying) /\ Len(s[n].tries) = 0
        BY <1>5, <2>4, <3>2, FrameIs, EmptySeq
      <3> QED BY <3>2, <3>3, EmptySeq
    <2>7. bound'[e] = Innermost(stack') /\ \A x \in Exceptions \ {e} : bound'[x] = "none"
      BY <1>1, <1>5, <2>1, <2>2
    <2>8. top' = s[n] /\ below' = s[n - 1] /\ Len(stack') > 1
      BY <1>5, <2>2, <2>3 DEF top, below, Last
    <2>9. InFlight'
      BY <2>1, <2>6, <2>7, <2>8 DEF InFlight, Running
    <2>10. scheduled' \in Thrown /\ bound' = [x \in Exceptions |-> bound'[x]]
      BY <2>1 DEF Thrown
    <2> QED BY <1>3, <2>9, <2>10 DEF UnwindFacts
  <1> QED BY <1>8, <1>9

\* The loop over the microtasks catches what its task throws.
LEMMA UnwindTask ==
  ASSUME NEW q, InScript(q), Last(q).call = "task", stack' = Front(q), UNCHANGED depth
  PROVE  /\ stack' \in Seq(Frame) /\ stack' # <<>> /\ Stacked(stack') /\ depth' = Cardinality(Calls(stack'))
         /\ NoRethrow(stack') /\ DueIn(stack')
  <1>1. /\ Last(q) = q[Len(q)] /\ Len(q) \in Nat /\ CalledFrom(q, Len(q)) /\ IsPop(q, Front(q))
        /\ Front(q) \in Seq(Frame) /\ Front(q) # <<>> /\ Stacked(Front(q)) /\ NoRethrow(Front(q))
    BY InScriptFacts
  <1>2. q[Len(q)].kind = "js" /\ Len(q) > 1 /\ Stacked(q) /\ DueIn(q) /\ depth = Cardinality(Calls(q))
    BY <1>1 DEF InScript
  <1>3. q[Len(q) - 1].kind = "tasks"
    BY <1>1, <1>2 DEF CalledFrom
  <1>4. Len(q) > 2
    <2>1. Len(q) # 2
      BY <1>2, <1>3 DEF Stacked
    <2>2. \A n \in Nat : n > 1 /\ n # 2 => n > 2
      OBVIOUS
    <2> HIDE DEF InScript
    <2> QED BY <1>1, <1>2, <2>1, <2>2, Zenon
  <1>5. DueIn(Front(q))
    BY <1>1, <1>2, <1>4 DEF IsPop
  <1>6. ~IsCall(Last(q))
    BY <1>1, <1>2 DEF IsCall
  <1>7. depth = Cardinality(Calls(Front(q)))
    BY <1>1, <1>2, <1>6 DEF IsPop
  <1> QED BY <1>1, <1>5, <1>7

\* In each of the four cases the exception ends where it is bound for, or it is in flight.
LEMMA UnwindIs ==
  ASSUME NEW q, InScript(q), NEW e \in Exceptions, NEW for, for = Innermost(q), astray = {},
         microtasks \in Nat, bound = [x \in Exceptions |-> bound[x]],
         \A x \in Exceptions \ {e} : bound[x] = "none",
         Unwind(q, e, for)
  PROVE  UnwindFacts
  <1> DEFINE js == Last(q)
             n  == Len(q)
  <1>1. js = q[n] /\ js \in Frame /\ js.kind = "js" /\ q \in Seq(Frame) /\ n \in Nat
        /\ js.handler \in {"none", "catch", "finally"}
    BY InScriptFacts, FrameIs DEF InScript
  <1>2. ASSUME js.handler = "catch" PROVE UnwindFacts
    <2>1. stack' = [q EXCEPT ![n].handler = "none"] /\ Ends(e, for, <<n, 0>>) /\ scheduled' = "none" /\ UNCHANGED depth
      BY <1>2 DEF Unwind
    <2> DEFINE g == [js EXCEPT !.handler = "none"]
    <2>2. stack' = [q EXCEPT ![n] = g]
      BY <1>1, <2>1
    <2>3. IsJs(js, "none", js.held, g) /\ js.held \in Thrown
      BY <1>1, JsIs, FrameIs
    <2>4. for = <<n, 0>>
      BY <1>2, InnermostForScript
    <2>5. InFlight' /\ scheduled' \in Thrown /\ bound' = [x \in Exceptions |-> bound'[x]]
      BY <2>1, <2>4, EndsHere
    <2> HIDE DEF g
    <2>6. /\ stack' \in Seq(Frame) /\ stack' # <<>> /\ Stacked(stack') /\ depth' = Cardinality(Calls(stack'))
          /\ NoRethrow(stack') /\ DueIn(stack')
      BY <2>1, <2>2, <2>3, UnwindHandled
    <2> QED BY <2>5, <2>6 DEF UnwindFacts
  <1>3. ASSUME js.handler = "finally" PROVE UnwindFacts
    <2>1. /\ stack' = [q EXCEPT ![n].handler = "none", ![n].held = e]
          /\ Ends(e, for, <<n, 0>>) /\ scheduled' = "none" /\ UNCHANGED depth
      BY <1>3 DEF Unwind
    <2> DEFINE g == [js EXCEPT !.handler = "none", !.held = e]
    <2>2. stack' = [q EXCEPT ![n] = g]
      BY <1>1, <2>1
    <2>3. e \in Thrown
      BY DEF Thrown
    <2>4. IsJs(js, "none", e, g)
      BY <1>1, <2>3, JsIs
    <2>5. for = <<n, 0>>
      BY <1>3, InnermostForScript
    <2>6. InFlight' /\ scheduled' \in Thrown /\ bound' = [x \in Exceptions |-> bound'[x]]
      BY <2>1, <2>5, EndsHere
    <2> HIDE DEF g
    <2>7. /\ stack' \in Seq(Frame) /\ stack' # <<>> /\ Stacked(stack') /\ depth' = Cardinality(Calls(stack'))
          /\ NoRethrow(stack') /\ DueIn(stack')
      BY <2>1, <2>2, <2>3, <2>4, UnwindHandled
    <2> QED BY <2>6, <2>7 DEF UnwindFacts
  <1>4. ASSUME js.handler = "none", js.call = "task" PROVE UnwindFacts
    <2>1. stack' = Front(q) /\ Ends(e, for, <<n - 1, 0>>) /\ scheduled' = "none" /\ UNCHANGED depth
      BY <1>4 DEF Unwind
    <2>2. for = <<n - 1, 0>>
      BY <1>4, InnermostForScript
    <2>3. InFlight' /\ scheduled' \in Thrown /\ bound' = [x \in Exceptions |-> bound'[x]]
      BY <2>1, <2>2, EndsHere
    <2>4. /\ stack' \in Seq(Frame) /\ stack' # <<>> /\ Stacked(stack') /\ depth' = Cardinality(Calls(stack'))
          /\ NoRethrow(stack') /\ DueIn(stack')
      BY <1>4, <2>1, UnwindTask
    <2> QED BY <2>3, <2>4 DEF UnwindFacts
  <1>5. ASSUME js.handler = "none", js.call # "task" PROVE UnwindFacts
    <2>1. /\ OptionalRescheduleException(Front(q), e, for, depth - 1 = 0)
          /\ EXCEPTION_BAILOUT_CHECK(Propagate(Front(q), e), js.call)
      BY <1>5 DEF Unwind
    <2> QED BY <1>5, <2>1, UnwindLeaves
  <1> QED BY <1>1, <1>2, <1>3, <1>4, <1>5

\* The script on top of the stack, as it throws.
LEMMA ThrowsInScript ==
  ASSUME EmbInv, Running("js"), NEW q, q = [stack EXCEPT ![Len(stack)].held = "none"]
  PROVE  /\ InScript(q) /\ Innermost(q) = Innermost(stack)
         /\ \A x \in Exceptions : bound[x] = "none"
         /\ astray = {} /\ bound = [x \in Exceptions |-> bound[x]] /\ microtasks \in Nat
  <1>1. /\ stack \in Seq(Frame) /\ stack # <<>> /\ Len(stack) \in Nat \ {0} /\ top \in Frame
        /\ top = stack[Len(stack)] /\ scheduled = "none" /\ NoRethrow(stack)
        /\ Len(stack) \in 1..Len(stack) /\ microtasks \in Nat /\ top.kind = "js"
    BY Calm DEF Running
  <1> DEFINE g == [top EXCEPT !.held = "none"]
  <1>2. q = [stack EXCEPT ![Len(stack)] = g]
    BY <1>1
  <1>3. IsJs(top, top.handler, "none", g)
    BY <1>1, JsIs DEF Thrown
  <1> HIDE DEF g
  <1>4. g \in Frame /\ g.kind = "js" /\ g.call = top.call /\ g.handler = top.handler
    BY <1>3 DEF IsJs
  <1>5. IsReplaced(stack, Len(stack), g, q)
    <2>1. IsReplaced(stack, Len(stack), g, [stack EXCEPT ![Len(stack)] = g])
      BY <1>1, <1>4, Replaced
    <2> QED BY <1>2, <2>1, Zenon
  <1>6. IsAlike(stack, q) /\ Same(stack, q)
    <2>1. Catches(g) <=> Catches(stack[Len(stack)])
      BY <1>1, <1>4 DEF Catches
    <2>2. Rethrows(q, Len(stack)) <=> Rethrows(stack, Len(stack))
      BY <1>1, <1>4, <1>5 DEF Rethrows, IsReplaced
    <2> QED BY <1>1, <1>4, <1>5, <2>1, <2>2, ReplacedAlike
  <1>7. Innermost(q) = Innermost(stack) /\ NoRethrow(q)
    BY <1>1, <1>6, AlikeIs
  <1>8. Len(q) = Len(stack) /\ q \in Seq(Frame) /\ q # <<>> /\ Stacked(q) /\ Calls(q) = Calls(stack) /\ DueIn(q)
    BY <1>1, <1>6, SameFrames DEF EmbInv, Same
  <1>9. Last(q).kind = "js"
    BY <1>4, <1>5, <1>8 DEF IsReplaced, Last
  <1>10. Len(stack) > 1
    <2>1. Len(stack) # 1
      BY <1>1 DEF EmbInv, Stacked
    <2> QED BY <1>1, <2>1
  <1>11. InScript(q)
    BY <1>7, <1>8, <1>9, <1>10 DEF InScript, EmbInv
  <1>12. (\A x \in Exceptions : bound[x] = "none") /\ astray = {} /\ bound = [x \in Exceptions |-> bound[x]]
    BY <1>1, ExceptionsAssumption DEF EmbInv, InFlight, EmbeddingType
  <1> QED BY <1>1, <1>7, <1>11, <1>12

LEMMA UnwindStep ==
  ASSUME EmbInv, UnwindFacts, UNCHANGED <<microtasks, callbacks, autorun, due>>
  PROVE  EmbInv'
  <1>1. callbacks' \in Seq(Callbacks) /\ IsInjective(callbacks')
    BY DEF EmbInv, EmbeddingType
  <1> QED BY <1>1, ThrowingStep DEF UnwindFacts

LEMMA ThrowStep ==
  ASSUME EmbInv, Throw
  PROVE  EmbInv'
  <1> DEFINE q == [stack EXCEPT ![Len(stack)].held = "none"]
  <1>1. PICK e \in Exceptions : Unwind(q, e, Innermost(stack))
    BY DEF Throw
  <1>2. Running("js") /\ UNCHANGED <<microtasks, callbacks, autorun, due>>
    BY DEF Throw
  <1>3. /\ InScript(q) /\ Innermost(q) = Innermost(stack)
        /\ \A x \in Exceptions : bound[x] = "none"
        /\ astray = {} /\ bound = [x \in Exceptions |-> bound[x]] /\ microtasks \in Nat
    BY <1>2, ThrowsInScript
  <1> HIDE DEF q
  <1>4. UnwindFacts
    BY <1>1, <1>3, UnwindIs
  <1> QED BY <1>2, <1>4, UnwindStep

LEMMA EndFinallyStep ==
  ASSUME EmbInv, EndFinally
  PROVE  EmbInv'
  <1> DEFINE q == [stack EXCEPT ![Len(stack)].held = "none"]
             e == top.held
  <1>1. /\ Running("js") /\ e # "none" /\ Unwind(q, e, Innermost(stack))
        /\ UNCHANGED <<microtasks, callbacks, autorun, due>>
    BY DEF EndFinally
  <1>2. /\ InScript(q) /\ Innermost(q) = Innermost(stack)
        /\ \A x \in Exceptions : bound[x] = "none"
        /\ astray = {} /\ bound = [x \in Exceptions |-> bound[x]] /\ microtasks \in Nat
    BY <1>1, ThrowsInScript
  <1>3. e \in Exceptions
    <2>1. top \in Frame /\ top.kind = "js"
      BY <1>1, Calm DEF Running
    <2> QED BY <1>1, <2>1, FrameIs DEF Thrown
  <1> HIDE DEF q, e
  <1>4. UnwindFacts
    BY <1>1, <1>2, <1>3, UnwindIs
  <1> QED BY <1>1, <1>4, UnwindStep

\* A frame whose work is done is gone.
LEMMA PopStep ==
  ASSUME EmbInv, scheduled = "none", NoRethrow(stack), Len(stack) > 1, stack' = Front(stack),
         depth' = IF IsCall(top) THEN depth - 1 ELSE depth,
         UNCHANGED <<scheduled, microtasks, callbacks, autorun, bound, astray, due>>,
         DueIn(Front(stack))
  PROVE  EmbInv'
  <1>1. /\ stack \in Seq(Frame) /\ top = Last(stack) /\ microtasks \in Nat /\ due \in BOOLEAN
        /\ Len(stack) \in Nat /\ DOMAIN stack = 1..Len(stack)
    BY Calm
  <1>2. IsPop(stack, stack')
    BY <1>1, Popped
  <1>3. stack' \in Seq(Frame) /\ stack' # <<>> /\ Stacked(stack') /\ Len(stack') = Len(stack) - 1
    BY <1>2 DEF IsPop, EmbInv
  <1>4. depth' = Cardinality(Calls(stack'))
    <2>1. Cardinality(Calls(stack')) \in Nat
          /\ depth = Cardinality(Calls(stack')) + IF IsCall(top) THEN 1 ELSE 0
      BY <1>1, <1>2 DEF IsPop, EmbInv
    <2> QED BY <2>1
  <1>5. NoRethrow(stack')
    <2>1. \A i \in 1..Len(stack) - 1 : Rethrows(stack', i) <=> Rethrows(stack, i)
      BY <1>1, PoppedNearest
    <2>2. DOMAIN stack' = 1..Len(stack) - 1 /\ 1..Len(stack) - 1 \subseteq DOMAIN stack
      BY <1>1, <1>3
    <2> QED BY <2>1, <2>2 DEF NoRethrow
  <1>6. DueIn(stack)'
    BY DEF DueIn
  <1>7. callbacks' \in Seq(Callbacks) /\ IsInjective(callbacks')
    BY DEF EmbInv, EmbeddingType
  <1> QED BY <1>1, <1>3, <1>4, <1>5, <1>6, <1>7, QuietStep

\* What the frame on top, if it is not the embedder's own, has below it.
LEMMA AboveTheFirst ==
  ASSUME EmbInv
  PROVE  /\ ~Running("cpp") => Len(stack) > 1
         /\ Len(stack) > 1 => /\ CalledFrom(stack, Len(stack))
                              /\ below = stack[Len(stack) - 1]
                              /\ Len(stack) = 2 => below.kind = "cpp"
  <1>1. Len(stack) \in Nat \ {0} /\ top = stack[Len(stack)] /\ stack[1].kind = "cpp" /\ Stacked(stack)
    BY Calm DEF EmbInv, Stacked
  <1>2. ~Running("cpp") => Len(stack) > 1
    BY <1>1 DEF Running
  <1>3. Len(stack) > 1 => CalledFrom(stack, Len(stack))
    BY <1>1 DEF Stacked
  <1>4. Len(stack) = 2 => below.kind = "cpp"
    BY <1>1 DEF below
  <1> QED BY <1>2, <1>3, <1>4 DEF below

LEMMA EndMicrotasksStep ==
  ASSUME EmbInv, EndMicrotasks
  PROVE  EmbInv'
  <1>1. /\ Running("tasks") /\ ~microtask_pending /\ stack' = Front(stack)
        /\ depth' = IF top.call = "counted" THEN depth - 1 ELSE depth
        /\ UNCHANGED <<scheduled, microtasks, callbacks, autorun, bound, astray, due>>
    BY DEF EndMicrotasks
  <1>2. scheduled = "none" /\ NoRethrow(stack) /\ Len(stack) > 1
    BY <1>1, Calm, AboveTheFirst DEF Running
  <1>3. IsCall(top) <=> top.call = "counted"
    BY <1>1 DEF IsCall, Running
  <1>4. DueIn(Front(stack))
    BY <1>1 DEF DueIn, microtask_pending, EmbInv
  <1> QED BY <1>1, <1>2, <1>3, <1>4, PopStep

LEMMA NextCallbackStep ==
  ASSUME EmbInv, NextCallback
  PROVE  EmbInv'
  <1>1. Running("fire") /\ UNCHANGED <<scheduled, microtasks, callbacks, autorun, bound, astray, due>>
    BY DEF NextCallback
  <1>2. /\ scheduled = "none" /\ NoRethrow(stack) /\ Len(stack) > 1 /\ stack \in Seq(Frame) /\ stack # <<>>
        /\ Len(stack) \in Nat \ {0} /\ top \in Frame /\ top = stack[Len(stack)] /\ top.kind = "fire"
    BY <1>1, Calm, AboveTheFirst DEF Running
  <1>3. CASE top.next <= Len(callbacks)
    <2> DEFINE f == [top EXCEPT !.next = @ + 1]
               t == [stack EXCEPT ![Len(stack)] = f]
    <2>1. stack' = Append(t, Cpp) /\ UNCHANGED depth
      BY <1>2, <1>1, <1>3 DEF NextCallback
    <2>2. f \in Frame /\ f.kind = "fire"
      <3>1. top \in FireFrame
        BY <1>2, FrameIs
      <3>2. f \in FireFrame /\ f.kind = "fire"
        BY <3>1 DEF FireFrame
      <3> QED BY <3>2 DEF Frame
    <2> HIDE DEF f
    <2>3. Same(stack, t) /\ NoRethrow(t)
      BY <1>2, <2>2, TopSame
    <2> HIDE DEF t
    <2>4. Cpp \in Frame /\ Cpp.kind = "cpp" /\ Cpp.tries = <<>>
      BY NewFrames
    <2>5. t \in Seq(Frame) /\ t # <<>> /\ Len(t) = Len(stack) /\ t[Len(stack)].kind = "fire"
      <3>1. Len(stack) \in 1..Len(stack)
        BY <1>2
      <3> QED BY <1>2, <2>3, <3>1, SameFrames DEF Same
    <2> DEFINE u == Append(t, Cpp)
    <2>6. IsPush(t, Cpp, u)
      BY <2>4, <2>5, Pushed
    <2> HIDE DEF u
    <2>7. CalledFrom(u, Len(stack) + 1)
      <3>1. (Len(stack) + 1) - 1 = Len(stack)
        BY <1>2
      <3>2. u[Len(stack) + 1] = Cpp /\ u[(Len(stack) + 1) - 1].kind = "fire"
        BY <1>2, <2>5, <2>6, <3>1 DEF IsPush
      <3> QED BY <2>4, <3>2 DEF CalledFrom
    <2>8. ~IsCall(Cpp)
      BY <2>4 DEF IsCall
    <2> QED BY <1>1, <1>2, <2>1, <2>3, <2>4, <2>7, <2>8, CallStep DEF u
  <1>4. CASE ~(top.next <= Len(callbacks))
    <2>1. stack' = Front(stack) /\ depth' = depth - 1
      BY <1>1, <1>4 DEF NextCallback
    <2>2. IsCall(top)
      BY <1>2 DEF IsCall
    <2>3. Len(stack) = 2
      BY <1>2, AboveTheFirst DEF CalledFrom
    <2>4. ~(autorun /\ due)
      BY <1>2, <2>3 DEF EmbInv, DueIn
    <2>5. DueIn(Front(stack))
      BY <2>4 DEF DueIn
    <2> QED BY <1>1, <1>2, <2>1, <2>2, <2>5, PopStep
  <1> QED BY <1>3, <1>4

LEMMA ReturnFromScriptStep ==
  ASSUME EmbInv, ReturnFromScript
  PROVE  EmbInv'
  <1>1. Running("js") /\ UNCHANGED <<scheduled, microtasks, callbacks, autorun, bound, astray, due>>
    BY DEF ReturnFromScript
  <1>2. /\ scheduled = "none" /\ NoRethrow(stack) /\ Len(stack) > 1 /\ stack \in Seq(Frame)
        /\ Last(stack) = top /\ top.kind = "js" /\ microtasks \in Nat /\ due \in BOOLEAN
    BY <1>1, Calm, AboveTheFirst DEF Running
  <1>3. InScript(stack)
    BY <1>2 DEF InScript, EmbInv
  <1>4. callbacks' \in Seq(Callbacks) /\ IsInjective(callbacks')
    BY <1>1 DEF EmbInv, EmbeddingType
  <1>5. /\ stack' \in Seq(Frame) /\ stack' # <<>> /\ Stacked(stack')
        /\ depth' = Cardinality(Calls(stack')) /\ DueIn(stack') /\ NoRethrow(stack')
    <2>1. CASE top.call = "task"
      <3>1. stack' = Front(stack) /\ UNCHANGED depth
        BY <2>1 DEF ReturnFromScript
      <3> QED BY <1>2, <1>3, <2>1, <3>1, UnwindTask
    <2>2. CASE top.call # "task"
      <3>1. EXCEPTION_BAILOUT_CHECK(Front(stack), top.call)
        BY <2>2 DEF ReturnFromScript
      <3>2. IsAlike(Front(stack), Front(stack))
        BY <1>3, InScriptFacts, SameIsSame DEF IsAlike
      <3> QED BY <1>2, <1>3, <2>2, <3>1, <3>2, CallEnds
    <2> QED BY <2>1, <2>2
  <1>6. DueIn(stack)'
    BY <1>1, <1>5 DEF DueIn
  <1> QED BY <1>1, <1>2, <1>4, <1>5, <1>6, QuietStep

\* Exception e is due to the script below: nothing of the embedder's frame catches it.
LEMMA ScheduledStep ==
  ASSUME EmbInv, NEW t, Same(stack, t), NoRethrow(t), Last(t).kind = "cpp", Last(t).tries = <<>>,
         Len(stack) > 1, below.kind = "js", scheduled = "none", NEW e \in Exceptions, ScheduleThrow(t, e),
         UNCHANGED <<depth, microtasks, callbacks, autorun, astray, due>>
  PROVE  EmbInv'
  <1> DEFINE n == Len(stack)
  <1>1. /\ stack \in Seq(Frame) /\ stack # <<>> /\ n \in Nat \ {0}
        /\ t \in Seq(Frame) /\ Len(t) = n /\ \A i \in 1..n : t[i].kind = stack[i].kind
    BY Calm DEF Same
  <1>2. t # <<>> /\ Stacked(t) /\ Calls(t) = Calls(stack) /\ DueIn(t)
    BY <1>1, SameFrames DEF EmbInv
  <1>3. stack' = Propagate(t, e) /\ scheduled' = e /\ bound' = [bound EXCEPT ![e] = Innermost(t)]
    BY DEF ScheduleThrow
  <1>4. IsAlike(t, stack')
    BY <1>1, <1>3, PropagateIs
  <1>5. /\ stack' \in Seq(Frame) /\ Len(stack') = n /\ Innermost(stack') = Innermost(t)
        /\ NoRethrow(stack') /\ Same(t, stack')
        /\ \A i \in 1..n : /\ stack'[i].kind = t[i].kind
                           /\ t[i].kind = "cpp" => Len(stack'[i].tries) = Len(t[i].tries)
    BY <1>1, <1>4, AlikeIs DEF IsAlike, Same
  <1>6. stack' # <<>> /\ Stacked(stack') /\ Calls(stack') = Calls(t) /\ DueIn(stack')
    BY <1>1, <1>2, <1>5, SameFrames
  <1>7. n > 1 /\ n \in 1..n /\ n - 1 \in 1..n
    BY <1>1
  <1>8. t[n].kind = "cpp" /\ t[n].tries = <<>>
    BY <1>1 DEF Last
  <1>9. stack'[n].kind = "cpp" /\ stack'[n].tries = <<>>
    <2>1. stack'[n] \in Frame /\ stack'[n].kind = "cpp" /\ Len(stack'[n].tries) = 0
      BY <1>5, <1>7, <1>8
    <2> QED BY <2>1, FrameIs, EmptySeq
  <1>10. stack'[n - 1].kind = "js"
    BY <1>1, <1>5, <1>7 DEF below
  <1>11. top' = stack'[n] /\ below' = stack'[n - 1] /\ Len(stack') > 1
    BY <1>5, <1>7 DEF top, below, Last
  <1>12. \A x \in Exceptions : bound[x] = "none"
    BY ExceptionsAssumption DEF EmbInv, InFlight
  <1>13. bound = [x \in Exceptions |-> bound[x]] /\ astray = {}
    BY DEF EmbInv, EmbeddingType, InFlight
  <1> HIDE DEF n
  <1>14. bound'[e] = Innermost(stack') /\ (\A x \in Exceptions \ {e} : bound'[x] = "none")
         /\ bound' = [x \in Exceptions |-> bound'[x]]
    BY <1>3, <1>5, <1>12, <1>13
  <1>15. InFlight'
    BY <1>3, <1>9, <1>10, <1>11, <1>13, <1>14 DEF InFlight, Running
  <1>16. callbacks' \in Seq(Callbacks) /\ IsInjective(callbacks') /\ scheduled' \in Thrown
    BY <1>3 DEF EmbInv, EmbeddingType, Thrown
  <1>17. depth' = Cardinality(Calls(stack'))
    BY <1>2, <1>6 DEF EmbInv
  <1> QED BY <1>5, <1>6, <1>14, <1>15, <1>16, <1>17, ThrowingStep

LEMMA ThrowExceptionStep ==
  ASSUME EmbInv, ThrowException
  PROVE  EmbInv'
  <1>1. /\ CanCall /\ top.tries = <<>> /\ Len(stack) > 1 /\ below.kind = "js"
        /\ UNCHANGED <<depth, microtasks, callbacks, autorun, astray, due>>
    BY DEF ThrowException
  <1>2. PICK e \in Exceptions : ScheduleThrow(stack, e)
    BY DEF ThrowException
  <1>3. scheduled = "none" /\ NoRethrow(stack) /\ stack \in Seq(Frame) /\ Last(stack) = top /\ top.kind = "cpp"
    BY <1>1, Calm DEF CanCall, Running
  <1>4. Same(stack, stack)
    BY <1>3, SameIsSame
  <1> QED BY <1>1, <1>2, <1>3, <1>4, ScheduledStep

\* A TryCatch that rethrows is the only one of its frame, above a script.
LEMMA DeleteTryCatchStep ==
  ASSUME EmbInv, DeleteTryCatch
  PROVE  EmbInv'
  <1> DEFINE n  == Len(stack)
             ts == Front(top.tries)
             f  == [top EXCEPT !.tries = ts]
             t  == [stack EXCEPT ![n] = f]
  <1>1. Running("cpp") /\ top.tries # <<>> /\ UNCHANGED <<depth, microtasks, callbacks, autorun, astray, due>>
    BY DEF DeleteTryCatch
  <1>2. /\ stack \in Seq(Frame) /\ stack # <<>> /\ n \in Nat \ {0} /\ n \in 1..n /\ DOMAIN stack = 1..n
        /\ top \in Frame /\ top = stack[n] /\ top.kind = "cpp" /\ top.tries \in Seq(Trying)
        /\ microtasks \in Nat /\ due \in BOOLEAN
    <2>1. top \in Frame /\ top.kind = "cpp"
      BY <1>1, Calm DEF Running
    <2>2. top.tries \in Seq(Trying)
      BY <2>1, FrameIs
    <2> QED BY <2>1, <2>2, Calm
  <1>3. Unregister(stack) = t
    BY <1>2 DEF Unregister
  <1>4. /\ ts \in Seq(Trying) /\ Len(ts) = Len(top.tries) - 1 /\ Len(top.tries) \in Nat \ {0}
        /\ Last(top.tries) = top.tries[Len(top.tries)] /\ Last(top.tries) \in Trying
        /\ \A j \in 1..Len(ts) : ts[j] = top.tries[j]
    <2>1. /\ ts \in Seq(Trying) /\ Len(ts) = Len(top.tries) - 1 /\ Len(top.tries) \in Nat \ {0}
          /\ \A j \in 1..Len(top.tries) - 1 : ts[j] = top.tries[j]
          /\ Last(top.tries) = top.tries[Len(top.tries)] /\ Last(top.tries) \in Trying
      BY <1>1, <1>2, FrontIs
    <2> HIDE DEF ts
    <2> QED BY <2>1
  <1> HIDE DEF ts
  <1>5. f \in Frame /\ f.kind = "cpp" /\ f.tries = ts
    BY <1>2, <1>4, CppIs
  <1> HIDE DEF f
  <1>6. scheduled = "none"
    BY <1>1 DEF EmbInv, InFlight
  <1>7. (\E j \in DOMAIN top.tries : top.tries[j].rethrow) =>
          n > 1 /\ below.kind = "js" /\ Len(top.tries) = 1 /\ top.tries[1].exception # "none"
    BY <1>2 DEF EmbInv, RethrowsLast, Rethrows, below
  <1>8. ASSUME NEW j \in 1..Len(ts) PROVE ~ts[j].rethrow
    <2>1. j \in DOMAIN top.tries /\ ts[j] = top.tries[j] /\ Len(top.tries) # 1
      BY <1>2, <1>4, <1>8
    <2> QED BY <1>7, <2>1
  <1>9. Same(stack, t) /\ NoRethrow(t)
    BY <1>2, <1>5, <1>8, TopSame
  <1>10. CASE Last(top.tries).rethrow
    <2> DEFINE e == Last(top.tries).exception
    <2>1. ScheduleThrow(t, e)
      BY <1>3, <1>10 DEF DeleteTryCatch
    <2>2. Len(top.tries) \in DOMAIN top.tries
      BY <1>2, <1>4
    <2>3. n > 1 /\ below.kind = "js" /\ Len(top.tries) = 1 /\ top.tries[1].exception # "none"
      BY <1>4, <1>7, <1>10, <2>2
    <2>4. e \in Exceptions
      BY <1>4, <2>3 DEF Trying, Thrown
    <2>5. Last(t).kind = "cpp" /\ Last(t).tries = <<>>
      <3>1. Len(t) = n /\ t[n] = f
        BY <1>2, <1>5
      <3>2. ts = <<>>
        BY <1>4, <2>3, EmptySeq
      <3> QED BY <1>5, <3>1, <3>2 DEF Last
    <2> HIDE DEF t, e
    <2> QED BY <1>1, <1>6, <1>9, <2>1, <2>3, <2>4, <2>5, ScheduledStep
  <1>11. CASE ~Last(top.tries).rethrow
    <2>1. stack' = t /\ UNCHANGED <<scheduled, bound>>
      BY <1>3, <1>11 DEF DeleteTryCatch
    <2> QED BY <1>1, <1>2, <1>5, <1>6, <1>8, <2>1, TopStep
  <1> QED BY <1>10, <1>11

\* A callback that owes an exception returns to the script that the exception is thrown in.
LEMMA ReturnFromCallbackStep ==
  ASSUME EmbInv, ReturnFromCallback
  PROVE  EmbInv'
  <1>1. /\ Running("cpp") /\ top.tries = <<>> /\ Len(stack) > 1
        /\ UNCHANGED <<microtasks, callbacks, autorun, due>>
    BY DEF ReturnFromCallback
  <1>2. /\ stack \in Seq(Frame) /\ stack # <<>> /\ Len(stack) \in Nat \ {0} /\ microtasks \in Nat
        /\ top = stack[Len(stack)] /\ top = Last(stack) /\ top.kind = "cpp" /\ DOMAIN stack = 1..Len(stack)
    BY <1>1, Calm DEF Running
  <1>3. NoRethrow(stack)
    <2>1. SUFFICES ASSUME NEW i \in DOMAIN stack, Rethrows(stack, i) PROVE FALSE
      BY DEF NoRethrow
    <2>2. i = Len(stack)
      BY <2>1 DEF EmbInv, RethrowsLast
    <2>3. stack[i].tries = <<>> /\ \E j \in DOMAIN stack[i].tries : stack[i].tries[j].rethrow
      BY <1>1, <1>2, <2>1, <2>2 DEF Rethrows
    <2>4. DOMAIN <<>> = {}
      OBVIOUS
    <2> QED BY <2>3, <2>4, Zenon
  <1>4. CalledFrom(stack, Len(stack)) /\ below = stack[Len(stack) - 1] /\ (Len(stack) = 2 => below.kind = "cpp")
    BY <1>1, AboveTheFirst
  <1>5. below.kind \in {"js", "fire"} /\ Len(stack) > 2
    <2>1. below.kind \in {"js", "fire"}
      BY <1>2, <1>4 DEF CalledFrom
    <2> QED BY <1>1, <1>2, <1>4, <2>1
  <1> DEFINE q == Front(stack)
  <1>6. IsPop(stack, q)
    BY <1>1, <1>2, Popped
  <1>7. DueIn(q)
    BY <1>2, <1>5, <1>6 DEF IsPop, EmbInv
  <1>8. ~IsCall(top)
    BY <1>2 DEF IsCall
  <1>9. CASE scheduled = "none"
    <2>1. stack' = q /\ UNCHANGED <<scheduled, depth, bound, astray>>
      BY <1>9 DEF ReturnFromCallback
    <2> QED BY <1>1, <1>3, <1>7, <1>8, <1>9, <2>1, PopStep
  <1>10. CASE scheduled # "none"
    <2>1. below.kind = "js" /\ Unwind(q, scheduled, bound[scheduled])
      BY <1>10 DEF ReturnFromCallback
    <2>2. bound[scheduled] = Innermost(stack) /\ scheduled \in Exceptions
      BY <1>10 DEF EmbInv, InFlight, EmbeddingType, Thrown
    <2>3. ~Catches(Last(stack))
      BY <1>1, <1>2 DEF Catches
    <2>4. Innermost(q) = Innermost(stack)
      BY <1>1, <1>2, <2>3, PoppedNearest
    <2>5. NoRethrow(q)
      <3>1. \A i \in 1..Len(stack) - 1 : Rethrows(q, i) <=> Rethrows(stack, i)
        BY <1>1, <1>2, PoppedNearest
      <3> HIDE DEF q
      <3>2. DOMAIN q = 1..Len(stack) - 1 /\ 1..Len(stack) - 1 \subseteq DOMAIN stack
        BY <1>2, <1>6 DEF IsPop
      <3> QED BY <1>3, <3>1, <3>2 DEF NoRethrow
    <2> HIDE DEF q
    <2>6. q \in Seq(Frame) /\ Len(q) > 1 /\ Stacked(q) /\ Last(q).kind = "js" /\ depth = Cardinality(Calls(q))
      <3>1. q \in Seq(Frame) /\ Stacked(q) /\ Last(q) = below /\ Len(q) = Len(stack) - 1
        BY <1>4, <1>6 DEF IsPop, EmbInv
      <3>2. depth = Cardinality(Calls(q))
        BY <1>2, <1>6, <1>8 DEF IsPop, EmbInv
      <3> QED BY <1>2, <1>5, <2>1, <3>1, <3>2
    <2>7. InScript(q)
      BY <1>7, <2>5, <2>6 DEF InScript
    <2>8. astray = {} /\ (bound = [x \in Exceptions |-> bound[x]])
          /\ (\A x \in Exceptions \ {scheduled} : bound[x] = "none")
      BY DEF EmbInv, InFlight, EmbeddingType
    <2>9. UnwindFacts
      BY <1>2, <2>1, <2>2, <2>4, <2>7, <2>8, UnwindIs
    <2> QED BY <1>1, <2>9, UnwindStep
  <1> QED BY <1>9, <1>10

\* Every step keeps the invariant.
LEMMA EmbInvKept == EmbInv /\ [EmbeddingNext]_embeddingVars => EmbInv'
  <1> SUFFICES ASSUME EmbInv, [EmbeddingNext]_embeddingVars PROVE EmbInv'
    OBVIOUS
  <1>1. CASE RunScript \/ CallFunction \/ CallObject \/ AccessProperty
    BY <1>1, EnterJavaScriptStep DEF RunScript, CallFunction, CallObject, AccessProperty
  <1>2. CASE NewTryCatch \/ ReThrow \/ Reset \/ DeleteTryCatch
    BY <1>2, NewTryCatchStep, ReThrowStep, ResetStep, DeleteTryCatchStep
  <1>3. CASE ThrowException \/ ReturnFromCallback \/ Throw \/ EndFinally
    BY <1>3, ThrowExceptionStep, ReturnFromCallbackStep, ThrowStep, EndFinallyStep
  <1>4. CASE AddCallCompletedCallback \/ RemoveCallCompletedCallback \/ NextCallback
    BY <1>4, AddCallCompletedCallbackStep, RemoveCallCompletedCallbackStep, NextCallbackStep
  <1>5. CASE EnterTry \/ CallEmbedder \/ ReturnFromScript
    BY <1>5, EnterTryStep, CallEmbedderStep, ReturnFromScriptStep
  <1>6. CASE RunMicrotasks \/ EnqueueMicrotask \/ Runtime_RunMicrotasks
    BY <1>6, RunMicrotasksStep, EnqueueMicrotaskStep, Runtime_RunMicrotasksStep
  <1>7. CASE TakeMicrotasks \/ RunMicrotask \/ EndMicrotasks
    BY <1>7, TakeMicrotasksStep, RunMicrotaskStep, EndMicrotasksStep
  <1>8. CASE UNCHANGED embeddingVars
    <2>1. stack' = stack /\ scheduled' = scheduled /\ depth' = depth /\ microtasks' = microtasks
          /\ callbacks' = callbacks /\ autorun' = autorun /\ bound' = bound /\ astray' = astray /\ due' = due
      BY <1>8 DEF embeddingVars
    <2>2. EmbeddingType'
      BY <2>1 DEF EmbInv, EmbeddingType
    <2>3. RethrowsLast'
      BY <2>1 DEF EmbInv, RethrowsLast
    <2>4. InFlight'
      BY <2>1 DEF EmbInv, InFlight, top, below, Running
    <2>5. DueIn(stack)'
      BY <2>1 DEF EmbInv, DueIn
    <2> QED BY <2>1, <2>2, <2>3, <2>4, <2>5 DEF EmbInv
  <1> QED BY <1>1, <1>2, <1>3, <1>4, <1>5, <1>6, <1>7, <1>8 DEF EmbeddingNext

\* Call-completed callbacks fire only when the outermost call of the embedder has ended, right above
\* its own frame and one after the other, for whatever callbacks are added and removed meanwhile; the
\* call depth of the API always counts the calls that are in progress, however they end; and the
\* microtasks that scripts queued have run when the embedder is back.
THEOREM CallbacksAlwaysWait == EmbeddingSpec => []CallbacksWaitForOutermost
  <1>1. EmbInv => CallbacksWaitForOutermost
    BY EmbeddingPromises
  <1> QED BY EmbeddingStarts, EmbInvKept, <1>1, PTL DEF EmbeddingSpec

\* Every exception ends at the handler that was innermost when it was thrown, a TryCatch of the
\* embedder, a catch or finally block or the loop over the microtasks, however often it crosses from
\* scripts to callbacks and back, is rethrown or is scheduled in a callback on its way.
THEOREM InnermostAlwaysCatches == EmbeddingSpec => []InnermostHandlerCatches
  <1>1. EmbInv => InnermostHandlerCatches
    BY EmbeddingPromises
  <1> QED BY EmbeddingStarts, EmbInvKept, <1>1, PTL DEF EmbeddingSpec
=============================================================================
