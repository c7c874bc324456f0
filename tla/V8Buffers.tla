------------------------------- MODULE V8Buffers ------------------------------
(***************************************************************************)
(* ArrayBuffers, typed arrays and DataViews (runtime.cc, api.cc): who owns *)
(* a buffer's memory, which views a buffer has, what neutering does to     *)
(* them, and the copying between views.                                    *)
(*                                                                         *)
(* A small typed array keeps its elements in the heap until someone asks   *)
(* for its buffer (JSTypedArray::GetBuffer, objects.cc, external).  The    *)
(* JavaScript around these functions (typedarray.js, arraybuffer.js)       *)
(* checks offsets and lengths first, and copies element by element what is *)
(* not copied here: it is external too.  Numbers are sequences of bytes,   *)
(* the least significant first.                                            *)
(***************************************************************************)
EXTENDS Integers, Sequences, FiniteSets, FiniteSetsExt, SequencesExt

CONSTANTS Bytes,       \* values of a byte, 0 and 1 among them
          MaxBytes,    \* bound on the memory allocated
          MaxBuffers, MaxViews,
          MaxCalls     \* bound on the calls

ASSUME BytesAssumption == {0, 1} \subseteq Bytes /\ MaxBytes \in Nat

VARIABLES buffers,  \* JSArrayBuffers
          stores,   \* blocks of memory, and who has to free them
          views,    \* JSTypedArrays and JSDataViews
          calls

bufferVars == <<buffers, stores, views, calls>>

Heap == 0  \* a view's buffer while it keeps its elements itself
NULL == 0  \* a buffer's store when it has none

Size == [u8 |-> 1, u16 |-> 2]
Kinds == DOMAIN Size
Zeros(n) == [i \in 1..n |-> 0]

Buffer(store, n, external) ==
  [store |-> store, length |-> n, is_external |-> external, views |-> <<>>, live |-> TRUE]
Store(bytes, owner) == [bytes |-> bytes, owner |-> owner]
View(kind, b, offset, n) ==
  [kind |-> kind, buffer |-> b, offset |-> offset, length |-> n, heap |-> <<>>, live |-> TRUE]

LiveBuffers == {b \in DOMAIN buffers : buffers[b].live}
LiveViews   == {v \in DOMAIN views : views[v].live}
TypedArrays == {v \in LiveViews : views[v].kind \in Kinds}

\* A view's bytes, in the heap or in its buffer's store.
BytesOf(m, v) ==
  LET view == m.views[v]
  IN IF view.buffer = Heap THEN view.heap
     ELSE [i \in 1..view.length |->
             m.stores[m.buffers[view.buffer].store].bytes[view.offset + i]]

Memory  == [buffers |-> buffers, stores |-> stores, views |-> views]
Become(m) == buffers' = m.buffers /\ stores' = m.stores /\ views' = m.views

\* The bytes of a view from the (start + 1)-th on replaced.
Written(m, v, start, bytes) ==
  LET view == m.views[v]
      Into(old, at) == [i \in DOMAIN old |->
                          IF i - at \in DOMAIN bytes THEN bytes[i - at] ELSE old[i]]
  IN IF bytes = <<>> THEN m
     ELSE IF view.buffer = Heap THEN [m EXCEPT !.views[v].heap = Into(@, start)]
     ELSE [m EXCEPT !.stores[m.buffers[view.buffer].store].bytes =
                      Into(@, view.offset + start)]

\* Element i, from 0, of a typed array, and numbers of one size as ones of another.
Element(m, v, i) ==
  LET size == Size[m.views[v].kind] IN SubSeq(BytesOf(m, v), i * size + 1, (i + 1) * size)
Count(m, v) == m.views[v].length \div Size[m.views[v].kind]
Converted(bytes, size) == [i \in 1..size |-> IF i \in DOMAIN bytes THEN bytes[i] ELSE 0]
-----------------------------------------------------------------------------
(* ArrayBuffers.                                                           *)

\* SetupArrayBufferAllocatingData; no memory is allocated for no bytes.
Allocated(m, bytes) ==
  [m EXCEPT !.stores  = IF bytes = <<>> THEN @ ELSE Append(@, Store(bytes, "v8")),
            !.buffers = Append(@, Buffer(IF bytes = <<>> THEN NULL ELSE Len(m.stores) + 1,
                                         Len(bytes), FALSE))]

\* Room for n new buffers with that many bytes.
Room(n, bytes) ==
  /\ Len(buffers) + n <= MaxBuffers
  /\ FoldLeft(LAMBDA k, s : k + Len(s.bytes), bytes, stores) <= MaxBytes

ArrayBufferInitialize(n) == Room(1, n) /\ Become(Allocated(Memory, Zeros(n)))

\* ArrayBuffer::New of the embedder's own memory, with what it left there.
NewExternal(n) ==
  /\ Room(1, n) /\ n > 0
  /\ stores' = Append(stores, Store(<<1>> \o Zeros(n - 1), "embedder"))
  /\ buffers' = Append(buffers, Buffer(Len(stores'), n, TRUE))
  /\ UNCHANGED views

\* A new buffer with a part of b's bytes.
ArrayBufferSliceImpl(b, start, n) ==
  /\ Room(1, n) /\ start + n <= buffers[b].length
  /\ Become(Allocated(Memory, IF n = 0 THEN <<>>
                              ELSE SubSeq(stores[buffers[b].store].bytes, start + 1, start + n)))

\* The embedder takes the memory over.
Externalize(b) ==
  /\ ~buffers[b].is_external
  /\ buffers' = [buffers EXCEPT ![b].is_external = TRUE]
  /\ stores' = IF buffers[b].store = NULL THEN stores
               ELSE [stores EXCEPT ![buffers[b].store].owner = "embedder"]
  /\ UNCHANGED views

\* Mutant: only the view that was added last is neutered.
NeuteredViewsFirst(b) ==
  [v \in DOMAIN views |-> IF buffers[b].views # <<>> /\ v = Head(buffers[b].views)
                          THEN [views[v] EXCEPT !.offset = 0, !.length = 0] ELSE views[v]]

NeuteredViews(b) ==
  [v \in DOMAIN views |-> IF v \in ToSet(buffers[b].views)
                          THEN [views[v] EXCEPT !.offset = 0, !.length = 0] ELSE views[v]]

\* ArrayBuffer::Neuter of external memory, and %ArrayBufferNeuter, which frees V8's.
NeuterArrayBuffer(b) ==
  /\ buffers[b].is_external \/ buffers[b].store # NULL
  /\ views' = NeuteredViews(b)
  /\ buffers' = [buffers EXCEPT ![b].store = NULL, ![b].length = 0, ![b].is_external = TRUE]
  /\ stores' = IF buffers[b].is_external THEN stores
               ELSE [stores EXCEPT ![buffers[b].store].owner = "freed"]

\* FreeArrayBuffer, when the collector finds a buffer dead, and its views with it.
FreeArrayBuffer(b) ==
  /\ buffers' = [buffers EXCEPT ![b].live = FALSE]
  /\ views' = [v \in DOMAIN views |-> [views[v] EXCEPT !.live = @ /\ views[v].buffer # b]]
  /\ stores' = IF buffers[b].is_external \/ buffers[b].store = NULL THEN stores
               ELSE [stores EXCEPT ![buffers[b].store].owner = "freed"]
-----------------------------------------------------------------------------
(* Views.                                                                  *)

\* A view's place in its buffer's list of weak references.
Linked(m, view) ==
  [m EXCEPT !.views = Append(@, view),
            !.buffers[view.buffer].views = <<Len(m.views) + 1>> \o @]

\* TypedArrayInitialize with a buffer, NewTypedArray of the embedder's.
TypedArrayInitialize(kind, b, offset, n) ==
  /\ offset % Size[kind] = 0 /\ n % Size[kind] = 0
  /\ offset + n <= buffers[b].length
  /\ Become(Linked(Memory, View(kind, b, offset, n)))

\* TypedArrayInitialize without one.
TypedArrayInHeap(kind, n) ==
  /\ n % Size[kind] = 0
  /\ views' = Append(views, [View(kind, Heap, 0, n) EXCEPT !.heap = Zeros(n)])
  /\ UNCHANGED <<buffers, stores>>

DataViewInitialize(b, offset, n) ==
  /\ offset + n <= buffers[b].length
  /\ Become(Linked(Memory, View("data", b, offset, n)))

\* JSTypedArray::GetBuffer: elements kept in the heap move to a buffer.
WithBuffer(m, v) ==
  IF m.views[v].buffer # Heap THEN m
  ELSE LET a == Allocated(m, m.views[v].heap)
           b == Len(a.buffers)
       IN [a EXCEPT !.views[v] = [@ EXCEPT !.buffer = b, !.heap = <<>>],
                    !.buffers[b].views = <<v>>]

InHeap(S) == {v \in S : views[v].buffer = Heap}

RoomFor(S) == Room(Cardinality(InHeap(S)), MapThenSumSet(LAMBDA v : views[v].length, InHeap(S)))

TypedArrayGetBuffer(v) == RoomFor({v}) /\ Become(WithBuffer(Memory, v))

\* A typed array made of another: its bytes if it is of the same type, else its elements.
ConvertedElements(m, v, kind) ==
  LET size == Size[kind]
  IN [k \in 1..Count(m, v) * size |->
        Converted(Element(m, v, (k - 1) \div size), size)[((k - 1) % size) + 1]]

TypedArrayInitializeFromArrayLike(kind, source) ==
  LET same  == views[source].kind = kind
      bytes == IF same THEN BytesOf(Memory, source) ELSE ConvertedElements(Memory, source, kind)
      m     == Allocated(IF same THEN WithBuffer(Memory, source) ELSE Memory, bytes)
  IN /\ Room(IF same /\ InHeap({source}) # {} THEN 2 ELSE 1,
             IF same /\ InHeap({source}) # {} THEN 2 * Len(bytes) ELSE Len(bytes))
     /\ Become(Linked(m, View(kind, Len(m.buffers), 0, Len(bytes))))
-----------------------------------------------------------------------------
(***************************************************************************)
(* set of a typed array: bytes are moved for the same type; else the       *)
(* answer, whether the two overlap, tells how the elements are copied.     *)
(***************************************************************************)
\* Mutant: only a source that begins within the target overlaps it.
OverlappingSource(source, target) ==
  /\ source.store = target.store /\ source.store # NULL
  /\ target.start <= source.start /\ target.start + target.length > source.start

Overlapping(source, target) ==
  /\ source.store = target.store /\ source.store # NULL
  /\ \/ source.start <= target.start /\ source.start + source.length > target.start
     \/ target.start <= source.start /\ target.start + target.length > source.start

Place(m, v) == [store  |-> m.buffers[m.views[v].buffer].store,
                start  |-> m.views[v].offset,
                length |-> m.views[v].length]

ElementByElement(m, target, source, offset) ==
  LET size == Size[m.views[target].kind]
      copied[i \in 0..Count(m, source)] ==
        IF i = 0 THEN m
        ELSE Written(copied[i - 1], target, (offset + i - 1) * size,
                     Converted(Element(copied[i - 1], source, i - 1), size))
  IN copied[Count(m, source)]

TypedArraySet(target, source, offset) ==
  /\ RoomFor({target, source})
  /\ offset + Count(Memory, source) <= Count(Memory, target)
  /\ LET m    == WithBuffer(WithBuffer(Memory, target), source)
         kind == views[target].kind
     IN Become(IF views[source].kind = kind
                 THEN Written(m, target, offset * Size[kind], BytesOf(m, source))
               ELSE IF Overlapping(Place(m, source), Place(m, target))
                 THEN Written(m, target, offset * Size[kind], ConvertedElements(m, source, kind))
               ELSE ElementByElement(m, target, source, offset))

\* A store of an element by the program.
StoreElement(v, i, bytes) ==
  /\ i < Count(Memory, v) /\ Len(bytes) = Size[views[v].kind]
  /\ Become(Written(Memory, v, i * Len(bytes), bytes))

DataViewInRange(v, offset, size) == offset + size <= views[v].length

DataViewSetValue(v, offset, bytes, is_little_endian) ==
  /\ DataViewInRange(v, offset, Len(bytes))
  /\ Become(Written(Memory, v, offset, IF is_little_endian THEN bytes ELSE Reverse(bytes)))

DataViewGetValue(v, offset, size, is_little_endian) ==
  LET bytes == SubSeq(BytesOf(Memory, v), offset + 1, offset + size)
  IN IF is_little_endian THEN bytes ELSE Reverse(bytes)
-----------------------------------------------------------------------------
BuffersInit == buffers = <<>> /\ stores = <<>> /\ views = <<>> /\ calls = 0

Scalars == UNION {[1..n -> Bytes] : n \in {1, 2}}

\* Lengths of new buffers: none, half of the memory and all of it.
Lengths == {0, MaxBytes \div 2, MaxBytes}

BuffersStep ==
  \/ \E n \in Lengths : ArrayBufferInitialize(n) \/ NewExternal(n)
  \/ \E b \in LiveBuffers :
       \/ \E start \in 0..MaxBytes, n \in Lengths : ArrayBufferSliceImpl(b, start, n)
       \/ Externalize(b) \/ NeuterArrayBuffer(b) \/ FreeArrayBuffer(b)
  \/ /\ Len(views) < MaxViews
     /\ \/ \E b \in LiveBuffers, offset \in 0..MaxBytes, n \in 1..MaxBytes :
             \/ \E kind \in Kinds : TypedArrayInitialize(kind, b, offset, n)
             \/ DataViewInitialize(b, offset, n)
        \/ \E kind \in Kinds, n \in Lengths : TypedArrayInHeap(kind, n)
        \/ \E kind \in Kinds, v \in TypedArrays : TypedArrayInitializeFromArrayLike(kind, v)
  \/ \E v \in TypedArrays :
       \/ TypedArrayGetBuffer(v)
       \/ \E w \in TypedArrays, offset \in 0..MaxBytes : TypedArraySet(v, w, offset)
       \/ \E i \in 0..MaxBytes - 1, number \in Scalars : StoreElement(v, i, number)
  \/ \E v \in LiveViews \ TypedArrays, offset \in 0..MaxBytes - 1, number \in Scalars,
        is_little_endian \in BOOLEAN : DataViewSetValue(v, offset, number, is_little_endian)

BuffersNext == calls < MaxCalls /\ calls' = calls + 1 /\ BuffersStep

BuffersSpec == BuffersInit /\ [][BuffersNext]_bufferVars
-----------------------------------------------------------------------------
\* Memory has one owner: V8 frees, once, what no live buffer of its own holds, and nothing
\* it handed to the embedder.  Every view is in its buffer's list, so that no view is left
\* that reaches beyond its buffer, a neutered one least of all.
ViewsStayWithinBuffers ==
  /\ \A s \in DOMAIN stores :
       LET holders == {b \in LiveBuffers : buffers[b].store = s}
       IN /\ Cardinality(holders) <= 1
          /\ (stores[s].owner = "v8") <=> (\E b \in holders : ~buffers[b].is_external)
          /\ stores[s].owner = "freed" => holders = {}
          /\ \A b \in holders : Len(stores[s].bytes) = buffers[b].length
  /\ \A v \in LiveViews :
       LET b == views[v].buffer
       IN IF b = Heap THEN Len(views[v].heap) = views[v].length
          ELSE /\ buffers[b].live
               /\ views[v].offset + views[v].length <= buffers[b].length
               /\ Cardinality({k \in DOMAIN buffers[b].views : buffers[b].views[k] = v}) = 1

\* Setting a typed array from another, whatever memory the two share, leaves in it the
\* elements the other had before, and what was written through a DataView in one byte
\* order is read back in it.
CopiesAreOfTheOld ==
  [][/\ \A v, w \in TypedArrays, offset \in 0..MaxBytes :
          TypedArraySet(v, w, offset) =>
            \A i \in 0..Count(Memory, v) - 1 :
              Element(Memory', v, i) =
                IF i - offset \in 0..Count(Memory, w) - 1
                THEN Converted(Element(Memory, w, i - offset), Size[views[v].kind])
                ELSE Element(Memory, v, i)
     /\ \A v \in LiveViews \ TypedArrays, offset \in 0..MaxBytes - 1, number \in Scalars,
           is_little_endian \in BOOLEAN :
          DataViewSetValue(v, offset, number, is_little_endian) =>
            number = DataViewGetValue(v, offset, Len(number), is_little_endian)'
    ]_bufferVars
=============================================================================
