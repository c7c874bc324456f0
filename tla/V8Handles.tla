------------------------------- MODULE V8Handles -------------------------------
(***************************************************************************)
(* The handles of an isolate (api.cc): each thread's stack of blocks, the  *)
(* scopes that give back what was created in them, the scopes whose        *)
(* handles are detached to outlive them, and the threads that are archived *)
(* with theirs while another runs.  What HandleScope, DeferredHandleScope  *)
(* and the implementer do in handles.cc and api.h is external.             *)
(***************************************************************************)
EXTENDS Integers, Sequences, FiniteSets, FiniteSetsExt, SequencesExt

CONSTANTS Threads,
          MaxBlocks, kHandleBlockSize,
          MaxScopes      \* bound on the scopes of all threads

ASSUME BlockAssumption == kHandleBlockSize \in Nat \ {0} /\ MaxBlocks \in Nat

\* Neither who holds the isolate when nobody does, nor who the detached handles belong to.
ASSUME ThreadAssumption == "none" \notin Threads /\ "detached" \notin Threads

\* The implementer and data of a thread; a position is a block and an offset in it.
VARIABLES active,    \* the thread that holds the isolate, or "none"
          impl,      \* its HandleScopeImplementer and HandleScopeData
          archived,  \* those of the other threads
          detached,  \* DeferredHandles: their blocks, the last one first, and its limit
          handles    \* the handles that live: the slot and the scope of each

handleVars == <<active, impl, archived, detached, handles>>

Null   == <<0, 0>>
Blocks == 1..MaxBlocks
Slots  == Blocks \X (0..(kHandleBlockSize - 1))

Start(block) == <<block, 0>>
Limit(block) == <<block, kHandleBlockSize>>
Within(p, block) == p[1] = block

\* ResetAfterArchive, and HandleScopeData::Initialize.
Fresh == [next |-> Null, limit |-> Null, blocks |-> <<>>, spare |-> 0,
          last_handle_before_deferred_block |-> Null, scopes |-> <<>>]

HandlesInit ==
  /\ active = "none"
  /\ impl = Fresh
  /\ archived = [t \in Threads |-> Fresh]
  /\ detached = {}
  /\ handles = {}

Owned(i) == ToSet(i.blocks) \cup {i.spare}
FreeBlocks == Blocks \ (Owned(impl) \cup (UNION {Owned(archived[t]) : t \in Threads})
                                    \cup (UNION {ToSet(d.blocks) : d \in detached}))

Level == Len(impl.scopes)
Scope == <<active, Level>>
ScopesOpen == Level + MapThenSumSet(LAMBDA t : Len(archived[t].scopes), Threads)
-----------------------------------------------------------------------------
(* External: handles.cc, api.h.                                            *)

NewBlock(i) == IF i.spare # 0 THEN i.spare ELSE Min(FreeBlocks)
HasBlock(i) == i.spare # 0 \/ FreeBlocks # {}

AddBlock(i) ==
  [i EXCEPT !.blocks = Append(@, NewBlock(i)), !.spare = 0,
            !.next = Start(NewBlock(i)), !.limit = Limit(NewBlock(i))]

Extend(i) == IF i.next = i.limit THEN AddBlock(i) ELSE i
CanExtend(i) == i.next = i.limit => HasBlock(i)

\* Blocks from the last one on until the one with the limit; the last one that goes is spare.
DeleteExtensions(i, prev_limit) ==
  LET keep == Max({0} \cup {k \in DOMAIN i.blocks : Within(prev_limit, i.blocks[k])})
  IN IF keep = Len(i.blocks) THEN i
     ELSE [i EXCEPT !.blocks = SubSeq(@, 1, keep), !.spare = i.blocks[keep + 1]]

CloseScope(i, scope) ==
  LET closed == [i EXCEPT !.next = scope.next, !.limit = scope.limit, !.scopes = Front(@)]
  IN IF i.limit # scope.limit THEN DeleteExtensions(closed, scope.limit) ELSE closed

\* The next position is taken.
Take(i) == [i EXCEPT !.next = <<@[1], @[2] + 1>>]
-----------------------------------------------------------------------------
(* HandleScope and EscapableHandleScope                                    *)

Saved(i, kind) == [kind |-> kind, next |-> i.next, limit |-> i.limit, escaped |-> FALSE]

\* HandleScope::Initialize
Initialize(i, kind) == [i EXCEPT !.scopes = Append(@, Saved(i, kind))]

IsEntered == active \in Threads

OpenScope ==
  /\ IsEntered /\ ScopesOpen < MaxScopes
  /\ impl' = Initialize(impl, "scope")
  /\ UNCHANGED <<active, archived, detached, handles>>

\* There has to be a scope.
CreateHandle ==
  /\ IsEntered /\ Level > 0 /\ CanExtend(impl)
  /\ LET i == Extend(impl)
     IN /\ impl' = Take(i)
        /\ handles' = handles \cup {[scope |-> Scope, slot |-> i.next]}
  /\ UNCHANGED <<active, archived, detached>>

\* The slot of the value that escapes is in the scope outside.
OpenEscapableScope ==
  /\ IsEntered /\ Level > 0 /\ CanExtend(impl) /\ ScopesOpen < MaxScopes
  /\ LET i == Extend(impl)
     IN /\ impl' = Initialize(Take(i), "escapable")
        /\ handles' = handles \cup {[scope |-> Scope, slot |-> i.next]}
  /\ UNCHANGED <<active, archived, detached>>

\* A value escapes once, to the slot outside.
Escape ==
  /\ IsEntered
  /\ \E k \in DOMAIN impl.scopes :
       /\ impl.scopes[k].kind = "escapable" /\ ~impl.scopes[k].escaped
       /\ \E h \in handles : h.scope = <<active, k>>
       /\ impl' = [impl EXCEPT !.scopes[k].escaped = TRUE]
  /\ UNCHANGED <<active, archived, detached, handles>>

\* ~HandleScope
DeleteScope ==
  /\ IsEntered /\ Level > 0
  /\ Last(impl.scopes).kind # "deferred"
  /\ impl' = CloseScope(impl, Last(impl.scopes))
  /\ handles' = {h \in handles : h.scope # Scope}
  /\ UNCHANGED <<active, archived, detached>>
-----------------------------------------------------------------------------
(* Deferred handles                                                        *)

\* DeferredHandleScope: what follows is in blocks of its own.
BeginDeferredScope ==
  /\ IsEntered /\ ScopesOpen < MaxScopes
  /\ impl.last_handle_before_deferred_block = Null
  /\ impl.blocks # <<>> /\ HasBlock(impl)
  /\ impl' = AddBlock([Initialize(impl, "deferred")
                         EXCEPT !.last_handle_before_deferred_block = impl.next])
  /\ UNCHANGED <<active, archived, detached, handles>>

\* The blocks since the scope began.
Detached(i, prev_limit) ==
  LET keep == Max({k \in DOMAIN i.blocks : Limit(i.blocks[k]) = prev_limit})
  IN [id |-> Cardinality(detached) + 1, limit |-> i.next,
      blocks |-> Reverse(SubSeq(i.blocks, keep + 1, Len(i.blocks)))]

Detach ==
  /\ IsEntered /\ Level > 0
  /\ LET scope == Last(impl.scopes)
         d     == Detached(impl, scope.limit)
     IN /\ scope.kind = "deferred"
        /\ detached' = detached \cup {d}
        /\ impl' = [impl EXCEPT !.blocks = SubSeq(@, 1, Len(@) - Len(d.blocks)),
                                !.last_handle_before_deferred_block = Null,
                                !.next = scope.next, !.limit = scope.limit,
                                !.scopes = Front(@)]
        /\ handles' = {IF h.scope = Scope THEN [h EXCEPT !.scope = <<"detached", d.id>>]
                       ELSE h : h \in handles}
  /\ UNCHANGED <<active, archived>>

\* ~DeferredHandles: of the blocks it returns the last one stays.
DeleteDeferredHandles ==
  /\ IsEntered
  /\ \E d \in detached :
       /\ \A c \in detached : c.id <= d.id
       /\ detached' = detached \ {d}
       /\ impl' = [impl EXCEPT !.spare = Last(d.blocks)]
       /\ handles' = {h \in handles : h.scope # <<"detached", d.id>>}
  /\ UNCHANGED <<active, archived>>
-----------------------------------------------------------------------------
(* Threads                                                                 *)

ArchiveThread ==
  /\ IsEntered
  /\ archived' = [archived EXCEPT ![active] = impl]
  /\ impl' = Fresh
  /\ active' = "none"
  /\ UNCHANGED <<detached, handles>>

RestoreThread(t) ==
  /\ active = "none"
  /\ impl' = archived[t]
  /\ archived' = [archived EXCEPT ![t] = Fresh]
  /\ active' = t
  /\ UNCHANGED <<detached, handles>>

HandlesNext ==
  \/ OpenScope \/ CreateHandle \/ OpenEscapableScope \/ Escape \/ DeleteScope
  \/ BeginDeferredScope \/ Detach \/ DeleteDeferredHandles
  \/ ArchiveThread \/ \E t \in Threads : RestoreThread(t)

HandlesSpec == HandlesInit /\ [][HandlesNext]_handleVars
-----------------------------------------------------------------------------
(* What the garbage collector visits.                                      *)

VisitPointers(block, limit) ==
  {s \in Slots : s[1] = block /\ (Within(limit, block) => s[2] < limit[2])}

\* Mutant: all blocks but the last one are full.
IterateFull(i) ==
  UNION {VisitPointers(i.blocks[k], IF k = Len(i.blocks) THEN i.next ELSE Null) :
           k \in DOMAIN i.blocks}

\* All blocks but the last are full, except the one before a deferred scope.
IterateThis(i) ==
  UNION {VisitPointers(i.blocks[k], IF k = Len(i.blocks) THEN i.next
                                    ELSE i.last_handle_before_deferred_block) :
           k \in DOMAIN i.blocks}

IterateDeferred(d) ==
  UNION {VisitPointers(d.blocks[k], IF k = 1 THEN d.limit ELSE Null) : k \in DOMAIN d.blocks}

Iterate == IterateThis(impl)
           \cup (UNION {IterateThis(archived[t]) : t \in Threads})
           \cup (UNION {IterateDeferred(d) : d \in detached})

\* The collector visits the slots of the handles that live and no others, whichever scopes
\* they were created in, were detached from or are archived with; no two handles share a
\* slot, and what escapes a scope is held outside.
HandlesAreRoots ==
  /\ Iterate = {h.slot : h \in handles}
  /\ \A g, h \in handles : g.slot = h.slot => g = h
=============================================================================
